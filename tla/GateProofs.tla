----------------------------- MODULE GateProofs ------------------------------
(***************************************************************************)
(* The proofs that Access implements Gate, for any number of connections,  *)
(* accounts, principals, CAs and answers, and that it does so when the     *)
(* loop of Client.Run drives it, for any lists of the core.                *)
(***************************************************************************)
EXTENDS Control, AccessProofs

USE DEF daemonVars, serverVars, syncVars, connVars

Cleared == {"clearCache", "clearConfig", "exit"}

InForceType ==
  inForce \in [principals : [Users -> SUBSET Principals], trusted : SUBSET CAs,
               retired : [CAs -> Nat], asOf : Nat]

\* The trust in force is the server's until SetTrust takes over the next one's.
TrustInForce ==
  up /\ pc \notin {"sweep", "sweeping"} =>
    inForce.trusted = trustedCAs /\ inForce.retired = retiredCAs /\ inForce.asOf = sweptAt

\* The principals in force are the cache's until Replace; on the way out after a
\* rejection the cache is empty.
NamesInForce ==
  up /\ ~HalfApplied =>
    /\ pc \notin Cleared => inForce.principals = cache.principals
    /\ pc \in Cleared => \A u \in Users : cache.principals[u] = {}

\* A login's half that the list in force admits, or the one being applied.
NameKnown(c) == Name(c) \in ListInForce.names \cup ComingList.names
CaKnown(c) == login[c].ca \in ListInForce.cas \cup ComingList.cas

\* A connection that sweeps is closed, has still to be visited, or is known by each of
\* its halves: no list comes into force while it holds liveMu.
OwnProgress ==
  \A c \in Conns : phase[c] = "sweeping" =>
    \/ c \in closed
    \/ c \in sweep.todo /\ (sweep.cur = c => NameKnown(c))
    \/ NameKnown(c) /\ CaKnown(c)

HistoryInv == InForceType /\ TrustInForce /\ NamesInForce /\ OwnProgress
-----------------------------------------------------------------------------
\* The lists as the gate sees them.
LEMMA ListsAreTyped == ListInForce \in G!Lists /\ ComingList \in G!Lists
<1>1. \A l : AsList(l) \in G!Lists
  BY DEF AsList, G!Lists
<1> QED
  BY <1>1 DEF ListInForce, ComingList

\* A principal that the cache has is on one of the two lists.
LEMMA PrincipalKnown ==
  ASSUME TypeOK, LiveShape, HistoryInv, NEW c \in Conns, phase[c] # "none", PrincipalOK(c)
  PROVE  NameKnown(c)
<1>1. /\ up /\ login[c].user \in Users
      /\ login[c].principal \in cache.principals[login[c].user]
  BY DEF LiveShape, PrincipalOK
<1>2. Name(c) \in Users \X Principals /\ Name(c)[1] = login[c].user
      /\ Name(c)[2] = login[c].principal
  BY <1>1 DEF Name, TypeOK, List
<1>3. CASE HalfApplied
  <2>1. Name(c)[2] \in BeingApplied.principals[Name(c)[1]]
    BY <1>1, <1>2 DEF BeingApplied
  <2> QED
    BY <1>2, <1>3, <2>1 DEF NameKnown, ComingList, AsList
<1>4. CASE ~HalfApplied
  <2>1. Name(c)[2] \in inForce.principals[Name(c)[1]]
    BY <1>1, <1>2, <1>4 DEF HistoryInv, NamesInForce
  <2> QED
    BY <1>2, <2>1 DEF NameKnown, ListInForce, AsList
<1> QED
  BY <1>3, <1>4

\* A CA that the server trusts is trusted by one of the two lists.
LEMMA TrustKnown ==
  ASSUME TypeOK, LiveShape, LockShape, HistoryInv, NEW c \in Conns, phase[c] # "none",
         TrustedCA(login[c].ca)
  PROVE  CaKnown(c)
<1> DEFINE k == login[c].ca
<1>1. up /\ k \in CAs
  BY DEF LiveShape
<1>2. k \in trustedCAs \/ sweptAt < retiredCAs[k]
  BY <1>1 DEF TrustedCA, LockShape, TypeOK
<1>3. CASE pc \in {"sweep", "sweeping"}
  <2>1. k \in BeingApplied.trusted \/ BeingApplied.asOf < BeingApplied.retired[k]
    BY <1>2, <1>3 DEF BeingApplied
  <2>2. k \in AsList(BeingApplied).cas
    BY <1>1, <2>1 DEF AsList
  <2> QED
    BY <1>3, <2>2 DEF CaKnown, ComingList, HalfApplied
<1>4. CASE pc \notin {"sweep", "sweeping"}
  <2>1. k \in inForce.trusted \/ inForce.asOf < inForce.retired[k]
    BY <1>1, <1>2, <1>4 DEF HistoryInv, TrustInForce
  <2> QED
    BY <1>1, <2>1 DEF CaKnown, ListInForce, AsList
<1> QED
  BY <1>3, <1>4

\* Which steps bring a list into force.
LEMMA CommitSteps ==
  ASSUME TypeOK, LiveShape, LockShape, Next
  PROVE  /\ Start \/ Enroll \/ SyncSweepDone => Commits
         /\ Commits => Start \/ Enroll \/ SyncSweepDone
<1>1. Start \/ Enroll => Commits
  BY DEF Start, Enroll, StartServer, Commits
<1>2. SyncSweepDone => Commits
  BY DEF SyncSweepDone, LockShape, Commits
<1>3. Crash \/ Exit \/ Unenroll => ~Commits
  BY Zenon DEF Crash, Exit, Unenroll, ProcessEnds, Commits
<1>4. Tick \/ EnrollCut => ~Commits
  BY DEF Tick, EnrollCut, Commits
<1>5. SyncStep => ~Commits
  BY SyncStepFrame DEF Commits
<1>6. SyncSweep => ~Commits
  BY DEF SyncSweep, Commits, LiveShape
<1>7. ASSUME NEW c \in Conns, SweepPrincipal(c) \/ SweepCA(c) \/ ConnNext(c)
      PROVE  ~Commits
  <2>1. up' = up /\ pc' = pc
    BY <1>7, Zenon DEF SweepPrincipal, SweepCA, ConnNext, AuthCA, AuthPrincipal, HandshakeFails,
                Register, OwnSweep, OwnSweepDone, HangUp, Leave
  <2> QED
    BY <2>1 DEF Commits
<1> QED
  BY <1>1, <1>2, <1>3, <1>4, <1>5, <1>6, <1>7 DEF Next, SyncNext, SyncStep

\* What depends on the state of the syncer and of the server alone.
LEMMA ListsFrame ==
  ASSUME UNCHANGED <<inForce, pc, answer, cache, trustedCAs, retiredCAs, sweptAt>>
  PROVE  UNCHANGED <<ListInForce, ComingList, HalfApplied>>
BY DEF ListInForce, ComingList, HalfApplied, AsList, BeingApplied

\* The list in force does not change otherwise.
LEMMA ForceFrame ==
  ASSUME inForce' = inForce
  PROVE  ListInForce' = ListInForce
BY DEF ListInForce, AsList

\* The two commit points leave no list half applied.
LEMMA CommitMatches ==
  ASSUME TypeOK', inForce' = Current', pc' \notin Cleared, pc' \notin {"sweep", "sweeping"}
  PROVE  (InForceType /\ TrustInForce /\ NamesInForce)'
BY DEF TypeOK, List, Current, InForceType, TrustInForce, NamesInForce

\* A step of the syncer outside its sweep begins to apply a list, or leaves both lists
\* as they are.
LEMMA SyncLists ==
  ASSUME TypeOK, LiveShape, SyncStep, inForce' = inForce
  PROVE  /\ ListInForce' = ListInForce
         /\ Replace => ~HalfApplied /\ HalfApplied'
         /\ ~Replace => (HalfApplied' <=> HalfApplied) /\ ComingList' = ComingList
<1>1. ListInForce' = ListInForce
  BY ForceFrame
<1>2. sweptAt' = sweptAt
  BY SyncStepFrame
<1>3. CASE Replace
  BY <1>1, <1>3 DEF Replace, HalfApplied
<1>4. CASE SetPolicy
  <2>1. pc = "policy" /\ pc' = "trust" /\ UNCHANGED <<cache, answer, trustedCAs, retiredCAs>>
    BY <1>4 DEF SetPolicy
  <2>2. BeingApplied' = BeingApplied
    BY <1>2, <2>1 DEF BeingApplied
  <2> QED
    BY <1>1, <1>4, <2>1, <2>2 DEF ComingList, HalfApplied, AsList, Replace
<1>5. CASE SetTrust
  <2>1. /\ pc = "trust" /\ pc' = "sweep" /\ cache' = cache
        /\ trustedCAs' = TrustedBy(answer.ca, trustedCAs)
        /\ retiredCAs' = RetiredBy(answer.ca, answer.retired, retiredCAs)
    BY <1>5 DEF SetTrust
  <2>2. BeingApplied' = BeingApplied
    BY <1>2, <2>1 DEF BeingApplied
  <2> QED
    BY <1>1, <1>5, <2>1, <2>2 DEF ComingList, HalfApplied, AsList, Replace
<1>6. CASE SyncStep /\ ~Replace /\ ~SetPolicy /\ ~SetTrust
  <2>1. ~HalfApplied /\ ~HalfApplied'
    BY <1>6, Zenon DEF SyncStep, SyncStart, SyncFailed, SyncAnswered, SaveCache, SyncRejected,
       ClearCache, SaveClearedCache, SaveClearedConfig, HalfApplied
  <2> QED
    BY <1>1, <1>6, <2>1 DEF ComingList
<1> QED
  BY <1>3, <1>4, <1>5, <1>6

\* OwnProgress after a step that leaves connections and sweep alone and forgets no list.
LEMMA ProgressFrame ==
  ASSUME OwnProgress, UNCHANGED <<phase, login, closed, sweep>>,
         ListInForce' = ListInForce,
         ~HalfApplied \/ ComingList' = ComingList
  PROVE  OwnProgress'
<1>1. ~HalfApplied => ComingList = ListInForce
  BY DEF ComingList
<1>2. \A c \in Conns : NameKnown(c) => NameKnown(c)'
  BY <1>1 DEF NameKnown, Name
<1>3. \A c \in Conns : CaKnown(c) => CaKnown(c)'
  BY <1>1 DEF CaKnown
<1> QED
  BY <1>2, <1>3 DEF OwnProgress

\* A step that leaves the lists, the syncer and the sweep alone, and lets no
\* connection start to sweep.
LEMMA HistoryFrame ==
  ASSUME HistoryInv,
         UNCHANGED <<inForce, up, pc, answer, cache, trustedCAs, retiredCAs, sweptAt, sweep>>,
         \A c \in Conns : phase'[c] = "sweeping" =>
           phase[c] = "sweeping" /\ login'[c] = login[c] /\ (c \in closed => c \in closed')
  PROVE  HistoryInv'
<1>1. InForceType' /\ TrustInForce' /\ NamesInForce'
  BY DEF HistoryInv, InForceType, TrustInForce, NamesInForce, HalfApplied
<1>2. ListInForce' = ListInForce /\ ComingList' = ComingList
  BY ListsFrame
<1>3. \A c \in Conns : login'[c] = login[c] =>
        (NameKnown(c)' <=> NameKnown(c)) /\ (CaKnown(c)' <=> CaKnown(c))
  BY <1>2 DEF NameKnown, CaKnown, Name
<1>4. OwnProgress'
  BY <1>3 DEF HistoryInv, OwnProgress
<1> QED
  BY <1>1, <1>4 DEF HistoryInv

\* Every step keeps the list in force in line with what the server uses.
LEMMA HistoryInductive ==
  ASSUME TypeOK, TypeOK', Inv, Inv', HistoryInv, [HistoryNext]_<<vars, inForce>>
  PROVE  HistoryInv'
<1> USE DEF Inv
<1>1. CASE Commits /\ HistoryNext
  <2>1. pc' \notin Cleared /\ pc' \notin {"sweep", "sweeping"}
    BY <1>1, CommitSteps, Zenon
    DEF HistoryNext, Start, Enroll, StartServer, SyncSweepDone, LiveShape, Cleared
  <2>2. \A c \in Conns : phase'[c] # "sweeping"
    <3>1. CASE Start \/ Enroll
      BY <3>1 DEF Start, Enroll, StartServer, LiveShape
    <3>2. CASE SyncSweepDone
      BY <3>2, NilAssumption DEF SyncSweepDone, LockShape
    <3> QED
      BY <1>1, <3>1, <3>2, CommitSteps DEF HistoryNext
  <2> QED
    BY <1>1, <2>1, <2>2, CommitMatches DEF HistoryNext, HistoryInv, OwnProgress
<1>2. CASE ~Commits /\ HistoryNext
  <2>1. inForce' = inForce /\ Next /\ ~(Start \/ Enroll \/ SyncSweepDone)
    BY <1>2, CommitSteps DEF HistoryNext
  <2>2. InForceType'
    BY <2>1 DEF HistoryInv, InForceType
  <2>3. CASE Crash \/ Exit \/ Unenroll
    <3>1. ~up' /\ \A c \in Conns : phase'[c] # "sweeping"
      BY <2>3, Zenon DEF Crash, Exit, Unenroll, ProcessEnds
    <3> QED
      BY <2>2, <3>1 DEF HistoryInv, TrustInForce, NamesInForce, OwnProgress
  <2>4. CASE Tick \/ EnrollCut
    BY <2>1, <2>4, HistoryFrame, Zenon DEF Tick, EnrollCut
  <2>5. CASE SyncSweep
    <3>1. \A c \in Conns : phase'[c] # "sweeping"
      BY <2>5, NilAssumption DEF SyncSweep, LockLive, LockShape
    <3>2. pc' = "sweeping"
      BY <2>5 DEF SyncSweep
    <3> QED
      BY <2>2, <3>1, <3>2 DEF HistoryInv, TrustInForce, NamesInForce, OwnProgress, HalfApplied
  <2>6. CASE SyncStep
    <3>1. UNCHANGED <<connVars, sweep, now, sweptAt, up>> /\ up
      BY <2>6, SyncStepFrame
    <3>2. OwnProgress'
      BY <2>1, <2>6, <3>1, SyncLists, ProgressFrame DEF HistoryInv
    <3>3. TrustInForce'
      <4>1. SetTrust => pc' = "sweep"
        BY DEF SetTrust
      <4>2. ~SetTrust => UNCHANGED <<trustedCAs, retiredCAs>> /\ pc \notin {"sweep", "sweeping"}
        BY <2>6, Zenon DEF SyncStep, SyncStart, SyncFailed, SyncAnswered, Replace, SetPolicy,
           SaveCache, SyncRejected, ClearCache, SaveClearedCache, SaveClearedConfig
      <4> QED
        BY <2>1, <3>1, <4>1, <4>2 DEF HistoryInv, TrustInForce
    <3>4. NamesInForce'
      <4>1. CASE Replace \/ SetPolicy \/ SetTrust
        BY <4>1 DEF Replace, SetPolicy, SetTrust, HalfApplied, NamesInForce
      <4>2. CASE ClearCache
        BY <4>2 DEF ClearCache, EmptyList, Cleared, NamesInForce
      <4>3. CASE SyncStart \/ SyncFailed \/ SyncAnswered \/ SyncRejected \/ SaveCache
                 \/ SaveClearedCache \/ SaveClearedConfig
        <5>1. (pc' \in Cleared <=> pc \in Cleared) /\ ~HalfApplied /\ cache' = cache
          BY <4>3 DEF SyncStart, SyncFailed, SyncAnswered, SyncRejected, SaveCache,
             SaveClearedCache, SaveClearedConfig, HalfApplied, Cleared
        <5> QED
          BY <2>1, <3>1, <5>1 DEF HistoryInv, NamesInForce
      <4> QED
        BY <2>6, <4>1, <4>2, <4>3 DEF SyncStep
    <3> QED
      BY <2>2, <3>2, <3>3, <3>4 DEF HistoryInv
  <2>7. ASSUME NEW d \in Conns, SweepPrincipal(d) \/ SweepCA(d)
        PROVE  HistoryInv'
    <3>1. UNCHANGED <<up, pc, answer, cache, trustedCAs, retiredCAs, sweptAt, phase, login>>
      BY <2>7 DEF SweepPrincipal, SweepCA
    <3>2. TrustInForce' /\ NamesInForce'
      BY <2>1, <3>1 DEF HistoryInv, TrustInForce, NamesInForce, HalfApplied
    <3>3. ListInForce' = ListInForce /\ ComingList' = ComingList
      BY <2>1, <3>1, ListsFrame
    <3>4. \A c \in Conns : (NameKnown(c)' <=> NameKnown(c)) /\ (CaKnown(c)' <=> CaKnown(c))
      BY <3>1, <3>3 DEF NameKnown, CaKnown, Name
    <3>5. d \in live /\ phase[d] # "none"
      BY <2>7, NilAssumption DEF SweepPrincipal, SweepCA, LockShape, LiveShape, TypeOK
    <3>6. CASE SweepPrincipal(d)
      <4>1. PrincipalOK(d) => NameKnown(d)
        BY <3>5, PrincipalKnown
      <4>2. /\ PrincipalOK(d) => sweep'.todo = sweep.todo /\ sweep'.cur = d /\ closed' = closed
            /\ ~PrincipalOK(d) => /\ sweep'.todo = sweep.todo \ {d} /\ sweep'.cur = sweep.cur
                                  /\ closed' = closed \cup {d}
        BY <3>6 DEF SweepPrincipal, TypeOK
      <4>3. OwnProgress'
        BY <3>1, <3>4, <4>1, <4>2 DEF HistoryInv, OwnProgress
      <4> QED
        BY <2>2, <3>2, <4>3 DEF HistoryInv
    <3>7. CASE SweepCA(d)
      <4>1. TrustedCA(login[d].ca) => CaKnown(d)
        BY <3>5, TrustKnown
      <4>2. /\ sweep.cur = d /\ sweep'.todo = sweep.todo \ {d} /\ sweep'.cur = Nil
            /\ closed \subseteq closed' /\ (~TrustedCA(login[d].ca) => d \in closed')
        BY <3>7 DEF SweepCA, TypeOK
      <4>3. OwnProgress'
        BY <3>1, <3>4, <4>1, <4>2, NilAssumption DEF HistoryInv, OwnProgress
      <4> QED
        BY <2>2, <3>2, <4>3 DEF HistoryInv
    <3> QED
      BY <2>7, <3>6, <3>7
  <2>8. ASSUME NEW d \in Conns, OwnSweep(d)
        PROVE  HistoryInv'
    <3>1. UNCHANGED <<up, pc, cache, trustedCAs, retiredCAs, sweptAt>>
      BY <2>8 DEF OwnSweep
    <3>2. TrustInForce' /\ NamesInForce'
      BY <2>1, <3>1 DEF HistoryInv, TrustInForce, NamesInForce, HalfApplied
    <3>3. \A c \in Conns : phase'[c] = "sweeping" => c = d
      BY <2>8, NilAssumption DEF OwnSweep, LockLive, LockShape, TypeOK
    <3>4. d \in sweep'.todo /\ sweep'.cur # d
      BY <2>8, NilAssumption DEF OwnSweep, LockLive, LiveShape
    <3> QED
      BY <2>2, <3>2, <3>3, <3>4 DEF HistoryInv, OwnProgress
  <2>9. ASSUME NEW d \in Conns, OwnSweepDone(d)
        PROVE  HistoryInv'
    <3>1. UNCHANGED <<up, pc, cache, trustedCAs, retiredCAs, sweptAt>>
      BY <2>9 DEF OwnSweepDone
    <3>2. TrustInForce' /\ NamesInForce'
      BY <2>1, <3>1 DEF HistoryInv, TrustInForce, NamesInForce, HalfApplied
    <3>3. \A c \in Conns : phase'[c] # "sweeping"
      BY <2>9 DEF OwnSweepDone, LockShape, TypeOK
    <3> QED
      BY <2>2, <3>2, <3>3 DEF HistoryInv, OwnProgress
  <2>10. ASSUME NEW d \in Conns,
                \/ \E u \in Users, k \in CAs : AuthCA(d, u, k)
                \/ \E q \in Principals : AuthPrincipal(d, q)
                \/ HandshakeFails(d) \/ Register(d) \/ HangUp(d) \/ Leave(d)
         PROVE  HistoryInv'
    <3>1. UNCHANGED <<up, pc, answer, cache, trustedCAs, retiredCAs, sweptAt, sweep>>
      BY <2>10, Zenon DEF AuthCA, AuthPrincipal, HandshakeFails, Register, HangUp, Leave
    <3>2. \A c \in Conns : phase'[c] = "sweeping" =>
            phase[c] = "sweeping" /\ login'[c] = login[c] /\ (c \in closed => c \in closed')
      BY <2>10, ZenonT(60) DEF AuthCA, AuthPrincipal, HandshakeFails, Register, HangUp, Leave,
         TypeOK
    <3> QED
      BY <2>1, <3>1, <3>2, HistoryFrame, Zenon
  <2> QED
    BY <2>1, <2>3, <2>4, <2>5, <2>6, <2>7, <2>8, <2>9, <2>10
    DEF Next, SyncNext, SyncStep, ConnNext
<1>3. CASE UNCHANGED <<vars, inForce>>
  BY <1>3, HistoryFrame, Zenon DEF vars
<1> QED
  BY <1>1, <1>2, <1>3
-----------------------------------------------------------------------------
(* The simulation. *)

gateState == <<ListInForce, HalfApplied, ComingList, OpenNow>>

\* A step that keeps the served connections and both lists is a stutter.
LEMMA OpenFrame ==
  ASSUME \A c \in Conns : phase'[c] = "serving" /\ c \notin closed' <=>
                          phase[c] = "serving" /\ c \notin closed,
         \A c \in Conns : phase[c] = "serving" /\ c \notin closed => login'[c] = login[c]
  PROVE  OpenNow' = OpenNow
<1>1. OpenConns' = OpenConns
  BY DEF OpenConns
<1>2. \A c \in OpenConns : Served(c)' = Served(c)
  BY DEF OpenConns, Served, Name
<1> QED
  BY <1>1, <1>2 DEF OpenNow

\* Closing one connection ends it, or is a stutter when it was not open.
LEMMA CloseStep ==
  ASSUME UNCHANGED <<ListInForce, HalfApplied, ComingList>>, NEW d \in Conns,
         UNCHANGED <<phase, login>>, closed' = closed \/ closed' = closed \cup {d}
  PROVE  [G!GateNext]_gateState
<1>1. \A c \in Conns : Served(c)' = Served(c) /\ Served(c).conn = c
  BY DEF Served, Name
<1>2. CASE d \in OpenConns /\ closed' = closed \cup {d}
  <2>1. OpenConns' = OpenConns \ {d}
    BY <1>2 DEF OpenConns
  <2>2. OpenNow' = OpenNow \ {Served(d)} /\ Served(d) \in OpenNow
    BY <1>1, <1>2, <2>1 DEF OpenNow, OpenConns
  <2>3. G!End(Served(d))
    BY <2>2 DEF G!End
  <2> QED
    BY <2>2, <2>3 DEF G!GateNext
<1>3. CASE d \notin OpenConns \/ closed' = closed
  <2>1. OpenConns' = OpenConns
    BY <1>3 DEF OpenConns
  <2>2. OpenNow' = OpenNow
    BY <1>1, <2>1 DEF OpenNow, OpenConns
  <2> QED
    BY <2>2 DEF gateState
<1> QED
  BY <1>2, <1>3

\* The connection whose own sweep has ended is closed, or enters the gate.
LEMMA EnterStep ==
  ASSUME TypeOK, Inv, HistoryInv, UNCHANGED <<ListInForce, HalfApplied, ComingList>>,
         NEW d \in Conns, OwnSweepDone(d)
  PROVE  [G!GateNext]_gateState
<1> USE DEF Inv
<1>1. /\ phase[d] = "sweeping" /\ sweep.todo = {} /\ UNCHANGED <<login, closed>>
      /\ phase' = [phase EXCEPT ![d] = "serving"]
  BY DEF OwnSweepDone, SweepDone, LockShape
<1>2. \A c \in Conns : Served(c)' = Served(c) /\ Served(c).conn = c
  BY <1>1 DEF Served, Name
<1>3. CASE d \in closed
  <2>1. OpenConns' = OpenConns
    BY <1>1, <1>3 DEF OpenConns, TypeOK
  <2>2. OpenNow' = OpenNow
    BY <1>2, <2>1 DEF OpenNow, OpenConns
  <2> QED
    BY <2>2 DEF gateState
<1>4. CASE d \notin closed
  <2>1. NameKnown(d) /\ CaKnown(d)
    BY <1>1, <1>4 DEF HistoryInv, OwnProgress
  <2>2. OpenConns' = OpenConns \cup {d} /\ d \notin OpenConns
    BY <1>1, <1>4 DEF OpenConns, TypeOK
  <2>3. OpenNow' = OpenNow \cup {Served(d)} /\ \A o \in OpenNow : o.conn # d
    BY <1>2, <2>2 DEF OpenNow, OpenConns
  <2>4. ~HalfApplied => ComingList = ListInForce
    BY DEF ComingList
  <2>5. /\ Served(d).conn = d /\ Served(d).name = Name(d) /\ Served(d).ca = login[d].ca
        /\ Name(d) \in Users \X Principals /\ login[d].ca \in CAs
    BY <2>1, ListsAreTyped DEF Served, NameKnown, CaKnown, G!Lists
  <2>6. Served(d) \in [conn : Conns, name : Users \X Principals, ca : CAs]
    BY <2>5 DEF Served
  <2>7. G!Enter(Served(d))
    BY <2>1, <2>3, <2>4, <2>5 DEF G!Enter, NameKnown, CaKnown
  <2> QED
    BY <2>6, <2>7 DEF G!GateNext
<1> QED
  BY <1>3, <1>4

\* When the sync's sweep has ended, its list comes into force as a whole, and whoever
\* is still there is on it.
LEMMA ApplyStep ==
  ASSUME TypeOK, TypeOK', Inv, Inv', inForce' = Current', SyncSweepDone
  PROVE  G!Apply
<1> USE DEF Inv
<1>1. /\ HalfApplied /\ UNCHANGED <<phase, login, closed, cache, trustedCAs, retiredCAs, sweptAt>>
      /\ pc = "sweeping" /\ up' /\ ~HalfApplied' /\ Settled'
  BY DEF SyncSweepDone, LockShape, LiveShape, HalfApplied, Settled
<1>2. ListInForce' = ComingList /\ ComingList' = ComingList
  <2>1. BeingApplied = Current /\ Current' = Current
    BY <1>1 DEF BeingApplied, Current
  <2> QED
    BY <1>1, <2>1 DEF ListInForce, ComingList, AsList
<1>3. ASSUME NEW c \in OpenConns
      PROVE  G!Lets(ComingList, Served(c))
  <2>1. c \in Conns /\ phase[c] = "serving" /\ c \notin closed
    BY DEF OpenConns
  <2>2. Admitted(c)'
    BY <1>1, <2>1 DEF RevokedAreClosed
  <2>3. Admitted(c)
    BY <1>1, <2>2 DEF Admitted, PrincipalOK
  <2>4. login[c].user \in Users /\ login[c].ca \in CAs
    BY <2>1 DEF LiveShape
  <2>5. /\ Name(c) \in Users \X Principals /\ Name(c)[1] = login[c].user
        /\ Name(c)[2] = login[c].principal
    BY <2>3, <2>4 DEF Admitted, PrincipalOK, Name, TypeOK, List
  <2>6. Name(c) \in AsList(BeingApplied).names
    BY <2>3, <2>5 DEF Admitted, PrincipalOK, AsList, BeingApplied
  <2>7. login[c].ca \in AsList(BeingApplied).cas
    BY <1>1, <2>3, <2>4 DEF Admitted, AsList, BeingApplied
  <2> QED
    BY <1>1, <2>6, <2>7 DEF G!Lets, ComingList, Served
<1>4. OpenNow' = OpenNow
  BY <1>1, OpenFrame
<1>5. \A o \in OpenNow : G!Lets(ComingList, o)
  BY <1>3 DEF OpenNow
<1> QED
  BY <1>1, <1>2, <1>4, <1>5 DEF G!Apply

\* When the sync's sweep begins, deadlines that have passed take CAs off its list.
LEMMA ExpireStep ==
  ASSUME TypeOK, LockShape, SyncSweep, inForce' = inForce
  PROVE  G!Expire
<1>1. /\ pc = "sweep" /\ pc' = "sweeping" /\ sweptAt' = now
      /\ UNCHANGED <<phase, login, closed, cache, trustedCAs, retiredCAs>>
  BY DEF SyncSweep
<1>2. ListInForce' = ListInForce /\ OpenNow' = OpenNow /\ HalfApplied /\ HalfApplied'
  BY <1>1, ForceFrame, OpenFrame DEF HalfApplied
<1>3. /\ ComingList = AsList(BeingApplied) /\ ComingList' = AsList(BeingApplied)'
      /\ BeingApplied'.principals = BeingApplied.principals
      /\ BeingApplied'.trusted = BeingApplied.trusted
      /\ BeingApplied'.retired = BeingApplied.retired
      /\ BeingApplied.retired = retiredCAs
      /\ BeingApplied.asOf = sweptAt /\ BeingApplied'.asOf = now
  BY <1>1, <1>2 DEF ComingList, BeingApplied
<1>4. ComingList'.names = ComingList.names
  BY <1>3 DEF AsList
<1>5. \A k \in CAs : now < retiredCAs[k] => sweptAt < retiredCAs[k]
  BY DEF LockShape, TypeOK
<1>6. ComingList'.cas \subseteq ComingList.cas
  BY <1>3, <1>5 DEF AsList
<1> QED
  BY <1>2, <1>4, <1>6 DEF G!Expire

\* Every step of the daemon is a step of the gate or a stutter.
LEMMA GateStep ==
  ASSUME TypeOK, TypeOK', Inv, Inv', HistoryInv, [HistoryNext]_<<vars, inForce>>
  PROVE  [G!GateNext]_gateState
<1> USE DEF Inv
<1>1. CASE Commits /\ HistoryNext
  <2>1. CASE SyncSweepDone
    BY <1>1, <2>1, ApplyStep DEF HistoryNext, G!GateNext
  <2>2. CASE Start \/ Enroll
    <3>1. ~up /\ pc = "idle" /\ pc' = "idle" /\ phase' = phase
      BY <2>2 DEF Start, Enroll, StartServer, LiveShape
    <3>2. OpenNow = {} /\ OpenNow' = {}
      BY <3>1 DEF LiveShape, OpenNow, OpenConns
    <3>3. ~HalfApplied /\ ~HalfApplied' /\ HalfApplied' = HalfApplied
      BY <3>1 DEF HalfApplied
    <3>4. ListInForce' \in G!Lists /\ ComingList' = ListInForce'
      <4>1. AsList(inForce)' \in G!Lists
        BY DEF AsList, G!Lists
      <4> QED
        BY <3>3, <4>1 DEF ListInForce, ComingList
    <3>5. G!Load
      BY <3>2, <3>3, <3>4, Zenon DEF G!Load
    <3> QED
      BY <3>5 DEF G!GateNext
  <2> QED
    BY <1>1, <2>1, <2>2, CommitSteps DEF HistoryNext
<1>2. CASE ~Commits /\ HistoryNext
  <2>1. inForce' = inForce /\ Next /\ ~(Start \/ Enroll \/ SyncSweepDone)
    BY <1>2, CommitSteps DEF HistoryNext
  <2>2. ListInForce' = ListInForce
    BY <2>1, ForceFrame
  <2>3. CASE Crash \/ Exit \/ Unenroll
    <3>1. phase' = [c \in Conns |-> "none"] /\ pc' = "idle"
      BY <2>3, Zenon DEF Crash, Exit, Unenroll, ProcessEnds
    <3>2. OpenNow' = {} /\ ~HalfApplied'
      BY <3>1 DEF OpenNow, OpenConns, HalfApplied
    <3>3. ComingList' = ListInForce
      BY <2>2, <3>2 DEF ComingList
    <3>4. G!Stop
      BY <2>2, <3>2, <3>3 DEF G!Stop
    <3> QED
      BY <3>4 DEF G!GateNext
  <2>4. CASE Tick \/ EnrollCut
    <3>1. UNCHANGED <<pc, answer, cache, trustedCAs, retiredCAs, sweptAt, phase, login, closed>>
      BY <2>4, Zenon DEF Tick, EnrollCut
    <3> QED
      BY <2>1, <3>1, ListsFrame, OpenFrame DEF gateState
  <2>5. CASE SyncSweep
    BY <2>1, <2>5, ExpireStep DEF G!GateNext
  <2>6. CASE SyncStep
    <3>1. UNCHANGED <<phase, login, closed>>
      BY <2>6, SyncStepFrame
    <3>2. OpenNow' = OpenNow
      BY <3>1, OpenFrame
    <3>3. CASE Replace
      <4>1. ComingList' \in G!Lists
        <5>1. (\A l : AsList(l) \in G!Lists)'
          BY DEF AsList, G!Lists
        <5> QED
          BY <5>1 DEF ComingList, ListInForce
      <4>2. G!Begin
        BY <2>1, <2>2, <2>6, <3>2, <3>3, <4>1, SyncLists DEF G!Begin
      <4> QED
        BY <4>2 DEF G!GateNext
    <3>4. CASE ~Replace
      <4>1. ComingList' = ComingList /\ HalfApplied' = HalfApplied
        <5>1. HalfApplied \in BOOLEAN /\ HalfApplied' \in BOOLEAN
          BY DEF HalfApplied
        <5> QED
          BY <2>1, <2>6, <3>4, <5>1, SyncLists
      <4> QED
        BY <2>2, <3>2, <4>1 DEF gateState
    <3> QED
      BY <3>3, <3>4
  <2>7. ASSUME NEW d \in Conns, SweepPrincipal(d) \/ SweepCA(d) \/ HangUp(d)
        PROVE  [G!GateNext]_gateState
    <3>1. /\ UNCHANGED <<pc, answer, cache, trustedCAs, retiredCAs, sweptAt, phase, login>>
          /\ closed' = closed \/ closed' = closed \cup {d}
      BY <2>7 DEF SweepPrincipal, SweepCA, HangUp
    <3> QED
      BY <2>1, <3>1, ListsFrame, CloseStep
  <2>8. ASSUME NEW d \in Conns, OwnSweepDone(d)
        PROVE  [G!GateNext]_gateState
    <3>1. UNCHANGED <<pc, answer, cache, trustedCAs, retiredCAs, sweptAt>>
      BY <2>8 DEF OwnSweepDone
    <3> QED
      BY <2>1, <2>8, <3>1, ListsFrame, EnterStep
  <2>9. ASSUME NEW d \in Conns,
               \/ \E u \in Users, k \in CAs : AuthCA(d, u, k)
               \/ \E q \in Principals : AuthPrincipal(d, q)
               \/ HandshakeFails(d) \/ Register(d) \/ OwnSweep(d) \/ Leave(d)
        PROVE  [G!GateNext]_gateState
    <3>1. UNCHANGED <<pc, answer, cache, trustedCAs, retiredCAs, sweptAt>>
      BY <2>9, Zenon DEF AuthCA, AuthPrincipal, HandshakeFails, Register, OwnSweep, Leave
    <3>2. \A c \in Conns : phase'[c] = "serving" /\ c \notin closed' <=>
                           phase[c] = "serving" /\ c \notin closed
      BY <2>9, ZenonT(60) DEF AuthCA, AuthPrincipal, HandshakeFails, Register, OwnSweep, Leave,
         TypeOK
    <3>3. \A c \in Conns : phase[c] = "serving" /\ c \notin closed => login'[c] = login[c]
      BY <2>9, Zenon DEF AuthCA, AuthPrincipal, HandshakeFails, Register, OwnSweep, Leave, TypeOK
    <3> QED
      BY <2>1, <3>1, <3>2, <3>3, ListsFrame, OpenFrame DEF gateState
  <2> QED
    BY <2>1, <2>3, <2>4, <2>5, <2>6, <2>7, <2>8, <2>9 DEF Next, SyncNext, SyncStep, ConnNext
<1>3. CASE UNCHANGED <<vars, inForce>>
  BY <1>3, ListsFrame, OpenFrame DEF vars, gateState
<1> QED
  BY <1>1, <1>2, <1>3

(***************************************************************************)
(* The access control implements its abstract specification for every      *)
(* interleaving of syncs, sweeps, handshakes, crashes and restarts: lists  *)
(* come into force one by one, each with every connection ended that it    *)
(* does not admit (DropRevoked, server.go:209), and a connection that      *)
(* enters is known, by each half of its login, to the list in force or to  *)
(* the one that is being applied.                                          *)
(***************************************************************************)
THEOREM AccessIsAGate == HistorySpec => ImplementsGate
<1>1. HistorySpec => Spec
  <2>1. HistoryInit => Init
    BY DEF HistoryInit
  <2>2. [HistoryNext]_<<vars, inForce>> => [Next]_vars
    BY DEF HistoryNext
  <2> QED
    BY <2>1, <2>2, PTL DEF HistorySpec, Spec
<1>2. HistoryInit => HistoryInv
  <2> SUFFICES ASSUME HistoryInit PROVE HistoryInv
    OBVIOUS
  <2>1. ~up /\ inForce = NothingInForce /\ \A c \in Conns : phase[c] = "none"
    BY DEF HistoryInit, Init
  <2>2. InForceType
    BY <2>1, Zenon DEF InForceType, NothingInForce
  <2> QED
    BY <2>1, <2>2 DEF HistoryInv, TrustInForce, NamesInForce, OwnProgress
<1>3. HistoryInit => G!GateInit
  <2> SUFFICES ASSUME HistoryInit PROVE G!GateInit
    OBVIOUS
  <2>1. (\A c \in Conns : phase[c] = "none") /\ inForce = NothingInForce /\ pc = "idle"
    BY DEF HistoryInit, Init
  <2>2. OpenNow = {} /\ ~HalfApplied
    BY <2>1 DEF OpenNow, OpenConns, HalfApplied
  <2>3. ListInForce = [names |-> {}, cas |-> {}]
    <3>1. /\ \A u \in Users : inForce.principals[u] = {}
          /\ inForce.trusted = {} /\ inForce.asOf = 0
          /\ \A k \in CAs : inForce.retired[k] = 0
      BY <2>1 DEF NothingInForce
    <3>2. {n \in Users \X Principals : n[2] \in inForce.principals[n[1]]} = {}
      BY <3>1
    <3>3. {k \in CAs : k \in inForce.trusted \/ inForce.asOf < inForce.retired[k]} = {}
      BY <3>1
    <3> QED
      BY <3>2, <3>3, Zenon DEF ListInForce, AsList
  <2> QED
    BY <2>2, <2>3 DEF G!GateInit, ComingList
<1>4. TypeOK /\ TypeOK' /\ Inv /\ Inv' /\ HistoryInv /\ [HistoryNext]_<<vars, inForce>>
        => HistoryInv'
  BY HistoryInductive
<1>5. TypeOK /\ TypeOK' /\ Inv /\ Inv' /\ HistoryInv /\ [HistoryNext]_<<vars, inForce>>
        => [G!GateNext]_gateState
  BY GateStep
<1>6. gateState = G!gateVars
  BY DEF gateState, G!gateVars
<1> QED
  BY <1>1, <1>2, <1>3, <1>4, <1>5, <1>6, TypeCorrect, Invariance, PTL
  DEF HistorySpec, ImplementsGate, G!GateSpec, G!gateVars, gateState

(***************************************************************************)
(* What the gate is worth: whatever implements it serves nobody whom the   *)
(* list in force does not admit, but while another one is being applied.   *)
(***************************************************************************)
THEOREM GateHolds == G!GateSpec => []G!NobodyElse
<1>1. G!GateInit => G!NobodyElse
  BY DEF G!GateInit, G!NobodyElse
<1>2. G!NobodyElse /\ [G!GateNext]_G!gateVars => G!NobodyElse'
  BY DEF G!NobodyElse, G!GateNext, G!gateVars, G!Enter, G!End, G!Begin, G!Expire, G!Apply, G!Stop,
     G!Load, G!Lets
<1> QED
  BY <1>1, <1>2, PTL DEF G!GateSpec
-----------------------------------------------------------------------------
(***************************************************************************)
(* Control: the daemon as the core drives it.                              *)
(***************************************************************************)
StreamType ==
  /\ work \in Workloads /\ core \in Versions \cup {Deleted} /\ loc \in Locs
  /\ stream \in {"none", "up", "broken"}
  /\ beat \in 0..Len(CoreLists) \cup {Quiet}
  /\ got \in 0..Len(CoreLists) /\ version \in 0..Len(CoreLists)

PokeType == poke \in BOOLEAN

\* The list that a version names.
ListOf(v) == IF v = 0 THEN EmptyList ELSE CoreLists[v]

\* The version follows the list from the disk and from the answer to the cache.
VersionFollows ==
  /\ loc = "start" => ~up /\ pc = "idle" /\ disk = ListOf(version)
  /\ pc = "replace" => answer = ListOf(got)
  /\ up => cache = Replaced(ListOf(version))

ControlInv == StreamType /\ PokeType /\ VersionFollows

\* Where the core sends, the stream moves or the daemon waits, nothing of Access does.
LEMMA StreamSteps ==
  ASSUME CoreNext \/ (RunNext /\ ~Boot)
  PROVE  UNCHANGED vars
BY Zenon DEF CoreNext, RunNext, CoreChanges, CoreHears, Dial, StreamBreaks, Heartbeat,
   ReceiveUpdate, ReceiveFails, BackoffEnds

\* Every other step is one of Access.
LEMMA ControlSteps ==
  ASSUME work \in Workloads, [ControlNext]_controlVars
  PROVE  [HistoryNext]_<<vars, inForce>>
<1>1. CASE UNCHANGED controlVars
  BY <1>1 DEF controlVars, runVars
<1>2. CASE ControlNext
  <2>1. inForce' = IF Commits THEN Current' ELSE inForce
    BY <1>2 DEF ControlNext
  <2>2. ASSUME UNCHANGED vars PROVE ~Commits
    BY <2>2 DEF vars, Commits
  <2>3. CASE CoreNext \/ (RunNext /\ ~Boot)
    BY <2>1, <2>2, <2>3, StreamSteps
  <2>4. CASE Boot
    BY <2>1, <2>4 DEF Boot, HistoryNext, Next
  <2>5. CASE SyncsNext
    <3>1. SyncNext
      BY <2>5, Zenon DEF SyncsNext, SyncNext, Sync, Fails, Answered, Rejected, Store, Apply,
         TakeLive, Saved, RunEnds
    <3> QED
      BY <2>1, <3>1 DEF HistoryNext, Next
  <2>6. work.conns \subseteq Conns
    BY ControlAssumption
  <2>7. CASE Visit \/ \E c \in work.conns : Connects(c)
    <3>1. \E c \in Conns : SweepPrincipal(c) \/ SweepCA(c) \/ ConnNext(c)
      BY <2>6, <2>7, Zenon DEF Visit, Connects, ConnNext
    <3> QED
      BY <2>1, <3>1 DEF HistoryNext, Next
  <2> QED
    BY <1>2, <2>3, <2>4, <2>5, <2>7 DEF ControlNext, RunNext
<1> QED
  BY <1>1, <1>2

\* Every step keeps the loop's place, the versions and the stream within their types.
LEMMA StreamTypeInductive ==
  ASSUME StreamType, [ControlNext]_controlVars
  PROVE  StreamType'
<1> USE DEF StreamType, streamVars, Locs, Versions
<1>1. CASE CoreChanges
  <2>1. core' \in Versions \cup {Deleted}
    BY <1>1, ControlAssumption DEF CoreChanges
  <2> QED
    BY <1>1, <2>1 DEF CoreChanges
<1>2. CASE CoreHears \/ Boot
  BY <1>2 DEF CoreHears, Boot
<1>3. CASE Dial \/ StreamBreaks \/ Heartbeat
  BY <1>3, Zenon DEF Dial, StreamBreaks, Heartbeat
<1>4. CASE ReceiveUpdate \/ ReceiveFails \/ BackoffEnds
  BY <1>4 DEF ReceiveUpdate, ReceiveFails, BackoffEnds
<1>5. CASE Sync \/ Fails \/ Rejected \/ Apply \/ TakeLive \/ Saved \/ RunEnds
  BY <1>5 DEF Sync, Fails, Rejected, Apply, TakeLive, Saved, RunEnds, Resume
<1>6. CASE Answered
  <2>1. core \in 0..Len(CoreLists)
    BY <1>6, ControlAssumption DEF Answered
  <2> QED
    BY <1>6, <2>1 DEF Answered
<1>7. CASE Store
  <2>1. 0 \in 0..Len(CoreLists)
    BY ControlAssumption
  <2> QED
    BY <1>7, <2>1 DEF Store
<1>8. CASE Visit \/ \E c \in work.conns : Connects(c)
  BY <1>8 DEF Visit, Connects, Elsewhere
<1>9. CASE UNCHANGED controlVars
  BY <1>9 DEF controlVars, runVars
<1> QED
  BY <1>1, <1>2, <1>3, <1>4, <1>5, <1>6, <1>7, <1>8, <1>9, Zenon
     DEF ControlNext, CoreNext, RunNext, SyncsNext

\* Every step keeps the flags of the stream Boolean.
LEMMA PokeTypeInductive ==
  ASSUME PokeType, [ControlNext]_controlVars
  PROVE  PokeType'
BY Zenon DEF PokeType, streamVars, controlVars, runVars, ControlNext, CoreNext, RunNext, SyncsNext,
   CoreChanges, CoreHears, Boot, Dial, StreamBreaks, Heartbeat, ReceiveUpdate, ReceiveFails,
   BackoffEnds, Sync, Fails, Answered, Rejected, Store, Apply, TakeLive, Saved, RunEnds, Visit,
   Connects, Elsewhere

\* There is nothing in an empty list for the filter on account names to drop.
LEMMA NothingListed == Replaced(EmptyList) = EmptyList
<1>1. EmptyList.principals = [u \in Users |-> {}]
  BY DEF EmptyList
<1>2. ValidPrincipals(EmptyList.principals) = EmptyList.principals
  BY <1>1 DEF ValidPrincipals
<1> QED
  BY <1>2, Zenon DEF Replaced, EmptyList

\* A version moves with the list it is of, from the core's answer to the cache.
LEMMA VersionInductive ==
  ASSUME StreamType, LockShape, VersionFollows, [ControlNext]_controlVars
  PROVE  VersionFollows'
<1> USE DEF VersionFollows
<1>1. CASE CoreNext \/ (RunNext /\ ~Boot)
  <2>1. UNCHANGED vars
    BY <1>1, StreamSteps
  <2>2. version' = version /\ got' = got /\ (loc' = "start" => loc = "start")
    BY <1>1, Zenon DEF CoreNext, RunNext, CoreChanges, CoreHears, Dial, StreamBreaks, Heartbeat,
       ReceiveUpdate, ReceiveFails, BackoffEnds
  <2> QED
    BY <2>1, <2>2 DEF vars, ListOf
<1>2. CASE Boot
  BY <1>2 DEF Boot, Start, StartServer, ListOf
<1>3. CASE Sync \/ Fails \/ Rejected
  BY <1>3 DEF Sync, Fails, Rejected, SyncStart, SyncFailed, SyncRejected, Resume, ListOf
<1>4. CASE Answered
  <2>1. core # 0
    BY <1>4, ControlAssumption DEF Answered, StreamType, Versions
  <2> QED
    BY <1>4, <2>1 DEF Answered, SyncAnswered, ListOf
<1>5. CASE Store
  BY <1>5, NothingListed DEF Store, Replace, ClearCache, ListOf
<1>6. CASE Apply
  <2>1. sweep.by = Syncer => pc = "sweeping"
    BY DEF LockShape
  <2>2. pc # "idle" /\ pc' \notin {"idle", "replace"}
    BY <1>6, <2>1, Zenon DEF Apply, SetPolicy, SetTrust, SyncSweepDone, SaveClearedCache,
       SaveClearedConfig
  <2>3. UNCHANGED <<up, cache, version, loc>>
    BY <1>6, Zenon DEF Apply, SetPolicy, SetTrust, SyncSweepDone, SaveClearedCache,
       SaveClearedConfig
  <2> QED
    BY <2>2, <2>3 DEF ListOf
<1>7. CASE TakeLive \/ Saved
  BY <1>7 DEF TakeLive, Saved, SyncSweep, SaveCache, Resume, ListOf
<1>8. CASE RunEnds
  BY <1>8 DEF RunEnds, Exit, ProcessEnds
<1>9. CASE Visit \/ \E c \in work.conns : Connects(c)
  <2>1. UNCHANGED <<daemonVars, serverVars, syncVars>> /\ Elsewhere
    BY <1>9, Zenon DEF Visit, Connects, ConnNext, SweepPrincipal, SweepCA, OwnSweepDone, AuthCA,
       AuthPrincipal, HandshakeFails, Register, OwnSweep, HangUp, Leave
  <2> QED
    BY <2>1 DEF Elsewhere, ListOf
<1>10. CASE UNCHANGED controlVars
  BY <1>10 DEF controlVars, runVars, vars, ListOf
<1> HIDE DEF VersionFollows
<1> QED
  BY <1>1, <1>2, <1>3, <1>4, <1>5, <1>6, <1>7, <1>8, <1>9, <1>10
     DEF ControlNext, SyncsNext, RunNext

\* The invariant holds before the daemon is started.
LEMMA ControlStarts == ControlInit => ControlInv
<1> SUFFICES ASSUME ControlInit PROVE ControlInv
  OBVIOUS
<1>1. Len(CoreLists) \in Nat /\ 1 <= Len(CoreLists)
  BY ControlAssumption
<1>2. StreamType
  BY <1>1 DEF ControlInit, StreamType, Versions, Locs
<1>3. ~up /\ pc = "idle" /\ disk = ListOf(version)
  BY DEF ControlInit, HistoryInit, Init, ListOf
<1> QED
  BY <1>2, <1>3, Zenon DEF ControlInv, ControlInit, PokeType, VersionFollows

\* What Control is proved to be: Access with more to say.
LEMMA ControlIsAccess == ControlSpec => HistorySpec /\ Spec /\ []ControlInv
<1>1. ControlInit => HistoryInit /\ Init
  BY DEF ControlInit, HistoryInit
<1>2. ControlInit => ControlInv
  BY ControlStarts
<1>3. StreamType /\ [ControlNext]_controlVars => StreamType'
  BY StreamTypeInductive
<1>4. ControlInit => StreamType
  BY <1>2 DEF ControlInv
<1>5. StreamType /\ [ControlNext]_controlVars => [HistoryNext]_<<vars, inForce>> /\ [Next]_vars
  BY ControlSteps DEF StreamType, HistoryNext
<1>6. ControlSpec => HistorySpec /\ Spec
  BY <1>1, <1>3, <1>4, <1>5, PTL DEF ControlSpec, HistorySpec, Spec
<1>7. Inv => LockShape
  BY DEF Inv
<1>8. ControlInv /\ LockShape /\ [ControlNext]_controlVars => ControlInv'
  BY StreamTypeInductive, PokeTypeInductive, VersionInductive DEF ControlInv
<1> QED
  BY <1>2, <1>6, <1>7, <1>8, Invariance, PTL DEF ControlSpec

(***************************************************************************)
(* Driven by the core, with its stream, its heartbeats and its syncs, the  *)
(* daemon's state stays within its types: no version is reported, applied  *)
(* or asked for that the core never had.                                   *)
(***************************************************************************)
THEOREM ControlIsTyped == ControlSpec => []ControlTypeOK
<1>1. ControlInv /\ TypeOK => ControlTypeOK
  BY DEF ControlInv, StreamType, PokeType, ControlTypeOK
<1> QED
  BY <1>1, ControlIsAccess, TypeCorrect, PTL

(***************************************************************************)
(* Whatever makes Client.Run sync, and whenever, the daemon is a gate:     *)
(* every step of the control loop is one of the access control or leaves   *)
(* it alone.                                                               *)
(***************************************************************************)
THEOREM ControlIsAGate == ControlSpec => ImplementsGate
BY ControlIsAccess, AccessIsAGate, PTL

\* A host that has obeyed enforces the list the core has now: it is in the cache, its
\* policy and its CA are those the server uses, and every open connection is on it.
ObeyedIsEnforced ==
  Obeyed /\ core # Deleted =>
    LET list == Replaced(CoreLists[core]) IN
    /\ policy = PolicyFrom(list.config)
    /\ list.ca # Garbled =>
         trustedCAs = TrustedBy(list.ca, {}) /\ retiredCAs = list.retired
    /\ \A c \in Conns : phase[c] = "serving" /\ c \notin closed =>
         /\ login[c].principal \in list.principals[login[c].user]
         /\ login[c].ca \in trustedCAs \/ sweptAt < retiredCAs[login[c].ca]

(***************************************************************************)
(* The version a heartbeat reports (cacheJSON.StateVersion) is that of the *)
(* list the host enforces, so the core, which pokes when the versions      *)
(* differ, can rely on it: a host that reports the core's version and is   *)
(* between two syncs enforces the core's list.                             *)
(***************************************************************************)
THEOREM VersionsAreTruthful == ControlSpec => []ObeyedIsEnforced
<1>1. ControlInv /\ Inv => ObeyedIsEnforced
  <2> SUFFICES ASSUME ControlInv, Inv, Obeyed, core # Deleted PROVE ObeyedIsEnforced
    BY Zenon DEF ObeyedIsEnforced
  <2>0. core \in 1..Len(CoreLists) /\ Len(CoreLists) \in Nat
    <3>1. core \in Versions
      BY Zenon DEF ControlInv, StreamType
    <3>2. CoreLists \in Seq(Answers)
      BY ControlAssumption, Zenon
    <3>3. Len(CoreLists) \in Nat
      BY <3>2
    <3> QED
      BY <3>1, <3>3, Zenon DEF Versions
  <2>1. Settled /\ up /\ version = core /\ core # 0
    <3>1. core # 0
      BY <2>0
    <3> QED
      BY <3>1, Zenon DEF Obeyed, Settled
  <2>2. cache = Replaced(CoreLists[core])
    BY <2>1 DEF ControlInv, VersionFollows, ListOf
  <2>3. ServerMatchesCache /\ RevokedAreClosed
    BY DEF Inv
  <2>4. /\ policy = PolicyFrom(cache.config)
        /\ cache.ca # Garbled =>
             trustedCAs = TrustedBy(cache.ca, {}) /\ retiredCAs = cache.retired
    BY <2>1, <2>3 DEF ServerMatchesCache
  <2>5. \A c \in Conns : phase[c] = "serving" /\ c \notin closed => Admitted(c)
    BY <2>1, <2>3 DEF RevokedAreClosed
  <2> QED
    BY <2>2, <2>4, <2>5 DEF ObeyedIsEnforced, Admitted, PrincipalOK
<1> QED
  BY <1>1, ControlIsAccess, Invariance, PTL
=============================================================================
