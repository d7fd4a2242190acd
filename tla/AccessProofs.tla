---------------------------- MODULE AccessProofs ----------------------------
(***************************************************************************)
(* Proofs about Access, for any number of connections, accounts,           *)
(* principals, CAs and answers.                                            *)
(***************************************************************************)
EXTENDS Access, TLAPS

USE DEF daemonVars, serverVars, syncVars, connVars

\* The lists and policies the operations compute are lists and policies.
LEMMA ListOps ==
  /\ EmptyList \in List
  /\ \A l \in List : Replaced(l) \in List
  /\ \A l \in List : PolicyFrom(l.config) \in [Flags -> BOOLEAN]
  /\ \A l \in List, s \in SUBSET CAs : TrustedBy(l.ca, s) \in SUBSET CAs
  /\ \A l \in List, r \in [CAs -> Nat] :
       RetiredBy(l.ca, l.retired, r) \in [CAs -> Nat]
<1>1. EmptyList \in List
  BY DEF EmptyList, List
<1>2. ASSUME NEW l \in List
      PROVE  Replaced(l) \in List
  BY DEF Replaced, List, ValidPrincipals
<1>3. ASSUME NEW l \in List
      PROVE  PolicyFrom(l.config) \in [Flags -> BOOLEAN]
  <2>1. \A f \in Flags : DefaultPolicy[f] \in BOOLEAN
    BY PolicyAssumption
  <2> QED
    BY <2>1, Zenon DEF PolicyFrom
<1>4. ASSUME NEW l \in List, NEW s \in SUBSET CAs
      PROVE  TrustedBy(l.ca, s) \in SUBSET CAs
  BY DEF TrustedBy, List
<1>5. ASSUME NEW l \in List, NEW r \in [CAs -> Nat]
      PROVE  RetiredBy(l.ca, l.retired, r) \in [CAs -> Nat]
  BY DEF RetiredBy, List
<1> QED
  BY <1>1, <1>2, <1>3, <1>4, <1>5, Zenon

\* Replaced changes nothing but the principals, and keeps none of a refused name.
LEMMA ReplacedFields ==
  ASSUME NEW l \in List
  PROVE  /\ Replaced(l).config = l.config
         /\ Replaced(l).ca = l.ca
         /\ Replaced(l).retired = l.retired
         /\ \A u \in Users \ ValidUsers : Replaced(l).principals[u] = {}
BY DEF Replaced, List, ValidPrincipals

\* An enrollment starts from a list.
LEMMA EnlistedIsList == \A a \in Answers : Enlisted(a) \in List
BY AnswersAssumption DEF Enlisted, EmptyList, List

(***************************************************************************)
(* Type correctness of the daemon, its server and its connections.         *)
(***************************************************************************)
THEOREM TypeCorrect == Spec => []TypeOK
<1>1. Init => TypeOK
  <2> SUFFICES ASSUME Init PROVE TypeOK
    OBVIOUS
  <2>1. enrolled \in BOOLEAN /\ disk \in List
    BY ListOps, AnswersAssumption, Zenon DEF Init
  <2>2. cache \in List /\ answer \in List /\ policy \in [Flags -> BOOLEAN]
    BY ListOps, PolicyAssumption DEF Init
  <2>3. up \in BOOLEAN /\ trustedCAs \in SUBSET CAs /\ retiredCAs \in [CAs -> Nat]
        /\ pc \in PCs /\ now \in Nat /\ sweptAt \in Nat
    BY Zenon DEF Init, PCs
  <2>4. phase \in [Conns -> Phases] /\ live \in SUBSET Conns /\ closed \in SUBSET Conns
    BY DEF Init, Phases
  <2> QED
    BY <2>1, <2>2, <2>3, <2>4 DEF Init, TypeOK, NoLogin, NoSweep
<1>2. ASSUME TypeOK, [Next]_vars
      PROVE  TypeOK'
  <2> USE <1>2 DEF TypeOK, Phases, PCs, Applying, Rejecting
  <2>1. ASSUME NEW l \in List, StartServer(l), enrolled' \in BOOLEAN, disk' \in List
        PROVE  TypeOK'
    <3>1. [k \in CAs |-> 0] \in [CAs -> Nat] /\ {} \in SUBSET CAs
      OBVIOUS
    <3> QED
      BY <2>1, <3>1, ListOps, Zenon DEF StartServer
  <2>2. CASE Start
    BY <2>1, <2>2 DEF Start
  <2>3. CASE Enroll
    BY <2>1, <2>3, EnlistedIsList DEF Enroll
  <2>4. ASSUME ProcessEnds, enrolled' \in BOOLEAN, disk' \in List
        PROVE  TypeOK'
    BY <2>4, ListOps, PolicyAssumption, Zenon DEF ProcessEnds, NoLogin, NoSweep
  <2>5. CASE Crash
    BY <2>4, <2>5, ListOps DEF Crash
  <2>6. CASE Exit \/ Unenroll
    <3>1. CASE Exit
      BY <2>4, <3>1 DEF Exit
    <3>2. CASE Unenroll
      <4>1. ProcessEnds /\ enrolled' \in BOOLEAN /\ disk' \in List
        BY <3>2, ListOps, Zenon DEF Unenroll
      <4> QED
        BY <2>4, <4>1
    <3> QED
      BY <2>6, <3>1, <3>2
  <2>7. CASE Tick
    BY <2>7 DEF Tick
  <2>8. CASE SyncStart \/ SyncFailed \/ SyncRejected
    BY <2>8 DEF SyncStart, SyncFailed, SyncRejected
  <2>9. CASE SyncAnswered
    BY <2>9, AnswersAssumption DEF SyncAnswered
  <2>10. CASE Replace \/ ClearCache
    BY <2>10, ListOps DEF Replace, ClearCache
  <2>11. CASE SetPolicy
    BY <2>11, ListOps DEF SetPolicy
  <2>12. CASE SetTrust
    BY <2>12, ListOps, Zenon DEF SetTrust
  <2>13. CASE SaveCache \/ SaveClearedCache \/ SaveClearedConfig
    BY <2>13, Zenon DEF SaveCache, SaveClearedCache, SaveClearedConfig
  <2>14. CASE SyncSweep \/ SyncSweepDone
    BY <2>14 DEF SyncSweep, SyncSweepDone, LockLive, SweepDone, NoSweep
  <2>15. ASSUME NEW c \in Conns, SweepPrincipal(c) \/ SweepCA(c)
         PROVE  TypeOK'
    <3>1. CASE SweepPrincipal(c)
      <4>1. sweep' = [sweep EXCEPT !.cur = c] \/ sweep' = [sweep EXCEPT !.todo = @ \ {c}]
        BY <3>1 DEF SweepPrincipal
      <4>2. closed' = closed \/ closed' = closed \cup {c}
        BY <3>1 DEF SweepPrincipal
      <4> QED
        BY <3>1, <4>1, <4>2 DEF SweepPrincipal
    <3>2. CASE SweepCA(c)
      <4>1. closed' = closed \/ closed' = closed \cup {c}
        BY <3>2 DEF SweepCA
      <4> QED
        BY <3>2, <4>1, Zenon DEF SweepCA
    <3> QED
      BY <2>15, <3>1, <3>2
  <2>16. ASSUME NEW c \in Conns, NEW u \in Users, NEW k \in CAs, AuthCA(c, u, k)
         PROVE  TypeOK'
    BY <2>16, Zenon DEF AuthCA, NoLogin
  <2>17. ASSUME NEW c \in Conns, NEW p \in Principals, AuthPrincipal(c, p)
         PROVE  TypeOK'
    BY <2>17 DEF AuthPrincipal
  <2>18. ASSUME NEW c \in Conns,
                HandshakeFails(c) \/ Register(c) \/ OwnSweep(c) \/ OwnSweepDone(c)
                  \/ HangUp(c) \/ Leave(c)
         PROVE  TypeOK'
    <3>1. CASE HandshakeFails(c) \/ Leave(c)
      <4>1. NoLogin \in [user : Users \cup {Nil}, ca : CAs \cup {Nil},
                        principal : Principals \cup {Nil}]
        BY DEF NoLogin
      <4> QED
        BY <3>1, <4>1 DEF HandshakeFails, Leave
    <3>2. CASE Register(c) \/ HangUp(c)
      BY <3>2 DEF Register, HangUp
    <3>3. CASE OwnSweep(c)
      BY <3>3 DEF OwnSweep, LockLive
    <3>4. CASE OwnSweepDone(c)
      BY <3>4 DEF OwnSweepDone, SweepDone, NoSweep
    <3> QED
      BY <2>18, <3>1, <3>2, <3>3, <3>4
  <2>19. CASE EnrollCut
    BY <2>19 DEF EnrollCut, daemonVars, serverVars, syncVars, connVars
  <2>20. CASE UNCHANGED vars
    BY <2>20 DEF vars
  <2> QED
    BY <2>2, <2>3, <2>5, <2>6, <2>7, <2>8, <2>9, <2>10, <2>11, <2>12, <2>13, <2>14,
       <2>15, <2>16, <2>17, <2>18, <2>19, <2>20, Zenon DEF Next, SyncNext, ConnNext
<1> QED
  BY <1>1, <1>2, PTL DEF Spec

-----------------------------------------------------------------------------
(* The inductive invariant, conjunct by conjunct. *)

\* What the steps of the syncer that apply or refuse an answer leave alone.
SyncStep ==
  \/ SyncStart \/ SyncFailed \/ SyncAnswered \/ Replace \/ SetPolicy \/ SetTrust
  \/ SaveCache \/ SyncRejected \/ ClearCache \/ SaveClearedCache \/ SaveClearedConfig

\* A step of the syncer outside its sweep leaves connections and liveMu alone.
LEMMA SyncStepFrame ==
  ASSUME TypeOK, LiveShape, SyncStep
  PROVE  /\ UNCHANGED <<connVars, sweep, now, sweptAt, up>>
         /\ up /\ pc # "sweeping" /\ pc' # "sweeping"
BY Zenon DEF SyncStep, LiveShape, SyncStart, SyncFailed, SyncAnswered, Replace, SetPolicy, SetTrust,
       SaveCache, SyncRejected, ClearCache, SaveClearedCache, SaveClearedConfig

\* Every step keeps the live set in line with the connections' phases.
LEMMA LiveShapeInductive ==
  ASSUME TypeOK, LiveShape, LockShape, [Next]_vars
  PROVE  LiveShape'
<1> USE DEF LiveShape
<1>1. CASE Start \/ Enroll
  BY <1>1 DEF Start, Enroll, StartServer
<1>2. CASE Crash \/ Exit \/ Unenroll
  BY <1>2, Zenon DEF Crash, Exit, Unenroll, ProcessEnds
<1>3. CASE Tick \/ EnrollCut
  BY <1>3 DEF Tick, EnrollCut
<1>4. CASE SyncStep
  BY <1>4, SyncStepFrame
<1>5. CASE SyncSweep \/ SyncSweepDone
  BY <1>5 DEF SyncSweep, SyncSweepDone, LockShape, SweepDone, LockLive
<1>6. ASSUME NEW c \in Conns, SweepPrincipal(c) \/ SweepCA(c)
      PROVE  LiveShape'
  <2>1. c \in live
    BY <1>6, NilAssumption DEF SweepPrincipal, SweepCA, LockShape
  <2> QED
    BY <1>6, <2>1 DEF SweepPrincipal, SweepCA
<1>7. ASSUME NEW c \in Conns, NEW u \in Users, NEW k \in CAs, AuthCA(c, u, k)
      PROVE  LiveShape'
  BY <1>7 DEF AuthCA, TypeOK, NoLogin
<1>8. ASSUME NEW c \in Conns, NEW p \in Principals, AuthPrincipal(c, p)
      PROVE  LiveShape'
  BY <1>8 DEF AuthPrincipal, TypeOK
<1>9. ASSUME NEW c \in Conns, HandshakeFails(c) \/ Leave(c)
      PROVE  LiveShape'
  BY <1>9 DEF HandshakeFails, Leave, TypeOK
<1>10. ASSUME NEW c \in Conns, Register(c) \/ HangUp(c)
       PROVE  LiveShape'
  <2>1. CASE Register(c)
    BY <2>1 DEF Register, TypeOK
  <2>2. CASE HangUp(c)
    BY <2>2 DEF HangUp, TypeOK
  <2> QED
    BY <1>10, <2>1, <2>2
<1>11. ASSUME NEW c \in Conns, OwnSweep(c) \/ OwnSweepDone(c)
       PROVE  LiveShape'
  BY <1>11 DEF OwnSweep, OwnSweepDone, LockShape, TypeOK
<1>12. CASE UNCHANGED vars
  BY <1>12 DEF vars
<1> QED
  BY <1>1, <1>2, <1>3, <1>4, <1>5, <1>6, <1>7, <1>8, <1>9, <1>10, <1>11, <1>12
  DEF Next, SyncNext, ConnNext, SyncStep

\* Every step keeps liveMu with the goroutine that took it, over live connections.
LEMMA LockShapeInductive ==
  ASSUME TypeOK, LiveShape, LockShape, [Next]_vars
  PROVE  LockShape'
<1> USE DEF LockShape
<1> USE NilAssumption
<1>1. CASE Start \/ Enroll
  BY <1>1 DEF Start, Enroll, StartServer, TypeOK
<1>2. CASE Crash \/ Exit \/ Unenroll
  <2>1. /\ sweep' = NoSweep /\ pc' = "idle" /\ phase' = [c \in Conns |-> "none"]
        /\ sweptAt' = sweptAt /\ now' = now
    BY <1>2, Zenon DEF Crash, Exit, Unenroll, ProcessEnds
  <2> QED
    BY <2>1 DEF NoSweep
<1>3. CASE Tick \/ EnrollCut
  BY <1>3 DEF Tick, EnrollCut, TypeOK
<1>4. CASE SyncStep
  BY <1>4, SyncStepFrame
<1>5. CASE SyncSweep
  BY <1>5 DEF SyncSweep, LockLive, TypeOK
<1>6. CASE SyncSweepDone
  BY <1>6 DEF SyncSweepDone, SweepDone, NoSweep
<1>7. ASSUME NEW c \in Conns, SweepPrincipal(c)
      PROVE  LockShape'
  <2>1. CASE PrincipalOK(c)
    BY <1>7, <2>1 DEF SweepPrincipal, TypeOK
  <2>2. CASE ~PrincipalOK(c)
    BY <1>7, <2>2 DEF SweepPrincipal, TypeOK
  <2> QED
    BY <2>1, <2>2
<1>8. ASSUME NEW c \in Conns, SweepCA(c)
      PROVE  LockShape'
  BY <1>8 DEF SweepCA, TypeOK, NoSweep
<1>9. ASSUME NEW c \in Conns, NEW u \in Users, NEW k \in CAs, AuthCA(c, u, k)
      PROVE  LockShape'
  BY <1>9 DEF AuthCA, TypeOK
<1>10. ASSUME NEW c \in Conns, NEW p \in Principals, AuthPrincipal(c, p)
       PROVE  LockShape'
  BY <1>10 DEF AuthPrincipal, TypeOK
<1>11. ASSUME NEW c \in Conns, HandshakeFails(c) \/ Register(c) \/ HangUp(c)
       PROVE  LockShape'
  BY <1>11 DEF HandshakeFails, Register, HangUp, TypeOK
<1>12. ASSUME NEW c \in Conns, Leave(c)
       PROVE  LockShape'
  BY <1>12 DEF Leave, TypeOK, NoSweep
<1>13. ASSUME NEW c \in Conns, OwnSweep(c)
       PROVE  LockShape'
  BY <1>13 DEF OwnSweep, LockLive, TypeOK
<1>14. ASSUME NEW c \in Conns, OwnSweepDone(c)
       PROVE  LockShape'
  BY <1>14 DEF OwnSweepDone, SweepDone, NoSweep, TypeOK
<1>15. CASE UNCHANGED vars
  BY <1>15 DEF vars
<1> QED
  BY <1>1, <1>2, <1>3, <1>4, <1>5, <1>6, <1>7, <1>8, <1>9, <1>10, <1>11, <1>12,
     <1>13, <1>14, <1>15, Zenon DEF Next, SyncNext, ConnNext, SyncStep

\* Every step keeps the policy and the trust as far as the syncer's pc says.
LEMMA ApplyInductive ==
  ASSUME TypeOK, LiveShape, LockShape, ApplyProgress, ServerMatchesCache, [Next]_vars
  PROVE  ApplyProgress' /\ ServerMatchesCache'
<1> USE DEF ApplyProgress, ServerMatchesCache, Settled
<1>1. ASSUME NEW l \in List, StartServer(l), ~up
      PROVE  ApplyProgress' /\ ServerMatchesCache'
  <2>1. pc' = "idle"
    BY <1>1 DEF StartServer, LiveShape
  <2>2. policy' = PolicyFrom(cache'.config)
    BY <1>1, ReplacedFields DEF StartServer
  <2>3. cache'.ca # Garbled =>
          trustedCAs' = TrustedBy(cache'.ca, {}) /\ retiredCAs' = cache'.retired
    BY <1>1, ReplacedFields DEF StartServer, RetiredBy
  <2> QED
    BY <2>1, <2>2, <2>3
<1>2. CASE Start \/ Enroll
  BY <1>1, <1>2, EnlistedIsList DEF Start, Enroll, TypeOK
<1>3. CASE Crash \/ Exit \/ Unenroll
  BY <1>3, Zenon DEF Crash, Exit, Unenroll, ProcessEnds
<1>4. CASE SyncStart \/ SyncFailed \/ SyncAnswered \/ SyncRejected
  BY <1>4, SyncStepFrame
  DEF SyncStep, SyncStart, SyncFailed, SyncAnswered, SyncRejected
<1>5. CASE Replace
  BY <1>5 DEF Replace
<1>6. CASE SetPolicy
  BY <1>6, ReplacedFields DEF SetPolicy, TypeOK
<1>7. CASE SetTrust
  <2>1. cache.ca = answer.ca /\ cache.retired = answer.retired
    BY <1>7, ReplacedFields DEF SetTrust, TypeOK
  <2> QED
    BY <1>7, <2>1 DEF SetTrust, TrustedBy, RetiredBy
<1>8. CASE SaveCache \/ SaveClearedCache \/ SaveClearedConfig \/ ClearCache
  <2>1. CASE SaveCache
    BY <2>1 DEF SaveCache
  <2>2. CASE SaveClearedCache \/ SaveClearedConfig \/ ClearCache
    BY <2>2, Zenon DEF SaveClearedCache, SaveClearedConfig, ClearCache
  <2> QED
    BY <1>8, <2>1, <2>2
<1>9. CASE SyncSweep \/ SyncSweepDone
  BY <1>9 DEF SyncSweep, SyncSweepDone, LockShape
<1>10. CASE UNCHANGED <<up, serverVars, syncVars>>
  BY <1>10
<1> QED
  BY <1>2, <1>3, <1>4, <1>5, <1>6, <1>7, <1>8, <1>9, <1>10, Zenon
  DEF Next, SyncNext, ConnNext, vars, Tick, EnrollCut, SweepPrincipal, SweepCA, AuthCA, AuthPrincipal,
      HandshakeFails, Register, OwnSweep, OwnSweepDone, HangUp, Leave

\* Every step keeps refused names off the cached list and out of matched logins.
LEMMA ValidInductive ==
  ASSUME TypeOK, LiveShape, LockShape, CacheIsValid, OnlyValidAccounts, [Next]_vars
  PROVE  CacheIsValid' /\ OnlyValidAccounts'
<1> USE DEF CacheIsValid, OnlyValidAccounts
<1>1. CASE Start \/ Enroll
  <2>1. PICK l \in List : StartServer(l)
    BY <1>1, EnlistedIsList DEF Start, Enroll, TypeOK
  <2> QED
    BY <2>1, ReplacedFields DEF StartServer
<1>2. CASE Crash \/ Exit \/ Unenroll
  <2>1. cache' = EmptyList /\ phase' = [c \in Conns |-> "none"]
    BY <1>2, Zenon DEF Crash, Exit, Unenroll, ProcessEnds
  <2> QED
    BY <2>1 DEF EmptyList
<1>3. CASE Replace
  BY <1>3, ReplacedFields DEF Replace, TypeOK
<1>4. CASE ClearCache
  BY <1>4 DEF ClearCache, EmptyList
<1>5. ASSUME NEW c \in Conns, NEW u \in Users, NEW k \in CAs, AuthCA(c, u, k)
      PROVE  CacheIsValid' /\ OnlyValidAccounts'
  BY <1>5 DEF AuthCA, TypeOK
<1>6. ASSUME NEW c \in Conns, NEW p \in Principals, AuthPrincipal(c, p)
      PROVE  CacheIsValid' /\ OnlyValidAccounts'
  <2>1. login[c].user \in ValidUsers
    BY <1>6 DEF AuthPrincipal, LiveShape
  <2> QED
    BY <1>6, <2>1 DEF AuthPrincipal, TypeOK
<1>7. ASSUME NEW c \in Conns, HandshakeFails(c) \/ Leave(c)
      PROVE  CacheIsValid' /\ OnlyValidAccounts'
  BY <1>7 DEF HandshakeFails, Leave, TypeOK
<1>8. ASSUME NEW c \in Conns, Register(c) \/ OwnSweep(c)
      PROVE  CacheIsValid' /\ OnlyValidAccounts'
  BY <1>8 DEF Register, OwnSweep, TypeOK
<1>9. ASSUME NEW c \in Conns, OwnSweepDone(c)
      PROVE  CacheIsValid' /\ OnlyValidAccounts'
  BY <1>9 DEF OwnSweepDone, LockShape, TypeOK
<1>10. CASE UNCHANGED <<cache, phase, login>>
  BY <1>10
<1> QED
  BY <1>1, <1>2, <1>3, <1>4, <1>5, <1>6, <1>7, <1>8, <1>9, <1>10, Zenon
  DEF Next, SyncNext, ConnNext, vars, Tick, EnrollCut, SyncStart, SyncFailed, SyncAnswered, SetPolicy,
      SetTrust, SaveCache, SyncRejected, SaveClearedCache, SaveClearedConfig,
      SyncSweep, SyncSweepDone, SweepPrincipal, SweepCA, HangUp

\* Whether a connection is admitted depends on its login, the list and the trust.
LEMMA AdmittedFrame ==
  ASSUME NEW c \in Conns, login'[c] = login[c],
         UNCHANGED <<cache, trustedCAs, retiredCAs, sweptAt>>
  PROVE  /\ PrincipalOK(c)' <=> PrincipalOK(c)
         /\ Admitted(c)' <=> Admitted(c)
BY DEF Admitted, PrincipalOK

\* A step that leaves the list, the trust and the running sweep alone, and lets
\* no connection start to sweep or be served.
LEMMA SweepFrame ==
  ASSUME TypeOK, SweepProgress, RevokedAreClosed,
         UNCHANGED <<cache, trustedCAs, retiredCAs, sweptAt, sweep>>,
         pc' = "sweeping" => pc = "sweeping",
         Settled' => Settled,
         \A c \in Conns : phase'[c] \in {"sweeping", "serving"} =>
           phase'[c] = phase[c] /\ login'[c] = login[c] /\ (c \in closed => c \in closed')
  PROVE  SweepProgress' /\ RevokedAreClosed'
<1>1. ASSUME NEW c \in Conns, phase'[c] \in {"sweeping", "serving"}
      PROVE  /\ phase'[c] = phase[c] /\ (c \in closed => c \in closed')
             /\ Admitted(c) => Admitted(c)'
             /\ CheckedOrDue(c) => CheckedOrDue(c)'
  BY <1>1, AdmittedFrame DEF CheckedOrDue
<1> QED
  BY <1>1 DEF SweepProgress, RevokedAreClosed

\* Every step keeps the running sweep's account of the connections, and at its end
\* every served connection that is open is admitted.
LEMMA SweepInductive ==
  ASSUME TypeOK, LiveShape, LockShape, SweepProgress, RevokedAreClosed, [Next]_vars
  PROVE  SweepProgress' /\ RevokedAreClosed'
<1>1. CASE Start \/ Enroll
  BY <1>1 DEF Start, Enroll, StartServer, LiveShape, SweepProgress, RevokedAreClosed
<1>2. CASE Crash \/ Exit \/ Unenroll
  BY <1>2, Zenon DEF Crash, Exit, Unenroll, ProcessEnds, SweepProgress, RevokedAreClosed
<1>3. CASE Tick \/ EnrollCut
  BY <1>3, SweepFrame DEF Tick, EnrollCut, Settled
<1>4. CASE SyncStep
  <2>1. UNCHANGED <<connVars, sweep, now, sweptAt, up>> /\ pc' # "sweeping"
    BY <1>4, SyncStepFrame
  <2>2. Settled' => Settled /\ UNCHANGED <<cache, trustedCAs, retiredCAs>>
    BY <1>4, <2>1, Zenon DEF SyncStep, Settled, SyncStart, SyncFailed, SyncAnswered, Replace,
       SetPolicy, SetTrust, SaveCache, SyncRejected, ClearCache, SaveClearedCache,
       SaveClearedConfig
  <2>3. CASE ~Settled'
    BY <2>1, <2>3 DEF SweepProgress, RevokedAreClosed
  <2>4. CASE Settled'
    BY <2>1, <2>2, <2>4, SweepFrame
  <2> QED
    BY <2>3, <2>4
<1>5. CASE SyncSweep
  <2>1. ~Settled'
    BY <1>5 DEF SyncSweep, Settled
  <2>2. ASSUME NEW c \in Conns, phase'[c] = "serving"
        PROVE  c \in sweep'.todo /\ sweep'.cur # c
    BY <1>5, <2>2, NilAssumption DEF SyncSweep, LockLive, LiveShape
  <2> QED
    BY <2>1, <2>2 DEF SweepProgress, RevokedAreClosed, CheckedOrDue
<1>6. CASE SyncSweepDone
  <2>1. pc = "sweeping" /\ pc' = "save" /\ sweep.todo = {}
    BY <1>6 DEF SyncSweepDone, SweepDone, LockShape
  <2>2. ASSUME NEW c \in Conns, phase'[c] = "serving", c \notin closed'
        PROVE  Admitted(c)'
    BY <1>6, <2>1, <2>2, AdmittedFrame DEF SyncSweepDone, SweepProgress, CheckedOrDue
  <2>3. \A c \in Conns : phase'[c] # "sweeping"
    BY <1>6, NilAssumption DEF SyncSweepDone, LockShape
  <2> QED
    BY <2>1, <2>2, <2>3 DEF SweepProgress, RevokedAreClosed
<1>7. ASSUME NEW d \in Conns, SweepPrincipal(d)
      PROVE  SweepProgress' /\ RevokedAreClosed'
  <2>1. UNCHANGED <<cache, trustedCAs, retiredCAs, sweptAt, login, phase, pc, up>>
    BY <1>7 DEF SweepPrincipal
  <2>2. ASSUME NEW c \in Conns
        PROVE  CheckedOrDue(c) => CheckedOrDue(c)'
    <3>1. CASE PrincipalOK(d)
      BY <1>7, <2>1, <3>1, AdmittedFrame DEF SweepPrincipal, CheckedOrDue, TypeOK
    <3>2. CASE ~PrincipalOK(d)
      BY <1>7, <2>1, <3>2, AdmittedFrame, NilAssumption DEF SweepPrincipal, CheckedOrDue, TypeOK
    <3> QED
      BY <3>1, <3>2
  <2>3. closed \subseteq closed'
    BY <1>7 DEF SweepPrincipal
  <2> QED
    BY <2>1, <2>2, <2>3, AdmittedFrame DEF SweepProgress, RevokedAreClosed, Settled
<1>8. ASSUME NEW d \in Conns, SweepCA(d)
      PROVE  SweepProgress' /\ RevokedAreClosed'
  <2>1. UNCHANGED <<cache, trustedCAs, retiredCAs, sweptAt, login, phase, pc, up>>
    BY <1>8 DEF SweepCA
  <2>2. closed \subseteq closed'
    BY <1>8 DEF SweepCA
  <2>3. sweep'.todo = sweep.todo \ {d} /\ sweep'.cur = Nil
    BY <1>8 DEF SweepCA, TypeOK
  <2>4. CheckedOrDue(d) => CheckedOrDue(d)'
    <3>1. CASE TrustedCA(login[d].ca)
      <4>1. login[d].ca \in CAs
        BY <1>8, NilAssumption DEF SweepCA, LockShape, LiveShape
      <4>2. login[d].ca \in trustedCAs \/ sweptAt < retiredCAs[login[d].ca]
        BY <3>1, <4>1 DEF TrustedCA, LockShape, TypeOK
      <4> QED
        BY <1>8, <2>1, <2>2, <4>2, AdmittedFrame DEF SweepCA, CheckedOrDue, Admitted
    <3>2. CASE ~TrustedCA(login[d].ca)
      BY <1>8, <3>2 DEF SweepCA, CheckedOrDue
    <3> QED
      BY <3>1, <3>2
  <2>5. ASSUME NEW c \in Conns
        PROVE  CheckedOrDue(c) => CheckedOrDue(c)'
    BY <2>1, <2>2, <2>3, <2>4, AdmittedFrame, NilAssumption, Zenon DEF CheckedOrDue
  <2> QED
    BY <2>1, <2>2, <2>5, AdmittedFrame DEF SweepProgress, RevokedAreClosed, Settled
<1>9. ASSUME NEW d \in Conns, NEW u \in Users, NEW k \in CAs, AuthCA(d, u, k)
      PROVE  SweepProgress' /\ RevokedAreClosed'
  <2>1. \A c \in Conns : phase'[c] \in {"sweeping", "serving"} =>
          phase'[c] = phase[c] /\ login'[c] = login[c]
    BY <1>9 DEF AuthCA, TypeOK
  <2> QED
    BY <1>9, <2>1, SweepFrame DEF AuthCA, Settled
<1>10. ASSUME NEW d \in Conns, NEW p \in Principals, AuthPrincipal(d, p)
       PROVE  SweepProgress' /\ RevokedAreClosed'
  <2>1. \A c \in Conns : phase'[c] \in {"sweeping", "serving"} =>
          phase'[c] = phase[c] /\ login'[c] = login[c]
    BY <1>10 DEF AuthPrincipal, TypeOK
  <2> QED
    BY <1>10, <2>1, SweepFrame DEF AuthPrincipal, Settled
<1>11. ASSUME NEW d \in Conns, HandshakeFails(d) \/ Register(d) \/ HangUp(d) \/ Leave(d)
       PROVE  SweepProgress' /\ RevokedAreClosed'
  <2>1. \A c \in Conns : phase'[c] \in {"sweeping", "serving"} =>
          phase'[c] = phase[c] /\ login'[c] = login[c] /\ (c \in closed => c \in closed')
    BY <1>11 DEF HandshakeFails, Register, HangUp, Leave, TypeOK
  <2> QED
    BY <1>11, <2>1, SweepFrame DEF HandshakeFails, Register, HangUp, Leave, Settled
<1>12. ASSUME NEW d \in Conns, OwnSweep(d)
       PROVE  SweepProgress' /\ RevokedAreClosed'
  <2>1. pc' # "sweeping" /\ \A c \in Conns : phase[c] # "sweeping"
    BY <1>12, NilAssumption DEF OwnSweep, LockLive, LockShape
  <2>2. \A c \in Conns : phase'[c] = "sweeping" => c = d
    BY <1>12, <2>1 DEF OwnSweep, TypeOK
  <2>3. CheckedOrDue(d)'
    BY <1>12, NilAssumption DEF OwnSweep, LockLive, LiveShape, CheckedOrDue
  <2>4. RevokedAreClosed'
    <3>1. \A c \in Conns : phase'[c] = "serving" => phase[c] = "serving"
      BY <1>12 DEF OwnSweep, TypeOK
    <3> QED
      BY <1>12, <3>1, AdmittedFrame DEF OwnSweep, RevokedAreClosed, Settled
  <2> QED
    BY <2>1, <2>2, <2>3, <2>4 DEF SweepProgress
<1>13. ASSUME NEW d \in Conns, OwnSweepDone(d)
       PROVE  SweepProgress' /\ RevokedAreClosed'
  <2>1. pc' # "sweeping" /\ phase[d] = "sweeping" /\ sweep.todo = {}
    BY <1>13, NilAssumption DEF OwnSweepDone, SweepDone, LockShape
  <2>2. \A c \in Conns : phase'[c] # "sweeping"
    BY <1>13 DEF OwnSweepDone, LockShape, TypeOK
  <2>3. ASSUME NEW c \in Conns, Settled', phase'[c] = "serving", c \notin closed'
        PROVE  Admitted(c)'
    <3>1. Settled /\ c \notin closed /\ (Admitted(c) => Admitted(c)')
      BY <1>13, <2>3, AdmittedFrame DEF OwnSweepDone, Settled
    <3>2. CASE c = d
      BY <2>1, <3>1, <3>2 DEF SweepProgress, CheckedOrDue
    <3>3. CASE c # d
      BY <1>13, <2>3, <3>1, <3>3 DEF OwnSweepDone, RevokedAreClosed, TypeOK
    <3> QED
      BY <3>2, <3>3
  <2> QED
    BY <2>1, <2>2, <2>3 DEF SweepProgress, RevokedAreClosed
<1>14. CASE UNCHANGED vars
  BY <1>14, SweepFrame DEF vars, Settled
<1> QED
  BY <1>1, <1>2, <1>3, <1>4, <1>5, <1>6, <1>7, <1>8, <1>9, <1>10, <1>11, <1>12,
     <1>13, <1>14 DEF Next, SyncNext, ConnNext, SyncStep
-----------------------------------------------------------------------------
Inv == /\ LiveShape /\ LockShape /\ SweepProgress /\ RevokedAreClosed
       /\ ApplyProgress /\ ServerMatchesCache /\ CacheIsValid /\ OnlyValidAccounts

\* The inductive invariant holds in every behaviour.
LEMMA Invariance == Spec => []Inv
<1>1. Init => Inv
  <2> SUFFICES ASSUME Init PROVE Inv
    OBVIOUS
  <2>1. ~up /\ pc = "idle" /\ sweep = NoSweep /\ live = {} /\ closed = {}
        /\ (\A c \in Conns : phase[c] = "none") /\ now = 0 /\ sweptAt = 0 /\ cache = EmptyList
    BY DEF Init
  <2>2. LiveShape /\ LockShape
    BY <2>1, NilAssumption DEF LiveShape, LockShape, NoSweep
  <2>3. SweepProgress /\ RevokedAreClosed /\ ApplyProgress /\ ServerMatchesCache
    BY <2>1 DEF SweepProgress, RevokedAreClosed, ApplyProgress, ServerMatchesCache, Settled
  <2>4. CacheIsValid /\ OnlyValidAccounts
    BY <2>1 DEF CacheIsValid, OnlyValidAccounts, EmptyList
  <2> QED
    BY <2>2, <2>3, <2>4 DEF Inv
<1>2. TypeOK /\ Inv /\ [Next]_vars => Inv'
  BY LiveShapeInductive, LockShapeInductive, SweepInductive, ApplyInductive, ValidInductive
  DEF Inv
<1> QED
  BY <1>1, <1>2, TypeCorrect, PTL DEF Spec

(***************************************************************************)
(* A revoke that was applied has closed the connections it concerns,       *)
(* whatever the interleaving of DropRevoked with handshakes: SECURITY.md's *)
(* "closes the connections that were open on it".                          *)
(***************************************************************************)
THEOREM RevocationHolds == Spec => []RevokedAreClosed
BY Invariance, PTL DEF Inv

(***************************************************************************)
(* SetPolicy, SetTrust and the start-up keep the server's policy and trust *)
(* those of the cached list, unless its active key is unreadable.          *)
(***************************************************************************)
THEOREM ServerFollowsCache == Spec => []ServerMatchesCache
BY Invariance, PTL DEF Inv

(***************************************************************************)
(* No account name refused by validatePrincipal passes the certificate     *)
(* check, wherever the list came from.                                     *)
(***************************************************************************)
THEOREM AccountsAreValid == Spec => []OnlyValidAccounts
BY Invariance, PTL DEF Inv
=============================================================================
