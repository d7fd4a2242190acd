---------------------------- MODULE ServerProofs -----------------------------
(***************************************************************************)
(* Relay, Admission and Connection on their own, then the server they are  *)
(* composed into: what each promises holds of the whole, since every step  *)
(* of the server is a step of each component, or leaves it alone.          *)
(***************************************************************************)
EXTENDS Server, FiniteSetTheorems, TLAPS

-----------------------------------------------------------------------------
(***************************************************************************)
(* Closed is the last frame of a relay, for any number of goroutines in    *)
(* Close and any number of frames.                                         *)
(***************************************************************************)

OnlyData == \A i \in 1..Len(frames) : frames[i] # "closed"

\* sendMu is with the closer that is sending, a writer only has it on a relay that is
\* not closed, and nothing but data is out until the one Closed has been sent.
RelayInv ==
  /\ RelayTypeOK
  /\ \A k \in Closers : closing[k] = "send" <=> sendMu = k
  /\ rclosed => sendMu # "writer"
  /\ sendMu \in Closers => rclosed
  /\ ~rclosed \/ sendMu \in Closers => OnlyData
  /\ \A i \in 1..Len(frames) : frames[i] = "closed" => i = Len(frames)

\* Every step of the writer, of a closer, of the timer and of the backend keeps it.
LEMMA RelayInductive ==
  ASSUME RelayInv, [RelayNext]_relayVars
  PROVE  RelayInv'
<1> USE RelayAssumption DEF RelayInv, RelayTypeOK, OnlyData
<1>1. CASE Write \/ WriteFailed
  BY <1>1 DEF Write, WriteFailed
<1>2. CASE Sent
  <2>1. frames' = Append(frames, "data") /\ OnlyData
    BY <1>2 DEF Sent
  <2>2. frames' \in Seq({"data", "closed"}) /\ OnlyData'
    BY <2>1
  <2> QED
    BY <1>2, <2>2 DEF Sent
<1>3. ASSUME NEW k \in Closers, Close(k)
      PROVE  RelayInv'
  BY <1>3, Zenon DEF Close, Reaches
<1>4. ASSUME NEW k \in Closers, ClosedSent(k)
      PROVE  RelayInv'
  <2>1. sendMu = k /\ rclosed /\ OnlyData
    BY <1>4 DEF ClosedSent
  <2>2. frames' = Append(frames, "closed") \/ frames' = frames
    BY <1>4 DEF ClosedSent
  <2>3. /\ frames' \in Seq({"data", "closed"})
        /\ \A i \in 1..Len(frames') : frames'[i] = "closed" => i = Len(frames')
    BY <2>1, <2>2
  <2>4. \A j \in Closers : closing'[j] = "send" <=> sendMu' = j
    BY <1>4, <2>1 DEF ClosedSent, Reaches
  <2> QED
    BY <1>4, <2>1, <2>3, <2>4 DEF ClosedSent, Reaches
<1>5. ASSUME NEW k \in Closers, CloseReturns(k)
      PROVE  RelayInv'
  BY <1>5, Zenon DEF CloseReturns, Reaches
<1>6. ASSUME NEW k \in Closers, CloseAgain(k)
      PROVE  RelayInv'
  BY <1>6 DEF CloseAgain, Reaches
<1>7. ASSUME NEW on \in BOOLEAN, SetDeadline(on)
      PROVE  RelayInv'
  BY <1>7 DEF SetDeadline
<1>8. CASE DeadlinePasses
  BY <1>8, Zenon DEF DeadlinePasses
<1>9. CASE Expires
  BY <1>9 DEF Expires
<1>10. CASE FallsSilent
  BY <1>10 DEF FallsSilent
<1>11. CASE UNCHANGED relayVars
  BY <1>11 DEF relayVars
<1> QED
  BY <1>1, <1>2, <1>3, <1>4, <1>5, <1>6, <1>7, <1>8, <1>9, <1>10, <1>11, Zenon DEF RelayNext

\* No frame is out at first, and nobody holds sendMu.
LEMMA RelayStarts == RelayInit => RelayInv
<1> SUFFICES ASSUME RelayInit
             PROVE  RelayInv
  OBVIOUS
<1>1. frames = <<>> /\ frames \in Seq({"data", "closed"}) /\ Len(frames) = 0
  BY DEF RelayInit
<1>2. closing \in [Closers -> {"idle", "send", "cancel", "done"}]
  BY DEF RelayInit
<1>3. \A k \in Closers : closing[k] = "idle"
  BY DEF RelayInit
<1>4. RelayTypeOK
  BY <1>1, <1>2, Zenon DEF RelayInit, RelayTypeOK
<1>5. \A i \in 1..Len(frames) : FALSE
  BY <1>1
<1>6. sendMu = "free" /\ sendMu \notin Closers /\ ~rclosed
  BY RelayAssumption DEF RelayInit
<1> QED
  BY <1>3, <1>4, <1>5, <1>6, RelayAssumption DEF RelayInv, OnlyData

\* The invariant gives the property.
LEMMA RelayInvSuffices == RelayInv => ClosedIsLast
BY DEF RelayInv, RelayTypeOK, ClosedIsLast

(***************************************************************************)
(* "sendMu makes Closed the last frame" (relay.go:80), for any number of   *)
(* concurrent Closes: closed and sendMu see to it together.                *)
(***************************************************************************)
THEOREM ClosedComesLast == RelaySpec => []ClosedIsLast
BY RelayStarts, RelayInductive, RelayInvSuffices, PTL DEF RelaySpec
-----------------------------------------------------------------------------
(***************************************************************************)
(* The server's connection and pre-auth counters are exact and its caps    *)
(* hold, for any number of connections and sources and any caps.           *)
(***************************************************************************)

\* What is counted: connections with a slot, remote and loopback handshakes, and the
\* handshakes of a source until its count is taken back.
Slots       == Holding(Stages \ {"away", "gone"})
Remotes     == Remote({"hello", "release"})
Locals      == Local({"hello", "release"})
Counted(s)  == {c \in Remote({"hello", "release", "uncount"}) : Source[c] = s}

\* Only a remote connection has a source count to take back.
Uncounts(c) == c \notin Relayed /\ Source[c] # Loopback

\* The counters with the types that arithmetic needs; the caps come from the guards.
AdmissionInv ==
  /\ stage \in [Conns -> Stages]
  /\ \A c \in Conns : stage[c] = "uncount" => Uncounts(c)
  /\ passed \in SUBSET Conns
  /\ sourceStartups \in [Sources -> Int]
  /\ sourceStartups[Loopback] = 0
  /\ conns = Cardinality(Slots) /\ conns <= MaxConns
  /\ startups = Cardinality(Remotes) /\ startups <= MaxStartups
  /\ localStartups = Cardinality(Locals) /\ localStartups <= MaxStartups
  /\ \A s \in Sources \ {Loopback} :
       sourceStartups[s] = Cardinality(Counted(s)) /\ sourceStartups[s] <= MaxSourceStartups

\* Counting a set of connections before and after one of them joins or leaves.
LEMMA Count ==
  ASSUME NEW S \in SUBSET Conns, NEW c \in Conns
  PROVE  /\ Cardinality(S) \in Nat
         /\ c \notin S => Cardinality(S \cup {c}) = Cardinality(S) + 1
         /\ c \in S => Cardinality(S \ {c}) = Cardinality(S) - 1
<1>1. IsFiniteSet(S)
  BY AdmissionAssumption, FS_Subset
<1> QED
  BY <1>1, FS_CardinalityType, FS_AddElement, FS_RemoveElement

\* All that is counted are connections.
LEMMA CountedAreConns ==
  /\ Slots \in SUBSET Conns /\ Remotes \in SUBSET Conns /\ Locals \in SUBSET Conns
  /\ \A s \in Sources : Counted(s) \in SUBSET Conns
BY DEF Slots, Remotes, Locals, Counted, Holding, Remote, Local

\* A step of one connection moves that connection alone in and out of the sets.
LEMMA Moves ==
  ASSUME stage \in [Conns -> Stages], NEW c \in Conns, NEW t \in Stages, Goes(c, t)
  PROVE  /\ stage' \in [Conns -> Stages]
         /\ Slots' = IF t \in {"away", "gone"} THEN Slots \ {c} ELSE Slots \cup {c}
         /\ Remotes' = IF t \in {"hello", "release"} /\ c \notin Relayed /\ Source[c] # Loopback
                         THEN Remotes \cup {c} ELSE Remotes \ {c}
         /\ Locals' = IF t \in {"hello", "release"} /\ c \notin Relayed /\ Source[c] = Loopback
                        THEN Locals \cup {c} ELSE Locals \ {c}
         /\ \A s \in Sources \ {Loopback} :
              Counted(s)' = IF t \in {"hello", "release", "uncount"} /\ c \notin Relayed /\ Source[c] = s
                              THEN Counted(s) \cup {c} ELSE Counted(s) \ {c}
<1>1. stage' = [stage EXCEPT ![c] = t]
  BY DEF Goes
<1>2. stage' \in [Conns -> Stages]
  BY <1>1
<1>3. \A d \in Conns : stage'[d] = IF d = c THEN t ELSE stage[d]
  BY <1>1
<1>4. Slots' = IF t \in {"away", "gone"} THEN Slots \ {c} ELSE Slots \cup {c}
  BY <1>2, <1>3 DEF Slots, Holding, Stages
<1>5. Remotes' = IF t \in {"hello", "release"} /\ c \notin Relayed /\ Source[c] # Loopback
                   THEN Remotes \cup {c} ELSE Remotes \ {c}
  BY <1>3 DEF Remotes, Remote, Holding
<1>6. Locals' = IF t \in {"hello", "release"} /\ c \notin Relayed /\ Source[c] = Loopback
                  THEN Locals \cup {c} ELSE Locals \ {c}
  BY <1>3 DEF Locals, Local, Holding
<1>7. ASSUME NEW s \in Sources \ {Loopback}
      PROVE  Counted(s)' = IF t \in {"hello", "release", "uncount"} /\ c \notin Relayed /\ Source[c] = s
                             THEN Counted(s) \cup {c} ELSE Counted(s) \ {c}
  BY <1>3, <1>7 DEF Counted, Remote, Holding
<1> QED
  BY <1>2, <1>4, <1>5, <1>6, <1>7

Bit(b) == IF b THEN 1 ELSE 0
HasSlot(t)       == t \notin {"away", "gone"}
Shakes(c, t)     == t \in {"hello", "release"} /\ c \notin Relayed
IsCounted(c, t)  == t \in {"hello", "release", "uncount"} /\ c \notin Relayed

\* The sizes after a step of c to stage t, from the sizes before it.
LEMMA Sizes ==
  ASSUME stage \in [Conns -> Stages], NEW c \in Conns, NEW t \in Stages, Goes(c, t)
  PROVE  /\ Cardinality(Slots') = Cardinality(Slots) + Bit(HasSlot(t)) - Bit(HasSlot(stage[c]))
         /\ Cardinality(Remotes') = Cardinality(Remotes)
              + Bit(Shakes(c, t) /\ Source[c] # Loopback)
              - Bit(Shakes(c, stage[c]) /\ Source[c] # Loopback)
         /\ Cardinality(Locals') = Cardinality(Locals)
              + Bit(Shakes(c, t) /\ Source[c] = Loopback)
              - Bit(Shakes(c, stage[c]) /\ Source[c] = Loopback)
         /\ \A s \in Sources \ {Loopback} :
              Cardinality(Counted(s)') = Cardinality(Counted(s))
                + Bit(IsCounted(c, t) /\ Source[c] = s) - Bit(IsCounted(c, stage[c]) /\ Source[c] = s)
<1>1. ASSUME NEW S \in SUBSET Conns, NEW T, NEW in \in BOOLEAN,
             T = IF in THEN S \cup {c} ELSE S \ {c}
      PROVE  Cardinality(T) = Cardinality(S) + Bit(in) - Bit(c \in S)
  <2>1. Cardinality(S) \in Nat
    BY Count, Zenon
  <2>2. CASE in /\ c \in S
    <3>1. T = S
      BY <1>1, <2>2
    <3> QED
      BY <3>1, <2>1, <2>2 DEF Bit
  <2>3. CASE in /\ c \notin S
    BY <1>1, <2>1, <2>3, Count DEF Bit
  <2>4. CASE ~in /\ c \in S
    BY <1>1, <2>1, <2>4, Count DEF Bit
  <2>5. CASE ~in /\ c \notin S
    <3>1. T = S
      BY <1>1, <2>5
    <3> QED
      BY <3>1, <2>1, <2>5 DEF Bit
  <2> QED
    BY <2>2, <2>3, <2>4, <2>5
<1>2. Cardinality(Slots') = Cardinality(Slots) + Bit(HasSlot(t)) - Bit(HasSlot(stage[c]))
  <2>1. Slots' = IF HasSlot(t) THEN Slots \cup {c} ELSE Slots \ {c}
    BY Moves DEF HasSlot
  <2>2. (c \in Slots) = HasSlot(stage[c])
    BY DEF Slots, Holding, HasSlot
  <2>3. HasSlot(t) \in BOOLEAN
    BY DEF HasSlot
  <2> QED
    BY <1>1, <2>1, <2>2, <2>3, CountedAreConns
<1>3. Cardinality(Remotes') = Cardinality(Remotes)
        + Bit(Shakes(c, t) /\ Source[c] # Loopback)
        - Bit(Shakes(c, stage[c]) /\ Source[c] # Loopback)
  <2> DEFINE in == Shakes(c, t) /\ Source[c] # Loopback
  <2>1. Remotes' = IF in THEN Remotes \cup {c} ELSE Remotes \ {c}
    BY Moves DEF Shakes
  <2>2. (c \in Remotes) = (Shakes(c, stage[c]) /\ Source[c] # Loopback)
    BY DEF Remotes, Remote, Holding, Shakes
  <2>3. in \in BOOLEAN
    OBVIOUS
  <2> HIDE DEF in
  <2>4. Cardinality(Remotes') = Cardinality(Remotes) + Bit(in) - Bit(c \in Remotes)
    BY <1>1, <2>1, <2>3, CountedAreConns
  <2> QED
    BY <2>2, <2>4 DEF in
<1>4. Cardinality(Locals') = Cardinality(Locals)
        + Bit(Shakes(c, t) /\ Source[c] = Loopback)
        - Bit(Shakes(c, stage[c]) /\ Source[c] = Loopback)
  <2> DEFINE in == Shakes(c, t) /\ Source[c] = Loopback
  <2>1. Locals' = IF in THEN Locals \cup {c} ELSE Locals \ {c}
    BY Moves DEF Shakes
  <2>2. (c \in Locals) = (Shakes(c, stage[c]) /\ Source[c] = Loopback)
    BY DEF Locals, Local, Holding, Shakes
  <2>3. in \in BOOLEAN
    OBVIOUS
  <2> HIDE DEF in
  <2>4. Cardinality(Locals') = Cardinality(Locals) + Bit(in) - Bit(c \in Locals)
    BY <1>1, <2>1, <2>3, CountedAreConns
  <2> QED
    BY <2>2, <2>4 DEF in
<1>5. ASSUME NEW s \in Sources \ {Loopback}
      PROVE  Cardinality(Counted(s)') = Cardinality(Counted(s))
               + Bit(IsCounted(c, t) /\ Source[c] = s) - Bit(IsCounted(c, stage[c]) /\ Source[c] = s)
  <2> DEFINE in == IsCounted(c, t) /\ Source[c] = s
  <2>1. Counted(s)' = IF in THEN Counted(s) \cup {c} ELSE Counted(s) \ {c}
    BY Moves DEF IsCounted
  <2>2. (c \in Counted(s)) = (IsCounted(c, stage[c]) /\ Source[c] = s)
    BY <1>5 DEF Counted, Remote, Holding, IsCounted
  <2>3. in \in BOOLEAN
    OBVIOUS
  <2> HIDE DEF in
  <2>4. Cardinality(Counted(s)') = Cardinality(Counted(s)) + Bit(in) - Bit(c \in Counted(s))
    BY <1>1, <2>1, <2>3, CountedAreConns
  <2> QED
    BY <2>2, <2>4 DEF in
<1> QED
  BY <1>2, <1>3, <1>4, <1>5

\* What a step of c to t does to the counters, and the caps after it.
Accounts(c, t) ==
  /\ t = "uncount" => Uncounts(c)
  /\ passed' \in SUBSET Conns
  /\ sourceStartups' \in [Sources -> Int] /\ sourceStartups'[Loopback] = 0
  /\ conns' = conns + Bit(HasSlot(t)) - Bit(HasSlot(stage[c])) /\ conns' <= MaxConns
  /\ startups' = startups + Bit(Shakes(c, t) /\ Source[c] # Loopback)
                   - Bit(Shakes(c, stage[c]) /\ Source[c] # Loopback)
  /\ startups' <= MaxStartups
  /\ localStartups' = localStartups + Bit(Shakes(c, t) /\ Source[c] = Loopback)
                        - Bit(Shakes(c, stage[c]) /\ Source[c] = Loopback)
  /\ localStartups' <= MaxStartups
  /\ \A s \in Sources \ {Loopback} :
       /\ sourceStartups'[s] = sourceStartups[s] + Bit(IsCounted(c, t) /\ Source[c] = s)
                                - Bit(IsCounted(c, stage[c]) /\ Source[c] = s)
       /\ sourceStartups'[s] <= MaxSourceStartups

\* A step that accounts for where its connection goes keeps the invariant.
LEMMA AccountsKeeps ==
  ASSUME AdmissionInv, NEW c \in Conns, NEW t \in Stages, Goes(c, t), Accounts(c, t)
  PROVE  AdmissionInv'
<1>1. stage \in [Conns -> Stages]
  BY DEF AdmissionInv
<1>2. stage' \in [Conns -> Stages]
  BY <1>1, Moves
<1>3. conns' = Cardinality(Slots') /\ startups' = Cardinality(Remotes')
      /\ localStartups' = Cardinality(Locals')
  BY <1>1, Sizes DEF AdmissionInv, Accounts
<1>4. \A s \in Sources \ {Loopback} : sourceStartups'[s] = Cardinality(Counted(s)')
  BY <1>1, Sizes DEF AdmissionInv, Accounts
<1>5. \A d \in Conns : stage'[d] = "uncount" => Uncounts(d)
  BY <1>1 DEF AdmissionInv, Accounts, Goes
<1> QED
  BY <1>2, <1>3, <1>4, <1>5 DEF AdmissionInv, Accounts

\* Every step keeps the counters exact and under their caps.
LEMMA AdmissionInductive ==
  ASSUME AdmissionInv, [AdmissionNext]_admissionVars
  PROVE  AdmissionInv'
<1> USE AdmissionAssumption
<1>1. CASE UNCHANGED admissionVars
  BY <1>1 DEF AdmissionInv, admissionVars, Slots, Remotes, Locals, Counted, Holding, Remote, Local
<1>2. CASE AdmissionNext
  <2>1. PICK c \in Conns :
          \/ Accepted(c) \/ AtCapacity(c) \/ Startup(c) \/ LocalStartup(c)
          \/ RelayedStartup(c) \/ Busy(c) \/ \E ok \in BOOLEAN : HandshakeReturns(c, ok)
          \/ Release(c) \/ Uncount(c) \/ Leaves(c) \/ SlotReturns(c)
    BY <1>2 DEF AdmissionNext
  <2>2. conns \in Nat /\ startups \in Nat /\ localStartups \in Nat
    BY Count, CountedAreConns, Zenon DEF AdmissionInv
  <2>3. stage[c] \in Stages /\ passed \in SUBSET Conns /\ sourceStartups \in [Sources -> Int]
        /\ sourceStartups[Loopback] = 0 /\ Source[c] \in Sources
    BY DEF AdmissionInv
  <2>4. conns <= MaxConns /\ startups <= MaxStartups /\ localStartups <= MaxStartups
        /\ \A s \in Sources \ {Loopback} : sourceStartups[s] <= MaxSourceStartups
    BY DEF AdmissionInv
  <2>5. \A t \in Stages : Goes(c, t) /\ Accounts(c, t) => AdmissionInv'
    BY AccountsKeeps
  <2> USE DEF Accounts, Bit, HasSlot, Shakes, IsCounted, Uncounts
  <2>6. CASE Accepted(c)
    <3>1. Goes(c, "accepted") /\ Accounts(c, "accepted")
      BY <2>2, <2>3, <2>4, <2>6 DEF Accepted
    <3> QED
      BY <3>1, <2>5 DEF Stages
  <2>7. CASE AtCapacity(c)
    <3>1. Goes(c, "gone") /\ Accounts(c, "gone")
      BY <2>2, <2>3, <2>4, <2>7 DEF AtCapacity
    <3> QED
      BY <3>1, <2>5 DEF Stages
  <2>8. CASE Startup(c)
    <3>1. Goes(c, "hello") /\ Accounts(c, "hello")
      BY <2>2, <2>3, <2>4, <2>8 DEF Startup
    <3> QED
      BY <3>1, <2>5 DEF Stages
  <2>9. CASE LocalStartup(c)
    <3>1. Goes(c, "hello") /\ Accounts(c, "hello")
      BY <2>2, <2>3, <2>4, <2>9 DEF LocalStartup
    <3> QED
      BY <3>1, <2>5 DEF Stages
  <2>10. CASE RelayedStartup(c)
    <3>1. Goes(c, "hello") /\ Accounts(c, "hello")
      BY <2>2, <2>3, <2>4, <2>10 DEF RelayedStartup
    <3> QED
      BY <3>1, <2>5 DEF Stages
  <2>11. CASE Busy(c)
    <3>1. Goes(c, "leaving") /\ Accounts(c, "leaving")
      BY <2>2, <2>3, <2>4, <2>11 DEF Busy
    <3> QED
      BY <3>1, <2>5 DEF Stages
  <2>12. ASSUME NEW ok \in BOOLEAN, HandshakeReturns(c, ok)
         PROVE  AdmissionInv'
    <3>1. Goes(c, "release") /\ Accounts(c, "release")
      BY <2>2, <2>3, <2>4, <2>12 DEF HandshakeReturns
    <3> QED
      BY <3>1, <2>5, Zenon DEF Stages
  <2>13. CASE Release(c) /\ c \notin Relayed /\ Source[c] # Loopback
    <3>1. Goes(c, "uncount") /\ Accounts(c, "uncount")
      BY <2>2, <2>3, <2>4, <2>13 DEF Release
    <3> QED
      BY <3>1, <2>5 DEF Stages
  <2>14. CASE Release(c) /\ ~(c \notin Relayed /\ Source[c] # Loopback)
    <3>1. Handled(c) \in {"served", "leaving"}
      BY DEF Handled
    <3>2. Goes(c, Handled(c)) /\ Accounts(c, Handled(c))
      BY <2>2, <2>3, <2>4, <2>14, <3>1 DEF Release
    <3> QED
      BY <3>1, <3>2, <2>5 DEF Stages
  <2>15. CASE Uncount(c)
    <3>1. Handled(c) \in {"served", "leaving"}
      BY DEF Handled
    <3>2. c \notin Relayed /\ Source[c] # Loopback
      BY <2>15 DEF Uncount, AdmissionInv
    <3>3. Goes(c, Handled(c)) /\ Accounts(c, Handled(c))
      BY <2>2, <2>3, <2>4, <2>15, <3>1, <3>2 DEF Uncount
    <3> QED
      BY <3>1, <3>3, <2>5 DEF Stages
  <2>16. CASE Leaves(c)
    <3>1. Goes(c, "leaving") /\ Accounts(c, "leaving")
      BY <2>2, <2>3, <2>4, <2>16 DEF Leaves
    <3> QED
      BY <3>1, <2>5 DEF Stages
  <2>17. CASE SlotReturns(c)
    <3>1. Goes(c, "gone") /\ Accounts(c, "gone")
      BY <2>2, <2>3, <2>4, <2>17 DEF SlotReturns
    <3> QED
      BY <3>1, <2>5 DEF Stages
  <2> QED
    BY <2>1, <2>6, <2>7, <2>8, <2>9, <2>10, <2>11, <2>12, <2>13, <2>14, <2>15, <2>16, <2>17
<1> QED
  BY <1>1, <1>2

\* Nothing is taken at first.
LEMMA AdmissionStarts == AdmissionInit => AdmissionInv
<1> SUFFICES ASSUME AdmissionInit
             PROVE  AdmissionInv
  OBVIOUS
<1>1. stage = [c \in Conns |-> "away"] /\ stage \in [Conns -> Stages]
  BY DEF AdmissionInit, Stages
<1>2. Slots = {} /\ Remotes = {} /\ Locals = {} /\ \A s \in Sources : Counted(s) = {}
  BY <1>1 DEF Slots, Remotes, Locals, Counted, Holding, Remote, Local
<1> QED
  BY <1>1, <1>2, FS_EmptySet, AdmissionAssumption DEF AdmissionInit, AdmissionInv

\* The invariant gives the property.
LEMMA AdmissionInvSuffices == AdmissionInv => AdmissionAccounted
BY DEF AdmissionInv, AdmissionAccounted, Slots, Remotes, Locals, Counted

(***************************************************************************)
(* The slots of Serve, of acquireStartup and of its per-source counts are  *)
(* exact and capped in every interleaving of connections that are          *)
(* accepted, refused, time out and release.                                *)
(***************************************************************************)
THEOREM SlotsAreExact == AdmissionSpec => []AdmissionAccounted
BY AdmissionStarts, AdmissionInductive, AdmissionInvSuffices, PTL DEF AdmissionSpec
-----------------------------------------------------------------------------
(***************************************************************************)
(* The slots of a connection are those of what is open, and every listener *)
(* is in the map of forwards, for any number of channels and ports and any *)
(* limit.                                                                  *)
(***************************************************************************)

PortsOf(F) == {a[2] : a \in F}

\* A port has one forward at most: the map, the open listeners and the slots are three
\* views of the same thing, and the cardinalities that SlotsAccounted adds up stay equal.
ConnInv ==
  /\ open \in BOOLEAN /\ handler \in {"serving", "waiting", "torn", "gone"}
  /\ served \in SUBSET Channels /\ agent \in SUBSET Channels
  /\ slots \in Nat /\ agents \in Nat /\ ending \in Nat /\ accepted \in Nat
  /\ slots <= Limit
  /\ request \in Request
  /\ forwards \in SUBSET (Hosts \X Ports)
  /\ listening = PortsOf(forwards)
  /\ accepting \in SUBSET listening
  /\ stalled \in SUBSET served /\ stuck \in Nat /\ stuck <= accepted
  /\ \A a \in forwards, b \in forwards : a[2] = b[2] => a = b
  /\ Cardinality(listening) = Cardinality(forwards)
  /\ handler \in {"torn", "gone"} => forwards = {}
  /\ SlotsAccounted

\* What the sizes of the sets do when one element comes or goes.
LEMMA Size ==
  ASSUME NEW S, IsFiniteSet(S), NEW x
  PROVE  /\ Cardinality(S) \in Nat
         /\ x \notin S => Cardinality(S \cup {x}) = Cardinality(S) + 1
         /\ x \in S => Cardinality(S \ {x}) = Cardinality(S) - 1
BY FS_CardinalityType, FS_AddElement, FS_RemoveElement, Zenon

\* Channels served, listeners and forwards are finite.
LEMMA FiniteParts ==
  ASSUME ConnInv
  PROVE  /\ IsFiniteSet(served) /\ IsFiniteSet(forwards)
         /\ IsFiniteSet(listening) /\ IsFiniteSet(accepting)
<1>1. IsFiniteSet(served)
  BY FiniteAssumption, FS_Subset DEF ConnInv
<1>2. IsFiniteSet(Hosts)
  <2>1. Hosts = ({} \cup {"loopback"}) \cup {"any"}
    BY DEF Hosts
  <2>2. IsFiniteSet({} \cup {"loopback"})
    BY FS_EmptySet, FS_AddElement
  <2>3. IsFiniteSet(({} \cup {"loopback"}) \cup {"any"})
    BY <2>2, FS_AddElement
  <2> QED
    BY <2>1, <2>3
<1>3. IsFiniteSet(Hosts \X Ports)
  BY <1>2, FiniteAssumption, FS_Product
<1>4. IsFiniteSet(forwards)
  BY <1>3, FS_Subset DEF ConnInv
<1>5. listening \in SUBSET Ports
  BY DEF ConnInv, PortsOf
<1>6. IsFiniteSet(listening)
  BY <1>5, FiniteAssumption, FS_Subset
<1>7. IsFiniteSet(accepting)
  BY <1>6, FS_Subset DEF ConnInv
<1> QED
  BY <1>1, <1>4, <1>6, <1>7

\* A new forward: its port was free, so neither view had it.
LEMMA ForwardKeeps ==
  ASSUME ConnInv, Forward
  PROVE  ConnInv'
<1> Limit \in Nat
  BY LimitAssumption
<1>1. PICK p \in FreePorts(request.port) :
        /\ listening' = listening \cup {p} /\ accepting' = accepting \cup {p}
        /\ forwards' = forwards \cup {ForwardAddr(request.gateway, p)}
  BY DEF Forward
<1> DEFINE a == ForwardAddr(request.gateway, p)
<1>2. p \in Ports /\ p \notin listening
  BY DEF FreePorts
<1>3. a \in Hosts \X Ports /\ a[2] = p
  BY <1>2 DEF ForwardAddr, Hosts
<1>4. a \notin forwards
  BY <1>2, <1>3 DEF ConnInv, PortsOf
<1> HIDE DEF a
<1>5. listening' = PortsOf(forwards') /\ forwards' \in SUBSET (Hosts \X Ports)
  BY <1>1, <1>3 DEF ConnInv, PortsOf, a
<1>6. \A x \in forwards', y \in forwards' : x[2] = y[2] => x = y
  BY <1>1, <1>2, <1>3 DEF ConnInv, PortsOf, a
<1>7. /\ Cardinality(listening') = Cardinality(listening) + 1
      /\ Cardinality(forwards') = Cardinality(forwards) + 1
      /\ Cardinality(accepting') = Cardinality(accepting) + 1
  <2>1. p \notin accepting
    BY <1>2 DEF ConnInv
  <2> QED
    BY <1>1, <1>2, <1>4, <2>1, FiniteParts, Size DEF a
<1>8. Cardinality(accepting) \in Nat /\ Cardinality(served) \in Nat
  BY FiniteParts, Size, Zenon
<1>9. slots < Limit /\ slots' = slots + 1 /\ handler' = handler
      /\ handler \in {"serving", "waiting"}
      /\ UNCHANGED <<open, served, agent, agents, stalled, ending, accepted, stuck>>
      /\ request' = NoRequest
  BY DEF Forward, AcquireChannel, chanVars
<1>10. SlotsAccounted'
  BY <1>7, <1>8, <1>9 DEF ConnInv, SlotsAccounted
<1>11. accepting' \in SUBSET listening'
  BY <1>1 DEF ConnInv
<1> QED
  BY <1>5, <1>6, <1>7, <1>9, <1>10, <1>11 DEF ConnInv, Request

\* The accept loops that stop count on, as loops that are ending.
LEMMA StopCounts ==
  ASSUME ConnInv, NEW P, StopAccepting(P)
  PROVE  /\ Cardinality(accepting) + ending = Cardinality(accepting') + ending'
         /\ Cardinality(accepting') \in Nat /\ Cardinality(accepting) \in Nat /\ ending' \in Nat
<1> DEFINE In == accepting \cap P
           Out == accepting \ P
<1>1. IsFiniteSet(accepting)
  BY FiniteParts
<1>2. IsFiniteSet(In) /\ IsFiniteSet(Out)
  BY <1>1, FS_Subset
<1>3. Cardinality(In \cup Out) = Cardinality(In) + Cardinality(Out) - Cardinality(In \cap Out)
  BY <1>2, FS_Union
<1>4. In \cup Out = accepting /\ In \cap Out = {}
  OBVIOUS
<1>5. Cardinality({}) = 0 /\ Cardinality(In) \in Nat /\ Cardinality(Out) \in Nat
      /\ Cardinality(accepting) \in Nat
  BY <1>1, <1>2, FS_EmptySet, FS_CardinalityType, Zenon
<1>6. accepting' = Out /\ ending' = ending + Cardinality(In) /\ ending \in Nat
  BY DEF StopAccepting, ConnInv
<1>7. Cardinality(accepting') = Cardinality(Out)
  BY <1>6
<1>8. Cardinality(accepting) = Cardinality(In) + Cardinality(Out)
  <2>1. Cardinality(accepting) = Cardinality(In) + Cardinality(Out) - Cardinality({})
    BY <1>3, <1>4, Zenon
  <2> HIDE DEF In, Out
  <2> QED
    BY <2>1, <1>5
<1> HIDE DEF In, Out
<1> QED
  BY <1>5, <1>6, <1>7, <1>8

\* A cancelled forward leaves both views, and its accept loop has the slot.
LEMMA CancelKeeps ==
  ASSUME ConnInv, Cancel
  PROVE  ConnInv'
<1> Limit \in Nat
  BY LimitAssumption
<1> DEFINE a == ForwardAddr(request.gateway, request.port)
<1>1. /\ UNCHANGED <<open, handler, slots, served, agent, agents, stalled, accepted, stuck>>
      /\ request' = NoRequest
  BY DEF Cancel, chanVars
<1>2. CASE a \notin forwards
  <2>1. UNCHANGED <<forwards, listening, accepting, ending>>
    BY <1>2 DEF Cancel
  <2> QED
    BY <1>1, <2>1 DEF ConnInv, SlotsAccounted, Request, PortsOf
<1>3. CASE a \in forwards
  <2>1. /\ forwards' = forwards \ {a} /\ listening' = listening \ {request.port}
        /\ StopAccepting({request.port})
    BY <1>3 DEF Cancel
  <2>2. a[2] = request.port /\ request.port \in listening
    BY <1>3 DEF ForwardAddr, ConnInv, PortsOf
  <2> HIDE DEF a
  <2>3. listening' = PortsOf(forwards') /\ forwards' \in SUBSET (Hosts \X Ports)
    BY <1>3, <2>1, <2>2 DEF ConnInv, PortsOf
  <2>4. \A x \in forwards', y \in forwards' : x[2] = y[2] => x = y
    BY <2>1 DEF ConnInv
  <2>5. /\ Cardinality(listening') = Cardinality(listening) - 1
        /\ Cardinality(forwards') = Cardinality(forwards) - 1
    BY <1>3, <2>1, <2>2, FiniteParts, Size
  <2>6. /\ Cardinality(accepting) + ending = Cardinality(accepting') + ending'
        /\ Cardinality(accepting') \in Nat /\ Cardinality(accepting) \in Nat /\ ending' \in Nat
        /\ Cardinality(served) \in Nat
    BY <2>1, StopCounts, FiniteParts, Size, Zenon
  <2>7. SlotsAccounted'
    BY <1>1, <2>6 DEF ConnInv, SlotsAccounted
  <2>8. handler' \in {"torn", "gone"} => forwards' = {}
    BY <1>1, <2>1 DEF ConnInv
  <2>9. accepting' \in SUBSET listening'
    BY <2>1 DEF ConnInv, StopAccepting
  <2> QED
    BY <1>1, <2>3, <2>4, <2>5, <2>6, <2>7, <2>8, <2>9 DEF ConnInv, Request
<1> QED
  BY <1>2, <1>3

\* The teardown closes what is in the map, and that is all there is.
LEMMA TeardownKeeps ==
  ASSUME ConnInv, Teardown
  PROVE  ConnInv'
<1> Limit \in Nat
  BY LimitAssumption
<1>1. listening' = {} /\ forwards' = {} /\ StopAccepting(listening) /\ accepting' = {}
  BY DEF Teardown, ConnInv, PortsOf, StopAccepting
<1>2. /\ Cardinality(accepting) + ending = Cardinality(accepting') + ending'
      /\ Cardinality(accepting') \in Nat /\ Cardinality(accepting) \in Nat /\ ending' \in Nat
      /\ Cardinality(served) \in Nat
  BY <1>1, StopCounts, FiniteParts, Size, Zenon
<1>3. /\ UNCHANGED <<open, slots, served, agent, agents, stalled, request, accepted, stuck>>
      /\ handler' = "torn"
  BY DEF Teardown, chanVars
<1>4. SlotsAccounted'
  BY <1>2, <1>3 DEF ConnInv, SlotsAccounted
<1>5. listening' = PortsOf(forwards') /\ Cardinality(listening') = Cardinality(forwards')
  BY <1>1 DEF PortsOf
<1> QED
  BY <1>1, <1>2, <1>3, <1>4, <1>5 DEF ConnInv

\* Every step of the three kinds of goroutine keeps the invariant.
LEMMA ConnInductive ==
  ASSUME ConnInv, [Next]_vars
  PROVE  ConnInv'
<1> Limit \in Nat
  BY LimitAssumption
<1>1. /\ Cardinality(served) \in Nat /\ Cardinality(accepting) \in Nat
      /\ IsFiniteSet(served) /\ IsFiniteSet(accepting)
  BY FiniteParts, Size, Zenon
<1>2. ASSUME NEW c \in Channels, NewChannel(c)
      PROVE  ConnInv'
  <2>1. Cardinality(served \cup {c}) = Cardinality(served) + 1
    BY <1>1, <1>2, Size DEF NewChannel
  <2> QED
    BY <1>1, <1>2, <2>1 DEF NewChannel, AcquireChannel, ConnInv, SlotsAccounted, fwdVars
<1>3. ASSUME NEW c \in Channels, ServeReturns(c)
      PROVE  ConnInv'
  <2>1. Cardinality(served \ {c}) = Cardinality(served) - 1
    BY <1>1, <1>3, Size DEF ServeReturns
  <2>2. Cardinality(served \ {c}) \in Nat
    BY <1>1, FS_RemoveElement, FS_CardinalityType
  <2>3. SlotsAccounted' /\ slots' \in Nat /\ slots' <= Limit
    BY <1>1, <1>3, <2>1, <2>2 DEF ServeReturns, ReleaseChannel, ConnInv, SlotsAccounted, fwdVars
  <2> QED
    BY <1>3, <2>3 DEF ServeReturns, ConnInv, fwdVars
<1>4. ASSUME NEW c \in Channels, AgentRequest(c)
      PROVE  ConnInv'
  BY <1>4 DEF AgentRequest, ConnInv, SlotsAccounted, fwdVars
<1>5. ASSUME NEW c \in Channels, AgentAccept(c)
      PROVE  ConnInv'
  BY <1>1, <1>5 DEF AgentAccept, AcquireChannel, ConnInv, SlotsAccounted, fwdVars
<1>6. ASSUME NEW c \in Channels, AgentCloses(c)
      PROVE  ConnInv'
  BY <1>6 DEF AgentCloses, ConnInv, SlotsAccounted, fwdVars
<1>7. CASE AgentReturns
  BY <1>1, <1>7 DEF AgentReturns, ReleaseChannel, ConnInv, SlotsAccounted, fwdVars
<1>8. ASSUME NEW op \in {"forward", "cancel"}, NEW p \in Ports \cup {0}, TakeRequest(op, p)
      PROVE  ConnInv'
  <2>1. request' \in Request
    BY <1>8 DEF TakeRequest, Request
  <2> QED
    BY <1>8, <2>1 DEF TakeRequest, ConnInv, SlotsAccounted, chanVars, fwdVars
<1>9. CASE Forward
  BY <1>9, ForwardKeeps
<1>10. CASE ForwardRefused
  BY <1>10 DEF ForwardRefused, ConnInv, Request, SlotsAccounted, chanVars, fwdVars
<1>11. CASE Cancel
  BY <1>11, CancelKeeps
<1>12. CASE Accept
  BY <1>1, <1>12 DEF Accept, AcquireChannel, ConnInv, SlotsAccounted, chanVars
<1>13. CASE ForwardedReturns
  BY <1>1, <1>13 DEF ForwardedReturns, ReleaseChannel, ConnInv, SlotsAccounted, chanVars
<1>14. CASE AcceptEnds
  BY <1>1, <1>14 DEF AcceptEnds, ReleaseChannel, ConnInv, SlotsAccounted, chanVars
<1>15. CASE TransportCloses
  BY <1>15, Zenon DEF TransportCloses, ConnInv, SlotsAccounted, chanVars, fwdVars
<1>16. CASE LoopEnds
  BY <1>16 DEF LoopEnds, ConnInv, SlotsAccounted, chanVars, fwdVars
<1>17. CASE Teardown
  BY <1>17, TeardownKeeps
<1>18. CASE Gone
  BY <1>18 DEF Gone, ConnInv, SlotsAccounted, chanVars, fwdVars
<1>19. CASE UNCHANGED vars
  BY <1>19 DEF vars, ConnInv, SlotsAccounted, chanVars, fwdVars
<1>20. ASSUME NEW p \in Ports, AcceptFails(p)
       PROVE  ConnInv'
  <2>1. Cardinality(accepting \ {p}) = Cardinality(accepting) - 1
    BY <1>1, <1>20, Size DEF AcceptFails
  <2>2. Cardinality(accepting \ {p}) \in Nat
    BY <1>1, FS_RemoveElement, FS_CardinalityType
  <2>3. SlotsAccounted' /\ slots' \in Nat /\ slots' <= Limit
    BY <1>1, <1>20, <2>1, <2>2
    DEF AcceptFails, ReleaseChannel, ConnInv, SlotsAccounted, chanVars
  <2> QED
    BY <1>20, <2>3 DEF AcceptFails, ConnInv, chanVars
<1>21. ASSUME NEW c \in Channels, PeerStalls(c) \/ PeerResumes(c)
       PROVE  ConnInv'
  BY <1>21, Zenon DEF PeerStalls, PeerResumes, ConnInv, SlotsAccounted, fwdVars
<1>22. CASE ForwardedStalls \/ ForwardedResumes
  BY <1>22 DEF ForwardedStalls, ForwardedResumes, ConnInv, SlotsAccounted, chanVars
<1> QED
  BY <1>2, <1>3, <1>4, <1>5, <1>6, <1>7, <1>8, <1>9, <1>10, <1>11, <1>12, <1>13, <1>14,
     <1>15, <1>16, <1>17, <1>18, <1>19, <1>20, <1>21, <1>22 DEF Next

\* A connection starts with nothing open and no slot taken.
LEMMA ConnStarts == Init => ConnInv
<1> SUFFICES ASSUME Init
             PROVE  ConnInv
  OBVIOUS
<1>1. Cardinality({}) = 0 /\ 0 <= Limit
  BY FS_EmptySet, LimitAssumption
<1> QED
  BY <1>1 DEF Init, ConnInv, SlotsAccounted, PortsOf, Request

\* The invariant gives both properties.
LEMMA ConnInvSuffices == ConnInv => SlotsAccounted /\ NoOrphanListener
BY DEF ConnInv, NoOrphanListener, PortsOf

(***************************************************************************)
(* acquireChannel and releaseChannel are called once each for a channel, a *)
(* listener, a forwarded and an agent connection, however the loops of a   *)
(* connection interleave.                                                  *)
(***************************************************************************)
THEOREM SlotsAreReturned == Spec => []SlotsAccounted
BY ConnStarts, ConnInductive, ConnInvSuffices, PTL DEF Spec

(***************************************************************************)
(* No remote forward outlives the map it is in, nor the connection: a      *)
(* request answered after connState.close opens no listener.               *)
(***************************************************************************)
THEOREM NoListenerIsLost == Spec => []NoOrphanListener
BY ConnStarts, ConnInductive, ConnInvSuffices, PTL DEF Spec
-----------------------------------------------------------------------------
ServerInv == work \in Workloads /\ AdmissionInv /\ RelayInv /\ ConnInv

\* The connections that come are connections.
LEMMA WorkConns ==
  ASSUME work \in Workloads, NEW c \in work.conns
  PROVE  c \in Conns
BY ServerAssumption

USE DEF lifeVars, connVars

\* One connection's handshake, sweep or end.
LEMMA HandlerSteps ==
  ASSUME NEW c \in Conns,
         \/ Arrive(c) \/ HandshakeSucceeds(c) \/ HandshakeFails(c) \/ HangsUp(c) \/ HandlerNext(c)
  PROVE  /\ UNCHANGED work
         /\ [AdmissionNext]_admissionVars /\ [RelayNext]_relayVars /\ [Next]_vars
<1>1. CASE Arrive(c)
  BY <1>1, Zenon DEF Arrive, AdmissionNext
<1>2. CASE HandshakeSucceeds(c)
  <2>1. UNCHANGED <<work, vars>> /\ \E ok \in BOOLEAN : HandshakeReturns(c, ok)
    BY <1>2, Zenon DEF HandshakeSucceeds
  <2>2. UNCHANGED relayVars \/ \E on \in BOOLEAN : SetDeadline(on)
    BY <1>2, Zenon DEF HandshakeSucceeds
  <2> QED
    BY <2>1, <2>2 DEF AdmissionNext, RelayNext
<1>3. CASE HandshakeFails(c)
  <2>1. UNCHANGED <<work, relayVars, vars>> /\ \E ok \in BOOLEAN : HandshakeReturns(c, ok)
    BY <1>3, Zenon DEF HandshakeFails
  <2> QED
    BY <2>1 DEF AdmissionNext
<1>4. CASE HangsUp(c) \/ Register(c) \/ OwnSweep(c) \/ SweepCloses(c)
  BY <1>4 DEF HangsUp, Register, OwnSweep, SweepCloses
<1>5. CASE Unregister(c)
  BY <1>5 DEF Unregister, AdmissionNext, Next
<1>6. CASE BeginHandshake(c)
  <2>1. UNCHANGED <<work, vars>> /\ (Startup(c) \/ LocalStartup(c) \/ Busy(c) \/ RelayedStartup(c))
    BY <1>6, Zenon DEF BeginHandshake
  <2>2. UNCHANGED relayVars \/ \E on \in BOOLEAN : SetDeadline(on)
    BY <1>6, Zenon DEF BeginHandshake
  <2> QED
    BY <2>1, <2>2 DEF AdmissionNext, RelayNext
<1>7. CASE EndHandshake(c) \/ ReturnSlot(c)
  BY <1>7 DEF EndHandshake, ReturnSlot, AdmissionNext
<1> QED
  BY <1>1, <1>2, <1>3, <1>4, <1>5, <1>6, <1>7 DEF HandlerNext

\* The sweeps, the relay's stream and its closers.
LEMMA RelaySteps ==
  ASSUME \/ SyncSweep \/ CloseNext \/ AliveCloses
         \/ Writing \/ DeadlineFires \/ TTLPasses \/ BackendSilent
  PROVE  UNCHANGED <<work, admissionVars, vars>> /\ [RelayNext]_relayVars
<1>1. CASE SyncSweep \/ SweepEnds
  BY <1>1 DEF SyncSweep, SweepEnds
<1>2. CASE SweepClosesRelay \/ HandlerCloses \/ AliveCloses
  <2>1. UNCHANGED <<work, admissionVars, vars>> /\ \E k \in Closers : Close(k)
    BY <1>2, ServerAssumption, Zenon DEF SweepClosesRelay, HandlerCloses, AliveCloses
  <2> QED
    BY <2>1 DEF RelayNext
<1>3. CASE SweepGoesOn
  <2>1. UNCHANGED <<work, admissionVars, vars>> /\ \E k \in Closers : CloseAgain(k)
    BY <1>3, ServerAssumption DEF SweepGoesOn
  <2> QED
    BY <2>1 DEF RelayNext
<1>4. CASE SendReturns
  BY <1>4 DEF SendReturns, RelayNext
<1>5. CASE Writing \/ DeadlineFires \/ TTLPasses \/ BackendSilent
  BY <1>5 DEF Writing, DeadlineFires, TTLPasses, BackendSilent, RelayNext
<1> QED
  BY <1>1, <1>2, <1>3, <1>4, <1>5 DEF CloseNext

\* The channels, forwards and agents of the connection in focus.
LEMMA FocusSteps ==
  ASSUME work \in Workloads, FocusClient \/ FocusServer \/ FocusPeers
  PROVE  UNCHANGED <<work, admissionVars, relayVars>> /\ [Next]_vars
<1>1. work.channels \subseteq Channels /\ work.ports \subseteq Ports \cup {0}
  BY ServerAssumption
<1>2. CASE FocusClient
  BY <1>1, <1>2, Zenon DEF FocusClient, Elsewhere, Next
<1>3. CASE FocusServer \/ FocusPeers
  BY <1>3, Zenon DEF FocusServer, FocusPeers, FocusEnds, Elsewhere, Next
<1> QED
  BY <1>2, <1>3

\* A step of the server is a step of each component or none.
LEMMA ServerSteps ==
  ASSUME work \in Workloads, [ServerNext]_serverVars
  PROVE  /\ UNCHANGED work
         /\ [AdmissionNext]_admissionVars /\ [RelayNext]_relayVars /\ [Next]_vars
<1>1. CASE UNCHANGED serverVars
  BY <1>1 DEF serverVars
<1>2. CASE \E c \in work.conns :
             \/ Arrive(c) \/ HandshakeSucceeds(c) \/ HandshakeFails(c) \/ HangsUp(c)
             \/ HandlerNext(c)
  BY <1>2, WorkConns, HandlerSteps
<1>3. CASE \/ SyncSweep \/ CloseNext \/ AliveCloses
           \/ Writing \/ DeadlineFires \/ TTLPasses \/ BackendSilent
  BY <1>3, RelaySteps
<1>4. CASE FocusClient \/ FocusServer \/ FocusPeers
  BY <1>4, FocusSteps
<1> QED
  BY <1>1, <1>2, <1>3, <1>4 DEF ServerNext

\* So it keeps the invariants of all three.
LEMMA ServerInductive ==
  ASSUME ServerInv, [ServerNext]_serverVars
  PROVE  ServerInv'
BY ServerSteps, AdmissionInductive, RelayInductive, ConnInductive DEF ServerInv

\* The server starts with all three as they start on their own.
LEMMA ServerStarts == ServerInit => ServerInv
BY AdmissionStarts, RelayStarts, ConnStarts DEF ServerInit, ServerInv

(***************************************************************************)
(* The server is an Admission, a Relay and a Connection at once: nothing   *)
(* that handleConn and DropRevoked do across them (a deadline with a       *)
(* handshake, a Close inside a sweep, the end of a connection with that of *)
(* its service) is a step that one of them does not have.                  *)
(***************************************************************************)
THEOREM ServerComposes == ServerSpec => AdmissionSpec /\ RelaySpec /\ Spec
<1>1. ServerInit => work \in Workloads /\ AdmissionInit /\ RelayInit /\ Init
  BY DEF ServerInit
<1>2. work \in Workloads /\ [ServerNext]_serverVars
        => /\ (work \in Workloads)'
           /\ [AdmissionNext]_admissionVars /\ [RelayNext]_relayVars /\ [Next]_vars
  BY ServerSteps
<1> QED
  BY <1>1, <1>2, PTL DEF ServerSpec, AdmissionSpec, RelaySpec, Spec

(***************************************************************************)
(* In the server as a whole the connection and pre-auth slots are exact    *)
(* and capped, Closed is a relay's last frame, and a connection's channel  *)
(* slots and forwards are accounted for: for every set of connections,     *)
(* sources, channels and ports, and every cap.                             *)
(***************************************************************************)
THEOREM ServerIsSafe ==
  ServerSpec => [](AdmissionAccounted /\ ClosedIsLast /\ SlotsAccounted /\ NoOrphanListener)
BY ServerComposes, SlotsAreExact, ClosedComesLast, SlotsAreReturned, NoListenerIsLost, PTL
-----------------------------------------------------------------------------
(***************************************************************************)
(* s.live, which DropRevoked works from, next to the stages of admission.  *)
(***************************************************************************)

LifeType ==
  /\ up \subseteq Conns /\ live \subseteq Conns
  /\ serve \in [Conns -> {"none", "own", "sweeping", "serving", "done"}]
  /\ sweep \in [by : Conns \cup {"none", "sync"}, todo : SUBSET Conns]
  /\ syncs \in 0..work.syncs

\* A connection is in s.live from where handleConn registers it to where it takes it out,
\* and a sweep, which has liveMu, has the connections of s.live before it.
LiveFollows ==
  /\ \A c \in Conns : c \in live <=> serve[c] \in {"own", "sweeping", "serving"}
  /\ \A c \in Conns : sweep.by = c <=> serve[c] = "sweeping"
  /\ sweep.todo \subseteq live

\* Nothing but a connection whose handshake succeeded is served, and it holds its slot.
ServedPassed == \A c \in Conns : stage[c] = "served" => c \in passed
LiveServed == \A c \in live : stage[c] = "served"

LifeInv == LifeType /\ LiveFollows /\ ServedPassed /\ LiveServed

\* Of the steps of admission only Leaves ends a service.
LEMMA ServiceGoesOn ==
  ASSUME AdmissionInv, LifeType, ServedPassed, LiveServed, UNCHANGED live, NEW c \in Conns,
         \/ Accepted(c) \/ AtCapacity(c) \/ Startup(c) \/ LocalStartup(c) \/ RelayedStartup(c)
         \/ Busy(c) \/ Release(c) \/ Uncount(c) \/ SlotReturns(c)
         \/ \E ok \in BOOLEAN : HandshakeReturns(c, ok)
  PROVE  ServedPassed' /\ LiveServed'
<1>1. stage \in [Conns -> Stages] /\ live \subseteq Conns
  BY DEF AdmissionInv, LifeType
<1>2. stage[c] # "served" /\ passed \subseteq passed'
  BY Zenon DEF Accepted, AtCapacity, Startup, LocalStartup, RelayedStartup, Busy, Release, Uncount,
     SlotReturns, HandshakeReturns
<1>3. \A d \in Conns : d # c => stage'[d] = stage[d]
  BY <1>1 DEF Accepted, AtCapacity, Startup, LocalStartup, RelayedStartup, Busy, Release, Uncount,
     SlotReturns, HandshakeReturns, Goes
<1>4. stage'[c] = "served" => c \in passed'
  BY <1>1, Zenon DEF Accepted, AtCapacity, Startup, LocalStartup, RelayedStartup, Busy, Release,
     Uncount, SlotReturns, HandshakeReturns, Goes, Handled
<1> QED
  BY <1>1, <1>2, <1>3, <1>4 DEF ServedPassed, LiveServed

\* A step that changes nothing of a connection's life.
LEMMA LifeStays ==
  ASSUME LifeType, LiveFollows, UNCHANGED <<work, up, lifeVars>>
  PROVE  LifeType' /\ LiveFollows'
BY DEF LifeType, LiveFollows

\* Register, the sweeps and Unregister keep s.live what it should be.
LEMMA LifeInductive ==
  ASSUME ServerInv, LifeInv, [ServerNext]_serverVars
  PROVE  LifeInv'
<1> USE DEF LifeInv
<1>1. work \in Workloads /\ AdmissionInv /\ stage \in [Conns -> Stages]
  BY DEF ServerInv, AdmissionInv
<1>2. work.conns \subseteq Conns /\ work.syncs \in Nat /\ "none" \notin Conns /\ "sync" \notin Conns
  BY <1>1, ServerAssumption
<1>3. ASSUME NEW c \in Conns,
             \/ Arrive(c) \/ BeginHandshake(c) \/ HandshakeSucceeds(c) \/ HandshakeFails(c)
             \/ EndHandshake(c) \/ ReturnSlot(c)
      PROVE  LifeInv'
  <2>1. /\ UNCHANGED <<work, up, lifeVars>>
        /\ \/ Accepted(c) \/ AtCapacity(c) \/ Startup(c) \/ LocalStartup(c) \/ RelayedStartup(c)
           \/ Busy(c) \/ Release(c) \/ Uncount(c) \/ SlotReturns(c)
           \/ \E ok \in BOOLEAN : HandshakeReturns(c, ok)
    BY <1>3, Zenon
       DEF Arrive, BeginHandshake, HandshakeSucceeds, HandshakeFails, EndHandshake, ReturnSlot
  <2> QED
    BY <1>1, <2>1, ServiceGoesOn, LifeStays
<1>4. ASSUME NEW c \in Conns, HangsUp(c) \/ Register(c) \/ OwnSweep(c) \/ SweepCloses(c)
      PROVE  LifeInv'
  <2>1. UNCHANGED <<work, stage, passed>>
    BY <1>4 DEF HangsUp, Register, OwnSweep, SweepCloses, admissionVars
  <2>2. LifeType'
    BY <1>4 DEF HangsUp, Register, OwnSweep, SweepCloses, LifeType
  <2>3. LiveFollows'
    BY <1>2, <1>4 DEF HangsUp, Register, OwnSweep, SweepCloses, LifeType, LiveFollows, Free
  <2>4. LiveServed'
    BY <1>4, <2>1 DEF HangsUp, Register, OwnSweep, SweepCloses, LiveServed
  <2> QED
    BY <2>1, <2>2, <2>3, <2>4 DEF ServedPassed
<1>5. ASSUME NEW c \in Conns, Unregister(c)
      PROVE  LifeInv'
  <2>1. LifeType'
    BY <1>5 DEF Unregister, LifeType
  <2>2. LiveFollows'
    BY <1>5 DEF Unregister, LifeType, LiveFollows, Free
  <2>3. ServedPassed' /\ LiveServed'
    BY <1>1, <1>5 DEF Unregister, Leaves, Goes, ServedPassed, LiveServed, LifeType
  <2> QED
    BY <2>1, <2>2, <2>3
<1>6. CASE SyncSweep
  <2>1. PICK todo \in SUBSET live : sweep' = [by |-> "sync", todo |-> todo]
    BY <1>6 DEF SyncSweep
  <2>2. UNCHANGED <<work, up, serve, live, stage, passed>>
    BY <1>6 DEF SyncSweep, admissionVars
  <2>3. LifeType'
    BY <1>2, <1>6, <2>1, <2>2 DEF SyncSweep, LifeType
  <2>4. LiveFollows'
    BY <1>2, <1>6, <2>1, <2>2 DEF SyncSweep, LiveFollows, Free
  <2> QED
    BY <2>2, <2>3, <2>4 DEF ServedPassed, LiveServed
<1>7. CASE SweepEnds \/ SweepGoesOn
  <2>1. UNCHANGED <<work, up, live, syncs, stage, passed>>
    BY <1>7 DEF SweepEnds, SweepGoesOn, admissionVars
  <2>2. LifeType'
    BY <1>7, <2>1 DEF SweepEnds, SweepGoesOn, LifeType, Free
  <2>3. LiveFollows'
    BY <1>2, <1>7, <2>1 DEF SweepEnds, SweepGoesOn, LifeType, LiveFollows, Free
  <2> QED
    BY <2>1, <2>2, <2>3 DEF ServedPassed, LiveServed
<1>8. CASE \/ SweepClosesRelay \/ HandlerCloses \/ SendReturns \/ AliveCloses \/ Writing
           \/ DeadlineFires \/ TTLPasses \/ BackendSilent
           \/ FocusClient \/ FocusServer \/ FocusPeers
           \/ UNCHANGED serverVars
  <2>1. UNCHANGED <<work, up, lifeVars, stage, passed>>
    BY <1>8, Zenon DEF SweepClosesRelay, HandlerCloses, SendReturns, AliveCloses, Writing,
       DeadlineFires, TTLPasses, BackendSilent, FocusClient, FocusServer, FocusPeers,
       Elsewhere, serverVars,
       admissionVars
  <2> QED
    BY <2>1, LifeStays DEF ServedPassed, LiveServed
<1> HIDE DEF LifeInv
<1> QED
  BY <1>2, <1>3, <1>4, <1>5, <1>6, <1>7, <1>8 DEF ServerNext, HandlerNext, CloseNext

\* Nobody is there at first.
LEMMA LifeStarts == ServerInit => LifeInv
<1> SUFFICES ASSUME ServerInit PROVE LifeInv
  OBVIOUS
<1>1. work.syncs \in Nat /\ "none" \notin Conns
  BY ServerAssumption DEF ServerInit
<1>2. LifeType
  BY <1>1 DEF ServerInit, LifeType, Free
<1>3. LiveFollows
  BY <1>1 DEF ServerInit, LiveFollows, Free
<1>4. ServedPassed /\ LiveServed
  BY DEF ServerInit, AdmissionInit, ServedPassed, LiveServed
<1> QED
  BY <1>2, <1>3, <1>4 DEF LifeInv

\* The counters of a connection are within its cap, as they add up to its slots.
LEMMA ConnTyped == ConnInv => TypeOK
<1> SUFFICES ASSUME ConnInv PROVE TypeOK
  OBVIOUS
<1>1. Cardinality(served) \in Nat /\ Cardinality(accepting) \in Nat
  BY FiniteParts, Size, Zenon
<1>2. listening \in SUBSET Ports
  BY DEF ConnInv, PortsOf
<1>3. slots \in 0..Limit /\ agents \in 0..Limit /\ ending \in 0..Limit /\ accepted \in 0..Limit
      /\ stuck \in 0..accepted
  BY <1>1, LimitAssumption DEF ConnInv, SlotsAccounted
<1> QED
  BY <1>2, <1>3 DEF ConnInv, TypeOK

\* The counters of admission are sizes.
LEMMA AdmissionTyped == AdmissionInv => AdmissionTypeOK
<1> SUFFICES ASSUME AdmissionInv PROVE AdmissionTypeOK
  OBVIOUS
<1>1. /\ Slots \subseteq Conns /\ Remotes \subseteq Conns /\ Locals \subseteq Conns
      /\ \A s \in Sources : Counted(s) \subseteq Conns
  BY DEF Slots, Remotes, Locals, Counted, Holding, Remote, Local
<1>2. \A S \in SUBSET Conns : Cardinality(S) \in Nat
  BY AdmissionAssumption, FS_Subset, FS_CardinalityType
<1>3. conns \in 0..MaxConns /\ startups \in 0..MaxStartups /\ localStartups \in 0..MaxStartups
  BY <1>1, <1>2, AdmissionAssumption DEF AdmissionInv
<1>4. \A s \in Sources : sourceStartups[s] \in 0..MaxSourceStartups
  BY <1>1, <1>2, AdmissionAssumption DEF AdmissionInv
<1> QED
  BY <1>3, <1>4 DEF AdmissionInv, AdmissionTypeOK

(***************************************************************************)
(* The state of the server stays within its types: no semaphore or counter *)
(* of Serve, of acquireStartup or of a connState goes below zero or above  *)
(* its cap, and DropRevoked has nothing to close that has left s.live.     *)
(***************************************************************************)
THEOREM ServerIsTyped == ServerSpec => []ServerTypeOK
<1>1. ServerInv /\ LifeInv => ServerTypeOK
  <2> SUFFICES ASSUME ServerInv, LifeInv PROVE ServerTypeOK
    OBVIOUS
  <2>1. TypeOK /\ AdmissionTypeOK /\ RelayTypeOK /\ work \in Workloads
    BY ConnTyped, AdmissionTyped DEF ServerInv, RelayInv
  <2> QED
    BY <2>1 DEF ServerTypeOK, LifeInv, LifeType, LiveFollows
<1> QED
  BY <1>1, ServerStarts, ServerInductive, LifeStarts, LifeInductive, PTL DEF ServerSpec

\* s.live is under the cap of the server, with the connections that passed.
LiveIsCapped ==
  /\ \A c \in live : c \in passed /\ stage[c] = "served"
  /\ Cardinality(live) <= MaxConns

(***************************************************************************)
(* What DropRevoked iterates over with liveMu held: connections that have  *)
(* authenticated and hold a slot of Serve, so MaxConns of them at most.    *)
(***************************************************************************)
THEOREM LiveHoldSlots == ServerSpec => []LiveIsCapped
<1>1. ServerInv /\ LifeInv => LiveIsCapped
  <2> SUFFICES ASSUME ServerInv, LifeInv PROVE LiveIsCapped
    OBVIOUS
  <2>1. \A c \in live : c \in Conns /\ c \in passed /\ stage[c] = "served"
    BY DEF LifeInv, LifeType, ServedPassed, LiveServed
  <2>2. live \subseteq Slots /\ Slots \subseteq Conns
    BY <2>1 DEF Slots, Holding, Stages
  <2>3. IsFiniteSet(Slots)
    BY <2>2, AdmissionAssumption, FS_Subset
  <2>4. /\ Cardinality(live) <= Cardinality(Slots)
        /\ Cardinality(live) \in Nat /\ Cardinality(Slots) \in Nat
    BY <2>2, <2>3, FS_Subset, FS_CardinalityType
  <2>5. Cardinality(Slots) <= MaxConns
    BY DEF ServerInv, AdmissionInv
  <2> QED
    BY <2>1, <2>4, <2>5, AdmissionAssumption DEF LiveIsCapped
<1> QED
  BY <1>1, ServerStarts, ServerInductive, LifeStarts, LifeInductive, PTL DEF ServerSpec
-----------------------------------------------------------------------------
(***************************************************************************)
(* A sweep of DropRevoked, which closes with liveMu held.                  *)
(***************************************************************************)

\* A Close that has returned has cancelled the stream, handleConn closes the relay only
\* after its service, and nobody comes but the workload.
Closings ==
  /\ \A k \in Closers : closing[k] = "done" => cancelled
  /\ closing["handler"] # "idle" => stage[R] \in {"leaving", "gone"}
  /\ \A c \in Conns : stage[c] # "away" => c \in work.conns

\* Whatever a sweep waits for can go on: the sweep itself, the backend of the relay that it
\* closes, or the timer that cancels the stream: of keepAlive, whose own Close finds sendMu
\* taken and does not wait, or of the TTL where there is no keepAlive yet.
SweepGetsOn ==
  sweep # Free =>
    \/ sweep.todo = {} \/ (\E c \in work.conns : c \in sweep.todo \ {R})
    \/ R \in sweep.todo /\ (closing["sweep"] # "send" \/ backend = "up" \/ cancelled)
    \/ serve[R] = "serving" /\ closing["alive"] \in {"idle", "cancel"} /\ sendMu # "free"
    \/ serve[R] \in {"own", "sweeping"} /\ RelayRuns /\ ~cancelled

\* With liveMu held nobody enters or leaves s.live, the sweep closes what it set out to
\* close, and it gives liveMu back with all of that closed: for good.
SweepIsThorough ==
  /\ \A c \in Conns : Down(c) => Down(c)'
  /\ sweep # Free =>
       /\ live' = live /\ sweep'.todo \subseteq sweep.todo
       /\ \A c \in sweep.todo \ sweep'.todo : Down(c)'
       /\ IF sweep' = Free THEN sweep.todo = {} ELSE sweep'.by = sweep.by

\* A stream that was cancelled stays cancelled, and only a Close that cancels it returns.
LEMMA CloseCancels ==
  ASSUME RelayTypeOK, [RelayNext]_relayVars, \A k \in Closers : closing[k] = "done" => cancelled
  PROVE  /\ cancelled => cancelled'
         /\ \A k \in Closers : closing'[k] = "done" => cancelled'
<1> USE DEF RelayTypeOK
<1>1. CASE Write \/ Sent \/ WriteFailed
  BY <1>1 DEF Write, Sent, WriteFailed
<1>2. ASSUME NEW k \in Closers, Close(k) \/ ClosedSent(k) \/ CloseReturns(k) \/ CloseAgain(k)
      PROVE  /\ cancelled => cancelled'
             /\ \A j \in Closers : closing'[j] = "done" => cancelled'
  BY <1>2 DEF Close, ClosedSent, CloseReturns, CloseAgain, Reaches
<1>3. CASE (\E on \in BOOLEAN : SetDeadline(on)) \/ DeadlinePasses \/ Expires \/ FallsSilent
  BY <1>3 DEF SetDeadline, DeadlinePasses, Expires, FallsSilent
<1>4. CASE UNCHANGED relayVars
  BY <1>4 DEF relayVars
<1> QED
  BY <1>1, <1>2, <1>3, <1>4 DEF RelayNext

\* Who leaves does not come back, and nobody comes but the workload.
LEMMA StagesGoOn ==
  ASSUME ServerInv, [ServerNext]_serverVars, \A c \in Conns : stage[c] # "away" => c \in work.conns
  PROVE  /\ \A c \in Conns : stage[c] \in {"leaving", "gone"} => stage'[c] \in {"leaving", "gone"}
         /\ \A c \in Conns : stage'[c] # "away" => c \in work.conns
<1>1. stage \in [Conns -> Stages] /\ work.conns \subseteq Conns
  BY WorkConns DEF ServerInv, AdmissionInv
<1>2. ASSUME NEW c \in work.conns, Arrive(c)
      PROVE  /\ \A d \in Conns :
                  stage[d] \in {"leaving", "gone"} => stage'[d] \in {"leaving", "gone"}
             /\ \A d \in Conns : stage'[d] # "away" => d \in work.conns
  BY <1>1, <1>2 DEF Arrive, Accepted, AtCapacity, Goes
<1>3. ASSUME NEW c \in work.conns,
             HandshakeSucceeds(c) \/ HandshakeFails(c) \/ HangsUp(c) \/ HandlerNext(c)
      PROVE  /\ \A d \in Conns :
                  stage[d] \in {"leaving", "gone"} => stage'[d] \in {"leaving", "gone"}
             /\ \A d \in Conns : stage'[d] # "away" => d \in work.conns
  <2>1. \/ UNCHANGED stage
        \/ stage[c] \in {"accepted", "hello", "release", "uncount", "served"} /\ \E l : Goes(c, l)
        \/ stage[c] = "leaving" /\ Goes(c, "gone")
    <3>1. CASE HandshakeSucceeds(c) \/ HandshakeFails(c)
      BY <3>1, Zenon DEF HandshakeSucceeds, HandshakeFails, HandshakeReturns
    <3>2. CASE HangsUp(c) \/ Register(c) \/ OwnSweep(c) \/ SweepCloses(c)
      BY <3>2 DEF HangsUp, Register, OwnSweep, SweepCloses, admissionVars
    <3>3. CASE Unregister(c) \/ ReturnSlot(c)
      BY <3>3, Zenon DEF Unregister, Leaves, ReturnSlot, SlotReturns
    <3>4. CASE BeginHandshake(c)
      BY <3>4, Zenon DEF BeginHandshake, Startup, LocalStartup, Busy, RelayedStartup
    <3>5. CASE EndHandshake(c)
      BY <3>5, Zenon DEF EndHandshake, Release, Uncount
    <3> QED
      BY <1>3, <3>1, <3>2, <3>3, <3>4, <3>5, Zenon DEF HandlerNext
  <2>2. CASE UNCHANGED stage
    BY <2>2
  <2>3. CASE stage[c] \in {"accepted", "hello", "release", "uncount", "served"} /\ \E l : Goes(c, l)
    BY <1>1, <2>3 DEF Goes
  <2>4. CASE stage[c] = "leaving" /\ Goes(c, "gone")
    BY <1>1, <2>4 DEF Goes
  <2> QED
    BY <2>1, <2>2, <2>3, <2>4
<1>4. ASSUME \/ SyncSweep \/ CloseNext \/ AliveCloses \/ Writing \/ DeadlineFires \/ TTLPasses
             \/ BackendSilent \/ FocusClient \/ FocusServer \/ FocusPeers \/ UNCHANGED serverVars
      PROVE  UNCHANGED stage
  BY <1>4, RelaySteps, FocusSteps DEF ServerInv, serverVars, admissionVars
<1> QED
  BY <1>2, <1>3, <1>4 DEF ServerNext

\* handleConn closes the relay when it is through with the connection.
LEMMA HandlerIsLast ==
  ASSUME ServerInv, [ServerNext]_serverVars
  PROVE  closing'["handler"] = closing["handler"] \/ closing["handler"] # "idle"
         \/ stage[R] \in {"leaving", "gone"}
<1>1. closing \in [Closers -> {"idle", "send", "cancel", "done"}]
      /\ Closers = {"handler", "sweep", "alive"}
  BY ServerAssumption DEF ServerInv, RelayInv, RelayTypeOK
<1>2. ASSUME NEW c \in work.conns,
             Arrive(c) \/ HandshakeSucceeds(c) \/ HandshakeFails(c) \/ HangsUp(c) \/ HandlerNext(c)
      PROVE  UNCHANGED closing
  BY <1>2, Zenon DEF Arrive, HandshakeSucceeds, HandshakeFails, HangsUp, HandlerNext, Register,
     OwnSweep, Unregister, SweepCloses, BeginHandshake, EndHandshake, ReturnSlot, SetDeadline,
     relayVars
<1>3. CASE SweepClosesRelay \/ AliveCloses \/ SweepGoesOn
  BY <1>1, <1>3 DEF SweepClosesRelay, AliveCloses, SweepGoesOn, Close, CloseAgain, Reaches
<1>4. CASE HandlerCloses
  BY <1>4 DEF HandlerCloses
<1>5. CASE SendReturns
  BY <1>1, <1>5 DEF SendReturns, Sent, WriteFailed, ClosedSent, CloseReturns, Reaches
<1>6. CASE \/ SyncSweep \/ SweepEnds \/ Writing \/ DeadlineFires \/ TTLPasses \/ BackendSilent
           \/ FocusClient \/ FocusServer \/ FocusPeers \/ UNCHANGED serverVars
  BY <1>6, Zenon DEF SyncSweep, SweepEnds, Writing, DeadlineFires, TTLPasses, BackendSilent,
     FocusClient, FocusServer, FocusPeers, Elsewhere, Write, DeadlinePasses, Expires,
     FallsSilent, relayVars,
     serverVars
<1> QED
  BY <1>2, <1>3, <1>4, <1>5, <1>6 DEF ServerNext, CloseNext

\* Every step keeps the three facts about the closers and the workload.
LEMMA ClosingsInductive ==
  ASSUME ServerInv, Closings, [ServerNext]_serverVars
  PROVE  Closings'
<1>1. /\ RelayTypeOK /\ [RelayNext]_relayVars /\ UNCHANGED work
      /\ R \in Conns /\ "handler" \in Closers
  BY ServerSteps, ServerAssumption, AdmissionAssumption DEF ServerInv, RelayInv
<1>2. \A k \in Closers : closing'[k] = "done" => cancelled'
  BY <1>1, CloseCancels DEF Closings
<1>3. closing'["handler"] # "idle" => stage'[R] \in {"leaving", "gone"}
  BY <1>1, HandlerIsLast, StagesGoOn DEF Closings
<1> QED
  BY <1>1, <1>2, <1>3, StagesGoOn DEF Closings

\* At first no Close has begun and nobody has come.
LEMMA ClosingsStart == ServerInit => Closings
BY ServerAssumption DEF ServerInit, RelayInit, AdmissionInit, Closings

(***************************************************************************)
(* A sweep is never stuck with liveMu, however the Closes of handleConn,   *)
(* of keepAlive and of the sweep itself meet on a relay whose backend went *)
(* silent.                                                                 *)
(***************************************************************************)
THEOREM SweepIsNeverStuck == ServerSpec => []SweepGetsOn
<1>1. ServerInv /\ LifeInv /\ Closings => SweepGetsOn
  <2> SUFFICES ASSUME ServerInv, LifeInv, Closings, sweep # Free, ~SweepGetsOn PROVE FALSE
    BY DEF SweepGetsOn
  <2>1. sweep.todo \subseteq live /\ live \subseteq Conns
    BY DEF LifeInv, LifeType, LiveFollows
  <2>2. R \in sweep.todo
    BY <2>1 DEF SweepGetsOn, LifeInv, LiveServed, Closings
  <2>3. closing["sweep"] = "send" /\ ~cancelled
    BY <2>2 DEF SweepGetsOn
  <2>4. serve[R] \in {"own", "sweeping", "serving"} /\ stage[R] = "served"
    BY <2>1, <2>2 DEF LifeInv, LiveFollows, LiveServed
  <2>5. sendMu = "sweep"
    BY <2>3, ServerAssumption DEF ServerInv, RelayInv
  <2>6. closing["alive"] \in {"idle", "cancel"}
    BY <2>3, <2>5, ServerAssumption DEF ServerInv, RelayInv, RelayTypeOK, Closings
  <2>7. RelayRuns
    BY <2>4 DEF RelayRuns, Closings
  <2> QED
    BY <2>3, <2>4, <2>5, <2>6, <2>7 DEF SweepGetsOn
<1> QED
  BY <1>1, ServerStarts, ServerInductive, LifeStarts, LifeInductive, ClosingsStart,
     ClosingsInductive, PTL DEF ServerSpec

\* A transport that is at its end stays there.
LEMMA DownForGood ==
  ASSUME ServerInv, Closings, [ServerNext]_serverVars
  PROVE  up' \subseteq up /\ \A c \in Conns : Down(c) => Down(c)'
<1>1. up' \subseteq up
  <2>1. ASSUME NEW c \in work.conns,
               \/ Arrive(c) \/ HandshakeSucceeds(c) \/ HandshakeFails(c) \/ HangsUp(c)
               \/ HandlerNext(c)
        PROVE  up' \subseteq up
    BY <2>1, Zenon DEF Arrive, HandshakeSucceeds, HandshakeFails, HangsUp, HandlerNext, Register,
       OwnSweep, Unregister, SweepCloses, BeginHandshake, EndHandshake, ReturnSlot
  <2>2. ASSUME \/ SyncSweep \/ CloseNext \/ AliveCloses \/ Writing \/ DeadlineFires \/ TTLPasses
               \/ BackendSilent \/ FocusClient \/ FocusServer \/ FocusPeers \/ UNCHANGED serverVars
        PROVE  up' = up
    BY <2>2, Zenon DEF SyncSweep, CloseNext, SweepClosesRelay, SweepGoesOn, SweepEnds,
       HandlerCloses, SendReturns, AliveCloses, Writing, DeadlineFires, TTLPasses, BackendSilent,
       FocusClient, FocusServer, FocusPeers, Elsewhere, serverVars
  <2> QED
    BY <2>1, <2>2 DEF ServerNext
<1>2. cancelled => cancelled'
  BY ServerSteps, CloseCancels DEF ServerInv, RelayInv, Closings
<1> QED
  BY <1>1, <1>2 DEF Down

\* The steps that touch liveMu.
LEMMA SweepSteps ==
  ASSUME ServerInv, [ServerNext]_serverVars
  PROVE  \/ UNCHANGED <<live, sweep>>
         \/ UNCHANGED sweep /\ sweep = Free
         \/ SyncSweep \/ SweepEnds \/ SweepGoesOn
         \/ \E c \in Conns : OwnSweep(c) \/ SweepCloses(c)
<1>1. work.conns \subseteq Conns
  BY WorkConns DEF ServerInv
<1>2. ASSUME NEW c \in work.conns,
             \/ Arrive(c) \/ HandshakeSucceeds(c) \/ HandshakeFails(c) \/ HangsUp(c)
             \/ BeginHandshake(c) \/ EndHandshake(c) \/ ReturnSlot(c)
      PROVE  UNCHANGED <<live, sweep>>
  BY <1>2, Zenon
     DEF Arrive, HandshakeSucceeds, HandshakeFails, HangsUp, BeginHandshake, EndHandshake,
         ReturnSlot
<1>3. ASSUME NEW c \in work.conns, Register(c) \/ Unregister(c)
      PROVE  UNCHANGED sweep /\ sweep = Free
  BY <1>3, Zenon DEF Register, Unregister
<1>4. ASSUME \/ SweepClosesRelay \/ HandlerCloses \/ SendReturns \/ AliveCloses \/ Writing
             \/ DeadlineFires \/ TTLPasses \/ BackendSilent
             \/ FocusClient \/ FocusServer \/ FocusPeers
             \/ UNCHANGED serverVars
      PROVE  UNCHANGED <<live, sweep>>
  BY <1>4, Zenon DEF SweepClosesRelay, HandlerCloses, SendReturns, AliveCloses, Writing,
     DeadlineFires, TTLPasses, BackendSilent, FocusClient, FocusServer, FocusPeers,
     Elsewhere, serverVars
<1> QED
  BY <1>1, <1>2, <1>3, <1>4, Zenon DEF ServerNext, HandlerNext, CloseNext

\* A sweep has somebody who makes it.
Swept == sweep.by = "none" => sweep = Free

\* A connection is closed, and the sweep goes on with the rest.
LEMMA SweepShrinks ==
  ASSUME LifeInv, Swept, NEW c \in Conns, c \in sweep.todo,
         sweep' = [sweep EXCEPT !.todo = @ \ {c}]
  PROVE  /\ sweep'.by = sweep.by /\ sweep'.todo = sweep.todo \ {c}
         /\ sweep' # Free /\ Swept'
<1>1. sweep \in [by : Conns \cup {"none", "sync"}, todo : SUBSET Conns]
  BY DEF LifeInv, LifeType
<1>2. sweep'.by = sweep.by /\ sweep'.todo = sweep.todo \ {c}
  BY <1>1
<1>3. sweep.by # "none"
  <2> SUFFICES ASSUME sweep.by = "none" PROVE FALSE
    OBVIOUS
  <2>1. sweep.todo = {}
    BY DEF Swept, Free
  <2> QED
    BY <2>1
<1> QED
  BY <1>2, <1>3 DEF Swept, Free

\* Who has liveMu, and what is done under it.
LEMMA SweepWorks ==
  ASSUME ServerInv, LifeInv, Closings, Swept, [ServerNext]_serverVars
  PROVE  /\ Swept'
         /\ sweep # Free =>
              /\ live' = live /\ sweep'.todo \subseteq sweep.todo
              /\ \A c \in sweep.todo \ sweep'.todo : Down(c)'
              /\ IF sweep' = Free THEN sweep.todo = {} ELSE sweep'.by = sweep.by
<1>1. CASE UNCHANGED <<live, sweep>>
  <2>1. Swept'
    BY <1>1 DEF Swept
  <2>2. sweep # Free => sweep' # Free
    BY <1>1
  <2> QED
    BY <1>1, <2>1, <2>2
<1>2. CASE UNCHANGED sweep /\ sweep = Free
  BY <1>2 DEF Swept
<1>3. CASE SyncSweep \/ \E c \in Conns : OwnSweep(c)
  <2>1. sweep = Free /\ live' = live
    BY <1>3, Zenon DEF SyncSweep, OwnSweep
  <2>2. PICK k \in Conns \cup {"sync"}, todo \in SUBSET live : sweep' = [by |-> k, todo |-> todo]
    BY <1>3, Zenon DEF SyncSweep, OwnSweep
  <2> QED
    BY <2>1, <2>2, ServerAssumption DEF Swept, Free
<1>4. CASE SweepEnds
  BY <1>4, Zenon DEF SweepEnds, Swept, Free
<1>5. ASSUME NEW c \in Conns, SweepCloses(c) \/ (c = R /\ SweepGoesOn)
      PROVE  /\ live' = live /\ c \in sweep.todo
             /\ sweep' = [sweep EXCEPT !.todo = @ \ {c}] /\ Down(c)'
  <2>1. CASE SweepCloses(c)
    BY <2>1 DEF SweepCloses, Down
  <2>2. CASE c = R /\ SweepGoesOn
    BY <2>2, ServerAssumption DEF SweepGoesOn, CloseAgain, Closings, Down
  <2> QED
    BY <1>5, <2>1, <2>2
<1>6. ASSUME NEW c \in Conns, SweepCloses(c) \/ (c = R /\ SweepGoesOn)
      PROVE  /\ Swept' /\ live' = live /\ sweep'.todo \subseteq sweep.todo
             /\ \A d \in sweep.todo \ sweep'.todo : Down(d)'
             /\ sweep' # Free /\ sweep'.by = sweep.by
  <2>1. /\ sweep'.by = sweep.by /\ sweep'.todo = sweep.todo \ {c}
        /\ sweep' # Free /\ Swept'
    BY <1>5, <1>6, SweepShrinks
  <2> QED
    BY <1>5, <1>6, <2>1
<1>7. R \in Conns
  BY ServerAssumption, AdmissionAssumption
<1> QED
  BY <1>1, <1>2, <1>3, <1>4, <1>6, <1>7, SweepSteps, Zenon

(***************************************************************************)
(* DropRevoked closes all it set out to close before it gives liveMu back, *)
(* the relay included, and s.live does not change under it.                *)
(***************************************************************************)
THEOREM SweepsCloseAll == ServerSpec => [][SweepIsThorough]_serverVars
<1>1. ServerInit => Swept
  BY DEF ServerInit, Swept
<1>2. /\ ServerInv /\ LifeInv /\ Closings /\ Swept /\ [ServerNext]_serverVars
      => Swept' /\ [SweepIsThorough]_serverVars
  BY SweepWorks, DownForGood, Zenon DEF SweepIsThorough
<1> QED
  BY <1>1, <1>2, ServerStarts, ServerInductive, LifeStarts, LifeInductive, ClosingsStart,
     ClosingsInductive, PTL DEF ServerSpec
=============================================================================
