---------------------------- MODULE SessionProofs ----------------------------
(***************************************************************************)
(* What a session records, shows and signals, and that it winds down once  *)
(* its client is gone: for any amount of output, any number of signals and *)
(* every interleaving of its goroutines.                                   *)
(***************************************************************************)
EXTENDS SessionEndProofs, SequenceTheorems

\* What a writer has read and not yet written.
InHand(w) == IF pc[w] = "write" THEN 1 ELSE 0

Chunks ==
  /\ \A w \in Writers : recorded[w] + avail[w] <= made[w]
  /\ \A w \in Writers : shown[w] + avail[w] + InHand(w) <= made[w]
  /\ proc = "none" => \A w \in Writers : made[w] = 0
  /\ rec.st # "none" /\ ~rec.full /\ ~rec.failed =>
       \A w \in Writers : shown[w] + InHand(w) <= recorded[w]
  /\ peer # "gone" /\ ~rec.full =>
       /\ made["out"] = shown["out"] + avail["out"] + InHand("out")
       /\ pc["out"] = "done" => avail["out"] = 0

Upto(n) == [i \in 1..n |-> i]

\* Signals wait until the process is known, then they go to it one by one.
Signals ==
  /\ Handler \in Before \cup {"setproc"} => ~procSet
  /\ ~procSet => got = <<>> /\ pending = Upto(signals)
  /\ procSet => pending = <<>> /\ \E n \in 0..signals : got = Upto(n)
  /\ procSet /\ proc = "running" => got = Upto(signals)

SignalType == signals \in 0..MaxSignals
CountType ==
  /\ avail \in [Writers -> 0..1] /\ made \in [Writers -> 0..MaxOut]
  /\ recorded \in [Writers -> Nat] /\ shown \in [Writers -> Nat]

SessionInv == EndInv /\ SignalType /\ CountType /\ Chunks /\ Signals
-----------------------------------------------------------------------------
USE DEF procVars, outVars, endVars, reqVars, Before, Amid, After, Locked, Idle, Copying, ExitSteps

\* The numbers of the signals, in order.
LEMMA UptoGrows ==
  ASSUME NEW n \in Nat
  PROVE  /\ Upto(n) \in Seq(1..n) /\ Len(Upto(n)) = n
         /\ Append(Upto(n), n + 1) = Upto(n + 1) /\ Upto(n) \o <<n + 1>> = Upto(n + 1)
         /\ <<>> \o Upto(n) = Upto(n) /\ Upto(0) = <<>>
<1>1. Upto(n) \in Seq(1..n) /\ Len(Upto(n)) = n
  BY DEF Upto
<1>2. Append(Upto(n), n + 1) = Upto(n + 1)
  BY <1>1 DEF Upto
<1>3. Upto(n) \o <<n + 1>> = Upto(n + 1)
  BY <1>1 DEF Upto
<1>4. <<>> \o Upto(n) = Upto(n)
  BY <1>1
<1>5. Upto(0) = <<>>
  BY DEF Upto
<1> QED
  BY <1>1, <1>2, <1>3, <1>4, <1>5

\* Steps that read, record and show nothing leave the chunks as they are.
LEMMA ChunksStay ==
  ASSUME Chunks, UNCHANGED outVars, proc' = "none" => proc = "none",
         rec'.st # "none" /\ ~rec'.full /\ ~rec'.failed =>
           rec.st # "none" /\ ~rec.full /\ ~rec.failed,
         peer' # "gone" => peer # "gone", rec.full => rec'.full,
         \A w \in Writers : pc'[w] = "write" <=> pc[w] = "write",
         pc'["out"] = "done" => pc["out"] = "done" \/ rec'.full
  PROVE  Chunks'
<1>1. \A w \in Writers : InHand(w)' = InHand(w)
  BY DEF InHand
<1> QED
  BY <1>1 DEF Chunks, Writers

\* Steps of a session whose signals nobody touches.
LEMMA SignalsStay ==
  ASSUME Signals, UNCHANGED <<procSet, got, pending, signals>>,
         procSet /\ proc' = "running" => proc = "running",
         Handler' \in Before \cup {"setproc"} => Handler \in Before \cup {"setproc"}
  PROVE  Signals'
BY DEF Signals, Upto

\* Before there is a process a recorder may start: nothing was written that it could miss.
LEMMA NothingYet ==
  ASSUME PcType, CountType, Stage, Chunks, proc = "none", UNCHANGED <<peer, proc, outVars>>,
         rec'.full = rec.full, \A w \in Writers : pc'[w] = pc[w]
  PROVE  Chunks'
<1>1. \A w \in Writers : InHand(w) = 0 /\ InHand(w)' = 0
  BY DEF InHand, Stage, Actors, Writers
<1>2. \A w \in Writers : made[w] = 0 /\ shown[w] = 0 /\ recorded[w] \in Nat
  BY <1>1 DEF Chunks, CountType, Writers
<1> QED
  BY <1>1, <1>2 DEF Chunks, Writers

\* recOut.Write, first half: the chunk is recorded before it is in hand to be shown.
LEMMA ReadKeeps ==
  ASSUME PcType, RecType, CountType, Chunks, NEW w \in Writers, ReadOutput(w),
         rec.st = "closed" => rec.full
  PROVE  Chunks'
<1>1. UNCHANGED <<peer, proc, made, shown>> /\ pc[w] = "read" /\ avail[w] = 1
      /\ \A v \in Writers \ {w} : pc'[v] = pc[v] /\ avail'[v] = avail[v]
  BY DEF ReadOutput, PcType, CountType, Actors, Writers, Goto
<1>2. avail'[w] = 0 /\ InHand(w) = 0 /\ \A v \in Writers \ {w} : InHand(v)' = InHand(v)
  BY <1>1 DEF ReadOutput, CountType, InHand
<1>3. \/ /\ pc'[w] = "write" /\ rec' = rec /\ rec.st = "open" /\ recorded'[w] = recorded[w] + 1
         /\ \A v \in Writers \ {w} : recorded'[v] = recorded[v]
      \/ pc'[w] = "notice" /\ rec'.full /\ recorded' = recorded
      \/ pc'[w] = "write" /\ rec' = rec /\ rec.st # "open" /\ recorded' = recorded
      \/ pc'[w] = "write" /\ rec'.failed /\ rec'.full = rec.full /\ recorded' = recorded
  BY FullCloses, LostStays DEF ReadOutput, EventKept, EventDropped, PcType, CountType, Actors, Writers, Goto
<1>4. InHand(w)' = IF pc'[w] = "write" THEN 1 ELSE 0
  BY DEF InHand
<1>5. rec.st \in {"none", "open", "closed"}
  BY DEF RecType
<1>6. \A v \in Writers : made[v] \in Nat /\ shown[v] \in Nat /\ recorded[v] \in Nat
                         /\ avail[v] \in Nat /\ InHand(v) \in Nat
  BY BoundsAssumption DEF CountType, InHand
<1> HIDE DEF InHand
<1> QED
  BY <1>1, <1>2, <1>3, <1>4, <1>5, <1>6 DEF Chunks, Writers

\* The second half.
LEMMA WriteKeeps ==
  ASSUME PcType, CountType, Chunks, NEW w \in Writers, WriteOutput(w)
  PROVE  Chunks'
BY DEF WriteOutput, Chunks, InHand, PcType, CountType, Actors, Writers, Goto

\* A writer may go away with a chunk in hand only if nobody waits for it any more.
LEMMA WriterQuits ==
  ASSUME PcType, CountType, Chunks, NEW w \in Writers, UNCHANGED <<peer, proc, rec, outVars>>,
         pc'[w] = "done", \A b \in Actors \ {w} : pc'[b] = pc[b],
         \/ pc[w] = "write" /\ (peer = "gone" \/ rec.full)
         \/ pc[w] = "read" /\ (w = "out" => avail["out"] = 0 \/ peer = "gone" \/ rec.full)
  PROVE  Chunks'
<1>1. InHand(w)' = 0 /\ InHand(w) \in {0, 1} /\ (pc[w] = "read" => InHand(w) = 0)
      /\ \A v \in Writers \ {w} : InHand(v)' = InHand(v) /\ InHand(v) \in {0, 1}
  BY DEF InHand, Actors, Writers
<1>2. \A v \in Writers :
        made[v] \in Nat /\ shown[v] \in Nat /\ recorded[v] \in Nat /\ avail[v] \in Nat
  BY BoundsAssumption DEF CountType
<1> QED
  BY <1>1, <1>2 DEF Chunks, Actors, Writers

\* The process writes where nothing waits to be read.
LEMMA ProduceKeeps ==
  ASSUME PcType, CountType, Stage, Chunks, NEW w \in Writers, Produces(w)
  PROVE  Chunks'
BY DEF Produces, Chunks, InHand, Stage, PcType, CountType, Actors, Writers

\* A chunk is recorded before it is shown, and none is lost on the way to a client that stays.
LEMMA ChunksInductive ==
  ASSUME PcType, RecType, CountType, Places, Stage, Finish, Recorder, Descriptors, Chunks,
         [Next]_vars
  PROVE  Chunks'
<1> USE DEF Places, Stage, Finish, PcType, Handler, Actors, Writers, Goto
<1>1. CASE PtyReq
  <2>1. UNCHANGED <<peer, proc, outVars>> /\ Handler = "none" /\ \A w \in Writers : pc'[w] = pc[w]
    BY <1>1 DEF PtyReq
  <2>2. proc = "none" /\ rec'.full = rec.full
    BY <1>1, <2>1 DEF PtyReq, StartRecorder, RecType
  <2> QED
    BY <2>1, <2>2, NothingYet
<1>2. CASE WindowChange
  BY <1>2, FullCloses, LostStays, ChunksStay DEF WindowChange
<1>3. CASE SignalReq \/ HandleCommand \/ AcceptSubsystem
  BY <1>3, ChunksStay DEF SignalReq, HandleCommand, AcceptSubsystem, Serving, Deliver
<1>4. CASE LoopJoins
  BY <1>4, RecCloses, ChunksStay DEF LoopJoins, RecType
<1>5. CASE LoopEnds \/ KillProc
  BY <1>5, ChunksStay DEF LoopEnds, KillProc, Kill, Dies
<1>6. CASE RunPlain
  <2>1. UNCHANGED <<peer, proc, outVars>> /\ Handler = "record" /\ \A w \in Writers : pc'[w] = pc[w]
    BY <1>6 DEF RunPlain
  <2>2. proc = "none" /\ rec'.full = rec.full
    BY <1>6, <2>1 DEF RunPlain, StartRecorder, RecType
  <2> QED
    BY <2>1, <2>2, NothingYet
<1>7. CASE Start \/ StartFails \/ SetProc
  BY <1>7, ChunksStay DEF Start, StartFails, SetProc, Deliver, Kill, Dies
<1>8. CASE AfterFunc \/ Copied \/ WaitDelay \/ Wait \/ HandlerReturns
  BY <1>8, ChunksStay DEF AfterFunc, Copied, WaitDelay, Wait, HandlerReturns
<1>9. ASSUME NEW w \in Writers, ReadOutput(w)
      PROVE  Chunks'
  <2>1. rec.st = "closed" => rec.full
    BY <1>9 DEF ReadOutput, Recorder
  <2> QED
    BY <1>9, <2>1, ReadKeeps
<1>10. ASSUME NEW w \in Writers, WriteOutput(w)
      PROVE  Chunks'
  BY <1>10, WriteKeeps
<1>11. ASSUME NEW w \in Writers, WriteFails(w)
      PROVE  Chunks'
  <2>1. pc[w] = "write" /\ pc'[w] = "done" /\ (\A b \in Actors \ {w} : pc'[b] = pc[b])
        /\ UNCHANGED <<peer, proc, rec, outVars>>
    BY <1>11 DEF WriteFails
  <2>2. proc \notin {"none", "reaped"}
    BY <2>1
  <2>3. peer = "gone" \/ rec.full
    BY <1>11, <2>2 DEF WriteFails
  <2> QED
    BY <2>1, <2>3, WriterQuits
<1>12. ASSUME NEW w \in Writers, OutputEnds(w)
      PROVE  Chunks'
  <2>1. pc[w] = "read" /\ pc'[w] = "done" /\ (\A b \in Actors \ {w} : pc'[b] = pc[b])
        /\ UNCHANGED <<peer, proc, rec, outVars>>
    BY <1>12 DEF OutputEnds
  <2>2. w = "out" => Handler = "copy"
    BY <2>1
  <2>3. w = "out" => avail["out"] = 0 \/ peer = "gone" \/ rec.full
    BY <1>12, <2>2 DEF OutputEnds, OutFd, Descriptors
  <2> QED
    BY <2>1, <2>3, WriterQuits
<1>13. CASE ReadInput
  BY <1>13, FullCloses, LostStays, ChunksStay DEF ReadInput
<1>14. CASE WriteInput \/ WriteInputFails \/ InputEnds \/ FlushFails
  BY <1>14, LostStays, ChunksStay DEF WriteInput, WriteInputFails, InputEnds, FlushFails, EventLost
<1>15. ASSUME NEW a \in Actors, RecordExit(a)
      PROVE  Chunks'
  BY <1>15, ChunksStay DEF RecordExit, RecType
<1>16. ASSUME NEW a \in Actors, CloseRecorder(a)
      PROVE  Chunks'
  BY <1>16, RecCloses, ChunksStay DEF CloseRecorder, RecType
<1>17. ASSUME NEW a \in Actors, Notice(a) \/ FinishBegins(a) \/ FinishAgain(a) \/ FinishEnds(a)
      PROVE  Chunks'
  BY <1>17, ChunksStay DEF Notice, FinishBegins, FinishAgain, FinishEnds, Return
<1>18. ASSUME NEW w \in Writers, Produces(w)
      PROVE  Chunks'
  BY <1>18, ProduceKeeps
<1>19. ASSUME NEW w \in Writers, ClosesOutput(w)
      PROVE  Chunks'
  <2>1. pc[w] = "read" /\ pc'[w] = "done" /\ (\A b \in Actors \ {w} : pc'[b] = pc[b])
        /\ UNCHANGED <<peer, proc, rec, outVars>> /\ avail[w] = 0
    BY <1>19 DEF ClosesOutput
  <2> QED
    BY <2>1, WriterQuits
<1>20. CASE Exits \/ LeftoverEnds \/ ContextKills \/ ClientEOF \/ ClientLeaves
  BY <1>20, ChunksStay DEF Exits, LeftoverEnds, ContextKills, ClientEOF, ClientLeaves, Dies
<1>21. CASE UNCHANGED vars
  BY <1>21, ChunksStay DEF vars
<1> HIDE DEF Places, Stage, Finish, PcType, Handler, Actors, Writers, Goto
<1> QED
  BY <1>1, <1>2, <1>3, <1>4, <1>5, <1>6, <1>7, <1>8, <1>9, <1>10, <1>11, <1>12, <1>13, <1>14,
     <1>15, <1>16, <1>17, <1>18, <1>19, <1>20, <1>21
     DEF Next, LoopNext, HandlerNext, CopyNext, EnvironmentNext, FinishNext

\* A signal waits, or it is delivered after those that came before it.
LEMMA SignalKeeps ==
  ASSUME SignalType, Signals, SignalReq
  PROVE  Signals'
<1>1. signals \in Nat /\ signals' = signals + 1 /\ UNCHANGED <<Handler, proc, procSet>>
  BY BoundsAssumption DEF SignalReq, SignalType, Handler
<1>2. Append(Upto(signals), signals + 1) = Upto(signals + 1)
      /\ Upto(signals) \o <<signals + 1>> = Upto(signals + 1)
  BY <1>1, UptoGrows
<1>3. CASE procSet /\ proc = "running"
  <2>1. got = Upto(signals) /\ pending = <<>>
    BY <1>3 DEF Signals
  <2>2. got' = got \o <<signals + 1>> /\ pending' = pending
    BY <1>3 DEF SignalReq, Deliver
  <2>3. got' = Upto(signals') /\ pending' = <<>> /\ signals' \in 0..signals'
    BY <1>1, <1>2, <2>1, <2>2
  <2> QED
    BY <1>1, <1>3, <2>3 DEF Signals, Upto
<1>4. CASE procSet /\ proc # "running"
  <2>1. got' = got /\ pending' = pending /\ pending = <<>>
    BY <1>4 DEF SignalReq, Deliver, Signals
  <2>2. PICK n \in 0..signals : got = Upto(n)
    BY <1>4 DEF Signals
  <2>3. n \in 0..signals' /\ got' = Upto(n)
    BY <1>1, <2>1, <2>2
  <2> QED
    BY <1>1, <1>4, <2>1, <2>3 DEF Signals, Upto
<1>5. CASE ~procSet
  <2>1. got = <<>> /\ pending = Upto(signals)
    BY <1>5 DEF Signals
  <2>2. got' = got /\ pending' = Append(pending, signals + 1)
    BY <1>5 DEF SignalReq
  <2>3. got' = <<>> /\ pending' = Upto(signals')
    BY <1>1, <1>2, <2>1, <2>2
  <2> QED
    BY <1>1, <1>5, <2>3 DEF Signals, Upto
<1> QED
  BY <1>3, <1>4, <1>5

\* setProc delivers those that waited, in their order, or kills the process.
LEMMA SetProcKeeps ==
  ASSUME PcType, SignalType, Signals, SetProc
  PROVE  Signals'
<1>1. signals \in Nat /\ UNCHANGED signals /\ Handler = "setproc" /\ Handler' = "copy"
  BY BoundsAssumption DEF SetProc, SignalType, PcType, Handler, Actors, Writers
<1>2. ~procSet /\ got = <<>> /\ pending = Upto(signals)
  BY <1>1 DEF Signals
<1>3. CASE wantKill
  <2>1. ~procSet' /\ got' = <<>> /\ pending' = Upto(signals')
    BY <1>1, <1>2, <1>3 DEF SetProc
  <2> QED
    BY <1>1, <2>1 DEF Signals, Upto
<1>4. CASE ~wantKill
  <2>1. procSet' /\ pending' = <<>> /\ proc' = proc
    BY <1>4 DEF SetProc
  <2>2. <<>> \o Upto(signals) = Upto(signals) /\ Upto(0) = <<>>
    BY <1>1, UptoGrows, Zenon
  <2>3. got' = IF proc = "running" THEN Upto(signals) ELSE Upto(0)
    BY <1>2, <1>4, <2>2 DEF SetProc, Deliver
  <2>4. 0 \in 0..signals /\ signals \in 0..signals
    BY <1>1
  <2> QED
    BY <1>1, <2>1, <2>3, <2>4 DEF Signals, Upto
<1> QED
  BY <1>3, <1>4

\* Nobody else touches them.
LEMMA SignalsInductive ==
  ASSUME PcType, SignalType, Places, Stage, Signals, [Next]_vars
  PROVE  Signals'
<1> USE DEF Places, Stage, PcType, Handler, Actors, Writers, Goto
<1>1. CASE SignalReq
  BY <1>1, SignalKeeps
<1>2. CASE PtyReq \/ WindowChange \/ HandleCommand \/ AcceptSubsystem
  BY <1>2, SignalsStay DEF PtyReq, WindowChange, HandleCommand, AcceptSubsystem, Serving,
     StartRecorder, EventFull
<1>3. CASE LoopEnds \/ KillProc \/ LoopJoins
  BY <1>3, SignalsStay DEF LoopEnds, KillProc, LoopJoins, Kill, Dies
<1>4. CASE Start
  BY <1>4, SignalsStay DEF Start, Signals
<1>5. CASE SetProc
  BY <1>5, SetProcKeeps
<1>6. CASE RunPlain \/ StartFails
  BY <1>6, SignalsStay DEF RunPlain, StartFails, StartRecorder
<1>7. CASE AfterFunc \/ Copied \/ WaitDelay \/ Wait \/ HandlerReturns
  BY <1>7, SignalsStay DEF AfterFunc, Copied, WaitDelay, Wait, HandlerReturns
<1>8. ASSUME NEW w \in Writers, ReadOutput(w) \/ WriteOutput(w) \/ WriteFails(w) \/ OutputEnds(w)
      PROVE  Signals'
  BY <1>8, SignalsStay DEF ReadOutput, WriteOutput, WriteFails, OutputEnds, EventKept,
     EventFull, EventDropped
<1>9. CASE ReadInput \/ WriteInput \/ WriteInputFails \/ InputEnds \/ FlushFails
  BY <1>9, SignalsStay DEF ReadInput, WriteInput, WriteInputFails, InputEnds, FlushFails
<1>10. ASSUME NEW a \in Actors, FinishNext(a)
      PROVE  Signals'
  BY <1>10, SignalsStay DEF FinishNext, Notice, FinishBegins, FinishAgain, RecordExit,
     CloseRecorder, FinishEnds, Return
<1>11. ASSUME NEW w \in Writers, Produces(w) \/ ClosesOutput(w)
      PROVE  Signals'
  BY <1>11, SignalsStay DEF Produces, ClosesOutput
<1>12. CASE Exits \/ LeftoverEnds \/ ContextKills \/ ClientEOF \/ ClientLeaves
  BY <1>12, SignalsStay DEF Exits, LeftoverEnds, ContextKills, ClientEOF, ClientLeaves, Dies
<1>13. CASE UNCHANGED vars
  BY <1>13, SignalsStay DEF vars
<1> HIDE DEF Places, Stage, PcType, Handler, Actors, Writers, Goto
<1> QED
  BY <1>1, <1>2, <1>3, <1>4, <1>5, <1>6, <1>7, <1>8, <1>9, <1>10, <1>11, <1>12, <1>13
     DEF Next, LoopNext, HandlerNext, CopyNext, EnvironmentNext

\* Signals are counted up to their bound,
LEMMA SignalTypeInductive ==
  ASSUME SignalType, [Next]_vars
  PROVE  SignalType'
<1> USE DEF SignalType
<1>1. CASE SignalReq
  BY <1>1, BoundsAssumption DEF SignalReq
<1>2. CASE PtyReq \/ WindowChange \/ HandleCommand \/ AcceptSubsystem
  BY <1>2 DEF PtyReq, WindowChange, HandleCommand, AcceptSubsystem, Serving, StartRecorder,
     EventFull
<1>3. CASE LoopEnds \/ KillProc \/ LoopJoins
  BY <1>3 DEF LoopEnds, KillProc, LoopJoins, Kill, Dies
<1>4. CASE RunPlain \/ Start \/ StartFails \/ SetProc
  BY <1>4 DEF RunPlain, Start, StartFails, SetProc, StartRecorder, Deliver, Kill, Dies
<1>5. CASE AfterFunc \/ Copied \/ WaitDelay \/ Wait \/ HandlerReturns
  BY <1>5 DEF AfterFunc, Copied, WaitDelay, Wait, HandlerReturns
<1>6. ASSUME NEW w \in Writers, ReadOutput(w) \/ WriteOutput(w) \/ WriteFails(w) \/ OutputEnds(w)
      PROVE  SignalType'
  BY <1>6 DEF ReadOutput, WriteOutput, WriteFails, OutputEnds, EventKept, EventFull,
     EventDropped
<1>7. CASE ReadInput \/ WriteInput \/ WriteInputFails \/ InputEnds \/ FlushFails
  BY <1>7 DEF ReadInput, WriteInput, WriteInputFails, InputEnds, FlushFails
<1>8. ASSUME NEW a \in Actors, FinishNext(a)
      PROVE  SignalType'
  BY <1>8 DEF FinishNext, Notice, FinishBegins, FinishAgain, RecordExit, CloseRecorder,
     FinishEnds, Return
<1>9. ASSUME NEW w \in Writers, Produces(w) \/ ClosesOutput(w)
      PROVE  SignalType'
  BY <1>9 DEF Produces, ClosesOutput
<1>10. CASE Exits \/ LeftoverEnds \/ ContextKills \/ ClientEOF \/ ClientLeaves
  BY <1>10 DEF Exits, LeftoverEnds, ContextKills, ClientEOF, ClientLeaves, Dies
<1>11. CASE UNCHANGED vars
  BY <1>11 DEF vars
<1> HIDE DEF SignalType
<1> QED
  BY <1>1, <1>2, <1>3, <1>4, <1>5, <1>6, <1>7, <1>8, <1>9, <1>10, <1>11
     DEF Next, LoopNext, HandlerNext, CopyNext, EnvironmentNext

\* and so are the chunks the process makes.
LEMMA CountTypeInductive ==
  ASSUME CountType, [Next]_vars
  PROVE  CountType'
<1> USE DEF CountType, Writers
<1>1. CASE PtyReq \/ WindowChange \/ SignalReq \/ HandleCommand \/ AcceptSubsystem
  BY <1>1 DEF PtyReq, WindowChange, SignalReq, HandleCommand, AcceptSubsystem, Serving,
     StartRecorder, EventFull, Deliver
<1>2. CASE LoopEnds \/ KillProc \/ LoopJoins
  BY <1>2 DEF LoopEnds, KillProc, LoopJoins, Kill, Dies
<1>3. CASE RunPlain \/ Start \/ StartFails \/ SetProc
  BY <1>3 DEF RunPlain, Start, StartFails, SetProc, StartRecorder, Deliver, Kill, Dies
<1>4. CASE AfterFunc \/ Copied \/ WaitDelay \/ Wait \/ HandlerReturns
  BY <1>4 DEF AfterFunc, Copied, WaitDelay, Wait, HandlerReturns
<1>5. ASSUME NEW w \in Writers, ReadOutput(w)
      PROVE  CountType'
  BY <1>5 DEF ReadOutput
<1>6. ASSUME NEW w \in Writers, WriteOutput(w)
      PROVE  CountType'
  BY <1>6 DEF WriteOutput
<1>7. ASSUME NEW w \in Writers, WriteFails(w) \/ OutputEnds(w)
      PROVE  CountType'
  BY <1>7 DEF WriteFails, OutputEnds
<1>8. CASE ReadInput \/ WriteInput \/ WriteInputFails \/ InputEnds \/ FlushFails
  BY <1>8 DEF ReadInput, WriteInput, WriteInputFails, InputEnds, FlushFails
<1>9. ASSUME NEW a \in Actors, FinishNext(a)
      PROVE  CountType'
  BY <1>9 DEF FinishNext, Notice, FinishBegins, FinishAgain, RecordExit, CloseRecorder,
     FinishEnds, Return
<1>10. ASSUME NEW w \in Writers, Produces(w)
      PROVE  CountType'
  <2>1. made[w] + 1 \in 0..MaxOut
    BY <1>10, BoundsAssumption DEF Produces
  <2> QED
    BY <1>10, <2>1 DEF Produces
<1>11. ASSUME NEW w \in Writers, ClosesOutput(w)
      PROVE  CountType'
  BY <1>11 DEF ClosesOutput
<1>12. CASE Exits \/ LeftoverEnds \/ ContextKills \/ ClientEOF \/ ClientLeaves
  BY <1>12 DEF Exits, LeftoverEnds, ContextKills, ClientEOF, ClientLeaves, Dies
<1>13. CASE UNCHANGED vars
  BY <1>13 DEF vars
<1> HIDE DEF CountType, Writers
<1> QED
  BY <1>1, <1>2, <1>3, <1>4, <1>5, <1>6, <1>7, <1>8, <1>9, <1>10, <1>11, <1>12, <1>13
     DEF Next, LoopNext, HandlerNext, CopyNext, EnvironmentNext

\* No more is recorded or shown than was made, and no signal is made up.
LEMMA TypeFollows == SessionInv => TypeOK
<1> SUFFICES ASSUME SessionInv PROVE TypeOK
  OBVIOUS
<1>1. PcType /\ StateType /\ FlagType /\ LockType /\ RecType /\ Finish
      /\ SignalType /\ CountType /\ Chunks /\ Signals
  BY DEF SessionInv, EndInv
<1>2. recorded \in [Writers -> 0..MaxOut] /\ shown \in [Writers -> 0..MaxOut]
  <2>1. ASSUME NEW w \in Writers
        PROVE  recorded[w] \in 0..MaxOut /\ shown[w] \in 0..MaxOut
    <3>1. recorded[w] + avail[w] <= made[w] /\ shown[w] + avail[w] + InHand(w) <= made[w]
      BY <1>1 DEF Chunks
    <3>2. InHand(w) \in {0, 1}
      BY DEF InHand
    <3>3. made[w] \in 0..MaxOut /\ avail[w] \in 0..1 /\ recorded[w] \in Nat /\ shown[w] \in Nat
      BY <1>1 DEF CountType
    <3> QED
      BY <3>1, <3>2, <3>3, BoundsAssumption
  <2> QED
    BY <1>1, <2>1 DEF CountType
<1>3. pending \in Seq(1..MaxSignals) /\ got \in Seq(1..MaxSignals)
  <2>1. ASSUME NEW n \in 0..signals PROVE Upto(n) \in Seq(1..MaxSignals)
    BY <1>1, BoundsAssumption DEF SignalType, Upto
  <2>2. signals \in 0..signals /\ <<>> \in Seq(1..MaxSignals)
    BY <1>1, BoundsAssumption DEF SignalType
  <2> QED
    BY <1>1, <2>1, <2>2, Zenon DEF Signals
<1>4. ends \in {0, 1}
  BY <1>1 DEF Finish
<1> QED
  BY <1>1, <1>2, <1>3, <1>4 DEF TypeOK, PcType, StateType, FlagType, LockType, RecType, SignalType,
     CountType

\* Nothing has happened yet.
LEMMA SessionStarts == Init => SessionInv
<1> SUFFICES ASSUME Init PROVE SessionInv
  OBVIOUS
<1>1. SignalType /\ CountType
  BY BoundsAssumption DEF Init, SignalType, CountType, Writers
<1>2. Chunks
  BY DEF Init, Chunks, InHand, Actors, Writers
<1>3. Signals
  <2>1. Upto(0) = <<>>
    BY UptoGrows, Zenon
  <2> QED
    BY <2>1 DEF Init, Signals, Handler, Actors, Writers
<1> QED
  BY <1>1, <1>2, <1>3, EndStarts DEF SessionInv

\* With how a session ends, the data is inductive.
LEMMA SessionInductive == SessionInv /\ [Next]_vars => SessionInv'
BY EndInductive, ChunksInductive, SignalsInductive, SignalTypeInductive, CountTypeInductive
   DEF SessionInv, EndInv
-----------------------------------------------------------------------------
(***************************************************************************)
(* No request, signal, chunk or early end takes the session's state out of *)
(* its types: no more is recorded or shown than was written, and           *)
(* session_end is sent once at most.                                       *)
(***************************************************************************)
THEOREM SessionIsTyped == Spec => []TypeOK
BY SessionStarts, SessionInductive, TypeFollows, PTL DEF Spec

(***************************************************************************)
(* A recorded session shows its client nothing that is not in the          *)
(* recording until the recording is full, or a write to its file has       *)
(* failed (recOut.Write, Recorder.emit).                                   *)
(***************************************************************************)
THEOREM OutputIsRecorded == Spec => []UnrecordedOnlyAtTheEnd
<1>1. SessionInv => UnrecordedOnlyAtTheEnd
  <2> SUFFICES ASSUME SessionInv, NEW w \in Writers, rec.st # "none", ~rec.full, ~rec.failed
               PROVE  ~(shown[w] > recorded[w])
    BY DEF UnrecordedOnlyAtTheEnd
  <2>1. shown[w] + InHand(w) <= recorded[w] /\ InHand(w) \in {0, 1}
    BY DEF SessionInv, Chunks, InHand
  <2>2. shown[w] \in Nat /\ recorded[w] \in Nat
    BY DEF SessionInv, CountType
  <2> QED
    BY <2>1, <2>2
<1> QED
  BY <1>1, SessionStarts, SessionInductive, PTL DEF Spec

(***************************************************************************)
(* The process gets every signal in the order of the client, those that    *)
(* came before it was started (pendingSignals) first.                      *)
(***************************************************************************)
THEOREM SignalsKeepOrder == Spec => []SignalsInOrder
<1>1. SessionInv => SignalsInOrder
  <2> SUFFICES ASSUME SessionInv PROVE SignalsInOrder
    OBVIOUS
  <2>1. signals \in Nat /\ signals <= MaxSignals /\ 0 \in 0..signals /\ signals \in 0..signals
    BY BoundsAssumption DEF SessionInv, SignalType
  <2>2. ASSUME NEW n \in 0..signals
        PROVE  Upto(n) = SubSeq([i \in 1..MaxSignals |-> i], 1, Len(Upto(n)))
    <3>1. n \in Nat /\ n <= MaxSignals
      BY <2>1, BoundsAssumption
    <3>2. Len(Upto(n)) = n
      BY <3>1, UptoGrows, Zenon
    <3>3. /\ [i \in 1..MaxSignals |-> i] \in Seq(1..MaxSignals)
          /\ Len([i \in 1..MaxSignals |-> i]) = MaxSignals
      BY BoundsAssumption
    <3> QED
      BY <3>1, <3>2, <3>3, BoundsAssumption DEF Upto
  <2>3. <<>> = Upto(0) /\ Len(Upto(signals)) = signals
    BY <2>1, UptoGrows, Zenon
  <2>4. \E n \in 0..signals : got = Upto(n)
    BY <2>1, <2>3 DEF SessionInv, Signals
  <2>5. procSet /\ proc = "running" => got = Upto(signals)
    BY DEF SessionInv, Signals
  <2> QED
    BY <2>2, <2>3, <2>4, <2>5, Zenon DEF SignalsInOrder
<1> QED
  BY <1>1, SessionStarts, SessionInductive, PTL DEF Spec

(***************************************************************************)
(* A client that stays gets all of the standard output before the channel  *)
(* is closed, unless the recording is full.                                *)
(***************************************************************************)
THEOREM OutputReachesTheClient == Spec => []OutputIsDrained
<1>1. SessionInv => OutputIsDrained
  <2> SUFFICES ASSUME SessionInv, closed, peer # "gone", ~rec.full
               PROVE  shown["out"] = made["out"]
    BY DEF OutputIsDrained
  <2>1. Stage /\ Finish /\ Chunks /\ CountType
    BY DEF SessionInv, EndInv
  <2>2. Handler \in {"join", "done"}
    BY <2>1 DEF Finish, Handler, Actors
  <2>3. proc = "none" \/ pc["out"] = "done"
    BY <2>1, <2>2 DEF Stage
  <2>4. InHand("out") = 0 /\ avail["out"] = 0
    BY <2>1, <2>3, BoundsAssumption DEF Stage, Chunks, InHand, Actors, Writers, CountType
  <2> QED
    BY <2>1, <2>4, BoundsAssumption DEF Chunks, Writers, CountType
<1> QED
  BY <1>1, SessionStarts, SessionInductive, PTL DEF Spec
-----------------------------------------------------------------------------
(***************************************************************************)
(* How far a session whose client is gone is from its end.                 *)
(***************************************************************************)
\* How far from its end a goroutine at l is: each goes down this list, but for a writer
\* that has read a chunk.
Pos(l) ==
  CASE l = "record" -> 25 [] l = "start" -> 24 [] l = "setproc" -> 23 [] l = "copy" -> 22
    [] l = "wait" -> 21 [] l = "notice" -> 20 [] l = "exit" -> 19 [] l = "code" -> 18
    [] l = "close" -> 17 [] l = "send" -> 16 [] l = "serve" -> 15 [] l = "kill" -> 14
    [] l = "join" -> 13 [] l = "write" -> 12 [] l = "read" -> 11 [] OTHER -> 0

One(p) == IF p THEN 1 ELSE 0

\* What is left to do: by the goroutines, the handler counted with all that it starts; with
\* the output, read or still to be written by the process; and with what is to be closed,
\* to end, or to fail.
Work == 40 * Pos(Handler) + Pos(pc["loop"]) + Pos(pc["input"]) + Pos(pc["out"]) + Pos(pc["err"])
Output(w) == 10 * avail[w] + 11 * (MaxOut - made[w])
Open == One("ptmx" \in fds) + One("stdout" \in fds) + One("stderr" \in fds)
Kept == 2 * One(proc = "running") + One(held) + One(~rec.failed) + Open
Rank == Work + Output("out") + Output("err") + Kept

\* Once the client is gone every step, of whichever goroutine, of the process or of what it
\* left behind, takes the session nearer to its end.
Winds == peer = "gone" => Rank' < Rank
-----------------------------------------------------------------------------
\* The list, line by line.
LEMMA Positions ==
  /\ Pos("record") = 25 /\ Pos("start") = 24 /\ Pos("setproc") = 23 /\ Pos("copy") = 22
  /\ Pos("wait") = 21 /\ Pos("notice") = 20 /\ Pos("exit") = 19 /\ Pos("code") = 18
  /\ Pos("close") = 17 /\ Pos("send") = 16 /\ Pos("serve") = 15 /\ Pos("kill") = 14
  /\ Pos("join") = 13 /\ Pos("write") = 12 /\ Pos("read") = 11 /\ Pos("done") = 0
  /\ Pos("none") = 0
BY DEF Pos

\* Every part of Rank is a number.
LEMMA PosType == \A l : Pos(l) \in Nat
BY DEF Pos

\* Chunks made are at most MaxOut.
LEMMA OutputType ==
  ASSUME CountType
  PROVE  Output("out") \in Nat /\ Output("err") \in Nat
BY BoundsAssumption DEF CountType, Output, Writers

\* What is held is counted, before a step and after it.
LEMMA KeptType == Kept \in Nat /\ Kept' \in Nat
BY DEF Kept, Open, One

\* So is the work.
LEMMA WorkType == Work \in Nat /\ Work' \in Nat
<1>1. \A h, l, i, o, e \in Nat : 40 * h + l + i + o + e \in Nat
  OBVIOUS
<1> QED
  BY <1>1, PosType DEF Work

\* Rank is a number.
LEMMA RankType ==
  ASSUME CountType
  PROVE  Rank \in Nat
BY WorkType, KeptType, OutputType DEF Rank

\* The process may leave something behind when it ends, and a file that failed has failed.
Eases ==
  /\ held' => held \/ (proc = "running" /\ proc' # "running")
  /\ rec.failed => rec'.failed

\* Closing a descriptor and the end of the process lower what is held.
LEMMA KeptShrinks ==
  ASSUME fds' \subseteq fds, proc' = "running" => proc = "running", Eases
  PROVE  Kept' <= Kept
<1>1. Open \in Nat /\ Open' \in Nat /\ Open' <= Open
  BY DEF Open, One
<1>2. 2 * One(proc = "running")' + One(held)' <= 2 * One(proc = "running") + One(held)
  BY DEF Eases, One
<1>3. One(~rec.failed)' <= One(~rec.failed)
  BY DEF Eases, One
<1>4. /\ One(proc = "running") \in Nat /\ One(held) \in Nat /\ One(~rec.failed) \in Nat
      /\ One(proc = "running")' \in Nat /\ One(held)' \in Nat /\ One(~rec.failed)' \in Nat
  BY DEF One
<1> QED
  BY <1>1, <1>2, <1>3, <1>4 DEF Kept

\* A goroutine that goes on towards its end takes the session there.
LEMMA MoveLowers ==
  ASSUME PcType, CountType, UNCHANGED <<avail, made>>,
         NEW a \in Actors, NEW l, Goto(a, l), Pos(l) < Pos(pc[a]),
         fds' \subseteq fds, proc' = "running" => proc = "running", Eases
  PROVE  Rank' < Rank
<1>1. Work' < Work
  <2> DEFINE h == Pos(pc["handler"])  o == Pos(pc["out"])  e == Pos(pc["err"])
             i == Pos(pc["input"])    p == Pos(pc["loop"]) n == Pos(l)
  <2>1. h \in Nat /\ o \in Nat /\ e \in Nat /\ i \in Nat /\ p \in Nat /\ n \in Nat
    BY PosType
  <2>2. Work = 40 * h + p + i + o + e
    BY DEF Work, Handler
  <2>3. Work' = 40 * h' + p' + i' + o' + e'
    BY DEF Work, Handler
  <2>4. \/ n < h /\ h' = n /\ <<p', i', o', e'>> = <<p, i, o, e>>
        \/ n < p /\ p' = n /\ <<h', i', o', e'>> = <<h, i, o, e>>
        \/ n < i /\ i' = n /\ <<h', p', o', e'>> = <<h, p, o, e>>
        \/ n < o /\ o' = n /\ <<h', p', i', e'>> = <<h, p, i, e>>
        \/ n < e /\ e' = n /\ <<h', p', i', o'>> = <<h, p, i, o>>
    BY Zenon DEF Goto, PcType, Actors, Writers
  <2> HIDE DEF h, o, e, i, p, n
  <2> QED
    BY <2>1, <2>2, <2>3, <2>4
<1>2. Kept' <= Kept
  BY KeptShrinks
<1>3. Output("out") \in Nat /\ Output("err") \in Nat
  BY OutputType
<1>4. Output("out")' = Output("out") /\ Output("err")' = Output("err")
  BY DEF Output
<1> QED
  BY <1>1, <1>2, <1>3, <1>4, WorkType, KeptType DEF Rank

\* So does closing a descriptor that is read from, or the end of the process or of what it
\* left behind, or the failure of the recording's file.
LEMMA ReleaseLowers ==
  ASSUME CountType, UNCHANGED <<pc, avail, made>>, fds' \subseteq fds,
         proc' = "running" => proc = "running", Eases,
         \/ proc = "running" /\ proc' # "running"
         \/ proc' = proc /\ held /\ ~held'
         \/ ~rec.failed /\ rec'.failed
         \/ \E f \in {"ptmx", "stdout", "stderr"} : f \in fds /\ f \notin fds'
  PROVE  Rank' < Rank
<1>1. Kept' < Kept
  <2> DEFINE p == 2 * One(proc = "running") + One(held)  f == One(~rec.failed)
  <2>1. Open \in Nat /\ Open' \in Nat /\ Open' <= Open
        /\ ((\E d \in {"ptmx", "stdout", "stderr"} : d \in fds /\ d \notin fds') => Open' < Open)
    BY DEF Open, One
  <2>2. p \in Nat /\ p' \in Nat /\ p' <= p
        /\ ((proc = "running" /\ proc' # "running") \/ (proc' = proc /\ held /\ ~held') => p' < p)
    BY DEF Eases, One
  <2>3. f \in Nat /\ f' \in Nat /\ f' <= f /\ (~rec.failed /\ rec'.failed => f' < f)
    BY DEF Eases, One
  <2>4. Kept = p + f + Open /\ Kept' = p' + f' + Open'
    BY DEF Kept
  <2>5. p' < p \/ f' < f \/ Open' < Open
    BY <2>1, <2>2, <2>3
  <2>6. \A a, b, c, d, e, g \in Nat :
          d <= a /\ e <= b /\ g <= c /\ (d < a \/ e < b \/ g < c) => d + e + g < a + b + c
    OBVIOUS
  <2> HIDE DEF p, f
  <2> QED
    BY <2>1, <2>2, <2>3, <2>4, <2>5, <2>6
<1>2. Work' = Work
  BY DEF Work, Handler
<1>3. Output("out") \in Nat /\ Output("err") \in Nat
  BY OutputType
<1>4. Output("out")' = Output("out") /\ Output("err")' = Output("err")
  BY DEF Output
<1> QED
  BY <1>1, <1>2, <1>3, <1>4, WorkType, KeptType DEF Rank

\* What a writer reads is less to come, by more than it takes to write it.
LEMMA ReadLowers ==
  ASSUME PcType, CountType, NEW w \in Writers, ReadOutput(w), Eases
  PROVE  Rank' < Rank
<1>1. PICK l \in {"write", "notice"} : pc' = [pc EXCEPT ![w] = l]
  BY DEF ReadOutput, Goto
<1>2. Kept' <= Kept
  BY KeptShrinks DEF ReadOutput
<1>3. Work \in Nat /\ Work' <= Work + 9
  <2> DEFINE h == Pos(pc["handler"])  o == Pos(pc["out"])  e == Pos(pc["err"])
             i == Pos(pc["input"])    p == Pos(pc["loop"]) n == Pos(l)
  <2>1. h \in Nat /\ o \in Nat /\ e \in Nat /\ i \in Nat /\ p \in Nat
    BY PosType
  <2>2. Work = 40 * h + p + i + o + e /\ Work' = 40 * h' + p' + i' + o' + e'
    BY DEF Work, Handler
  <2>3. h' = h /\ p' = p /\ i' = i
    BY <1>1 DEF Writers, PcType, Actors
  <2>4. \/ o = Pos("read") /\ o' = n /\ e' = e
        \/ e = Pos("read") /\ e' = n /\ o' = o
    BY <1>1, Zenon DEF Writers, ReadOutput, PcType, Actors
  <2>5. Pos("read") = 11 /\ n \in {12, 20}
    BY Positions
  <2> HIDE DEF h, o, e, i, p, n
  <2> QED
    BY <2>1, <2>2, <2>3, <2>4, <2>5
<1>4. /\ Output("out") \in Nat /\ Output("err") \in Nat
      /\ Output("out")' \in Nat /\ Output("err")' \in Nat
      /\ Output("out")' + Output("err")' = Output("out") + Output("err") - 10
  <2>1. /\ avail["out"] \in Nat /\ avail["err"] \in Nat
        /\ made["out"] \in 0..MaxOut /\ made["err"] \in 0..MaxOut
    BY DEF CountType, Writers
  <2>2. \/ avail["out"] = 1 /\ avail'["out"] = 0 /\ avail'["err"] = avail["err"]
        \/ avail["err"] = 1 /\ avail'["err"] = 0 /\ avail'["out"] = avail["out"]
    BY Zenon DEF ReadOutput, CountType, Writers
  <2>3. made' = made
    BY DEF ReadOutput
  <2> QED
    BY <2>1, <2>2, <2>3, BoundsAssumption DEF Output
<1> QED
  BY <1>2, <1>3, <1>4, WorkType, KeptType DEF Rank

\* The process and what it left behind write a bounded number of chunks.
LEMMA ProduceLowers ==
  ASSUME CountType, NEW w \in Writers, Produces(w)
  PROVE  Rank' < Rank
<1>1. Kept' = Kept /\ Work' = Work
  BY DEF Kept, Open, Work, Handler, Produces
<1>2. /\ Output("out") \in Nat /\ Output("err") \in Nat
      /\ Output("out")' \in Nat /\ Output("err")' \in Nat
      /\ Output("out")' + Output("err")' = Output("out") + Output("err") - 1
  <2>1. /\ avail["out"] \in Nat /\ avail["err"] \in Nat
        /\ made["out"] \in 0..MaxOut /\ made["err"] \in 0..MaxOut
    BY DEF CountType, Writers
  <2>2. \/ /\ avail["out"] = 0 /\ avail'["out"] = 1 /\ avail'["err"] = avail["err"]
           /\ made["out"] < MaxOut /\ made'["out"] = made["out"] + 1 /\ made'["err"] = made["err"]
        \/ /\ avail["err"] = 0 /\ avail'["err"] = 1 /\ avail'["out"] = avail["out"]
           /\ made["err"] < MaxOut /\ made'["err"] = made["err"] + 1 /\ made'["out"] = made["out"]
    BY Zenon DEF Produces, CountType, Writers
  <2>3. \A m, n \in Nat : n < m =>
          /\ 10 * 1 + 11 * (m - (n + 1)) \in Nat
          /\ 10 * 1 + 11 * (m - (n + 1)) = 10 * 0 + 11 * (m - n) - 1
    OBVIOUS
  <2>4. \/ /\ Output("out")' = Output("out") - 1 /\ Output("out")' \in Nat
           /\ Output("err")' = Output("err")
        \/ /\ Output("err")' = Output("err") - 1 /\ Output("err")' \in Nat
           /\ Output("out")' = Output("out")
    <3>1. CASE avail["out"] = 0 /\ made'["out"] = made["out"] + 1 /\ avail'["out"] = 1
               /\ made["out"] < MaxOut /\ avail'["err"] = avail["err"] /\ made'["err"] = made["err"]
      BY <2>1, <2>3, <3>1, BoundsAssumption DEF Output
    <3>2. CASE avail["err"] = 0 /\ made'["err"] = made["err"] + 1 /\ avail'["err"] = 1
               /\ made["err"] < MaxOut /\ avail'["out"] = avail["out"] /\ made'["out"] = made["out"]
      BY <2>1, <2>3, <3>2, BoundsAssumption DEF Output
    <3> QED
      BY <2>2, <3>1, <3>2
  <2> QED
    BY <2>4, OutputType
<1> QED
  BY <1>1, <1>2, WorkType, KeptType DEF Rank

\* The handler is worth more than the process, the pipes and the goroutines it starts.
LEMMA HandlerLowers ==
  ASSUME PcType, CountType, Stage, Start \/ SetProc
  PROVE  Rank' < Rank
<1>1. Output("out") \in Nat /\ Output("err") \in Nat
  BY OutputType
<1>2. Output("out")' = Output("out") /\ Output("err")' = Output("err")
  BY DEF Output, Start, SetProc
<1>3. Kept' <= Kept + 7
  BY DEF Kept, Open, One
<1>4. Work' <= Work - 18
  <2> DEFINE h == Pos(pc["handler"])  o == Pos(pc["out"])  e == Pos(pc["err"])
             i == Pos(pc["input"])    p == Pos(pc["loop"])
  <2>1. h \in Nat /\ o \in Nat /\ e \in Nat /\ i \in Nat /\ p \in Nat
    BY PosType
  <2>2. Work = 40 * h + p + i + o + e /\ Work' = 40 * h' + p' + i' + o' + e'
    BY DEF Work, Handler
  <2>3. CASE Start
    <3>1. h = 24 /\ h' = 23
      BY <2>3, Positions DEF Start, PcType, Actors
    <3>2. o' = o /\ i' = i /\ p' = p
      BY <2>3 DEF Start, PcType, Actors, Writers
    <3>3. e' = 0 \/ e' = 11
      BY <2>3, Positions DEF Start, PcType, Actors, Writers
    <3> HIDE DEF h, o, e, i, p
    <3> QED
      BY <2>1, <2>2, <3>1, <3>2, <3>3
  <2>4. CASE SetProc
    <3>1. h = 23 /\ h' = 22
      BY <2>4, Positions DEF SetProc, PcType, Actors
    <3>2. e' = e /\ p' = p
      BY <2>4 DEF SetProc, PcType, Actors, Writers
    <3>3. o' = 11 /\ i' = 11
      BY <2>4, Positions DEF SetProc, PcType, Actors, Writers
    <3> HIDE DEF h, o, e, i, p
    <3> QED
      BY <2>1, <2>2, <3>1, <3>2, <3>3
  <2> QED
    BY <2>3, <2>4
<1> QED
  BY <1>1, <1>2, <1>3, <1>4, WorkType, KeptType DEF Rank

\* What a process left behind does not come back, and nothing mends a file.
LEMMA EndsStay ==
  ASSUME RecType, Next
  PROVE  Eases
<1> USE DEF Eases
<1>1. CASE WindowChange
  BY <1>1, FullCloses, LostStays DEF WindowChange
<1>2. CASE PtyReq \/ SignalReq \/ HandleCommand \/ AcceptSubsystem
  BY <1>2 DEF PtyReq, SignalReq, HandleCommand, AcceptSubsystem, Serving, StartRecorder, Deliver,
     RecType
<1>3. CASE LoopEnds \/ KillProc \/ LoopJoins
  BY <1>3, RecCloses DEF LoopEnds, KillProc, LoopJoins, Kill, Dies
<1>4. CASE RunPlain \/ Start \/ StartFails \/ SetProc
  BY <1>4 DEF RunPlain, Start, StartFails, SetProc, StartRecorder, Deliver, Kill, Dies, RecType
<1>5. CASE AfterFunc \/ Copied \/ WaitDelay \/ Wait \/ HandlerReturns
  BY <1>5 DEF AfterFunc, Copied, WaitDelay, Wait, HandlerReturns
<1>6. ASSUME NEW w \in Writers, ReadOutput(w)
      PROVE  Eases
  BY <1>6, FullCloses, LostStays DEF ReadOutput, EventKept, EventDropped
<1>7. ASSUME NEW w \in Writers, WriteOutput(w) \/ WriteFails(w) \/ OutputEnds(w)
      PROVE  Eases
  BY <1>7 DEF WriteOutput, WriteFails, OutputEnds
<1>8. CASE ReadInput
  BY <1>8, FullCloses, LostStays DEF ReadInput
<1>9. CASE WriteInput \/ WriteInputFails \/ InputEnds \/ FlushFails
  BY <1>9 DEF WriteInput, WriteInputFails, InputEnds, FlushFails
<1>10. ASSUME NEW a \in Actors, FinishNext(a)
      PROVE  Eases
  BY <1>10, RecCloses
     DEF FinishNext, Notice, FinishBegins, FinishAgain, RecordExit, CloseRecorder, FinishEnds, RecType
<1>11. ASSUME NEW w \in Writers, Produces(w) \/ ClosesOutput(w)
      PROVE  Eases
  BY <1>11 DEF Produces, ClosesOutput
<1>12. CASE Exits \/ LeftoverEnds \/ ContextKills \/ ClientEOF \/ ClientLeaves
  BY <1>12 DEF Exits, LeftoverEnds, ContextKills, ClientEOF, ClientLeaves, Dies
<1> HIDE DEF Eases
<1> QED
  BY <1>1, <1>2, <1>3, <1>4, <1>5, <1>6, <1>7, <1>8, <1>9, <1>10, <1>11, <1>12
     DEF Next, LoopNext, HandlerNext, CopyNext, EnvironmentNext

\* Once the client is gone, whoever takes a step takes the session nearer to its end.
LEMMA WindsDown ==
  ASSUME EndInv, CountType, Next
  PROVE  Winds
<1> SUFFICES ASSUME peer = "gone" PROVE Rank' < Rank
  BY DEF Winds
<1>0. PcType /\ Places /\ Stage /\ Eases
  BY EndsStay DEF EndInv
<1>a. /\ "loop" \in Actors /\ "handler" \in Actors /\ "input" \in Actors
      /\ \A w \in Writers : w \in Actors
  BY DEF Actors, Writers
<1>1. ~(PtyReq \/ WindowChange \/ SignalReq \/ HandleCommand \/ AcceptSubsystem)
  BY DEF PtyReq, WindowChange, SignalReq, HandleCommand, AcceptSubsystem, Serving
<1>2. CASE LoopEnds \/ KillProc \/ LoopJoins
  <2>1. PICK l \in {"kill", "join", "done"} : Goto("loop", l) /\ Pos(l) < Pos(pc["loop"])
    BY <1>2, Positions DEF LoopEnds, KillProc, LoopJoins
  <2>2. UNCHANGED <<avail, made>> /\ fds' \subseteq fds /\ (proc' = "running" => proc = "running")
    BY <1>2 DEF LoopEnds, KillProc, LoopJoins, Kill, Dies
  <2> QED
    BY <1>0, <1>a, <2>1, <2>2, MoveLowers
<1>3. CASE RunPlain \/ StartFails \/ Copied \/ Wait \/ HandlerReturns
  <2>1. PICK l \in {"start", "exit", "wait", "done"} :
          Goto("handler", l) /\ Pos(l) < Pos(pc["handler"])
    <3>1. CASE RunPlain
      BY <3>1, Positions DEF RunPlain
    <3>2. CASE StartFails
      BY <3>2, Positions DEF StartFails
    <3>3. CASE Copied
      BY <3>3, Positions DEF Copied
    <3>4. CASE Wait
      BY <3>4, Positions DEF Wait
    <3>5. CASE HandlerReturns
      BY <3>5, Positions DEF HandlerReturns
    <3> QED
      BY <1>3, <3>1, <3>2, <3>3, <3>4, <3>5
  <2>2. UNCHANGED <<avail, made>> /\ fds' \subseteq fds /\ (proc' = "running" => proc = "running")
    BY <1>3 DEF RunPlain, StartFails, Copied, Wait, HandlerReturns
  <2> QED
    BY <1>0, <1>a, <2>1, <2>2, MoveLowers
<1>4. CASE AfterFunc \/ WaitDelay
  BY <1>0, <1>4, ReleaseLowers DEF AfterFunc, WaitDelay, OutFd
<1>5. ASSUME NEW w \in Writers, WriteOutput(w) \/ WriteFails(w) \/ OutputEnds(w) \/ ClosesOutput(w)
      PROVE  Rank' < Rank
  <2>1. Goto(w, "done") /\ Pos("done") < Pos(pc[w])
    BY <1>5, Positions DEF WriteOutput, WriteFails, OutputEnds, ClosesOutput
  <2>2. UNCHANGED <<avail, made, fds, proc>>
    BY <1>5 DEF WriteOutput, WriteFails, OutputEnds, ClosesOutput
  <2> QED
    BY <1>0, <1>a, <2>1, <2>2, MoveLowers
<1>6. CASE ReadInput \/ WriteInput \/ WriteInputFails \/ InputEnds
  <2>1. PICK l \in {"read", "done"} : Goto("input", l) /\ Pos(l) < Pos(pc["input"])
    BY <1>6, Positions DEF ReadInput, WriteInput, WriteInputFails, InputEnds
  <2>2. UNCHANGED <<avail, made>> /\ fds' \subseteq fds /\ (proc' = "running" => proc = "running")
    BY <1>6 DEF ReadInput, WriteInput, WriteInputFails, InputEnds
  <2> QED
    BY <1>0, <1>a, <2>1, <2>2, MoveLowers
<1>7. ASSUME NEW a \in Actors, FinishNext(a)
      PROVE  Rank' < Rank
  <2>1. Pos(Return(a)) <= 15
    BY Positions DEF Return
  <2>2. PICK l \in {"exit", "code", "close", "send", Return(a)} : Goto(a, l) /\ Pos(l) < Pos(pc[a])
    BY <1>7, <2>1, Positions, PosType
       DEF FinishNext, Notice, FinishBegins, FinishAgain, RecordExit, CloseRecorder, FinishEnds
  <2>3. UNCHANGED <<avail, made, fds, proc>>
    BY <1>7 DEF FinishNext, Notice, FinishBegins, FinishAgain, RecordExit, CloseRecorder, FinishEnds
  <2> QED
    BY <1>0, <2>2, <2>3, MoveLowers
<1>8. CASE Exits \/ ContextKills
  BY <1>0, <1>8, ReleaseLowers DEF Exits, ContextKills, Dies
<1>10. CASE LeftoverEnds
  <2>1. UNCHANGED <<pc, avail, made, fds, proc>> /\ held /\ ~held'
    BY <1>10 DEF LeftoverEnds
  <2> QED
    BY <1>0, <2>1, ReleaseLowers
<1>11. CASE FlushFails
  <2>1. UNCHANGED <<pc, avail, made, fds, proc>> /\ ~rec.failed /\ rec'.failed
    BY <1>0, <1>11, LostStays DEF FlushFails, EventLost, EndInv
  <2> QED
    BY <1>0, <2>1, ReleaseLowers
<1>9. ~(ClientEOF \/ ClientLeaves)
  BY DEF ClientEOF, ClientLeaves
<1> QED
  BY <1>0, <1>1, <1>2, <1>3, <1>4, <1>5, <1>6, <1>7, <1>8, <1>9, <1>10, <1>11, HandlerLowers,
     ReadLowers, ProduceLowers DEF Next, LoopNext, HandlerNext, CopyNext, EnvironmentNext

\* A session without a client takes a bounded number of steps, Rank of them at most,
\* whoever takes them: it cannot go round in circles (copying, finish, killProc, setProc).
THEOREM SessionWindsDown == Spec => [](Rank \in Nat) /\ [][Winds]_vars
<1>1. SessionInv => Rank \in Nat
  BY RankType DEF SessionInv
<1>2. SessionInv /\ [Next]_vars => [Winds]_vars
  BY WindsDown DEF SessionInv
<1> QED
  BY SessionStarts, SessionInductive, <1>1, <1>2, PTL DEF Spec
=============================================================================
