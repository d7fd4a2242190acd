-------------------------- MODULE SessionEndProofs --------------------------
(***************************************************************************)
(* How a session ends and what it leaves behind, for any amount of output, *)
(* any number of signals and every interleaving of its goroutines.         *)
(***************************************************************************)
EXTENDS Session, TLAPS

Handler == pc["handler"]
Before  == {"none", "record", "start"}          \* the handler has no process yet,
Amid    == {"setproc", "copy", "wait"}          \* has one,
After   == {"exit", "code", "close", "send", "join", "done"}   \* and never will again
Locked  == {"code", "close", "send"}            \* in finish, with exitMu
Idle    == {"none", "done"}
Copying == {"none", "read", "write", "done"} \cup ExitSteps

Places ==
  /\ pc["loop"] \in {"serve", "kill", "join", "done"} \cup ExitSteps
  /\ Handler \in Before \cup Amid \cup After
  /\ \A a \in Actors \ {"loop", "handler"} : pc[a] \in Copying

\* The handler's progress, against the process and the goroutines it starts.
Stage ==
  /\ cmd = "none" <=> Handler = "none"
  /\ Handler = "record" => ~pty
  /\ Handler \in Before => proc = "none"
  /\ Handler \in Amid => proc \in {"running", "dead"}
  /\ Handler \in After => proc \in {"none", "reaped"}
  /\ proc = "none" => ~held /\ \A a \in Actors \ {"loop", "handler"} : pc[a] = "none"
  /\ Handler = "setproc" => pc["out"] = "none" /\ pc["input"] = "none"
  /\ Handler = "wait" \/ proc = "reaped" => pc["out"] = "done"
  /\ proc = "reaped" => pc["err"] \in Idle
  /\ pc["loop"] \in {"kill", "join", "done"} => ctx
  /\ pc["loop"] = "done" => Handler \in Idle

\* finish: one caller at a time has exitMu, and it is the first one. Nobody but the
\* handler calls it before the recording is full.
Finish ==
  /\ \A a \in Actors : pc[a] \in Locked <=> exitMu = a
  /\ \A a \in Actors \ {"handler"} : pc[a] \in ExitSteps => rec.full
  /\ exited /\ ~rec.full => Handler \in Locked \cup {"join", "done"}
  /\ Handler \in {"join", "done"} => closed
  /\ closed => exited
  /\ exited => (closed <=> exitMu = "free")
  /\ exitMu # "free" => exited
  /\ ctx => peer = "gone" \/ exited
  /\ ends = IF closed THEN 1 ELSE 0

\* The recorder is closed with the exit code, or full, or nobody ever ran a command.
Recorder ==
  /\ rec.full => rec.st = "closed"
  /\ rec.st = "closed" => rec.full \/ (rec.exit /\ Handler \in {"send", "join", "done"})
                            \/ (Handler = "none" /\ pc["loop"] = "done")
  /\ \A a \in Actors : pc[a] = "close" => (rec.st = "open" => rec.exit)
  /\ \A a \in Actors : pc[a] = "send" => rec.st # "open"
  /\ closed \/ pc["loop"] = "done" => rec.st # "open"

Descriptors ==
  /\ proc \in {"none", "reaped"} => fds \subseteq {"ptmx", "tty"}
  /\ ~pty => fds \cap {"ptmx", "tty"} = {}
  /\ pc["loop"] = "done" /\ Handler = "none" => fds = {}
  /\ Handler = "done" /\ OnPty => fds = {}
  /\ ~ctx /\ OnPty /\ Handler \in {"none", "start", "setproc", "copy"} => "ptmx" \in fds
  /\ ~ctx /\ ~OnPty /\ Handler \in {"setproc", "copy"} => "stdout" \in fds

\* TypeOK, in parts: where the goroutines are, and the state that is not counted.
PcType ==
  pc \in [Actors -> {"none", "serve", "kill", "join", "record", "start", "setproc", "copy",
                     "wait", "read", "write", "done"} \cup ExitSteps]
StateType ==
  /\ peer \in {"open", "eof", "gone"} /\ cmd \in {"none", "shell", "sftp"}
  /\ proc \in {"none", "running", "dead", "reaped"}
  /\ fds \subseteq {"ptmx", "tty", "stdin", "stdout", "stderr"}
FlagType ==
  /\ pty \in BOOLEAN /\ held \in BOOLEAN /\ procSet \in BOOLEAN /\ wantKill \in BOOLEAN
  /\ ctx \in BOOLEAN /\ exited \in BOOLEAN /\ closed \in BOOLEAN
LockType == exitMu \in Actors \cup {"free"}
RecType  ==
  rec \in [st : {"none", "open", "closed"}, full : BOOLEAN, exit : BOOLEAN, failed : BOOLEAN]

EndInv ==
  /\ PcType /\ StateType /\ FlagType /\ LockType /\ RecType
  /\ Places /\ Stage /\ Finish /\ Recorder /\ Descriptors
-----------------------------------------------------------------------------
USE DEF procVars, outVars, endVars, reqVars, Before, Amid, After, Locked, Idle, Copying, ExitSteps

\* A full recording is closed,
LEMMA FullCloses ==
  ASSUME RecType, EventFull
  PROVE  /\ rec'.full /\ rec'.st = "closed" /\ rec'.exit = rec.exit /\ RecType'
         /\ rec.failed => rec'.failed
<1>1. PICK f \in {rec.failed, TRUE} : rec' = [rec EXCEPT !.st = "closed", !.full = TRUE, !.failed = f]
  BY DEF EventFull
<1>2. f \in BOOLEAN /\ (rec.failed => f)
  BY Zenon DEF RecType
<1> QED
  BY <1>1, <1>2, Zenon DEF RecType

\* one whose file failed goes on,
LEMMA LostStays ==
  ASSUME RecType, EventLost
  PROVE  /\ rec'.st = rec.st /\ rec'.full = rec.full /\ rec'.exit = rec.exit /\ rec'.failed
         /\ RecType'
BY Zenon DEF RecType, EventLost

\* and Recorder.Close closes it.
LEMMA RecCloses ==
  ASSUME RecType, RecClose
  PROVE  /\ rec'.st = IF rec.st = "open" THEN "closed" ELSE rec.st
         /\ rec'.full = rec.full /\ rec'.exit = rec.exit /\ RecType'
         /\ rec.failed => rec'.failed
<1>1. CASE rec.st # "open"
  BY <1>1 DEF RecClose, RecType
<1>2. CASE rec.st = "open"
  <2>1. PICK f \in {rec.failed, TRUE} : rec' = [rec EXCEPT !.st = "closed", !.failed = f]
    BY <1>2 DEF RecClose
  <2>2. f \in BOOLEAN /\ (rec.failed => f)
    BY Zenon DEF RecType
  <2> QED
    BY <1>2, <2>1, <2>2, Zenon DEF RecType
<1> QED
  BY <1>1, <1>2

\* Every goroutine is somewhere.
LEMMA PcTypeInductive ==
  ASSUME PcType, [Next]_vars
  PROVE  PcType'
<1> USE DEF PcType, Goto, Actors, Writers
<1>1. CASE PtyReq \/ WindowChange \/ SignalReq \/ HandleCommand \/ AcceptSubsystem
  BY <1>1 DEF PtyReq, WindowChange, SignalReq, HandleCommand, AcceptSubsystem, Serving,
     StartRecorder, EventFull, Deliver
<1>2. CASE LoopEnds \/ KillProc \/ LoopJoins
  BY <1>2 DEF LoopEnds, KillProc, LoopJoins, Kill, Dies
<1>3. CASE RunPlain \/ Start \/ StartFails \/ SetProc
  BY <1>3 DEF RunPlain, Start, StartFails, SetProc, StartRecorder, Deliver, Kill, Dies
<1>4. CASE AfterFunc \/ Copied \/ WaitDelay \/ Wait \/ HandlerReturns
  BY <1>4 DEF AfterFunc, Copied, WaitDelay, Wait, HandlerReturns
<1>5. ASSUME NEW w \in Writers, ReadOutput(w) \/ WriteOutput(w) \/ WriteFails(w) \/ OutputEnds(w)
      PROVE  PcType'
  BY <1>5 DEF ReadOutput, WriteOutput, WriteFails, OutputEnds, EventKept, EventFull,
     EventDropped
<1>6. CASE ReadInput \/ WriteInput \/ WriteInputFails \/ InputEnds \/ FlushFails
  BY <1>6 DEF ReadInput, WriteInput, WriteInputFails, InputEnds, FlushFails
<1>7. ASSUME NEW a \in Actors, FinishNext(a)
      PROVE  PcType'
  BY <1>7 DEF FinishNext, Notice, FinishBegins, FinishAgain, RecordExit, CloseRecorder,
     FinishEnds, Return
<1>8. ASSUME NEW w \in Writers, Produces(w) \/ ClosesOutput(w)
      PROVE  PcType'
  BY <1>8 DEF Produces, ClosesOutput
<1>9. CASE Exits \/ LeftoverEnds \/ ContextKills \/ ClientEOF \/ ClientLeaves
  BY <1>9 DEF Exits, LeftoverEnds, ContextKills, ClientEOF, ClientLeaves, Dies
<1>10. CASE UNCHANGED vars
  BY <1>10 DEF vars
<1> HIDE DEF PcType, Goto, Actors, Writers
<1> QED
  BY <1>1, <1>2, <1>3, <1>4, <1>5, <1>6, <1>7, <1>8, <1>9, <1>10
     DEF Next, LoopNext, HandlerNext, CopyNext, EnvironmentNext

\* The client, the command, its process and its descriptors.
LEMMA StateTypeInductive ==
  ASSUME StateType, [Next]_vars
  PROVE  StateType'
<1> USE DEF StateType
<1>1. CASE PtyReq \/ WindowChange \/ SignalReq \/ HandleCommand \/ AcceptSubsystem
  BY <1>1 DEF PtyReq, WindowChange, SignalReq, HandleCommand, AcceptSubsystem, Serving,
     StartRecorder, EventFull, Deliver
<1>2. CASE LoopEnds \/ KillProc \/ LoopJoins
  BY <1>2 DEF LoopEnds, KillProc, LoopJoins, Kill, Dies
<1>3. CASE RunPlain \/ Start \/ StartFails \/ SetProc
  BY <1>3 DEF RunPlain, Start, StartFails, SetProc, StartRecorder, Deliver, Kill, Dies
<1>4. CASE AfterFunc \/ Copied \/ WaitDelay \/ Wait \/ HandlerReturns
  BY <1>4, Zenon DEF AfterFunc, Copied, WaitDelay, Wait, HandlerReturns
<1>5. ASSUME NEW w \in Writers, ReadOutput(w) \/ WriteOutput(w) \/ WriteFails(w) \/ OutputEnds(w)
      PROVE  StateType'
  BY <1>5 DEF ReadOutput, WriteOutput, WriteFails, OutputEnds, EventKept, EventFull,
     EventDropped
<1>6. CASE ReadInput \/ WriteInput \/ WriteInputFails \/ InputEnds \/ FlushFails
  BY <1>6 DEF ReadInput, WriteInput, WriteInputFails, InputEnds, FlushFails
<1>7. ASSUME NEW a \in Actors, FinishNext(a)
      PROVE  StateType'
  BY <1>7 DEF FinishNext, Notice, FinishBegins, FinishAgain, RecordExit, CloseRecorder,
     FinishEnds, Return
<1>8. ASSUME NEW w \in Writers, Produces(w) \/ ClosesOutput(w)
      PROVE  StateType'
  BY <1>8, Zenon DEF Produces, ClosesOutput
<1>9. CASE Exits \/ LeftoverEnds \/ ContextKills \/ ClientEOF \/ ClientLeaves
  BY <1>9, Zenon DEF Exits, LeftoverEnds, ContextKills, ClientEOF, ClientLeaves, Dies
<1>10. CASE UNCHANGED vars
  BY <1>10 DEF vars
<1> HIDE DEF StateType
<1> QED
  BY <1>1, <1>2, <1>3, <1>4, <1>5, <1>6, <1>7, <1>8, <1>9, <1>10
     DEF Next, LoopNext, HandlerNext, CopyNext, EnvironmentNext

\* The flags.
LEMMA FlagTypeInductive ==
  ASSUME FlagType, [Next]_vars
  PROVE  FlagType'
<1> USE DEF FlagType
<1>1. CASE PtyReq \/ WindowChange \/ SignalReq \/ HandleCommand \/ AcceptSubsystem
  BY <1>1, Zenon DEF PtyReq, WindowChange, SignalReq, HandleCommand, AcceptSubsystem, Serving,
     StartRecorder, EventFull, Deliver
<1>2. CASE LoopEnds \/ KillProc \/ LoopJoins
  BY <1>2, Zenon DEF LoopEnds, KillProc, LoopJoins, Kill, Dies
<1>3. CASE RunPlain \/ Start \/ StartFails \/ SetProc
  BY <1>3, Zenon DEF RunPlain, Start, StartFails, SetProc, StartRecorder, Deliver, Kill, Dies
<1>4. CASE AfterFunc \/ Copied \/ WaitDelay \/ Wait \/ HandlerReturns
  BY <1>4, Zenon DEF AfterFunc, Copied, WaitDelay, Wait, HandlerReturns
<1>5. ASSUME NEW w \in Writers, ReadOutput(w) \/ WriteOutput(w) \/ WriteFails(w) \/ OutputEnds(w)
      PROVE  FlagType'
  BY <1>5, Zenon DEF ReadOutput, WriteOutput, WriteFails, OutputEnds, EventKept, EventFull,
     EventDropped
<1>6. CASE ReadInput \/ WriteInput \/ WriteInputFails \/ InputEnds \/ FlushFails
  BY <1>6, Zenon DEF ReadInput, WriteInput, WriteInputFails, InputEnds, FlushFails
<1>7. ASSUME NEW a \in Actors, FinishNext(a)
      PROVE  FlagType'
  BY <1>7, Zenon DEF FinishNext, Notice, FinishBegins, FinishAgain, RecordExit, CloseRecorder,
     FinishEnds, Return
<1>8. ASSUME NEW w \in Writers, Produces(w) \/ ClosesOutput(w)
      PROVE  FlagType'
  BY <1>8, Zenon DEF Produces, ClosesOutput
<1>9. CASE Exits \/ LeftoverEnds \/ ContextKills \/ ClientEOF \/ ClientLeaves
  BY <1>9, Zenon DEF Exits, LeftoverEnds, ContextKills, ClientEOF, ClientLeaves, Dies
<1>10. CASE UNCHANGED vars
  BY <1>10 DEF vars
<1> HIDE DEF FlagType
<1> QED
  BY <1>1, <1>2, <1>3, <1>4, <1>5, <1>6, <1>7, <1>8, <1>9, <1>10
     DEF Next, LoopNext, HandlerNext, CopyNext, EnvironmentNext

\* Whoever has exitMu.
LEMMA LockTypeInductive ==
  ASSUME LockType, [Next]_vars
  PROVE  LockType'
<1> USE DEF LockType, Actors, Writers
<1>1. CASE PtyReq \/ WindowChange \/ SignalReq \/ HandleCommand \/ AcceptSubsystem
  BY <1>1 DEF PtyReq, WindowChange, SignalReq, HandleCommand, AcceptSubsystem, Serving,
     StartRecorder, EventFull, Deliver
<1>2. CASE LoopEnds \/ KillProc \/ LoopJoins
  BY <1>2 DEF LoopEnds, KillProc, LoopJoins, Kill, Dies
<1>3. CASE RunPlain \/ Start \/ StartFails \/ SetProc
  BY <1>3 DEF RunPlain, Start, StartFails, SetProc, StartRecorder, Deliver, Kill, Dies
<1>4. CASE AfterFunc \/ Copied \/ WaitDelay \/ Wait \/ HandlerReturns
  BY <1>4 DEF AfterFunc, Copied, WaitDelay, Wait, HandlerReturns
<1>5. ASSUME NEW w \in Writers, ReadOutput(w) \/ WriteOutput(w) \/ WriteFails(w) \/ OutputEnds(w)
      PROVE  LockType'
  BY <1>5 DEF ReadOutput, WriteOutput, WriteFails, OutputEnds, EventKept, EventFull,
     EventDropped
<1>6. CASE ReadInput \/ WriteInput \/ WriteInputFails \/ InputEnds \/ FlushFails
  BY <1>6 DEF ReadInput, WriteInput, WriteInputFails, InputEnds, FlushFails
<1>7. ASSUME NEW a \in Actors, FinishNext(a)
      PROVE  LockType'
  BY <1>7 DEF FinishNext, Notice, FinishBegins, FinishAgain, RecordExit, CloseRecorder,
     FinishEnds, Return
<1>8. ASSUME NEW w \in Writers, Produces(w) \/ ClosesOutput(w)
      PROVE  LockType'
  BY <1>8 DEF Produces, ClosesOutput
<1>9. CASE Exits \/ LeftoverEnds \/ ContextKills \/ ClientEOF \/ ClientLeaves
  BY <1>9 DEF Exits, LeftoverEnds, ContextKills, ClientEOF, ClientLeaves, Dies
<1>10. CASE UNCHANGED vars
  BY <1>10 DEF vars
<1> HIDE DEF LockType, Actors, Writers
<1> QED
  BY <1>1, <1>2, <1>3, <1>4, <1>5, <1>6, <1>7, <1>8, <1>9, <1>10
     DEF Next, LoopNext, HandlerNext, CopyNext, EnvironmentNext

\* The recorder.
LEMMA RecTypeInductive ==
  ASSUME RecType, [Next]_vars
  PROVE  RecType'
<1> USE DEF RecType
<1>1. CASE WindowChange
  BY <1>1, FullCloses, LostStays DEF WindowChange
<1>2. CASE PtyReq \/ SignalReq \/ HandleCommand \/ AcceptSubsystem
  BY <1>2 DEF PtyReq, SignalReq, HandleCommand, AcceptSubsystem, Serving, StartRecorder, Deliver
<1>3. CASE LoopEnds \/ KillProc \/ LoopJoins
  BY <1>3, RecCloses DEF LoopEnds, KillProc, LoopJoins, Kill, Dies
<1>4. CASE RunPlain \/ Start \/ StartFails \/ SetProc
  BY <1>4 DEF RunPlain, Start, StartFails, SetProc, StartRecorder, Deliver, Kill, Dies
<1>5. CASE AfterFunc \/ Copied \/ WaitDelay \/ Wait \/ HandlerReturns
  BY <1>5 DEF AfterFunc, Copied, WaitDelay, Wait, HandlerReturns
<1>6. ASSUME NEW w \in Writers, ReadOutput(w)
      PROVE  RecType'
  BY <1>6, FullCloses, LostStays DEF ReadOutput, EventKept, EventDropped
<1>7. ASSUME NEW w \in Writers, WriteOutput(w) \/ WriteFails(w) \/ OutputEnds(w)
      PROVE  RecType'
  BY <1>7 DEF WriteOutput, WriteFails, OutputEnds
<1>8. CASE ReadInput
  BY <1>8, FullCloses, LostStays DEF ReadInput
<1>9. CASE WriteInput \/ WriteInputFails \/ InputEnds \/ FlushFails
  BY <1>9, LostStays DEF WriteInput, WriteInputFails, InputEnds, FlushFails, EventLost
<1>10. ASSUME NEW a \in Actors, RecordExit(a)
      PROVE  RecType'
  BY <1>10, Zenon DEF RecordExit
<1>11. ASSUME NEW a \in Actors,
              \/ Notice(a) \/ FinishBegins(a) \/ FinishAgain(a) \/ CloseRecorder(a) \/ FinishEnds(a)
      PROVE  RecType'
  BY <1>11, RecCloses DEF Notice, FinishBegins, FinishAgain, CloseRecorder, FinishEnds, Return
<1>12. ASSUME NEW w \in Writers, Produces(w) \/ ClosesOutput(w)
      PROVE  RecType'
  BY <1>12 DEF Produces, ClosesOutput
<1>13. CASE Exits \/ LeftoverEnds \/ ContextKills \/ ClientEOF \/ ClientLeaves
  BY <1>13 DEF Exits, LeftoverEnds, ContextKills, ClientEOF, ClientLeaves, Dies
<1>14. CASE UNCHANGED vars
  BY <1>14 DEF vars
<1> HIDE DEF RecType
<1> QED
  BY <1>1, <1>2, <1>3, <1>4, <1>5, <1>6, <1>7, <1>8, <1>9, <1>10, <1>11, <1>12, <1>13, <1>14
     DEF Next, LoopNext, HandlerNext, CopyNext, EnvironmentNext, FinishNext

\* Everyone who steps stays in a place of theirs.
LEMMA PlacesInductive ==
  ASSUME PcType, Places, [Next]_vars
  PROVE  Places'
<1> USE DEF Places, PcType, Handler, Actors, Writers, Goto
<1>1. CASE PtyReq \/ WindowChange \/ SignalReq \/ HandleCommand \/ AcceptSubsystem
  BY <1>1 DEF PtyReq, WindowChange, SignalReq, HandleCommand, AcceptSubsystem, Serving,
     StartRecorder, EventFull, Deliver
<1>2. CASE LoopEnds \/ KillProc \/ LoopJoins
  BY <1>2 DEF LoopEnds, KillProc, LoopJoins, Kill, Dies
<1>3. CASE RunPlain \/ Start \/ StartFails \/ SetProc
  BY <1>3 DEF RunPlain, Start, StartFails, SetProc, StartRecorder, Deliver, Kill, Dies
<1>4. CASE AfterFunc \/ Copied \/ WaitDelay \/ Wait \/ HandlerReturns
  BY <1>4 DEF AfterFunc, Copied, WaitDelay, Wait, HandlerReturns
<1>5. ASSUME NEW w \in Writers, ReadOutput(w) \/ WriteOutput(w) \/ WriteFails(w) \/ OutputEnds(w)
      PROVE  Places'
  BY <1>5 DEF ReadOutput, WriteOutput, WriteFails, OutputEnds, EventKept, EventFull,
     EventDropped
<1>6. CASE ReadInput \/ WriteInput \/ WriteInputFails \/ InputEnds \/ FlushFails
  BY <1>6 DEF ReadInput, WriteInput, WriteInputFails, InputEnds, FlushFails
<1>7. ASSUME NEW a \in Actors, FinishNext(a)
      PROVE  Places'
  BY <1>7 DEF FinishNext, Notice, FinishBegins, FinishAgain, RecordExit, CloseRecorder,
     FinishEnds, Return
<1>8. ASSUME NEW w \in Writers, Produces(w) \/ ClosesOutput(w)
      PROVE  Places'
  BY <1>8 DEF Produces, ClosesOutput
<1>9. CASE Exits \/ LeftoverEnds \/ ContextKills \/ ClientEOF \/ ClientLeaves
  BY <1>9 DEF Exits, LeftoverEnds, ContextKills, ClientEOF, ClientLeaves, Dies
<1>10. CASE UNCHANGED vars
  BY <1>10 DEF vars
<1> HIDE DEF Places, PcType, Handler, Actors, Writers, Goto
<1> QED
  BY <1>1, <1>2, <1>3, <1>4, <1>5, <1>6, <1>7, <1>8, <1>9, <1>10
     DEF Next, LoopNext, HandlerNext, CopyNext, EnvironmentNext

\* A process is there while the handler is amid its work, and nobody copies without one.
LEMMA StageInductive ==
  ASSUME PcType, Places, Stage, [Next]_vars
  PROVE  Stage'
<1> USE DEF Places, Stage, PcType, Handler, Actors, Writers, Goto
<1>1. CASE PtyReq \/ WindowChange \/ SignalReq \/ HandleCommand \/ AcceptSubsystem
  BY <1>1 DEF PtyReq, WindowChange, SignalReq, HandleCommand, AcceptSubsystem, Serving,
     StartRecorder, EventFull, Deliver
<1>2. CASE LoopEnds \/ KillProc \/ LoopJoins
  BY <1>2 DEF LoopEnds, KillProc, LoopJoins, Kill, Dies
<1>3. CASE RunPlain \/ Start \/ StartFails \/ SetProc
  BY <1>3 DEF RunPlain, Start, StartFails, SetProc, StartRecorder, Deliver, Kill, Dies
<1>4. CASE AfterFunc \/ Copied \/ WaitDelay \/ Wait \/ HandlerReturns
  BY <1>4 DEF AfterFunc, Copied, WaitDelay, Wait, HandlerReturns
<1>5. ASSUME NEW w \in Writers, ReadOutput(w) \/ WriteOutput(w) \/ WriteFails(w) \/ OutputEnds(w)
      PROVE  Stage'
  BY <1>5 DEF ReadOutput, WriteOutput, WriteFails, OutputEnds, EventKept, EventFull,
     EventDropped
<1>6. CASE ReadInput \/ WriteInput \/ WriteInputFails \/ InputEnds \/ FlushFails
  BY <1>6 DEF ReadInput, WriteInput, WriteInputFails, InputEnds, FlushFails
<1>7. ASSUME NEW a \in Actors, FinishNext(a)
      PROVE  Stage'
  BY <1>7 DEF FinishNext, Notice, FinishBegins, FinishAgain, RecordExit, CloseRecorder,
     FinishEnds, Return
<1>8. ASSUME NEW w \in Writers, Produces(w) \/ ClosesOutput(w)
      PROVE  Stage'
  BY <1>8 DEF Produces, ClosesOutput
<1>9. CASE Exits \/ LeftoverEnds \/ ContextKills \/ ClientEOF \/ ClientLeaves
  BY <1>9 DEF Exits, LeftoverEnds, ContextKills, ClientEOF, ClientLeaves, Dies
<1>10. CASE UNCHANGED vars
  BY <1>10 DEF vars
<1> HIDE DEF Places, Stage, PcType, Handler, Actors, Writers, Goto
<1> QED
  BY <1>1, <1>2, <1>3, <1>4, <1>5, <1>6, <1>7, <1>8, <1>9, <1>10
     DEF Next, LoopNext, HandlerNext, CopyNext, EnvironmentNext

\* Whoever calls finish, and whoever finds the recording full.
LEMMA FinishInductive ==
  ASSUME PcType, RecType, LockType, Places, Stage, Finish, [Next]_vars
  PROVE  Finish'
<1> USE DEF Finish, Places, RecType, LockType, PcType, Handler, Actors, Writers, Goto
<1>1. CASE PtyReq
  BY <1>1 DEF PtyReq, Serving, StartRecorder
<1>2. CASE WindowChange
  BY <1>2, FullCloses, LostStays DEF WindowChange, Serving
<1>3. CASE SignalReq
  BY <1>3 DEF SignalReq, Serving, Deliver
<1>4. CASE HandleCommand
  BY <1>4 DEF HandleCommand, Serving, Stage
<1>5. CASE AcceptSubsystem
  BY <1>5 DEF AcceptSubsystem, Serving, Stage
<1>6. CASE LoopEnds
  BY <1>6 DEF LoopEnds
<1>7. CASE KillProc
  BY <1>7 DEF KillProc, Kill, Dies
<1>8. CASE LoopJoins
  BY <1>8, RecCloses DEF LoopJoins
<1>9. CASE RunPlain
  BY <1>9 DEF RunPlain, StartRecorder
<1>10. CASE Start
  BY <1>10 DEF Start, Stage
<1>11. CASE StartFails
  BY <1>11 DEF StartFails
<1>12. CASE SetProc
  <2>1. UNCHANGED <<peer, rec, endVars>> /\ pc'["handler"] = "copy" /\ pc'["out"] = "read"
        /\ pc'["input"] = "read" /\ pc'["err"] = pc["err"] /\ pc'["loop"] = pc["loop"]
    BY <1>12 DEF SetProc
  <2>2. pc["out"] = "none" /\ pc["input"] = "none" /\ pc["handler"] = "setproc"
    BY <1>12 DEF SetProc, Stage
  <2> QED
    BY <2>1, <2>2
<1>13. CASE AfterFunc \/ Copied \/ WaitDelay \/ Wait \/ HandlerReturns
  BY <1>13 DEF AfterFunc, Copied, WaitDelay, Wait, HandlerReturns
<1>14. ASSUME NEW w \in Writers, ReadOutput(w)
      PROVE  Finish'
  <2>1. UNCHANGED <<peer, endVars>> /\ \A b \in Actors \ {w} : pc'[b] = pc[b]
    BY <1>14 DEF ReadOutput
  <2>2. (pc'[w] = "write" /\ rec'.full = rec.full) \/ (pc'[w] = "notice" /\ rec'.full)
    BY <1>14, FullCloses, LostStays DEF ReadOutput, EventKept, EventDropped
  <2> QED
    BY <1>14, <2>1, <2>2 DEF ReadOutput
<1>15. ASSUME NEW w \in Writers, WriteOutput(w)
      PROVE  Finish'
  BY <1>15 DEF WriteOutput
<1>16. ASSUME NEW w \in Writers, WriteFails(w)
      PROVE  Finish'
  BY <1>16 DEF WriteFails
<1>17. ASSUME NEW w \in Writers, OutputEnds(w)
      PROVE  Finish'
  BY <1>17 DEF OutputEnds
<1>18. CASE ReadInput
  <2>1. UNCHANGED <<peer, endVars>> /\ \A b \in Actors \ {"input"} : pc'[b] = pc[b]
    BY <1>18 DEF ReadInput
  <2>2. (pc'["input"] = "write" /\ rec'.full = rec.full) \/ (pc'["input"] = "notice" /\ rec'.full)
    BY <1>18, FullCloses, LostStays DEF ReadInput
  <2> QED
    BY <1>18, <2>1, <2>2 DEF ReadInput
<1>19. CASE WriteInput
  BY <1>19 DEF WriteInput
<1>20. CASE WriteInputFails
  BY <1>20 DEF WriteInputFails
<1>21. CASE InputEnds \/ FlushFails
  BY <1>21, LostStays DEF InputEnds, FlushFails, EventLost
<1>22. ASSUME NEW a \in Actors, FinishNext(a)
      PROVE  Finish'
  BY <1>22, RecCloses DEF FinishNext, Notice, FinishBegins, FinishAgain, RecordExit, CloseRecorder,
     FinishEnds, Return
<1>23. ASSUME NEW w \in Writers, Produces(w) \/ ClosesOutput(w)
      PROVE  Finish'
  BY <1>23 DEF Produces, ClosesOutput
<1>24. CASE Exits \/ LeftoverEnds \/ ContextKills \/ ClientEOF \/ ClientLeaves
  BY <1>24 DEF Exits, LeftoverEnds, ContextKills, ClientEOF, ClientLeaves, Dies
<1>25. CASE UNCHANGED vars
  BY <1>25 DEF vars
<1> HIDE DEF Finish, Places, RecType, LockType, PcType, Handler, Actors, Writers, Goto
<1> QED
  BY <1>1, <1>2, <1>3, <1>4, <1>5, <1>6, <1>7, <1>8, <1>9, <1>10, <1>11, <1>12, <1>13, <1>14,
     <1>15, <1>16, <1>17, <1>18, <1>19, <1>20, <1>21, <1>22, <1>23, <1>24, <1>25
     DEF Next, LoopNext, HandlerNext, CopyNext, EnvironmentNext

\* Only the first caller of finish closes a recorder that is not full.
LEMMA RecorderInductive ==
  ASSUME PcType, RecType, Places, Stage, Finish, Recorder, [Next]_vars
  PROVE  Recorder'
<1> USE DEF Recorder, Places, Stage, Finish, RecType, PcType, Handler, Actors, Writers, Goto
<1>1. CASE PtyReq
  BY <1>1 DEF PtyReq, Serving, StartRecorder
<1>2. CASE WindowChange
  BY <1>2, FullCloses, LostStays DEF WindowChange, Serving
<1>3. CASE SignalReq
  BY <1>3 DEF SignalReq, Serving, Deliver
<1>4. CASE HandleCommand
  BY <1>4 DEF HandleCommand, Serving
<1>5. CASE AcceptSubsystem
  BY <1>5 DEF AcceptSubsystem, Serving
<1>6. CASE LoopEnds \/ KillProc \/ LoopJoins
  BY <1>6, RecCloses DEF LoopEnds, KillProc, LoopJoins, Kill, Dies
<1>7. CASE RunPlain
  <2>1. ~closed \/ rec.full
    BY <1>7 DEF RunPlain
  <2>2. pc["loop"] # "done"
    BY <1>7 DEF RunPlain
  <2>3. \A a \in Actors : pc[a] \in Locked => rec.full
    BY <1>7 DEF RunPlain
  <2>4. Handler' = "start" /\ UNCHANGED closed /\ \A b \in Actors \ {"handler"} : pc'[b] = pc[b]
    BY <1>7 DEF RunPlain
  <2>5. rec' = rec \/ (rec.st = "none" /\ ~rec.full /\ rec'.st = "open" /\ ~rec'.full)
    BY <1>7 DEF RunPlain, StartRecorder
  <2> QED
    BY <1>7, <2>1, <2>2, <2>3, <2>4, <2>5 DEF RunPlain
<1>8. CASE Start
  BY <1>8 DEF Start
<1>9. CASE StartFails
  BY <1>9 DEF StartFails
<1>10. CASE SetProc
  BY <1>10 DEF SetProc, Deliver, Kill, Dies
<1>11. CASE AfterFunc \/ Copied \/ WaitDelay \/ Wait \/ HandlerReturns
  BY <1>11 DEF AfterFunc, Copied, WaitDelay, Wait, HandlerReturns
<1>12. ASSUME NEW w \in Writers, ReadOutput(w)
      PROVE  Recorder'
  <2>1. UNCHANGED closed /\ \A b \in Actors \ {w} : pc'[b] = pc[b]
    BY <1>12 DEF ReadOutput
  <2>2. (pc'[w] = "write" /\ rec'.st = rec.st /\ rec'.full = rec.full /\ rec'.exit = rec.exit)
        \/ (pc'[w] = "notice" /\ rec'.full /\ rec'.st = "closed")
    BY <1>12, FullCloses, LostStays DEF ReadOutput, EventKept, EventDropped
  <2> QED
    BY <1>12, <2>1, <2>2 DEF ReadOutput
<1>13. ASSUME NEW w \in Writers, WriteOutput(w)
      PROVE  Recorder'
  BY <1>13 DEF WriteOutput
<1>14. ASSUME NEW w \in Writers, WriteFails(w)
      PROVE  Recorder'
  BY <1>14 DEF WriteFails
<1>15. ASSUME NEW w \in Writers, OutputEnds(w)
      PROVE  Recorder'
  BY <1>15 DEF OutputEnds
<1>16. CASE ReadInput
  <2>1. UNCHANGED closed /\ \A b \in Actors \ {"input"} : pc'[b] = pc[b]
    BY <1>16 DEF ReadInput
  <2>2. (pc'["input"] = "write" /\ rec'.st = rec.st /\ rec'.full = rec.full /\ rec'.exit = rec.exit)
        \/ (pc'["input"] = "notice" /\ rec'.full /\ rec'.st = "closed")
    BY <1>16, FullCloses, LostStays DEF ReadInput
  <2> QED
    BY <1>16, <2>1, <2>2 DEF ReadInput
<1>17. CASE WriteInput
  BY <1>17 DEF WriteInput
<1>18. CASE WriteInputFails
  BY <1>18 DEF WriteInputFails
<1>19. CASE InputEnds \/ FlushFails
  BY <1>19, LostStays DEF InputEnds, FlushFails, EventLost
<1>20. ASSUME NEW a \in Actors, Notice(a)
      PROVE  Recorder'
  BY <1>20 DEF Notice
<1>21. ASSUME NEW a \in Actors, FinishBegins(a)
      PROVE  Recorder'
  BY <1>21 DEF FinishBegins
<1>22. ASSUME NEW a \in Actors, FinishAgain(a)
      PROVE  Recorder'
  BY <1>22 DEF FinishAgain, Return
<1>23. ASSUME NEW a \in Actors, RecordExit(a)
      PROVE  Recorder'
  <2>1. rec'.st = rec.st /\ rec'.full = rec.full /\ (rec.exit \/ rec.st = "open" => rec'.exit)
    BY <1>23, Zenon DEF RecordExit
  <2>2. /\ pc[a] = "code" /\ pc'[a] = "close" /\ UNCHANGED closed
        /\ \A b \in Actors \ {a} : pc'[b] = pc[b]
    BY <1>23 DEF RecordExit
  <2> QED
    BY <2>1, <2>2
<1>24. ASSUME NEW a \in Actors, CloseRecorder(a)
      PROVE  Recorder'
  BY <1>24, RecCloses DEF CloseRecorder
<1>25. ASSUME NEW a \in Actors, FinishEnds(a)
      PROVE  Recorder'
  BY <1>25 DEF FinishEnds, Return
<1>26. ASSUME NEW w \in Writers, Produces(w) \/ ClosesOutput(w)
      PROVE  Recorder'
  BY <1>26 DEF Produces, ClosesOutput
<1>27. CASE Exits \/ LeftoverEnds \/ ContextKills \/ ClientEOF \/ ClientLeaves
  BY <1>27 DEF Exits, LeftoverEnds, ContextKills, ClientEOF, ClientLeaves, Dies
<1>28. CASE UNCHANGED vars
  BY <1>28 DEF vars
<1> HIDE DEF Recorder, Places, Stage, Finish, RecType, PcType, Handler, Actors, Writers, Goto
<1> QED
  BY <1>1, <1>2, <1>3, <1>4, <1>5, <1>6, <1>7, <1>8, <1>9, <1>10, <1>11, <1>12, <1>13, <1>14,
     <1>15, <1>16, <1>17, <1>18, <1>19, <1>20, <1>21, <1>22, <1>23, <1>24, <1>25, <1>26, <1>27,
     <1>28
     DEF Next, LoopNext, HandlerNext, CopyNext, EnvironmentNext, FinishNext

\* Descriptors are closed where their last user is done with them.
LEMMA DescriptorsInductive ==
  ASSUME PcType, StateType, Places, Stage, Descriptors, [Next]_vars
  PROVE  Descriptors'
<1> USE DEF Descriptors, StateType, Places, Stage, OnPty, OutFd, PcType, Handler, Actors,
            Writers, Goto
<1>1. CASE PtyReq
  BY <1>1 DEF PtyReq, Serving, StartRecorder
<1>2. CASE WindowChange
  BY <1>2 DEF WindowChange, Serving, EventFull
<1>3. CASE SignalReq
  BY <1>3 DEF SignalReq, Serving, Deliver
<1>4. CASE HandleCommand
  BY <1>4 DEF HandleCommand, Serving
<1>5. CASE AcceptSubsystem
  BY <1>5 DEF AcceptSubsystem, Serving
<1>6. CASE LoopEnds \/ KillProc \/ LoopJoins
  BY <1>6 DEF LoopEnds, KillProc, LoopJoins, Kill, Dies
<1>7. CASE RunPlain
  BY <1>7 DEF RunPlain, StartRecorder
<1>8. CASE Start
  BY <1>8 DEF Start
<1>9. CASE StartFails
  BY <1>9 DEF StartFails
<1>10. CASE SetProc
  BY <1>10 DEF SetProc, Deliver, Kill, Dies
<1>11. CASE AfterFunc
  BY <1>11 DEF AfterFunc
<1>12. CASE Copied
  BY <1>12 DEF Copied
<1>13. CASE WaitDelay
  BY <1>13 DEF WaitDelay
<1>14. CASE Wait
  BY <1>14 DEF Wait
<1>15. CASE HandlerReturns
  BY <1>15 DEF HandlerReturns
<1>16. ASSUME NEW w \in Writers, ReadOutput(w) \/ WriteOutput(w) \/ WriteFails(w) \/ OutputEnds(w)
      PROVE  Descriptors'
  BY <1>16 DEF ReadOutput, WriteOutput, WriteFails, OutputEnds, EventKept, EventFull,
     EventDropped
<1>17. CASE ReadInput \/ WriteInput \/ WriteInputFails \/ InputEnds \/ FlushFails
  BY <1>17 DEF ReadInput, WriteInput, WriteInputFails, InputEnds, FlushFails
<1>18. ASSUME NEW a \in Actors, FinishNext(a)
      PROVE  Descriptors'
  BY <1>18 DEF FinishNext, Notice, FinishBegins, FinishAgain, RecordExit, CloseRecorder,
     FinishEnds, Return
<1>19. ASSUME NEW w \in Writers, Produces(w) \/ ClosesOutput(w)
      PROVE  Descriptors'
  BY <1>19 DEF Produces, ClosesOutput
<1>20. CASE Exits \/ LeftoverEnds
  <2>1. CASE Exits
    BY <2>1 DEF Exits, Dies
  <2>2. CASE LeftoverEnds
    BY <2>2 DEF LeftoverEnds
  <2> QED
    BY <1>20, <2>1, <2>2
<1>21. CASE ContextKills
  BY <1>21 DEF ContextKills, Dies
<1>22. CASE ClientEOF
  BY <1>22 DEF ClientEOF
<1>23. CASE ClientLeaves
  BY <1>23 DEF ClientLeaves
<1>24. CASE UNCHANGED vars
  BY <1>24 DEF vars
<1> HIDE DEF Descriptors, StateType, Places, Stage, OnPty, OutFd, PcType, Handler, Actors,
             Writers, Goto
<1> QED
  BY <1>1, <1>2, <1>3, <1>4, <1>5, <1>6, <1>7, <1>8, <1>9, <1>10, <1>11, <1>12, <1>13, <1>14,
     <1>15, <1>16, <1>17, <1>18, <1>19, <1>20, <1>21, <1>22, <1>23, <1>24
     DEF Next, LoopNext, HandlerNext, CopyNext, EnvironmentNext

\* Nothing has happened yet.
LEMMA EndStarts == Init => EndInv
<1> SUFFICES ASSUME Init PROVE EndInv
  OBVIOUS
<1> USE DEF Init, NoRec
<1>1. PcType /\ LockType
  BY DEF PcType, LockType, Actors
<1>2. StateType
  BY DEF StateType
<1>3. FlagType
  BY Zenon DEF FlagType
<1>4. RecType
  BY Zenon DEF RecType
<1>5. Places /\ Stage /\ Finish
  BY DEF Places, Stage, Finish, Handler, Actors, Writers
<1>6. Recorder /\ Descriptors
  BY DEF Recorder, Descriptors, Handler, Actors, Writers, OnPty
<1> QED
  BY <1>1, <1>2, <1>3, <1>4, <1>5, <1>6 DEF EndInv

\* The parts lean on each other, so they are inductive only together.
LEMMA EndInductive == EndInv /\ [Next]_vars => EndInv'
BY PcTypeInductive, StateTypeInductive, FlagTypeInductive, LockTypeInductive, RecTypeInductive,
   PlacesInductive, StageInductive, FinishInductive, RecorderInductive, DescriptorsInductive
   DEF EndInv
-----------------------------------------------------------------------------
(***************************************************************************)
(* When handleRequests returns, no process is left running or unreaped, no *)
(* recorder open, and no descriptor but those of a pty before sftp: with   *)
(* any output, any number of signals, whoever calls finish first.          *)
(***************************************************************************)
THEOREM SessionCleansUp == Spec => []NothingLeftBehind
<1>1. EndInv => NothingLeftBehind
  BY Zenon DEF EndInv, NothingLeftBehind, StateType, FlagType, Stage, Recorder, Descriptors, OnPty,
     Handler
<1> QED
  BY <1>1, EndStarts, EndInductive, PTL DEF Spec

(***************************************************************************)
(* finish acts once: one session_end when the channel is closed, with the  *)
(* exit code as the last event of the recording, or a recording that its   *)
(* limit had closed.                                                       *)
(***************************************************************************)
THEOREM EndIsRecorded == Spec => []TheEndIsOnRecord
<1>1. EndInv => TheEndIsOnRecord
  BY DEF EndInv, TheEndIsOnRecord, Stage, Finish, Recorder, Handler, RecType, FlagType, StateType
<1> QED
  BY <1>1, EndStarts, EndInductive, PTL DEF Spec
-----------------------------------------------------------------------------
(***************************************************************************)
(* A session whose client is gone never comes to a stop before its end.    *)
(***************************************************************************)
Over == pc["loop"] = "done" /\ \A a \in Actors \ {"loop"} : pc[a] \in Idle

\* The guards of DaemonNext when the client is gone, by goroutine: the loop, the handler
\* with AfterFunc and WaitDelay, the writers, the reader of the input, and finish.
Ready ==
  \/ pc["loop"] \in {"serve", "kill"} \/ (pc["loop"] = "join" /\ Handler \in Idle)
  \/ Handler \in {"record", "start", "setproc"}
  \/ Handler = "copy" /\ pc["out"] = "done"
  \/ Handler \in {"copy", "wait"} /\ ctx /\ OutFd \in fds
  \/ Handler = "wait" /\ proc = "dead" /\ (pc["err"] \in Idle \/ "stderr" \in fds)
  \/ Handler = "join" /\ pc["input"] \in Idle /\ pc["out"] \in Idle
  \/ \E w \in Writers : \/ pc[w] = "write"
                        \/ pc[w] = "read" /\ (IF w = "out" THEN OutFd ELSE "stderr") \notin fds
  \/ pc["input"] = "read"
  \/ pc["input"] = "write" /\ (InFd \notin fds \/ (proc # "running" /\ ~held))
  \/ \E a \in Actors : pc[a] \in {"notice"} \cup Locked \/ (pc[a] = "exit" /\ exitMu = "free")

\* The goroutines of a session never wait for one another in a circle, nor for a process
\* or for what it left behind: while one of them is left after the client is gone, the
\* daemon has a step to take.
NeverStuck == peer = "gone" /\ ~Over => Ready

\* Why: a kill is not forgotten, whichever of killProc and setProc came first, and what
\* the handler waits for it has closed or will.
Quits ==
  /\ Handler = "copy" => pc["out"] # "none"
  /\ Handler = "wait" /\ OnPty => "ptmx" \notin fds
  /\ proc = "reaped" => InFd \notin fds
  /\ Handler \in {"copy", "wait"} /\ proc = "running" => procSet /\ ~wantKill
  /\ pc["loop"] \in {"join", "done"} => wantKill
  /\ Handler = "done" => pc["input"] \in Idle /\ pc["out"] \in Idle
-----------------------------------------------------------------------------
\* What NeverStuck rests on is kept by every step.
LEMMA QuitsInductive ==
  ASSUME EndInv, Quits, [Next]_vars
  PROVE  Quits'
<1> USE DEF Quits, Goto, Actors, Writers, Handler, OnPty, InFd
<1>0. PcType /\ StateType /\ FlagType /\ Places /\ Stage
  BY DEF EndInv
<1>1. CASE PtyReq \/ WindowChange \/ SignalReq \/ HandleCommand \/ AcceptSubsystem
  <2>1. CASE PtyReq
    BY <1>0, <2>1 DEF PtyReq, PcType, Stage
  <2>2. CASE WindowChange \/ SignalReq
    BY <1>0, <2>2 DEF WindowChange, SignalReq, Serving, PcType
  <2>3. CASE HandleCommand \/ AcceptSubsystem
    BY <1>0, <2>3 DEF HandleCommand, AcceptSubsystem, PcType, Stage
  <2> QED
    BY <1>1, <2>1, <2>2, <2>3
<1>2. CASE LoopEnds \/ KillProc \/ LoopJoins
  BY <1>0, <1>2 DEF LoopEnds, KillProc, LoopJoins, Kill, Dies, PcType, Stage
<1>3. CASE RunPlain \/ Start \/ StartFails \/ SetProc
  BY <1>0, <1>3 DEF RunPlain, Start, StartFails, SetProc, Kill, Dies, PcType, Stage
<1>4. CASE AfterFunc \/ Copied \/ WaitDelay \/ Wait \/ HandlerReturns
  <2>1. CASE AfterFunc \/ WaitDelay
    BY <2>1 DEF AfterFunc, WaitDelay
  <2>2. CASE Copied
    BY <1>0, <2>2 DEF Copied, PcType
  <2>3. CASE Wait
    BY <1>0, <2>3 DEF Wait, PcType
  <2>4. CASE HandlerReturns
    BY <1>0, <2>4 DEF HandlerReturns, PcType
  <2> QED
    BY <1>4, <2>1, <2>2, <2>3, <2>4
<1>5. ASSUME NEW w \in Writers, ReadOutput(w) \/ WriteOutput(w) \/ WriteFails(w) \/ OutputEnds(w)
      PROVE  Quits'
  <2>1. UNCHANGED <<fds, proc, procSet, wantKill, pty, cmd>>
    BY <1>5 DEF ReadOutput, WriteOutput, WriteFails, OutputEnds
  <2>2. PICK l \in {"read", "write", "notice", "done"} : pc' = [pc EXCEPT ![w] = l]
    BY <1>5 DEF ReadOutput, WriteOutput, WriteFails, OutputEnds
  <2>3. Handler = "done" => pc["out"] \notin {"read", "write"}
    OBVIOUS
  <2>4. pc[w] \in {"read", "write"}
    BY <1>5 DEF ReadOutput, WriteOutput, WriteFails, OutputEnds
  <2> QED
    BY <1>0, <2>1, <2>2, <2>3, <2>4 DEF PcType
<1>6. CASE ReadInput \/ WriteInput \/ WriteInputFails \/ InputEnds \/ FlushFails
  BY <1>0, <1>6 DEF ReadInput, WriteInput, WriteInputFails, InputEnds, FlushFails, PcType, Stage
<1>7. ASSUME NEW a \in Actors, FinishNext(a)
      PROVE  Quits'
  BY <1>0, <1>7 DEF FinishNext, Notice, FinishBegins, FinishAgain, RecordExit, CloseRecorder,
     FinishEnds, Return, PcType, Stage
<1>8. ASSUME NEW w \in Writers, Produces(w) \/ ClosesOutput(w)
      PROVE  Quits'
  BY <1>0, <1>8 DEF Produces, ClosesOutput, PcType, Stage
<1>9. CASE Exits \/ LeftoverEnds \/ ContextKills \/ ClientEOF \/ ClientLeaves
  BY <1>9 DEF Exits, LeftoverEnds, ContextKills, ClientEOF, ClientLeaves, Dies
<1>10. CASE UNCHANGED vars
  BY <1>10 DEF vars
<1> HIDE DEF Quits, Goto, Actors, Writers, Handler, OnPty, InFd
<1> QED
  BY <1>1, <1>2, <1>3, <1>4, <1>5, <1>6, <1>7, <1>8, <1>9, <1>10
     DEF Next, LoopNext, HandlerNext, CopyNext, EnvironmentNext

\* Who would be stuck: nobody in finish, so the handler, so the goroutine it waits for, and
\* that one has an end of file, a closed channel or a closed descriptor ahead.
LEMMA NeverStuckFollows ==
  ASSUME EndInv, Quits
  PROVE  NeverStuck
<1> SUFFICES ASSUME peer = "gone", ~Over, ~Ready PROVE FALSE
  BY DEF NeverStuck
<1> USE DEF Actors, Writers
<1>0. PcType /\ StateType /\ FlagType /\ LockType /\ Places /\ Stage /\ Finish
  BY DEF EndInv
<1>1. \A a \in Actors : pc[a] \notin ExitSteps
  <2>1. exitMu = "free"
    BY <1>0 DEF Finish, LockType, Ready
  <2> QED
    BY <2>1 DEF Ready
<1>2. pc["loop"] = "done" \/ (pc["loop"] = "join" /\ Handler \notin Idle)
  BY <1>0, <1>1 DEF Ready, Places
<1>3. ctx /\ wantKill
  BY <1>0, <1>2 DEF Stage, Quits
<1>4. pc["out"] \in Idle \cup {"read"} /\ pc["err"] \in Idle \cup {"read"}
      /\ pc["input"] \in Idle \cup {"write"}
  BY <1>0, <1>1 DEF Places, Ready
<1>5. Handler \in {"copy", "wait", "join", "none", "done"}
  BY <1>0, <1>1 DEF Places, Ready, Handler
<1>6. CASE Handler = "copy"
  <2>1. OutFd \notin fds
    BY <1>3, <1>6 DEF Ready
  <2>2. pc["out"] # "none"
    BY <1>6 DEF Quits
  <2> QED
    BY <2>1, <2>2, <1>4, <1>6 DEF Ready
<1>7. CASE Handler = "wait"
  <2>1. proc = "dead"
    BY <1>0, <1>3, <1>7 DEF Stage, Quits
  <2> QED
    BY <2>1, <1>4, <1>7 DEF Ready
<1>8. CASE Handler = "join"
  <2>1. proc \in {"none", "reaped"}
    BY <1>0, <1>8 DEF Stage
  <2>2. pc["out"] \in Idle /\ pc["input"] \in Idle
    BY <2>1, <1>0, <1>4 DEF Stage, Quits, Ready
  <2> QED
    BY <2>2, <1>8 DEF Ready
<1>9. CASE Handler \in Idle
  <2>1. proc \in {"none", "reaped"} /\ pc["err"] \in Idle
    BY <1>0, <1>9 DEF Stage
  <2>2. pc["out"] \in Idle /\ pc["input"] \in Idle
    BY <2>1, <1>0, <1>9 DEF Stage, Quits
  <2>3. pc["loop"] = "done"
    BY <1>2, <1>9
  <2> QED
    BY <2>1, <2>2, <2>3, <1>9 DEF Over, Handler
<1> QED
  BY <1>5, <1>6, <1>7, <1>8, <1>9

\* While a goroutine of a session without a client is left, the daemon has a step to take
\* (handleRequests, run, relay, finish).
THEOREM SessionNeverStuck == Spec => []NeverStuck
<1>1. Init => EndInv /\ Quits
  BY EndStarts, Zenon DEF Init, Quits, Handler, Actors
<1>2. EndInv /\ Quits /\ [Next]_vars => (EndInv /\ Quits)'
  BY EndInductive, QuitsInductive
<1>3. EndInv /\ Quits => NeverStuck
  BY NeverStuckFollows
<1> QED
  BY <1>1, <1>2, <1>3, PTL DEF Spec
=============================================================================
