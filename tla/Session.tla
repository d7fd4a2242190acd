------------------------------- MODULE Session -------------------------------
(***************************************************************************)
(* One session channel (internal/sshd/session.go, sftp.go): the request    *)
(* loop of handleRequests, the handler that runs a command on a pty, on    *)
(* pipes or as the sftp server, the goroutines that copy its output and    *)
(* the client's input, context.AfterFunc, the process, and finish, which   *)
(* any of them may call.                                                   *)
(*                                                                         *)
(* What a mutex guards (procMu, the recorder's mu) is one step; finish     *)
(* keeps exitMu over several, since it talks to the recorder and to the    *)
(* client.  Output is counted in chunks, one Read each.  The recorder's    *)
(* limit is on compressed bytes, so any event may be the one that finds it *)
(* reached.  External: the process with what it leaves behind, the client, *)
(* and the SSH channel, whose reads and requests end when the client       *)
(* closes its side or the transport is gone, and whose writes wait for the *)
(* client to read.                                                         *)
(***************************************************************************)
EXTENDS Integers, Sequences, FiniteSets

CONSTANTS
  MaxOut,       \* bound on the chunks the process writes to each of its outputs
  MaxSignals    \* bound on the signals the client sends

ASSUME BoundsAssumption == MaxOut \in Nat /\ MaxSignals \in Nat

Writers == {"out", "err"}
Actors  == {"loop", "handler", "input"} \cup Writers

VARIABLES
  peer,     \* the client's side of the channel: open, eof (half closed), gone
  pc,       \* where each goroutine is
  cmd,      \* what runs: none, shell (or exec, or a force-command), sftp; set is sess.handled
  pty,      \* sess.ptmx is set
  fds,      \* descriptors of the session that are open
  rec,      \* sess.rec: [st, full, exit, failed]; failed: a write to its file was
  proc,     \* external: none, running, dead, reaped
  held,     \* external: something the process left behind keeps its outputs open
  procSet,  \* sess.proc is set
  wantKill,
  pending,  \* sess.pendingSignals
  got,      \* the signals the process got
  signals,  \* history: how many signals were accepted, they are numbered
  avail,    \* chunks in the process's outputs that nobody has read
  made, recorded, shown,   \* history: chunks written, taken by the recorder, at the client
  ctx,      \* sess.ctx is cancelled
  exitMu,   \* who is in finish
  exited, closed, \* sess.exited, and sess.Close was called
  ends      \* history: session_end events

procVars == <<proc, held, procSet, wantKill, pending, got, signals>>
outVars  == <<avail, made, recorded, shown>>
endVars  == <<ctx, exitMu, exited, closed, ends>>
reqVars  == <<cmd, pty>>
vars == <<peer, pc, reqVars, fds, rec, procVars, outVars, endVars>>

ExitSteps == {"notice", "exit", "code", "close", "send"}
NoRec == [st |-> "none", full |-> FALSE, exit |-> FALSE, failed |-> FALSE]

TypeOK ==
  /\ peer \in {"open", "eof", "gone"}
  /\ pc \in [Actors -> {"none", "serve", "kill", "join", "record", "start", "setproc", "copy",
                        "wait", "read", "write", "done"} \cup ExitSteps]
  /\ cmd \in {"none", "shell", "sftp"}
  /\ pty \in BOOLEAN /\ fds \subseteq {"ptmx", "tty", "stdin", "stdout", "stderr"}
  /\ rec \in [st : {"none", "open", "closed"}, full : BOOLEAN, exit : BOOLEAN, failed : BOOLEAN]
  /\ proc \in {"none", "running", "dead", "reaped"} /\ held \in BOOLEAN
  /\ procSet \in BOOLEAN /\ wantKill \in BOOLEAN
  /\ signals \in 0..MaxSignals /\ pending \in Seq(1..MaxSignals) /\ got \in Seq(1..MaxSignals)
  /\ avail \in [Writers -> 0..1]
  /\ made \in [Writers -> 0..MaxOut] /\ recorded \in [Writers -> 0..MaxOut]
  /\ shown \in [Writers -> 0..MaxOut]
  /\ ctx \in BOOLEAN /\ exitMu \in Actors \cup {"free"}
  /\ exited \in BOOLEAN /\ closed \in BOOLEAN /\ ends \in {0, 1}

Goto(a, l) == pc' = [pc EXCEPT ![a] = l]
-----------------------------------------------------------------------------
(* The recorder, as far as the session sees it. *)

\* startRecorder: off by policy, failing open with an audit event, or started.
StartRecorder ==
  \/ UNCHANGED rec
  \/ rec.st = "none" /\ rec' = [rec EXCEPT !.st = "open"]

\* Recorder.event: recorded...
EventKept == rec.st = "open" /\ ~rec.failed /\ UNCHANGED rec

\* ...or the gzip writer fails, or has before: that is only logged...
EventLost == rec.st = "open" /\ rec' = [rec EXCEPT !.failed = TRUE]

\* ...or it finds the recording full, closes it and calls OnLimit...
EventFull ==
  /\ rec.st = "open"
  /\ \E f \in {rec.failed, TRUE} : rec' = [rec EXCEPT !.st = "closed", !.full = TRUE, !.failed = f]

\* ...or there is no recorder, or a closed one, and nothing happens.
EventDropped == rec.st # "open" /\ UNCHANGED rec

\* Recorder.Close, once: what is buffered, the exit code and the footer may fail to be written.
RecClose ==
  \/ rec.st # "open" /\ UNCHANGED rec
  \/ /\ rec.st = "open"
     /\ \E f \in {rec.failed, TRUE} : rec' = [rec EXCEPT !.st = "closed", !.failed = f]

\* A tick of flushLoop, whose error nobody looks at.
FlushFails ==
  /\ rec.st = "open" /\ ~rec.failed /\ rec' = [rec EXCEPT !.failed = TRUE]
  /\ UNCHANGED <<peer, pc, reqVars, fds, procVars, outVars, endVars>>
-----------------------------------------------------------------------------
(* The request loop. A refused request changes nothing. *)

Serving == pc["loop"] = "serve" /\ peer # "gone"

\* ptyReq: the pty is opened, and the recorder with it.
PtyReq ==
  /\ Serving /\ cmd = "none" /\ ~pty
  /\ pty' = TRUE
  /\ fds' = fds \cup {"ptmx", "tty"}
  /\ StartRecorder
  /\ UNCHANGED <<peer, pc, cmd, procVars, outVars, endVars>>

\* windowChange records a resize, so it may be the event that finds the limit, or that fails.
WindowChange ==
  /\ Serving /\ pty /\ "ptmx" \in fds
  /\ \/ EventFull /\ Goto("loop", "notice")
     \/ EventLost /\ UNCHANGED pc
  /\ UNCHANGED <<peer, reqVars, fds, procVars, outVars, endVars>>

\* A signal reaches a process that is alive, and does nothing to one that is gone.
Deliver(sigs) == got' = IF proc = "running" THEN got \o sigs ELSE got

SignalReq ==
  /\ Serving /\ signals < MaxSignals
  /\ signals' = signals + 1
  /\ IF procSet THEN Deliver(<<signals + 1>>) /\ UNCHANGED pending
                ELSE pending' = Append(pending, signals + 1) /\ UNCHANGED got
  /\ UNCHANGED <<peer, pc, reqVars, fds, rec, proc, held, procSet, wantKill, outVars, endVars>>

\* handleCommand and startHandler(sess.run).
HandleCommand ==
  /\ Serving /\ cmd = "none"
  /\ cmd' = "shell"
  /\ Goto("handler", IF pty THEN "start" ELSE "record")
  /\ UNCHANGED <<peer, pty, fds, rec, procVars, outVars, endVars>>

\* acceptSubsystem and startHandler(sess.runSFTP).
AcceptSubsystem ==
  /\ Serving /\ cmd = "none"
  /\ cmd' = "sftp"
  /\ Goto("handler", "start")
  /\ UNCHANGED <<peer, pty, fds, rec, procVars, outVars, endVars>>

\* The stream of requests has ended.
LoopEnds ==
  /\ pc["loop"] = "serve" /\ peer = "gone"
  /\ ctx' = TRUE
  /\ Goto("loop", "kill")
  /\ UNCHANGED <<peer, reqVars, fds, rec, procVars, outVars, exitMu, exited, closed, ends>>

\* The process dies, leaving something behind or not.
Dies == proc' = "dead" /\ held' \in BOOLEAN
Kill == IF proc = "running" THEN Dies ELSE UNCHANGED <<proc, held>>

KillProc ==
  /\ pc["loop"] = "kill"
  /\ wantKill' = TRUE
  /\ IF procSet THEN Kill ELSE UNCHANGED <<proc, held>>
  /\ Goto("loop", "join")
  /\ UNCHANGED <<peer, reqVars, fds, rec, procSet, pending, got, signals, outVars, endVars>>

\* Mutant: the pty of a session that never ran a command is not released.
MutLoopJoins ==
  /\ pc["loop"] = "join" /\ pc["handler"] \in {"none", "done"}
  /\ RecClose
  /\ Goto("loop", "done")
  /\ UNCHANGED <<peer, reqVars, fds, procVars, outVars, endVars>>

\* The handler is joined. If none ever ran, the loop releases what pty-req opened.
LoopJoins ==
  /\ pc["loop"] = "join" /\ pc["handler"] \in {"none", "done"}
  /\ IF pc["handler"] = "none"
       THEN /\ fds' = fds \ {"ptmx", "tty"}
            /\ RecClose
       ELSE UNCHANGED <<fds, rec>>
  /\ Goto("loop", "done")
  /\ UNCHANGED <<peer, reqVars, procVars, outVars, endVars>>
-----------------------------------------------------------------------------
(* The handler: run, runPTY, runPlain, runSFTP and relay. *)

OnPty == pty /\ cmd # "sftp"

RunPlain ==
  /\ pc["handler"] = "record"
  /\ StartRecorder
  /\ Goto("handler", "start")
  /\ UNCHANGED <<peer, reqVars, fds, procVars, outVars, endVars>>

\* startInHome or startPiped. os/exec refuses to start under a cancelled context, which
\* the sftp server does not have.
Start ==
  /\ pc["handler"] = "start" /\ (cmd = "sftp" \/ ~ctx)
  /\ proc' = "running"
  /\ fds' = fds \cup CASE OnPty         -> {}
                       [] cmd = "sftp" -> {"stdin", "stdout"}
                       [] OTHER        -> {"stdin", "stdout", "stderr"}
  /\ pc' = [pc EXCEPT !["handler"] = "setproc",
                      !["err"] = IF OnPty \/ cmd = "sftp" THEN "none" ELSE "read"]
  /\ UNCHANGED <<peer, reqVars, rec, held, procSet, wantKill, pending, got, signals, outVars,
                 endVars>>

StartFails ==
  /\ pc["handler"] = "start"
  /\ Goto("handler", "exit")
  /\ UNCHANGED <<peer, reqVars, fds, rec, procVars, outVars, endVars>>

\* Mutants: a kill from before the process was known is forgotten, or a signal is.
MutSetProcForgetsKill ==
  /\ pc["handler"] = "setproc"
  /\ procSet' = TRUE /\ Deliver(pending) /\ pending' = <<>>
  /\ fds' = IF pty /\ cmd # "sftp" THEN fds \ {"tty"} ELSE fds
  /\ pc' = [pc EXCEPT !["handler"] = "copy", !["out"] = "read", !["input"] = "read"]
  /\ UNCHANGED <<peer, reqVars, rec, proc, held, wantKill, signals, outVars, endVars>>

MutSetProcForgetsSignals ==
  /\ pc["handler"] = "setproc"
  /\ IF wantKill THEN Kill ELSE UNCHANGED <<proc, held>>
  /\ procSet' = ~wantKill /\ pending' = <<>>
  /\ fds' = IF pty /\ cmd # "sftp" THEN fds \ {"tty"} ELSE fds
  /\ pc' = [pc EXCEPT !["handler"] = "copy", !["out"] = "read", !["input"] = "read"]
  /\ UNCHANGED <<peer, reqVars, rec, got, wantKill, signals, outVars, endVars>>

\* setProc, then the slave end is dropped and the copying begins.
SetProc ==
  /\ pc["handler"] = "setproc"
  /\ IF wantKill
       THEN Kill /\ UNCHANGED <<procSet, pending, got>>
       ELSE procSet' = TRUE /\ Deliver(pending) /\ pending' = <<>> /\ UNCHANGED <<proc, held>>
  /\ fds' = IF OnPty THEN fds \ {"tty"} ELSE fds
  /\ pc' = [pc EXCEPT !["handler"] = "copy", !["out"] = "read", !["input"] = "read"]
  /\ UNCHANGED <<peer, reqVars, rec, wantKill, signals, outVars, endVars>>

OutFd == IF OnPty THEN "ptmx" ELSE "stdout"

\* context.AfterFunc closes what the output is read from.
AfterFunc ==
  /\ ctx /\ pc["handler"] \in {"copy", "wait"} /\ OutFd \in fds
  /\ fds' = fds \ {OutFd}
  /\ UNCHANGED <<peer, pc, reqVars, rec, procVars, outVars, endVars>>

\* Mutant: the process is reaped without draining its output.
MutCopied ==
  /\ pc["handler"] = "copy" /\ proc = "dead"
  /\ fds' = fds \ {"ptmx"}
  /\ Goto("handler", "wait")
  /\ UNCHANGED <<peer, reqVars, rec, procVars, outVars, endVars>>

\* Only a drained output is followed by Wait...
Copied ==
  /\ pc["handler"] = "copy" /\ pc["out"] = "done"
  /\ fds' = fds \ {"ptmx"}
  /\ Goto("handler", "wait")
  /\ UNCHANGED <<peer, reqVars, rec, procVars, outVars, endVars>>

\* ...which waits for os/exec's copy of stderr too, and closes it after WaitDelay...
WaitDelay ==
  /\ pc["handler"] = "wait" /\ proc = "dead" /\ pc["err"] \notin {"none", "done"} /\ "stderr" \in fds
  /\ fds' = fds \ {"stdin", "stdout", "stderr"}
  /\ UNCHANGED <<peer, pc, reqVars, rec, procVars, outVars, endVars>>

\* ...and then has reaped the process and closed the pipes.
Wait ==
  /\ pc["handler"] = "wait" /\ proc = "dead" /\ pc["err"] \in {"none", "done"}
  /\ proc' = "reaped"
  /\ fds' = fds \ {"stdin", "stdout", "stderr"}
  /\ Goto("handler", "exit")
  /\ UNCHANGED <<peer, reqVars, rec, held, procSet, wantKill, pending, got, signals, outVars,
                 endVars>>

\* The relays are joined, and runPTY's deferred calls close the pty.
HandlerReturns ==
  /\ pc["handler"] = "join" /\ pc["input"] \in {"none", "done"} /\ pc["out"] \in {"none", "done"}
  /\ fds' = IF OnPty THEN fds \ {"ptmx", "tty"} ELSE fds
  /\ Goto("handler", "done")
  /\ UNCHANGED <<peer, reqVars, rec, procVars, outVars, endVars>>
-----------------------------------------------------------------------------
(* The copying goroutines. *)

\* Mutants: stderr bypasses the recorder, or a full recording does not end the session.
MutReadOutputStderr(w) ==
  /\ pc[w] = "read" /\ avail[w] = 1 /\ (IF w = "out" THEN OutFd ELSE "stderr") \in fds
  /\ avail' = [avail EXCEPT ![w] = 0]
  /\ recorded' = [recorded EXCEPT ![w] = IF w = "out" /\ rec.st = "open" THEN @ + 1 ELSE @]
  /\ Goto(w, "write")
  /\ UNCHANGED <<peer, reqVars, fds, rec, procVars, made, shown, endVars>>

MutReadOutputFull(w) ==
  /\ pc[w] = "read" /\ avail[w] = 1 /\ (IF w = "out" THEN OutFd ELSE "stderr") \in fds
  /\ avail' = [avail EXCEPT ![w] = 0]
  /\ \/ EventKept /\ recorded' = [recorded EXCEPT ![w] = @ + 1]
     \/ (EventLost \/ EventFull \/ EventDropped) /\ UNCHANGED recorded
  /\ Goto(w, "write")
  /\ UNCHANGED <<peer, reqVars, fds, procVars, made, shown, endVars>>

\* recOut.Write, first half: a chunk that was read is recorded.
ReadOutput(w) ==
  /\ pc[w] = "read" /\ avail[w] = 1 /\ (IF w = "out" THEN OutFd ELSE "stderr") \in fds
  /\ avail' = [avail EXCEPT ![w] = 0]
  /\ \/ EventKept /\ recorded' = [recorded EXCEPT ![w] = @ + 1] /\ Goto(w, "write")
     \/ EventFull /\ Goto(w, "notice") /\ UNCHANGED recorded
     \/ (EventLost \/ EventDropped) /\ Goto(w, "write") /\ UNCHANGED recorded
  /\ UNCHANGED <<peer, reqVars, fds, procVars, made, shown, endVars>>

\* The second half: it goes to the client, if the channel still takes it.
WriteOutput(w) ==
  /\ pc[w] = "write" /\ ~closed /\ peer # "gone"
  /\ shown' = [shown EXCEPT ![w] = @ + 1]
  /\ Goto(w, "read")
  /\ UNCHANGED <<peer, reqVars, fds, rec, procVars, avail, made, recorded, endVars>>

WriteFails(w) ==
  /\ pc[w] = "write" /\ (closed \/ peer = "gone")
  /\ Goto(w, "done")
  /\ UNCHANGED <<peer, reqVars, fds, rec, procVars, outVars, endVars>>

\* End of file: the descriptor was closed, or nobody holds the other end any more.
OutputEnds(w) ==
  /\ pc[w] = "read"
  /\ \/ (IF w = "out" THEN OutFd ELSE "stderr") \notin fds
     \/ proc # "running" /\ ~held /\ avail[w] = 0 /\ (OnPty => "tty" \notin fds)
  /\ Goto(w, "done")
  /\ UNCHANGED <<peer, reqVars, fds, rec, procVars, outVars, endVars>>

InFd == IF OnPty THEN "ptmx" ELSE "stdin"

\* Input arrives. On a pty it is recorded while echo is on, so it may be the event that
\* finds the limit, or that fails.
ReadInput ==
  /\ pc["input"] = "read" /\ peer = "open"
  /\ \/ UNCHANGED rec /\ Goto("input", "write")
     \/ OnPty /\ EventLost /\ Goto("input", "write")
     \/ OnPty /\ EventFull /\ Goto("input", "notice")
  /\ UNCHANGED <<peer, reqVars, fds, procVars, outVars, endVars>>

\* The process reads it, if it ever does...
WriteInput ==
  /\ pc["input"] = "write" /\ InFd \in fds /\ (proc = "running" \/ held)
  /\ Goto("input", "read")
  /\ UNCHANGED <<peer, reqVars, fds, rec, procVars, outVars, endVars>>

\* ...or the descriptor was closed, or nobody holds the other end any more.
WriteInputFails ==
  /\ pc["input"] = "write" /\ (InFd \notin fds \/ (proc # "running" /\ ~held))
  /\ fds' = fds \ {"stdin"}
  /\ Goto("input", "done")
  /\ UNCHANGED <<peer, reqVars, rec, procVars, outVars, endVars>>

\* The client sends no more.
InputEnds ==
  /\ pc["input"] = "read" /\ peer # "open"
  /\ fds' = fds \ {"stdin"}
  /\ Goto("input", "done")
  /\ UNCHANGED <<peer, reqVars, rec, procVars, outVars, endVars>>
-----------------------------------------------------------------------------
(* recordingFull and finish, for whoever calls them. *)

\* recordingFull writes a notice to the client before it calls exit.
Notice(a) ==
  /\ pc[a] = "notice"
  /\ Goto(a, "exit")
  /\ UNCHANGED <<peer, reqVars, fds, rec, procVars, outVars, endVars>>

\* Where a caller goes on: a writer finds the channel closed, input writes what it read.
Return(a) == CASE a = "loop" -> "serve" [] a = "handler" -> "join"
               [] a = "input" -> "write" [] OTHER -> "done"

\* Mutant: exited is not looked at.
MutFinishBegins(a) ==
  /\ pc[a] = "exit" /\ exitMu = "free"
  /\ exited' = TRUE /\ ctx' = TRUE /\ exitMu' = a
  /\ Goto(a, "code")
  /\ UNCHANGED <<peer, reqVars, fds, rec, procVars, outVars, closed, ends>>

\* finish takes exitMu, and only the first one goes on.
FinishBegins(a) ==
  /\ pc[a] = "exit" /\ exitMu = "free" /\ ~exited
  /\ exited' = TRUE /\ ctx' = TRUE /\ exitMu' = a
  /\ Goto(a, "code")
  /\ UNCHANGED <<peer, reqVars, fds, rec, procVars, outVars, closed, ends>>

FinishAgain(a) ==
  /\ pc[a] = "exit" /\ exitMu = "free" /\ exited
  /\ Goto(a, Return(a))
  /\ UNCHANGED <<peer, reqVars, fds, rec, procVars, outVars, endVars>>

\* Mutant: the recorder is closed before the exit code is recorded.
MutRecordExit(a) ==
  /\ pc[a] = "code"
  /\ RecClose
  /\ Goto(a, "close")
  /\ UNCHANGED <<peer, reqVars, fds, procVars, outVars, endVars>>

RecordExit(a) ==
  /\ pc[a] = "code"
  /\ rec' = [rec EXCEPT !.exit = @ \/ rec.st = "open"]
  /\ Goto(a, "close")
  /\ UNCHANGED <<peer, reqVars, fds, procVars, outVars, endVars>>

CloseRecorder(a) ==
  /\ pc[a] = "close"
  /\ RecClose
  /\ Goto(a, "send")
  /\ UNCHANGED <<peer, reqVars, fds, procVars, outVars, endVars>>

\* The session_end event, the exit status for the client, and the channel is closed.
FinishEnds(a) ==
  /\ pc[a] = "send"
  /\ ends' = ends + 1 /\ closed' = TRUE /\ exitMu' = "free"
  /\ Goto(a, Return(a))
  /\ UNCHANGED <<peer, reqVars, fds, rec, procVars, outVars, ctx, exited>>
-----------------------------------------------------------------------------
(* External: the process, os/exec and the client. *)

Produces(w) ==
  /\ proc = "running" \/ held
  /\ made[w] < MaxOut /\ avail[w] = 0 /\ pc[w] # "done" /\ (w = "err" => pc["err"] # "none")
  /\ avail' = [avail EXCEPT ![w] = 1]
  /\ made' = [made EXCEPT ![w] = @ + 1]
  /\ UNCHANGED <<peer, pc, reqVars, fds, rec, procVars, recorded, shown, endVars>>

\* It may close an output and go on without it.
ClosesOutput(w) ==
  /\ pc[w] = "read" /\ proc = "running" /\ avail[w] = 0
  /\ Goto(w, "done")
  /\ UNCHANGED <<peer, reqVars, fds, rec, procVars, outVars, endVars>>

Exits ==
  /\ proc = "running" /\ Dies
  /\ UNCHANGED <<peer, pc, reqVars, fds, rec, procSet, wantKill, pending, got, signals, outVars,
                 endVars>>

\* What it left behind ends as well, or it does not.
LeftoverEnds ==
  /\ held /\ held' = FALSE
  /\ UNCHANGED <<peer, pc, reqVars, fds, rec, proc, procSet, wantKill, pending, got, signals,
                 outVars, endVars>>

\* exec.CommandContext kills the process when the context is cancelled.
ContextKills ==
  /\ ctx /\ cmd # "sftp" /\ proc = "running" /\ Dies
  /\ UNCHANGED <<peer, pc, reqVars, fds, rec, procSet, wantKill, pending, got, signals, outVars,
                 endVars>>

ClientEOF ==
  /\ peer = "open" /\ peer' = "eof"
  /\ UNCHANGED <<pc, reqVars, fds, rec, procVars, outVars, endVars>>

\* It closes the channel, in answer to ours or not, or the transport is closed.
ClientLeaves ==
  /\ peer # "gone" /\ peer' = "gone"
  /\ UNCHANGED <<pc, reqVars, fds, rec, procVars, outVars, endVars>>
-----------------------------------------------------------------------------
Init ==
  /\ peer = "open"
  /\ pc = [a \in Actors |-> IF a = "loop" THEN "serve" ELSE "none"]
  /\ cmd = "none" /\ pty = FALSE /\ fds = {} /\ rec = NoRec
  /\ proc = "none" /\ held = FALSE /\ procSet = FALSE /\ wantKill = FALSE
  /\ pending = <<>> /\ got = <<>> /\ signals = 0
  /\ avail = [w \in Writers |-> 0] /\ made = [w \in Writers |-> 0]
  /\ recorded = [w \in Writers |-> 0] /\ shown = [w \in Writers |-> 0]
  /\ ctx = FALSE /\ exitMu = "free" /\ exited = FALSE /\ closed = FALSE /\ ends = 0

LoopNext ==
  \/ PtyReq \/ WindowChange \/ SignalReq \/ HandleCommand \/ AcceptSubsystem
  \/ LoopEnds \/ KillProc \/ LoopJoins

HandlerNext ==
  \/ RunPlain \/ Start \/ StartFails \/ SetProc \/ AfterFunc \/ Copied \/ WaitDelay \/ Wait
  \/ HandlerReturns

CopyNext ==
  \/ \E w \in Writers : ReadOutput(w) \/ WriteOutput(w) \/ WriteFails(w) \/ OutputEnds(w)
  \/ ReadInput \/ WriteInput \/ WriteInputFails \/ InputEnds \/ FlushFails

FinishNext(a) ==
  \/ Notice(a) \/ FinishBegins(a) \/ FinishAgain(a) \/ RecordExit(a) \/ CloseRecorder(a)
  \/ FinishEnds(a)

EnvironmentNext ==
  \/ \E w \in Writers : Produces(w) \/ ClosesOutput(w)
  \/ Exits \/ LeftoverEnds \/ ContextKills \/ ClientEOF \/ ClientLeaves

Next == LoopNext \/ HandlerNext \/ CopyNext \/ (\E a \in Actors : FinishNext(a)) \/ EnvironmentNext

Spec == Init /\ [][Next]_vars

DaemonNext ==
  \/ LoopEnds \/ KillProc \/ LoopJoins \/ HandlerNext \/ InputEnds \/ WriteInputFails \/ ContextKills
  \/ \E w \in Writers : ReadOutput(w) \/ WriteOutput(w) \/ WriteFails(w) \/ OutputEnds(w)
  \/ \E a \in Actors : FinishNext(a)

Fairness == WF_vars(DaemonNext) /\ WF_vars(closed /\ ClientLeaves)

FairSpec == Spec /\ Fairness
-----------------------------------------------------------------------------
(* Properties. *)

\* When handleRequests returns, on whatever path, no process of the session is left
\* running or unreaped, the recorder is closed, and so is every descriptor: what a pty-req
\* opened included, whether a command ran on it or not.  The exception is a pty-req before
\* an sftp subsystem, where runSFTP leaves the pty to the finalizer of os.File.
NothingLeftBehind ==
  pc["loop"] = "done" =>
    /\ proc \in {"none", "reaped"} /\ rec.st # "open"
    /\ fds \ {"ptmx", "tty"} = {} /\ (fds # {} => cmd = "sftp" /\ pty)

\* Of a recorded session the client sees nothing the recording lacks (recOut records
\* before it writes) until the recording is full, from when to finish a second writer may
\* still get a chunk out, or until its file fails: that is logged and does not end the
\* session.
UnrecordedOnlyAtTheEnd ==
  \A w \in Writers : rec.st # "none" /\ shown[w] > recorded[w] => rec.full \/ rec.failed

\* finish has one effect however many of the loop, the handler and the copiers call it:
\* once the channel is closed there was one session_end, and the recording is closed with
\* the exit code as the last event it gave to its file, or was cut short by its limit.
TheEndIsOnRecord ==
  /\ ends = IF closed THEN 1 ELSE 0
  /\ closed => rec.st # "open" /\ (rec.st = "closed" => rec.exit \/ rec.full)

\* The process gets the client's signals in the order they were sent, those of before it
\* ran (pendingSignals) first, and while it is there none is missing.
SignalsInOrder ==
  /\ got = SubSeq([i \in 1..MaxSignals |-> i], 1, Len(got))
  /\ procSet /\ proc = "running" => Len(got) = signals

\* A client that stays sees all that the process, and what it left behind, wrote to its
\* standard output before the channel is closed: it is drained before cmd.Wait closes the
\* pipe.
OutputIsDrained ==
  closed /\ peer # "gone" /\ ~rec.full => shown["out"] = made["out"]

\* Once the client is gone every goroutine of the session returns, whichever of kill and
\* setProc came first, and whatever the process left behind keeps open.
SessionEnds ==
  peer = "gone" ~> pc["loop"] = "done" /\ \A a \in Actors \ {"loop"} : pc[a] \in {"none", "done"}

\* A session whose recording is full is closed and its process killed, whoever wrote the
\* event that found the limit, if the client reads the notice or leaves.
FullSessionEnds == rec.full ~> closed /\ proc # "running"
=============================================================================
