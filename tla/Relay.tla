-------------------------------- MODULE Relay --------------------------------
(***************************************************************************)
(* The net.Conn over a relay stream (relayConn in internal/client/relay.go)*)
(* and runRelay around it.  One goroutine writes at a time, the SSH        *)
(* transport's lock sees to that, and several may be in Close: handleConn, *)
(* a sweep of DropRevoked, the timer of keepAlive.                         *)
(*                                                                         *)
(* External: the stream.  A Send returns when the backend takes the frame, *)
(* or fails when the stream's context is cancelled; with a backend that    *)
(* has gone silent only the second happens.                                *)
(***************************************************************************)
EXTENDS Naturals, Sequences, FiniteSets

CONSTANTS
  Closers,      \* goroutines that may call Close
  MaxFrames     \* bound on the data frames written

ASSUME RelayAssumption == "writer" \notin Closers /\ "free" \notin Closers /\ MaxFrames \in Nat

VARIABLES
  backend,      \* up, or silent
  frames,       \* the frames the backend has taken, after Ready
  sendMu,       \* who holds it: the writer, one of the closers, or free
  rclosed,      \* relayConn.closed
  closing,      \* where each closer is: idle, send, cancel, done
  deadline,     \* a timer is set that will cancel
  cancelled     \* the stream's context is done

relayVars == <<backend, frames, sendMu, rclosed, closing, deadline, cancelled>>

RelayTypeOK ==
  /\ backend \in {"up", "silent"} /\ frames \in Seq({"data", "closed"})
  /\ sendMu \in Closers \cup {"writer", "free"} /\ rclosed \in BOOLEAN
  /\ closing \in [Closers -> {"idle", "send", "cancel", "done"}]
  /\ deadline \in BOOLEAN /\ cancelled \in BOOLEAN

Written == Cardinality({i \in DOMAIN frames : frames[i] = "data"})
Reaches(k, l) == closing' = [closing EXCEPT ![k] = l]
-----------------------------------------------------------------------------
\* Mutant: a Write does not ask whether Closed was sent.
MutWrite ==
  /\ sendMu = "free" /\ ~cancelled /\ Written < MaxFrames
  /\ sendMu' = "writer"
  /\ UNCHANGED <<backend, frames, rclosed, closing, deadline, cancelled>>

\* Write takes sendMu and sends; on a closed relay or a cancelled stream it returns at once.
Write ==
  /\ sendMu = "free" /\ ~rclosed /\ ~cancelled /\ Written < MaxFrames
  /\ sendMu' = "writer"
  /\ UNCHANGED <<backend, frames, rclosed, closing, deadline, cancelled>>

Sent ==
  /\ sendMu = "writer" /\ backend = "up" /\ ~cancelled
  /\ frames' = Append(frames, "data")
  /\ sendMu' = "free"
  /\ UNCHANGED <<backend, rclosed, closing, deadline, cancelled>>

WriteFailed ==
  /\ sendMu = "writer" /\ cancelled
  /\ sendMu' = "free"
  /\ UNCHANGED <<backend, frames, rclosed, closing, deadline, cancelled>>
-----------------------------------------------------------------------------
\* Mutant: Close waits for sendMu.
MutClose(k) ==
  /\ closing[k] = "idle" /\ sendMu = "free"
  /\ IF ~rclosed THEN rclosed' = TRUE /\ sendMu' = k /\ Reaches(k, "send")
                 ELSE Reaches(k, "cancel") /\ UNCHANGED <<rclosed, sendMu>>
  /\ UNCHANGED <<backend, frames, deadline, cancelled>>

\* Close tries sendMu. Only the first to have it sends Closed...
Close(k) ==
  /\ closing[k] = "idle"
  /\ IF sendMu = "free" /\ ~rclosed
       THEN rclosed' = TRUE /\ sendMu' = k /\ Reaches(k, "send")
       ELSE Reaches(k, "cancel") /\ UNCHANGED <<rclosed, sendMu>>
  /\ UNCHANGED <<backend, frames, deadline, cancelled>>

ClosedSent(k) ==
  /\ closing[k] = "send"
  /\ \/ backend = "up" /\ ~cancelled /\ frames' = Append(frames, "closed")
     \/ cancelled /\ UNCHANGED frames
  /\ sendMu' = "free"
  /\ Reaches(k, "cancel")
  /\ UNCHANGED <<backend, rclosed, deadline, cancelled>>

\* ...and all of them cancel the stream and stop the timer.
CloseReturns(k) ==
  /\ closing[k] = "cancel"
  /\ cancelled' = TRUE /\ deadline' = FALSE
  /\ Reaches(k, "done")
  /\ UNCHANGED <<backend, frames, sendMu, rclosed>>

\* A connection may be closed again.
CloseAgain(k) ==
  /\ closing[k] = "done"
  /\ Reaches(k, "idle")
  /\ UNCHANGED <<backend, frames, sendMu, rclosed, deadline, cancelled>>
-----------------------------------------------------------------------------
\* Mutant: deadlines are ignored, as a stream has none.
MutSetDeadline(on) ==
  /\ deadline' = FALSE
  /\ UNCHANGED <<backend, frames, sendMu, rclosed, closing, cancelled>>

\* The timer is replaced, or stopped for good.
SetDeadline(on) ==
  /\ deadline' = on
  /\ UNCHANGED <<backend, frames, sendMu, rclosed, closing, cancelled>>

DeadlinePasses ==
  /\ deadline
  /\ deadline' = FALSE /\ cancelled' = TRUE
  /\ UNCHANGED <<backend, frames, sendMu, rclosed, closing>>

\* sessionTTL has passed, or Run is on its way out.
Expires ==
  /\ ~cancelled
  /\ cancelled' = TRUE
  /\ UNCHANGED <<backend, frames, sendMu, rclosed, closing, deadline>>

FallsSilent ==
  /\ backend = "up"
  /\ backend' = "silent"
  /\ UNCHANGED <<frames, sendMu, rclosed, closing, deadline, cancelled>>

RelayInit ==
  /\ backend = "up" /\ frames = <<>> /\ sendMu = "free" /\ rclosed = FALSE
  /\ closing = [k \in Closers |-> "idle"] /\ deadline = FALSE /\ cancelled = FALSE

RelayNext ==
  \/ Write \/ Sent \/ WriteFailed
  \/ \E k \in Closers : Close(k) \/ ClosedSent(k) \/ CloseReturns(k) \/ CloseAgain(k)
  \/ \E on \in BOOLEAN : SetDeadline(on)
  \/ DeadlinePasses \/ Expires \/ FallsSilent

RelaySpec == RelayInit /\ [][RelayNext]_relayVars
-----------------------------------------------------------------------------
(***************************************************************************)
(* "sendMu makes Closed the last frame" (relay.go:80): of all the writes   *)
(* and Closes in flight one sends Closed at most, and nothing follows it.  *)
(***************************************************************************)
ClosedIsLast == \A i \in DOMAIN frames : frames[i] = "closed" => i = Len(frames)
=============================================================================
