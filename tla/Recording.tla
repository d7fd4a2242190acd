------------------------------ MODULE Recording ------------------------------
(***************************************************************************)
(* Session recordings and their way to the core (internal/recording): the  *)
(* recorder that writes a file and tees it into a live upload, the         *)
(* uploader with its bounded queue, the loop that uploads what is left on  *)
(* disk again, and retention.                                              *)
(*                                                                         *)
(* A recording's content is a number of chunks (what one flush of the gzip *)
(* writer hands to the tee): 0 for an empty file, 1 once the header is     *)
(* out, one more for each flush and for the footer.  The uploader drops    *)
(* everything after a first failure, so what it sends is always a prefix   *)
(* and counting is enough.  Recordings are numbered in file name order,    *)
(* the order Glob lists them in.  The core is external: what it has of an  *)
(* unfinished recording does not matter.  Once it has seen Final it has    *)
(* what that stream sent, and refuses the recording with InvalidArgument,  *)
(* as it may refuse one that it will never take (pending.go:50).           *)
(***************************************************************************)
EXTENDS Integers, FiniteSets

CONSTANTS
  Recordings,   \* the recordings, numbered as their file names sort
  QueueCap,     \* maxBufferedChunks
  MaxChunks,    \* chunks at which each recording is full (maxSize)
  MaxCrashes    \* bound on crashes

ASSUME RecordingsAssumption == Recordings \subseteq Nat /\ IsFiniteSet(Recordings)
ASSUME BoundsAssumption ==
  QueueCap \in Nat \ {0} /\ MaxChunks \in [Recordings -> Nat \ {0}] /\ MaxCrashes \in Nat

VARIABLES
  rec,      \* the Recorder: none, created (New runs), open, failed (a write did), over
  file,     \* the file: none, present, removed (as uploaded), refused (as one that cannot be),
            \* dropped (retention)
  size,     \* chunks written to the file, and in it as long as it is there
  active,   \* recording.active
  queue,    \* chunks in Uploader.chunks
  sent,     \* chunks the live stream has sent, 0 once it is over
  uerr,     \* Uploader.err: none, full (the queue was full) or stream, which is forgotten when
            \* the upload is over
  sender,   \* sendLoop: idle, streaming, broken, final (Final is out), done
  closer,   \* the goroutine of closeLocked: none, draining, confirmed, done
  core,     \* external: the chunks of a recording the core has finished, 0 before it has
  retry,    \* UploadPending: the files still to visit, the one in hand
  crashes,
  early     \* history: files the retry took in hand while New was still running

recVars == <<rec, file, size, active>>
upVars  == <<queue, sent, uerr, sender, closer>>
vars == <<recVars, upVars, core, retry, crashes, early>>

\* A session has the Recorder in hand.
Writing == {"created", "open", "failed"}

NoRetry == [todo |-> {}, cur |-> -1, step |-> "idle"]

TypeOK ==
  /\ rec \in [Recordings -> {"none", "created", "open", "failed", "over"}]
  /\ file \in [Recordings -> {"none", "present", "removed", "refused", "dropped"}]
  /\ size \in [Recordings -> Nat] /\ sent \in [Recordings -> Nat] /\ core \in [Recordings -> Nat]
  /\ \A r \in Recordings : {size[r], sent[r], core[r]} \subseteq 0..(MaxChunks[r] + 1)
  /\ active \in SUBSET Recordings
  /\ queue \in [Recordings -> 0..QueueCap]
  /\ uerr \in [Recordings -> {"none", "full", "stream"}]
  /\ sender \in [Recordings -> {"idle", "streaming", "broken", "final", "done"}]
  /\ closer \in [Recordings -> {"none", "draining", "confirmed", "done"}]
  /\ retry \in [todo : SUBSET Recordings, cur : Recordings \cup {-1},
                step : {"idle", "upload", "remove", "refuse"}]
  /\ crashes \in 0..MaxCrashes
  /\ early \in SUBSET Recordings
-----------------------------------------------------------------------------
\* External: the core takes a Final. A finished recording takes nothing more.
Finalizes(r, n) == core' = [core EXCEPT ![r] = IF @ = 0 THEN n ELSE @]

\* The uploader is through: its error is in the log.
Forget(r) == uerr' = [uerr EXCEPT ![r] = IF @ = "stream" THEN "none" ELSE @]
-----------------------------------------------------------------------------
(* The recorder. *)

\* Mutant: retention does not ask whether a file is still written.
MutDroppable == {r \in Recordings : file[r] = "present"}

\* enforceRetention: expired files, and the oldest over the space limit, active ones
\* excepted. An empty file that was just created is neither.
Droppable ==
  {r \in Recordings : file[r] = "present" /\ r \notin active /\ rec[r] # "created"}

\* New up to the header: CreateTemp, then retention, which the ages and sizes decide.
Create(r) ==
  /\ rec[r] = "none"
  /\ rec' = [rec EXCEPT ![r] = "created"]
  /\ \E gone \in SUBSET Droppable :
       file' = [f \in Recordings |-> IF f = r THEN "present"
                                     ELSE IF f \in gone THEN "dropped" ELSE file[f]]
  /\ UNCHANGED <<size, active, upVars, core, retry, crashes, early>>

\* Mutant: the queue has no limit.
MutSinkWrite(r) ==
  IF uerr[r] # "none" THEN UNCHANGED <<queue, uerr>>
                      ELSE queue' = [queue EXCEPT ![r] = @ + 1] /\ UNCHANGED uerr

\* Uploader.Write: queue the chunk, or give the upload up when the queue is full.
SinkWrite(r) ==
  CASE uerr[r] # "none"     -> UNCHANGED <<queue, uerr>>
    [] queue[r] < QueueCap  -> queue' = [queue EXCEPT ![r] = @ + 1] /\ UNCHANGED uerr
    [] OTHER                -> uerr' = [uerr EXCEPT ![r] = "full"] /\ UNCHANGED queue

\* Retention or the header fails: New removes its file and the caller closes the sink,
\* which the header may have reached already.
CreateFails(r) ==
  /\ rec[r] = "created" /\ size[r] = 0
  /\ rec' = [rec EXCEPT ![r] = "over"]
  /\ file' = [file EXCEPT ![r] = "none"]
  /\ closer' = [closer EXCEPT ![r] = "draining"]
  /\ SinkWrite(r) \/ UNCHANGED <<queue, uerr>>
  /\ UNCHANGED <<size, active, sent, sender, core, retry, crashes, early>>

\* The header goes out through the tee...
WriteHeader(r) ==
  /\ rec[r] = "created" /\ size[r] = 0
  /\ size' = [size EXCEPT ![r] = 1]
  /\ SinkWrite(r)
  /\ UNCHANGED <<rec, file, active, sent, sender, closer, core, retry, crashes, early>>

\* ...and only then is the path active.
Activate(r) ==
  /\ rec[r] = "created" /\ size[r] = 1
  /\ rec' = [rec EXCEPT ![r] = "open"]
  /\ active' = active \cup {r}
  /\ UNCHANGED <<file, size, upVars, core, retry, crashes, early>>

Flush(r) ==
  /\ rec[r] = "open" /\ size[r] < MaxChunks[r]
  /\ size' = [size EXCEPT ![r] = @ + 1]
  /\ SinkWrite(r)
  /\ UNCHANGED <<rec, file, active, sent, sender, closer, core, retry, crashes, early>>

\* The tee writes to the sink first, and the file fails. That is logged, and the gzip writer
\* takes nothing more.
FlushFails(r) ==
  /\ rec[r] = "open" /\ size[r] < MaxChunks[r]
  /\ rec' = [rec EXCEPT ![r] = "failed"]
  /\ SinkWrite(r)
  /\ UNCHANGED <<file, size, active, sent, sender, closer, core, retry, crashes, early>>

\* closeLocked, at the session's end or at the size limit: the footer, which may fail as a
\* flush does and is not written after one that did, then finish in a goroutine of its own.
Close(r) ==
  /\ \/ rec[r] = "open" /\ SinkWrite(r) /\ size' = [size EXCEPT ![r] = @ + 1]
     \/ rec[r] = "open" /\ SinkWrite(r) /\ UNCHANGED size
     \/ rec[r] = "failed" /\ UNCHANGED <<queue, uerr, size>>
  /\ rec' = [rec EXCEPT ![r] = "over"]
  /\ closer' = [closer EXCEPT ![r] = "draining"]
  /\ UNCHANGED <<file, active, sent, sender, core, retry, crashes, early>>
-----------------------------------------------------------------------------
(* The live upload. *)

\* sendLoop: the first chunk opens the stream. It does not look at u.err.
Send(r) ==
  /\ queue[r] > 0 /\ sender[r] \in {"idle", "streaming"}
  /\ queue' = [queue EXCEPT ![r] = @ - 1]
  /\ sent' = [sent EXCEPT ![r] = @ + 1]
  /\ sender' = [sender EXCEPT ![r] = "streaming"]
  /\ UNCHANGED <<recVars, uerr, closer, core, retry, crashes, early>>

\* Opening or sending fails: later chunks are discarded.
SendFails(r) ==
  /\ queue[r] > 0 /\ sender[r] \in {"idle", "streaming"}
  /\ queue' = [queue EXCEPT ![r] = @ - 1]
  /\ sender' = [sender EXCEPT ![r] = "broken"]
  /\ sent' = [sent EXCEPT ![r] = 0]
  /\ uerr' = [uerr EXCEPT ![r] = IF @ = "none" THEN "stream" ELSE @]
  /\ UNCHANGED <<recVars, closer, core, retry, crashes, early>>

Discard(r) ==
  /\ queue[r] > 0 /\ sender[r] = "broken"
  /\ queue' = [queue EXCEPT ![r] = @ - 1]
  /\ UNCHANGED <<recVars, sent, uerr, sender, closer, core, retry, crashes, early>>

\* The queue is closed and drained: an open stream gets Final.
SendFinal(r) ==
  /\ closer[r] = "draining" /\ queue[r] = 0 /\ sender[r] # "final" /\ sender[r] # "done"
  /\ sender' = [sender EXCEPT ![r] = IF @ = "streaming" THEN "final" ELSE "done"]
  /\ UNCHANGED <<recVars, queue, sent, uerr, closer, core, retry, crashes, early>>

\* CloseAndReceive: the core takes it, and its answer arrives or is lost; or it refuses.
FinalAnswered(r) ==
  /\ sender[r] = "final"
  /\ \/ core[r] = 0 /\ Finalizes(r, sent[r]) /\ UNCHANGED uerr
     \/ /\ Finalizes(r, sent[r])
        /\ uerr' = [uerr EXCEPT ![r] = IF @ = "none" THEN "stream" ELSE @]
     \/ /\ uerr' = [uerr EXCEPT ![r] = IF @ = "none" THEN "stream" ELSE @]
        /\ UNCHANGED core
  /\ sender' = [sender EXCEPT ![r] = "done"]
  /\ sent' = [sent EXCEPT ![r] = 0]
  /\ UNCHANGED <<recVars, queue, closer, retry, crashes, early>>

\* Mutant: the file goes whatever finish returned.
MutFinishRemoves(r) ==
  /\ closer[r] = "draining" /\ sender[r] = "done"
  /\ closer' = [closer EXCEPT ![r] = "confirmed"]
  /\ file' = [file EXCEPT ![r] = IF @ = "present" THEN "removed" ELSE @]
  /\ Forget(r)
  /\ UNCHANGED <<rec, size, active, queue, sent, sender, core, retry, crashes, early>>

\* Mutant: after an error the path stays active.
MutFinishStaysActive(r) ==
  /\ closer[r] = "draining" /\ sender[r] = "done"
  /\ IF uerr[r] = "none"
       THEN /\ closer' = [closer EXCEPT ![r] = "confirmed"]
            /\ file' = [file EXCEPT ![r] = IF @ = "present" THEN "removed" ELSE @]
       ELSE closer' = [closer EXCEPT ![r] = "done"] /\ UNCHANGED file
  /\ Forget(r)
  /\ UNCHANGED <<rec, size, active, queue, sent, sender, core, retry, crashes, early>>

\* finish returns: nil removes the file, an error leaves it for the retry.
Finish(r) ==
  /\ closer[r] = "draining" /\ sender[r] = "done"
  /\ IF uerr[r] = "none"
       THEN /\ closer' = [closer EXCEPT ![r] = "confirmed"]
            /\ file' = [file EXCEPT ![r] = IF @ = "present" THEN "removed" ELSE @]
            /\ UNCHANGED active
       ELSE /\ closer' = [closer EXCEPT ![r] = "done"]
            /\ active' = active \ {r}
            /\ UNCHANGED file
  /\ Forget(r)
  /\ UNCHANGED <<rec, size, queue, sent, sender, core, retry, crashes, early>>

Deactivate(r) ==
  /\ closer[r] = "confirmed"
  /\ closer' = [closer EXCEPT ![r] = "done"]
  /\ active' = active \ {r}
  /\ UNCHANGED <<rec, file, size, queue, sent, uerr, sender, core, retry, crashes, early>>

\* uploadCloseTimeout: the stream is cancelled. A Final that is out may still have landed.
FinishTimesOut(r) ==
  /\ closer[r] = "draining" /\ sender[r] # "done"
  /\ closer' = [closer EXCEPT ![r] = "done"]
  /\ sender' = [sender EXCEPT ![r] = "done"]
  /\ queue' = [queue EXCEPT ![r] = 0]
  /\ sent' = [sent EXCEPT ![r] = 0]
  /\ Forget(r)
  /\ active' = active \ {r}
  /\ \/ sender[r] = "final" /\ Finalizes(r, sent[r])
     \/ UNCHANGED core
  /\ UNCHANGED <<rec, file, size, retry, crashes, early>>
-----------------------------------------------------------------------------
(* UploadPending, run again and again by Client.retryUploads. *)

Glob ==
  /\ retry.step = "idle" /\ retry.todo = {}
  /\ \E r \in Recordings : file[r] = "present"
  /\ retry' = [retry EXCEPT !.todo = {r \in Recordings : file[r] = "present"}]
  /\ UNCHANGED <<recVars, upVars, core, crashes, early>>

\* active.Load on the next path.
Pick(r) ==
  /\ retry.step = "idle" /\ r \in retry.todo /\ \A s \in retry.todo : r <= s
  /\ IF r \in active
       THEN retry' = [retry EXCEPT !.todo = @ \ {r}] /\ UNCHANGED early
       ELSE /\ retry' = [todo |-> retry.todo \ {r}, cur |-> r, step |-> "upload"]
            /\ early' = IF rec[r] = "created" THEN early \cup {r} ELSE early
  /\ UNCHANGED <<recVars, upVars, core, crashes>>

\* uploadFile to the end: the core takes all the file holds, or answers that the
\* recording is final already.
Uploaded(r) ==
  /\ retry.cur = r /\ retry.step = "upload"
  /\ file[r] = "present" /\ size[r] > 0
  /\ Finalizes(r, size[r])
  /\ retry' = [retry EXCEPT !.step = "remove"]
  /\ UNCHANGED <<recVars, upVars, crashes, early>>

\* readHeader fails: there is no file or no header, or the file could not be opened or read
\* this time. Each is an InvalidArgument of the host's own.
Unreadable(r) ==
  /\ retry.cur = r /\ retry.step = "upload"
  /\ retry' = [retry EXCEPT !.step = "refuse"]
  /\ UNCHANGED <<recVars, upVars, core, crashes, early>>

\* The core has not finished the recording, and answers InvalidArgument all the same.
Refused(r) ==
  /\ retry.cur = r /\ retry.step = "upload"
  /\ file[r] = "present" /\ size[r] > 0 /\ core[r] = 0
  /\ retry' = [retry EXCEPT !.step = "refuse"]
  /\ UNCHANGED <<recVars, upVars, core, crashes, early>>

\* Mutant: every failure is taken for "already finalized".
MutUploadFails(r) ==
  /\ retry.cur = r /\ retry.step = "upload"
  /\ file[r] = "present" /\ size[r] > 0
  /\ Finalizes(r, size[r]) \/ UNCHANGED core
  /\ retry' = [retry EXCEPT !.step = "remove"]
  /\ UNCHANGED <<recVars, upVars, crashes, early>>

\* Any other failure ends this round. The core may have got part, or all of it without
\* its answer reaching the host.
UploadFails(r) ==
  /\ retry.cur = r /\ retry.step = "upload"
  /\ file[r] = "present" /\ size[r] > 0
  /\ Finalizes(r, size[r]) \/ UNCHANGED core
  /\ retry' = NoRetry
  /\ UNCHANGED <<recVars, upVars, crashes, early>>

\* removeUploaded. An InvalidArgument is no failure to UploadPending: the file goes as well.
Remove(r) ==
  /\ retry.cur = r /\ retry.step \in {"remove", "refuse"}
  /\ file' = [file EXCEPT ![r] =
                IF @ # "present" THEN @ ELSE IF retry.step = "remove" THEN "removed" ELSE "refused"]
  /\ retry' = [retry EXCEPT !.cur = -1, !.step = "idle"]
  /\ UNCHANGED <<rec, size, active, upVars, core, crashes, early>>
-----------------------------------------------------------------------------
\* The daemon dies and starts again: sessions, uploads and the active map are gone.
Crash ==
  /\ crashes < MaxCrashes
  /\ crashes' = crashes + 1
  /\ rec' = [r \in Recordings |-> IF rec[r] \in Writing THEN "over" ELSE rec[r]]
  /\ active' = {}
  /\ queue' = [r \in Recordings |-> 0] /\ sent' = [r \in Recordings |-> 0]
  /\ sender' = [r \in Recordings |-> IF rec[r] = "none" THEN "idle" ELSE "done"]
  /\ closer' = [r \in Recordings |-> IF closer[r] = "none" THEN "none" ELSE "done"]
  /\ retry' = NoRetry
  /\ uerr' = [r \in Recordings |-> IF uerr[r] = "full" THEN "full" ELSE "none"]
  /\ UNCHANGED <<file, size, core, early>>

Init ==
  /\ rec = [r \in Recordings |-> "none"] /\ file = [r \in Recordings |-> "none"]
  /\ size = [r \in Recordings |-> 0] /\ active = {}
  /\ queue = [r \in Recordings |-> 0] /\ sent = [r \in Recordings |-> 0]
  /\ uerr = [r \in Recordings |-> "none"] /\ sender = [r \in Recordings |-> "idle"]
  /\ closer = [r \in Recordings |-> "none"] /\ core = [r \in Recordings |-> 0]
  /\ retry = NoRetry /\ crashes = 0 /\ early = {}

RecorderNext(r) ==
  \/ Create(r) \/ CreateFails(r) \/ WriteHeader(r) \/ Activate(r)
  \/ Flush(r) \/ FlushFails(r) \/ Close(r)

UploaderNext(r) ==
  \/ Send(r) \/ SendFails(r) \/ Discard(r) \/ SendFinal(r) \/ FinalAnswered(r)
  \/ Finish(r) \/ Deactivate(r) \/ FinishTimesOut(r)

RetryNext(r) ==
  Pick(r) \/ Uploaded(r) \/ Unreadable(r) \/ Refused(r) \/ UploadFails(r) \/ Remove(r)

Next ==
  \/ Glob \/ Crash
  \/ \E r \in Recordings : RecorderNext(r) \/ UploaderNext(r) \/ RetryNext(r)

Spec == Init /\ [][Next]_vars
-----------------------------------------------------------------------------
\* All that the file holds is at the core. A chunk whose write to the file failed may be
\* there as well.
AllAtCore(r) == core[r] > 0 /\ core[r] >= size[r]

(***************************************************************************)
(* "Once the core confirms a recording, the local file is deleted"         *)
(* (SECURITY.md:121), and no sooner: a file that was removed as uploaded   *)
(* is at the core to its last chunk, over failed writes, upload errors,    *)
(* lost answers, timeouts, retries and crashes in any order.  Left out are *)
(* the two cases the violation runs are about: the live upload overran its *)
(* queue, or the retry took the file in hand before New made it active.    *)
(* A file the retry gave up on InvalidArgument, the core's or its own, is  *)
(* refused and not removed: nothing is promised of its content.            *)
(***************************************************************************)
NothingLost ==
  \A r \in Recordings \ early :
    file[r] = "removed" /\ size[r] > 0 /\ uerr[r] # "full" => AllAtCore(r)

(***************************************************************************)
(* Even after an overrun, a file only goes once the core has finished that *)
(* recording, or with a warning: retention has dropped it, or the retry    *)
(* has given it up on InvalidArgument.                                     *)
(***************************************************************************)
RemovedOnlyWhenFinal ==
  \A r \in Recordings \ early :
    file[r] = "removed" /\ size[r] > 0 => core[r] > 0

(***************************************************************************)
(* Neither retention nor the retry takes the file of a recorder that is    *)
(* still writing (pending.go:28, retention.go:39), unless the retry had it *)
(* in hand before it was active.                                           *)
(***************************************************************************)
WritersKeepTheirFile ==
  \A r \in Recordings \ early : rec[r] \in Writing => file[r] = "present"

(***************************************************************************)
(* Where a recording is.  Damaged is one of the two cases the violation    *)
(* runs are about; lost is what must not be.                               *)
(***************************************************************************)
Place(r) ==
  IF r \in early \/ uerr[r] = "full" THEN "damaged"
  ELSE CASE rec[r] = "none" -> "none"
         [] rec[r] \in Writing ->
              IF file[r] # "present" THEN "lost" ELSE IF size[r] = 0 THEN "opening" ELSE "writing"
         [] rec[r] = "over" ->
              IF size[r] = 0 THEN "void"
              ELSE CASE file[r] = "present" -> IF AllAtCore(r) THEN "both" ELSE "host"
                     [] file[r] = "dropped" -> "dropped"
                     [] file[r] = "refused" -> IF AllAtCore(r) THEN "core" ELSE "refused"
                     [] file[r] \in {"removed", "none"} -> IF AllAtCore(r) THEN "core" ELSE "lost"

C == INSTANCE Custody WITH place <- [r \in Recordings |-> Place(r)]

(***************************************************************************)
(* Live upload, timeout, retry, retention and crashes together do not lose *)
(* a recording without a warning: each goes from the writer to the host's  *)
(* keeping, to the core, and only then off the host, and never back ("Any  *)
(* that the core did not fully receive (offline, upload error, crash) are  *)
(* uploaded again", SECURITY.md:121), unless retention drops it or the     *)
(* retry gives it up on InvalidArgument.                                   *)
(***************************************************************************)
ImplementsCustody == C!CustodySpec

(***************************************************************************)
(* "Any that the core did not fully receive (offline, upload error, crash) *)
(* are uploaded again" (SECURITY.md:121): the file of a recording that is  *)
(* over does not stay, whatever older files fail in front of it.           *)
(***************************************************************************)
PendingGoesOut ==
  \A r \in Recordings :
    rec[r] = "over" /\ file[r] = "present" ~> file[r] # "present"

(***************************************************************************)
(* "Dropping middle chunks would corrupt the rest of the gzip stream, so   *)
(* the whole upload is abandoned" (uploader.go:73): after its queue was    *)
(* full, the live upload does not tell the core that the recording is      *)
(* complete.                                                               *)
(***************************************************************************)
QueueFullAbandons ==
  \A r \in Recordings : uerr[r] = "full" => sender[r] # "final"

(***************************************************************************)
(* "active holds the paths of recordings still being written or live       *)
(* uploaded" (pending.go:28): so the retry never takes one of them.        *)
(***************************************************************************)
RetryLeavesWriters == early = {}
=============================================================================
