--------------------------- MODULE RecordingProofs ---------------------------
(***************************************************************************)
(* No recording is lost on its way to the core, for any number of          *)
(* recordings, any queue and size limit, and any number of crashes.        *)
(***************************************************************************)
EXTENDS Recording, TLAPS

Types ==
  /\ rec \in [Recordings -> {"none", "created", "open", "failed", "over"}]
  /\ file \in [Recordings -> {"none", "present", "removed", "refused", "dropped"}]
  /\ size \in [Recordings -> Nat] /\ queue \in [Recordings -> Nat] /\ sent \in [Recordings -> Nat]
  /\ uerr \in [Recordings -> {"none", "full", "stream"}]
  /\ sender \in [Recordings -> {"idle", "streaming", "broken", "final", "done"}]
  /\ closer \in [Recordings -> {"none", "draining", "confirmed", "done"}]
  /\ core \in [Recordings -> Nat]
  /\ retry \in [todo : SUBSET Recordings, cur : Recordings \cup {-1},
                step : {"idle", "upload", "remove", "refuse"}]
  /\ early \in SUBSET Recordings

Over(r) == rec[r] = "over"
Final(r) == core[r] > 0

\* Nothing has happened to a recording before it is created, and nothing is queued or
\* sent of it before its header, which is there once it is open.
Untouched(r) ==
  /\ rec[r] = "none" => file[r] = "none" /\ size[r] = 0 /\ closer[r] = "none"
  /\ rec[r] \in {"open", "failed"} => size[r] > 0
  /\ rec[r] \in {"none", "created"} /\ size[r] = 0
       => queue[r] = 0 /\ sent[r] = 0 /\ sender[r] = "idle" /\ uerr[r] = "none"

\* The upload ends after the recording does. What a stream without an error has sent or
\* queued is all there is, and a stream that ended without one has left it at the core.
Upload(r) ==
  /\ closer[r] # "none" \/ sender[r] \in {"final", "done"} => Over(r)
  /\ closer[r] \in {"confirmed", "done"} => sender[r] = "done"
  /\ sender[r] = "idle" => sent[r] = 0
  /\ sender[r] = "final" => queue[r] = 0
  /\ uerr[r] = "stream" => sender[r] \in {"broken", "done"}
  /\ sender[r] = "broken" => uerr[r] # "none"
  /\ size[r] > 0 /\ uerr[r] = "none" /\ sender[r] \in {"idle", "streaming", "final"}
       => sent[r] + queue[r] >= size[r]
  /\ size[r] > 0 /\ uerr[r] = "none" /\ sender[r] = "done" /\ closer[r] = "draining" => Final(r)

\* The retry has its hands on recordings that are over with their live upload, unless it was
\* early; it is about to remove as uploaded what is at the core. What it gave up on no stream
\* will finish any more.
Retry(r) ==
  /\ retry.cur = r => Over(r) /\ (size[r] > 0 => sender[r] = "done")
  /\ retry.cur = r /\ retry.step = "remove" => Final(r)
  /\ file[r] = "refused" /\ size[r] > 0 => sender[r] = "done"

\* What is final at the core is over here, and complete unless the queue was overrun.
AtCore(r) ==
  /\ Final(r) => Over(r)
  /\ Final(r) /\ size[r] > 0 /\ uerr[r] # "full" => core[r] >= size[r]
  /\ file[r] = "removed" /\ size[r] > 0 => Final(r)

\* A path is active until the recording and its live upload are over.
Kept(r) ==
  /\ rec[r] \in {"open", "failed"} => r \in active
  /\ Over(r) /\ size[r] > 0 /\ sender[r] # "done" => r \in active
  /\ rec[r] \in Writing => file[r] = "present"

Sound(r) ==
  Untouched(r) /\ Upload(r) /\ (r \notin early => Retry(r) /\ AtCore(r) /\ Kept(r))

RecordingInv ==
  /\ Types
  /\ \A r \in retry.todo : rec[r] # "none"
  /\ \A r \in Recordings : Sound(r)

USE DEF recVars, upVars, Writing, Forget

\* A recording that a step leaves alone, but for leaving the retry's hands.
Same(r) ==
  /\ rec'[r] = rec[r] /\ file'[r] = file[r] /\ size'[r] = size[r] /\ queue'[r] = queue[r]
  /\ sent'[r] = sent[r] /\ uerr'[r] = uerr[r] /\ sender'[r] = sender[r]
  /\ closer'[r] = closer[r] /\ core'[r] = core[r]
  /\ r \in active => r \in active'
  /\ r \in early => r \in early'
  /\ retry'.cur = r => retry.cur = r /\ retry'.step = retry.step

\* It keeps what is said of it.
LEMMA SameKeeps ==
  ASSUME NEW r \in Recordings, Sound(r), Same(r)
  PROVE  Sound(r)'
BY DEF Same,
         Sound, Untouched, Upload, Retry, AtCore, Kept, Over, Final

\* The counts are numbers.
LEMMA TypesOf ==
  ASSUME Types, NEW q \in Recordings
  PROVE  size[q] \in Nat /\ queue[q] \in Nat /\ sent[q] \in Nat /\ core[q] \in Nat
BY DEF Types

\* A recording is created, and retention drops others.
LEMMA CreateKeeps ==
  ASSUME RecordingInv, NEW q \in Recordings, Create(q)
  PROVE  RecordingInv'
<1>1. PICK gone \in SUBSET Droppable :
        file' = [f \in Recordings |-> IF f = q THEN "present"
                                      ELSE IF f \in gone THEN "dropped" ELSE file[f]]
  BY DEF Create
<1>2. Types'
  BY <1>1 DEF Create, RecordingInv, Types
<1>3. \A r \in retry'.todo : rec'[r] # "none"
  BY DEF Create, RecordingInv, Types
<1>4. Sound(q)'
  BY <1>1 DEF Create, RecordingInv, Types,
         Sound, Untouched, Upload, Retry, AtCore, Kept, Over, Final
<1>5. ASSUME NEW r \in Recordings, r # q
      PROVE  Sound(r)'
  <2>1. CASE r \notin gone
    <3>1. Same(r)
      BY <1>1, <1>5, <2>1 DEF Create, Same, RecordingInv, Types
    <3> QED
      BY <1>5, <3>1, SameKeeps DEF RecordingInv
  <2>2. CASE r \in gone
    <3>1. file[r] = "present" /\ r \notin active /\ rec[r] # "created"
      BY <2>2 DEF Droppable
    <3> QED
      BY <1>1, <1>5, <2>2, <3>1
         DEF Create, RecordingInv, Types,
         Sound, Untouched, Upload, Retry, AtCore, Kept, Over, Final
  <2> QED
    BY <2>1, <2>2
<1> QED
  BY <1>2, <1>3, <1>4, <1>5 DEF RecordingInv

\* New fails and its sink is closed.
LEMMA CreateFailsKeeps ==
  ASSUME RecordingInv, NEW q \in Recordings, CreateFails(q)
  PROVE  RecordingInv'
<1>1. Types'
  BY DEF CreateFails, SinkWrite, RecordingInv, Types
<1>2. \A r \in retry'.todo : rec'[r] # "none"
  BY DEF CreateFails, SinkWrite, RecordingInv, Types
<1>3. Sound(q)'
  BY DEF CreateFails, SinkWrite, RecordingInv, Types,
         Sound, Untouched, Upload, Retry, AtCore, Kept, Over, Final
<1>4. ASSUME NEW r \in Recordings, r # q
      PROVE  Sound(r)'
  <2>1. Same(r)
    BY <1>4 DEF CreateFails, SinkWrite, Same, RecordingInv, Types
  <2> QED
    BY <2>1, SameKeeps DEF RecordingInv
<1> QED
  BY <1>1, <1>2, <1>3, <1>4 DEF RecordingInv

\* The header is the first chunk.
LEMMA WriteHeaderKeeps ==
  ASSUME RecordingInv, NEW q \in Recordings, WriteHeader(q)
  PROVE  RecordingInv'
<1>1. Types'
  BY DEF WriteHeader, SinkWrite, RecordingInv, Types
<1>2. \A r \in retry'.todo : rec'[r] # "none"
  BY DEF WriteHeader, SinkWrite, RecordingInv, Types
<1>3. Sound(q)'
  BY DEF WriteHeader, SinkWrite, RecordingInv, Types,
         Sound, Untouched, Upload, Retry, AtCore, Kept, Over, Final
<1>4. ASSUME NEW r \in Recordings, r # q
      PROVE  Sound(r)'
  <2>1. Same(r)
    BY <1>4 DEF WriteHeader, SinkWrite, Same, RecordingInv, Types
  <2> QED
    BY <2>1, SameKeeps DEF RecordingInv
<1> QED
  BY <1>1, <1>2, <1>3, <1>4 DEF RecordingInv

\* New returns.
LEMMA ActivateKeeps ==
  ASSUME RecordingInv, NEW q \in Recordings, Activate(q)
  PROVE  RecordingInv'
<1>1. Types'
  BY DEF Activate, RecordingInv, Types
<1>2. \A r \in retry'.todo : rec'[r] # "none"
  BY DEF Activate, RecordingInv, Types
<1>3. Sound(q)'
  BY DEF Activate, RecordingInv, Types,
         Sound, Untouched, Upload, Retry, AtCore, Kept, Over, Final
<1>4. ASSUME NEW r \in Recordings, r # q
      PROVE  Sound(r)'
  <2>1. Same(r)
    BY <1>4 DEF Activate, Same, RecordingInv, Types
  <2> QED
    BY <2>1, SameKeeps DEF RecordingInv
<1> QED
  BY <1>1, <1>2, <1>3, <1>4 DEF RecordingInv

\* A chunk is written and queued, or the upload is given up.
LEMMA FlushKeeps ==
  ASSUME RecordingInv, NEW q \in Recordings, Flush(q)
  PROVE  RecordingInv'
<1>1. Types'
  BY DEF Flush, SinkWrite, RecordingInv, Types
<1>2. \A r \in retry'.todo : rec'[r] # "none"
  BY DEF Flush, SinkWrite, RecordingInv, Types
<1>3. Sound(q)'
  <2>1. rec[q] = "open" /\ size[q] \in Nat /\ queue[q] \in Nat /\ sent[q] \in Nat /\ Sound(q)
    BY DEF Flush, RecordingInv, Types
  <2>2. closer[q] = "none" /\ sender[q] \notin {"final", "done"} /\ (q \notin early => ~Final(q))
    BY <2>1 DEF Sound, Upload, AtCore, Over
  <2>3. /\ size'[q] = size[q] + 1 /\ file'[q] = file[q] /\ core'[q] = core[q]
        /\ UNCHANGED <<sent, sender, retry, early, active>>
    BY DEF Flush, RecordingInv, Types
  <2>4. CASE uerr[q] # "none"
    BY <2>1, <2>2, <2>3, <2>4 DEF Flush, SinkWrite, RecordingInv, Types,
         Sound, Untouched, Upload, Retry, AtCore, Kept, Over, Final
  <2>5. CASE uerr[q] = "none" /\ queue[q] < QueueCap
    BY <2>1, <2>2, <2>3, <2>5 DEF Flush, SinkWrite, RecordingInv, Types,
         Sound, Untouched, Upload, Retry, AtCore, Kept, Over, Final
  <2>6. CASE uerr[q] = "none" /\ ~(queue[q] < QueueCap)
    BY <2>1, <2>2, <2>3, <2>6 DEF Flush, SinkWrite, RecordingInv, Types,
         Sound, Untouched, Upload, Retry, AtCore, Kept, Over, Final
  <2> QED
    BY <2>4, <2>5, <2>6
<1>4. ASSUME NEW r \in Recordings, r # q
      PROVE  Sound(r)'
  <2>1. Same(r)
    BY <1>4 DEF Flush, SinkWrite, Same, RecordingInv, Types
  <2> QED
    BY <2>1, SameKeeps DEF RecordingInv
<1> QED
  BY <1>1, <1>2, <1>3, <1>4 DEF RecordingInv

\* A chunk is queued that the file does not have.
LEMMA FlushFailsKeeps ==
  ASSUME RecordingInv, NEW q \in Recordings, FlushFails(q)
  PROVE  RecordingInv'
<1>1. Types'
  BY DEF FlushFails, SinkWrite, RecordingInv, Types
<1>2. \A r \in retry'.todo : rec'[r] # "none"
  BY DEF FlushFails, RecordingInv, Types
<1>3. Sound(q)'
  <2>1. rec[q] = "open" /\ size[q] \in Nat /\ queue[q] \in Nat /\ sent[q] \in Nat /\ Sound(q)
    BY DEF FlushFails, RecordingInv, Types
  <2>2. /\ rec'[q] = "failed"
        /\ UNCHANGED <<file, size, core, closer, sent, sender, retry, early, active>>
    BY DEF FlushFails, RecordingInv, Types
  <2>3. /\ queue'[q] \in Nat /\ queue'[q] >= queue[q]
        /\ uerr'[q] = uerr[q] \/ (uerr[q] = "none" /\ uerr'[q] = "full")
    BY DEF FlushFails, SinkWrite, RecordingInv, Types
  <2> QED
    BY <2>1, <2>2, <2>3 DEF Sound, Untouched, Upload, Retry, AtCore, Kept, Over, Final
<1>4. ASSUME NEW r \in Recordings, r # q
      PROVE  Sound(r)'
  <2>1. Same(r)
    BY <1>4 DEF FlushFails, SinkWrite, Same, RecordingInv, Types
  <2> QED
    BY <2>1, SameKeeps DEF RecordingInv
<1> QED
  BY <1>1, <1>2, <1>3, <1>4 DEF RecordingInv

\* The footer is the last chunk.
LEMMA CloseKeeps ==
  ASSUME RecordingInv, NEW q \in Recordings, Close(q)
  PROVE  RecordingInv'
<1>1. Types'
  BY DEF Close, SinkWrite, RecordingInv, Types
<1>2. \A r \in retry'.todo : rec'[r] # "none"
  BY DEF Close, RecordingInv, Types
<1>3. Sound(q)'
  <2>1. /\ rec[q] \in {"open", "failed"} /\ Sound(q)
        /\ size[q] \in Nat /\ queue[q] \in Nat /\ sent[q] \in Nat
    BY DEF Close, RecordingInv, Types
  <2>2. closer[q] = "none" /\ sender[q] \notin {"final", "done"} /\ (q \notin early => ~Final(q))
    BY <2>1 DEF Sound, Upload, AtCore, Over
  <2>3. /\ rec'[q] = "over" /\ closer'[q] = "draining"
        /\ UNCHANGED <<file, core, sent, sender, retry, early, active>>
    BY DEF Close, RecordingInv, Types
  <2>4. /\ size'[q] \in Nat /\ size'[q] >= size[q]
        /\ queue'[q] \in Nat
        /\ uerr'[q] = uerr[q] \/ (uerr[q] = "none" /\ uerr'[q] = "full")
        /\ uerr'[q] = "none" => size'[q] - size[q] <= queue'[q] - queue[q]
    <3>1. CASE UNCHANGED <<queue, uerr, size>>
      BY <2>1, <3>1
    <3>2. CASE SinkWrite(q) /\ (size'[q] = size[q] \/ size'[q] = size[q] + 1)
      BY <2>1, <3>2 DEF SinkWrite, RecordingInv, Types
    <3> QED
      BY <3>1, <3>2 DEF Close, RecordingInv, Types
  <2> QED
    BY <2>1, <2>2, <2>3, <2>4 DEF Sound, Untouched, Upload, Retry, AtCore, Kept, Over, Final
<1>4. ASSUME NEW r \in Recordings, r # q
      PROVE  Sound(r)'
  <2>1. Same(r)
    BY <1>4 DEF Close, SinkWrite, Same, RecordingInv, Types
  <2> QED
    BY <2>1, SameKeeps DEF RecordingInv
<1> QED
  BY <1>1, <1>2, <1>3, <1>4 DEF RecordingInv

\* A chunk goes from the queue to the core.
LEMMA SendKeeps ==
  ASSUME RecordingInv, NEW q \in Recordings, Send(q)
  PROVE  RecordingInv'
<1>1. Types'
  BY DEF Send, RecordingInv, Types
<1>2. \A r \in retry'.todo : rec'[r] # "none"
  BY DEF Send, RecordingInv, Types
<1>3. Sound(q)'
  <2>2. /\ queue'[q] = queue[q] - 1 /\ sent'[q] = sent[q] + 1 /\ queue[q] > 0
        /\ sender[q] \in {"idle", "streaming"} /\ sender'[q] = "streaming"
        /\ UNCHANGED <<rec, file, size, active, uerr, closer, core, retry, early>>
    BY DEF Send, RecordingInv, Types
  <2>3. Sound(q) /\ size[q] \in Nat /\ queue[q] \in Nat /\ sent[q] \in Nat
    BY TypesOf DEF RecordingInv
  <2> QED
    BY <2>2, <2>3 DEF Sound, Untouched, Upload, Retry, AtCore, Kept, Over, Final
<1>4. ASSUME NEW r \in Recordings, r # q
      PROVE  Sound(r)'
  <2>1. Same(r)
    BY <1>4 DEF Send, Same, RecordingInv, Types
  <2> QED
    BY <2>1, SameKeeps DEF RecordingInv
<1> QED
  BY <1>1, <1>2, <1>3, <1>4 DEF RecordingInv

\* The stream breaks.
LEMMA SendFailsKeeps ==
  ASSUME RecordingInv, NEW q \in Recordings, SendFails(q)
  PROVE  RecordingInv'
<1>1. Types'
  BY DEF SendFails, RecordingInv, Types
<1>2. \A r \in retry'.todo : rec'[r] # "none"
  BY DEF SendFails, RecordingInv, Types
<1>3. Sound(q)'
  BY DEF SendFails, RecordingInv, Types,
         Sound, Untouched, Upload, Retry, AtCore, Kept, Over, Final
<1>4. ASSUME NEW r \in Recordings, r # q
      PROVE  Sound(r)'
  <2>1. Same(r)
    BY <1>4 DEF SendFails, Same, RecordingInv, Types
  <2> QED
    BY <2>1, SameKeeps DEF RecordingInv
<1> QED
  BY <1>1, <1>2, <1>3, <1>4 DEF RecordingInv

\* A chunk of a broken stream is thrown away.
LEMMA DiscardKeeps ==
  ASSUME RecordingInv, NEW q \in Recordings, Discard(q)
  PROVE  RecordingInv'
<1>1. Types'
  BY DEF Discard, RecordingInv, Types
<1>2. \A r \in retry'.todo : rec'[r] # "none"
  BY DEF Discard, RecordingInv, Types
<1>3. Sound(q)'
  BY DEF Discard, RecordingInv, Types,
         Sound, Untouched, Upload, Retry, AtCore, Kept, Over, Final
<1>4. ASSUME NEW r \in Recordings, r # q
      PROVE  Sound(r)'
  <2>1. Same(r)
    BY <1>4 DEF Discard, Same, RecordingInv, Types
  <2> QED
    BY <2>1, SameKeeps DEF RecordingInv
<1> QED
  BY <1>1, <1>2, <1>3, <1>4 DEF RecordingInv

\* Final is sent once the queue is drained: all of it is at the core.
LEMMA SendFinalKeeps ==
  ASSUME RecordingInv, NEW q \in Recordings, SendFinal(q)
  PROVE  RecordingInv'
<1>1. Types'
  BY DEF SendFinal, RecordingInv, Types
<1>2. \A r \in retry'.todo : rec'[r] # "none"
  BY DEF SendFinal, RecordingInv, Types
<1>3. Sound(q)'
  BY DEF SendFinal, RecordingInv, Types,
         Sound, Untouched, Upload, Retry, AtCore, Kept, Over, Final
<1>4. ASSUME NEW r \in Recordings, r # q
      PROVE  Sound(r)'
  <2>1. Same(r)
    BY <1>4 DEF SendFinal, Same, RecordingInv, Types
  <2> QED
    BY <2>1, SameKeeps DEF RecordingInv
<1> QED
  BY <1>1, <1>2, <1>3, <1>4 DEF RecordingInv

\* The core finishes the recording, or refuses to.
LEMMA FinalAnsweredKeeps ==
  ASSUME RecordingInv, NEW q \in Recordings, FinalAnswered(q)
  PROVE  RecordingInv'
<1>1. Types'
  BY DEF FinalAnswered, Finalizes, RecordingInv, Types
<1>2. \A r \in retry'.todo : rec'[r] # "none"
  BY DEF FinalAnswered, Finalizes, RecordingInv, Types
<1>3. Sound(q)'
  BY DEF FinalAnswered, Finalizes, RecordingInv, Types,
         Sound, Untouched, Upload, Retry, AtCore, Kept, Over, Final
<1>4. ASSUME NEW r \in Recordings, r # q
      PROVE  Sound(r)'
  <2>1. Same(r)
    BY <1>4 DEF FinalAnswered, Finalizes, Same, RecordingInv, Types
  <2> QED
    BY <2>1, SameKeeps DEF RecordingInv
<1> QED
  BY <1>1, <1>2, <1>3, <1>4 DEF RecordingInv

\* The file is removed after an upload without an error.
LEMMA FinishKeeps ==
  ASSUME RecordingInv, NEW q \in Recordings, Finish(q)
  PROVE  RecordingInv'
<1>1. Types'
  BY DEF Finish, RecordingInv, Types
<1>2. \A r \in retry'.todo : rec'[r] # "none"
  BY DEF Finish, RecordingInv, Types
<1>3. Sound(q)'
  BY DEF Finish, RecordingInv, Types,
         Sound, Untouched, Upload, Retry, AtCore, Kept, Over, Final
<1>4. ASSUME NEW r \in Recordings, r # q
      PROVE  Sound(r)'
  <2>1. Same(r)
    BY <1>4 DEF Finish, Same, RecordingInv, Types
  <2> QED
    BY <2>1, SameKeeps DEF RecordingInv
<1> QED
  BY <1>1, <1>2, <1>3, <1>4 DEF RecordingInv

\* The path is no longer active.
LEMMA DeactivateKeeps ==
  ASSUME RecordingInv, NEW q \in Recordings, Deactivate(q)
  PROVE  RecordingInv'
<1>1. Types'
  BY DEF Deactivate, RecordingInv, Types
<1>2. \A r \in retry'.todo : rec'[r] # "none"
  BY DEF Deactivate, RecordingInv, Types
<1>3. Sound(q)'
  BY DEF Deactivate, RecordingInv, Types,
         Sound, Untouched, Upload, Retry, AtCore, Kept, Over, Final
<1>4. ASSUME NEW r \in Recordings, r # q
      PROVE  Sound(r)'
  <2>1. Same(r)
    BY <1>4 DEF Deactivate, Same, RecordingInv, Types
  <2> QED
    BY <2>1, SameKeeps DEF RecordingInv
<1> QED
  BY <1>1, <1>2, <1>3, <1>4 DEF RecordingInv

\* The upload takes too long.
LEMMA FinishTimesOutKeeps ==
  ASSUME RecordingInv, NEW q \in Recordings, FinishTimesOut(q)
  PROVE  RecordingInv'
<1>1. Types'
  BY DEF FinishTimesOut, Finalizes, RecordingInv, Types
<1>2. \A r \in retry'.todo : rec'[r] # "none"
  BY DEF FinishTimesOut, Finalizes, RecordingInv, Types
<1>3. Sound(q)'
  BY DEF FinishTimesOut, Finalizes, RecordingInv, Types,
         Sound, Untouched, Upload, Retry, AtCore, Kept, Over, Final
<1>4. ASSUME NEW r \in Recordings, r # q
      PROVE  Sound(r)'
  <2>1. Same(r)
    BY <1>4 DEF FinishTimesOut, Finalizes, Same, RecordingInv, Types
  <2> QED
    BY <2>1, SameKeeps DEF RecordingInv
<1> QED
  BY <1>1, <1>2, <1>3, <1>4 DEF RecordingInv

\* The retry takes a file in hand that is not active.
LEMMA PickKeeps ==
  ASSUME RecordingInv, NEW q \in Recordings, Pick(q)
  PROVE  RecordingInv'
<1>1. Types'
  BY DEF Pick, RecordingInv, Types
<1>2. \A r \in retry'.todo : rec'[r] # "none"
  BY DEF Pick, RecordingInv, Types
<1>3. Sound(q)'
  BY DEF Pick, RecordingInv, Types,
         Sound, Untouched, Upload, Retry, AtCore, Kept, Over, Final
<1>4. ASSUME NEW r \in Recordings, r # q
      PROVE  Sound(r)'
  <2>1. Same(r)
    BY <1>4 DEF Pick, Same, RecordingInv, Types
  <2> QED
    BY <2>1, SameKeeps DEF RecordingInv
<1> QED
  BY <1>1, <1>2, <1>3, <1>4 DEF RecordingInv

\* The retry has uploaded all of a file.
LEMMA UploadedKeeps ==
  ASSUME RecordingInv, NEW q \in Recordings, Uploaded(q)
  PROVE  RecordingInv'
<1>1. Types'
  BY DEF Uploaded, Finalizes, RecordingInv, Types
<1>2. \A r \in retry'.todo : rec'[r] # "none"
  BY DEF Uploaded, Finalizes, RecordingInv, Types
<1>3. Sound(q)'
  BY DEF Uploaded, Finalizes, RecordingInv, Types,
         Sound, Untouched, Upload, Retry, AtCore, Kept, Over, Final
<1>4. ASSUME NEW r \in Recordings, r # q
      PROVE  Sound(r)'
  <2>1. Same(r)
    BY <1>4 DEF Uploaded, Finalizes, Same, RecordingInv, Types
  <2> QED
    BY <2>1, SameKeeps DEF RecordingInv
<1> QED
  BY <1>1, <1>2, <1>3, <1>4 DEF RecordingInv

\* The retry gives a file up.
LEMMA GivingUpKeeps ==
  ASSUME RecordingInv, NEW q \in Recordings, Unreadable(q) \/ Refused(q)
  PROVE  RecordingInv'
<1>1. Types'
  BY DEF Unreadable, Refused, RecordingInv, Types
<1>2. \A r \in retry'.todo : rec'[r] # "none"
  BY DEF Unreadable, Refused, RecordingInv, Types
<1>3. Sound(q)'
  BY DEF Unreadable, Refused, RecordingInv, Types,
         Sound, Untouched, Upload, Retry, AtCore, Kept, Over, Final
<1>4. ASSUME NEW r \in Recordings, r # q
      PROVE  Sound(r)'
  <2>1. Same(r)
    BY <1>4 DEF Unreadable, Refused, Same, RecordingInv, Types
  <2> QED
    BY <2>1, SameKeeps DEF RecordingInv
<1> QED
  BY <1>1, <1>2, <1>3, <1>4 DEF RecordingInv

\* The round of the retry is over.
LEMMA UploadFailsKeeps ==
  ASSUME RecordingInv, NEW q \in Recordings, UploadFails(q)
  PROVE  RecordingInv'
<1>1. Types'
  BY DEF UploadFails, Finalizes, NoRetry, RecordingInv, Types
<1>2. \A r \in retry'.todo : rec'[r] # "none"
  BY DEF UploadFails, Finalizes, NoRetry, RecordingInv, Types
<1>3. Sound(q)'
  BY DEF UploadFails, Finalizes, NoRetry, RecordingInv, Types,
         Sound, Untouched, Upload, Retry, AtCore, Kept, Over, Final
<1>4. ASSUME NEW r \in Recordings, r # q
      PROVE  Sound(r)'
  <2>1. Same(r)
    BY RecordingsAssumption, <1>4
       DEF UploadFails, Finalizes, NoRetry, Same, RecordingInv, Types
  <2> QED
    BY <2>1, SameKeeps DEF RecordingInv
<1> QED
  BY <1>1, <1>2, <1>3, <1>4 DEF RecordingInv

\* The retry removes the file.
LEMMA RemoveKeeps ==
  ASSUME RecordingInv, NEW q \in Recordings, Remove(q)
  PROVE  RecordingInv'
<1>1. Types'
  BY Zenon DEF Remove, RecordingInv, Types
<1>2. \A r \in retry'.todo : rec'[r] # "none"
  BY DEF Remove, RecordingInv, Types
<1>3. Sound(q)'
  BY DEF Remove, RecordingInv, Types,
         Sound, Untouched, Upload, Retry, AtCore, Kept, Over, Final
<1>4. ASSUME NEW r \in Recordings, r # q
      PROVE  Sound(r)'
  <2>1. Same(r)
    BY RecordingsAssumption, <1>4 DEF Remove, Same, RecordingInv, Types
  <2> QED
    BY <2>1, SameKeeps DEF RecordingInv
<1> QED
  BY <1>1, <1>2, <1>3, <1>4 DEF RecordingInv

\* The retry lists the files that are there.
LEMMA GlobKeeps ==
  ASSUME RecordingInv, Glob
  PROVE  RecordingInv'
<1>1. Types'
  BY DEF Glob, RecordingInv, Types
<1>2. \A r \in retry'.todo : rec'[r] # "none"
  BY DEF Glob, RecordingInv, Types, Sound, Untouched
<1>3. ASSUME NEW r \in Recordings
      PROVE  Sound(r)'
  <2>1. Same(r)
    BY DEF Glob, Same, RecordingInv, Types
  <2> QED
    BY <2>1, SameKeeps DEF RecordingInv
<1> QED
  BY <1>1, <1>2, <1>3 DEF RecordingInv

\* A crash ends every recording, upload and retry; the files and the core stay.
LEMMA CrashKeeps ==
  ASSUME RecordingInv, Crash
  PROVE  RecordingInv'
<1>1. Types'
  BY DEF Crash, NoRetry, RecordingInv, Types
<1>2. \A r \in retry'.todo : rec'[r] # "none"
  BY DEF Crash, NoRetry
<1>3. ASSUME NEW r \in Recordings
      PROVE  Sound(r)'
  <2>1. retry'.cur # r
    BY RecordingsAssumption DEF Crash, NoRetry
  <2>2. Sound(r)
    BY DEF RecordingInv
  <2> QED
    BY <2>1, <2>2 DEF Crash, RecordingInv, Types, Sound, Untouched, Upload, Retry, AtCore,
                      Kept, Over, Final
<1> QED
  BY <1>1, <1>2, <1>3 DEF RecordingInv

\* Every step of the recorders, the uploads, the retry and the crash keeps the invariant.
LEMMA RecordingInductive ==
  ASSUME RecordingInv, [Next]_vars
  PROVE  RecordingInv'
<1>1. CASE Glob \/ Crash
  BY <1>1, GlobKeeps, CrashKeeps
<1>2. ASSUME NEW q \in Recordings, RecorderNext(q)
      PROVE  RecordingInv'
  BY <1>2, CreateKeeps, CreateFailsKeeps, WriteHeaderKeeps, ActivateKeeps, FlushKeeps,
     FlushFailsKeeps, CloseKeeps
     DEF RecorderNext
<1>3. ASSUME NEW q \in Recordings, UploaderNext(q)
      PROVE  RecordingInv'
  BY <1>3, SendKeeps, SendFailsKeeps, DiscardKeeps, SendFinalKeeps, FinalAnsweredKeeps,
     FinishKeeps, DeactivateKeeps, FinishTimesOutKeeps DEF UploaderNext
<1>4. ASSUME NEW q \in Recordings, RetryNext(q)
      PROVE  RecordingInv'
  BY <1>4, PickKeeps, UploadedKeeps, GivingUpKeeps, UploadFailsKeeps, RemoveKeeps DEF RetryNext
<1>5. CASE UNCHANGED vars
  BY <1>5 DEF vars, RecordingInv, Types, Sound, Untouched, Upload, Retry, AtCore, Kept, Over, Final
<1> QED
  BY <1>1, <1>2, <1>3, <1>4, <1>5 DEF Next

\* There is no recording at first.
LEMMA RecordingStarts == Init => RecordingInv
<1> SUFFICES ASSUME Init
             PROVE  RecordingInv
  OBVIOUS
<1>1. Types
  BY DEF Init, Types, NoRetry
<1>2. ASSUME NEW r \in Recordings
      PROVE  Sound(r)
  <2>1. retry.cur # r /\ ~Final(r)
    BY RecordingsAssumption DEF Init, NoRetry, Final
  <2> QED
    BY <2>1 DEF Init, Sound, Untouched, Upload, Retry, AtCore, Kept, Over
<1> QED
  BY <1>1, <1>2 DEF RecordingInv, Init, NoRetry

(***************************************************************************)
(* A file that was removed as uploaded is at the core to its last chunk,   *)
(* whatever the queue, the size limit and the number of recordings and     *)
(* crashes (uploader.go's finish, removeUploaded): outside of an overrun   *)
(* queue and of the window in New.                                         *)
(***************************************************************************)
THEOREM NoRecordingIsLost == Spec => []NothingLost
<1>1. RecordingInv => NothingLost
  BY DEF RecordingInv, NothingLost, AllAtCore, Sound, AtCore, Final
<1> QED
  BY <1>1, RecordingStarts, RecordingInductive, PTL DEF Spec

(***************************************************************************)
(* A file goes only after the core has finished its recording, an overrun  *)
(* queue included.                                                         *)
(***************************************************************************)
THEOREM RemovalFollowsFinal == Spec => []RemovedOnlyWhenFinal
<1>1. RecordingInv => RemovedOnlyWhenFinal
  BY DEF RecordingInv, RemovedOnlyWhenFinal, Sound, AtCore, Final
<1> QED
  BY <1>1, RecordingStarts, RecordingInductive, PTL DEF Spec

(***************************************************************************)
(* Retention and the retry leave the files of running recorders alone: the *)
(* active map is enough for that, outside of the window in New.            *)
(***************************************************************************)
THEOREM WritersAreLeftAlone == Spec => []WritersKeepTheirFile
<1>1. RecordingInv => WritersKeepTheirFile
  BY DEF RecordingInv, WritersKeepTheirFile, Sound, Kept
<1> QED
  BY <1>1, RecordingStarts, RecordingInductive, PTL DEF Spec
-----------------------------------------------------------------------------
\* How much there can be of a recording: in its file the size limit and the footer, in
\* the queue what the queue holds, and with the stream what is in the file, and the one chunk
\* whose write to the file failed.
Bounds(r) ==
  /\ size[r] <= MaxChunks[r] + 1
  /\ rec[r] = "created" => size[r] <= 1
  /\ rec[r] = "open" => size[r] <= MaxChunks[r]
  /\ rec[r] \in {"created", "open"} => sent[r] + queue[r] <= size[r]
  /\ queue[r] <= QueueCap /\ sent[r] + queue[r] <= MaxChunks[r] + 1
  /\ core[r] <= MaxChunks[r] + 1

BoundsInv ==
  /\ \A r \in Recordings : Bounds(r)
  /\ active \subseteq Recordings /\ crashes \in 0..MaxCrashes

\* A step that is not one of r.
Still(r) ==
  /\ rec'[r] = rec[r] /\ size'[r] = size[r] /\ queue'[r] = queue[r] /\ sent'[r] = sent[r]
  /\ core'[r] = core[r]

\* A recording that no step touches stays within its bounds.
LEMMA StillBounded ==
  ASSUME NEW r \in Recordings, Bounds(r), Still(r)
  PROVE  Bounds(r)'
BY DEF Bounds, Still

\* A step of one recording is one of no other.
LEMMA OthersStill ==
  ASSUME Types, NEW q \in Recordings, NEW r \in Recordings, r # q,
         RecorderNext(q) \/ UploaderNext(q) \/ RetryNext(q)
  PROVE  Still(r)
<1>1. CASE RecorderNext(q)
  BY <1>1 DEF RecorderNext, Create, CreateFails, WriteHeader, Activate, Flush, FlushFails, Close, SinkWrite,
     Types, Still
<1>2. CASE UploaderNext(q)
  BY <1>2 DEF UploaderNext, Send, SendFails, Discard, SendFinal, FinalAnswered, Finish, Deactivate,
     FinishTimesOut, Finalizes, Types, Still
<1>3. CASE RetryNext(q)
  BY <1>3 DEF RetryNext, Pick, Uploaded, Unreadable, Refused, UploadFails, Remove, Finalizes,
     Types, Still
<1> QED
  BY <1>1, <1>2, <1>3

\* A chunk is queued where there is room for it.
LEMMA SinkBounds ==
  ASSUME Types, NEW q \in Recordings, SinkWrite(q), queue[q] <= QueueCap
  PROVE  queue'[q] \in Nat /\ queue'[q] <= QueueCap /\ queue'[q] <= queue[q] + 1
BY BoundsAssumption DEF SinkWrite, Types

\* What the core holds of a recording is what it was sent.
LEMMA CoreBounds ==
  ASSUME Types, NEW q \in Recordings, core[q] <= MaxChunks[q] + 1
  PROVE  \A n \in Nat :
           n <= MaxChunks[q] + 1 /\ Finalizes(q, n) => core'[q] <= MaxChunks[q] + 1
BY BoundsAssumption DEF Finalizes, Types

\* The recorder stops at the size limit, and its sink at that of the queue.
LEMMA RecorderBounds ==
  ASSUME RecordingInv, NEW q \in Recordings, Bounds(q), RecorderNext(q)
  PROVE  Bounds(q)'
<1> Types /\ size[q] \in Nat /\ queue[q] \in Nat /\ sent[q] \in Nat
  BY TypesOf DEF RecordingInv
<1> MaxChunks[q] \in Nat \ {0} /\ QueueCap \in Nat \ {0}
  BY BoundsAssumption
<1>1. rec[q] \in {"none", "created"} /\ size[q] = 0 => queue[q] = 0 /\ sent[q] = 0
  BY DEF RecordingInv, Sound, Untouched
<1>2. rec[q] = "none" => size[q] = 0
  BY DEF RecordingInv, Sound, Untouched
<1>3. CASE Create(q)
  BY <1>1, <1>2, <1>3 DEF Create, Bounds, Types
<1>4. CASE CreateFails(q)
  BY <1>1, <1>4, SinkBounds DEF CreateFails, Bounds, Types
<1>5. CASE WriteHeader(q)
  BY <1>1, <1>5, SinkBounds DEF WriteHeader, Bounds, Types
<1>6. CASE Activate(q)
  BY <1>6 DEF Activate, Bounds, Types
<1>7. CASE Flush(q)
  BY <1>7, SinkBounds DEF Flush, Bounds, Types
<1>8. CASE FlushFails(q)
  BY <1>8, SinkBounds DEF FlushFails, Bounds, Types
<1>9. CASE Close(q)
  BY <1>9, SinkBounds DEF Close, Bounds, Types
<1> QED
  BY <1>3, <1>4, <1>5, <1>6, <1>7, <1>8, <1>9 DEF RecorderNext

\* The upload takes from the queue what it sends.
LEMMA UploaderBounds ==
  ASSUME RecordingInv, NEW q \in Recordings, Bounds(q), UploaderNext(q)
  PROVE  Bounds(q)'
<1> Types /\ size[q] \in Nat /\ queue[q] \in Nat /\ sent[q] \in Nat
  BY TypesOf DEF RecordingInv
<1> MaxChunks[q] \in Nat \ {0} /\ QueueCap \in Nat \ {0}
  BY BoundsAssumption
<1>1. sent[q] <= MaxChunks[q] + 1
  BY DEF Bounds
<1>2. rec'[q] = rec[q] /\ size'[q] = size[q]
  BY DEF UploaderNext, Send, SendFails, Discard, SendFinal, FinalAnswered, Finish, Deactivate,
     FinishTimesOut
<1>3. /\ queue'[q] \in Nat /\ sent'[q] \in Nat
      /\ queue'[q] <= queue[q] /\ sent'[q] + queue'[q] <= sent[q] + queue[q]
  BY DEF UploaderNext, Send, SendFails, Discard, SendFinal, FinalAnswered, Finish, Deactivate,
     FinishTimesOut, Types
<1>4. core'[q] <= MaxChunks[q] + 1
  BY <1>1, CoreBounds DEF UploaderNext, Send, SendFails, Discard, SendFinal, FinalAnswered, Finish,
     Deactivate, FinishTimesOut, Bounds
<1>5. /\ sent[q] + queue[q] <= size[q] => sent'[q] + queue'[q] <= size[q]
      /\ queue'[q] <= QueueCap /\ sent'[q] + queue'[q] <= MaxChunks[q] + 1
  BY <1>3 DEF Bounds
<1> QED
  BY <1>2, <1>4, <1>5, Zenon DEF Bounds

\* The retry sends what is in the file.
LEMMA RetryBounds ==
  ASSUME RecordingInv, NEW q \in Recordings, Bounds(q), RetryNext(q)
  PROVE  Bounds(q)'
<1> Types /\ size[q] \in Nat
  BY TypesOf DEF RecordingInv
<1>1. UNCHANGED <<rec, size, queue, sent>>
  BY DEF RetryNext, Pick, Uploaded, Unreadable, Refused, UploadFails, Remove
<1>2. core'[q] <= MaxChunks[q] + 1
  BY CoreBounds DEF RetryNext, Pick, Uploaded, Unreadable, Refused, UploadFails, Remove, Bounds
<1> QED
  BY <1>1, <1>2 DEF Bounds

\* Every step keeps within the bounds.
LEMMA BoundsInductive ==
  ASSUME RecordingInv, BoundsInv, [Next]_vars
  PROVE  BoundsInv'
<1>1. Types
  BY DEF RecordingInv
<1>2. ASSUME NEW q \in Recordings, RecorderNext(q) \/ UploaderNext(q) \/ RetryNext(q)
      PROVE  BoundsInv'
  <2>1. Bounds(q)'
    BY <1>2, RecorderBounds, UploaderBounds, RetryBounds DEF BoundsInv
  <2>2. \A r \in Recordings : Bounds(r)'
    BY <1>1, <1>2, <2>1, OthersStill, StillBounded DEF BoundsInv
  <2>3. active' \subseteq Recordings /\ crashes' = crashes
    BY <1>2 DEF BoundsInv, RecorderNext, Create, CreateFails, WriteHeader, Activate, Flush,
       FlushFails, Close,
       UploaderNext, Send, SendFails, Discard, SendFinal, FinalAnswered, Finish, Deactivate,
       FinishTimesOut, RetryNext, Pick, Uploaded, Unreadable, Refused, UploadFails, Remove
  <2> QED
    BY <2>2, <2>3 DEF BoundsInv
<1>3. CASE Crash
  <2>1. crashes' \in 0..MaxCrashes /\ active' = {}
    <3>1. crashes < MaxCrashes /\ crashes' = crashes + 1 /\ active' = {}
      BY <1>3, Zenon DEF Crash
    <3>2. crashes \in 0..MaxCrashes /\ MaxCrashes \in Nat
      BY BoundsAssumption DEF BoundsInv
    <3> QED
      BY <3>1, <3>2
  <2>2. ASSUME NEW r \in Recordings PROVE Bounds(r)'
    BY <1>1, <1>3, BoundsAssumption DEF Crash, BoundsInv, Bounds, Types
  <2> QED
    BY <2>1, <2>2 DEF BoundsInv
<1>4. CASE Glob \/ UNCHANGED vars
  BY <1>4 DEF Glob, vars, BoundsInv, Bounds
<1> QED
  BY <1>2, <1>3, <1>4 DEF Next

(***************************************************************************)
(* The state stays within its types, and with them what an upload may hold *)
(* in memory and a recording on the disk: never more than QueueCap chunks  *)
(* queued (Uploader.Write), never more than the size limit and the footer  *)
(* recorded (Recorder.flush), and no more at the core than was recorded.   *)
(***************************************************************************)
THEOREM RecordingIsBounded == Spec => []TypeOK
<1>1. Init => BoundsInv
  BY BoundsAssumption DEF Init, BoundsInv, Bounds
<1>2. RecordingInv /\ BoundsInv => TypeOK
  <2> SUFFICES ASSUME RecordingInv, BoundsInv PROVE TypeOK
    OBVIOUS
  <2>1. Types /\ MaxChunks \in [Recordings -> Nat] /\ QueueCap \in Nat
    BY BoundsAssumption DEF RecordingInv
  <2>2. queue \in [Recordings -> 0..QueueCap]
    BY <2>1 DEF Types, BoundsInv, Bounds
  <2>3. ASSUME NEW r \in Recordings
        PROVE  {size[r], sent[r], core[r]} \subseteq 0..(MaxChunks[r] + 1)
    <3>1. /\ size[r] \in Nat /\ sent[r] \in Nat /\ queue[r] \in Nat /\ core[r] \in Nat
          /\ MaxChunks[r] \in Nat /\ Bounds(r)
      BY <2>1, TypesOf DEF BoundsInv
    <3> QED
      BY <3>1 DEF Bounds
  <2> QED
    BY <2>1, <2>2, <2>3, Zenon DEF TypeOK, Types, BoundsInv
<1> QED
  BY <1>1, <1>2, RecordingStarts, RecordingInductive, BoundsInductive, PTL DEF Spec
-----------------------------------------------------------------------------
(***************************************************************************)
(* Custody.                                                                *)
(***************************************************************************)
\* Before a file there is nothing, and after New gave up there is nothing again.
NoFile(r) == file[r] = "none" => rec[r] \in {"none", "over"} /\ size[r] = 0

\* The host has or had the file of what was recorded, or the core has all of it.
Found(r) ==
  r \notin early /\ uerr[r] # "full" =>
    /\ rec[r] \in Writing => file[r] = "present"
    /\ Over(r) /\ size[r] > 0 /\ file[r] \in {"removed", "none"} => AllAtCore(r)

\* A recording that a step leaves where it is.
Stays(r) ==
  /\ rec'[r] = rec[r] /\ file'[r] = file[r] /\ size'[r] = size[r]
  /\ uerr'[r] = "full" <=> uerr[r] = "full"
  /\ r \in early' <=> r \in early

Moves(r) == Place(r)' = Place(r) \/ <<Place(r), Place(r)'>> \in C!Ways

\* The core takes what is over and not given up, once, and never forgets it.
LEMMA StaysPut ==
  ASSUME Types, NEW r \in Recordings, Stays(r), NoFile(r), Found(r),
         \/ core'[r] = core[r]
         \/ core[r] = 0 /\ Over(r) /\ (file[r] = "refused" => size[r] = 0)
  PROVE  Moves(r)
<1>1. CASE r \in early \/ uerr[r] = "full"
  BY <1>1 DEF Stays, Moves, Place
<1>2. CASE ~(r \in early \/ uerr[r] = "full")
  <2>1. CASE rec[r] = "none"
    BY <1>2, <2>1 DEF Stays, Moves, Place
  <2>2. CASE rec[r] \in Writing
    BY <1>2, <2>2 DEF Stays, Moves, Place
  <2>3. CASE Over(r) /\ size[r] = 0
    BY <1>2, <2>3 DEF Stays, Moves, Place, Over
  <2>4. CASE Over(r) /\ size[r] # 0
    <3>1. \/ file[r] \in {"present", "dropped", "refused"}
          \/ file[r] \in {"removed", "none"} /\ AllAtCore(r)
      BY <1>2, <2>4 DEF Types, Found
    <3>2. AllAtCore(r) => AllAtCore(r)'
      BY DEF AllAtCore, Stays
    <3>3. file[r] = "refused" => (AllAtCore(r)' <=> AllAtCore(r))
      BY <2>4 DEF AllAtCore, Stays
    <3> QED
      BY <1>2, <2>4, <3>1, <3>2, <3>3 DEF Stays, Moves, Place, Over, C!Ways
  <2> QED
    BY <2>1, <2>2, <2>3, <2>4 DEF Types, Over
<1> QED
  BY <1>1, <1>2

\* It is what the invariant says of a recording.
LEMMA FoundAll ==
  ASSUME RecordingInv, NEW r \in Recordings, NoFile(r)
  PROVE  Found(r)
BY DEF RecordingInv, Types, Sound, Untouched, AtCore, Kept, Over, Final, Found, AllAtCore, NoFile

\* New creates the file before anything else, and takes it back before it wrote to it.
LEMMA NoFileKeeps ==
  ASSUME RecordingInv, NEW r \in Recordings, NoFile(r), [Next]_vars
  PROVE  NoFile(r)'
<1> USE DEF NoFile
<1>1. CASE Glob \/ Crash
  BY <1>1 DEF Glob, Crash, RecordingInv, Types
<1>2. ASSUME NEW q \in Recordings, Create(q)
      PROVE  NoFile(r)'
  <2>1. PICK gone \in SUBSET Droppable :
          file' = [f \in Recordings |-> IF f = q THEN "present"
                                        ELSE IF f \in gone THEN "dropped" ELSE file[f]]
    BY <1>2 DEF Create
  <2> QED
    BY <1>2, <2>1 DEF Create, RecordingInv, Types
<1>3. ASSUME NEW q \in Recordings,
             \/ CreateFails(q) \/ WriteHeader(q) \/ Activate(q)
             \/ Flush(q) \/ FlushFails(q) \/ Close(q)
      PROVE  NoFile(r)'
  BY <1>3 DEF CreateFails, WriteHeader, Activate, Flush, FlushFails, Close, RecordingInv, Types
<1>4. ASSUME NEW q \in Recordings, UploaderNext(q)
      PROVE  NoFile(r)'
  BY <1>4 DEF UploaderNext, Send, SendFails, Discard, SendFinal, FinalAnswered, Finish, Deactivate,
     FinishTimesOut, RecordingInv, Types
<1>5. ASSUME NEW q \in Recordings, RetryNext(q)
      PROVE  NoFile(r)'
  BY <1>5 DEF RetryNext, Pick, Uploaded, Unreadable, Refused, UploadFails, Remove, RecordingInv, Types
<1>6. CASE UNCHANGED vars
  BY <1>6 DEF vars
<1> QED
  BY <1>1, <1>2, <1>3, <1>4, <1>5, <1>6 DEF Next, RecorderNext

\* The recorder: a recording is begun, written and closed, and retention drops others.
LEMMA RecorderMoves ==
  ASSUME RecordingInv, NEW r \in Recordings, NoFile(r), NEW q \in Recordings, RecorderNext(q)
  PROVE  Moves(r)
<1>0. Types /\ Found(r) /\ Sound(r) /\ size[r] \in Nat
  BY FoundAll DEF RecordingInv, Types
<1>1. CASE Create(q)
  <2>1. PICK gone \in SUBSET Droppable :
          file' = [f \in Recordings |-> IF f = q THEN "present"
                                        ELSE IF f \in gone THEN "dropped" ELSE file[f]]
    BY <1>1 DEF Create
  <2>2. CASE r = q
    <3>1. rec[r] = "none" /\ rec'[r] = "created" /\ file'[r] = "present" /\ size[r] = 0
          /\ size' = size /\ uerr' = uerr /\ early' = early
      BY <1>0, <1>1, <2>1, <2>2 DEF Create, Types, Sound, Untouched
    <3> QED
      BY <3>1 DEF Moves, Place, C!Ways
  <2>3. CASE r # q /\ r \notin gone
    <3>1. Stays(r) /\ core'[r] = core[r]
      BY <1>0, <1>1, <2>1, <2>3 DEF Create, Types, Stays
    <3> QED
      BY <1>0, <3>1, StaysPut
  <2>4. CASE r # q /\ r \in gone
    <3>1. file[r] = "present" /\ r \notin active /\ rec[r] # "created"
      BY <2>4 DEF Droppable
    <3>2. rec' = [rec EXCEPT ![q] = "created"] /\ file'[r] = "dropped"
          /\ size' = size /\ uerr' = uerr /\ early' = early
      BY <1>0, <1>1, <2>1, <2>4 DEF Create, Types
    <3>3. r \in early \/ Over(r)
      BY <1>0, <3>1 DEF Sound, Kept, Untouched, Types, Over
    <3>4. rec'[r] = rec[r]
      BY <1>0, <2>4, <3>2 DEF Types
    <3> QED
      BY <3>1, <3>2, <3>3, <3>4 DEF Moves, Place, Over, C!Ways
  <2> QED
    BY <2>2, <2>3, <2>4
<1>2. CASE r # q /\ (\/ CreateFails(q) \/ WriteHeader(q) \/ Activate(q)
                    \/ Flush(q) \/ FlushFails(q) \/ Close(q))
  <2>1. Stays(r) /\ core'[r] = core[r]
    BY <1>0, <1>2 DEF CreateFails, WriteHeader, Activate, Flush, FlushFails, Close, SinkWrite, Types, Stays
  <2> QED
    BY <1>0, <2>1, StaysPut
<1>3. CASE r = q /\ (CreateFails(r) \/ WriteHeader(r))
  <2>1. rec[r] = "created" /\ size[r] = 0 /\ queue[r] = 0 /\ uerr[r] = "none"
    BY <1>0, <1>3 DEF CreateFails, WriteHeader, Sound, Untouched
  <2>2. uerr' = uerr /\ early' = early
    BY <1>3, <2>1, BoundsAssumption DEF CreateFails, WriteHeader, SinkWrite
  <2>3. CASE CreateFails(r)
    <3>1. rec'[r] = "over" /\ size'[r] = 0
      BY <1>0, <2>1, <2>3 DEF CreateFails, Types
    <3> QED
      BY <1>0, <2>1, <2>2, <3>1 DEF Moves, Place, Found, C!Ways
  <2>4. CASE WriteHeader(r)
    <3>1. rec' = rec /\ size'[r] = 1 /\ file' = file
      BY <1>0, <2>1, <2>4 DEF WriteHeader, Types
    <3> QED
      BY <1>0, <2>1, <2>2, <3>1 DEF Moves, Place, Found, C!Ways
  <2> QED
    BY <1>3, <2>3, <2>4
<1>4. CASE r = q /\ Activate(r)
  <2>1. /\ rec[r] = "created" /\ rec'[r] = "open" /\ size[r] = 1
        /\ size' = size /\ file' = file /\ uerr' = uerr /\ early' = early
    BY <1>0, <1>4 DEF Activate, Types
  <2> QED
    BY <1>0, <2>1 DEF Moves, Place, Found, C!Ways
<1>5. CASE r = q /\ (Flush(r) \/ FlushFails(r) \/ Close(r))
  <2>1. /\ rec[r] \in {"open", "failed"} /\ size[r] > 0 /\ size'[r] > 0
        /\ file' = file /\ early' = early
        /\ rec'[r] \in {"open", "failed", "over"} /\ core' = core
    BY <1>0, <1>5 DEF Flush, FlushFails, Close, Types, Sound, Untouched
  <2>2. uerr[r] = "full" => uerr'[r] = "full"
    BY <1>0, <1>5 DEF Flush, FlushFails, Close, SinkWrite, Types
  <2>3. r \notin early => core[r] = 0
    BY <1>0, <2>1 DEF Sound, AtCore, Final, Over, Types
  <2> QED
    BY <1>0, <2>1, <2>2, <2>3 DEF Moves, Place, AllAtCore, Found, C!Ways
<1> QED
  BY <1>1, <1>2, <1>3, <1>4, <1>5 DEF RecorderNext

\* What the core does to a recording: nothing when it is final already.
LEMMA CoreMoves ==
  ASSUME Types, NEW r \in Recordings, NEW q \in Recordings, NEW n \in Nat, Finalizes(q, n)
  PROVE  core'[r] = core[r] \/ (r = q /\ core[r] = 0)
BY DEF Finalizes, Types

\* The live upload: the core comes to have all of a recording, and only then the file goes.
LEMMA UploaderMoves ==
  ASSUME RecordingInv, NEW r \in Recordings, NoFile(r), NEW q \in Recordings, UploaderNext(q)
  PROVE  Moves(r)
<1>0. Types /\ Found(r) /\ Sound(r) /\ Sound(q) /\ size[r] \in Nat /\ sent[q] \in Nat
  BY FoundAll DEF RecordingInv, Types
<1>1. CASE ~Finish(q)
  <2>1. CASE Send(q) \/ SendFails(q) \/ Discard(q) \/ SendFinal(q) \/ Deactivate(q)
    <3>1. Stays(r) /\ core' = core
      BY <1>0, <2>1 DEF Send, SendFails, Discard, SendFinal, Deactivate, Types, Stays
    <3> QED
      BY <1>0, <3>1, StaysPut
  <2>2. CASE FinalAnswered(q) \/ FinishTimesOut(q)
    <3>1. Stays(r)
      BY <1>0, <2>2 DEF FinalAnswered, FinishTimesOut, Types, Stays
    <3>2. core' = core \/ (sender[q] = "final" /\ Finalizes(q, sent[q]))
      BY <2>2 DEF FinalAnswered, FinishTimesOut
    <3>3. CASE r \in early
      BY <3>1, <3>3 DEF Stays, Moves, Place
    <3>4. CASE r \notin early
      <4>1. r = q /\ sender[q] = "final" => Over(r) /\ (file[r] = "refused" => size[r] = 0)
        BY <1>0, <3>4 DEF Sound, Upload, Retry
      <4> QED
        BY <1>0, <3>1, <3>2, <4>1, CoreMoves, StaysPut
    <3> QED
      BY <3>3, <3>4
  <2> QED
    BY <1>1, <2>1, <2>2 DEF UploaderNext
<1>2. CASE Finish(q)
  <2>1. /\ rec' = rec /\ size' = size /\ early' = early /\ core' = core
        /\ uerr'[r] = "full" <=> uerr[r] = "full"
    BY <1>0, <1>2 DEF Finish, Types
  <2>2. CASE file'[r] = file[r]
    <3>1. Stays(r)
      BY <2>1, <2>2 DEF Stays
    <3> QED
      BY <1>0, <2>1, <3>1, StaysPut
  <2>3. CASE file'[r] # file[r]
    <3>1. r = q /\ file[r] = "present" /\ file'[r] = "removed" /\ uerr[r] = "none"
          /\ closer[r] = "draining" /\ sender[r] = "done"
      BY <1>0, <1>2, <2>3 DEF Finish, Types
    <3>2. Over(r)
      BY <1>0, <3>1, Zenon DEF Sound, Upload
    <3>3. r \notin early /\ size[r] # 0 => AllAtCore(r)
      <4> SUFFICES ASSUME r \notin early, size[r] # 0 PROVE AllAtCore(r)
        OBVIOUS
      <4>1. Upload(r) /\ AtCore(r) /\ size[r] \in Nat
        BY <1>0 DEF Sound, Types
      <4>2. size[r] > 0
        BY <4>1
      <4>3. Final(r)
        BY <3>1, <4>1, <4>2, Zenon DEF Upload
      <4>4. core[r] >= size[r]
        BY <3>1, <4>1, <4>2, <4>3 DEF AtCore
      <4> QED
        BY <4>3, <4>4, Zenon DEF Final, AllAtCore
    <3> QED
      BY <2>1, <3>1, <3>2, <3>3 DEF Moves, Place, Over, AllAtCore, C!Ways
  <2> QED
    BY <2>2, <2>3
<1> QED
  BY <1>1, <1>2

\* The retry: it takes what is over, and removes what the core has.
LEMMA RetryMoves ==
  ASSUME RecordingInv, NEW r \in Recordings, NoFile(r), NEW q \in Recordings, RetryNext(q)
  PROVE  Moves(r)
<1>0. Types /\ Found(r) /\ Sound(r) /\ size[r] \in Nat /\ size[q] \in Nat
  BY FoundAll DEF RecordingInv, Types
<1>1. CASE Pick(q)
  <2>1. /\ rec' = rec /\ file' = file /\ size' = size /\ uerr' = uerr /\ core' = core
        /\ early' = early \/ (early' = early \cup {q} /\ rec[q] = "created")
    BY <1>1 DEF Pick
  <2>2. CASE r \in early' <=> r \in early
    <3>1. Stays(r)
      BY <2>1, <2>2 DEF Stays
    <3> QED
      BY <1>0, <2>1, <3>1, StaysPut
  <2>3. CASE r \in early' /\ r \notin early
    <3>1. rec[r] = "created"
      BY <2>1, <2>3
    <3> QED
      BY <1>0, <2>1, <2>3, <3>1 DEF Moves, Place, Found, C!Ways
  <2> QED
    BY <2>1, <2>2, <2>3
<1>2. CASE Uploaded(q) \/ Unreadable(q) \/ Refused(q) \/ UploadFails(q)
  <2>1. Stays(r)
    BY <1>2 DEF Uploaded, Unreadable, Refused, UploadFails, Stays
  <2>2. CASE r \notin early
    <3>1. retry.cur = q /\ (core' = core \/ (file[q] = "present" /\ Finalizes(q, size[q])))
      BY <1>2 DEF Uploaded, Unreadable, Refused, UploadFails
    <3>2. r = q => Over(r)
      BY <1>0, <2>2, <3>1 DEF Sound, Retry
    <3> QED
      BY <1>0, <2>1, <3>1, <3>2, CoreMoves, StaysPut
  <2>3. CASE r \in early
    BY <2>1, <2>3 DEF Stays, Moves, Place
  <2> QED
    BY <1>2, <2>2, <2>3
<1>3. CASE Remove(q)
  <2>1. rec' = rec /\ size' = size /\ uerr' = uerr /\ early' = early /\ core' = core
    BY <1>3 DEF Remove
  <2>2. CASE file'[r] = file[r]
    <3>1. Stays(r)
      BY <2>1, <2>2 DEF Stays
    <3> QED
      BY <1>0, <2>1, <3>1, StaysPut
  <2>3. CASE file'[r] # file[r]
    <3>1. r = q /\ file[r] = "present" /\ retry.cur = r
          /\ file'[r] = IF retry.step = "remove" THEN "removed" ELSE "refused"
      BY <1>0, <1>3, <2>3 DEF Remove, Types
    <3>2. r \notin early => Over(r)
      BY <1>0, <3>1 DEF Sound, Retry
    <3>3. r \notin early /\ retry.step = "remove" /\ uerr[r] # "full" /\ size[r] # 0 => AllAtCore(r)
      BY <1>0, <3>1 DEF Sound, Retry, AtCore, Final, AllAtCore
    <3> QED
      BY <2>1, <3>1, <3>2, <3>3 DEF Moves, Place, Over, AllAtCore, C!Ways
  <2> QED
    BY <2>2, <2>3
<1> QED
  BY <1>1, <1>2, <1>3 DEF RetryNext

\* Every step moves every recording by one of its ways, or not at all.
LEMMA CustodyStep ==
  ASSUME RecordingInv, \A r \in Recordings : NoFile(r), [Next]_vars
  PROVE  \A r \in Recordings : Moves(r)
<1> TAKE r \in Recordings
<1>0. Types /\ Found(r) /\ Sound(r) /\ size[r] \in Nat /\ NoFile(r)
  BY FoundAll DEF RecordingInv, Types
<1>1. CASE Glob \/ UNCHANGED vars
  <2>1. Stays(r) /\ core' = core
    BY <1>1 DEF Glob, vars, Stays
  <2> QED
    BY <1>0, <2>1, StaysPut
<1>2. CASE Crash
  <2>1. /\ rec'[r] = IF rec[r] \in Writing THEN "over" ELSE rec[r]
        /\ uerr'[r] = "full" <=> uerr[r] = "full"
        /\ file' = file /\ size' = size /\ core' = core /\ early' = early
    BY <1>2 DEF Crash
  <2>2. CASE rec[r] \notin Writing
    <3>1. Stays(r)
      BY <2>1, <2>2 DEF Stays
    <3> QED
      BY <1>0, <2>1, <3>1, StaysPut
  <2>3. CASE rec[r] \in Writing
    <3>1. r \notin early => core[r] = 0
      BY <1>0, <2>3 DEF Sound, AtCore, Final, Over, Types
    <3> QED
      BY <1>0, <2>1, <2>3, <3>1 DEF Moves, Place, Found, AllAtCore, C!Ways
  <2> QED
    BY <2>2, <2>3
<1> QED
  BY <1>0, <1>1, <1>2, RecorderMoves, UploaderMoves, RetryMoves DEF Next

(***************************************************************************)
(* The recorder, the live upload, the retry and retention implement        *)
(* Custody, for any recordings, queue, size limit and number of crashes:   *)
(* a recording is on the host until the core has all of it, moves one way  *)
(* only, and comes to harm only while it is written.                       *)
(***************************************************************************)
THEOREM RecordingKeepsCustody == Spec => ImplementsCustody
<1> DEFINE AllNoFile == \A r \in Recordings : NoFile(r)
<1>1. Init => AllNoFile
  BY DEF Init, NoFile
<1>2. RecordingInv /\ AllNoFile /\ [Next]_vars => AllNoFile'
  BY NoFileKeeps
<1>3. Init => C!CustodyInit
  <2> SUFFICES ASSUME Init PROVE \A r \in Recordings : Place(r) = "none"
    BY DEF C!CustodyInit
  <2> QED
    BY DEF Init, Place
<1>4. RecordingInv /\ AllNoFile /\ [Next]_vars => C!CustodyNext
  <2> SUFFICES ASSUME RecordingInv, AllNoFile, [Next]_vars,
                      NEW r \in Recordings
               PROVE  C!Move(r)
    BY DEF C!CustodyNext
  <2>1. Moves(r)
    BY CustodyStep
  <2> QED
    BY <2>1 DEF Moves, C!Move
<1> HIDE DEF AllNoFile
<1>5. RecordingInv /\ AllNoFile /\ [Next]_vars => [C!CustodyNext]_([r \in Recordings |-> Place(r)])
  BY <1>4
<1> QED
  BY <1>1, <1>2, <1>3, <1>5, RecordingStarts, RecordingInductive, PTL
  DEF Spec, ImplementsCustody, C!CustodySpec
=============================================================================
