----------------------------- MODULE MCRecording -----------------------------
(***************************************************************************)
(* internal/recording for TLC: where a recording is, and what it holds.    *)
(* The two share no state, so each behaviour is about one of them.         *)
(***************************************************************************)
EXTENDS Recording, Cast

MCMaxChunks == [r \in Recordings |-> 1]

VARIABLE about

allVars == <<vars, castVars, about>>

MCInit == Init /\ CastInit /\ about \in {"file", "content"}

OnFile(A) == about = "file" /\ A /\ UNCHANGED <<castVars, about>>
OnContent(A) == about = "content" /\ A /\ UNCHANGED <<vars, about>>

\* Here a crash comes when there is one recording, and leaves its file to the retry. MCUpload
\* has it at any time.
CrashLeavesOne == crashes' # crashes => Cardinality({r \in Recordings : rec[r] # "none"}) = 1

MCNext ==
  \/ OnFile(Next /\ CrashLeavesOne)
  \/ OnContent(\E k \in Kinds, data \in Reads, gap \in Gaps : Event(k, data, gap))
  \/ OnContent(\E gap \in Gaps : RecordResize(gap))
  \/ OnContent(CloseCast)

\* The file in hand is gone, or there is nothing in it yet.
HasNoHeader(r) == (file[r] # "present" \/ size[r] = 0) /\ Unreadable(r)

(***************************************************************************)
(* Fairness: New comes to its end, the goroutine of closeLocked runs, with *)
(* the upload timeout as its last resort, and so does the retry loop.  The *)
(* core is unreliable but not gone for good: an upload that is tried again *)
(* and again gets through.  A file that is there is readable or not, which *)
(* nothing here decides.                                                   *)
(***************************************************************************)
Fairness ==
  /\ WF_allVars(OnFile(Glob \/ \E r \in Recordings : Pick(r) \/ HasNoHeader(r) \/ Remove(r)))
  /\ \A r \in Recordings :
       /\ WF_allVars(OnFile(WriteHeader(r) \/ CreateFails(r) \/ Activate(r)))
       /\ WF_allVars(OnFile(Finish(r) \/ Deactivate(r) \/ FinishTimesOut(r)))
       /\ SF_allVars(OnFile(Uploaded(r)))

MCSpec == MCInit /\ [][MCNext]_allVars /\ Fairness
=============================================================================
