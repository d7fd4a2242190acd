------------------------------ MODULE MCControl ------------------------------
(***************************************************************************)
(* Three instances of Control.  Two connections compete with syncs that    *)
(* revoke them, while no stream gets through; one connection meets a core  *)
(* that changes its list or deletes the daemon, with a stream that breaks  *)
(* and syncs that fail; and, without connections, the list changes twice.  *)
(***************************************************************************)
EXTENDS Control, MCAccess

\* p1 is on the list, is taken off it, and is back without a CA.
MCCoreLists == <<L({p1}, "unset", k1, 0), L({}, "unset", k1, 0), L({p1}, "unset", NoCA, 0)>>

\* What an earlier run saved: nothing, or the first list.
MCCoreAnswers == {EmptyList} \cup {MCCoreLists[i] : i \in 1..3}

MCWorkloads ==
  {[conns |-> Conns, streams |-> FALSE, faults |-> FALSE, deletes |-> FALSE, versions |-> 2],
   [conns |-> {c1}, streams |-> TRUE, faults |-> TRUE, deletes |-> TRUE, versions |-> 3],
   [conns |-> {}, streams |-> TRUE, faults |-> TRUE, deletes |-> TRUE, versions |-> 3]}
=============================================================================
