----------------------------- MODULE AccessGate ------------------------------
(***************************************************************************)
(* Access implements Gate.  A sync applies a list in several steps, and    *)
(* connections enter between them; the list comes into force when the      *)
(* sweep of the sync has ended, which the history variable inForce marks.  *)
(***************************************************************************)
EXTENDS Access

VARIABLE inForce    \* history: the list in force, with the time of its sweep

NothingInForce == [principals |-> [u \in Users |-> {}], trusted |-> {},
                   retired |-> [k \in CAs |-> 0], asOf |-> 0]

Current == [principals |-> cache.principals, trusted |-> trustedCAs,
            retired |-> retiredCAs, asOf |-> sweptAt]

HistoryInit == Init /\ inForce = NothingInForce

\* Start-up and the end of the sync's sweep bring a list into force.
Commits == (~up /\ up') \/ (pc = "sweeping" /\ pc' = "save")

HistoryNext ==
  /\ Next
  /\ inForce' = IF Commits THEN Current' ELSE inForce

HistorySpec == HistoryInit /\ [][HistoryNext]_<<vars, inForce>>
-----------------------------------------------------------------------------
\* A list for the gate: who may use which account, and the CAs it trusts at asOf.
AsList(l) ==
  [names |-> {n \in Users \X Principals : n[2] \in l.principals[n[1]]},
   cas   |-> {k \in CAs : k \in l.trusted \/ l.asOf < l.retired[k]}]

\* From Replace to the end of the sweep a new list is half applied.
HalfApplied == pc \in {"policy", "trust", "sweep", "sweeping"}

\* Its trust is the answer's until SetTrust, and the server's from then on.
BeingApplied ==
  LET toCome == pc \in {"policy", "trust"}
  IN  [principals |-> cache.principals, asOf |-> sweptAt,
       trusted |-> IF toCome THEN TrustedBy(answer.ca, trustedCAs) ELSE trustedCAs,
       retired |-> IF toCome THEN RetiredBy(answer.ca, answer.retired, retiredCAs)
                             ELSE retiredCAs]

ListInForce == AsList(inForce)
ComingList == IF HalfApplied THEN AsList(BeingApplied) ELSE ListInForce

Name(c) == <<login[c].user, login[c].principal>>
Served(c) == [conn |-> c, name |-> Name(c), ca |-> login[c].ca]
OpenConns == {c \in Conns : phase[c] = "serving" /\ c \notin closed}
OpenNow == {Served(c) : c \in OpenConns}

G == INSTANCE Gate WITH Names <- Users \X Principals, Cas <- CAs, list <- ListInForce,
       applying <- HalfApplied, coming <- ComingList, open <- OpenNow

(***************************************************************************)
(* The access control is a gate: for all the interleavings of Replace,     *)
(* SetTrust and DropRevoked with handshakes, crashes and restarts, lists   *)
(* come into force one by one, each only when every connection that it     *)
(* does not admit has ended ("A daemon that syncs applies a revoke at      *)
(* once", SECURITY.md:100).  Every connection that is served counts.  One  *)
(* whose sweep saw half of a list (server.go:215) may be served with the   *)
(* CA of one list and the principal of the other, while the newer one is   *)
(* being applied and no longer.                                            *)
(***************************************************************************)
ImplementsGate == G!GateSpec
=============================================================================
