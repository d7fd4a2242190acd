------------------------------ MODULE MCAccess ------------------------------
(***************************************************************************)
(* Small instances of Access: one account a principal can reach and one    *)
(* whose name is refused, two principals, a CA that is rolled over.        *)
(***************************************************************************)
EXTENDS Access, TLC

CONSTANTS c1, c2, root, bad, p1, p2, k1, k2, record

MCDefaultPolicy == [f \in Flags |-> TRUE]

L(ps, flag, k, until) ==
  [principals |-> [u \in Users |-> ps],
   config     |-> [f \in Flags |-> flag],
   ca         |-> k,
   retired    |-> [x \in CAs |-> IF x = k1 /\ k # k1 THEN until ELSE 0]]

(* Both principals on k1; p1 revoked and k1 rolled over to k2 with a       *)
(* deadline; p2 revoked with an unreadable key; the empty list of PENDING. *)
MCAnswers == {L({p1, p2}, "unset", k1, 0), L({p2}, "unset", k2, 1),
              L({p1}, "off", Garbled, 0), L({}, "unset", NoCA, 0)}

Symmetry == Permutations({c1, c2})
=============================================================================
