------------------------------- MODULE Custody -------------------------------
(***************************************************************************)
(* What becomes of a recording, without how it is sent: it stays on the    *)
(* host until the core has all of it, and only then does the host let go.  *)
(* The exceptions are one that retention drops and one that is refused as  *)
(* never to be taken, and neither befalls one that is still written.       *)
(***************************************************************************)
CONSTANT Recordings

VARIABLE place    \* where each recording is

\* The ways of a recording.  One that comes to be damaged does so while it is written.
Ways ==
  { <<"none", "opening">>, <<"opening", "void">>, <<"opening", "writing">>,
    <<"writing", "host">>, <<"host", "both">>, <<"both", "core">>,
    <<"host", "dropped">>, <<"both", "dropped">>, <<"host", "refused">>,
    <<"opening", "damaged">>, <<"writing", "damaged">> }

Move(r) == place'[r] = place[r] \/ <<place[r], place'[r]>> \in Ways

CustodyInit == place = [r \in Recordings |-> "none"]

CustodyNext == \A r \in Recordings : Move(r)

CustodySpec == CustodyInit /\ [][CustodyNext]_place
=============================================================================
