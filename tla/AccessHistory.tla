--------------------------- MODULE AccessHistory ---------------------------
(***************************************************************************)
(* Access with a history variable: the CA trust of the last list that was  *)
(* applied or loaded with a readable active key.                           *)
(***************************************************************************)
EXTENDS MCAccess

VARIABLE lastGood

\* The host starts from a file whose key is readable.
HistoryInit == Init /\ disk.ca # Garbled /\ lastGood = {}

HistoryNext ==
  /\ Next
  /\ lastGood' = CASE pc = "trust" /\ pc' = "sweep" -> TrustedBy(answer.ca, lastGood)
                   [] ~up /\ up'                    -> TrustedBy(cache'.ca, lastGood)
                   [] OTHER                         -> lastGood

HistorySpec == HistoryInit /\ [][HistoryNext]_<<vars, lastGood>>

(***************************************************************************)
(* "Keep the last good set, a garbled key must not lock everyone out"      *)
(* (auth.go:38): with an unreadable active key in the cache, the server    *)
(* trusts the CA it trusted before.                                        *)
(***************************************************************************)
GarbledKeyKeepsTrust ==
  up /\ cache.ca = Garbled /\ pc \notin {"policy", "trust"} => trustedCAs = lastGood
=============================================================================
