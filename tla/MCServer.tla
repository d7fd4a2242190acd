------------------------------ MODULE MCServer -------------------------------
(***************************************************************************)
(* The server for TLC, with five workloads: a single connection with two   *)
(* channels and one port, and one with a channel and two ports; three      *)
(* connections, two of them from one source; two from the loopback; a      *)
(* relayed connection beside one from the loopback.                        *)
(***************************************************************************)
EXTENDS Server

MCConns == {"a1", "a2", "b", "l1", "l2", "relay"}
MCSource ==
  [c \in MCConns |-> CASE c \in {"a1", "a2"} -> "a" [] c \in {"l1", "l2"} -> "lo" [] OTHER -> "b"]

MCWorkloads ==
  {[conns |-> {"a1"}, syncs |-> 0, channels |-> {"c1", "c2"}, ports |-> {8001}],
   [conns |-> {"a1"}, syncs |-> 0, channels |-> {"c1"}, ports |-> {0, 8002}],
   [conns |-> {"a1", "a2", "b"}, syncs |-> 1, channels |-> {}, ports |-> {}],
   [conns |-> {"l1", "l2"}, syncs |-> 0, channels |-> {}, ports |-> {}],
   [conns |-> {"l1", "relay"}, syncs |-> 1, channels |-> {}, ports |-> {}]}
=============================================================================
