-------------------------------- MODULE Gate ---------------------------------
(***************************************************************************)
(* What the daemon's access control promises, without how it is done: at   *)
(* any time one list is in force, and every connection that is served is   *)
(* one it admits, but while another list is being applied.  For that time  *)
(* a new connection may be judged by either of the two, its principal by   *)
(* one and its CA by the other; and the new list comes into force only     *)
(* with every connection ended that it does not admit.                     *)
(***************************************************************************)
CONSTANTS
  Conns,
  Names,   \* accounts, each with a principal that may use it
  Cas

Lists == [names : SUBSET Names, cas : SUBSET Cas]

VARIABLES
  list,       \* the list in force
  applying,   \* another one is being applied...
  coming,     \* ...this one
  open        \* the connections served, with what they logged in with

gateVars == <<list, applying, coming, open>>

Lets(l, o) == o.name \in l.names /\ o.ca \in l.cas

Enter(o) ==
  /\ \A p \in open : p.conn # o.conn
  /\ o.name \in list.names \/ (applying /\ o.name \in coming.names)
  /\ o.ca \in list.cas \/ (applying /\ o.ca \in coming.cas)
  /\ open' = open \cup {o}
  /\ UNCHANGED <<list, applying, coming>>

\* A connection may end at any time.
End(o) ==
  /\ open' = open \ {o}
  /\ UNCHANGED <<list, applying, coming>>

Begin ==
  /\ ~applying /\ applying' = TRUE
  /\ coming' \in Lists
  /\ UNCHANGED <<list, open>>

\* The deadline of a retired CA may pass before its list is in force.
Expire ==
  /\ applying
  /\ coming'.names = coming.names /\ coming'.cas \subseteq coming.cas
  /\ UNCHANGED <<list, applying, open>>

Apply ==
  /\ applying /\ applying' = FALSE
  /\ \A o \in open : Lets(coming, o)
  /\ list' = coming
  /\ coming' = list' /\ UNCHANGED open

\* The process ends, and starts with the list that it finds on disk.
Stop ==
  /\ open' = {}
  /\ applying' = FALSE /\ coming' = list
  /\ UNCHANGED list

Load ==
  /\ open = {} /\ ~applying
  /\ list' \in Lists /\ coming' = list'
  /\ UNCHANGED <<applying, open>>

GateInit ==
  /\ list = [names |-> {}, cas |-> {}] /\ coming = list
  /\ applying = FALSE /\ open = {}

GateNext ==
  \/ \E o \in [conn : Conns, name : Names, ca : Cas] : Enter(o)
  \/ \E o \in open : End(o)
  \/ Begin \/ Expire \/ Apply \/ Stop \/ Load

GateSpec == GateInit /\ [][GateNext]_gateVars

\* What the gate is for: with no list being applied, nobody is inside whom the
\* list in force does not admit.
NobodyElse == ~applying => \A o \in open : Lets(list, o)
=============================================================================
