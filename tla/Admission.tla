----------------------------- MODULE Admission ------------------------------
(***************************************************************************)
(* How many connections the server takes (Serve, ServeConn, handshake and  *)
(* acquireStartup in internal/sshd/server.go): a slot for every connection *)
(* from accept to the return of handleConn, and a pre-auth slot for the    *)
(* time of the handshake, counted per source too.  Loopback has pre-auth   *)
(* slots of its own, and a connection the core relayed needs none.         *)
(*                                                                         *)
(* A buffered channel used as a semaphore is the number of its elements.   *)
(* The release func gives back the pre-auth slot first and takes startupMu *)
(* for the source's count after that, so those are two steps.              *)
(***************************************************************************)
EXTENDS Naturals, FiniteSets

CONSTANTS
  Conns,              \* connections that may come
  Relayed,            \* those that come through ServeConn
  Sources, Source,    \* the source an address counts as, for every connection
  Loopback,           \* the source that is the loopback
  MaxConns, MaxStartups, MaxSourceStartups

ASSUME AdmissionAssumption ==
  /\ IsFiniteSet(Conns) /\ Relayed \subseteq Conns
  /\ Source \in [Conns -> Sources] /\ Loopback \in Sources
  /\ MaxConns \in Nat /\ MaxStartups \in Nat /\ MaxSourceStartups \in Nat

VARIABLES
  stage,           \* how far each connection is
  passed,          \* the connections whose handshake succeeded
  conns,           \* len(s.conns)
  startups,        \* len(s.startups)
  localStartups,   \* len(s.localStartups)
  sourceStartups   \* s.sourceStartups, 0 for what is not in the map

admissionVars == <<stage, passed, conns, startups, localStartups, sourceStartups>>

Stages == {"away", "accepted", "hello", "release", "uncount", "served", "leaving", "gone"}

Goes(c, s) == stage' = [stage EXCEPT ![c] = s]

AdmissionTypeOK ==
  /\ stage \in [Conns -> Stages] /\ passed \in SUBSET Conns
  /\ conns \in 0..MaxConns /\ startups \in 0..MaxStartups /\ localStartups \in 0..MaxStartups
  /\ sourceStartups \in [Sources -> 0..MaxSourceStartups]

\* Serve or ServeConn takes a slot for it, or closes it.
Accepted(c) ==
  /\ stage[c] = "away" /\ conns < MaxConns
  /\ conns' = conns + 1
  /\ Goes(c, "accepted")
  /\ UNCHANGED <<passed, startups, localStartups, sourceStartups>>

AtCapacity(c) ==
  /\ stage[c] = "away" /\ conns = MaxConns
  /\ Goes(c, "gone")
  /\ UNCHANGED <<passed, conns, startups, localStartups, sourceStartups>>
-----------------------------------------------------------------------------
\* Mutant: the source is counted before the slot is there.
MutStartup(c) ==
  /\ stage[c] = "accepted" /\ c \notin Relayed /\ Source[c] # Loopback
  /\ sourceStartups[Source[c]] < MaxSourceStartups
  /\ sourceStartups' = [sourceStartups EXCEPT ![Source[c]] = @ + 1]
  /\ \/ startups < MaxStartups /\ startups' = startups + 1 /\ Goes(c, "hello")
     \/ startups = MaxStartups /\ UNCHANGED startups /\ Goes(c, "leaving")
  /\ UNCHANGED <<passed, conns, localStartups>>

\* acquireStartup, for a source that is not the loopback, under startupMu...
Startup(c) ==
  /\ stage[c] = "accepted" /\ c \notin Relayed /\ Source[c] # Loopback
  /\ sourceStartups[Source[c]] < MaxSourceStartups /\ startups < MaxStartups
  /\ startups' = startups + 1
  /\ sourceStartups' = [sourceStartups EXCEPT ![Source[c]] = @ + 1]
  /\ Goes(c, "hello")
  /\ UNCHANGED <<passed, conns, localStartups>>

\* ...for the loopback...
LocalStartup(c) ==
  /\ stage[c] = "accepted" /\ c \notin Relayed /\ Source[c] = Loopback
  /\ localStartups < MaxStartups
  /\ localStartups' = localStartups + 1
  /\ Goes(c, "hello")
  /\ UNCHANGED <<passed, conns, startups, sourceStartups>>

\* ...and not at all for a relayed connection.
RelayedStartup(c) ==
  /\ stage[c] = "accepted" /\ c \in Relayed
  /\ Goes(c, "hello")
  /\ UNCHANGED <<passed, conns, startups, localStartups, sourceStartups>>

\* errBusy.
Busy(c) ==
  /\ stage[c] = "accepted" /\ c \notin Relayed
  /\ IF Source[c] = Loopback
       THEN localStartups = MaxStartups
       ELSE sourceStartups[Source[c]] >= MaxSourceStartups \/ startups = MaxStartups
  /\ Goes(c, "leaving")
  /\ UNCHANGED <<passed, conns, startups, localStartups, sourceStartups>>

\* NewServerConn returns, with a connection or, at the deadline at the latest, without.
HandshakeReturns(c, ok) ==
  /\ stage[c] = "hello"
  /\ passed' = IF ok THEN passed \cup {c} ELSE passed
  /\ Goes(c, "release")
  /\ UNCHANGED <<conns, startups, localStartups, sourceStartups>>

Handled(c) == IF c \in passed THEN "served" ELSE "leaving"

\* The deferred release: the slot...
Release(c) ==
  /\ stage[c] = "release"
  /\ IF c \notin Relayed /\ Source[c] # Loopback
       THEN startups' = startups - 1 /\ Goes(c, "uncount") /\ UNCHANGED localStartups
       ELSE /\ localStartups' = IF c \in Relayed THEN localStartups ELSE localStartups - 1
            /\ Goes(c, Handled(c)) /\ UNCHANGED startups
  /\ UNCHANGED <<passed, conns, sourceStartups>>

\* ...and then the source's count.
Uncount(c) ==
  /\ stage[c] = "uncount"
  /\ sourceStartups' = [sourceStartups EXCEPT ![Source[c]] = @ - 1]
  /\ Goes(c, Handled(c))
  /\ UNCHANGED <<passed, conns, startups, localStartups>>
-----------------------------------------------------------------------------
\* handleConn is through with a connection it served.
Leaves(c) ==
  /\ stage[c] = "served"
  /\ Goes(c, "leaving")
  /\ UNCHANGED <<passed, conns, startups, localStartups, sourceStartups>>

\* handleConn has returned.
SlotReturns(c) ==
  /\ stage[c] = "leaving"
  /\ conns' = conns - 1
  /\ Goes(c, "gone")
  /\ UNCHANGED <<passed, startups, localStartups, sourceStartups>>

AdmissionInit ==
  /\ stage = [c \in Conns |-> "away"] /\ passed = {}
  /\ conns = 0 /\ startups = 0 /\ localStartups = 0
  /\ sourceStartups = [s \in Sources |-> 0]

AdmissionNext ==
  \E c \in Conns :
    \/ Accepted(c) \/ AtCapacity(c)
    \/ Startup(c) \/ LocalStartup(c) \/ RelayedStartup(c) \/ Busy(c)
    \/ \E ok \in BOOLEAN : HandshakeReturns(c, ok)
    \/ Release(c) \/ Uncount(c) \/ Leaves(c) \/ SlotReturns(c)

AdmissionSpec == AdmissionInit /\ [][AdmissionNext]_admissionVars
-----------------------------------------------------------------------------
Holding(S) == {c \in Conns : stage[c] \in S}
Remote(S)  == {c \in Holding(S) \ Relayed : Source[c] # Loopback}
Local(S)   == {c \in Holding(S) \ Relayed : Source[c] = Loopback}

(***************************************************************************)
(* The four counters are what they stand for in every interleaving of      *)
(* accepts, handshakes, timeouts and the two halves of the release: no     *)
(* slot is lost on a refusal or a failed handshake, none is given back     *)
(* twice, and the caps of connections, handshakes and handshakes per       *)
(* source hold ("One remote address cannot hold every pre-auth slot",      *)
(* server.go:25).                                                          *)
(***************************************************************************)
AdmissionAccounted ==
  /\ conns = Cardinality(Holding(Stages \ {"away", "gone"})) /\ conns <= MaxConns
  /\ startups = Cardinality(Remote({"hello", "release"})) /\ startups <= MaxStartups
  /\ localStartups = Cardinality(Local({"hello", "release"})) /\ localStartups <= MaxStartups
  /\ \A s \in Sources \ {Loopback} :
       /\ sourceStartups[s] =
            Cardinality({c \in Remote({"hello", "release", "uncount"}) : Source[c] = s})
       /\ sourceStartups[s] <= MaxSourceStartups
=============================================================================
