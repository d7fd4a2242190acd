------------------------------- MODULE Server --------------------------------
(***************************************************************************)
(* The SSH server with its connections: the admission of each, its life in *)
(* handleConn, the sweeps of DropRevoked under liveMu, the relay under the *)
(* one connection that comes through the core, and the channels and        *)
(* forwards of one other.  Composes Admission, Relay and Connection.       *)
(*                                                                         *)
(* A behaviour starts with a workload: the connections that will come, how *)
(* many syncs will close any, and the channels and the ports that the      *)
(* client of Focus asks for.  Whose access is revoked is the matter of     *)
(* Access: here a sweep closes any set of live connections.                *)
(***************************************************************************)
EXTENDS Connection, Admission, Relay

CONSTANTS
  Focus,        \* the connection whose channels are modelled
  R,            \* the one whose transport is a relay
  Workloads     \* what may come, see above

ASSUME ServerAssumption ==
  /\ Relayed = {R} /\ Focus \in Conns \ {R} /\ Closers = {"handler", "sweep", "alive"}
  /\ Workloads \subseteq [conns : SUBSET Conns, syncs : Nat, channels : SUBSET Channels,
                          ports : SUBSET (Ports \cup {0})]
  /\ "none" \notin Conns /\ "sync" \notin Conns

VARIABLES
  work,         \* the workload
  up,           \* the connections whose client is there
  serve,        \* handleConn after the handshake
  live,         \* s.live
  syncs,        \* how many syncs have closed some
  sweep         \* who holds liveMu for DropRevoked, and what it has yet to close

connVars == vars
lifeVars == <<serve, live, syncs, sweep>>
serverVars == <<work, up, lifeVars, admissionVars, relayVars, connVars>>

Free == [by |-> "none", todo |-> {}]

ServerTypeOK ==
  /\ TypeOK /\ AdmissionTypeOK /\ RelayTypeOK
  /\ work \in Workloads /\ up \in SUBSET Conns /\ live \in SUBSET Conns
  /\ serve \in [Conns -> {"none", "own", "sweeping", "serving", "done"}]
  /\ sweep \in [by : Conns \cup {"none", "sync"}, todo : SUBSET Conns]
  /\ sweep.todo \subseteq live /\ syncs \in 0..work.syncs

\* Mutant: the end of the stream's context goes unnoticed.
MutDown(c) == c \notin up

\* The transport of c is at its end: reads fail.
Down(c) == c \notin up \/ (c = R /\ cancelled)

-----------------------------------------------------------------------------
(* Admission, with what it means for the transport. *)

Arrive(c) ==
  /\ c \in work.conns
  /\ Accepted(c) \/ AtCapacity(c)
  /\ UNCHANGED <<work, up, lifeVars, relayVars, connVars>>

\* handshake up to NewServerConn, which works under a deadline.
BeginHandshake(c) ==
  /\ \/ Startup(c) /\ UNCHANGED relayVars
     \/ LocalStartup(c) /\ UNCHANGED relayVars
     \/ Busy(c) /\ UNCHANGED relayVars
     \/ RelayedStartup(c) /\ SetDeadline(TRUE)
  /\ UNCHANGED <<work, up, lifeVars, connVars>>

\* NewServerConn has a connection, and the deadline is lifted...
HandshakeSucceeds(c) ==
  /\ ~Down(c)
  /\ HandshakeReturns(c, TRUE)
  /\ IF c = R THEN backend = "up" /\ SetDeadline(FALSE) ELSE UNCHANGED relayVars
  /\ UNCHANGED <<work, up, lifeVars, connVars>>

\* ...or it fails. A read of a relay whose backend is silent returns once it is cancelled.
HandshakeFails(c) ==
  /\ c = R => Down(c) \/ backend = "up"
  /\ HandshakeReturns(c, FALSE)
  /\ UNCHANGED <<work, up, lifeVars, relayVars, connVars>>

EndHandshake(c) ==
  /\ Release(c) \/ Uncount(c)
  /\ UNCHANGED <<work, up, lifeVars, relayVars, connVars>>

\* The deferred nc.Close comes before the slot is returned.
ReturnSlot(c) ==
  /\ c = R => closing["handler"] = "done"
  /\ SlotReturns(c)
  /\ UNCHANGED <<work, up, lifeVars, relayVars, connVars>>
-----------------------------------------------------------------------------
(* handleConn after the handshake, and DropRevoked. *)

Register(c) ==
  /\ stage[c] = "served" /\ serve[c] = "none" /\ sweep = Free
  /\ live' = live \cup {c}
  /\ serve' = [serve EXCEPT ![c] = "own"]
  /\ UNCHANGED <<work, up, syncs, sweep, admissionVars, relayVars, connVars>>

OwnSweep(c) ==
  /\ serve[c] = "own" /\ sweep = Free
  /\ \E todo \in SUBSET live : sweep' = [by |-> c, todo |-> todo]
  /\ serve' = [serve EXCEPT ![c] = "sweeping"]
  /\ UNCHANGED <<work, up, syncs, live, admissionVars, relayVars, connVars>>

\* The sweep of a sync, where it closes anything.
SyncSweep ==
  /\ sweep = Free /\ syncs < work.syncs
  /\ syncs' = syncs + 1
  /\ \E todo \in SUBSET live \ {{}} : sweep' = [by |-> "sync", todo |-> todo]
  /\ UNCHANGED <<work, up, serve, live, admissionVars, relayVars, connVars>>

SweepCloses(c) ==
  /\ c \in sweep.todo \ {R}
  /\ up' = up \ {c}
  /\ sweep' = [sweep EXCEPT !.todo = @ \ {c}]
  /\ UNCHANGED <<work, syncs, serve, live, admissionVars, relayVars, connVars>>

\* A relay's Close may wait for the backend, with liveMu held.
SweepClosesRelay ==
  /\ R \in sweep.todo
  /\ Close("sweep")
  /\ UNCHANGED <<work, up, lifeVars, admissionVars, connVars>>

SweepGoesOn ==
  /\ R \in sweep.todo
  /\ CloseAgain("sweep")
  /\ sweep' = [sweep EXCEPT !.todo = @ \ {R}]
  /\ UNCHANGED <<work, up, syncs, serve, live, admissionVars, connVars>>

SweepEnds ==
  /\ sweep # Free /\ sweep.todo = {}
  /\ sweep' = Free
  /\ serve' = [c \in Conns |-> IF c = sweep.by THEN "serving" ELSE serve[c]]
  /\ UNCHANGED <<work, up, syncs, live, admissionVars, relayVars, connVars>>

\* The channels have ended with the transport; out of the live set.
Unregister(c) ==
  /\ serve[c] = "serving" /\ Down(c) /\ sweep = Free
  /\ IF c = Focus THEN Gone ELSE UNCHANGED connVars
  /\ live' = live \ {c}
  /\ serve' = [serve EXCEPT ![c] = "done"]
  /\ Leaves(c)
  /\ UNCHANGED <<work, up, syncs, sweep, relayVars>>

\* The deferred closes of handleConn, or ServeConn's when there is no slot. The second of
\* them finds the stream cancelled.
HandlerCloses ==
  /\ stage[R] = "leaving" \/ (stage[R] = "gone" /\ serve[R] = "none")
  /\ Close("handler")
  /\ UNCHANGED <<work, up, lifeVars, admissionVars, connVars>>

\* A probe of keepAlive went unanswered: its timer closes the connection.
AliveCloses ==
  /\ serve[R] = "serving"
  /\ Close("alive")
  /\ UNCHANGED <<work, up, lifeVars, admissionVars, connVars>>
-----------------------------------------------------------------------------
(* The rest of the relay and of the connection. *)

Writing ==
  /\ stage[R] \in {"hello", "served"} /\ Write
  /\ UNCHANGED <<work, up, lifeVars, admissionVars, connVars>>

SendReturns ==
  /\ Sent \/ WriteFailed \/ (\E k \in Closers : ClosedSent(k) \/ CloseReturns(k))
  /\ UNCHANGED <<work, up, lifeVars, admissionVars, connVars>>

DeadlineFires ==
  /\ DeadlinePasses
  /\ UNCHANGED <<work, up, lifeVars, admissionVars, connVars>>

\* runRelay is not through.
RelayRuns == stage[R] # "away" /\ closing["handler"] # "done"

TTLPasses ==
  /\ RelayRuns /\ Expires
  /\ UNCHANGED <<work, up, lifeVars, admissionVars, connVars>>

BackendSilent ==
  /\ RelayRuns /\ FallsSilent
  /\ UNCHANGED <<work, up, lifeVars, admissionVars, connVars>>

\* The client leaves, or keepAlive drops it.
HangsUp(c) ==
  /\ c \in up /\ stage[c] \notin {"away", "gone"}
  /\ up' = up \ {c}
  /\ UNCHANGED <<work, lifeVars, admissionVars, relayVars, connVars>>

Elsewhere == UNCHANGED <<work, up, lifeVars, admissionVars, relayVars>>

\* What the client of Focus does with its connection.
FocusClient ==
  /\ serve[Focus] \in {"serving", "done"}
  /\ \/ \E c \in work.channels : NewChannel(c) \/ AgentRequest(c) \/ AgentAccept(c)
     \/ \E op \in {"forward", "cancel"}, p \in work.ports : TakeRequest(op, p)
     \/ Accept
  /\ Elsewhere

\* The connection of Focus notices that the transport is closed, and is torn down.
FocusEnds ==
  \/ serve[Focus] = "serving" /\ Focus \notin up /\ TransportCloses
  \/ LoopEnds \/ Teardown

\* What goes on after its end as well.
FocusServer ==
  /\ \/ \E c \in Channels : ServeReturns(c) \/ AgentCloses(c)
     \/ AgentReturns \/ Forward \/ ForwardRefused \/ Cancel \/ ForwardedReturns \/ AcceptEnds
     \/ \E p \in Ports : AcceptFails(p)
     \/ FocusEnds
  /\ Elsewhere

\* What the far ends of its forwards do. Before the transport is closed nobody waits for a
\* channel, and a stalled one is no different from one that goes on.
FocusPeers ==
  /\ ~open
  /\ (\E c \in Channels : PeerStalls(c) \/ PeerResumes(c)) \/ ForwardedStalls \/ ForwardedResumes
  /\ Elsewhere
-----------------------------------------------------------------------------
ServerInit ==
  /\ Init /\ AdmissionInit /\ RelayInit
  /\ work \in Workloads
  /\ up = Conns /\ serve = [c \in Conns |-> "none"] /\ live = {}
  /\ syncs = 0 /\ sweep = Free

HandlerNext(c) ==
  \/ Register(c) \/ OwnSweep(c) \/ Unregister(c) \/ SweepCloses(c)
  \/ BeginHandshake(c) \/ EndHandshake(c) \/ ReturnSlot(c)

CloseNext == SweepClosesRelay \/ SweepGoesOn \/ SweepEnds \/ HandlerCloses \/ SendReturns

ServerNext ==
  \/ \E c \in work.conns : Arrive(c) \/ HandshakeSucceeds(c) \/ HandshakeFails(c) \/ HangsUp(c)
  \/ \E c \in work.conns : HandlerNext(c)
  \/ SyncSweep \/ CloseNext \/ AliveCloses
  \/ Writing \/ DeadlineFires \/ TTLPasses \/ BackendSilent
  \/ FocusClient \/ FocusServer \/ FocusPeers

ServerSpec == ServerInit /\ [][ServerNext]_serverVars

(***************************************************************************)
(* Fairness: the goroutines run, and so do the timers: the deadline of a   *)
(* handshake, the one of keepAlive when the backend is silent, and the TTL *)
(* of the relay.  The TTL is hours, so it is relied on only where nothing  *)
(* shorter is there: not in the handshake, and not while a sweep is in the *)
(* Close of a connection that has its keepAlive.  A channel of a           *)
(* connection that is closed returns unless the far end of its forward is  *)
(* stalled; nothing makes a stalled one move, so the properties that wait  *)
(* for the channels assume that in the end they do (PeersMove).  The       *)
(* channels of the connections other than Focus are not modelled, and are  *)
(* taken to return.                                                        *)
(***************************************************************************)
Timers ==
  \/ \E c \in work.conns : HandshakeFails(c)
  \/ DeadlineFires
  \/ backend = "silent" /\ AliveCloses
  \/ serve[R] # "none" /\ (serve[R] = "serving" => sweep = Free) /\ TTLPasses

ServerFairness ==
  /\ WF_serverVars((\E c \in work.conns : HandlerNext(c)) \/ CloseNext \/ Timers)
  /\ WF_serverVars(FocusEnds /\ Elsewhere)
  /\ WF_serverVars(~open /\ (\E c \in Channels : ServeReturns(c)) /\ Elsewhere)
  /\ WF_serverVars((AcceptEnds \/ (~open /\ ForwardedReturns)) /\ Elsewhere)

FairServerSpec == ServerSpec /\ ServerFairness
-----------------------------------------------------------------------------
(* Properties. *)

\* Handshakes end and give their pre-auth slots back, whatever the client does and even
\* when the backend of a relay goes silent in the middle of one (relayConn.SetDeadline).
HandshakesEnd ==
  (\E c \in Conns : stage[c] = "hello")
    ~> (\A c \in Conns : stage[c] \notin {"hello", "release", "uncount"})

\* DropRevoked comes to its end, and gives liveMu back, although it closes connections
\* with the lock held and the Close of a relay may wait for a backend that is silent.
SweepsEnd == sweep # Free ~> sweep = Free

\* The connections whose client is gone end and return their slots, and so does a relayed
\* one in any case: "A relayed one ends after 8 hours at most" (SECURITY.md:99). handleConn
\* waits for its channels, so this too is under PeersMove.
Bound(c) == stage[c] \notin {"away", "gone"} /\ (c \notin up \/ c = R)
ConnectionsEnd ==
  <>[]PeersMove => ((\E c \in Conns : Bound(c)) ~> (\A c \in Conns : ~Bound(c)))
=============================================================================
