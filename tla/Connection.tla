----------------------------- MODULE Connection -----------------------------
(***************************************************************************)
(* One authenticated connection: its channel slots, its remote forwards    *)
(* and its teardown (handleConn in internal/sshd/server.go, connState and  *)
(* the forwards in internal/sshd/forward.go, the agent sockets in          *)
(* internal/sshd/agent.go).                                                *)
(*                                                                         *)
(* Three kinds of goroutine share the connState: the channel loop with the *)
(* channels it serves, the one that answers global requests, and one       *)
(* accept loop per listener with the connections it takes.  A channel      *)
(* stands for a session or a direct-tcpip forward, a listener for the port *)
(* it is bound to; the host part of an address follows GatewayPorts.       *)
(***************************************************************************)
EXTENDS Naturals, FiniteSets

CONSTANTS
  Channels,      \* channels the client may have open
  Ports,         \* the ports forwards are bound to
  Limit          \* maxChannels

ASSUME LimitAssumption == Limit \in Nat \ {0}
ASSUME FiniteAssumption == IsFiniteSet(Channels) /\ IsFiniteSet(Ports)

VARIABLES
  open,          \* the transport is open
  handler,       \* handleConn: serving, waiting (wg.Wait), torn (st.close ran), gone
  slots,         \* len(st.channels)
  served,        \* the channels being served
  agent,         \* channels whose session's agent socket is open
  request,       \* the global request in hand, with the policy read for it
  forwards,      \* st.forwards: addresses, each a host and a port
  listening,     \* the ports whose listener is open
  accepting,     \* those of them whose accept loop runs
  ending,        \* accept loops whose listener is closed and that have yet to return
  accepted,      \* forwarded connections in progress
  agents,        \* agent connections in progress
  stalled,       \* external: channels whose far end neither reads, nor sends, nor closes
  stuck          \* external: how many of the forwarded connections are so

chanVars == <<served, agent, agents, stalled>>
fwdVars == <<forwards, listening, accepting, ending, accepted, stuck>>
vars == <<open, handler, slots, chanVars, request, fwdVars>>

Hosts == {"loopback", "any"}
NoRequest == [op |-> "none"]
Request == {NoRequest} \cup
  [op : {"forward", "cancel"}, port : Ports \cup {0}, gateway : BOOLEAN]

TypeOK ==
  /\ open \in BOOLEAN
  /\ handler \in {"serving", "waiting", "torn", "gone"}
  /\ slots \in 0..Limit
  /\ served \in SUBSET Channels /\ agent \in SUBSET Channels /\ agents \in 0..Limit
  /\ request \in Request
  /\ forwards \in SUBSET (Hosts \X Ports) /\ listening \in SUBSET Ports
  /\ accepting \in SUBSET listening
  /\ ending \in 0..Limit /\ accepted \in 0..Limit
  /\ stalled \in SUBSET served /\ stuck \in 0..accepted
-----------------------------------------------------------------------------
\* Mutant: the cap is not checked.
MutAcquireChannel == slots' = slots + 1

AcquireChannel == slots < Limit /\ slots' = slots + 1
ReleaseChannel == slots' = slots - 1
-----------------------------------------------------------------------------
(* The channel loop. What the transport had queued when it closed is still *)
(* served.                                                                 *)

\* A channel without a slot is rejected, which changes nothing.
NewChannel(c) ==
  /\ handler = "serving" /\ c \notin served \cup agent
  /\ AcquireChannel
  /\ served' = served \cup {c}
  /\ UNCHANGED <<open, handler, agent, agents, stalled, request, fwdVars>>

\* serve returns: the session or the forward is over, or was refused. A forward is over when
\* both of its copies have returned: one of them may be in a write its peer does not take and
\* the other in a read of that peer, and then neither notices the end of the transport.
ServeReturns(c) ==
  /\ c \in served \ stalled
  /\ served' = served \ {c}
  /\ ReleaseChannel
  /\ UNCHANGED <<open, handler, agent, agents, stalled, request, fwdVars>>

\* agentRequest: the socket itself takes no slot.
AgentRequest(c) ==
  /\ c \in served \ agent
  /\ agent' = agent \cup {c}
  /\ UNCHANGED <<open, handler, slots, served, agents, stalled, request, fwdVars>>

\* serveAgent takes a connection. One without a slot is closed.
AgentAccept(c) ==
  /\ c \in agent
  /\ AcquireChannel
  /\ agents' = agents + 1
  /\ UNCHANGED <<open, handler, served, agent, stalled, request, fwdVars>>

\* The session's context is done: its AfterFunc closes the socket, in its own time.
AgentCloses(c) ==
  /\ c \in agent \ served
  /\ agent' = agent \ {c}
  /\ UNCHANGED <<open, handler, slots, served, agents, stalled, request, fwdVars>>

\* relayAgentConn returns, once both directions have ended.
AgentReturns ==
  /\ agents > 0
  /\ agents' = agents - 1
  /\ ReleaseChannel
  /\ UNCHANGED <<open, handler, served, agent, stalled, request, fwdVars>>
-----------------------------------------------------------------------------
(* Global requests, one at a time. The policy is read before st.mu is taken. *)

ForwardAddr(gw, port) == <<IF gw THEN "any" ELSE "loopback", port>>

\* tcpipForward and cancelTCPIPForward up to the lock. A sync may change the policy before
\* each of them: GatewayPorts is what it is now, and without AllowForwarding a forward is
\* refused. Requests queued when the transport closed are still answered, and handleConn
\* does not wait for them.
TakeRequest(op, port) ==
  /\ request = NoRequest
  /\ \E gateway \in BOOLEAN : request' = [op |-> op, port |-> port, gateway |-> gateway]
  /\ UNCHANGED <<open, handler, slots, chanVars, fwdVars>>

\* Listen gets the port that was asked for, or any free one for port 0.
FreePorts(port) == {p \in Ports \ listening : port = 0 \/ p = port}

\* Mutant: a forward does not ask whether teardown has run.
MutForward ==
  /\ request.op = "forward"
  /\ ForwardAddr(request.gateway, request.port) \notin forwards
  /\ AcquireChannel
  /\ \E p \in FreePorts(request.port) :
       /\ listening' = listening \cup {p} /\ accepting' = accepting \cup {p}
       /\ forwards' = forwards \cup {ForwardAddr(request.gateway, p)}
  /\ request' = NoRequest
  /\ UNCHANGED <<open, handler, chanVars, ending, accepted, stuck>>

\* The rest of tcpipForward, under st.mu. Teardown has set the map to nil.
Forward ==
  /\ request.op = "forward"
  /\ handler \in {"serving", "waiting"}
  /\ ForwardAddr(request.gateway, request.port) \notin forwards
  /\ AcquireChannel
  /\ \E p \in FreePorts(request.port) :
       /\ listening' = listening \cup {p} /\ accepting' = accepting \cup {p}
       /\ forwards' = forwards \cup {ForwardAddr(request.gateway, p)}
  /\ request' = NoRequest
  /\ UNCHANGED <<open, handler, chanVars, ending, accepted, stuck>>

\* Refused: teardown, the address is taken, no slot, or Listen fails.
ForwardRefused ==
  /\ request.op = "forward"
  /\ request' = NoRequest
  /\ UNCHANGED <<open, handler, slots, chanVars, fwdVars>>

\* The listeners of these ports are closed: an accept loop that runs on one has yet to see it.
StopAccepting(ports) ==
  /\ accepting' = accepting \ ports
  /\ ending' = ending + Cardinality(accepting \cap ports)

\* The rest of cancelTCPIPForward.
Cancel ==
  LET addr == ForwardAddr(request.gateway, request.port) IN
  /\ request.op = "cancel"
  /\ \/ /\ addr \in forwards
        /\ forwards' = forwards \ {addr}
        /\ listening' = listening \ {request.port} /\ StopAccepting({request.port})
     \/ addr \notin forwards /\ UNCHANGED <<forwards, listening, accepting, ending>>
  /\ request' = NoRequest
  /\ UNCHANGED <<open, handler, slots, chanVars, accepted, stuck>>

-----------------------------------------------------------------------------
(* acceptForwarded. *)

\* A connection arrives at a listener. One without a slot is closed.
Accept ==
  /\ accepting # {}
  /\ AcquireChannel
  /\ accepted' = accepted + 1
  /\ UNCHANGED <<open, handler, chanVars, request, forwards, listening, accepting, ending, stuck>>

\* Its channel is refused, or both copies of proxy have returned.
ForwardedReturns ==
  /\ accepted > stuck
  /\ accepted' = accepted - 1
  /\ ReleaseChannel
  /\ UNCHANGED <<open, handler, chanVars, request, forwards, listening, accepting, ending, stuck>>

\* Mutant: the accept loop keeps the listener's slot.
MutAcceptEnds ==
  /\ ending > 0
  /\ ending' = ending - 1
  /\ UNCHANGED <<open, handler, slots, chanVars, request, forwards, listening, accepting,
                 accepted, stuck>>

\* Accept fails on the closed listener...
AcceptEnds ==
  /\ ending > 0
  /\ ending' = ending - 1
  /\ ReleaseChannel
  /\ UNCHANGED <<open, handler, chanVars, request, forwards, listening, accepting, accepted,
                 stuck>>

\* ...or on an open one, when the process is out of descriptors. The loop ends and returns
\* its slot all the same, and leaves the listener open and in the map.
AcceptFails(p) ==
  /\ p \in accepting
  /\ accepting' = accepting \ {p}
  /\ ReleaseChannel
  /\ UNCHANGED <<open, handler, chanVars, request, forwards, listening, ending, accepted, stuck>>
-----------------------------------------------------------------------------
(* The far ends of the forwards, which are not the client's: external. *)

PeerStalls(c) ==
  /\ c \in served \ stalled
  /\ stalled' = stalled \cup {c}
  /\ UNCHANGED <<open, handler, slots, served, agent, agents, request, fwdVars>>

PeerResumes(c) ==
  /\ c \in stalled
  /\ stalled' = stalled \ {c}
  /\ UNCHANGED <<open, handler, slots, served, agent, agents, request, fwdVars>>

ForwardedStalls ==
  /\ stuck < accepted
  /\ stuck' = stuck + 1
  /\ UNCHANGED <<open, handler, slots, chanVars, request, forwards, listening, accepting, ending,
                 accepted>>

ForwardedResumes ==
  /\ stuck > 0
  /\ stuck' = stuck - 1
  /\ UNCHANGED <<open, handler, slots, chanVars, request, forwards, listening, accepting, ending,
                 accepted>>
-----------------------------------------------------------------------------
(* The end of the connection. *)

\* The client leaves, keepAlive gives up, or DropRevoked closes it.
TransportCloses ==
  /\ open
  /\ open' = FALSE
  /\ UNCHANGED <<handler, slots, chanVars, request, fwdVars>>

\* The channel loop ends, wg.Wait starts.
LoopEnds ==
  /\ handler = "serving" /\ ~open
  /\ handler' = "waiting"
  /\ UNCHANGED <<open, slots, chanVars, request, fwdVars>>

\* Mutant: teardown waits for the listeners too.
MutTeardown ==
  /\ handler = "waiting" /\ slots = 0
  /\ handler' = "torn"
  /\ forwards' = {}
  /\ UNCHANGED <<open, slots, chanVars, request, listening, accepting, ending, accepted, stuck>>

\* Every channel has returned: st.close closes the listeners and drops the map.
Teardown ==
  /\ handler = "waiting" /\ served = {}
  /\ handler' = "torn"
  /\ listening' = listening \ {a[2] : a \in forwards}
  /\ StopAccepting({a[2] : a \in forwards})
  /\ forwards' = {}
  /\ UNCHANGED <<open, slots, chanVars, request, accepted, stuck>>

\* The last deferred calls: out of the live set, the transport closed again.
Gone ==
  /\ handler = "torn"
  /\ handler' = "gone"
  /\ UNCHANGED <<open, slots, chanVars, request, fwdVars>>

Init ==
  /\ open = TRUE /\ handler = "serving" /\ slots = 0
  /\ served = {} /\ agent = {} /\ agents = 0
  /\ request = NoRequest
  /\ forwards = {} /\ listening = {} /\ accepting = {} /\ ending = 0 /\ accepted = 0
  /\ stalled = {} /\ stuck = 0

Next ==
  \/ \E c \in Channels : NewChannel(c) \/ ServeReturns(c) \/ AgentRequest(c)
  \/ \E c \in Channels : AgentAccept(c) \/ AgentCloses(c)
  \/ AgentReturns
  \/ \E op \in {"forward", "cancel"}, p \in Ports \cup {0} : TakeRequest(op, p)
  \/ Forward \/ ForwardRefused \/ Cancel
  \/ Accept \/ ForwardedReturns \/ AcceptEnds
  \/ \E p \in Ports : AcceptFails(p)
  \/ \E c \in Channels : PeerStalls(c) \/ PeerResumes(c)
  \/ ForwardedStalls \/ ForwardedResumes
  \/ TransportCloses \/ LoopEnds \/ Teardown \/ Gone

Spec == Init /\ [][Next]_vars
-----------------------------------------------------------------------------
(***************************************************************************)
(* "Channels are capped per connection. Sessions, port forwards and agent  *)
(* forwards count [...] for the life of each channel. The listener of a    *)
(* remote forward takes a slot as well, for as long as it is open"         *)
(* (SECURITY.md:111): the slots taken are those of what is open or has yet *)
(* to return, in every interleaving of the loops that take and give them.  *)
(* The slot of a listener is its accept loop's: a listener that Accept     *)
(* failed on stays open without one.                                       *)
(***************************************************************************)
SlotsAccounted ==
  slots = Cardinality(served) + Cardinality(accepting) + ending + accepted + agents

(***************************************************************************)
(* Every open listener is in the map, where a cancel and the teardown find *)
(* it, and none is opened after the teardown, although requests that were  *)
(* queued are answered later and handleConn does not wait for them         *)
(* (forward.go:138: "A nil map means teardown").                           *)
(***************************************************************************)
NoOrphanListener ==
  /\ listening = {a[2] : a \in forwards}
  /\ Cardinality(listening) = Cardinality(forwards)
  /\ handler \in {"torn", "gone"} => listening = {}

\* No far end of a forward is stalled any more.
PeersMove == stalled = {} /\ stuck = 0

(***************************************************************************)
(* A connection whose transport is closed is torn down: its goroutine ends *)
(* and none of its forwards goes on, whatever was queued or in progress.   *)
(* That takes the far ends of its forwards: proxy has no deadline, so one  *)
(* that neither reads nor sends nor closes keeps its forward, and the      *)
(* handleConn that waits for it, until it does.                            *)
(***************************************************************************)
TeardownCompletes ==
  <>[]PeersMove =>
    (~open ~> [](handler = "gone" /\ listening = {} /\ ending = 0 /\ accepted = 0))
=============================================================================
