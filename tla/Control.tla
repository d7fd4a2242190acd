------------------------------- MODULE Control -------------------------------
(***************************************************************************)
(* How a decision of the core reaches the host: Client.Run with its first  *)
(* sync, its control stream and its reconnects (internal/client/client.go  *)
(* and connect.go), the heartbeats that report the cached state version,   *)
(* and the sync of Access, which each of them runs.                        *)
(*                                                                         *)
(* One run of the daemon, from whatever list an earlier run saved.  The    *)
(* core is external: its successive lists are the sequence CoreLists, a    *)
(* list's version its index, and version 0 stands for no list.  It may     *)
(* poke the daemon when its list changes, and pokes it when a heartbeat    *)
(* reports another version than the current one.                           *)
(***************************************************************************)
EXTENDS AccessGate, Sequences

CONSTANTS
  CoreLists,
  Deleted,     \* what the core has instead of a list for a deleted daemon
  Quiet,       \* no heartbeat under way
  Workloads    \* who connects, and what may happen

Versions == 1..Len(CoreLists)

ASSUME ControlAssumption ==
  /\ CoreLists \in Seq(Answers) /\ CoreLists # <<>>
  /\ Deleted \notin 0..Len(CoreLists) /\ Quiet \notin 0..Len(CoreLists) /\ Quiet # Deleted
  /\ \A w \in Workloads : w.conns \subseteq Conns /\ w.versions \in Versions

VARIABLES
  work,      \* the workload of this behaviour
  core,      \* the version the core would answer with
  loc,       \* where Client.Run is
  stream,    \* the control stream
  poke,      \* a StateUpdate is on its way (a second one adds nothing)
  beat,      \* the version in the heartbeat that is on its way
  got,       \* the version of the answer being applied
  version    \* cacheJSON.StateVersion

streamVars == <<stream, poke, beat>>
runVars == <<vars, work, core, loc, streamVars, got, version>>
controlVars == <<runVars, inForce>>

Locs == {"start", "first", "dial", "receive", "update", "backoff", "resync", "end"}

ControlTypeOK ==
  /\ TypeOK
  /\ core \in Versions \cup {Deleted}
  /\ loc \in Locs
  /\ stream \in {"none", "up", "broken"}
  /\ poke \in BOOLEAN
  /\ beat \in 0..Len(CoreLists) \cup {Quiet}
  /\ got \in 0..Len(CoreLists) /\ version \in 0..Len(CoreLists)
-----------------------------------------------------------------------------
(* The core. *)

CoreChanges ==
  /\ core # Deleted
  /\ \/ core < work.versions /\ core' = core + 1
     \/ work.deletes /\ core' = Deleted
  /\ poke' \in IF stream = "up" THEN {poke, TRUE} ELSE {poke}
  /\ UNCHANGED <<vars, work, loc, stream, beat, got, version>>

CoreHears ==
  /\ beat # Quiet
  /\ beat' = Quiet
  /\ poke' = (poke \/ beat # core)
  /\ UNCHANGED <<vars, work, core, loc, stream, got, version>>
-----------------------------------------------------------------------------
(* Client.Run and runControlStream. *)

Boot ==
  /\ loc = "start" /\ loc' = "first"
  /\ Start
  /\ UNCHANGED <<work, core, streamVars, got, version>>

\* Connect returns before the core answers; the first heartbeat goes out at once.
Dial ==
  /\ loc = "dial"
  /\ \/ /\ core # Deleted /\ work.streams
        /\ loc' = "receive"
        /\ stream' = "up" /\ poke' = FALSE /\ beat' = version
     \/ /\ core = Deleted \/ work.faults \/ ~work.streams
        /\ loc' = "backoff"
        /\ UNCHANGED streamVars
  /\ UNCHANGED <<vars, work, core, got, version>>

\* What was sent before the stream broke may still be received.
StreamBreaks ==
  /\ stream = "up" /\ (work.faults \/ core = Deleted)
  /\ stream' = "broken" /\ beat' = Quiet
  /\ poke' \in {poke, FALSE}
  /\ UNCHANGED <<vars, work, core, loc, got, version>>

\* Mutant: only the first heartbeat carries the version.
MutHeartbeat ==
  /\ stream = "up" /\ beat = Quiet
  /\ beat' = Quiet
  /\ UNCHANGED <<vars, work, core, loc, stream, poke, got, version>>

\* The ticker of sendHeartbeats.
Heartbeat ==
  /\ stream = "up" /\ beat = Quiet
  /\ beat' = version
  /\ UNCHANGED <<vars, work, core, loc, stream, poke, got, version>>

ReceiveUpdate ==
  /\ loc = "receive" /\ poke
  /\ loc' = "update" /\ poke' = FALSE
  /\ UNCHANGED <<vars, work, core, stream, beat, got, version>>

ReceiveFails ==
  /\ loc = "receive" /\ stream = "broken" /\ ~poke
  /\ loc' = "backoff" /\ stream' = "none"
  /\ UNCHANGED <<vars, work, core, poke, beat, got, version>>

\* time.After(next), then a sync before the next dial.
BackoffEnds ==
  /\ loc = "backoff"
  /\ loc' = "resync"
  /\ UNCHANGED <<vars, work, core, streamVars, got, version>>
-----------------------------------------------------------------------------
(* The sync of Access, as Client.Run and runControlStream call it. *)

\* Where its caller goes on, whatever error but errDaemonRejected it returns.
Resume == loc' = IF loc = "update" THEN "receive" ELSE "dial"

Sync ==
  /\ loc \in {"first", "update", "resync"}
  /\ SyncStart
  /\ UNCHANGED <<work, core, loc, streamVars, got, version>>

Fails ==
  /\ work.faults
  /\ SyncFailed
  /\ Resume
  /\ UNCHANGED <<work, core, streamVars, got, version>>

Answered ==
  /\ core # Deleted
  /\ SyncAnswered /\ answer' = CoreLists[core]
  /\ got' = core
  /\ UNCHANGED <<work, core, loc, streamVars, version>>

\* Mutant: a REJECTED answer is taken for one with a list.
MutRejected ==
  /\ core = Deleted
  /\ SyncRejected
  /\ got' = core
  /\ UNCHANGED <<work, core, loc, streamVars, version>>

Rejected ==
  /\ core = Deleted
  /\ SyncRejected
  /\ UNCHANGED <<work, core, loc, streamVars, got, version>>

\* Replace stores the version with the list, Clear drops it.
Store ==
  \/ Replace /\ version' = got /\ got' = 0 /\ UNCHANGED <<work, core, loc, streamVars>>
  \/ ClearCache /\ version' = 0 /\ UNCHANGED <<work, core, loc, streamVars, got>>

Apply ==
  /\ SetPolicy \/ SetTrust \/ SyncSweepDone \/ SaveClearedCache \/ SaveClearedConfig
  /\ UNCHANGED <<work, core, loc, streamVars, got, version>>

TakeLive ==
  /\ SyncSweep
  /\ UNCHANGED <<work, core, loc, streamVars, got, version>>

Saved ==
  /\ SaveCache
  /\ Resume
  /\ UNCHANGED <<work, core, streamVars, got, version>>

\* errDaemonRejected ends Run, and with it the stream.
RunEnds ==
  /\ Exit
  /\ loc' = "end"
  /\ stream' = "none" /\ poke' = FALSE /\ beat' = Quiet
  /\ UNCHANGED <<work, core, got, version>>
-----------------------------------------------------------------------------
Elsewhere == UNCHANGED <<work, core, loc, streamVars, got, version>>

Visit == (\E c \in work.conns : SweepPrincipal(c) \/ SweepCA(c) \/ OwnSweepDone(c)) /\ Elsewhere

Connects(c) == ConnNext(c) /\ Elsewhere

ControlInit ==
  /\ HistoryInit
  /\ work \in Workloads
  /\ enrolled
  /\ version \in {v \in 0..1 : disk = IF v = 0 THEN EmptyList ELSE CoreLists[v]}
  /\ core = 1 /\ loc = "start"
  /\ stream = "none" /\ poke = FALSE /\ beat = Quiet
  /\ got = 0

CoreNext == CoreChanges \/ CoreHears
RunNext == Boot \/ Dial \/ StreamBreaks \/ Heartbeat \/ ReceiveUpdate \/ ReceiveFails \/ BackoffEnds
SyncsNext == Sync \/ Fails \/ Answered \/ Rejected \/ Store \/ Apply \/ TakeLive \/ Saved \/ RunEnds

ControlNext ==
  /\ CoreNext \/ RunNext \/ SyncsNext \/ Visit \/ \E c \in work.conns : Connects(c)
  /\ inForce' = IF Commits THEN Current' ELSE inForce

ControlSpec == ControlInit /\ [][ControlNext]_controlVars

\* A step of the goroutine of Client.Run that depends on nobody else.
RunGoesOn ==
  \/ Dial \/ ReceiveUpdate \/ ReceiveFails \/ BackoffEnds
  \/ Sync \/ Store \/ Apply \/ Saved \/ RunEnds

(***************************************************************************)
(* Fairness: the goroutines run.  An answer that has arrived is applied, a *)
(* sweep that holds liveMu goes on, a connection that is registered sweeps *)
(* and a closed one leaves.  Taking liveMu is strongly fair, because a     *)
(* sync.Mutex hands itself to its longest waiter after 1 ms.  A handshake  *)
(* has a deadline (server.go:294), so it ends in one way or the other.     *)
(* The ticker of the heartbeats fires, a message on a stream arrives       *)
(* unless the stream breaks, and of infinitely many syncs one is answered: *)
(* each one gives up after syncTimeout, and another one follows.  Nothing  *)
(* is assumed of clients, and the stream may break at any time.            *)
(***************************************************************************)
ControlFairness ==
  /\ WF_runVars(RunGoesOn) /\ WF_runVars(Heartbeat) /\ WF_runVars(CoreHears)
  /\ WF_runVars(Visit)
  /\ SF_runVars(Answered \/ Rejected) /\ SF_runVars(TakeLive)
  /\ \A c \in Conns : /\ WF_runVars((HandshakeFails(c) \/ Register(c)) /\ Elsewhere)
                      /\ SF_runVars(OwnSweep(c) /\ Elsewhere)
                      /\ SF_runVars(Leave(c) /\ Elsewhere)

FairControlSpec == ControlSpec /\ ControlFairness
-----------------------------------------------------------------------------
\* The host has what the core would answer now.
Obeyed == IF core = Deleted THEN ~up ELSE version = core /\ Settled

(***************************************************************************)
(* What the core decided reaches the host: the list it settles on comes    *)
(* into force, and a daemon it deleted stops, although a sync that a       *)
(* StateUpdate asked for may fail and is only logged (connect.go:40), the  *)
(* update may be lost with its stream, and the list may change again while *)
(* an older one is being applied ("A daemon deleted while offline gets no  *)
(* stream and no poke, only a sync tells it to stop", client.go:208).      *)
(***************************************************************************)
CoreIsObeyed == up ~> Obeyed
=============================================================================
