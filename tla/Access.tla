------------------------------- MODULE Access -------------------------------
(***************************************************************************)
(* Who may log in, and which open connections a revoke closes: the access  *)
(* cache (internal/state/cache.go), the CA trust and certificate check     *)
(* (internal/sshd/auth.go), the set of live connections with its sweep     *)
(* DropRevoked (internal/sshd/server.go), the sync that changes all of     *)
(* them (internal/client/sync.go) and the start-up that reloads them from  *)
(* disk (main.go).                                                         *)
(*                                                                         *)
(* One syncer goroutine, one goroutine per connection.  Each critical      *)
(* section of the code (cache.mu, Server.mu) is one step; liveMu, which    *)
(* is held across a whole sweep, is the variable sweep.                    *)
(*                                                                         *)
(* Data: the core's answers are drawn from the constant Answers; a CA key  *)
(* is a member of CAs, NoCA (the empty string) or Garbled (a string that   *)
(* ParseAuthorizedKey refuses); a garbled retired key is skipped by the    *)
(* code and is absent here.  Time is a counter, and a retired CA's         *)
(* deadline 0 stands for "not retired".                                    *)
(***************************************************************************)
EXTENDS Naturals

CONSTANTS Conns, Users, ValidUsers, Principals, CAs, NoCA, Garbled,
          Flags, DefaultPolicy, Answers, Nil, Syncer,
          MaxTime   \* bound on the clock

(***************************************************************************)
(* An access list, as SyncDaemon answers it and as cacheJSON stores it.    *)
(* The state version only travels in heartbeats and is left out.           *)
(***************************************************************************)
List == [principals : [Users -> SUBSET Principals],
         config     : [Flags -> {"unset", "on", "off"}],
         ca         : CAs \cup {NoCA, Garbled},
         retired    : [CAs -> Nat]]

EmptyList == [principals |-> [u \in Users |-> {}],
              config     |-> [f \in Flags |-> "unset"],
              ca         |-> NoCA,
              retired    |-> [k \in CAs |-> 0]]

ASSUME AnswersAssumption == Answers \subseteq List
ASSUME UsersAssumption == ValidUsers \subseteq Users
ASSUME PolicyAssumption == DefaultPolicy \in [Flags -> BOOLEAN]
ASSUME NilAssumption == Nil \notin Conns \cup {Syncer} /\ Syncer \notin Conns
ASSUME CAsAssumption == NoCA \notin CAs /\ Garbled \notin CAs /\ NoCA # Garbled

VARIABLES
  up,         \* the daemon process runs
  enrolled,   \* config.json holds an enrollment
  disk,       \* what cache.json loads as (a corrupted file loads as EmptyList)
  cache,      \* Cache.data
  policy,     \* Server.policy
  trustedCAs, retiredCAs,   \* Server.trustedCAs, Server.retiredCAs
  pc,         \* where the goroutine that syncs is in syncDaemon
  answer,     \* the answer it is applying
  phase,      \* where each connection's goroutine is in handleConn
  login,      \* what its permissions recorded: account, CA, matched principal
  live,       \* Server.live
  closed,     \* connections whose transport is closed
  sweep,      \* liveMu: who runs DropRevoked, what it has still to visit
  now,
  sweptAt     \* history: when the syncer last began DropRevoked

daemonVars == <<up, enrolled, disk>>
serverVars == <<cache, policy, trustedCAs, retiredCAs>>
syncVars   == <<pc, answer>>
connVars   == <<phase, login, live, closed>>
vars == <<daemonVars, serverVars, syncVars, connVars, sweep, now, sweptAt>>

NoLogin == [user |-> Nil, ca |-> Nil, principal |-> Nil]
NoSweep == [by |-> Nil, todo |-> {}, cur |-> Nil]

Phases == {"none", "trusted", "matched", "registered", "sweeping", "serving"}
Applying == {"replace", "policy", "trust", "sweep", "sweeping"}
Rejecting == {"clear", "clearCache", "clearConfig", "exit"}
PCs == {"idle", "waiting", "save"} \cup Applying \cup Rejecting

TypeOK ==
  /\ up \in BOOLEAN /\ enrolled \in BOOLEAN
  /\ disk \in List /\ cache \in List
  /\ policy \in [Flags -> BOOLEAN]
  /\ trustedCAs \in SUBSET CAs /\ retiredCAs \in [CAs -> Nat]
  /\ pc \in PCs /\ answer \in List
  /\ phase \in [Conns -> Phases]
  /\ login \in [Conns -> [user : Users \cup {Nil}, ca : CAs \cup {Nil},
                          principal : Principals \cup {Nil}]]
  /\ live \in SUBSET Conns /\ closed \in SUBSET Conns
  /\ sweep \in [by : Conns \cup {Syncer, Nil}, todo : SUBSET Conns,
                cur : Conns \cup {Nil}]
  /\ now \in Nat /\ sweptAt \in Nat
-----------------------------------------------------------------------------
(* state/cache.go and sshd/server.go: what applying a list computes. *)

ValidPrincipals(m) == [u \in Users |-> IF u \in ValidUsers THEN m[u] ELSE {}]

\* Mutant: the list is stored as it came.
MutReplaced(l) == l

Replaced(l) == [l EXCEPT !.principals = ValidPrincipals(l.principals)]

\* A flag the core leaves unset keeps its default.
PolicyFrom(cfg) ==
  [f \in Flags |-> IF cfg[f] = "unset" THEN DefaultPolicy[f] ELSE cfg[f] = "on"]

\* Mutant: the empty key is taken for a key.
MutTrustedBy(active, previous) == IF active = Garbled THEN previous ELSE {active}

(* SetTrust: a garbled active key keeps the previous trust, retired included. *)
TrustedBy(active, previous) ==
  CASE active = Garbled -> previous
    [] active = NoCA    -> {}
    [] OTHER            -> {active}

RetiredBy(active, retired, previous) ==
  IF active = Garbled THEN previous ELSE retired

TrustedCA(k) == k \in trustedCAs \/ now < retiredCAs[k]
-----------------------------------------------------------------------------
(* The process: start, crash. *)

\* Mutant: nobody calls SetTrust before the server serves.
MutStartServer(l) ==
  /\ up' = TRUE
  /\ cache' = Replaced(l)
  /\ policy' = PolicyFrom(l.config)
  /\ sweptAt' = now
  /\ UNCHANGED <<trustedCAs, retiredCAs, syncVars, connVars, sweep, now>>

\* run: load the cache, a new server (no trust, no connection), SetTrust, serve.
StartServer(l) ==
  /\ up' = TRUE
  /\ cache' = Replaced(l)
  /\ policy' = PolicyFrom(l.config)
  /\ trustedCAs' = TrustedBy(l.ca, {})
  /\ retiredCAs' = RetiredBy(l.ca, l.retired, [k \in CAs |-> 0])
  /\ sweptAt' = now
  /\ UNCHANGED <<syncVars, connVars, sweep, now>>

Start ==
  /\ ~up /\ enrolled
  /\ StartServer(disk)
  /\ UNCHANGED <<enrolled, disk>>

\* Client.enroll clears the cache and takes over the daemon config.
Enlisted(a) == [EmptyList EXCEPT !.config = a.config]

\* A token enrolls first.
Enroll ==
  /\ ~up /\ ~enrolled
  /\ enrolled' = TRUE
  /\ \E a \in Answers : disk' = Enlisted(a) /\ StartServer(Enlisted(a))

\* Client.enroll saves the config and then fails, or dies, before it saves the cache.
EnrollCut ==
  /\ ~up /\ ~enrolled
  /\ enrolled' = TRUE
  /\ UNCHANGED <<up, disk, serverVars, syncVars, connVars, sweep, now, sweptAt>>

\* Established sessions die with the process, whatever ends it.
ProcessEnds ==
  /\ up' = FALSE
  /\ cache' = EmptyList /\ policy' = DefaultPolicy
  /\ trustedCAs' = {} /\ retiredCAs' = [k \in CAs |-> 0]
  /\ pc' = "idle" /\ answer' = EmptyList
  /\ phase' = [c \in Conns |-> "none"] /\ login' = [c \in Conns |-> NoLogin]
  /\ live' = {} /\ closed' = {} /\ sweep' = NoSweep
  /\ UNCHANGED <<now, sweptAt>>

\* A crash inside SaveJSON may leave a file that does not load.
Crash ==
  /\ up
  /\ ProcessEnds
  /\ disk' \in IF pc \in {"save", "clearCache"} THEN {disk, EmptyList} ELSE {disk}
  /\ UNCHANGED enrolled

\* An ephemeral host that is stopped removes its files, as far as that succeeds.
Unenroll ==
  /\ up /\ pc = "idle"
  /\ ProcessEnds
  /\ enrolled' \in {FALSE, enrolled}
  /\ disk' \in {EmptyList, disk}
-----------------------------------------------------------------------------
(* syncDaemon.  It only ever runs in one goroutine: first in Client.Run,   *)
(* then for every StateUpdate and after every reconnect.                   *)

SyncStart ==
  /\ up /\ pc = "idle"
  /\ pc' = "waiting"
  /\ UNCHANGED <<daemonVars, serverVars, answer, connVars, sweep, now, sweptAt>>

\* An RPC error or an UNSPECIFIED status changes nothing.
SyncFailed ==
  /\ pc = "waiting"
  /\ pc' = "idle"
  /\ UNCHANGED <<daemonVars, serverVars, answer, connVars, sweep, now, sweptAt>>

\* ACCEPTED, or PENDING, whose list has no principals and no CA.
SyncAnswered ==
  /\ pc = "waiting"
  /\ pc' = "replace"
  /\ answer' \in Answers
  /\ UNCHANGED <<daemonVars, serverVars, connVars, sweep, now, sweptAt>>

Replace ==
  /\ pc = "replace"
  /\ pc' = "policy"
  /\ cache' = Replaced(answer)
  /\ UNCHANGED <<daemonVars, policy, trustedCAs, retiredCAs, answer, connVars,
                 sweep, now, sweptAt>>

SetPolicy ==
  /\ pc = "policy"
  /\ pc' = "trust"
  /\ policy' = PolicyFrom(answer.config)
  /\ UNCHANGED <<daemonVars, cache, trustedCAs, retiredCAs, answer, connVars,
                 sweep, now, sweptAt>>

SetTrust ==
  /\ pc = "trust"
  /\ pc' = "sweep"
  /\ trustedCAs' = TrustedBy(answer.ca, trustedCAs)
  /\ retiredCAs' = RetiredBy(answer.ca, answer.retired, retiredCAs)
  /\ answer' = EmptyList
  /\ UNCHANGED <<daemonVars, cache, policy, connVars, sweep, now, sweptAt>>

\* The last step. A failed save leaves the old file.
SaveCache ==
  /\ pc = "save"
  /\ pc' = "idle"
  /\ disk' \in {cache, disk}
  /\ UNCHANGED <<up, enrolled, serverVars, answer, connVars, sweep, now, sweptAt>>

SyncRejected ==
  /\ pc = "waiting"
  /\ pc' = "clear"
  /\ UNCHANGED <<daemonVars, serverVars, answer, connVars, sweep, now, sweptAt>>

ClearCache ==
  /\ pc = "clear"
  /\ pc' = "clearCache"
  /\ cache' = EmptyList
  /\ UNCHANGED <<daemonVars, policy, trustedCAs, retiredCAs, answer, connVars,
                 sweep, now, sweptAt>>

SaveClearedCache ==
  /\ pc = "clearCache"
  /\ pc' = "clearConfig"
  /\ disk' \in {cache, disk}
  /\ UNCHANGED <<up, enrolled, serverVars, answer, connVars, sweep, now, sweptAt>>

SaveClearedConfig ==
  /\ pc = "clearConfig"
  /\ pc' = "exit"
  /\ enrolled' \in {FALSE, enrolled}
  /\ UNCHANGED <<up, disk, serverVars, answer, connVars, sweep, now, sweptAt>>

\* errDaemonRejected ends Client.Run, and with it the process.
Exit ==
  /\ pc = "exit"
  /\ ProcessEnds
  /\ UNCHANGED <<enrolled, disk>>
-----------------------------------------------------------------------------
(* DropRevoked, run by the syncer and by every new connection.  liveMu is  *)
(* held throughout, but the principals and the trust are read one          *)
(* connection at a time, under their own locks.                            *)

LockLive(who) ==
  /\ sweep.by = Nil
  /\ sweep' = [by |-> who, todo |-> live, cur |-> Nil]

\* slices.Contains(s.principals(conn.User()), ext["nokku-principal"])
PrincipalOK(c) ==
  /\ login[c].user \in Users
  /\ login[c].principal \in cache.principals[login[c].user]

SweepPrincipal(c) ==
  /\ sweep.by # Nil /\ sweep.cur = Nil /\ c \in sweep.todo
  /\ IF PrincipalOK(c)
       THEN sweep' = [sweep EXCEPT !.cur = c] /\ UNCHANGED closed
       ELSE sweep' = [sweep EXCEPT !.todo = @ \ {c}] /\ closed' = closed \cup {c}
  /\ UNCHANGED <<daemonVars, serverVars, syncVars, phase, login, live, now, sweptAt>>

SweepCA(c) ==
  /\ sweep.cur = c
  /\ closed' = IF TrustedCA(login[c].ca) THEN closed ELSE closed \cup {c}
  /\ sweep' = [sweep EXCEPT !.todo = @ \ {c}, !.cur = Nil]
  /\ UNCHANGED <<daemonVars, serverVars, syncVars, phase, login, live, now, sweptAt>>

SweepDone == sweep.by # Nil /\ sweep.todo = {} /\ sweep' = NoSweep

SyncSweep ==
  /\ pc = "sweep"
  /\ pc' = "sweeping"
  /\ LockLive(Syncer)
  /\ sweptAt' = now
  /\ UNCHANGED <<daemonVars, serverVars, answer, connVars, now>>

SyncSweepDone ==
  /\ sweep.by = Syncer
  /\ SweepDone
  /\ pc' = "save"
  /\ UNCHANGED <<daemonVars, serverVars, answer, connVars, now, sweptAt>>
-----------------------------------------------------------------------------
(* handleConn and the certificate check. *)

\* publicKeyCallback up to trustedCA. A refused login leaves no trace.
AuthCA(c, u, k) ==
  /\ up /\ phase[c] = "none"
  /\ TrustedCA(k)
  /\ phase' = [phase EXCEPT ![c] = "trusted"]
  /\ login' = [login EXCEPT ![c] = [NoLogin EXCEPT !.user = u, !.ca = k]]
  /\ UNCHANGED <<daemonVars, serverVars, syncVars, live, closed, sweep, now, sweptAt>>

\* The rest of publicKeyCallback: some principal of the certificate is on the list.
AuthPrincipal(c, p) ==
  /\ phase[c] = "trusted"
  /\ p \in cache.principals[login[c].user]
  /\ phase' = [phase EXCEPT ![c] = "matched"]
  /\ login' = [login EXCEPT ![c].principal = p]
  /\ UNCHANGED <<daemonVars, serverVars, syncVars, live, closed, sweep, now, sweptAt>>

\* No principal, CheckCert, the account check or the handshake itself refuses.
HandshakeFails(c) ==
  /\ phase[c] \in {"trusted", "matched"}
  /\ phase' = [phase EXCEPT ![c] = "none"]
  /\ login' = [login EXCEPT ![c] = NoLogin]
  /\ UNCHANGED <<daemonVars, serverVars, syncVars, live, closed, sweep, now, sweptAt>>

\* The handshake is done, the connection joins the live set.
Register(c) ==
  /\ phase[c] = "matched" /\ sweep.by = Nil
  /\ phase' = [phase EXCEPT ![c] = "registered"]
  /\ live' = live \cup {c}
  /\ UNCHANGED <<daemonVars, serverVars, syncVars, login, closed, sweep, now, sweptAt>>

\* Mutant: a new connection relies on the sync's sweep.
MutOwnSweep(c) ==
  /\ phase[c] = "registered"
  /\ phase' = [phase EXCEPT ![c] = "serving"]
  /\ UNCHANGED <<daemonVars, serverVars, syncVars, login, live, closed, sweep, now, sweptAt>>

\* "A sync that ran during the handshake could not see this connection yet."
OwnSweep(c) ==
  /\ phase[c] = "registered"
  /\ LockLive(c)
  /\ phase' = [phase EXCEPT ![c] = "sweeping"]
  /\ UNCHANGED <<daemonVars, serverVars, syncVars, login, live, closed, now, sweptAt>>

OwnSweepDone(c) ==
  /\ sweep.by = c
  /\ SweepDone
  /\ phase' = [phase EXCEPT ![c] = "serving"]
  /\ UNCHANGED <<daemonVars, serverVars, syncVars, login, live, closed, now, sweptAt>>

\* The client leaves, or keepAlive gives it up.
HangUp(c) ==
  /\ phase[c] \in {"registered", "sweeping", "serving"} /\ c \notin closed
  /\ closed' = closed \cup {c}
  /\ UNCHANGED <<daemonVars, serverVars, syncVars, phase, login, live, sweep, now, sweptAt>>

\* The channel loop has ended, the deferred calls run.
Leave(c) ==
  /\ phase[c] = "serving" /\ c \in closed /\ sweep.by = Nil
  /\ phase' = [phase EXCEPT ![c] = "none"]
  /\ login' = [login EXCEPT ![c] = NoLogin]
  /\ live' = live \ {c} /\ closed' = closed \ {c}
  /\ UNCHANGED <<daemonVars, serverVars, syncVars, sweep, now, sweptAt>>

Tick ==
  /\ now < MaxTime
  /\ now' = now + 1
  /\ UNCHANGED <<daemonVars, serverVars, syncVars, connVars, sweep, sweptAt>>
-----------------------------------------------------------------------------
\* A host that is not enrolled yet, or one with whatever file an earlier run (or
\* an editor) left.
Init ==
  /\ up = FALSE
  /\ \/ enrolled = FALSE /\ disk = EmptyList
     \/ enrolled = TRUE /\ disk \in Answers
  /\ cache = EmptyList /\ policy = DefaultPolicy
  /\ trustedCAs = {} /\ retiredCAs = [k \in CAs |-> 0]
  /\ pc = "idle" /\ answer = EmptyList
  /\ phase = [c \in Conns |-> "none"] /\ login = [c \in Conns |-> NoLogin]
  /\ live = {} /\ closed = {} /\ sweep = NoSweep
  /\ now = 0 /\ sweptAt = 0

SyncNext ==
  \/ SyncStart \/ SyncFailed \/ SyncAnswered \/ Replace \/ SetPolicy \/ SetTrust
  \/ SyncSweep \/ SyncSweepDone \/ SaveCache
  \/ SyncRejected \/ ClearCache \/ SaveClearedCache \/ SaveClearedConfig \/ Exit

ConnNext(c) ==
  \/ \E u \in Users, k \in CAs : AuthCA(c, u, k)
  \/ \E p \in Principals : AuthPrincipal(c, p)
  \/ HandshakeFails(c) \/ Register(c) \/ OwnSweep(c) \/ OwnSweepDone(c)
  \/ HangUp(c) \/ Leave(c)

Next ==
  \/ Start \/ Enroll \/ EnrollCut \/ Unenroll \/ Crash \/ Tick
  \/ SyncNext
  \/ \E c \in Conns : SweepPrincipal(c) \/ SweepCA(c) \/ ConnNext(c)

Spec == Init /\ [][Next]_vars
-----------------------------------------------------------------------------
\* Between two applications of a list: nothing is half applied.
Settled == up /\ pc \in {"idle", "waiting", "replace", "save", "clear"}

\* The list now applied lets c stay. A retired CA counts when its deadline lay
\* beyond the last sweep.
Admitted(c) ==
  /\ PrincipalOK(c)
  /\ login[c].ca \in trustedCAs \/ sweptAt < retiredCAs[login[c].ca]

(***************************************************************************)
(* "A daemon that syncs applies a revoke at once and closes the            *)
(* connections that were open on it" (SECURITY.md:100): whenever no list   *)
(* is half applied, every open connection that is being served is one the  *)
(* cache and the CA trust still admit, however its handshake and its own   *)
(* sweep interleaved with the sync's Replace, SetTrust and DropRevoked.    *)
(***************************************************************************)
RevokedAreClosed ==
  Settled => \A c \in Conns :
               phase[c] = "serving" /\ c \notin closed => Admitted(c)

(***************************************************************************)
(* What the server enforces is what the cache would be reloaded to: across *)
(* syncs, failed saves, crashes and restarts, the policy and the CA trust  *)
(* are those of the cached list, unless its active key is unreadable.      *)
(***************************************************************************)
ServerMatchesCache ==
  Settled =>
    /\ policy = PolicyFrom(cache.config)
    /\ cache.ca # Garbled => /\ trustedCAs = TrustedBy(cache.ca, {})
                             /\ retiredCAs = cache.retired

(***************************************************************************)
(* An account name that validatePrincipal refuses never gets past the      *)
(* certificate check, whether the core sent it or a hand-edited cache.json *)
(* held it (state/cache.go:122).                                           *)
(***************************************************************************)
OnlyValidAccounts ==
  \A c \in Conns :
    phase[c] \notin {"none", "trusted"} => login[c].user \in ValidUsers

\* The answer about to be applied does not admit c, by what c has shown of its login.
RevokedByAnswer(c) ==
  \/ phase[c] # "trusted" /\ login[c].principal \notin answer.principals[login[c].user]
  \/ answer.ca # Garbled /\ login[c].ca # answer.ca /\ answer.retired[login[c].ca] <= now

(***************************************************************************)
(* A revoke that reached the daemon is not lost: once an answer that does  *)
(* not admit a login is about to be applied, its connection is closed or   *)
(* never comes about, unless a later answer admits it again.  This holds   *)
(* for one that is still in its handshake and not in the live set, so that *)
(* the sync's sweep passes it by (server.go:248), and with connections and *)
(* syncs competing for liveMu.                                             *)
(***************************************************************************)
RevokeTakesEffect ==
  \A c \in Conns :
    pc = "replace" /\ phase[c] # "none" /\ RevokedByAnswer(c)
      ~> \/ c \in closed \/ phase[c] = "none"
         \/ pc = "replace" /\ ~RevokedByAnswer(c)
-----------------------------------------------------------------------------
(***************************************************************************)
(* What the inductive invariant of AccessProofs adds to the properties     *)
(* above.                                                                  *)
(***************************************************************************)
\* The live set is what the connections' phases say, and dies with the process.
LiveShape ==
  /\ live = {c \in Conns : phase[c] \in {"registered", "sweeping", "serving"}}
  /\ closed \subseteq live
  /\ ~up => pc = "idle" /\ \A c \in Conns : phase[c] = "none"
  /\ \A c \in Conns : phase[c] # "none" => login[c].user \in Users /\ login[c].ca \in CAs

\* liveMu has the holder its phase or pc says, and a sweep visits live connections.
LockShape ==
  /\ sweep.by = Nil => sweep = NoSweep
  /\ sweep.by = Syncer <=> pc = "sweeping"
  /\ \A c \in Conns : sweep.by = c <=> phase[c] = "sweeping"
  /\ sweep.todo \subseteq live
  /\ sweep.cur # Nil => sweep.cur \in sweep.todo
  /\ sweptAt <= now

\* The running sweep has closed c, found it admitted, or has still to visit it.
CheckedOrDue(c) ==
  \/ c \in closed
  \/ c \in sweep.todo /\ (sweep.cur = c => PrincipalOK(c))
  \/ Admitted(c)

\* The sync's sweep accounts for every served connection, a connection's own
\* sweep for itself as long as no new list is being applied.
SweepProgress ==
  /\ pc = "sweeping" =>
       \A c \in Conns : phase[c] = "serving" => CheckedOrDue(c)
  /\ Settled => \A c \in Conns : phase[c] = "sweeping" => CheckedOrDue(c)

\* How far the server has caught up with the list being applied.
ApplyProgress ==
  /\ pc \in {"policy", "trust"} => cache = Replaced(answer)
  /\ pc \in {"trust", "sweep", "sweeping"} => policy = PolicyFrom(cache.config)
  /\ pc \in {"sweep", "sweeping"} /\ cache.ca # Garbled =>
       trustedCAs = TrustedBy(cache.ca, {}) /\ retiredCAs = cache.retired

CacheIsValid == \A u \in Users \ ValidUsers : cache.principals[u] = {}
=============================================================================
