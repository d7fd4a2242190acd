# A TLA+ model of nokkud

`nokkud` is a daemon with an embedded SSH server. A host enrolls with a Nokku core. The daemon syncs an access list
from it, checks certificates against that list and its CA, closes what a revoke concerns, keeps its own host
certificate current, serves SSH clients directly and through relays of the core, and records sessions and uploads
them. This directory models the parts of it in which several goroutines, two processes, a disk and an unreliable core
meet; TLC checks them on small instances and TLAPS proves the safety properties for every value of the constants.
`PROJECT.json` maps each definition to the lines it translates.

## Inventory

| Part | Source | Module |
| --- | --- | --- |
| access cache, CA trust, certificate check, live set, `DropRevoked`, sync, start-up | `state/cache.go`, `sshd/auth.go`, `sshd/server.go`, `client/sync.go`, `main.go` | `Access` |
| what access control promises, and that `Access` keeps it | | `Gate`, `AccessGate` |
| `Client.Run`: first sync, control stream, heartbeats, updates, reconnects, versions | `client/client.go`, `client/connect.go` | `Control` (over `Access`) |
| host certificate: watcher, renew channel, storing, reload | `hostcerts/certs.go`, `client/watcher.go`, `client/sync.go` | `HostCert` |
| enroll, reset, start, rejection, and the files they share | `main.go`, `client/client.go`, `client/sync.go` | `Enrollment` |
| recorder's file, live upload, upload retry, retention | `recording/*.go` | `Recording` |
| what becomes of a recording, and that `Recording` keeps it | | `Custody` (instantiated in `Recording`) |
| session: requests, pty, plain and sftp handlers, signals, process, exit, full recording | `sshd/session.go`, `sshd/sftp.go` | `Session` |
| asciicast events: split characters, rounded intervals | `recording/recorder.go` | `Cast` |
| connection cap and pre-auth budgets | `sshd/server.go` | `Admission` |
| relayed connections | `client/relay.go` | `Relay` |
| channel slots, remote forwards, agent sockets, teardown of a connection | `sshd/server.go`, `sshd/forward.go`, `sshd/agent.go` | `Connection` |
| `handleConn` and the sweeps around those three | `sshd/server.go` | `Server` (composes them) |

Outside the repository, and modelled only by how the code uses them: the core (its answers, its CA, what it does
with a heartbeat or a recording), the SSH library, processes and `os/exec`, the clock, `fsutil.SaveJSON` and the end
of the daemon's process.

## How the modules correspond to the code

**`Access`.** `cache`, `policy`, `trustedCAs`, `retiredCAs`, `live` are the fields of `Cache` and `Server`; `disk` is
what `cache.json` loads as. `pc` is where the only goroutine that syncs is in `syncDaemon`: `Replace`, `SetPolicy`,
`SetTrust`, `DropRevoked` and `Save` are separate steps because nothing holds a lock across them. `sweep` is `liveMu`
with its holder: a sweep visits the live connections in any order, and reads the principals and the trust of each in
two steps, as the code does under two other locks. A connection goes through `AuthCA`, `AuthPrincipal`, `Register`,
`OwnSweep`, `OwnSweepDone`, `Leave`. `Crash` is possible everywhere, and inside a save may leave a file that does not
load, which the code treats as empty. `sweptAt` is a history variable. `EnrollCut` is an enrollment that stops
between its two saves, `Unenroll` the end of an ephemeral host. `AccessHistory` adds the trust of the last readable
key for one run.

**`Gate` and `AccessGate`.** `Gate` is the promise: one list is in force and admits everybody who is served, except
while another list is being applied. In that time a connection may enter by a principal of one of the two lists and a
CA of the other, since the login and the sweeps read them under different locks; and the new list comes into force
only with every connection ended that it does not admit. `AccessGate` maps `Access` to it, and every served connection
counts as open. A list is being applied from `Replace` to the end of the sync's sweep, when it comes into force; the
history variable `inForce` marks that, and start-up.

**`Control`.** One run of the daemon over the actions of `Access`. `loc` is where `Client.Run` and
`runControlStream` are; each `syncDaemon` they call is the sync of `Access`. The core has a sequence of lists, whose
indices are its versions, or has deleted the daemon. It may poke when its list changes and does poke when a heartbeat
carries another version than its own. A stream may break at any time, with or without what was sent on it.

**`HostCert`.** The syncer replaces the CA, pokes the channel `renew` and saves; the watcher reads the CA, signs,
stores, reloads, computes its delay and selects. Each access to shared state is a step. A certificate is the CA that
signed it and whether half its lifetime has passed.

**`Enrollment`.** Two processes, the service and the command line, with their `Config` and `Cache` in memory and
three files between them. Every save is a step, and `Fault` stops a process at any point. A list, a certificate and
an enrollment are identified by the Nokku they come from. `Overlaps` says which process may start while the other
one runs.

**`Recording`.** A file, the `active` map, the uploader's queue and sender, the goroutine `closeLocked` starts, the
retry loop and the core. Content is a number of chunks: everything the uploader sends is a prefix, because it drops
all that follows a failure. A write to the file may fail (`FlushFails`, `Close`): the sink has the chunk by then, and
the gzip writer takes nothing more. A file goes in one of three ways: `removed` as uploaded, `dropped` by retention,
or `refused`, when the retry gives it up on an InvalidArgument. That is the core's answer for a recording it will not
take (`Refused`), and the host's own for every error of `readHeader`, a failing `os.Open` included (`Unreadable`).

**`Session`.** One session channel. `pc` has the five goroutines: the request loop, the handler, the copiers of
stdout (or the pty) and stderr, and of the client's input. What `procMu` or the recorder's mutex guards is one step,
`finish` is several under `exitMu`. `fds` is what the session has opened, `rec` the recorder as the session sees it:
any event may be the one that finds the limit reached, since the limit is on compressed bytes, and any event, flush or
close the one whose write fails, which is only logged and stays (`rec.failed`). Output is counted in
chunks, with what was written, recorded and shown of each stream. The process, what it leaves behind (`held`),
`os/exec` and the client are external: a process may die, be killed or leave a child that keeps its outputs open for a
while or for ever, and a client may half-close or leave, at any time.

**`Custody`.** The promise of `Recording`: a recording goes from its writer to the host's keeping, to the core and
then off the host, never back. One that the core does not have goes only if it is over, by retention or because it was
refused. `Place` in `Recording` is the mapping. A recording in one of the two situations of the violation runs is
`damaged`, which it can only become while it is written; `lost` is a place no way leads to.

**`Cast`.** `partial` and `clock` are the recorder's; every event, resize and `Close` is one step under its mutex
(`Event`, `RecordResize`, `CloseCast`). `heard` is the bytes of each stream, `text` what its events carry. A byte is
its class: one that continues a character, stands by itself, or leads one of two to four bytes. `TextIsKept` compares
the text with that of the stream recorded in one piece, `TimeIsKept` the sum of the intervals with the time.
Continuation bytes are taken to be in range for their lead (`E0 80` is not told apart from `E0 A0`).

**`Admission`.** A semaphore channel is the number of its elements. The pre-auth slot and the source's count are
taken under one lock and given back in two steps (`Release`, `Uncount`), as in the closure `acquireStartup` returns.

**`Relay`.** `sendMu` with its holder, `rclosed`, the deadline's timer, and where each goroutine in `Close` is. A
`Send` takes time: with a backend that went silent it returns only when the stream is cancelled.

**`Connection`.** The channel loop, the global requests and the accept loops of one connection over its `connState`.
The policy is read before the lock is taken, and a sync may change it at any time. `handleConn` does not wait for the
goroutine that answers global requests. An agent socket closes some time after its session has returned. `Accept` may
fail on an open listener, which ends the accept loop and returns its slot (`AcceptFails`). The far end of a forward is
external: it may stall, neither reading nor sending nor closing, and then `proxy` does not return.

**`Server`.** Extends the last three and adds `handleConn` (`serve`, `live`) and `DropRevoked` (`sweep`, `liveMu` with
what it has yet to close). Whom a sweep closes is the matter of `Access`: here it is any set of live connections. One
connection may be a relay, whose `Close` the handler, a sweep and keepAlive's timer may be in at once; another one,
`Focus`, has channels and forwards.

## Runs

| Run | Checks | Distinct states |
| --- | --- | --- |
| `access` | `TypeOK`, `RevokedAreClosed`, `ServerMatchesCache`, `OnlyValidAccounts` | 2.8 million |
| `access_live` | `ControlTypeOK`, `RevokeTakesEffect`, `CoreIsObeyed`, `ImplementsGate` | 68 thousand |
| `access_garbled` | violates `GarbledKeyKeepsTrust` | |
| `recording` | `TypeOK`, `NothingLost`, `RemovedOnlyWhenFinal`, `ImplementsCustody` | 1.2 million |
| `recording_live` | `TextIsKept`, `TimeIsKept`, `PendingGoesOut` | 323 thousand |
| `recording_overrun` | violates `QueueFullAbandons` | |
| `recording_window` | violates `RetryLeavesWriters` | |
| `enrollment` | `TypeOK`, `OldTrustDroppedUnlessTorn`, `CertFollowsEnrollment`, `ServiceNeverMoves` | 20 thousand |
| `enrollment_race` | violates `OldTrustDropped` | |
| `host_cert` | `HostTypeOK`, `ServedIsStored`, `NoLostWakeup`, `CertCatchesUp` | 223 thousand |
| `connection` | `ServerTypeOK`, `SlotsAccounted`, `NoOrphanListener`, `AdmissionAccounted`, `ClosedIsLast`, `TeardownCompletes`, `HandshakesEnd`, `SweepsEnd`, `ConnectionsEnd` | 159 thousand |
| `session` | `TypeOK`, `NothingLeftBehind`, `UnrecordedOnlyAtTheEnd`, `TheEndIsOnRecord`, `SignalsInOrder`, `OutputIsDrained`, `SessionEnds`, `FullSessionEnds` | 523 thousand |

`tlc -config Access.cfg MCAccess` runs the first, `Control.cfg` goes with `MCControl`, `Connection.cfg` with
`MCServer`, `RecordingLive.cfg` with `MCRecording`, the other `Recording*.cfg` with `MCUpload`, `AccessGarbled.cfg`
with `AccessHistory`; the rest are named after their module. `MCRecording` has the behaviours of `Recording` and those
of `Cast` side by side: one is about files, the other about what is in one. Each property of a passing run also has a
mutant, an operator `Mut...` beside the one it would replace (a dropped guard, a missing reset, an unbuffered
channel), under which TLC finds the property violated.

### What the violations show

- **`access_garbled`.** `SetTrust` keeps the previous trust when the active CA key does not parse, so that "a garbled
  key must not lock everyone out". By then the key is in the cache, and it is saved; a restart has no previous trust.
  The run starts from a file whose key is readable.
- **`recording_overrun`.** When the queue is full "the whole upload is abandoned", but the sender does not learn of
  it: it sends what was queued and then `Final`. The core has finished a recording without its end, refuses the
  complete file later, and the retry removes that.
- **`recording_window`.** A recording's path becomes active after its file exists. A retry in between takes it.
- **`enrollment_race`.** A running service saves its old list over the one that a new enrollment has cleared. The
  restarted service trusts the old Nokku's CA until its first sync.

`NothingLost` and its companions leave out recordings in exactly these two situations, and
`OldTrustDroppedUnlessTorn` holds when the service is stopped before a command. `OldTrustDropped` also fails when an
enrollment stops between `config.Save` and `cache.Save`; the variable `torn` marks that case.

### What the properties do not promise

Writing the properties so that they hold showed where the code's promise ends.

- `ImplementsGate`: while a list is being applied, a login that passed the CA check before `SetTrust` and the
  principal check after `Replace` may be served although neither list admits it. The sync's sweep ends it.
- `NothingLost`, `RemovedOnlyWhenFinal`, `ImplementsCustody`: the retry removes a file on any InvalidArgument, with a
  warning in the log. A complete recording that was never uploaded goes this way when `os.Open` fails once, for lack
  of descriptors for instance (`pending.go:66`), or when the core refuses it ("a file the backend will never take").
- `PendingGoesOut`: a file whose upload fails for ever, other than by InvalidArgument, keeps all newer ones waiting,
  until retention drops it. The fairness excludes that.
- `UnrecordedOnlyAtTheEnd`, `TheEndIsOnRecord`: after a failed write to the file the session goes on and what it shows
  is not recorded, nor is its exit code. The failure is logged, without the `recording_degraded` event that
  `SECURITY.md:123` says every gap raises.
- `SlotsAccounted`: the slot of a listener is that of its accept loop. After a failed `Accept` the listener stays
  open, and in the map, without a slot, although `SECURITY.md:111` says "for as long as it is open".
- `TeardownCompletes`, `ConnectionsEnd`: `proxy` has no deadline. One of its copies may be in a write that the far end
  does not take, the other in a read of that far end, and neither notices that the SSH channel is closed. While a far
  end stalls, `handleConn` waits, and keeps its connection slot and its place in `s.live`. Both properties are about
  behaviours in which no far end stalls for ever (`<>[]PeersMove`).
- `SweepsEnd`: `DropRevoked` closes connections with `liveMu` held, and the `Close` of a relay first sends `Closed`.
  A backend that takes no frames holds it there. Once the connection has its `keepAlive`, the timer's `Close` fails
  `TryLock` and cancels. Before that (in the connection's own sweep, or a sync's sweep just before it) only the
  relay's TTL of 8 hours ends the wait, and no connection can register meanwhile.
- `UnrecordedOnlyAtTheEnd`, again: when stdout and stderr both write at the limit, the one that did not find it may
  still show a chunk that is in no recording, until `finish` closes the channel.
- `FullSessionEnds`: `recordingFull` writes its notice before it ends the session, so it waits for a client that does
  not read, and assumes that it reads or leaves.
- `NothingLeftBehind`: a pty-req followed by the sftp subsystem leaves the pty to the finalizer of `os.File`. The
  recorder that pty-req started also gets the sftp server's output then, while `SECURITY.md:120` says of sftp "File
  contents are not recorded".
- `OutputIsDrained` is about stdout. Of stderr, what the client has not taken one second after the process's end
  (`WaitDelay`) is dropped.
- `TheEndIsOnRecord`: a session in which no command ever ran has a `session_start` and no `session_end` event.
- `TextIsKept` is about one stream of each kind. Without a pty, stdout and stderr are both events of kind `o` and
  share the head of a split character.

### Bounds

- `access`: two connections are the sweeper and the swept, two CAs are one rollover, one tick passes a deadline. The
  four answers differ in principals, CA, deadline and policy. The number of syncs, crashes and logins is not bounded.
  The connections are symmetric.
- `access_live`: three workloads. Two connections compete with syncs that revoke them while no stream gets through;
  one connection meets a core that changes its list or deletes the daemon, with failing syncs and streams that break;
  without connections, the list changes twice. One CA and no clock, no symmetry; the refinement is proved, so the
  small instance is enough.
- `recording`: two recordings give one file in front of another. The first may have a header and one flush before the
  footer (`MaxChunks` is 2 for it and 1 for the other), so a queue of `QueueCap = 2` can overrun, and can have
  something in it to discard when a stream fails. One crash; recovery itself cannot crash differently.
  `recording_live` has a header and a footer only, and a queue that does not overrun, since its content does not
  matter there; its crash comes while there is one recording (`CrashLeavesOne`), which leaves a file for the retry to
  find beside the next one. For `Cast`, in the same run, reads of one or two bytes, four bytes in all, so that a
  character of every length is cut everywhere, and gaps that round up, down, on the half, and are clamped.
- `enrollment`: two Nokkus, of which one makes its hosts ephemeral, two commands and two faults, which may hit both
  saves of a rejection or an enrollment and its repetition.
- `host_cert`: two CAs and two rollovers, so that a CA comes back, and one crash.
- `connection`: five workloads. One connection with two channels and a port, and one with a channel and two ports, one
  of them asked for as port 0: with three slots, every kind of holder meets a full table. Far ends stall only once the
  transport is closed, since before that nobody waits for a channel. Three connections, two from one source, for two
  connection slots and one pre-auth slot, so that each cap refuses someone. Two from the loopback. A relayed
  connection, with one data frame and a sync, beside a direct one: the writer and the three closers meet in every
  order.
- `session`: one chunk on each output and two signals. One chunk is enough for a stream to be ahead of its recording
  or not drained; two signals can be out of order.

The runs that may come to an end (every recording is over and gone, the session is over, the connections have left,
the daemon was deleted) do not check deadlock; their liveness properties say what has to happen first.

A file that `New` has just created is never dropped by retention in the model: it is small and the newest, and would
go only if files that were closed after its creation passed 1 GiB on their own.

### Fairness

Goroutines run (weak fairness of their next step). Taking `liveMu` is strongly fair in `Control`, because a Go mutex
goes to its longest waiter after a millisecond. Timers fire: tickers, backoffs, the handshake's deadline, `WaitDelay`,
`keepAlive`. The relay's TTL is relied on only where nothing shorter ends the wait (see `Timers` in `Server`). For
`CoreIsObeyed`, `PendingGoesOut` and `CertCatchesUp` the core is unreliable but not gone: a sync, an upload or a
signing that is tried for ever is answered at some point (strong fairness). `Unreadable` is fair only where the file
is gone or has no header (`HasNoHeader`), and `Refused` not at all. A handshake ends, by its deadline if by nothing
else; `RevokeTakesEffect` rests on that for a login that is not in the live set yet. The goroutines that serve a
channel or a forwarded connection return once the transport is closed, unless their far end stalls. In `Session` a
client answers the close of its channel, or its transport ends, and takes what is written to it or leaves. Otherwise
nothing is assumed of clients, of processes and what they leave behind, of the far ends of forwards, of when syncs,
rollovers, restarts or crashes happen, or of local processes that hold an agent socket.

## Proofs

The proofs hold for any constants that satisfy the modules' named assumptions: arbitrary sets of connections,
accounts, principals and CAs, any answers and any lists of the core, any finite set of channels and ports, any limits,
and any number of recordings, Nokkus, faults, signals and chunks of output. The assumptions say that limits are
numbers, that sets that are counted are finite, that there is a Nokku and the core has a list, and that the names for
"nobody" and "nothing" are not names of anything. Each inductive invariant is shown to be preserved action by action.
Every invariant of a passing run is proved, and so are the action property `ServiceNeverMoves` and the refinements
`ImplementsGate` and `ImplementsCustody`.

**`AccessProofs`: `RevocationHolds`** (`Spec => []RevokedAreClosed`). The property is not inductive: it says nothing
of a list that is half applied, nor of what a sweep under way has done. The invariant `Inv` adds

- `LiveShape`: the live set is the connections past registration, and all of it dies with the process;
- `LockShape`: `liveMu` has the holder that its `pc` or phase says, and a sweep visits live connections only;
- `SweepProgress`: during the sync's sweep every served connection is closed, admitted, or still to be visited, and
  the same holds of a connection in its own sweep, as long as no new list is being applied. A list that arrives
  during a connection's own sweep cannot finish its sweep before that one releases `liveMu`, and then finds the
  connection in the live set: this is why the connection's own sweep and the sync's together leave no gap;
- `ApplyProgress`: how far policy and trust have caught up with the cache, for `ServerFollowsCache`;
- `CacheIsValid`: no refused name is in the cache, for `AccountsAreValid`.

**`GateProofs`: `AccessIsAGate`** (`HistorySpec => ImplementsGate`). Uses `Inv`, and adds that the list in force is
the one the server uses unless one is half applied (`TrustInForce`, `NamesInForce`; on the way out after a rejection
the cache is empty and the trust is not), and that a connection in its own sweep is closed, still to be visited, or
known by its principal and by its CA to the list in force or the one being applied (`OwnProgress`): no list comes into
force while it holds `liveMu`. Then every step maps to a step of `Gate` or a stutter: `Replace` to `Begin`, the end of
the sync's sweep to `Apply`, the end of a connection's own sweep to `Enter`, a close or a visit that closes to `End`,
a passing deadline to `Expire`, a crash to `Stop`, start-up to `Load`. **`GateHolds`** says what that is worth: when
no list is being applied, whatever is a gate serves nobody whom the list in force does not admit.

**`GateProofs`: `ControlIsAGate`, `ControlIsTyped`, `VersionsAreTruthful`.** Every step of `Control` is a step of
`Access` with its history variable or leaves that alone (`ControlSteps`), so what is proved of `Access` holds of the
daemon that `Client.Run` drives. `VersionFollows` is the invariant of the versions: one moves with the list it is of,
from the core's answer (`got`) to the cache (`version`). With `RevokedAreClosed` and `ServerMatchesCache` it gives
`ObeyedIsEnforced`: a host that reports the core's version between two syncs has the core's policy and trust, and
nothing open that the core's list does not admit. `CoreIsObeyed`, which TLC checks, says that this state is reached.

**`EnrollmentProofs`: `OldTrustIsDropped`, `CertificateFollows`, `ServiceStays`, `FilesAreWellFormed`.** The first
three are for `Overlaps = {}`, the service stopped before a command and started after it: with an overlap, on the
instance of `enrollment_race`, TLC finds each of them violated. The fourth needs no such hypothesis. `EnrollmentInv`
relates the memory of the one process that runs to the files: what it has loaded and not yet changed is what is on
disk (`Fresh`, `Saved`), an enrollment under way has an empty list and an identity (`Renewed`) and has removed the
certificate before it saves either (`CertGone`), and outside an enrollment's two saves, or one that stopped there, the
list on disk is of the identity on disk (`FilesAgree`).

**`EnrollmentProofs`: `WakeupsAreNotLost`, `ServedCertIsStored`, `HostIsTyped`**, about `HostCert`. With `HostTypeOK`
and `ServedBefore` (the server shows the stored certificate except between storing and reloading) the property is
inductive: the watcher sets its delay from the CA it has just read, and every later change of the CA belongs to a sync
that has yet to poke or has left a token. The token can only be taken in the select, after which the CA is read again.
`ServedCertIsStored` follows from `ServedBefore`.

**`RecordingProofs`: `NoRecordingIsLost`, `RemovalFollowsFinal`, `WritersAreLeftAlone`.** The invariant follows a
chunk from the file to the core: a stream without an error has sent or queued all there is (`Upload`), what the retry
is about to remove as uploaded is at the core (`Retry`), what is final at the core is over here and complete unless
the queue was overrun (`AtCore`), and a recording is active until it and its live upload are over (`Kept`). The last
is why a file the retry gives up cannot come to be finished afterwards: no stream is left that could. A file that
failed holds no more than the stream was given, so "complete" is a comparison of what the core has with what the file
has. **`RecordingIsBounded`** (`Spec => []TypeOK`) adds the limits (`Bounds`): what is sent and queued is no more than
what was recorded, except for the header of a recording that `New` gave up, so the limits on the file bound what
reaches the core too.

**`RecordingProofs`: `RecordingKeepsCustody`** (`Spec => ImplementsCustody`). With that invariant, and that a file
that was never there belongs to a recording that was never begun or given up (`NoFile`), no recording is at `lost`
(`Found`), and every step of the recorder, the uploader, the core, the retry or retention leaves a recording in its
place or takes it along one of the ways of `Custody`. A refused recording that the core has counts as at the core.
`WritersAreLeftAlone` says of the writers what `Custody` leaves open after an overrun: they keep their file then too.
It is only proved, not a property of a run.

**`CastProofs`: `StreamsReadAsRecorded`, `RecordingsKeepTime`.** For streams and reads of any length, gaps of any size
and any unit of the clock. `Stream(k)`: the bytes heard of a stream are a sequence whose text is in the recording,
followed by the pending head; no character goes over from the one to the other (`Cut`), and the head is three bytes at
most. The lemmas say that the text of two sequences put together is that of the parts when none goes over (`Clean`),
and that `IncompleteTail` cuts exactly there. `InTime`: the carried error is the recording's lead over the time with
the opposite sign, and at most half a millisecond.

**`SessionEndProofs`: `SessionCleansUp`, `EndIsRecorded`.** `EndInv` has where each goroutine can be (`Places`); how
far the handler is against the process and the copiers it starts (`Stage`); that `exitMu` is with the one goroutine
inside `finish`, and that nobody but the handler calls it before the recording is full (`Finish`); why a closed
recorder was closed (`Recorder`); and which descriptors each phase may still hold (`Descriptors`).

**`SessionEndProofs`: `SessionNeverStuck`; `SessionProofs`: `SessionWindsDown`.** What `SessionEnds` rests on, for any
output and any interleaving. While a goroutine is left after the client is gone, one of the guards of `DaemonNext`
holds (`Ready`): nobody waits in a circle. This needs `Quits`: a kill is not forgotten, whichever of `killProc` and
`setProc` came first, and the descriptor a goroutine could be waiting on is closed by the time the handler waits for
that goroutine. And every step, of the daemon, of the process or of what it left behind, lowers `Rank`, a number made
of how far each goroutine is, how much output there can still be, what is still open, what the process left behind and
whether the recording can still fail. So a session without a client
ends in at most `Rank` steps if the daemon takes the steps it has. Only that last inference, from a guard to a step
under weak fairness, is TLC's. That `Ready` enables `DaemonNext` was checked once with TLC on the instance of
`session`.

**`SessionProofs`: `OutputIsRecorded`, `OutputReachesTheClient`, `SignalsKeepOrder`, `SessionIsTyped`.** To `EndInv`
they add `Chunks`, where a chunk is between the process and the client: what was written is shown, in the hands of its
copier or still in the pipe as long as the client is there, and a chunk is recorded before it is shown, until the
recording is full or has failed; and `Signals`:
until the process is known all signals are pending in order, after that none is, and what the process got is a prefix
of them, all of them while it runs.

**`ServerProofs`.** The components first. `ClosedComesLast`: `sendMu` is with the closer that sends, a writer has it
only on a relay that is not closed, and until the one `Closed` is out there is only data. `SlotsAreExact`,
`SlotsAreReturned`, `NoListenerIsLost`: each counter is the cardinality of a set of connections, channels or listeners
that every step changes by one element. The first needs that only a remote connection is ever between the two halves
of a release, the second that a port has one forward at most and that closing listeners ends exactly the accept loops
that still ran on them (`StopCounts`), so that the map, the listeners and the slots stay in step when `Accept` has
failed on one. **`ServerComposes`** (`ServerSpec => AdmissionSpec /\ RelaySpec /\ Spec`): every step of `Server` is a
step of each component or leaves it alone, so their theorems hold in the composition (`ServerIsSafe`). `ServerIsTyped`
and `LiveHoldSlots` add what is only the server's (`LifeInv`): `s.live` is the connections between registration and
removal, a sweep has only such before it, and each of them has passed its handshake and holds a slot, so `DropRevoked`
has `MaxConns` connections to visit at most.

**`ServerProofs`: `SweepIsNeverStuck`, `SweepsCloseAll`**, the safety part of `SweepsEnd`. A `Close` of the relay that
has returned has cancelled the stream, and `handleConn` closes it only after its service (`Closings`). So a sweep that
waits in a relay's `Close` for a silent backend holds `sendMu`, keepAlive's `Close` has not returned and is not
waiting, and if it comes it fails `TryLock` and cancels; or the connection has no keepAlive yet, and the TTL is still
to come (`SweepGetsOn`). Under `liveMu` the live set does not change, a sweep's work only shrinks, what it is done
with is closed for good, and it gives the lock back with nothing left to do (`SweepIsThorough`).

Only model-checked: the liveness properties (`RevokeTakesEffect`, `CoreIsObeyed`, `PendingGoesOut`, `CertCatchesUp`,
`TeardownCompletes`, `HandshakesEnd`, `SweepsEnd`, `ConnectionsEnd`, `SessionEnds`, `FullSessionEnds`), because
fairness and `ENABLED` are out of the prover's reach. Of `SessionEnds` and `SweepsEnd` the safety part is proved, as
above.

## Not modelled

- The client's environment (`setClientEnv`, `buildEnv`): a filter and a merge of strings. A consequence seen on the
  way: `NOKKU_SESSION_ID` takes effect only if it is sent before the pty-req, which starts the recorder.
- The notice that a home directory is missing, and the wording of all others.
- Names of recordings (`toSnakeCase`, `recordingPattern`) and which of several old files retention drops first. In
  `Recording` retention drops any it may.
- The replacement of the host key in `keys.go`, and the arithmetic of the renewal deadline: a certificate is due or
  not.
- Pty and exec system calls, the account database, audit lines, host metadata, `disk.go`: I/O without state of its
  own. Where they fail, the model has the failure.
- Panics, which `recoverPanic` turns into the end of one connection or channel.
- Test servers and the leak test.
