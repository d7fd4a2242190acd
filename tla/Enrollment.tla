----------------------------- MODULE Enrollment -----------------------------
(***************************************************************************)
(* Which Nokku this host belongs to: config.json, cache.json and the host  *)
(* certificate under /var/lib/nokkud, and the two processes that write     *)
(* them (main.go, internal/client/client.go and sync.go): the service and  *)
(* the command line, which enrolls the host again or resets it.            *)
(*                                                                         *)
(* A Nokku stands for its API URL with its private CA, for the identity it *)
(* issues (DaemonID, TargetID, SessionToken), for its list (principals and *)
(* SSH CA) and for the certificates it signs.  Each Load and each Save is  *)
(* one step; SaveJSON and LoadJSON are external.                           *)
(***************************************************************************)
EXTENDS Naturals

CONSTANTS
  Nokkus, None,
  Ephemeral,    \* the Nokkus whose daemon config makes the host ephemeral
  Overlaps,     \* the processes the operator may start while the other one runs
  MaxCommands,  \* bound on the command lines run
  MaxFaults     \* bound on crashes and failed saves

ASSUME NokkusAssumption == Nokkus # {} /\ None \notin Nokkus
ASSUME EphemeralAssumption == Ephemeral \subseteq Nokkus
ASSUME OverlapsAssumption == Overlaps \subseteq {"service", "cli"}
ASSUME BoundsAssumption == MaxCommands \in Nat /\ MaxFaults \in Nat

VARIABLES
  disk,      \* the files: config.json, cache.json, the host certificate
  pc,        \* where each process is
  mem,       \* its Config and its Cache
  known,     \* external: the Nokkus that have a record of this host
  commands, faults,
  torn       \* history: an enrollment stopped between its two saves

vars == <<disk, pc, mem, known, commands, faults, torn>>

Procs == {"service", "cli"}
Owner == Nokkus \cup {None}
Config == [url : Nokkus, id : Owner]
Cache == [from : Owner, config : Owner]   \* whose list, whose daemon config
NoCache == [from |-> None, config |-> None]
\* DefaultAPIURL names one of them.
DefaultURL == CHOOSE n \in Nokkus : TRUE
Blank == [cfg |-> [url |-> DefaultURL, id |-> None], cache |-> NoCache, cert |-> None]
NoMem == [cfg |-> Blank.cfg, cache |-> NoCache]

PCs == {"off", "loaded", "ready", "enroll", "dropCert", "saveConfig", "saveCache",
        "serve", "syncSave", "clearCache", "clearConfig", "cleanup"}

TypeOK ==
  /\ disk \in [cfg : Config, cache : Cache, cert : Owner]
  /\ pc \in [Procs -> PCs]
  /\ mem \in [Procs -> [cfg : Config, cache : Cache]]
  /\ known \in SUBSET Nokkus
  /\ commands \in 0..MaxCommands /\ faults \in 0..MaxFaults
  /\ torn \in BOOLEAN
-----------------------------------------------------------------------------
Goto(p, l) == pc' = [pc EXCEPT ![p] = l]
Quit(p) == Goto(p, "off") /\ mem' = [mem EXCEPT ![p] = NoMem]
MayFault == faults < MaxFaults /\ faults' = faults + 1

\* loadState: both files are read, a given --api replaces the URL (and its CA).
Load(p, api) ==
  /\ pc[p] = "off"
  /\ p \in Overlaps \/ \A q \in Procs : pc[q] = "off"
  /\ p = "cli" => commands < MaxCommands
  /\ commands' = IF p = "cli" THEN commands + 1 ELSE commands
  /\ Goto(p, "loaded")
  /\ mem' = [mem EXCEPT ![p] =
       [cfg   |-> [disk.cfg EXCEPT !.url = IF api = None THEN @ ELSE api],
        cache |-> disk.cache]]
  /\ UNCHANGED <<disk, known, faults, torn>>

\* ...and loadState ends by saving the config.
SaveLoaded(p) ==
  /\ pc[p] = "loaded"
  /\ Goto(p, "ready")
  /\ disk' = [disk EXCEPT !.cfg = mem[p].cfg]
  /\ UNCHANGED <<mem, known, commands, faults, torn>>

\* Mutant: the service enrolls whenever its environment holds a token.
MutRun ==
  /\ pc["service"] = "ready"
  /\ Goto("service", "enroll") \/ Goto("service", "serve")
  /\ UNCHANGED <<disk, mem, known, commands, faults, torn>>

\* run: an enrolled host serves, another one enrolls with the token of its
\* environment or stops with errNotEnrolled.
Run ==
  /\ pc["service"] = "ready"
  /\ \/ mem["service"].cfg.id # None /\ Goto("service", "serve") /\ UNCHANGED mem
     \/ mem["service"].cfg.id = None /\ Goto("service", "enroll") /\ UNCHANGED mem
     \/ mem["service"].cfg.id = None /\ Quit("service")
  /\ UNCHANGED <<disk, known, commands, faults, torn>>

\* The enroll and reset commands. enrollHost saves a pinned CA first, which is part of
\* the URL here. reset goes on when the state does not load or save.
Command ==
  /\ \/ pc["cli"] = "ready" /\ Goto("cli", "enroll") /\ UNCHANGED faults
     \/ pc["cli"] = "ready" /\ Goto("cli", "cleanup") /\ UNCHANGED faults
     \/ pc["cli"] = "loaded" /\ Goto("cli", "cleanup") /\ MayFault
  /\ UNCHANGED <<disk, mem, known, commands, torn>>

\* EnrollDaemon is refused or unreachable.
EnrollRefused(p) ==
  /\ pc[p] = "enroll"
  /\ Quit(p)
  /\ UNCHANGED <<disk, known, commands, faults, torn>>

\* Mutant: the old list stays in the cache.
MutEnrolled(p) ==
  LET n == mem[p].cfg.url IN
  /\ pc[p] = "enroll"
  /\ Goto(p, "dropCert")
  /\ known' = known \cup {n}
  /\ mem' = [mem EXCEPT ![p].cfg.id = n, ![p].cache.config = n]
  /\ UNCHANGED <<disk, commands, faults, torn>>

\* Client.enroll: the cache is cleared, the config filled in, both in memory.
Enrolled(p) ==
  LET n == mem[p].cfg.url IN
  /\ pc[p] = "enroll"
  /\ Goto(p, "dropCert")
  /\ known' = known \cup {n}
  /\ mem' = [mem EXCEPT ![p].cfg.id = n, ![p].cache = [from |-> None, config |-> n]]
  /\ UNCHANGED <<disk, commands, faults, torn>>

\* Mutant: the old certificate stays.
MutDropCert(p) ==
  /\ pc[p] = "dropCert"
  /\ Goto(p, "saveConfig")
  /\ UNCHANGED <<disk, mem, known, commands, faults, torn>>

DropCert(p) ==
  /\ pc[p] = "dropCert"
  /\ Goto(p, "saveConfig")
  /\ disk' = [disk EXCEPT !.cert = None]
  /\ UNCHANGED <<mem, known, commands, faults, torn>>

SaveConfig(p) ==
  /\ pc[p] = "saveConfig"
  /\ Goto(p, "saveCache")
  /\ disk' = [disk EXCEPT !.cfg = mem[p].cfg]
  /\ UNCHANGED <<mem, known, commands, faults, torn>>

\* The command ends here, the service goes on to serve.
SaveCache(p) ==
  /\ pc[p] = "saveCache"
  /\ disk' = [disk EXCEPT !.cache = mem[p].cache]
  /\ torn' = FALSE
  /\ IF p = "cli" THEN Quit(p) ELSE Goto(p, "serve") /\ UNCHANGED mem
  /\ UNCHANGED <<known, commands, faults>>

\* unenroll: the core deletes its record or cannot be reached, the files go regardless.
\* reset ends with it, and so does an ephemeral service that is stopped.
Cleanup(p) ==
  /\ \/ p = "cli" /\ pc[p] = "cleanup"
     \/ p = "service" /\ pc[p] = "serve" /\ mem[p].cache.config \in Ephemeral
  /\ disk' = Blank
  /\ known' \in {known, known \ {n \in Nokkus : n = mem[p].cfg.id /\ n = mem[p].cfg.url}}
  /\ torn' = FALSE
  /\ Quit(p)
  /\ UNCHANGED <<commands, faults>>

\* SIGTERM on a host that is not ephemeral.
Stop ==
  /\ pc["service"] = "serve" /\ mem["service"].cache.config \notin Ephemeral
  /\ Quit("service")
  /\ UNCHANGED <<disk, known, commands, faults, torn>>
-----------------------------------------------------------------------------
(* syncDaemon, seen from here: whose list ends up where. *)

Svc == mem["service"]
\* external: the Nokku behind the URL only accepts a session token it issued.
Authentic == Svc.cfg.id = Svc.cfg.url

\* ACCEPTED or PENDING: Cache.Replace. A pending answer has no principals and no CA.
SyncApplied ==
  /\ pc["service"] = "serve" /\ Authentic /\ Svc.cfg.id \in known
  /\ Goto("service", "syncSave")
  /\ \E from \in {Svc.cfg.id, None} :
       mem' = [mem EXCEPT !["service"].cache = [from |-> from, config |-> Svc.cfg.id]]
  /\ UNCHANGED <<disk, known, commands, faults, torn>>

\* cache.Save. A sync only logs a failure.
SyncSave ==
  /\ pc["service"] = "syncSave"
  /\ Goto("service", "serve")
  /\ \/ disk' = [disk EXCEPT !.cache = Svc.cache] /\ UNCHANGED faults
     \/ MayFault /\ UNCHANGED disk
  /\ torn' = (torn /\ disk' = disk)
  /\ UNCHANGED <<mem, known, commands>>

\* REJECTED: the record is gone.
SyncRejected ==
  /\ pc["service"] = "serve" /\ Authentic /\ Svc.cfg.id \notin known
  /\ Goto("service", "clearCache")
  /\ mem' = [mem EXCEPT !["service"].cache = NoCache]
  /\ UNCHANGED <<disk, known, commands, faults, torn>>

SaveClearedCache ==
  /\ pc["service"] = "clearCache"
  /\ Goto("service", "clearConfig")
  /\ \/ disk' = [disk EXCEPT !.cache = NoCache] /\ UNCHANGED faults
     \/ MayFault /\ UNCHANGED disk
  /\ torn' = (torn /\ disk' = disk)
  /\ UNCHANGED <<mem, known, commands>>

\* Mutant: the URL goes with the rest.
MutSaveClearedConfig ==
  /\ pc["service"] = "clearConfig"
  /\ disk' = [disk EXCEPT !.cfg = [url |-> None, id |-> None]]
  /\ Quit("service")
  /\ UNCHANGED <<known, commands, faults, torn>>

\* Only the URL and its CA are kept, then the process exits.
SaveClearedConfig ==
  /\ pc["service"] = "clearConfig"
  /\ \/ disk' = [disk EXCEPT !.cfg = [url |-> Svc.cfg.url, id |-> None]] /\ UNCHANGED faults
     \/ MayFault /\ UNCHANGED disk
  /\ Quit("service")
  /\ UNCHANGED <<known, commands, torn>>

\* renewHostCerts: a certificate that the trusted CA did not sign is replaced, and one
\* from another CA is never stored.
RenewHostCert ==
  /\ pc["service"] \in {"serve", "syncSave"} /\ Authentic /\ Svc.cfg.id \in known
  /\ Svc.cache.from = Svc.cfg.id /\ disk.cert # Svc.cfg.id
  /\ disk' = [disk EXCEPT !.cert = Svc.cfg.id]
  /\ UNCHANGED <<pc, mem, known, commands, faults, torn>>
-----------------------------------------------------------------------------
\* A process dies, or a save fails and it returns the error.
Fault(p) ==
  /\ pc[p] # "off"
  /\ MayFault
  /\ torn' = (torn \/ pc[p] = "saveCache")
  /\ Quit(p)
  /\ UNCHANGED <<disk, known, commands>>

\* Someone deletes the daemon in the web app.
Deleted(n) ==
  /\ n \in known
  /\ known' = known \ {n}
  /\ UNCHANGED <<disk, pc, mem, commands, faults, torn>>

Home(n) == [cfg   |-> [url |-> n, id |-> n],
            cache |-> [from |-> n, config |-> n], cert |-> n]

\* A new host, or one that a Nokku has accepted.
Init ==
  /\ \/ disk = Blank /\ known = {}
     \/ \E n \in Nokkus : disk = Home(n) /\ known = {n}
  /\ pc = [p \in Procs |-> "off"] /\ mem = [p \in Procs |-> NoMem]
  /\ commands = 0 /\ faults = 0 /\ torn = FALSE

ServiceNext ==
  \/ Run \/ Stop \/ SyncApplied \/ SyncSave \/ SyncRejected \/ SaveClearedCache
  \/ SaveClearedConfig \/ RenewHostCert

ProcNext(p) ==
  \/ \E api \in Owner : Load(p, api)
  \/ SaveLoaded(p) \/ EnrollRefused(p) \/ Enrolled(p) \/ DropCert(p)
  \/ SaveConfig(p) \/ SaveCache(p) \/ Cleanup(p) \/ Fault(p)

Next ==
  \/ ServiceNext \/ Command
  \/ \E p \in Procs : ProcNext(p)
  \/ \E n \in Nokkus : Deleted(n)

Spec == Init /\ [][Next]_vars
-----------------------------------------------------------------------------
Serving == pc["service"] \in {"serve", "syncSave"}

(* Enrolling again drops everything the old Nokku trusted: a service never *)
(* decides logins from the list of a Nokku it is not enrolled with         *)
(* (client.go 117, README.md 73).                                          *)
OldTrustDropped == Serving => Svc.cache.from \in {None, Svc.cfg.id}

(* The same, but for an enrollment that stopped between config.Save and    *)
(* cache.Save and that no later save has mended.                           *)
OldTrustDroppedUnlessTorn == ~torn => OldTrustDropped

(* An enrolled host never keeps the certificate of an earlier enrollment   *)
(* on disk, wherever the enrollment is interrupted: Client.enroll removes  *)
(* it before it saves the new identity.                                    *)
CertFollowsEnrollment == disk.cfg.id # None => disk.cert \in {None, disk.cfg.id}

(* A token that stays in the service's environment cannot move an enrolled *)
(* host: the service alone may drop its enrollment, never change it        *)
(* (run, main.go 134).                                                     *)
ServiceNeverMoves ==
  [][pc["cli"] = "off" /\ disk.cfg.id # None
       => disk'.cfg.id \in {disk.cfg.id, None}]_vars
=============================================================================
