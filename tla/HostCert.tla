------------------------------ MODULE HostCert ------------------------------
(***************************************************************************)
(* The host certificate (internal/hostcerts, client/watcher.go and the     *)
(* renew channel of client/sync.go).  A sync replaces the CA in the cache  *)
(* and pokes the watcher; the watcher alone reads the CA, has the core     *)
(* sign the host key, stores the certificate and reloads the server.       *)
(*                                                                         *)
(* A certificate is the CA that signed it and whether its renewal deadline *)
(* (half its lifetime) has passed.  One for another host key or another    *)
(* target is as good as none.                                              *)
(***************************************************************************)
EXTENDS Naturals

CONSTANTS
  CAs, NoCA,
  Garbled,        \* a CA key that ParseAuthorizedKey refuses
  MaxRollovers,   \* bound on the CA rollovers of the core
  MaxCrashes

ASSUME KeysAssumption == NoCA \notin CAs /\ Garbled \notin CAs /\ NoCA # Garbled
ASSUME RolloversAssumption == MaxRollovers \in Nat /\ MaxCrashes \in Nat

VARIABLES
  coreCA, rollovers,     \* external: the CA the core signs with
  up, crashes,
  ca, diskCA,            \* Cache.CA, in memory and in cache.json
  spc, changed,          \* the syncer: syncDaemon
  renew,                 \* tokens in the renew channel, of capacity 1
  wpc, wca, signed, delay, \* the watcher: watchCertificates
  cert, served           \* the certificate on disk, the CA of the one the server shows

syncer == <<spc, changed>>
watcher == <<wpc, wca, signed, delay>>
hostVars == <<coreCA, rollovers, up, crashes, ca, diskCA, syncer, renew, watcher, cert, served>>

Key == CAs \cup {NoCA, Garbled}
Cert == [ca : CAs \cup {NoCA}, due : BOOLEAN]
NoCert == [ca |-> NoCA, due |-> FALSE]

HostTypeOK ==
  /\ coreCA \in CAs /\ rollovers \in 0..MaxRollovers
  /\ up \in BOOLEAN /\ crashes \in 0..MaxCrashes
  /\ ca \in Key /\ diskCA \in Key
  /\ spc \in {"first", "idle", "poke", "save"} /\ changed \in BOOLEAN
  /\ renew \in 0..1
  /\ wpc \in {"none", "read", "sign", "store", "reload", "next", "arm", "wait"}
  /\ wca \in Key /\ signed \in Cert /\ delay \in {"soon", "deadline"}
  /\ cert \in Cert /\ served \in CAs \cup {NoCA}
-----------------------------------------------------------------------------
(* The syncer. Cache.Replace; the answer's key is the core's CA, the empty *)
(* key of a pending answer, or one that does not parse.                    *)
SyncReplace ==
  /\ up /\ (spc = "first" \/ (spc = "idle" /\ wpc # "none"))
  /\ \E key \in {coreCA, NoCA, Garbled} : ca' = key /\ changed' = (key # ca)
  /\ spc' = "poke"
  /\ UNCHANGED <<coreCA, rollovers, up, crashes, diskCA, renew, watcher, cert, served>>

\* Mutant: tokens pile up.
MutSyncPokeTwice ==
  /\ spc = "poke"
  /\ spc' = "save"
  /\ renew' = IF changed THEN renew + 1 ELSE renew
  /\ changed' = FALSE
  /\ UNCHANGED <<coreCA, rollovers, up, crashes, ca, diskCA, watcher, cert, served>>

\* Mutant: a channel without a buffer, which only takes a token while the watcher waits.
MutSyncPokeUnbuffered ==
  /\ spc = "poke"
  /\ spc' = "save"
  /\ renew' = IF changed /\ wpc = "wait" THEN 1 ELSE renew
  /\ changed' = FALSE
  /\ UNCHANGED <<coreCA, rollovers, up, crashes, ca, diskCA, watcher, cert, served>>

\* A new CA wakes the watcher. The send never blocks.
SyncPoke ==
  /\ spc = "poke"
  /\ spc' = "save"
  /\ renew' = IF changed THEN 1 ELSE renew
  /\ changed' = FALSE
  /\ UNCHANGED <<coreCA, rollovers, up, crashes, ca, diskCA, watcher, cert, served>>

\* Cache.Save, whose failure is logged.
SaveSynced ==
  /\ spc = "save"
  /\ spc' = "idle"
  /\ diskCA' \in {ca, diskCA}
  /\ UNCHANGED <<coreCA, rollovers, up, crashes, ca, changed, renew, watcher, cert, served>>

\* The initial sync fails and the daemon serves from its cache.
FirstSyncFails ==
  /\ up /\ spc = "first"
  /\ spc' = "idle"
  /\ UNCHANGED <<coreCA, rollovers, up, crashes, ca, diskCA, changed, renew, watcher, cert, served>>
-----------------------------------------------------------------------------
(* The watcher. *)

\* Run starts it after the initial sync, whatever that returned.
WatchStarts ==
  /\ up /\ spc = "idle" /\ wpc = "none"
  /\ wpc' = "read"
  /\ UNCHANGED <<coreCA, rollovers, up, crashes, ca, diskCA, syncer, renew, wca, signed, delay, cert, served>>

NeedsRenewal(key) == cert.ca # key \/ cert.due

\* Mutant: after an error the watcher sleeps until the deadline.
MutFailed == wpc' = "arm" /\ delay' = "deadline"

\* An error: retried after the backoff.
Failed == wpc' = "arm" /\ delay' = "soon"

\* renewHostCerts takes the CA once. Without one there is nothing to do.
ReadCA ==
  /\ wpc = "read"
  /\ wca' = ca
  /\ \/ ca = Garbled /\ Failed
     \/ ca = NoCA /\ wpc' = "next" /\ UNCHANGED delay
     \/ ca \in CAs /\ wpc' = (IF NeedsRenewal(ca) THEN "sign" ELSE "next") /\ UNCHANGED delay
  /\ UNCHANGED <<coreCA, rollovers, up, crashes, ca, diskCA, syncer, renew, signed, cert, served>>

Sign ==
  /\ wpc = "sign"
  /\ signed' = [ca |-> coreCA, due |-> FALSE]
  /\ wpc' = "store"
  /\ UNCHANGED <<coreCA, rollovers, up, crashes, ca, diskCA, syncer, renew, wca, delay, cert, served>>

\* Signing fails, the answer does not parse, or the file cannot be written.
RenewFails ==
  /\ wpc \in {"sign", "store"}
  /\ Failed
  /\ UNCHANGED <<coreCA, rollovers, up, crashes, ca, diskCA, syncer, renew, wca, signed, cert, served>>

\* Mutant: the server is not reloaded.
MutStore ==
  /\ wpc = "store"
  /\ \/ signed.ca = wca /\ cert' = signed /\ wpc' = "next" /\ UNCHANGED delay
     \/ signed.ca # wca /\ UNCHANGED cert /\ Failed
  /\ UNCHANGED <<coreCA, rollovers, up, crashes, ca, diskCA, syncer, renew, wca, signed, served>>

\* saveCertificate never stores one from another CA than the one that was asked for.
Store ==
  /\ wpc = "store"
  /\ \/ signed.ca = wca /\ cert' = signed /\ wpc' = "reload" /\ UNCHANGED delay
     \/ signed.ca # wca /\ UNCHANGED cert /\ Failed
  /\ UNCHANGED <<coreCA, rollovers, up, crashes, ca, diskCA, syncer, renew, wca, signed, served>>

Reload ==
  /\ wpc = "reload"
  /\ served' = cert.ca
  /\ wpc' = "next"
  /\ UNCHANGED <<coreCA, rollovers, up, crashes, ca, diskCA, syncer, renew, wca, signed, delay, cert>>

\* NextRenewal, with the CA read again: now (then after minRenewDelay) or the deadline.
NextRenewal ==
  /\ wpc = "next"
  /\ delay' = IF ca \notin CAs \/ NeedsRenewal(ca) THEN "soon" ELSE "deadline"
  /\ wpc' = "arm"
  /\ UNCHANGED <<coreCA, rollovers, up, crashes, ca, diskCA, syncer, renew, wca, signed, cert, served>>

\* The select: from here a token or the timer wakes it.
Select ==
  /\ wpc = "arm"
  /\ wpc' = "wait"
  /\ UNCHANGED <<coreCA, rollovers, up, crashes, ca, diskCA, syncer, renew, wca, signed, delay, cert, served>>

Woken ==
  /\ wpc = "wait" /\ renew = 1
  /\ renew' = 0
  /\ wpc' = "read"
  /\ UNCHANGED <<coreCA, rollovers, up, crashes, ca, diskCA, syncer, wca, signed, delay, cert, served>>

TimerFires ==
  /\ wpc = "wait" /\ (delay = "soon" \/ cert.due)
  /\ wpc' = "read"
  /\ UNCHANGED <<coreCA, rollovers, up, crashes, ca, diskCA, syncer, renew, wca, signed, delay, cert, served>>
-----------------------------------------------------------------------------
(* The surroundings. *)

\* Half the certificate's lifetime has passed.
CertDue ==
  /\ cert.ca # NoCA /\ ~cert.due
  /\ cert' = [cert EXCEPT !.due = TRUE]
  /\ UNCHANGED <<coreCA, rollovers, up, crashes, ca, diskCA, syncer, renew, watcher, served>>

RollOver ==
  /\ rollovers < MaxRollovers
  /\ rollovers' = rollovers + 1
  /\ coreCA' \in CAs \ {coreCA}
  /\ UNCHANGED <<up, crashes, ca, diskCA, syncer, renew, watcher, cert, served>>

\* The process ends. A rejection, or a save that was cut short, leaves an empty cache.
Crash ==
  /\ up /\ crashes < MaxCrashes
  /\ crashes' = crashes + 1
  /\ up' = FALSE
  /\ spc' = "first" /\ changed' = FALSE /\ renew' = 0
  /\ wpc' = "none" /\ wca' = NoCA /\ signed' = NoCert /\ delay' = "soon"
  /\ ca' = NoCA /\ served' = NoCA
  /\ diskCA' \in {diskCA, NoCA}
  /\ UNCHANGED <<coreCA, rollovers, cert>>

\* Cache.Load, and sshd.New loads the certificate.
Start ==
  /\ ~up
  /\ up' = TRUE
  /\ ca' = diskCA /\ served' = cert.ca
  /\ UNCHANGED <<coreCA, rollovers, crashes, diskCA, syncer, renew, watcher, cert>>

HostInit ==
  /\ coreCA \in CAs /\ rollovers = 0
  /\ up = FALSE /\ crashes = 0
  /\ ca = NoCA /\ diskCA = NoCA
  /\ spc = "first" /\ changed = FALSE /\ renew = 0
  /\ wpc = "none" /\ wca = NoCA /\ signed = NoCert /\ delay = "soon"
  /\ cert = NoCert /\ served = NoCA

WatchNext ==
  \/ WatchStarts \/ ReadCA \/ Sign \/ RenewFails \/ Store \/ Reload
  \/ NextRenewal \/ Select \/ Woken \/ TimerFires

SyncNext == SyncReplace \/ SyncPoke \/ SaveSynced \/ FirstSyncFails

HostNext == WatchNext \/ SyncNext \/ CertDue \/ RollOver \/ Crash \/ Start

HostSpec == HostInit /\ [][HostNext]_hostVars

(* The watcher's goroutine runs and its timers fire.  The core is reachable *)
(* often enough that a signing that is tried again and again succeeds, and  *)
(* the disk takes the result.  A sync that has replaced the cache goes on,  *)
(* and the initial one returns (syncTimeout).  Nothing is assumed of when   *)
(* later syncs, rollovers or restarts happen.                               *)
FairHostSpec ==
  /\ HostSpec
  /\ WF_hostVars(WatchStarts) /\ WF_hostVars(ReadCA) /\ WF_hostVars(Reload) /\ WF_hostVars(NextRenewal)
  /\ WF_hostVars(Select) /\ WF_hostVars(Woken) /\ WF_hostVars(TimerFires)
  /\ SF_hostVars(Sign) /\ SF_hostVars(Store)
  /\ WF_hostVars(SyncPoke) /\ WF_hostVars(SaveSynced) /\ WF_hostVars(FirstSyncFails)
-----------------------------------------------------------------------------
(* While the watcher sleeps, new connections get the certificate on disk:  *)
(* every renewal that stored one has reloaded the server.                  *)
ServedIsStored == wpc \in {"arm", "wait"} => served = cert.ca

(* No CA change is missed: a watcher that means to sleep until the         *)
(* renewal deadline while its certificate is from another CA than the      *)
(* cache's has a token waiting, or a sync that is about to send one.  The  *)
(* watcher reads the CA outside the select and the send never blocks, so   *)
(* this rests on the channel's buffer (sync.go 59-64, watcher.go 36-43).   *)
NoLostWakeup ==
  wpc \in {"arm", "wait"} /\ delay = "deadline" /\ cert.ca # ca
    => renew = 1 \/ (spc = "poke" /\ changed)

(* Once the core and the daemon agree on a CA for good, the server comes   *)
(* to show a certificate of that CA and keeps showing one, whatever was    *)
(* signed or stored for an earlier CA on the way (SECURITY.md 103: "The    *)
(* host certificate is renewed apart from them, at half of its lifetime or *)
(* when the CA changes").                                                  *)
CertCatchesUp ==
  \A c \in CAs : <>[](up /\ ca = c /\ coreCA = c) => <>[](served = c)
=============================================================================
