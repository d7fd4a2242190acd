-------------------------- MODULE EnrollmentProofs ---------------------------
(***************************************************************************)
(* What the files of one enrollment carry into the next, for any number of *)
(* Nokkus, commands, crashes and failed saves; and, at the end, how the    *)
(* host certificate of the enrolled host is renewed.                       *)
(***************************************************************************)
EXTENDS Enrollment, HostCert, TLAPS

\* The service is stopped before a command, and started after it.
Alone == \A p, q \in Procs : p # q => pc[p] = "off" \/ pc[q] = "off"

\* What a running process has in memory, against the files.
Fresh(p)     == pc[p] \in {"loaded", "ready", "enroll"} =>
                  mem[p].cache = disk.cache /\ mem[p].cfg.id = disk.cfg.id
Saved(p)     == pc[p] \in {"ready", "saveCache", "serve", "syncSave", "clearCache",
                            "clearConfig"} =>
                  mem[p].cfg = disk.cfg
Renewed(p)   == pc[p] \in {"dropCert", "saveConfig", "saveCache"} =>
                  mem[p].cache.from = None /\ mem[p].cfg.id # None
CertGone(p)  == pc[p] \in {"saveConfig", "saveCache"} => disk.cert = None

\* The service only serves an enrolled host, and only enrolls one that is not.
ServesOwn == /\ Serving => Svc.cfg.id # None
             /\ pc["service"] = "syncSave" => Svc.cache.from \in {None, Svc.cfg.id}
             /\ pc["service"] \in {"enroll", "dropCert", "saveConfig"} => disk.cfg.id = None

\* The files agree, unless an enrollment is between its two saves or stopped there.
FilesAgree ==
  ~torn /\ disk.cfg.id # None /\ (\A p \in Procs : pc[p] # "saveCache")
    => disk.cache.from \in {None, disk.cfg.id}

EnrollmentInv ==
  /\ TypeOK /\ Alone
  /\ \A p \in Procs : Fresh(p) /\ Saved(p) /\ Renewed(p) /\ CertGone(p)
  /\ ServesOwn /\ FilesAgree
  /\ OldTrustDroppedUnlessTorn /\ CertFollowsEnrollment

\* The URL of a new host is that of some Nokku.
LEMMA BlankType ==
  /\ DefaultURL \in Nokkus /\ None \in Owner /\ NoCache \in Cache
  /\ Blank \in [cfg : Config, cache : Cache, cert : Owner]
  /\ NoMem \in [cfg : Config, cache : Cache]
BY NokkusAssumption DEF DefaultURL, Blank, NoMem, NoCache, Config, Cache, Owner

\* A process that stops, and one that goes on, stay where processes can be.
LEMMA PcType ==
  ASSUME pc \in [Procs -> PCs], NEW p \in Procs, NEW l \in PCs, Goto(p, l)
  PROVE  pc' \in [Procs -> PCs]
BY DEF Goto

\* A process that quits leaves nothing in memory.
LEMMA QuitType ==
  ASSUME TypeOK, NEW p \in Procs, Quit(p)
  PROVE  pc' \in [Procs -> PCs] /\ mem' \in [Procs -> [cfg : Config, cache : Cache]]
BY BlankType, PcType DEF Quit, TypeOK, PCs

\* Faults are counted.
LEMMA FaultType ==
  ASSUME TypeOK, MayFault
  PROVE  faults' \in 0..MaxFaults
BY BoundsAssumption DEF TypeOK, MayFault

\* Every step leaves well-formed files and memories.
LEMMA TypeInductive == TypeOK /\ [Next]_vars => TypeOK'
<1> SUFFICES ASSUME TypeOK, [Next]_vars PROVE TypeOK'
  OBVIOUS
<1> DEFINE Mem == [cfg : Config, cache : Cache]
<1>p. {"service", "cli"} \subseteq Procs /\ Procs = {"service", "cli"}
  BY DEF Procs
<1>m. mem \in [Procs -> Mem] /\ \A p \in Procs : mem[p] \in Mem
  BY DEF TypeOK
<1>s. Svc \in Mem
  BY <1>m, <1>p DEF Svc
<1>1. CASE UNCHANGED vars
  BY <1>1 DEF vars, TypeOK
<1>2. CASE Run
  <2>1. pc' \in [Procs -> PCs] /\ mem' \in [Procs -> Mem]
    <3>1. CASE Quit("service")
      BY <3>1, <1>p, QuitType
    <3>2. CASE UNCHANGED mem /\ (Goto("service", "serve") \/ Goto("service", "enroll"))
      BY <3>2, <1>p, PcType DEF TypeOK, PCs
    <3> QED
      BY <1>2, <3>1, <3>2 DEF Run
  <2> QED
    BY <1>2, <2>1 DEF Run, TypeOK
<1>3. CASE Stop
  BY <1>3, <1>p, QuitType DEF Stop, TypeOK
<1>4. CASE SyncApplied
  <2>1. pc' \in [Procs -> PCs]
    BY <1>4, <1>p, PcType DEF SyncApplied, TypeOK, PCs
  <2>2. mem' \in [Procs -> Mem]
    BY <1>4, <1>m, <1>s, <1>p DEF SyncApplied, Config, Cache, Owner
  <2> QED
    BY <1>4, <2>1, <2>2 DEF SyncApplied, TypeOK
<1>5. CASE SyncSave
  <2>1. pc' \in [Procs -> PCs]
    BY <1>5, <1>p, PcType DEF SyncSave, TypeOK, PCs
  <2>2. disk' \in [cfg : Config, cache : Cache, cert : Owner] /\ faults' \in 0..MaxFaults
    BY <1>5, <1>s, FaultType DEF SyncSave, TypeOK
  <2>3. torn' \in BOOLEAN
    BY <1>5 DEF SyncSave
  <2> QED
    BY <1>5, <2>1, <2>2, <2>3 DEF SyncSave, TypeOK
<1>6. CASE SyncRejected
  <2>1. pc' \in [Procs -> PCs]
    BY <1>6, <1>p, PcType DEF SyncRejected, TypeOK, PCs
  <2>2. mem' \in [Procs -> Mem]
    BY <1>6, <1>m, <1>p, BlankType DEF SyncRejected
  <2> QED
    BY <1>6, <2>1, <2>2 DEF SyncRejected, TypeOK
<1>7. CASE SaveClearedCache
  <2>1. pc' \in [Procs -> PCs]
    BY <1>7, <1>p, PcType DEF SaveClearedCache, TypeOK, PCs
  <2>2. disk' \in [cfg : Config, cache : Cache, cert : Owner] /\ faults' \in 0..MaxFaults
    BY <1>7, BlankType, FaultType DEF SaveClearedCache, TypeOK
  <2>3. torn' \in BOOLEAN
    BY <1>7 DEF SaveClearedCache
  <2> QED
    BY <1>7, <2>1, <2>2, <2>3 DEF SaveClearedCache, TypeOK
<1>8. CASE SaveClearedConfig
  <2>1. disk' \in [cfg : Config, cache : Cache, cert : Owner] /\ faults' \in 0..MaxFaults
    BY <1>8, <1>s, BlankType, FaultType DEF SaveClearedConfig, TypeOK, Config
  <2> QED
    BY <1>8, <1>p, <2>1, QuitType DEF SaveClearedConfig, TypeOK
<1>9. CASE RenewHostCert
  BY <1>9, <1>s DEF RenewHostCert, TypeOK, Config
<1>10. CASE Command
  <2>1. pc' \in [Procs -> PCs] /\ faults' \in 0..MaxFaults
    BY <1>10, <1>p, PcType, FaultType DEF Command, TypeOK, PCs
  <2> QED
    BY <1>10, <2>1 DEF Command, TypeOK
<1>11. CASE \E p \in Procs : ProcNext(p)
  <2> PICK p \in Procs : ProcNext(p)
    BY <1>11
  <2>1. CASE \E api \in Owner : Load(p, api)
    <3> PICK api \in Owner : Load(p, api)
      BY <2>1
    <3>1. pc' \in [Procs -> PCs]
      BY PcType DEF Load, TypeOK, PCs
    <3>2. mem' \in [Procs -> Mem]
      <4>1. [disk.cfg EXCEPT !.url = IF api = None THEN @ ELSE api] \in Config
        BY DEF TypeOK, Config, Owner
      <4> QED
        BY <4>1, <1>m DEF Load, TypeOK
    <3>3. commands' \in 0..MaxCommands
      BY BoundsAssumption, <1>p DEF Load, TypeOK
    <3> QED
      BY <3>1, <3>2, <3>3 DEF Load, TypeOK
  <2>2. CASE SaveLoaded(p)
    BY <2>2, <1>m, PcType DEF SaveLoaded, TypeOK, PCs
  <2>3. CASE EnrollRefused(p)
    BY <2>3, QuitType DEF EnrollRefused, TypeOK
  <2>4. CASE Enrolled(p)
    <3>1. pc' \in [Procs -> PCs]
      BY <2>4, PcType DEF Enrolled, TypeOK, PCs
    <3>2. mem[p].cfg.url \in Nokkus /\ known' \in SUBSET Nokkus
      BY <2>4, <1>m DEF Enrolled, TypeOK, Config
    <3>3. mem' \in [Procs -> Mem]
      <4> DEFINE n == mem[p].cfg.url
                 one == [mem EXCEPT ![p].cfg.id = n]
                 two == [one EXCEPT ![p].cache = [from |-> None, config |-> n]]
      <4>1. one \in [Procs -> Mem]
        <5>1. [mem[p].cfg EXCEPT !.id = n] \in Config
          BY <3>2, <1>m DEF Config, Owner
        <5>2. [mem[p] EXCEPT !.cfg.id = n] \in Mem
          BY <5>1, <1>m
        <5> QED
          BY <5>2, <1>m
      <4>2. two \in [Procs -> Mem]
        <5>1. [from |-> None, config |-> n] \in Cache
          BY <3>2 DEF Cache, Owner
        <5>2. [one[p] EXCEPT !.cache = [from |-> None, config |-> n]] \in Mem
          <6> HIDE DEF one
          <6> QED
            BY <4>1, <5>1
        <5> HIDE DEF one
        <5> QED
          BY <5>2, <4>1
      <4>3. mem' = two
        BY <2>4 DEF Enrolled
      <4> HIDE DEF two
      <4> QED
        BY <4>2, <4>3
    <3> QED
      BY <2>4, <3>1, <3>2, <3>3 DEF Enrolled, TypeOK
  <2>5. CASE DropCert(p)
    BY <2>5, PcType, BlankType DEF DropCert, TypeOK, PCs
  <2>6. CASE SaveConfig(p)
    BY <2>6, <1>m, PcType DEF SaveConfig, TypeOK, PCs
  <2>7. CASE SaveCache(p)
    <3>1. pc' \in [Procs -> PCs] /\ mem' \in [Procs -> Mem]
      BY <2>7, PcType, QuitType DEF SaveCache, TypeOK, PCs
    <3> QED
      BY <2>7, <3>1, <1>m, Zenon DEF SaveCache, TypeOK
  <2>8. CASE Cleanup(p)
    BY <2>8, QuitType, BlankType, Zenon DEF Cleanup, TypeOK
  <2>9. CASE Fault(p)
    <3>1. torn' \in BOOLEAN
      BY <2>9 DEF Fault
    <3> QED
      BY <2>9, <3>1, QuitType, FaultType DEF Fault, TypeOK
  <2> QED
    BY <2>1, <2>2, <2>3, <2>4, <2>5, <2>6, <2>7, <2>8, <2>9 DEF ProcNext
<1>12. CASE \E n \in Nokkus : Deleted(n)
  BY <1>12 DEF Deleted, TypeOK
<1> QED
  BY <1>1, <1>2, <1>3, <1>4, <1>5, <1>6, <1>7, <1>8, <1>9, <1>10, <1>11, <1>12
     DEF Next, ServiceNext
-----------------------------------------------------------------------------
\* The process that takes a step is the only one.
LEMMA OneMoves ==
  ASSUME TypeOK, Alone, NEW p \in Procs, pc[p] # "off", NEW l \in PCs, Goto(p, l)
  PROVE  pc'[p] = l /\ \A q \in Procs \ {p} : pc'[q] = "off"
BY DEF TypeOK, Alone, Goto

\* Only what that process holds has to be looked at after its step.
LEMMA Landed ==
  ASSUME NEW p \in Procs, \A q \in Procs \ {p} : pc'[q] = "off",
         TypeOK', Fresh(p)', Saved(p)', Renewed(p)', CertGone(p)',
         p = "service" => ServesOwn' /\ OldTrustDroppedUnlessTorn',
         (~torn /\ disk.cfg.id # None /\ pc[p] # "saveCache"
            => disk.cache.from \in {None, disk.cfg.id})',
         CertFollowsEnrollment'
  PROVE  EnrollmentInv'
<1>1. Alone'
  BY DEF Alone
<1>2. ASSUME NEW q \in Procs \ {p}
      PROVE  Fresh(q)' /\ Saved(q)' /\ Renewed(q)' /\ CertGone(q)'
  BY DEF Fresh, Saved, Renewed, CertGone
<1>3. p # "service" => pc'["service"] = "off"
  BY DEF Procs
<1>4. ServesOwn' /\ OldTrustDroppedUnlessTorn'
  BY <1>3 DEF ServesOwn, OldTrustDroppedUnlessTorn, OldTrustDropped, Serving
<1>5. FilesAgree'
  BY DEF FilesAgree
<1> QED
  BY <1>1, <1>2, <1>4, <1>5 DEF EnrollmentInv

\* A process that stops leaves nothing in memory to look at.
LEMMA Stopped ==
  ASSUME EnrollmentInv, TypeOK', NEW p \in Procs, pc[p] # "off", Quit(p),
         (~torn /\ disk.cfg.id # None => disk.cache.from \in {None, disk.cfg.id})',
         CertFollowsEnrollment'
  PROVE  EnrollmentInv'
<1>1. pc'[p] = "off" /\ \A q \in Procs \ {p} : pc'[q] = "off"
  BY OneMoves DEF Quit, EnrollmentInv, PCs
<1>2. Fresh(p)' /\ Saved(p)' /\ Renewed(p)' /\ CertGone(p)'
  BY <1>1 DEF Fresh, Saved, Renewed, CertGone
<1>3. p = "service" => ServesOwn' /\ OldTrustDroppedUnlessTorn'
  BY <1>1 DEF ServesOwn, OldTrustDroppedUnlessTorn, OldTrustDropped, Serving
<1> QED
  BY <1>1, <1>2, <1>3, Landed

\* While a process is anywhere but between its two saves, the files agree.
LEMMA Agreed ==
  ASSUME EnrollmentInv, NEW p \in Procs, pc[p] \notin {"off", "saveCache"},
         ~torn, disk.cfg.id # None
  PROVE  disk.cache.from \in {None, disk.cfg.id}
BY DEF EnrollmentInv, FilesAgree, Alone

USE DEF Fresh, Saved, Renewed, CertGone

\* The steps of a process that loads and saves its state.
LEMMA StateKeeps ==
  ASSUME EnrollmentInv, TypeOK', Overlaps = {}, NEW p \in Procs,
         (\E api \in Owner : Load(p, api)) \/ SaveLoaded(p)
  PROVE  EnrollmentInv'
<1> USE DEF EnrollmentInv
<1>1. ASSUME NEW api \in Owner, Load(p, api) PROVE EnrollmentInv'
  <2>1. pc'[p] = "loaded" /\ (\A q \in Procs : pc[q] = "off")
        /\ \A q \in Procs \ {p} : pc'[q] = "off"
    BY <1>1 DEF Load, Goto, TypeOK
  <2>2. mem'[p].cache = disk.cache /\ mem'[p].cfg.id = disk.cfg.id
    BY <1>1 DEF Load, TypeOK, Config
  <2>3. Fresh(p)' /\ Saved(p)' /\ Renewed(p)' /\ CertGone(p)'
    BY <1>1, <2>1, <2>2 DEF Load
  <2>4. p = "service" => ServesOwn' /\ OldTrustDroppedUnlessTorn'
    BY <2>1 DEF ServesOwn, OldTrustDroppedUnlessTorn, OldTrustDropped, Serving
  <2>5. CertFollowsEnrollment'
        /\ (~torn /\ disk.cfg.id # None => disk.cache.from \in {None, disk.cfg.id})'
    BY <1>1, <2>1 DEF Load, CertFollowsEnrollment, FilesAgree
  <2> QED
    BY <2>1, <2>3, <2>4, <2>5, Landed
<1>2. CASE SaveLoaded(p)
  <2>1. pc'[p] = "ready" /\ \A q \in Procs \ {p} : pc'[q] = "off"
    BY <1>2, OneMoves DEF SaveLoaded, PCs
  <2>2. disk'.cfg = mem[p].cfg /\ disk'.cache = disk.cache /\ disk'.cert = disk.cert
    BY <1>2 DEF SaveLoaded, TypeOK
  <2>3. mem[p].cache = disk.cache /\ mem[p].cfg.id = disk.cfg.id
    BY <1>2 DEF SaveLoaded
  <2>4. Fresh(p)' /\ Saved(p)' /\ Renewed(p)' /\ CertGone(p)'
    BY <1>2, <2>1, <2>2, <2>3 DEF SaveLoaded
  <2>5. p = "service" => ServesOwn' /\ OldTrustDroppedUnlessTorn'
    BY <2>1 DEF ServesOwn, OldTrustDroppedUnlessTorn, OldTrustDropped, Serving
  <2>6. CertFollowsEnrollment'
        /\ (~torn /\ disk.cfg.id # None => disk.cache.from \in {None, disk.cfg.id})'
    BY <1>2, <2>2, <2>3, Agreed DEF SaveLoaded, CertFollowsEnrollment
  <2> QED
    BY <2>1, <2>4, <2>5, <2>6, Landed
<1> QED
  BY <1>1, <1>2

\* The steps of an enrollment, by the service or by the command.
LEMMA EnrollKeeps ==
  ASSUME EnrollmentInv, TypeOK', NEW p \in Procs,
         Enrolled(p) \/ DropCert(p) \/ SaveConfig(p) \/ SaveCache(p)
  PROVE  EnrollmentInv'
<1> USE DEF EnrollmentInv
<1>1. CASE Enrolled(p)
  <2>1. pc'[p] = "dropCert" /\ \A q \in Procs \ {p} : pc'[q] = "off"
    BY <1>1, OneMoves DEF Enrolled, PCs
  <2>2. mem'[p].cache.from = None /\ mem'[p].cfg.id # None /\ UNCHANGED <<disk, torn>>
    <3>1. mem[p].cfg.url # None
      BY NokkusAssumption DEF TypeOK, Config
    <3> QED
      BY <1>1, <3>1 DEF Enrolled, TypeOK, Config
  <2>3. Fresh(p)' /\ Saved(p)' /\ Renewed(p)' /\ CertGone(p)'
    BY <2>1, <2>2
  <2>4. p = "service" => ServesOwn' /\ OldTrustDroppedUnlessTorn'
    BY <1>1, <2>1, <2>2
       DEF Enrolled, ServesOwn, OldTrustDroppedUnlessTorn, OldTrustDropped, Serving
  <2>5. CertFollowsEnrollment'
        /\ (~torn /\ disk.cfg.id # None => disk.cache.from \in {None, disk.cfg.id})'
    BY <1>1, <2>2, Agreed DEF Enrolled, CertFollowsEnrollment
  <2> QED
    BY <2>1, <2>3, <2>4, <2>5, Landed
<1>2. CASE DropCert(p)
  <2>1. pc'[p] = "saveConfig" /\ \A q \in Procs \ {p} : pc'[q] = "off"
    BY <1>2, OneMoves DEF DropCert, PCs
  <2>2. disk'.cfg = disk.cfg /\ disk'.cache = disk.cache /\ disk'.cert = None
    BY <1>2 DEF DropCert, TypeOK
  <2>3. Fresh(p)' /\ Saved(p)' /\ Renewed(p)' /\ CertGone(p)'
    BY <1>2, <2>1, <2>2 DEF DropCert
  <2>4. p = "service" => ServesOwn' /\ OldTrustDroppedUnlessTorn'
    BY <1>2, <2>1, <2>2
       DEF DropCert, ServesOwn, OldTrustDroppedUnlessTorn, OldTrustDropped, Serving
  <2>5. CertFollowsEnrollment'
        /\ (~torn /\ disk.cfg.id # None => disk.cache.from \in {None, disk.cfg.id})'
    BY <1>2, <2>2, Agreed DEF DropCert, CertFollowsEnrollment
  <2> QED
    BY <2>1, <2>3, <2>4, <2>5, Landed
<1>3. CASE SaveConfig(p)
  <2>1. pc'[p] = "saveCache" /\ \A q \in Procs \ {p} : pc'[q] = "off"
    BY <1>3, OneMoves DEF SaveConfig, PCs
  <2>2. disk'.cfg = mem[p].cfg /\ disk'.cache = disk.cache /\ disk'.cert = disk.cert
    BY <1>3 DEF SaveConfig, TypeOK
  <2>3. disk.cert = None /\ mem[p].cache.from = None
    BY <1>3 DEF SaveConfig
  <2>4. Fresh(p)' /\ Saved(p)' /\ Renewed(p)' /\ CertGone(p)'
    BY <1>3, <2>1, <2>2, <2>3 DEF SaveConfig
  <2>5. p = "service" => ServesOwn' /\ OldTrustDroppedUnlessTorn'
    BY <2>1 DEF ServesOwn, OldTrustDroppedUnlessTorn, OldTrustDropped, Serving
  <2>6. CertFollowsEnrollment'
    BY <2>2, <2>3 DEF CertFollowsEnrollment
  <2> QED
    BY <2>1, <2>4, <2>5, <2>6, Landed
<1>4. CASE SaveCache(p)
  <2>1. disk'.cfg = disk.cfg /\ disk'.cache = mem[p].cache /\ disk'.cert = disk.cert
    BY <1>4 DEF SaveCache, TypeOK
  <2>2. mem[p].cache.from = None /\ mem[p].cfg = disk.cfg /\ disk.cfg.id # None
    BY <1>4 DEF SaveCache
  <2>3. CertFollowsEnrollment' /\ disk'.cache.from = None
    BY <2>1, <2>2 DEF CertFollowsEnrollment
  <2>4. CASE p = "cli"
    BY <1>4, <2>3, <2>4, Stopped DEF SaveCache
  <2>5. CASE p = "service"
    <3>1. Goto(p, "serve") /\ UNCHANGED mem /\ pc[p] = "saveCache"
      BY <1>4, <2>5 DEF SaveCache
    <3>2. pc'[p] = "serve" /\ \A q \in Procs \ {p} : pc'[q] = "off"
      BY <3>1, OneMoves DEF PCs
    <3>3. Fresh(p)' /\ Saved(p)' /\ Renewed(p)' /\ CertGone(p)'
      BY <3>1, <3>2, <2>1, <2>2
    <3>4. Svc'.cfg = disk.cfg /\ Svc'.cache.from = None
      BY <3>1, <2>2, <2>5 DEF Svc
    <3>5. ServesOwn' /\ OldTrustDroppedUnlessTorn'
      BY <3>1, <3>2, <3>4, <2>2, <2>5
         DEF ServesOwn, OldTrustDroppedUnlessTorn, OldTrustDropped, Serving
    <3> QED
      BY <2>3, <3>2, <3>3, <3>5, Landed
  <2> QED
    BY <2>4, <2>5 DEF Procs
<1> QED
  BY <1>1, <1>2, <1>3, <1>4

\* The commands themselves, and the ends of a process.
LEMMA CommandKeeps ==
  ASSUME EnrollmentInv, TypeOK', Command
  PROVE  EnrollmentInv'
<1> USE DEF EnrollmentInv
<1> DEFINE p == "cli"
<1>0. p \in Procs /\ p # "service" /\ pc[p] \in {"ready", "loaded"} /\ UNCHANGED <<disk, mem, torn>>
  BY DEF Command, Procs
<1>1. PICK l \in {"enroll", "cleanup"} : Goto(p, l) /\ (l = "enroll" => pc[p] = "ready")
  BY DEF Command
<1>2. pc'[p] = l /\ \A q \in Procs \ {p} : pc'[q] = "off"
  BY <1>0, <1>1, OneMoves DEF PCs
<1>3. Fresh(p)' /\ Saved(p)' /\ Renewed(p)' /\ CertGone(p)'
  BY <1>0, <1>1, <1>2
<1>4. CertFollowsEnrollment'
      /\ (~torn /\ disk.cfg.id # None => disk.cache.from \in {None, disk.cfg.id})'
  BY <1>0, Agreed DEF CertFollowsEnrollment
<1> QED
  BY <1>0, <1>2, <1>3, <1>4, Landed, Zenon

\* A process that ends, of itself or by a fault, leaves the files as they agree.
LEMMA EndKeeps ==
  ASSUME EnrollmentInv, TypeOK', NEW p \in Procs,
         EnrollRefused(p) \/ Cleanup(p) \/ Fault(p)
  PROVE  EnrollmentInv'
<1> USE DEF EnrollmentInv
<1>1. CASE EnrollRefused(p)
  <2>1. CertFollowsEnrollment'
        /\ (~torn /\ disk.cfg.id # None => disk.cache.from \in {None, disk.cfg.id})'
    BY <1>1, Agreed DEF EnrollRefused, CertFollowsEnrollment
  <2> QED
    BY <1>1, <2>1, Stopped DEF EnrollRefused
<1>2. CASE Cleanup(p)
  <2>1. disk'.cfg.id = None
    BY <1>2, Zenon DEF Cleanup, Blank
  <2> QED
    BY <1>2, <2>1, Stopped DEF Cleanup, CertFollowsEnrollment
<1>3. CASE Fault(p)
  <2>1. CertFollowsEnrollment'
        /\ (~torn /\ disk.cfg.id # None => disk.cache.from \in {None, disk.cfg.id})'
    BY <1>3, Agreed, Zenon DEF Fault, CertFollowsEnrollment
  <2> QED
    BY <1>3, <2>1, Stopped, Zenon DEF Fault
<1> QED
  BY <1>1, <1>2, <1>3

\* The service decides what to do, serves, and stops.
LEMMA ServeKeeps ==
  ASSUME EnrollmentInv, TypeOK', Run \/ Stop \/ RenewHostCert
  PROVE  EnrollmentInv'
<1> USE DEF EnrollmentInv
<1> DEFINE p == "service"
<1>0. p \in Procs /\ pc[p] \notin {"off", "saveCache"}
  BY DEF Procs, Run, Stop, RenewHostCert
<1>a. ASSUME UNCHANGED <<disk, torn>>
      PROVE  CertFollowsEnrollment'
             /\ (~torn /\ disk.cfg.id # None => disk.cache.from \in {None, disk.cfg.id})'
  BY <1>0, <1>a, Agreed DEF CertFollowsEnrollment
<1>1. CASE Stop
  BY <1>0, <1>a, <1>1, Stopped DEF Stop
<1>2. CASE Run
  <2>1. CASE Quit(p)
    BY <1>0, <1>a, <1>2, <2>1, Stopped, Zenon DEF Run
  <2>2. ASSUME UNCHANGED mem, mem[p].cfg.id # None, Goto(p, "serve")
        PROVE  EnrollmentInv'
    <3>1. pc'[p] = "serve" /\ \A q \in Procs \ {p} : pc'[q] = "off"
      BY <1>0, <2>2, OneMoves DEF PCs
    <3>2. UNCHANGED <<disk, torn>> /\ mem[p].cache = disk.cache /\ mem[p].cfg = disk.cfg
      BY <1>0, <1>2 DEF Run
    <3>3. Fresh(p)' /\ Saved(p)' /\ Renewed(p)' /\ CertGone(p)'
      BY <2>2, <3>1, <3>2
    <3>4. ServesOwn' /\ OldTrustDroppedUnlessTorn'
      BY <1>0, <2>2, <3>1, <3>2, Agreed
         DEF ServesOwn, OldTrustDroppedUnlessTorn, OldTrustDropped, Serving, Svc
    <3> QED
      BY <1>0, <1>a, <3>1, <3>2, <3>3, <3>4, Landed
  <2>3. ASSUME UNCHANGED mem, mem[p].cfg.id = None, Goto(p, "enroll")
        PROVE  EnrollmentInv'
    <3>1. pc'[p] = "enroll" /\ \A q \in Procs \ {p} : pc'[q] = "off"
      BY <1>0, <2>3, OneMoves DEF PCs
    <3>2. UNCHANGED <<disk, torn>> /\ mem[p].cache = disk.cache /\ mem[p].cfg.id = disk.cfg.id
      BY <1>0, <1>2 DEF Run
    <3>3. Fresh(p)' /\ Saved(p)' /\ Renewed(p)' /\ CertGone(p)'
      BY <2>3, <3>1, <3>2
    <3>4. ServesOwn' /\ OldTrustDroppedUnlessTorn'
      BY <2>3, <3>1, <3>2
         DEF ServesOwn, OldTrustDroppedUnlessTorn, OldTrustDropped, Serving, Svc
    <3> QED
      BY <1>0, <1>a, <3>1, <3>2, <3>3, <3>4, Landed
  <2> QED
    BY <1>2, <2>1, <2>2, <2>3 DEF Run
<1>3. CASE RenewHostCert
  <2>1. pc' = pc /\ mem' = mem /\ torn' = torn /\ \A q \in Procs \ {p} : pc'[q] = "off"
    BY <1>0, <1>3 DEF RenewHostCert, Alone
  <2>2. disk'.cfg = disk.cfg /\ disk'.cache = disk.cache /\ disk'.cert = Svc.cfg.id
    BY <1>3 DEF RenewHostCert, TypeOK
  <2>3. Svc.cfg = disk.cfg
    BY <1>0, <1>3 DEF RenewHostCert, Svc
  <2>4. Fresh(p)' /\ Saved(p)' /\ Renewed(p)' /\ CertGone(p)'
    BY <1>0, <1>3, <2>1, <2>2 DEF RenewHostCert
  <2>5. ServesOwn' /\ OldTrustDroppedUnlessTorn'
    BY <1>3, <2>1, <2>2
       DEF RenewHostCert, ServesOwn, OldTrustDroppedUnlessTorn, OldTrustDropped, Serving, Svc
  <2>6. CertFollowsEnrollment'
        /\ (~torn /\ disk.cfg.id # None => disk.cache.from \in {None, disk.cfg.id})'
    BY <1>0, <2>1, <2>2, <2>3, Agreed DEF CertFollowsEnrollment
  <2> QED
    BY <1>0, <2>1, <2>4, <2>5, <2>6, Landed
<1> QED
  BY <1>1, <1>2, <1>3, Zenon

\* What a sync applies is the service's own list, and what a rejection clears leaves
\* nothing behind.
LEMMA SyncKeeps ==
  ASSUME EnrollmentInv, TypeOK',
         SyncApplied \/ SyncSave \/ SyncRejected \/ SaveClearedCache \/ SaveClearedConfig
  PROVE  EnrollmentInv'
<1> USE DEF EnrollmentInv
<1> DEFINE p == "service"
<1>0. p \in Procs /\ pc[p] \in {"serve", "syncSave", "clearCache", "clearConfig"}
      /\ Svc = mem[p] /\ mem[p].cfg = disk.cfg
  BY DEF Procs, Svc, SyncApplied, SyncSave, SyncRejected, SaveClearedCache, SaveClearedConfig
<1>a. ~torn /\ disk.cfg.id # None => disk.cache.from \in {None, disk.cfg.id}
  BY <1>0, Agreed
<1>1. CASE SyncApplied
  <2>1. pc'[p] = "syncSave" /\ \A q \in Procs \ {p} : pc'[q] = "off"
    BY <1>0, <1>1, OneMoves DEF SyncApplied, PCs
  <2>2. mem'[p].cfg = mem[p].cfg /\ mem'[p].cache.from \in {None, mem[p].cfg.id}
        /\ UNCHANGED <<disk, torn>>
    BY <1>0, <1>1 DEF SyncApplied, TypeOK
  <2>3. Fresh(p)' /\ Saved(p)' /\ Renewed(p)' /\ CertGone(p)'
    BY <1>0, <2>1, <2>2
  <2>4. ServesOwn' /\ OldTrustDroppedUnlessTorn'
    BY <1>0, <1>1, <2>1, <2>2
       DEF SyncApplied, ServesOwn, OldTrustDroppedUnlessTorn, OldTrustDropped, Serving, Svc
  <2> QED
    BY <1>0, <1>a, <2>1, <2>2, <2>3, <2>4, Landed, Zenon DEF CertFollowsEnrollment
<1>2. CASE SyncSave
  <2>1. pc'[p] = "serve" /\ \A q \in Procs \ {p} : pc'[q] = "off"
    BY <1>0, <1>2, OneMoves DEF SyncSave, PCs
  <2>2. Svc.cfg.id # None /\ Svc.cache.from \in {None, Svc.cfg.id}
    BY <1>2 DEF SyncSave, ServesOwn, Serving
  <2>m. UNCHANGED mem
    BY <1>2 DEF SyncSave
  <2>t. disk' = disk => (torn => torn')
    BY <1>2, Zenon DEF SyncSave
  <2>3. disk'.cfg = disk.cfg /\ disk'.cert = disk.cert /\ UNCHANGED mem
        /\ (disk'.cache = mem[p].cache \/ (disk' = disk /\ (torn => torn')))
    <3>1. CASE disk' = disk
      BY <2>m, <2>t, <3>1
    <3>2. CASE disk' = [disk EXCEPT !.cache = Svc.cache]
      BY <1>0, <2>m, <3>2 DEF TypeOK
    <3> QED
      BY <1>2, <3>1, <3>2 DEF SyncSave
  <2>4. Fresh(p)' /\ Saved(p)' /\ Renewed(p)' /\ CertGone(p)'
    BY <1>0, <2>1, <2>3
  <2>5. ServesOwn' /\ OldTrustDroppedUnlessTorn'
    BY <1>0, <2>1, <2>2, <2>3
       DEF ServesOwn, OldTrustDroppedUnlessTorn, OldTrustDropped, Serving, Svc
  <2>6. CertFollowsEnrollment'
        /\ (~torn /\ disk.cfg.id # None => disk.cache.from \in {None, disk.cfg.id})'
    BY <1>0, <1>a, <2>2, <2>3 DEF CertFollowsEnrollment
  <2> QED
    BY <1>0, <2>1, <2>4, <2>5, <2>6, Landed
<1>3. CASE SyncRejected
  <2>1. pc'[p] = "clearCache" /\ \A q \in Procs \ {p} : pc'[q] = "off"
    BY <1>0, <1>3, OneMoves DEF SyncRejected, PCs
  <2>2. mem'[p].cfg = mem[p].cfg /\ UNCHANGED <<disk, torn>>
    BY <1>0, <1>3 DEF SyncRejected, TypeOK
  <2>3. Fresh(p)' /\ Saved(p)' /\ Renewed(p)' /\ CertGone(p)'
    BY <1>0, <2>1, <2>2
  <2>4. ServesOwn' /\ OldTrustDroppedUnlessTorn'
    BY <2>1 DEF ServesOwn, OldTrustDroppedUnlessTorn, OldTrustDropped, Serving
  <2> QED
    BY <1>0, <1>a, <2>1, <2>2, <2>3, <2>4, Landed, Zenon DEF CertFollowsEnrollment
<1>4. CASE SaveClearedCache
  <2>1. pc'[p] = "clearConfig" /\ \A q \in Procs \ {p} : pc'[q] = "off"
    BY <1>0, <1>4, OneMoves DEF SaveClearedCache, PCs
  <2>m. UNCHANGED mem
    BY <1>4 DEF SaveClearedCache
  <2>t. disk' = disk => (torn => torn')
    BY <1>4, Zenon DEF SaveClearedCache
  <2>2. disk'.cfg = disk.cfg /\ disk'.cert = disk.cert /\ UNCHANGED mem
        /\ (disk'.cache.from = None \/ (disk' = disk /\ (torn => torn')))
    <3>1. CASE disk' = disk
      BY <2>m, <2>t, <3>1
    <3>2. CASE disk' = [disk EXCEPT !.cache = NoCache]
      BY <2>m, <3>2 DEF TypeOK, NoCache
    <3> QED
      BY <1>4, <3>1, <3>2 DEF SaveClearedCache
  <2>3. Fresh(p)' /\ Saved(p)' /\ Renewed(p)' /\ CertGone(p)'
    BY <1>0, <2>1, <2>2
  <2>4. ServesOwn' /\ OldTrustDroppedUnlessTorn'
    BY <2>1 DEF ServesOwn, OldTrustDroppedUnlessTorn, OldTrustDropped, Serving
  <2>5. CertFollowsEnrollment'
        /\ (~torn /\ disk.cfg.id # None => disk.cache.from \in {None, disk.cfg.id})'
    BY <1>a, <2>2 DEF CertFollowsEnrollment
  <2> QED
    BY <1>0, <2>1, <2>3, <2>4, <2>5, Landed
<1>5. CASE SaveClearedConfig
  <2>1. disk'.cfg.id = None \/ disk' = disk
    BY <1>5 DEF SaveClearedConfig, TypeOK
  <2> QED
    BY <1>0, <1>a, <1>5, <2>1, Stopped DEF SaveClearedConfig, CertFollowsEnrollment
<1> QED
  BY <1>1, <1>2, <1>3, <1>4, <1>5

\* Every step of the service, of a command and of a fault keeps the invariant.
LEMMA EnrollmentInductive ==
  Overlaps = {} /\ EnrollmentInv /\ [Next]_vars => EnrollmentInv'
<1> SUFFICES ASSUME Overlaps = {}, EnrollmentInv, [Next]_vars PROVE EnrollmentInv'
  OBVIOUS
<1>0. TypeOK'
  BY TypeInductive DEF EnrollmentInv
<1>1. CASE UNCHANGED vars
  BY <1>1 DEF vars, EnrollmentInv, TypeOK, Alone, ServesOwn, FilesAgree, CertFollowsEnrollment,
     OldTrustDroppedUnlessTorn, OldTrustDropped, Serving, Svc
<1>2. CASE \E n \in Nokkus : Deleted(n)
  BY <1>0, <1>2 DEF Deleted, EnrollmentInv, Alone, ServesOwn, FilesAgree,
     CertFollowsEnrollment, OldTrustDroppedUnlessTorn, OldTrustDropped, Serving, Svc
<1>3. CASE ServiceNext
  BY <1>0, <1>3, ServeKeeps, SyncKeeps DEF ServiceNext
<1>4. CASE Command
  BY <1>0, <1>4, CommandKeeps
<1>5. CASE \E p \in Procs : ProcNext(p)
  BY <1>0, <1>5, StateKeeps, EnrollKeeps, EndKeeps DEF ProcNext
<1> QED
  BY <1>1, <1>2, <1>3, <1>4, <1>5 DEF Next

\* A host starts new, or enrolled with all its files.
LEMMA EnrollmentStarts == Init => EnrollmentInv
<1> SUFFICES ASSUME Init PROVE EnrollmentInv
  OBVIOUS
<1>1. pc \in [Procs -> {"off"}] /\ pc["service"] = "off"
  BY DEF Init, Procs
<1>2. disk \in [cfg : Config, cache : Cache, cert : Owner] /\ known \in SUBSET Nokkus
  BY BlankType DEF Init, Home, Config, Cache, Owner
<1>3. TypeOK
  <2>1. commands \in 0..MaxCommands /\ faults \in 0..MaxFaults
    BY BoundsAssumption DEF Init
  <2>2. pc \in [Procs -> PCs] /\ mem \in [Procs -> [cfg : Config, cache : Cache]]
    BY <1>1, BlankType DEF Init, PCs
  <2>3. torn \in BOOLEAN
    BY Zenon DEF Init
  <2> QED
    BY <1>2, <2>1, <2>2, <2>3 DEF TypeOK
<1>4. disk.cfg.id = None \/ (disk.cache.from = disk.cfg.id /\ disk.cert = disk.cfg.id)
  BY DEF Init, Blank, Home
<1> QED
  BY <1>1, <1>3, <1>4 DEF EnrollmentInv, Alone, ServesOwn, FilesAgree,
     CertFollowsEnrollment, OldTrustDroppedUnlessTorn, OldTrustDropped, Serving
-----------------------------------------------------------------------------
(***************************************************************************)
(* The files hold a well-formed config and cache after every load, save,   *)
(* crash and failed save, of the service and the command, in any overlap.  *)
(***************************************************************************)
THEOREM FilesAreWellFormed == Spec => []TypeOK
<1>1. Init => TypeOK
  BY EnrollmentStarts DEF EnrollmentInv
<1> QED
  BY <1>1, TypeInductive, PTL DEF Spec

(***************************************************************************)
(* When the service is stopped for a command, a host never serves the list *)
(* of a Nokku it is not enrolled with, but for an enrollment that stopped  *)
(* between its two saves (Client.enroll clears the cache it saves).        *)
(***************************************************************************)
THEOREM OldTrustIsDropped ==
  ASSUME Overlaps = {}
  PROVE  Spec => []OldTrustDroppedUnlessTorn
<1>1. EnrollmentInv => OldTrustDroppedUnlessTorn
  BY DEF EnrollmentInv
<1>2. EnrollmentInv /\ [Next]_vars => EnrollmentInv'
  BY EnrollmentInductive
<1> QED
  BY <1>1, <1>2, EnrollmentStarts, PTL DEF Spec

(***************************************************************************)
(* ...and wherever an enrollment is interrupted, the certificate on disk   *)
(* is never one of an earlier enrollment (removed before config.Save).     *)
(***************************************************************************)
THEOREM CertificateFollows ==
  ASSUME Overlaps = {}
  PROVE  Spec => []CertFollowsEnrollment
<1>1. EnrollmentInv => CertFollowsEnrollment
  BY DEF EnrollmentInv
<1>2. EnrollmentInv /\ [Next]_vars => EnrollmentInv'
  BY EnrollmentInductive
<1> QED
  BY <1>1, <1>2, EnrollmentStarts, PTL DEF Spec

(***************************************************************************)
(* ...and the service alone never moves an enrolled host to another Nokku: *)
(* it enrolls only when config.json holds no identity (run, main.go).      *)
(***************************************************************************)
THEOREM ServiceStays ==
  ASSUME Overlaps = {}
  PROVE  Spec => ServiceNeverMoves
<1>1. ASSUME EnrollmentInv, [Next]_vars, pc["cli"] = "off", disk.cfg.id # None
      PROVE  disk'.cfg.id \in {disk.cfg.id, None}
  <2> USE DEF EnrollmentInv
  <2>1. CASE disk' = disk
    BY <2>1
  <2>2. CASE ServiceNext \/ Command
    BY <1>1, <2>2 DEF ServiceNext, Command, Run, Stop, SyncApplied, SyncSave, SyncRejected,
       SaveClearedCache, SaveClearedConfig, RenewHostCert, TypeOK
  <2>3. ASSUME NEW p \in Procs, SaveLoaded(p) PROVE disk'.cfg.id = disk.cfg.id
    BY <2>3, <1>1 DEF SaveLoaded, TypeOK
  <2>4. ASSUME NEW p \in Procs, DropCert(p) \/ SaveCache(p) PROVE disk'.cfg = disk.cfg
    BY <2>4, <1>1 DEF DropCert, SaveCache, TypeOK
  <2>5. ASSUME NEW p \in Procs PROVE ~SaveConfig(p)
    BY <1>1 DEF SaveConfig, ServesOwn, Procs
  <2>6. ASSUME NEW p \in Procs, Cleanup(p) PROVE disk'.cfg.id = None
    BY <2>6 DEF Cleanup, Blank
  <2>7. CASE \E p \in Procs : ProcNext(p)
    BY <2>7, <2>1, <2>3, <2>4, <2>5, <2>6 DEF ProcNext, Load, EnrollRefused, Enrolled, Fault
  <2> QED
    BY <1>1, <2>1, <2>2, <2>7 DEF Next, Deleted, vars
<1>2. EnrollmentInv /\ [Next]_vars => EnrollmentInv'
  BY EnrollmentInductive
<1>3. EnrollmentInv /\ [Next]_vars
      => [pc["cli"] = "off" /\ disk.cfg.id # None
            => disk'.cfg.id \in {disk.cfg.id, None}]_vars
  BY <1>1
<1> QED
  BY <1>2, <1>3, EnrollmentStarts, PTL DEF Spec, ServiceNeverMoves
-----------------------------------------------------------------------------
(***************************************************************************)
(* The renewal of the host certificate, for every set of CAs and any       *)
(* number of rollovers and crashes.                                        *)
(***************************************************************************)
\* What makes ServedIsStored inductive: the certificate shown differs from the one
\* stored only between the write and the reload.
ServedBefore ==
  /\ up /\ wpc # "reload" => served = cert.ca
  /\ ~up => wpc = "none" /\ spc = "first"

HostInv == HostTypeOK /\ ServedBefore /\ NoLostWakeup

(* Every step of the syncer, the watcher and their surroundings keeps the  *)
(* types of the state.                                                     *)
LEMMA HostTypeInductive == HostTypeOK /\ [HostNext]_hostVars => HostTypeOK'
<1> SUFFICES ASSUME HostTypeOK, [HostNext]_hostVars PROVE HostTypeOK'
  OBVIOUS
<1> USE KeysAssumption, RolloversAssumption DEF HostTypeOK, Key, Cert
<1>1. CASE SyncNext
  <2>1. CASE SyncReplace
    <3> PICK key \in {coreCA, NoCA, Garbled} : ca' = key /\ changed' = (key # ca)
      BY <2>1 DEF SyncReplace
    <3> QED
      BY <2>1 DEF SyncReplace, watcher
  <2>2. CASE SyncPoke
    <3>1. renew' \in 0..1
      BY <2>2 DEF SyncPoke
    <3> HIDE DEF Cert
    <3> QED
      BY <2>2, <3>1, ZenonT(60) DEF SyncPoke, watcher
  <2>3. CASE SaveSynced \/ FirstSyncFails
    BY <2>3 DEF SaveSynced, FirstSyncFails, watcher
  <2> QED
    BY <1>1, <2>1, <2>2, <2>3 DEF SyncNext
<1>2. CASE WatchStarts \/ ReadCA
  BY <1>2 DEF WatchStarts, ReadCA, Failed, NeedsRenewal, syncer
<1>3. CASE Sign \/ RenewFails
  <2>1. CASE Sign
    <3>1. signed' \in Cert
      BY <2>1 DEF Sign
    <3> QED
      BY <2>1, <3>1 DEF Sign, syncer
  <2>2. CASE RenewFails
    BY <2>2 DEF RenewFails, Failed, syncer
  <2> QED
    BY <1>3, <2>1, <2>2
<1>4. CASE Store \/ Reload \/ NextRenewal
  BY <1>4 DEF Store, Reload, NextRenewal, Failed, NeedsRenewal, syncer
<1>5. CASE Select \/ Woken \/ TimerFires
  BY <1>5 DEF Select, Woken, TimerFires, syncer
<1>6. CASE CertDue \/ RollOver
  <2>1. CASE CertDue
    <3>1. cert' \in Cert
      BY <2>1, Zenon DEF CertDue
    <3> QED
      BY <2>1, <3>1 DEF CertDue, syncer, watcher
  <2>2. CASE RollOver
    BY <2>2 DEF RollOver, syncer, watcher
  <2> QED
    BY <1>6, <2>1, <2>2
<1>7. CASE Crash \/ Start
  <2>1. NoCert \in Cert
    BY DEF NoCert
  <2>2. CASE Crash
    <3>1. crashes' \in 0..MaxCrashes /\ renew' \in 0..1
      BY <2>2 DEF Crash
    <3>2. cert' = cert /\ signed' \in Cert
      BY <2>1, <2>2 DEF Crash
    <3> QED
      BY <2>2, <3>1, <3>2, Zenon DEF Crash
  <2>3. CASE Start
    BY <2>3 DEF Start, syncer, watcher
  <2> QED
    BY <1>7, <2>2, <2>3
<1>8. CASE UNCHANGED hostVars
  BY <1>8 DEF hostVars, syncer, watcher
<1> QED
  BY <1>1, <1>2, <1>3, <1>4, <1>5, <1>6, <1>7, <1>8, Zenon DEF HostNext, WatchNext

(* Only Store changes the certificate's CA, and it leaves the watcher at   *)
(* the reload that follows.                                                *)
LEMMA ServedInductive == HostTypeOK /\ ServedBefore /\ [HostNext]_hostVars => ServedBefore'
<1> SUFFICES ASSUME HostTypeOK, ServedBefore, [HostNext]_hostVars PROVE ServedBefore'
  OBVIOUS
<1> USE DEF ServedBefore
<1>1. CASE SyncNext
  BY <1>1 DEF SyncNext, SyncReplace, SyncPoke, SaveSynced, FirstSyncFails, watcher
<1>2. CASE WatchStarts \/ ReadCA \/ Sign \/ RenewFails
  BY <1>2 DEF WatchStarts, ReadCA, Sign, RenewFails, Failed, syncer
<1>3. CASE Store \/ Reload \/ NextRenewal
  BY <1>3 DEF Store, Reload, NextRenewal, Failed, syncer
<1>4. CASE Select \/ Woken \/ TimerFires
  BY <1>4 DEF Select, Woken, TimerFires, syncer
<1>5. CASE CertDue \/ RollOver
  BY <1>5 DEF CertDue, RollOver, HostTypeOK, Cert, syncer, watcher
<1>6. CASE Crash \/ Start
  BY <1>6 DEF Crash, Start, syncer, watcher
<1>7. CASE UNCHANGED hostVars
  BY <1>7 DEF hostVars, syncer, watcher
<1> QED
  BY <1>1, <1>2, <1>3, <1>4, <1>5, <1>6, <1>7 DEF HostNext, WatchNext

(* A CA that changes under a sleeping watcher leaves a token, or a sync    *)
(* that sends one before it does anything else.                            *)
LEMMA WakeupInductive == HostTypeOK /\ ServedBefore /\ NoLostWakeup /\ [HostNext]_hostVars => NoLostWakeup'
<1> SUFFICES ASSUME HostTypeOK, ServedBefore, NoLostWakeup, [HostNext]_hostVars PROVE NoLostWakeup'
  OBVIOUS
<1> USE DEF NoLostWakeup
<1>1. CASE SyncReplace
  <2> PICK key \in {coreCA, NoCA, Garbled} : ca' = key /\ changed' = (key # ca)
    BY <1>1 DEF SyncReplace
  <2>1. spc' = "poke" /\ spc # "poke" /\ UNCHANGED <<renew, wpc, delay, cert>>
    BY <1>1 DEF SyncReplace, watcher
  <2>2. CASE key = ca
    BY <2>1, <2>2
  <2>3. CASE key # ca
    BY <2>1, <2>3, Zenon
  <2> QED
    BY <2>2, <2>3
<1>2. CASE SyncPoke
  BY <1>2 DEF SyncPoke, watcher
<1>3. CASE SaveSynced \/ FirstSyncFails
  BY <1>3 DEF SaveSynced, FirstSyncFails, watcher
<1>4. CASE WatchStarts \/ ReadCA \/ Sign \/ RenewFails
  BY <1>4 DEF WatchStarts, ReadCA, Sign, RenewFails, Failed, syncer
<1>5. CASE Store \/ Reload
  BY <1>5 DEF Store, Reload, Failed, syncer
<1>6. CASE NextRenewal
  BY <1>6 DEF NextRenewal, NeedsRenewal, syncer
<1>7. CASE Select \/ Woken \/ TimerFires
  BY <1>7 DEF Select, Woken, TimerFires, syncer
<1>8. CASE CertDue \/ RollOver
  BY <1>8 DEF CertDue, RollOver, HostTypeOK, Cert, syncer, watcher
<1>9. CASE Crash \/ Start
  BY <1>9 DEF Crash, Start, ServedBefore, syncer, watcher
<1>10. CASE UNCHANGED hostVars
  BY <1>10 DEF hostVars, syncer, watcher
<1> QED
  BY <1>1, <1>2, <1>3, <1>4, <1>5, <1>6, <1>7, <1>8, <1>9, <1>10
     DEF HostNext, WatchNext, SyncNext

(* The inductive invariant holds in every behaviour.                       *)
LEMMA HostInvariance == HostSpec => []HostInv
<1>1. HostInit => HostInv
  <2> SUFFICES ASSUME HostInit PROVE HostInv
    OBVIOUS
  <2>1. NoCert \in Cert
    BY DEF NoCert, Cert
  <2>2. rollovers \in 0..MaxRollovers /\ crashes \in 0..MaxCrashes /\ renew \in 0..1
    BY RolloversAssumption DEF HostInit
  <2>3. signed \in Cert /\ cert \in Cert
    BY <2>1 DEF HostInit
  <2>4. HostTypeOK
    BY <2>2, <2>3, Zenon DEF HostInit, HostTypeOK, Key
  <2> QED
    BY <2>4 DEF HostInit, HostInv, ServedBefore, NoLostWakeup
<1>2. HostInv /\ [HostNext]_hostVars => HostInv'
  BY HostTypeInductive, ServedInductive, WakeupInductive DEF HostInv
<1> QED
  BY <1>1, <1>2, PTL DEF HostSpec

(* The variables of the syncer, the watcher and the files keep their       *)
(* types; in particular the renew channel never holds two tokens.          *)
THEOREM HostIsTyped == HostSpec => []HostTypeOK
<1>1. HostInv => HostTypeOK
  BY DEF HostInv
<1> QED
  BY <1>1, HostInvariance, PTL

(* A watcher that sleeps has reloaded the server with whatever it stored.  *)
THEOREM ServedCertIsStored == HostSpec => []ServedIsStored
<1>1. HostInv => ServedIsStored
  BY DEF HostInv, ServedBefore, ServedIsStored
<1> QED
  BY <1>1, HostInvariance, PTL

(* A CA change is never missed by a watcher that sleeps until its          *)
(* certificate's renewal deadline.                                         *)
THEOREM WakeupsAreNotLost == HostSpec => []NoLostWakeup
<1>1. HostInv => NoLostWakeup
  BY DEF HostInv
<1> QED
  BY <1>1, HostInvariance, PTL
=============================================================================
