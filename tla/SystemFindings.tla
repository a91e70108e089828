--------------------------- MODULE SystemFindings ---------------------------
(***************************************************************************)
(* The analyzer's rules but for those about a single drive: which findings *)
(* it makes of a host whose readings get worse (analyzer/analyzer.go,      *)
(* kubernetes.go, proxmox.go), and under which fingerprint a finding is    *)
(* filed as an alert (scheduler/rules.go).                                 *)
(*                                                                         *)
(* One of everything is observed: one disk, container, pool, node and so   *)
(* on.  A title is the sequence of what its text says: the phrase and the  *)
(* figures printed in it, without the name of the object.                  *)
(***************************************************************************)
EXTENDS BackblazeThresholds, Sequences

CONSTANTS
  Levels,      \* the values of each reading, from good to bad
  Focuses      \* the sets of readings that get worse together

VARIABLES
  reading,     \* the value of each
  focus        \* those that move

vars == <<reading, focus>>

Found(condition, severity, category, title) ==
  IF condition THEN {[sev |-> severity, cat |-> category, title |-> title]}
  ELSE {}

-----------------------------------------------------------------------------
(* The host.                                                               *)

AnalyzeMemory(r) ==
  Found(r.mem >= 95, "critical", "memory", <<"Critical Memory Pressure">>)
  \cup Found(r.mem \in 85 .. 94, "warning", "memory", <<"High Memory Usage">>)
  \cup Found(r.swap > 50, "warning", "memory", <<"Heavy Swap Usage">>)

\* The load is per core.
AnalyzeIOWait(r) ==
  Found(r.iowait >= 30, "critical", "disk", <<"Severe Disk I/O Bottleneck">>)
  \cup Found(r.iowait \in 15 .. 29, "warning", "disk",
             <<"Elevated Disk I/O Wait">>)
  \cup Found(r.load > 2, "warning", "system", <<"High System Load">>)

AnalyzeDiskSpace(r) ==
  Found(r.used >= 97, "critical", "disk", <<"Disk Almost Full", r.used>>)
  \cup Found(r.used \in 90 .. 96, "warning", "disk",
             <<"Low Disk Space", r.used>>)

AnalyzeStorageMounts(r) ==
  Found(r.platform = "synology" /\ ~r.volumes, "warning", "disk",
        <<"Synology storage volumes not bind-mounted">>)

AnalyzeDocker(r) ==
  Found(r.cpu > 200, "critical", "docker", <<"Extreme CPU", r.cpu>>)
  \cup Found(r.cpu \in 81 .. 200, "warning", "docker", <<"High CPU", r.cpu>>)
  \cup Found(r.ram > 95, "critical", "docker", <<"Memory Exhaustion", r.ram>>)
  \cup Found(r.ram \in 81 .. 95, "warning", "docker",
             <<"High Memory", r.ram>>)
  \cup Found(r.exited > 3, "info", "docker",
             <<"Stopped Containers", r.exited>>)

\* A wireless interface that is down is ignored.
AnalyzeNetwork(r) ==
  Found(r.link = "down", "warning", "network", <<"Network Interface Down">>)
  \cup Found(r.link = "slow", "warning", "network", <<"Slow Link Speed">>)

AnalyzeLogs(r) ==
  Found(r.ata > 10, "critical", "logs",
        <<"Frequent ATA/SATA Errors", r.ata>>)
  \cup Found(r.io > 5, "critical", "logs", <<"I/O Errors Detected", r.io>>)

\* A threshold that is not set is one failure, a severity not set a warning.
AnalyzeServiceChecks(r) ==
  LET threshold == IF r.threshold <= 0 THEN 1 ELSE r.threshold
  IN Found(r.service = "down" /\ r.failures >= threshold,
           IF r.severity = "unset" THEN "warning" ELSE r.severity,
           "service", <<"Service Check Failed">>)

\* The first check of the history against the last, in shares of the first's
\* speed, and the last three; a speed of zero is not known.
AnalyzeParity(r) ==
  LET checks == r.parity
      n == Len(checks)
      lost == checks[1].speed - checks[n].speed
      known == checks[1].speed > 0 /\ checks[n].speed > 0
  IN IF n < 2 THEN {}
     ELSE Found(known /\ 2 * lost > checks[1].speed, "critical", "parity",
                <<"Severe Parity Check Speed Degradation">>)
          \cup Found(known /\ 2 * lost <= checks[1].speed
                      /\ 4 * lost > checks[1].speed, "warning", "parity",
                     <<"Parity Check Speed Declining">>)
          \cup UNION {Found(checks[i].errors > 0, "critical", "parity",
                            <<"Parity Errors", i>>) :
                        i \in {j \in DOMAIN checks : j > n - 3}}

-----------------------------------------------------------------------------
(* ZFS.                                                                    *)

\* SUSPENDED, OFFLINE and REMOVED are in no case.
PoolState(r) ==
  Found(r.pool \in {"DEGRADED", "FAULTED", "UNAVAIL"}, "critical", "zfs",
        <<"ZFS Pool is", r.pool>>)

PoolScan(r) ==
  Found(r.scanErrors > 0, "critical", "zfs",
        <<"ZFS Scrub Errors", r.scanErrors>>)
  \cup Found(r.scan = "none", "warning", "zfs", <<"No Scrub History">>)
  \cup Found(r.scan = "resilver" /\ r.scanPct \in 1 .. 99, "warning", "zfs",
             <<"Resilver in Progress", r.scanPct>>)

PoolSpace(r) ==
  Found(r.full >= 90, IF r.full >= 95 THEN "critical" ELSE "warning", "zfs",
        <<"ZFS Pool at Capacity", r.full>>)
  \cup Found(r.fragmentation > 50, "info", "zfs",
             <<"High Fragmentation", r.fragmentation>>)

\* One rule for a vdev and for each of its children.
CheckVDevErrors(r) ==
  LET total == r.readErrors + r.cksumErrors
  IN Found(total > 0,
           IF r.cksumErrors > 10 \/ total > 50 THEN "critical" ELSE "warning",
           "zfs", <<"ZFS Device Errors">>)

AnalyzeARC(r) ==
  Found(r.hits < 80, "info", "zfs", <<"Low ZFS ARC Hit Rate", r.hits>>)

AnalyzeZFS(r) ==
  PoolState(r) \cup PoolScan(r) \cup PoolSpace(r) \cup CheckVDevErrors(r)
    \cup Found(r.dataErrors, "critical", "zfs", <<"Data Errors">>)
    \cup AnalyzeARC(r)

-----------------------------------------------------------------------------
(* UPS, updates, GPU and backups.                                          *)

\* A charge or a runtime of zero counts as not reported.
AnalyzeUPS(r) ==
  Found(r.onBattery, "critical", "ups", <<"UPS On Battery">>)
  \cup Found(r.lowBattery \/ (r.onBattery /\ r.charge < 20), "critical",
             "ups", <<"UPS Low Battery", r.charge>>)
  \cup Found(~r.onBattery /\ r.charge \in 1 .. 79, "warning", "ups",
             <<"UPS Battery Not Fully Charged", r.charge>>)
  \cup Found(r.replaceBattery, "warning", "ups",
             <<"UPS Battery Replacement Needed">>)
  \cup Found(r.upsLoad > 90, "critical", "ups",
             <<"UPS Overloaded", r.upsLoad>>)
  \cup Found(r.upsLoad \in 76 .. 90, "warning", "ups",
             <<"UPS High Load", r.upsLoad>>)
  \cup Found(~r.onBattery /\ r.runtime \in 1 .. 4, "critical", "ups",
             <<"UPS Very Low Runtime", r.runtime>>)

\* The latest version is so many major and minor versions ahead, if any.
AnalyzeOSUpdate(r) ==
  Found(r.behind # <<>>, "info", "system",
        <<"OS Update Available", r.behind>>)
  \cup Found(r.behind # <<>> /\ (r.behind[1] > 0 \/ r.behind[2] >= 3),
             "warning", "system",
             <<"NAS OS Significantly Out of Date", r.behind>>)

AnalyzeGPU(r) ==
  Found(r.gpuTemp >= 95, "critical", "gpu", <<"GPU Overheating", r.gpuTemp>>)
  \cup Found(r.gpuTemp \in 85 .. 94, "warning", "gpu",
             <<"GPU Temperature High", r.gpuTemp>>)
  \cup Found(r.vram >= 95, "warning", "gpu",
             <<"GPU VRAM Nearly Full", r.vram>>)
  \cup Found(r.gpuPower > 110, "warning", "gpu",
             <<"GPU Power Draw Exceeds Limit">>)

\* A healthy backup is a finding too.
AnalyzeBackups(r) ==
  Found(r.backup = "failed", "critical", "backup", <<"Backup failed">>)
  \cup Found(r.backup = "stale", "critical", "backup",
             <<"Backup stale", r.backupAge>>)
  \cup Found(r.backup = "warning", "warning", "backup",
             <<"Backup aging", r.backupAge>>)
  \cup Found(r.backup = "ok", "info", "backup",
             <<"Backup healthy", r.snapshots>>)

-----------------------------------------------------------------------------
(* Kubernetes and Proxmox.                                                 *)

KubeNode(r) ==
  Found(~r.kubeReady, "critical", "system", <<"K8s node not ready">>)
  \cup Found(r.cordoned, "warning", "system", <<"K8s node cordoned">>)
  \cup Found(r.pressure, "warning", "system", <<"K8s node pressure">>)
  \cup Found(r.pods > 90, "warning", "system",
             <<"K8s node pod capacity high", r.pods>>)

\* The pod's own status, that of its container, and its restarts.
KubePod(r) ==
  Found(r.pod = "CrashLoopBackOff", "critical", "docker",
        <<"K8s pod crash loop">>)
  \cup Found(r.pod = "Failed", "warning", "docker", <<"K8s pod failed">>)
  \cup Found(r.pod = "Pending", "warning", "docker", <<"K8s pod pending">>)
  \cup Found(r.pod = "OOMKilled", "critical", "memory",
             <<"K8s pod OOM killed">>)
  \cup Found(r.container = "OOMKilled", "critical", "memory",
             <<"K8s container OOM">>)
  \cup Found(r.container = "ImagePullBackOff", "warning", "docker",
             <<"K8s image pull failed">>)
  \cup Found(r.restarts > 10 /\ r.pod = "Running", "warning", "docker",
             <<"K8s pod high restarts", r.restarts>>)

AnalyzeKubernetes(r) ==
  KubeNode(r) \cup KubePod(r)
  \cup Found(r.unavailable > 0, "warning", "docker",
             <<"K8s deployment unhealthy">>)
  \cup Found(r.unavailable = 3, "critical", "docker",
             <<"K8s deployment down">>)
  \cup Found(r.pvc = "Pending", "warning", "disk", <<"K8s PVC pending">>)
  \cup Found(r.pvc = "Lost", "critical", "disk", <<"K8s PVC lost">>)

PVENode(r) ==
  Found(~r.online, "critical", "system", <<"Proxmox node offline">>)
  \cup Found(r.nodeMem > 95, "critical", "memory",
             <<"Proxmox node memory critical", r.nodeMem>>)
  \cup Found(r.nodeMem \in 91 .. 95, "warning", "memory",
             <<"Proxmox node memory high", r.nodeMem>>)
  \cup Found(r.nodeCPU > 90, "warning", "system",
             <<"Proxmox node CPU high", r.nodeCPU>>)

\* A guest is stopped though high availability should have started it.
PVEGuest(r) ==
  Found(r.guest = "stopped", "critical", "system",
        <<"HA-managed guest stopped">>)
  \cup Found(r.guest = "running" /\ r.guestMem > 95, "warning", "memory",
             <<"Guest memory critical", r.guestMem>>)

PVEStorage(r) ==
  Found(r.pve > 95, "critical", "disk", <<"PVE storage critical", r.pve>>)
  \cup Found(r.pve \in 86 .. 95, "warning", "disk",
             <<"PVE storage high", r.pve>>)

\* The age, in hours, is that of the youngest vzdump task.
PVETasks(r) ==
  Found(r.vzdump > 48, "warning", "system", <<"Proxmox backups may be stale">>)
  \cup Found(r.taskFailed, "warning", "system", <<"PVE task failed">>)

AnalyzeProxmox(r) ==
  PVENode(r) \cup PVEGuest(r) \cup PVEStorage(r) \cup PVETasks(r)
    \cup Found(r.ha \in {"error", "fence"}, "critical", "system",
               <<"PVE HA service error">>)

-----------------------------------------------------------------------------
(* Root causes: what several findings say together.                        *)

\* What analyzeSMART says of the cable and analyzeThermal of the heat of
\* r.drives drives that are all alike.
DriveFindings(r) ==
  LET heat == GetTempTier(r.temp).sev
  IN Found(r.crc > 0, GetCRCTier(r.crc).sev, "smart", <<"SATA Cable Issue">>)
     \cup Found(heat # "none", heat, "thermal",
                <<"Drive Temperature", r.temp>>)
     \cup Found(heat \in {"warning", "critical"} /\ r.drives >= 3,
                "critical", "thermal", <<"Systemic Thermal Issue">>)

Correlate(r, findings) ==
  LET Titled(title) == \E f \in findings : f.title[1] = title
      slowParity == Titled("Severe Parity Check Speed Degradation")
      hot == \E f \in findings : f.cat = "thermal" /\ f.sev = "critical"
      waiting == Titled("Severe Disk I/O Bottleneck")
                 \/ Titled("Elevated Disk I/O Wait")
  IN Found(Titled("SATA Cable Issue") /\ slowParity, "critical", "system",
           <<"Root Cause: SATA Cable Failure">>)
     \cup Found(hot /\ slowParity, "warning", "system",
                <<"Correlation: High Temperatures">>)
     \cup Found(/\ ~r.cache /\ waiting /\ r.containers > 3
                /\ r.platform = "unraid", "warning", "system",
                <<"No SSD Cache with Docker Workloads">>)

\* What each rule finds by itself.
Observed(r) ==
  DriveFindings(r) \cup AnalyzeMemory(r) \cup AnalyzeIOWait(r)
    \cup AnalyzeDiskSpace(r) \cup AnalyzeStorageMounts(r)
    \cup AnalyzeDocker(r) \cup AnalyzeNetwork(r) \cup AnalyzeLogs(r)
    \cup AnalyzeServiceChecks(r) \cup AnalyzeParity(r)
    \cup AnalyzeZFS(r) \cup AnalyzeUPS(r) \cup AnalyzeOSUpdate(r)
    \cup AnalyzeProxmox(r) \cup AnalyzeKubernetes(r)
    \cup AnalyzeGPU(r) \cup AnalyzeBackups(r)

Analyze(r) == Observed(r) \cup Correlate(r, Observed(r))

-----------------------------------------------------------------------------
(* What it is for a reading to get worse.                                  *)

\* Readings that get worse as they grow, and as they shrink.
Rising ==
  {"mem", "swap", "iowait", "load", "used", "cpu", "ram", "exited", "ata",
   "io", "failures", "scanErrors", "full", "fragmentation", "readErrors",
   "cksumErrors", "upsLoad", "gpuTemp", "vram", "gpuPower", "pods",
   "restarts", "unavailable", "nodeMem", "nodeCPU", "guestMem", "pve",
   "vzdump", "crc", "temp", "drives", "containers", "otherTemp", "load1",
   "reallocated", "pending", "hours", "latency", "hostCPU", "processCPU",
   "processMem"}
Falling == {"hits", "charge", "runtime", "threshold", "download", "upload",
            "scanPct"}

\* What breaks, and what ceases to work.
Breaking == {"dataErrors", "onBattery", "lowBattery", "replaceBattery",
             "cordoned", "pressure", "taskFailed"}
Ceasing == {"volumes", "kubeReady", "online", "cache", "passed", "peer"}

\* A pool that is suspended, offline or removed is not online, but in no
\* finding.
Grades ==
  [platform |-> <<"linux", "unraid", "synology">>,
   link |-> <<"up", "slow", "down">>,
   service |-> <<"up", "degraded", "down">>,
   severity |-> <<"info", "unset", "warning", "critical">>,
   pool |-> <<"ONLINE", "SUSPENDED", "OFFLINE", "REMOVED", "DEGRADED",
              "FAULTED", "UNAVAIL">>,
   scan |-> <<"scrub", "resilver", "none">>,
   backup |-> <<"none", "ok", "warning", "stale", "failed">>,
   pod |-> <<"Running", "Pending", "Failed", "OOMKilled",
             "CrashLoopBackOff">>,
   container |-> <<"pulled", "ImagePullBackOff", "OOMKilled">>,
   pvc |-> <<"Bound", "Pending", "Lost">>,
   guest |-> <<"running", "stopped">>,
   ha |-> <<"started", "error", "fence">>,
   state |-> <<"running", "paused", "exited">>,
   tunnel |-> <<"healthy", "degraded", "down">>]

\* A parity check, and a history of them.
ParityChecks == [speed : Nat \ {0}, errors : Nat]

\* The versions the latest one is ahead of this one.
Versions == {<<>>} \cup (Nat \X Int)

\* What a reading may be.  A charge, a runtime or the progress of a resilver
\* is reported, or it is not; of three replicas, no more are unavailable.
Possible(f, v) ==
  /\ f \in Rising => v \in Nat
  /\ f \in Falling => v \in Int
  /\ f \in {"charge", "runtime", "scanPct"} => v > 0
  /\ f = "unavailable" => v <= 3
  /\ f \in Breaking \cup Ceasing => v \in BOOLEAN
  /\ f \in DOMAIN Grades => \E i \in DOMAIN Grades[f] : v = Grades[f][i]
  /\ f = "parity" => v \in Seq(ParityChecks) /\ v # <<>>
  /\ f = "behind" => v \in Versions

\* A value and one that is no better.  A parity history grows by a check
\* that is no faster and finds no fewer errors.
NoBetter(f, old, new) ==
  /\ f \in Rising => old <= new
  /\ f \in Falling => old >= new
  /\ f \in Breaking => (old => new)
  /\ f \in Ceasing => (new => old)
  /\ f \in DOMAIN Grades =>
       \E i, j \in DOMAIN Grades[f] :
         i <= j /\ old = Grades[f][i] /\ new = Grades[f][j]
  /\ f = "parity" /\ new # old =>
       LET n == Len(old)
       IN /\ new = Append(old, new[n + 1])
          /\ new[n + 1].speed <= old[n].speed
          /\ \A i \in 1 .. n : old[i].errors <= new[n + 1].errors
  /\ f = "behind" /\ old # <<>> =>
       /\ new # <<>>
       /\ old[1] < new[1] \/ (old[1] = new[1] /\ old[2] <= new[2])

Readings == Rising \cup Falling \cup Breaking \cup Ceasing
              \cup DOMAIN Grades
              \cup {"parity", "behind", "backupAge", "snapshots"}

\* The levels of each reading go from good to bad.
HostAssumption ==
  /\ DOMAIN Levels = Readings
  /\ \A f \in Readings :
       /\ Len(Levels[f]) \in Nat \ {0}
       /\ \A i \in 1 .. Len(Levels[f]) : Possible(f, Levels[f][i])
       /\ \A i \in 1 .. Len(Levels[f]) - 1 :
            NoBetter(f, Levels[f][i], Levels[f][i + 1])

-----------------------------------------------------------------------------
(* The host gets worse.                                                    *)

Init ==
  /\ reading = [f \in DOMAIN Levels |-> Levels[f][1]]
  /\ focus \in Focuses

Worsen(f) ==
  \E i \in 1 .. Len(Levels[f]) - 1 :
    /\ reading[f] = Levels[f][i]
    /\ reading' = [reading EXCEPT ![f] = Levels[f][i + 1]]
    /\ UNCHANGED focus

Next == \E f \in focus : Worsen(f)

Spec == Init /\ [][Next]_vars

-----------------------------------------------------------------------------
(* Properties.                                                             *)

\* severityRank.
Rank(sev) == IF sev = "critical" THEN 3 ELSE IF sev = "warning" THEN 2
             ELSE IF sev = "info" THEN 1 ELSE 0
Worst(r) == LET found == {Rank(f.sev) : f \in Analyze(r)}
            IN CHOOSE n \in 0 .. 3 : /\ n = 0 \/ n \in found
                                     /\ \A m \in found : m <= n

\* No reading gets worse and the host's worst finding milder: the chains of
\* thresholds leave no gap between two severities, no state is forgotten, and
\* no finding is withdrawn before a graver one replaces it.
NotMilder == Worst(reading) <= Worst(reading')
=============================================================================
