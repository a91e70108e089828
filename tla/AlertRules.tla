----------------------------- MODULE AlertRules -----------------------------
(***************************************************************************)
(* The user's notification rules, evaluated on the readings the analyzer   *)
(* judges (scheduler/rules.go: evaluateRule and its evaluators).  A rule   *)
(* is a category, a condition, a threshold and a target; a threshold that  *)
(* is zero turns the conditions that need one off.                         *)
(***************************************************************************)
EXTENDS SystemFindings

CONSTANT Rules

\* matchTarget: the observed object is called "this".
Aims(rule) == rule.target \in {"", "this"}

Above(rule, n) == rule.value > 0 /\ n > rule.value
Below(rule, n) == rule.value > 0 /\ n < rule.value

\* A finding rule looks at the findings, not at the readings.
EvalFindings(rule, r) ==
  \E f \in Analyze(r) :
    \/ rule.condition = "critical" /\ f.sev = "critical"
    \/ rule.condition = "warning" /\ f.sev \in {"warning", "critical"}
    \/ rule.condition = "category" /\ f.cat = rule.target
    \/ rule.condition = "any"

EvalDiskSpace(rule, r) == Aims(rule) /\ Below(rule, 100 - r.used)

\* The average is over all drives, whatever the target.
EvalDiskTemp(rule, r) ==
  \/ /\ rule.condition \in {"above", "single_above"}
     /\ Aims(rule) /\ Above(rule, r.temp)
  \/ /\ rule.condition = "avg_above"
     /\ Above(rule, (r.temp + r.otherTemp) \div 2)

EvalSMART(rule, r) ==
  /\ Aims(rule)
  /\ \/ rule.condition = "health_fails" /\ ~r.passed
     \/ rule.condition = "reallocated_above" /\ Above(rule, r.reallocated)
     \/ rule.condition = "pending_above" /\ Above(rule, r.pending)
     \/ rule.condition = "crc_above" /\ Above(rule, r.crc)
     \/ rule.condition = "power_hours_above" /\ Above(rule, r.hours)

\* A speed is that of a speed check; any other check has none.
EvalService(rule, r) ==
  /\ Aims(rule)
  /\ \/ rule.condition \in {"down", "degraded"}
        /\ r.service = rule.condition
     \/ rule.condition = "latency_above" /\ Above(rule, r.latency)
     \/ rule.condition = "download_below" /\ Below(rule, r.download)
     \/ rule.condition = "upload_below" /\ Below(rule, r.upload)

\* The last parity check only, and one is enough.
EvalParity(rule, r) ==
  LET last == r.parity[Len(r.parity)]
  IN \/ rule.condition = "errors" /\ last.errors > 0
     \/ rule.condition = "speed_below" /\ Below(rule, last.speed)

\* A charge that is not reported is below every threshold.
EvalUPS(rule, r) ==
  \/ rule.condition = "on_battery" /\ r.onBattery
  \/ rule.condition = "battery_below" /\ Below(rule, r.charge)
  \/ rule.condition = "load_above" /\ Above(rule, r.upsLoad)

\* Any state but running is stopped.
EvalDocker(rule, r) ==
  Aims(rule) /\ rule.condition = "stopped" /\ r.state # "running"

EvalSystem(rule, r) ==
  \/ rule.condition = "cpu_above" /\ Above(rule, r.hostCPU)
  \/ rule.condition = "mem_above" /\ Above(rule, r.mem)
  \/ rule.condition = "load_above" /\ Above(rule, r.load1)
  \/ rule.condition = "iowait_above" /\ Above(rule, r.iowait)

\* Mutant: a pool is degraded in the state of that name only.
EvalZFSByName(rule, r) ==
  /\ Aims(rule)
  /\ \/ rule.condition = "degraded" /\ r.pool = "DEGRADED"
     \/ rule.condition = "scrub_errors" /\ r.scanErrors > 0
     \/ rule.condition = "usage_above" /\ Above(rule, r.full)

EvalZFS(rule, r) ==
  /\ Aims(rule)
  /\ \/ rule.condition = "degraded" /\ r.pool # "ONLINE"
     \/ rule.condition = "scrub_errors" /\ r.scanErrors > 0
     \/ rule.condition = "usage_above" /\ Above(rule, r.full)

EvalTunnels(rule, r) ==
  /\ Aims(rule)
  /\ \/ rule.condition = "cloudflared_down" /\ r.tunnel # "healthy"
     \/ rule.condition = "tailscale_offline" /\ ~r.peer

EvalUpdate(rule, r) == r.behind # <<>>

\* A process is targeted by the base name of its command.
EvalProcess(rule, r) ==
  /\ Aims(rule)
  /\ \/ rule.condition = "cpu_above" /\ Above(rule, r.processCPU)
     \/ rule.condition = "mem_above" /\ Above(rule, r.processMem)

Fires(rule, r) ==
  \/ rule.category = "findings" /\ EvalFindings(rule, r)
  \/ rule.category = "disk_space" /\ EvalDiskSpace(rule, r)
  \/ rule.category = "disk_temp" /\ EvalDiskTemp(rule, r)
  \/ rule.category = "smart" /\ EvalSMART(rule, r)
  \/ rule.category = "service" /\ EvalService(rule, r)
  \/ rule.category = "parity" /\ EvalParity(rule, r)
  \/ rule.category = "ups" /\ EvalUPS(rule, r)
  \/ rule.category = "docker" /\ EvalDocker(rule, r)
  \/ rule.category = "system" /\ EvalSystem(rule, r)
  \/ rule.category = "zfs" /\ EvalZFS(rule, r)
  \/ rule.category = "tunnels" /\ EvalTunnels(rule, r)
  \/ rule.category = "update" /\ EvalUpdate(rule, r)
  \/ rule.category = "process" /\ EvalProcess(rule, r)

-----------------------------------------------------------------------------
\* Categories in which one finding takes the place of another's: a container
\* that no longer pulls its image is out of memory, and so on.
Shifting == {"docker", "memory", "system"}

\* The rules a worse reading silences for good reason: a service that goes
\* from degraded to down is no longer degraded, and a finding may move to
\* another category.
Lasting ==
  {rule \in Rules :
     /\ <<rule.category, rule.condition>> # <<"service", "degraded">>
     /\ ~ /\ <<rule.category, rule.condition>> = <<"findings", "category">>
          /\ rule.target \in Shifting}

RulesAssumption == \A rule \in Rules : rule.value \in Int

\* A rule that fires keeps firing while what it watches gets worse: it is
\* told again, and its alert is not resolved, until there is an improvement.
StillFiring ==
  \A rule \in Lasting : Fires(rule, reading) => Fires(rule, reading')

\* When one reading gets worse, no finding vanishes or turns milder, and no
\* rule that fires falls silent.
RulesAreMonotone ==
  [][reading' # reading => NotMilder /\ StillFiring]_vars
=============================================================================
