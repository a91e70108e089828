-------------------------- MODULE PrometheusGauges --------------------------
(***************************************************************************)
(* The gauges of /metrics (notifier/prometheus.go).  Metrics.Update turns  *)
(* each finished scan into series, section by section, under a lock that   *)
(* the scraper does not take: a scrape may fall between any two steps.  A  *)
(* section of a snapshot is [on, items]: whether the subsystem is there,   *)
(* and a list of <<item, value>>.  A series is <<family, label>>; the      *)
(* label comes from the item by a function that may map two items to one.  *)
(***************************************************************************)
EXTENDS Integers, Sequences, FiniteSets, FiniteSetsExt, Functions

CONSTANTS
  Watched,      \* the sections to look at together
  Contents,     \* what a section may hold, for each section
  Slug,         \* the label of each item
  Reasons,      \* the reason codes of a Duplicacy entry
  Engines,      \* the engines of a speed test
  MaxTime, MaxTests

VARIABLES watched, now, world, snap, prev, stage, gauges, test, samples
vars == <<watched, now, world, snap, prev, stage, gauges, test, samples>>

\* The order of Update.  "system" stands for all plain gauges that every scan
\* sets, the findings and the collection's own among them.
Order == <<"system", "reset", "disks", "smart", "docker", "network", "ups",
           "gpu", "zfs", "services", "parity", "tunnels", "proxmox",
           "kubernetes", "backup", "duplicacy", "speedtest", "update">>

\* Sections whose series are deleted at the start of every Update, and those
\* that are deleted just before they are written, whatever they hold.  The
\* GPU's are in neither.
ResetFirst == {"disks", "smart", "docker", "network", "zfs", "services",
               "tunnels"}
ResetInPlace == {"proxmox", "kubernetes", "backup", "duplicacy"}

\* What the constants must be: a test is measured by a known engine.
GaugesAssumption ==
  \A c \in Contents["speedtest"] :
    \A i \in DOMAIN c.items : Slug[c.items[i][1]] \in Engines

NoSeries == [l \in {} |-> 0]
Nothing == [on |-> FALSE, items |-> <<>>]

Init ==
  /\ watched \in Watched
  /\ now = 1
  /\ world = [s \in watched |-> Nothing]
  /\ snap = [of |-> world, at |-> 0] /\ prev = snap
  /\ stage = 0
  /\ gauges = [s \in watched |-> NoSeries]
  /\ test = 0 /\ samples = {}

Tick == /\ now < MaxTime /\ now' = now + 1
        /\ UNCHANGED <<watched, world, snap, prev, stage, gauges, test,
                       samples>>

\* The machine changes: drives, containers, entries come and go.
Change(s) ==
  /\ \E c \in Contents[s] : world' = [world EXCEPT ![s] = c]
  /\ UNCHANGED <<watched, now, snap, prev, stage, gauges, test, samples>>

(***************************************************************************)
(* Update.                                                                 *)
(***************************************************************************)
Available(s) == snap.of[s].on

\* One label, and a series of it in each family.
Labelled(l, values) ==
  [x \in {<<family, l>> : family \in DOMAIN values} |-> values[x[1]]]

\* Of a container that does not run only the state is exported (value 0).
ContainerSeries(v) ==
  IF v = 0 THEN [state |-> 0] ELSE [state |-> 1, cpu |-> v]

\* A job that never succeeded has a size and a status and no time.
JobSeries(v) ==
  IF v = 0 THEN [status |-> 0] ELSE [status |-> 1, success |-> v]

\* The age of the newest revision, counted from the time of the scan; never
\* and the future are 0.  The value is <<time, reason>>: one series for each
\* reason there is.
DuplicacySeries(v) ==
  [family \in {"age"} \cup Reasons |->
     IF family # "age" THEN IF family = v[2] THEN 1 ELSE 0
     ELSE IF v[1] \in 1 .. snap.at THEN snap.at - v[1] ELSE 0]

\* Every known engine is put to 0, then the latest result's to 1.
EngineSeries(l) ==
  [x \in {<<"engine", e>> : e \in Engines \cup {l}} |->
     IF x[2] = l THEN 1 ELSE 0]

Series(s, item, v) ==
  LET l == Slug[item]
  IN  CASE s = "docker" -> Labelled(l, ContainerSeries(v))
        [] s = "backup" -> Labelled(l, JobSeries(v))
        [] s = "duplicacy" -> Labelled(l, DuplicacySeries(v))
        [] s = "speedtest" -> EngineSeries(l)
        [] OTHER -> Labelled(l, [value |-> v])

\* With(labels).Set(value) item by item: the last item of a label stays.
Written(s, series) ==
  LET items == snap.of[s].items
      made(i) == Series(s, items[i][1], items[i][2])
      set(x) == {i \in DOMAIN items : x \in DOMAIN made(i)}
  IN  [x \in DOMAIN series \cup UNION {DOMAIN made(i) : i \in DOMAIN items} |->
         IF set(x) = {} THEN series[x] ELSE made(Max(set(x)))[x]]

Begin ==
  /\ stage = 0 /\ stage' = 1
  /\ prev' = snap /\ snap' = [of |-> world, at |-> now]
  /\ UNCHANGED <<watched, now, world, gauges, test, samples>>

\* Mutant: one family is missing from the block of Resets.
ClearButServices ==
  [s \in watched |->
     IF s \in ResetFirst \ {"services"} THEN NoSeries ELSE gauges[s]]
Clear ==
  [s \in watched |-> IF s \in ResetFirst THEN NoSeries ELSE gauges[s]]

\* A section that was reset at the start, or that is never reset.
Fill(s) == IF Available(s) THEN Written(s, gauges[s]) ELSE gauges[s]

\* Proxmox, Kubernetes and backups: reset, then written when connected.
Replace(s) == IF Available(s) THEN Written(s, NoSeries) ELSE NoSeries

\* GPUs: the reset is inside the condition.
ReplaceGPU == IF Available("gpu") THEN Written("gpu", NoSeries)
              ELSE gauges["gpu"]

Section(s) ==
  CASE s = "gpu" -> ReplaceGPU
    [] s \in ResetInPlace -> Replace(s)
    [] OTHER -> Fill(s)

Step(s) ==
  IF s = "reset" THEN Clear
  ELSE [t \in watched |-> IF t = s THEN Section(s) ELSE gauges[t]]

\* Sections nobody looks at take no step of their own.
Later(i) == {j \in i + 1 .. Len(Order) : Order[j] \in watched \cup {"reset"}}
Update ==
  /\ stage > 0
  /\ gauges' = Step(Order[stage])
  /\ stage' = IF Later(stage) = {} THEN 0
              ELSE CHOOSE j \in Later(stage) : \A k \in Later(stage) : j <= k
  /\ UNCHANGED <<watched, now, world, snap, prev, test, samples>>

(***************************************************************************)
(* The samples of the latest finished speed test, in a family of its own,  *)
(* behind the same lock.                                                   *)
(***************************************************************************)
ResetSamples ==
  /\ stage = 0 /\ test < MaxTests
  /\ test' = test + 1 /\ samples' = {}
  /\ stage' = -1
  /\ UNCHANGED <<watched, now, world, snap, prev, gauges>>
SetSpeedTestSamplesCount ==
  /\ stage = -1 /\ stage' = 0
  /\ samples' = samples \cup {test}
  /\ UNCHANGED <<watched, now, world, snap, prev, gauges, test>>

Next ==
  \/ Tick \/ Begin \/ Update \/ ResetSamples \/ SetSpeedTestSamplesCount
  \/ \E s \in watched : Change(s)
Spec == Init /\ [][Next]_vars

(***************************************************************************)
(* Properties.                                                             *)
(***************************************************************************)
Labels(content) ==
  IF content.on THEN {Slug[e[1]] : e \in Range(content.items)} ELSE {}
Exported(s) == {l[2] : l \in DOMAIN gauges[s]}

\* Whenever a scrape falls, a labelled series of a section that is reset is of
\* something the scan being exported or the one before it found, between two
\* exports the series are those the latest scan alone would have written, the
\* samples are those of one test at most, and one engine at most is the latest
\* test's.  The GPU is excepted: its series are reset only when there is one
\* (line 597), so those of a GPU that is gone are exported on.
NoGhostSeries ==
  /\ Cardinality(samples) <= 1
  /\ \A s \in watched \cap (ResetFirst \cup ResetInPlace) :
       /\ Exported(s) \subseteq Labels(snap.of[s]) \cup Labels(prev.of[s])
       /\ stage <= 0 => gauges[s] = Replace(s)
  /\ "speedtest" \in watched =>
       Cardinality({e \in DOMAIN gauges["speedtest"] :
                      gauges["speedtest"][e] = 1}) <= 1

=============================================================================
