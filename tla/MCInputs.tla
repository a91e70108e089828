------------------------------ MODULE MCInputs ------------------------------
(***************************************************************************)
(* What TLC feeds the components of MCDecisions: readings around every     *)
(* threshold, the users' rules and checks, networks, the contents of the   *)
(* sections that become gauges, and backup repositories.                   *)
(***************************************************************************)
EXTENDS Integers, TLC

CONSTANTS one, two, photos, PHOTOS    \* items of a snapshot

-----------------------------------------------------------------------------
(* The host's readings (SystemFindings, AlertRules).                       *)

\* Around each threshold, the last value on its good side and the first on its
\* bad one.
HostLevels ==
  [mem |-> <<50, 84, 85, 94, 95>>, swap |-> <<0, 50, 51>>,
   iowait |-> <<0, 14, 15, 29, 30>>, load |-> <<1, 2, 3>>,
   used |-> <<50, 89, 90, 91, 96, 97>>,
   platform |-> <<"linux", "unraid", "synology">>,
   volumes |-> <<TRUE, FALSE>>,
   cpu |-> <<10, 80, 81, 200, 201>>, ram |-> <<10, 80, 81, 95, 96>>,
   exited |-> <<0, 3, 4, 5>>, link |-> <<"up", "slow", "down">>,
   ata |-> <<0, 10, 11, 12>>, io |-> <<0, 5, 6>>,
   service |-> <<"up", "degraded", "down">>, failures |-> <<0, 1, 2>>,
   threshold |-> <<2, 0>>, severity |-> <<"unset", "critical">>,
   parity |-> LET C(s, e) == [speed |-> s, errors |-> e]
              IN << <<C(100, 0)>>, <<C(100, 0), C(75, 0)>>,
                    <<C(100, 0), C(75, 0), C(74, 0)>>,
                    <<C(100, 0), C(75, 0), C(74, 0), C(50, 0)>>,
                    <<C(100, 0), C(75, 0), C(74, 0), C(50, 0), C(49, 1)>> >>,
   pool |-> <<"ONLINE", "DEGRADED", "FAULTED", "UNAVAIL">>,
   scanErrors |-> <<0, 1, 2>>, scan |-> <<"scrub", "resilver", "none">>,
   scanPct |-> <<100, 99, 98>>, full |-> <<50, 89, 90, 94, 95>>,
   fragmentation |-> <<0, 50, 51>>, readErrors |-> <<0, 1, 50, 51>>,
   cksumErrors |-> <<0, 1, 10, 11>>, dataErrors |-> <<FALSE, TRUE>>,
   hits |-> <<95, 80, 79>>,
   onBattery |-> <<FALSE, TRUE>>, lowBattery |-> <<FALSE, TRUE>>,
   charge |-> <<100, 80, 79, 20, 19>>, replaceBattery |-> <<FALSE, TRUE>>,
   upsLoad |-> <<20, 75, 76, 90, 91>>, runtime |-> <<30, 5, 4>>,
   behind |-> << <<>>, <<0, 0>>, <<0, 2>>, <<0, 3>>, <<1, -2>> >>,
   gpuTemp |-> <<50, 84, 85, 94, 95>>, vram |-> <<50, 94, 95>>,
   gpuPower |-> <<100, 110, 111>>,
   backup |-> <<"none", "ok", "warning", "stale", "failed">>,
   backupAge |-> <<1, 2>>, snapshots |-> <<3, 4>>,
   kubeReady |-> <<TRUE, FALSE>>, cordoned |-> <<FALSE, TRUE>>,
   pressure |-> <<FALSE, TRUE>>, pods |-> <<50, 90, 91>>,
   pod |-> <<"Running", "Pending", "Failed", "OOMKilled",
             "CrashLoopBackOff">>,
   container |-> <<"pulled", "ImagePullBackOff", "OOMKilled">>,
   restarts |-> <<0, 10, 11>>, unavailable |-> <<0, 1, 3>>,
   pvc |-> <<"Bound", "Pending", "Lost">>,
   online |-> <<TRUE, FALSE>>, nodeMem |-> <<50, 90, 91, 95, 96>>,
   nodeCPU |-> <<50, 90, 91>>, guest |-> <<"running", "stopped">>,
   guestMem |-> <<50, 95, 96>>, pve |-> <<50, 85, 86, 95, 96>>,
   vzdump |-> <<24, 48, 49>>, taskFailed |-> <<FALSE, TRUE>>,
   ha |-> <<"started", "error", "fence">>,
   crc |-> <<0, 1, 9, 10>>, temp |-> <<34, 39, 40, 45, 54, 55>>,
   drives |-> <<1, 2, 3>>, cache |-> <<TRUE, FALSE>>,
   containers |-> <<3, 4>>,
   otherTemp |-> <<40>>, load1 |-> <<1, 2, 3>>, passed |-> <<TRUE, FALSE>>,
   reallocated |-> <<0, 5, 6>>, pending |-> <<0, 1, 2>>,
   hours |-> <<8000, 40001>>, latency |-> <<10, 501>>,
   download |-> <<100, 49>>, upload |-> <<20, 9>>,
   state |-> <<"running", "paused", "exited">>, hostCPU |-> <<10, 91>>,
   tunnel |-> <<"healthy", "degraded", "down">>, peer |-> <<TRUE, FALSE>>,
   processCPU |-> <<10, 91>>, processMem |-> <<10, 51>>]

HostFocuses ==
  {{"mem", "swap", "iowait", "load"}, {"used", "platform", "volumes"},
   {"cpu", "ram", "exited"}, {"link", "ata", "io"},
   {"service", "failures", "threshold", "severity"},
   {"pool", "scanErrors", "scan", "scanPct", "full"},
   {"fragmentation", "readErrors", "cksumErrors", "dataErrors", "hits"},
   {"onBattery", "lowBattery", "charge", "upsLoad", "runtime",
    "replaceBattery"},
   {"behind", "gpuTemp", "vram", "gpuPower"},
   {"backup", "backupAge", "snapshots"},
   {"kubeReady", "cordoned", "pressure", "pods", "unavailable", "pvc"},
   {"pod", "container", "restarts"},
   {"online", "nodeMem", "nodeCPU", "guest", "guestMem"},
   {"pve", "vzdump", "taskFailed", "ha"},
   {"parity", "crc", "temp", "drives"},
   {"passed", "reallocated", "pending", "hours", "crc"},
   {"service", "latency", "download", "upload"},
   {"state", "hostCPU", "load1", "tunnel", "peer", "processCPU", "processMem"},
   {"platform", "cache", "containers", "iowait"}}

Rule(category, condition, value, target) ==
  [category |-> category, condition |-> condition, value |-> value,
   target |-> target]

UserRules ==
  {Rule("findings", c, 0, "") : c \in {"critical", "warning", "any"}}
  \cup {Rule("findings", "category", 0, c) :
            c \in {"disk", "zfs", "docker", "thermal"}}
  \cup {Rule("disk_space", "below", 10, t) : t \in {"", "this", "other"}}
  \cup {Rule("disk_temp", c, 44, "") : c \in {"single_above", "avg_above"}}
  \cup {Rule("smart", c, 5, "this") :
          c \in {"health_fails", "reallocated_above", "pending_above",
                 "crc_above"}}
  \cup {Rule("smart", "power_hours_above", 40000, ""),
        Rule("service", "latency_above", 500, ""),
        Rule("service", "download_below", 50, ""),
        Rule("service", "upload_below", 10, ""),
        Rule("parity", "errors", 0, ""), Rule("parity", "speed_below", 75, ""),
        Rule("ups", "battery_below", 80, ""),
        Rule("docker", "stopped", 0, "this"),
        Rule("update", "available", 0, "")}
  \cup {Rule("service", c, 0, "") : c \in {"down", "degraded"}}
  \cup {Rule("ups", c, 90, "") : c \in {"on_battery", "load_above"}}
  \cup {Rule("system", c, v, "") :
          c \in {"cpu_above", "mem_above", "load_above", "iowait_above"},
          v \in {0, 2, 90}}
  \cup {Rule("zfs", c, 90, "this") :
          c \in {"degraded", "scrub_errors", "usage_above"}}
  \cup {Rule("tunnels", c, 0, "") :
          c \in {"cloudflared_down", "tailscale_offline"}}
  \cup {Rule("process", c, 50, "") : c \in {"cpu_above", "mem_above"}}

-----------------------------------------------------------------------------
(* Drives (DriveHealth).                                                   *)

DriveLevels ==
  [reallocated |-> <<0, 4, 20, 100>>, pending |-> <<0, 5, 20>>,
   crc |-> <<0, 201>>, timeout |-> <<0, 101>>, temp |-> <<34, 45, 55>>,
   hours |-> <<8000, 44001, 52560, 70080>>]

-----------------------------------------------------------------------------
(* Checks and networks (CheckOutcomes).                                    *)

PlainCheck ==
  [type |-> "http", target |-> [form |-> "bare", host |-> "name"], port |-> 0,
   server |-> "none", interval |-> 0, timeout |-> 0, threshold |-> 0,
   min |-> 0, max |-> 0, down |-> 0, up |-> 0, margin |-> 0, maxLoss |-> -1]

Targets == [form : {"bare", "port", "url"}, host : {"name", "ip"}]

UserChecks ==
  {[PlainCheck EXCEPT !.min = a, !.max = b, !.timeout = t] :
     a \in {0, 500}, b \in {0, 499}, t \in {0, 60}}
  \cup {[PlainCheck EXCEPT !.type = "dns", !.target = t, !.server = s] :
          t \in Targets, s \in {"none", "good", "bad"}}
  \cup {[PlainCheck EXCEPT !.type = y, !.target = t, !.port = p] :
          y \in {"tcp", "smb", "ping"}, t \in Targets, p \in {0, 22, 70000}}
  \cup {[PlainCheck EXCEPT !.type = "speed", !.down = d, !.up = u,
                          !.margin = m] :
          d \in {0, 100}, u \in {0, 50}, m \in {0, 20}}
  \cup {[PlainCheck EXCEPT !.type = "traceroute", !.maxLoss = l] :
          l \in {-1, 0, 10}}

FineNetwork ==
  [delay |-> 0, connects |-> TRUE, code |-> 200, records |-> 1,
   attempt |-> "success", attemptHours |-> 0, rowHours |-> 0,
   readable |-> {"attempt", "history"},
   speed |-> [down |-> 100, up |-> 50], mtr |-> TRUE, loss |-> 0]

Networks ==
  {[FineNetwork EXCEPT !.delay = d, !.connects = c, !.code = k] :
     d \in {0, 4, 5, 29, 30}, c \in BOOLEAN, k \in {200, 404, 500}}
  \cup {[FineNetwork EXCEPT !.records = 0], [FineNetwork EXCEPT !.mtr = FALSE]}
  \cup {[FineNetwork EXCEPT !.attempt = a, !.attemptHours = h, !.rowHours = h,
                           !.speed.down = x, !.speed.up = y] :
          a \in {"none", "pending", "success", "failed", "disabled",
                "cancelled"},
          h \in {48, 721}, x \in {100, 90, 79, 0}, y \in {50, 45, 0}}
  \cup {[FineNetwork EXCEPT !.attempt = a, !.attemptHours = h[1],
                           !.rowHours = h[2], !.readable = r] :
          a \in {"pending", "success"},
          h \in {<<0, 49>>, <<48, 48>>, <<49, 49>>, <<720, 720>>,
                <<720, 721>>},
          r \in SUBSET {"attempt", "history"}}
  \cup {[FineNetwork EXCEPT !.loss = l] : l \in {0, 10, 11, 99, 100}}

-----------------------------------------------------------------------------
(* Sections of a snapshot (PrometheusGauges).                              *)

MCSlug == one :> one @@ two :> two @@ photos :> photos @@ PHOTOS :> photos
MCReasons == {"ok", "stale"}
MCEngines == {one, two}

Absent == [on |-> FALSE, items |-> <<>>]
On(items) == [on |-> TRUE, items |-> items]
One == On(<< <<one, 1>> >>)
Lists == {On(<<>>), One, On(<< <<one, 0>>, <<two, 2>> >>)}
Entries ==
  {Absent, On(<< <<photos, <<1, "ok">> >> >>),
   On(<< <<photos, <<0, "stale">> >>, <<PHOTOS, <<2, "ok">> >> >>)}
MCContents ==
  [s \in {"disks", "smart", "docker", "network", "services"} |-> Lists]
  @@ [s \in {"zfs", "tunnels", "proxmox", "kubernetes", "backup", "gpu"} |->
        {Absent} \cup Lists]
  @@ [s \in {"ups", "parity", "update"} |-> {Absent, One}]
  @@ [s \in {"system"} |-> {One}]
  @@ [s \in {"speedtest"} |-> {Absent, One, On(<< <<two, 1>> >>)}]
  @@ [s \in {"duplicacy"} |-> Entries]

MCWatched ==
  {{"smart"}, {"kubernetes"}, {"services"}, {"duplicacy"}, {"docker"},
   {"gpu"}, {"zfs"}, {"disks", "ups"}, {"backup"}, {"network"},
   {"proxmox"}, {"tunnels"}, {"speedtest"}, {"parity", "update", "system"}}
-----------------------------------------------------------------------------
(* Settings blobs of each version, those a page without a version stored,  *)
(* and one of a later version (SettingsStore).                             *)

OldBlobs ==
  {<<0, "flat", 0, "apart">>, <<1, "flat", 0, "apart">>,
   <<2, "smart", 0, "merged">>, <<2, "smart", 14, "apart">>,
   <<0, "smart", 0, "apart">>,
   <<3, "advanced", 0, "merged">>, <<3, "advanced", 14, "apart">>,
   <<0, "advanced", 0, "apart">>, <<4, "advanced", 14, "merged">>}

-----------------------------------------------------------------------------
(* Backup repositories (DuplicacyRepos, BorgRepos).                        *)

PlainRepo == [enabled |-> TRUE, kind |-> "cli-repo", path |-> "set",
              storageID |-> "set", staleAfter |-> 0]

RepoEntries ==
  {[PlainRepo EXCEPT !.staleAfter = 1], [PlainRepo EXCEPT !.enabled = FALSE],
   [PlainRepo EXCEPT !.kind = "web-cache"],
   [PlainRepo EXCEPT !.kind = "web-cache", !.storageID = "blank"],
   [PlainRepo EXCEPT !.kind = "other"], [PlainRepo EXCEPT !.path = "blank"]}

BorgEntry == [enabled |-> TRUE, path |-> "r", binary |-> "", env |-> "",
              label |-> ""]

BorgEntryLists ==
  { <<>>, <<BorgEntry>>, <<[BorgEntry EXCEPT !.env = "named"]>>,
    <<[BorgEntry EXCEPT !.binary = "override"]>>,
    <<[BorgEntry EXCEPT !.enabled = FALSE, !.path = "blank"],
      [BorgEntry EXCEPT !.path = "s", !.label = "other"]>>,
    <<BorgEntry, [BorgEntry EXCEPT !.path = "r/", !.env = "named",
                                   !.label = "twice"]>>,
    <<[BorgEntry EXCEPT !.enabled = FALSE],
      [BorgEntry EXCEPT !.path = "r/", !.binary = "override"],
      [BorgEntry EXCEPT !.path = "s"]>>,
    <<[BorgEntry EXCEPT !.path = "blank"]>> }

BorgValues ==
  [onPath |-> BOOLEAN, override |-> {"works", "absent", "foreign"},
   link |-> {"up", "refused", "hangs"},
   repo |-> {"fine", "absent", "readonly", "damaged"},
   ambient |-> {"right", "unset"}, named |-> {"right", "wrong"},
   last |-> {-1, 24, 49}]
=============================================================================
