--------------------------- MODULE CheckOutcomes ----------------------------
(***************************************************************************)
(* What a service check reports (scheduler/checks.go, collector/           *)
(* traceroute.go) of a network that gets worse, for the checks the         *)
(* settings accept (api/api_extended.go).                                  *)
(*                                                                         *)
(* A target is a class: [form, host], where form is "bare", "port" (with a *)
(* port) or "url" (a scheme and a host) and host is "name" or "ip".        *)
(***************************************************************************)
EXTENDS Integers, Sequences

CONSTANTS Configured, Networks

\* What a check may be, and what a network may answer.
Types == {"http", "dns", "tcp", "smb", "nfs", "ping", "speed", "traceroute"}
Targets == [form : {"bare", "port", "url"}, host : {"name", "ip"}]
Attempts == {"none", "pending", "success", "failed", "disabled", "cancelled"}

Config ==
  [type : Types, target : Targets, port : Int,
   server : {"none", "good", "bad"},
   interval : Int, timeout : Int, threshold : Int, min : Int, max : Int,
   down : Int, up : Int, margin : Int, maxLoss : Int]

\* attempt is the last one of the speed test, some hours ago; speed what the
\* newest history row has of the line, as many hours ago as that row is old;
\* readable which of the two tables can be read.
Network ==
  [delay : Nat, connects : BOOLEAN, code : Nat, records : Nat,
   attempt : Attempts, attemptHours : Nat, rowHours : Nat,
   readable : SUBSET {"attempt", "history"}, speed : [down : Nat, up : Nat],
   mtr : BOOLEAN, loss : Nat]

\* What the constants must be.
OutcomesAssumption ==
  Configured \subseteq Config /\ Networks \subseteq Network

VARIABLES
  check,       \* a ServiceCheckConfig, as the user wrote it
  network      \* what the hosts, the resolver, the last speed test and mtr say

vars == <<check, network>>

Default(value, otherwise) == IF value <= 0 THEN otherwise ELSE value

Larger(a, b) == IF a < b THEN b ELSE a
Smaller(a, b) == IF a < b THEN a ELSE b

-----------------------------------------------------------------------------
(* Validation.                                                             *)

\* net.ParseIP takes an address and nothing around it.
ParsesAsIP(target) == target.form = "bare" /\ target.host = "ip"

\* normalizeServiceCheckConfig refuses ...
Refused(c) ==
  \/ c.port \notin 0 .. 65535
  \/ c.type = "dns" /\ (ParsesAsIP(c.target) \/ c.server = "bad")
  \/ c.type # "dns" /\ c.server # "none"

\* ... or fills in and clamps.
Normalized(c) ==
  LET ranged == [c EXCEPT !.min = Default(@, 200), !.max = Default(@, 399)]
      http == [ranged EXCEPT !.max = Larger(@, ranged.min)]
  IN [(IF c.type = "http" THEN http ELSE c) EXCEPT
        !.interval = Larger(Default(@, 300), 30),
        !.timeout = Smaller(Default(@, 5), 30),
        !.threshold = Default(@, 1)]

-----------------------------------------------------------------------------
(* The checks.  The network's answer takes "delay" seconds.                *)

\* NormalizeDNSHost strips the scheme and the port.
HostOf(target) == target.host

\* An answer in time.
InTime(c, n) == n.delay < Default(c.timeout, 5)

RunHTTPCheck(c, n) ==
  LET lowest == Default(c.min, 200)
      highest == Larger(Default(c.max, 399), lowest)
  IN IF InTime(c, n) /\ n.connects /\ n.code \in lowest .. highest
     THEN "up" ELSE "down"

\* A literal address is refused here too: resolving it asks nobody.
RunDNSCheck(c, n) ==
  IF HostOf(c.target) = "name" /\ InTime(c, n) /\ n.records > 0
  THEN "up" ELSE "down"

\* NormalizeTCPAddress: the target's port, the check's or the protocol's.
HasPort(c) == c.target.form = "port" \/ c.port > 0 \/ c.type \in {"smb", "nfs"}

RunTCPCheck(c, n) ==
  IF HasPort(c) /\ InTime(c, n) /\ n.connects THEN "up" ELSE "down"

RunPingCheck(c, n) ==
  IF InTime(c, n) /\ n.connects THEN "up" ELSE "down"

\* One contracted speed: none, or met within the margin.
Met(contracted, measured, margin) ==
  contracted <= 0 \/ 100 * measured >= contracted * (100 - margin)

Verdict(met) ==
  IF met = {TRUE} THEN "up" ELSE IF TRUE \in met THEN "degraded" ELSE "down"

\* The last attempt was read, and is no older than thirty days.
AttemptIsCurrent(n) ==
  "attempt" \in n.readable /\ n.attempt # "none" /\ n.attemptHours <= 30 * 24

\* GetSpeedTestHistory(48) returned a row, and not one of zeros.
HasRow(n) ==
  /\ "history" \in n.readable /\ n.rowHours <= 48
  /\ n.speed.down # 0 \/ n.speed.up # 0

\* A scheduled check reads the last attempt and the newest history row.
RunSpeedCheck(c, n) ==
  LET margin == Default(c.margin, 10)
      row == n.speed
  IN IF ~AttemptIsCurrent(n) THEN "down"
     ELSE IF n.attempt = "pending" THEN "up"
     ELSE IF n.attempt # "success" \/ ~HasRow(n) THEN "down"
     ELSE Verdict({Met(c.down, row.down, margin), Met(c.up, row.up, margin)})

\* The Test button measures; the thresholds are written down a second time.
RunSpeedCheckViaRunner(c, n) ==
  LET margin == Default(c.margin, 10)
  IN IF n.speed.down <= 0 /\ n.speed.up <= 0 THEN "down"
     ELSE Verdict({Met(c.down, n.speed.down, margin),
                   Met(c.up, n.speed.up, margin)})

\* ParseMTRReport: a final hop that never answered is "???", and its loss is
\* left at zero.
Reached(n) == n.loss < 100
EndToEndLoss(n) == IF Reached(n) THEN n.loss ELSE 0

\* Mutant: the loss threshold is looked at first.
RunTraceCheckLossFirst(c, n) ==
  IF ~n.mtr THEN "down"
  ELSE IF c.maxLoss >= 0 /\ EndToEndLoss(n) <= c.maxLoss THEN "up"
  ELSE IF ~Reached(n) THEN "down"
  ELSE IF c.maxLoss >= 0 THEN "degraded" ELSE "up"

\* maxLoss is -1 when no threshold is set.
RunTraceCheck(c, n) ==
  IF ~n.mtr \/ ~Reached(n) THEN "down"
  ELSE IF c.maxLoss >= 0 /\ EndToEndLoss(n) > c.maxLoss THEN "degraded"
  ELSE "up"

Runs(c, n, speed) ==
  CASE c.type = "http" -> RunHTTPCheck(c, n)
    [] c.type = "dns" -> RunDNSCheck(c, n)
    [] c.type \in {"tcp", "smb", "nfs"} -> RunTCPCheck(c, n)
    [] c.type = "ping" -> RunPingCheck(c, n)
    [] c.type = "speed" -> speed
    [] c.type = "traceroute" -> RunTraceCheck(c, n)

\* The scheduler runs what was saved, the button what is on the page.
Scheduled(c, n) ==
  Runs(Normalized(c), n, RunSpeedCheck(Normalized(c), n))

Button(c, n) ==
  Runs(Normalized(c), n, RunSpeedCheckViaRunner(Normalized(c), n))

-----------------------------------------------------------------------------
(* The network gets worse, one reading at a time.                          *)

Init == check \in {c \in Configured : ~Refused(c)} /\ network \in Networks

Slower(a, b) == a.down <= b.down /\ a.up <= b.up

\* A page that answers with another status is another page, not a worse one.
Next ==
  /\ network' \in Networks /\ network' # network
  /\ network'.code = network.code
  /\ network'.delay >= network.delay /\ network'.loss >= network.loss
  /\ network'.records <= network.records
  /\ Slower(network'.speed, network.speed)
  /\ network'.attemptHours >= network.attemptHours
  /\ network'.rowHours >= network.rowHours
  /\ network'.readable \subseteq network.readable
  /\ network'.connects => network.connects
  /\ network'.mtr => network.mtr
  /\ network'.attempt \in {network.attempt, "failed"}
  /\ UNCHANGED check

Spec == Init /\ [][Next]_vars

-----------------------------------------------------------------------------
(* Properties.                                                             *)

StatusRank(status) ==
  CASE status = "up" -> 0 [] status = "degraded" -> 1 [] status = "down" -> 2

\* A network that only gets worse never makes a check look better, whatever
\* of a host that is gone a parser leaves at zero.
NoMoreUp ==
  network' # network =>
    /\ StatusRank(Scheduled(check, network))
         <= StatusRank(Scheduled(check, network'))
    /\ StatusRank(Button(check, network))
         <= StatusRank(Button(check, network'))

\* "applies contracted thresholds exactly like the scheduled path": what the
\* button shows of a measurement is what the schedule reports of it, from two
\* copies of the thresholds, for as long as the schedule can read the row: 48
\* hours, the window of GetSpeedTestHistory(48).
ButtonAgreesWithSchedule ==
  ( /\ network.attempt = "success" /\ network.attemptHours <= 30 * 24
    /\ network.rowHours <= 48 /\ network.readable = {"attempt", "history"} )
    => Button(check, network) = Scheduled(check, network)

\* checks.go:619: the cap of thirty days on an attempt "is generous enough to
\* cover weekly cadences": until then a check goes by the last test, if that
\* one succeeded and its row was stored.
WeeklyTestCounts ==
  ( /\ network.attempt = "success" /\ network.attemptHours <= 30 * 24
    /\ network.rowHours = network.attemptHours
    /\ network.readable = {"attempt", "history"} )
    => Button(check, network) = Scheduled(check, network)

\* Both.
ChecksAgree == []ButtonAgreesWithSchedule /\ [][NoMoreUp]_vars
=============================================================================
