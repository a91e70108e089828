--------------------------- MODULE SettingsStore ----------------------------
(***************************************************************************)
(* The settings blob in the config table, and what of it is in force       *)
(* (api/api_extended.go, api/runtime_settings.go, cmd/nas-doctor/main.go). *)
(* Nearly every request reads the settings through getSettings, which      *)
(* migrates what it has read and writes it back; some handlers change one  *)
(* field and write again; a save writes a whole blob and applies it; a     *)
(* start applies the blob as it is.  No two of these exclude each other.   *)
(*                                                                         *)
(* A blob has a version and a shape: max_age_days is not yet there         *)
(* ("flat"), under "smart", or under "advanced"_scans.                     *)
(***************************************************************************)
EXTENDS Integers, FiniteSets

CONSTANTS
  Requests,
  Stored,            \* what older versions may have left in the table:
                     \* <<version, shape, max_age_days, merged_drives>>
  Ages, Keeps,       \* values a user may ask for
  EnvHooks,          \* the webhook of NAS_DOCTOR_WEBHOOK_URL, or none
  MaxSaves, MaxPatches, MaxRestarts    \* bounds

VARIABLES
  stored,      \* the blob, or NoBlob
  running,     \* what the scheduler and the collector go by
  up,          \* the program runs
  page,        \* the settings page somebody has open: a blob
  request,     \* each request: [stage, blob, raw]
  saves,       \* saves so far
  patches, restarts

vars == <<stored, running, up, page, request, saves, patches, restarts>>

Current == 3    \* currentSettingsVersion
Views == {"merged", "apart"}    \* the dashboard's drives
NoHooks == {}
NilHooks == {"nil"}   \* no list at all, which is not the empty one

\* What the constants must be: version 3 writes no "smart", and a page that
\* lost the version stored a zero.
SettingsAssumption ==
  /\ Ages \subseteq Int /\ Keeps \subseteq Int
  /\ \A s \in Stored :
       /\ s[1] \in Nat /\ s[3] \in Int /\ s[4] \in Views
       /\ s[2] \in {"flat", "smart", "advanced"}
       /\ s[2] = "smart" => s[1] < 3

NoBlob == [version |-> 0, shape |-> "none"]

\* defaultSettings
Defaults ==
  [version |-> Current, shape |-> "advanced", age |-> 7, keep |-> 90,
   drives |-> "merged", cadence |-> "daily", hooks |-> NoHooks, pref |-> 0,
   save |-> 0]

Idle == [stage |-> "idle", blob |-> Defaults, raw |-> NoBlob]

\* scheduler.New: the program without settings.
Fresh == [age |-> 7, keep |-> 90, cadence |-> "4h", hooks |-> EnvHooks]

Left == {[Defaults EXCEPT !.version = s[1], !.shape = s[2], !.age = s[3],
            !.drives = s[4], !.hooks = NilHooks, !.keep = 30] : s \in Stored}

Init ==
  /\ stored \in Left \cup {NoBlob}
  /\ running = Fresh /\ up = FALSE /\ page = Defaults
  /\ request = [r \in Requests |-> Idle]
  /\ saves = 0 /\ patches = 0 /\ restarts = 0

-----------------------------------------------------------------------------
(* Reading and migrating.                                                  *)

\* Unmarshalled as it is, a blob of an older shape has no max_age_days.
Raw(b) == IF b.shape = "advanced" THEN b
          ELSE [b EXCEPT !.shape = "advanced", !.age = 0]

Larger(a, b) == IF a < b THEN b ELSE a

\* Mutant: the second rung goes by the version, whatever the shape (issue 268).
MigratedByVersion(b) ==
  [b EXCEPT !.version = Larger(@, Current), !.shape = "advanced",
     !.drives = IF b.version < 1 THEN "merged" ELSE @,
     !.age = IF b.version >= 2 \/ @ # 0 THEN @ ELSE Defaults.age]

\* migrateSettings, over the defaults.  The first rung looks at the version
\* alone; the second gives a flat blob the default it has anyway; the third
\* moves what is under "smart".
Migrated(b) ==
  [b EXCEPT !.version = Larger(@, Current), !.shape = "advanced",
     !.drives = IF b.version < 1 THEN "merged" ELSE @,
     !.age = IF b.shape = "advanced" \/ (b.shape = "smart" /\ b.version < 3)
             THEN @ ELSE Defaults.age]

\* What a blob asks for.
Choices(b) ==
  [age |-> IF b.shape = "flat" THEN Defaults.age ELSE b.age, keep |-> b.keep,
   drives |-> b.drives, cadence |-> b.cadence, hooks |-> b.hooks,
   pref |-> b.pref]

Read(b) == IF b = NoBlob THEN Defaults ELSE Migrated(b)

\* A request comes to getSettings: it reads ...
Begin(r) ==
  /\ up /\ request[r].stage = "idle"
  /\ request' = [request EXCEPT ![r] =
       [stage |-> "read", blob |-> Read(stored), raw |-> stored]]
  /\ UNCHANGED <<stored, running, up, page, saves, patches, restarts>>

\* ... and writes what it has read, migrated, if there was anything.
WriteBack(r) ==
  /\ request[r].stage = "read"
  /\ stored' = IF request[r].raw = NoBlob THEN stored ELSE request[r].blob
  /\ request' = [request EXCEPT ![r].stage = "have"]
  /\ UNCHANGED <<running, up, page, saves, patches, restarts>>

\* Most requests only wanted to know.
Done(r) ==
  /\ request[r].stage = "have"
  /\ request' = [request EXCEPT ![r] = Idle]
  /\ UNCHANGED <<stored, running, up, page, saves, patches, restarts>>

\* Some set one field: the theme, the chart range, the sections' order and
\* heights, a dismissed finding, the fleet.
Patch(r) ==
  /\ request[r].stage = "have" /\ patches < MaxPatches
  /\ stored' = [request[r].blob EXCEPT !.pref = patches + 1]
  /\ patches' = patches + 1
  /\ request' = [request EXCEPT ![r] = Idle]
  /\ UNCHANGED <<running, up, page, saves, restarts>>

-----------------------------------------------------------------------------
(* Loading and saving the settings page.                                   *)

\* handleGetSettings does not migrate.
LoadPage ==
  /\ up
  /\ page' = IF stored = NoBlob THEN Defaults ELSE Raw(stored)
  /\ page' # page
  /\ UNCHANGED <<stored, running, up, request, saves, patches, restarts>>

Clamped(days) == IF days < 7 THEN 90 ELSE days

\* handleUpdateSettings has the page with a change; it looks up the version
\* that is stored, and validates ...
BeginSave(r, age, keep) ==
  /\ up /\ request[r].stage = "idle"
  /\ saves + Cardinality({q \in Requests : request[q].stage = "save"})
       < MaxSaves
  /\ request' = [request EXCEPT ![r] =
       [stage |-> "save", raw |-> stored,
        blob |-> [page EXCEPT
          !.version = Larger(Current, Larger(page.version, stored.version)),
          !.hooks = IF @ = NilHooks THEN NoHooks ELSE @,
          !.age = age, !.keep = Clamped(keep)]]]
  /\ UNCHANGED <<stored, running, up, page, saves, patches, restarts>>

\* ... stores it ...
StoreSave(r) ==
  /\ request[r].stage = "save"
  /\ saves' = saves + 1
  /\ stored' = [request[r].blob EXCEPT !.save = saves']
  /\ request' = [request EXCEPT ![r].stage = "apply", ![r].blob = stored']
  /\ UNCHANGED <<running, up, page, patches, restarts>>

\* Mutant: the speed-test cadence is left to the save handler (issue 333).
RuntimeWithoutCadence(b) ==
  [age |-> b.age, keep |-> Clamped(b.keep), cadence |-> Fresh.cadence,
   hooks |-> IF b.hooks = NilHooks THEN EnvHooks ELSE b.hooks]

\* ApplyRuntimeSettings and, at a start, what main does beside it.
Runtime(b) ==
  [age |-> b.age, keep |-> Clamped(b.keep), cadence |-> b.cadence,
   hooks |-> IF b.hooks = NilHooks THEN EnvHooks ELSE b.hooks]

\* ... and applies it and answers.
ApplySave(r) ==
  /\ request[r].stage = "apply"
  /\ running' = [age |-> request[r].blob.age, keep |-> request[r].blob.keep,
                 cadence |-> request[r].blob.cadence,
                 hooks |-> request[r].blob.hooks]
  /\ page' = request[r].blob
  /\ request' = [request EXCEPT ![r] = Idle]
  /\ UNCHANGED <<stored, up, saves, patches, restarts>>

-----------------------------------------------------------------------------
(* Starting and stopping.                                                  *)

\* loadPersistedSettings, which does not migrate either.
Start ==
  /\ ~up /\ up' = TRUE
  /\ running' = IF stored = NoBlob THEN Fresh ELSE Runtime(Raw(stored))
  /\ UNCHANGED <<stored, page, request, saves, patches, restarts>>

Stop ==
  /\ up /\ restarts < MaxRestarts /\ up' = FALSE
  /\ restarts' = restarts + 1
  /\ request' = [r \in Requests |-> Idle]
  /\ UNCHANGED <<stored, running, page, saves, patches>>

Next ==
  \/ \E r \in Requests :
       \/ Begin(r) \/ WriteBack(r) \/ Done(r) \/ Patch(r)
       \/ \E age \in Ages, keep \in Keeps : BeginSave(r, age, keep)
       \/ StoreSave(r) \/ ApplySave(r)
  \/ LoadPage \/ Start \/ Stop

Spec == Init /\ [][Next]_vars

-----------------------------------------------------------------------------
(* Properties.                                                             *)

\* Reading the settings changes none of them, of whatever version they are,
\* when nobody else writes in between: a chosen zero stays a zero, also in a
\* blob that an older page has stored without a version.  The exception: such
\* a blob has its drives merged, whatever it says (api_extended.go:1382).
ReadKeepsChoices ==
  [][\A r \in Requests :
       (/\ request[r].stage = "read" /\ request'[r].stage = "have"
        /\ request[r].raw = stored /\ stored # NoBlob)
         => \/ Choices(stored') = Choices(stored)
            \/ /\ stored.version < 1
               /\ Choices(stored')
                    = [Choices(stored) EXCEPT !.drives = "merged"]
    ]_vars

\* What a save has put in force is in force again after a restart, although
\* saving and starting apply it by different paths.
RestartChangesNothing ==
  [][(/\ ~up /\ up' /\ stored # NoBlob /\ stored.save = saves /\ saves > 0
      /\ running = [age |-> stored.age, keep |-> stored.keep,
                    cadence |-> stored.cadence, hooks |-> stored.hooks])
       => running' = running]_vars

\* What somebody has chosen stays chosen, through reads and restarts.
SettingsHold == ReadKeepsChoices /\ RestartChangesNothing

-----------------------------------------------------------------------------
(* What a comment says and the code does not do.                           *)

\* A blob that a read has nothing to migrate in.
IsCurrent(b) == b.version >= Current /\ b.shape = "advanced"

\* api/api_extended.go:1330: "Only write if we actually had to migrate": the
\* write of a request that had nothing to migrate leaves the table as it is,
\* whatever was stored there since its read.
OnlyMigrationsWrite ==
  [][\A r \in Requests :
       (/\ request[r].stage = "read" /\ request'[r].stage = "have"
        /\ IsCurrent(request[r].raw))
         => stored' = stored]_vars

=============================================================================
