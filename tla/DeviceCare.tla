----------------------------- MODULE DeviceCare -----------------------------
(***************************************************************************)
(* Planned and unplanned absences of a phone: init jobs that reboot it     *)
(* (devices/init_jobs.py, initializer.py), the mark of an expected reboot  *)
(* (expected_state.py), what the monitor's alerts say of it                *)
(* (notifications/device_state.py, alerts switched on) and the healer,     *)
(* which, if it is switched on, reconnects wifi phones at the end of a     *)
(* sync (healer.py).                                                       *)
(*                                                                         *)
(* One sync runs at a time here: overlapping ones are in DeviceMonitor.    *)
(* The lock of a phone is the pool's, seen as in DeviceLease.              *)
(***************************************************************************)
EXTENDS Naturals, FiniteSets

CONSTANTS Phones, Wifi,   \* serials, those of the form host:port
          Jobs,           \* ids of init jobs, in the order of their creation
          MaxKeep,        \* prune_old_jobs(max_keep)
          MaxMishaps,     \* bound: losses, failures of a heal pass, and switches
          Free, Sample    \* holders of a lock that are not jobs

VARIABLES power,      \* phone -> "up", "booting" or "dead"
          linked,     \* phones that adb is connected to
          holder,     \* phone -> who holds its lock
          registry,   \* _jobs
          task,       \* job -> phone -> where its _run_one stands
          mark,       \* _expected_reboot
          sync,       \* where the sync stands
          listed,     \* phones that `adb devices` showed online to it
          last,       \* phones that are online in _last_state
          down,       \* _down_devices: phone -> "none", "expected", "fault"
          told,       \* the last message per phone
          autoheal,   \* device_autoheal_enabled
          enabled,    \* phones whose row is enabled
          todo,       \* rows the heal pass still has to look at
          connecting, \* the phone that `adb connect` runs for in a thread
          resting,    \* phones whose _next_attempt is ahead
          mishaps

phone == <<power, linked>>
jobVars == <<registry, task, mark>>
switches == <<autoheal, enabled>>
healing == <<todo, connecting, resting>>
alerting == <<sync, listed, last, down, told>>
careVars == <<phone, holder, jobVars, alerting, switches, healing, mishaps>>

Online == {p \in linked : power[p] = "up"}
Over == {"none", "done", "failed"}
Finished(j) == \A p \in Phones : task[j][p] \in Over
Rebooting(p) == \E j \in Jobs : task[j][p] \in {"reboot", "boot", "settle"}

TypeOK ==
  /\ power \in [Phones -> {"up", "booting", "dead"}]
  /\ linked \in SUBSET Phones
  /\ holder \in [Phones -> Jobs \cup {Free, Sample}]
  /\ registry \in SUBSET Jobs
  /\ task \in [Jobs -> [Phones -> Over \cup {"hold", "begin", "reboot", "boot", "settle", "steps"}]]
  /\ mark \in SUBSET Phones
  /\ sync \in {"idle", "alert", "heal"}
  /\ {listed, last, enabled, todo, connecting, resting} \subseteq SUBSET Phones
  /\ autoheal \in BOOLEAN
  /\ down \in [Phones -> {"none", "expected", "fault"}]
  /\ told \in [Phones -> {"none", "expected", "fault", "rebooted", "recovered"}]

Step(j, p, to) == task' = [task EXCEPT ![j][p] = to]
Mishap == mishaps < MaxMishaps /\ mishaps' = mishaps + 1
-----------------------------------------------------------------------------
(* Init jobs *)

\* The oldest finished jobs beyond MaxKeep are forgotten.
PruneOldJobs(kept) ==
  LET finished == {j \in registry : Finished(j)}
      excess == IF Cardinality(registry) > MaxKeep THEN Cardinality(registry) - MaxKeep ELSE 0
  IN  /\ kept \subseteq registry
      /\ registry \ kept \subseteq finished
      /\ Cardinality(registry \ kept)
           = IF excess < Cardinality(finished) THEN excess ELSE Cardinality(finished)
      /\ \A i \in registry \ kept, k \in kept \cap finished : i < k

\* POST /profiles/{name}/initialize prunes first; a rule's auto-reinit does not.
StartJob(j, serials) ==
  /\ j \notin registry /\ Finished(j) /\ \A i \in registry : i < j
  /\ \E kept \in SUBSET registry :
       /\ PruneOldJobs(kept) \/ kept = registry
       /\ registry' = kept \cup {j}
  /\ task' = [task EXCEPT ![j] = [p \in Phones |-> IF p \in serials THEN "hold" ELSE "none"]]
  /\ UNCHANGED <<phone, holder, mark, alerting, switches, healing, mishaps>>

\* pool.hold: the lock, or DeviceBusy when the wait is over.
Hold(j, p) ==
  /\ task[j][p] = "hold"
  /\ \/ /\ holder[p] = Free
        /\ holder' = [holder EXCEPT ![p] = j]
        /\ Step(j, p, "begin")
     \/ holder[p] # Free /\ Step(j, p, "failed") /\ UNCHANGED holder
  /\ UNCHANGED <<phone, registry, mark, alerting, switches, healing, mishaps>>

\* The result of initialize_device, and the lock is free again.
Ends(j, p, result) ==
  /\ Step(j, p, result)
  /\ holder' = [holder EXCEPT ![p] = Free]

\* With a reboot the phone is marked first.
BeginInit(j, p) ==
  /\ task[j][p] = "begin"
  /\ \/ Step(j, p, "reboot") /\ mark' = mark \cup {p}
     \/ Step(j, p, "steps") /\ UNCHANGED mark
  /\ UNCHANGED <<phone, holder, registry, alerting, switches, healing, mishaps>>

\* `adb reboot` is accepted, or fails.
Reboot(j, p) ==
  /\ task[j][p] = "reboot"
  /\ \/ /\ p \in Online
        /\ power' = [power EXCEPT ![p] = "booting"]
        /\ linked' = linked \ {p}
        /\ Step(j, p, "boot") /\ UNCHANGED holder
     \/ Ends(j, p, "failed") /\ UNCHANGED phone
  /\ UNCHANGED <<registry, mark, alerting, switches, healing, mishaps>>

\* A pass of wait_for_boot connects a wifi phone and asks it; at the deadline
\* the job fails and the mark stays.
WaitForBoot(j, p) ==
  /\ task[j][p] = "boot"
  /\ IF power[p] = "up" /\ p \in Wifi \cup linked
     THEN linked' = linked \cup {p} /\ Step(j, p, "settle") /\ UNCHANGED holder
     ELSE Ends(j, p, "failed") /\ UNCHANGED linked
  /\ UNCHANGED <<power, registry, mark, alerting, switches, healing, mishaps>>

Settle(j, p) ==
  /\ task[j][p] = "settle"
  /\ mark' = mark \ {p}
  /\ Step(j, p, "steps")
  /\ UNCHANGED <<phone, holder, registry, alerting, switches, healing, mishaps>>

\* Screen, app and init_action; any of it can fail.
RunSteps(j, p) ==
  /\ task[j][p] = "steps"
  /\ \/ p \in Online /\ Ends(j, p, "done")
     \/ Ends(j, p, "failed")
  /\ UNCHANGED <<phone, registry, mark, alerting, switches, healing, mishaps>>

\* Mutant: a mark lasts until a job clears it.
NeverExpires(p) == UNCHANGED careVars

\* is_expected_reboot drops a mark after boot wait + 60 s, which no reboot that
\* is still waited for outlasts.
Expire(p) ==
  /\ p \in mark /\ ~Rebooting(p)
  /\ mark' = mark \ {p}
  /\ UNCHANGED <<phone, holder, registry, task, alerting, switches, healing, mishaps>>
-----------------------------------------------------------------------------
(* The sync: alerts *)

List ==
  /\ sync = "idle"
  /\ listed' = Online /\ sync' = "alert"
  /\ UNCHANGED <<phone, holder, jobVars, last, down, told, switches, healing, mishaps>>

Kind(p) == IF p \in mark THEN "expected" ELSE "fault"

\* Mutant: the recovery asks the mark again.
AlertAsking(p) ==
  /\ p \in (last \ listed) \cup (listed \ last)
  /\ IF p \in last
     THEN /\ down' = [down EXCEPT ![p] = Kind(p)]
          /\ told' = [told EXCEPT ![p] = Kind(p)]
     ELSE IF down[p] = "none" THEN UNCHANGED <<down, told>>
     ELSE /\ down' = [down EXCEPT ![p] = "none"]
          /\ told' = [told EXCEPT ![p] = IF p \in mark THEN "rebooted" ELSE "recovered"]

\* A loss is told with its kind, a recovery with the kind its loss was told.
AlertOf(p) ==
  /\ p \in (last \ listed) \cup (listed \ last)
  /\ IF p \in last
     THEN /\ down' = [down EXCEPT ![p] = Kind(p)]
          /\ told' = [told EXCEPT ![p] = Kind(p)]
     ELSE IF down[p] = "none" THEN UNCHANGED <<down, told>>
     ELSE /\ down' = [down EXCEPT ![p] = "none"]
          /\ told' = [told EXCEPT ![p] = IF down[p] = "expected" THEN "rebooted" ELSE "recovered"]

Alert(p) ==
  /\ sync = "alert"
  /\ AlertOf(p)
  /\ last' = IF p \in last THEN last \ {p} ELSE last \cup {p}
  /\ UNCHANGED <<phone, holder, jobVars, sync, listed, switches, healing, mishaps>>

\* The rows a pass has to do with, as they are when it begins: those that are
\* offline, enabled, on the network, and whose next attempt is due.
Due == (Wifi \cap enabled) \ (listed \cup resting)

\* maybe_heal, when it is switched on, reads the clock and the rows; those that
\* are online lose their back-off.  The pass ends here if they cannot be read.
StartHealing ==
  /\ sync = "alert" /\ last = listed
  /\ \/ /\ autoheal /\ sync' = "heal" /\ todo' = Due /\ resting' = resting \ listed
        /\ UNCHANGED mishaps
     \/ /\ ~autoheal /\ sync' = "idle" /\ UNCHANGED <<todo, resting, mishaps>>
     \/ /\ Mishap /\ sync' = "idle" /\ UNCHANGED <<todo, resting>>
  /\ UNCHANGED <<phone, holder, jobVars, switches, connecting, listed, last, down, told>>
-----------------------------------------------------------------------------
(* The sync: the healer *)

\* The mark and the lock are looked at when the turn of the row comes.
Skips(p) == p \in mark \/ holder[p] # Free

Skip(p) ==
  /\ sync = "heal" /\ connecting = {} /\ p \in todo /\ Skips(p)
  /\ todo' = todo \ {p}
  /\ UNCHANGED <<phone, holder, jobVars, switches, alerting, connecting, resting, mishaps>>

\* `adb connect` is handed to a thread, ...
Heal(p) ==
  /\ sync = "heal" /\ connecting = {} /\ p \in todo /\ ~Skips(p)
  /\ todo' = todo \ {p} /\ connecting' = {p}
  /\ UNCHANGED <<phone, holder, jobVars, switches, alerting, resting, mishaps>>

\* ... and ends while jobs and samples go on: a phone that is up answers, unless
\* the command fails.  Either way the next attempt is put off.
Connected(p) ==
  /\ p \in connecting
  /\ \/ linked' = (IF power[p] = "up" THEN linked \cup {p} ELSE linked) /\ UNCHANGED mishaps
     \/ Mishap /\ UNCHANGED linked
  /\ connecting' = {} /\ resting' = resting \cup {p}
  /\ UNCHANGED <<power, holder, jobVars, switches, alerting, todo>>

EndSync ==
  /\ sync = "heal" /\ todo = {} /\ connecting = {}
  /\ sync' = "idle"
  /\ UNCHANGED <<phone, holder, jobVars, listed, last, down, told, switches, healing, mishaps>>

Rested(p) ==
  /\ p \in resting
  /\ resting' = resting \ {p}
  /\ UNCHANGED <<phone, holder, jobVars, switches, alerting, todo, connecting, mishaps>>
-----------------------------------------------------------------------------
(* Phones and samples *)

\* The boot ends; a phone on USB is found again by itself.
Boots(p) ==
  /\ power[p] = "booting"
  /\ power' = [power EXCEPT ![p] = "up"]
  /\ linked' = IF p \in Wifi THEN linked ELSE linked \cup {p}
  /\ UNCHANGED <<holder, jobVars, alerting, switches, healing, mishaps>>

\* A phone drops out of adb, and perhaps has to be started by hand.
Lost(p) ==
  /\ p \in linked /\ Mishap
  /\ linked' = linked \ {p}
  /\ power' \in {[power EXCEPT ![p] = s] : s \in {"up", "booting", "dead"}}
  /\ UNCHANGED <<holder, jobVars, alerting, switches, healing>>

\* A user switches the healer, or the use of a phone, on or off.
Switch ==
  /\ Mishap
  /\ \/ autoheal' = ~autoheal /\ UNCHANGED enabled
     \/ UNCHANGED autoheal /\ \E p \in Phones : enabled' = (enabled \ {p}) \cup ({p} \ enabled)
  /\ UNCHANGED <<phone, holder, jobVars, alerting, healing>>

SampleTakes(p) ==
  /\ holder[p] = Free /\ p \in last
  /\ holder' = [holder EXCEPT ![p] = Sample]
  /\ UNCHANGED <<phone, jobVars, alerting, switches, healing, mishaps>>

SampleEnds(p) ==
  /\ holder[p] = Sample
  /\ holder' = [holder EXCEPT ![p] = Free]
  /\ UNCHANGED <<phone, jobVars, alerting, switches, healing, mishaps>>

Init ==
  /\ power = [p \in Phones |-> "up"] /\ linked = Phones
  /\ holder = [p \in Phones |-> Free]
  /\ registry = {} /\ task = [j \in Jobs |-> [p \in Phones |-> "none"]] /\ mark = {}
  /\ sync = "idle" /\ listed = Phones /\ last = Phones
  /\ down = [p \in Phones |-> "none"] /\ told = [p \in Phones |-> "none"]
  /\ autoheal \in BOOLEAN /\ enabled = Phones
  /\ todo = {} /\ connecting = {} /\ resting = {}
  /\ mishaps = 0

JobStep(j, p) ==
  \/ Hold(j, p) \/ BeginInit(j, p) \/ Reboot(j, p) \/ WaitForBoot(j, p) \/ Settle(j, p)
  \/ RunSteps(j, p)

SyncStep ==
  \/ List \/ StartHealing \/ EndSync
  \/ \E p \in Phones : Alert(p) \/ Skip(p) \/ Heal(p) \/ Connected(p)

\* What time does to a phone.
Passes(p) == Expire(p) \/ Rested(p) \/ Boots(p) \/ SampleEnds(p)

Next ==
  \/ \E j \in Jobs, serials \in SUBSET Phones : serials # {} /\ StartJob(j, serials)
  \/ \E j \in Jobs, p \in Phones : JobStep(j, p)
  \/ SyncStep
  \/ \E p \in Phones : Passes(p) \/ Lost(p) \/ SampleTakes(p)
  \/ Switch

\* Jobs, the sync and samples go on by themselves, and time passes.
Fairness ==
  /\ \A j \in Jobs, p \in Phones : WF_careVars(JobStep(j, p))
  /\ WF_careVars(SyncStep)
  /\ \A p \in Phones : WF_careVars(Passes(p))

Spec == Init /\ [][Next]_careVars /\ Fairness
-----------------------------------------------------------------------------
\* "Whether it was an expected reboot is remembered from the down transition,
\* sidestepping the mark's clear-timing race": the note on a recovery is of the
\* kind its loss was told with, wherever the mark went meanwhile.
NotesComeInPairs ==
  [][\A p \in Phones : told'[p] # told[p] =>
       /\ told'[p] = "rebooted" => told[p] = "expected"
       /\ told'[p] = "recovered" => told[p] = "fault"]_careVars

\* A job in flight can always be polled, and each one ends.
UnfinishedIsKnown == \A j \in Jobs : ~Finished(j) => j \in registry
JobsEnd == \A j \in Jobs : []<>Finished(j)

\* While the healer is switched on, an enabled wifi phone that is up is connected
\* again in the end, whatever init jobs, failed reboots and samples did to its mark,
\* its lock and its back-off, before its turn or while the command runs.
WifiComesBack ==
  \A p \in Wifi :
    (power[p] = "up" /\ p \notin linked /\ autoheal /\ p \in enabled)
      ~> (p \in linked \/ power[p] # "up" \/ ~autoheal \/ p \notin enabled)

-----------------------------------------------------------------------------
(* What a docstring says and the code does not do *)

\* "skips USB / disabled / planned-reboot / in-use devices": the phone that is being
\* connected is none of them.  Its row, its lock and its mark are only looked at
\* before.
HealsOnlyIdle == connecting \subseteq {p \in Wifi \cap enabled : holder[p] = Free /\ p \notin mark}
=============================================================================
