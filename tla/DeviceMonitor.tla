--------------------------- MODULE DeviceMonitor ----------------------------
(***************************************************************************)
(* How a phone that comes, goes or is switched off reaches the device pool *)
(* and the operators: DeviceMonitor.sync_once (devices/monitor.py), run by *)
(* its loop and by POST /devices/refresh at the same time, the device rows *)
(* (storage/devices.py), the pool's snapshot (api/_deps.py) and the alerts *)
(* on state changes (notifications/device_state.py, switched on, without   *)
(* the wording for expected reboots).  Not modelled: the healer, which      *)
(* follows a sync, and the keyboard routes, which upsert a row as well.    *)
(*                                                                         *)
(* A sync suspends at adb (a thread), at each database call, at get_config *)
(* and at the alert's HTTP call; a step runs from one to the next.  The    *)
(* snapshot is the set of phones it lists as online and enabled; what the  *)
(* pool does with it is in DevicePool.                                     *)
(***************************************************************************)
EXTENDS Naturals, FiniteSets

CONSTANTS Phones,       \* serials
          Plugged,      \* those that adb sees at the start
          Loop,         \* the monitor's own task, which runs sync_once
          Requests,     \* slots for POST /devices/refresh, which runs it too
          MaxChanges,   \* bound: changes of the phones and of their rows
          MaxRefreshes, \* bound: refresh requests
          NoPhone

ASSUME MonitorAssumption ==
  /\ Plugged \subseteq Phones /\ NoPhone \notin Phones /\ Loop \notin Requests
  /\ MaxChanges \in Nat /\ MaxRefreshes \in Nat

VARIABLES adb,        \* what adb says of a phone now
          stored,     \* device rows: the serials that have one
          online,     \* device rows: serials with online = True
          disabled,   \* device rows: serials with enabled = False
          snapshot,   \* DevicePool._snapshot
          last,       \* _last_state, "unknown" for a serial it lacks
          seeded,     \* _seeded
          stage,      \* sync -> where it stands; "idle": none runs
          listed,     \* sync -> what adb said to it, then its `current`
          todo,       \* sync -> phones its present loop still has to handle
          rows,       \* sync -> the phones _refresh_pool has read
          at,         \* sync -> the phone it is about to alert for
          down,       \* _down_devices
          told,       \* phone -> the last alert that was sent for it
          changes, refreshes

store == <<stored, online, disabled>>
monitor == <<last, seeded>>
syncs == <<stage, listed, todo, rows, at>>
alerts == <<down, told>>
bounds == <<changes, refreshes>>
vars == <<adb, store, snapshot, monitor, syncs, alerts, bounds>>

Syncs == {Loop} \cup Requests
Seen == {"online", "offline"}
State == Seen \cup {"missing"}
Stage == {"idle", "upserting", "upserted", "refreshing", "marked", "sweeping",
          "emitting", "alerting"}

TypeOK ==
  /\ adb \in [Phones -> State]
  /\ stored \in SUBSET Phones /\ online \in SUBSET stored /\ disabled \in SUBSET stored
  /\ snapshot \in SUBSET Phones
  /\ last \in [Phones -> State \cup {"unknown"}]
  /\ seeded \in BOOLEAN
  /\ stage \in [Syncs -> Stage]
  /\ listed \in [Syncs -> [Phones -> State \cup {"unknown"}]]
  /\ todo \in [Syncs -> SUBSET Phones]
  /\ rows \in [Syncs -> SUBSET Phones]
  /\ at \in [Syncs -> Phones \cup {NoPhone}]
  /\ down \in SUBSET Phones
  /\ told \in [Phones -> {"nothing", "down", "recovered"}]
  /\ changes \in 0 .. MaxChanges /\ refreshes \in 0 .. MaxRefreshes

Unknown == [p \in Phones |-> "unknown"]
Usable == online \ disabled
To(s, st) == stage' = [stage EXCEPT ![s] = st]
-----------------------------------------------------------------------------
(* sync_once: the rows and the snapshot *)

\* A sync is begun, and `adb devices` answers from its thread.  A sync whose
\* adb fails changes nothing.
List(s) ==
  /\ stage[s] = "idle"
  /\ To(s, "upserting")
  /\ listed' = [listed EXCEPT ![s] = adb]
  /\ todo' = [todo EXCEPT ![s] = {p \in Phones : adb[p] \in Seen}]
  /\ IF s = Loop THEN UNCHANGED refreshes
                 ELSE refreshes < MaxRefreshes /\ refreshes' = refreshes + 1
  /\ UNCHANGED <<adb, store, snapshot, monitor, rows, at, alerts, changes>>

\* upsert_discovered_device; `enabled` is left alone, a new row is enabled.
Upsert(s) ==
  /\ stage[s] = "upserting"
  /\ \E p \in todo[s] :
       /\ todo' = [todo EXCEPT ![s] = @ \ {p}]
       /\ stored' = stored \cup {p}
       /\ online' = IF listed[s][p] = "online" THEN online \cup {p} ELSE online \ {p}
  /\ To(s, "upserted")
  /\ UNCHANGED <<adb, disabled, snapshot, monitor, listed, rows, at, alerts, bounds>>

\* mark_missing_devices_offline, after the last upsert.
\* Mutant: it leaves the rows alone.
MarkNothing(s) ==
  /\ stage[s] = "upserting" /\ todo[s] = {}
  /\ To(s, "marked")
  /\ UNCHANGED <<adb, store, snapshot, monitor, listed, todo, rows, at, alerts, bounds>>

MarkMissing(s) ==
  /\ stage[s] = "upserting" /\ todo[s] = {}
  /\ online' = {p \in online : listed[s][p] \in Seen}
  /\ To(s, "marked")
  /\ UNCHANGED <<adb, stored, disabled, snapshot, monitor, listed, todo, rows, at, alerts,
                 bounds>>

\* _refresh_pool reads the rows ...
ReadRows(s) ==
  /\ \/ stage[s] = "upserted" /\ To(s, "refreshing")
     \/ stage[s] = "marked" /\ To(s, "sweeping")
  /\ rows' = [rows EXCEPT ![s] = Usable]
  /\ UNCHANGED <<adb, store, snapshot, monitor, listed, todo, at, alerts, bounds>>

\* ... and replaces the snapshot by what it has read.
Replace(s) == snapshot' = rows[s] /\ rows' = [rows EXCEPT ![s] = {}]

Refresh(s) ==
  /\ stage[s] = "refreshing"
  /\ Replace(s)
  /\ To(s, "upserting")
  /\ UNCHANGED <<adb, store, monitor, listed, todo, at, alerts, bounds>>
-----------------------------------------------------------------------------
(* sync_once: the transitions *)

\* Mutant: a phone that is not listed any more is dropped.
CurrentListed(s) ==
  [p \in Phones |-> IF listed[s][p] \in Seen THEN listed[s][p] ELSE "unknown"]

\* `current`: what was known before and is not listed any more is missing.
Current(s) ==
  [p \in Phones |-> IF listed[s][p] \in Seen THEN listed[s][p]
                    ELSE IF last[p] # "unknown" THEN "missing" ELSE "unknown"]

\* What on_state_change has something to say of.
Alerting(p, current) ==
  /\ last[p] # "unknown" /\ last[p] # current[p]
  /\ last[p] = "online" \/ current[p] = "online"

\* _emit_transitions goes on with the phones that are left: those with nothing
\* to say are passed over, the next one suspends in get_config; when none is
\* left, `current` becomes the last state and the sync is over.
GoOn(s, current, left) ==
  \/ \E p \in left :
       /\ Alerting(p, current)
       /\ \E passed \in SUBSET {q \in left : ~Alerting(q, current)} :
            todo' = [todo EXCEPT ![s] = left \ (passed \cup {p})]
       /\ at' = [at EXCEPT ![s] = p]
       /\ listed' = [listed EXCEPT ![s] = current]
       /\ To(s, "emitting")
       /\ UNCHANGED last
  \/ /\ \A p \in left : ~Alerting(p, current)
     /\ todo' = [todo EXCEPT ![s] = {}]
     /\ at' = [at EXCEPT ![s] = NoPhone]
     /\ listed' = [listed EXCEPT ![s] = Unknown]
     /\ last' = current
     /\ To(s, "idle")

\* The last refresh; the first sync of all emits nothing.
Sweep(s) ==
  /\ stage[s] = "sweeping"
  /\ Replace(s)
  /\ seeded' = TRUE
  /\ GoOn(s, Current(s), IF seeded THEN {p \in Phones : Current(s)[p] # "unknown"} ELSE {})
  /\ UNCHANGED <<adb, store, alerts, bounds>>

\* Mutant: a report is not noted in _down_devices.
AlertUnnoted(s) ==
  /\ stage[s] = "emitting"
  /\ LET p == at[s]
         up == listed[s][p] = "online"
     IN IF up
        THEN GoOn(s, listed[s], todo[s]) /\ UNCHANGED alerts
        ELSE /\ told' = [told EXCEPT ![p] = "down"]
             /\ To(s, "alerting")
             /\ UNCHANGED <<down, listed, todo, at, last>>
  /\ UNCHANGED <<adb, store, snapshot, seeded, rows, bounds>>

\* _alert_down, and _alert_recovered of a phone that was reported down.
Alert(s) ==
  /\ stage[s] = "emitting"
  /\ LET p == at[s]
         up == listed[s][p] = "online"
     IN IF up /\ p \notin down
        THEN GoOn(s, listed[s], todo[s]) /\ UNCHANGED alerts
        ELSE /\ down' = IF up THEN down \ {p} ELSE down \cup {p}
             /\ told' = [told EXCEPT ![p] = IF up THEN "recovered" ELSE "down"]
             /\ To(s, "alerting")
             /\ UNCHANGED <<listed, todo, at, last>>
  /\ UNCHANGED <<adb, store, snapshot, seeded, rows, bounds>>

\* The alert was delivered, or not.
Alerted(s) ==
  /\ stage[s] = "alerting"
  /\ GoOn(s, listed[s], todo[s])
  /\ UNCHANGED <<adb, store, snapshot, seeded, rows, alerts, bounds>>
-----------------------------------------------------------------------------
(* Phones, and requests about them *)

Change ==
  /\ changes < MaxChanges
  /\ changes' = changes + 1
  /\ UNCHANGED <<snapshot, monitor, syncs, alerts, refreshes>>

\* A phone is plugged, unplugged, or stops answering.
PhoneChanges(p) ==
  /\ Change
  /\ \E st \in State \ {adb[p]} : adb' = [adb EXCEPT ![p] = st]
  /\ UNCHANGED store

\* POST /devices/{p}/connect and /disconnect
SetEnabled(p) ==
  /\ p \in stored /\ Change
  /\ disabled' = IF p \in disabled THEN disabled \ {p} ELSE disabled \cup {p}
  /\ UNCHANGED <<adb, stored, online>>

\* DELETE /devices/{p}
Delete(p) ==
  /\ p \in stored /\ Change
  /\ stored' = stored \ {p}
  /\ online' = online \ {p}
  /\ disabled' = disabled \ {p}
  /\ UNCHANGED adb
-----------------------------------------------------------------------------
Init ==
  /\ adb = [p \in Phones |-> IF p \in Plugged THEN "online" ELSE "missing"]
  /\ stored = {} /\ online = {} /\ disabled = {}
  /\ snapshot = {}
  /\ last = Unknown /\ seeded = FALSE
  /\ stage = [s \in Syncs |-> "idle"]
  /\ listed = [s \in Syncs |-> Unknown]
  /\ todo = [s \in Syncs |-> {}]
  /\ rows = [s \in Syncs |-> {}]
  /\ at = [s \in Syncs |-> NoPhone]
  /\ down = {}
  /\ told = [p \in Phones |-> "nothing"]
  /\ changes = 0 /\ refreshes = 0

\* What a sync does once it is begun.
Proceed(s) ==
  \/ Upsert(s)
  \/ MarkMissing(s)
  \/ ReadRows(s)
  \/ Refresh(s)
  \/ Sweep(s)
  \/ Alert(s)
  \/ Alerted(s)

Next ==
  \/ \E s \in Syncs : List(s) \/ Proceed(s)
  \/ \E p \in Phones : PhoneChanges(p) \/ SetEnabled(p) \/ Delete(p)

Spec == Init /\ [][Next]_vars

\* DeviceMonitor.run begins a sync for ever and adb does not fail for ever;
\* every await ends.
Fairness ==
  /\ WF_vars(List(Loop))
  /\ \A s \in Syncs : WF_vars(Proceed(s))

FairSpec == Spec /\ Fairness
-----------------------------------------------------------------------------
(* Liveness.  MaxChanges ends the changes of phones and rows. *)

\* When phones and rows change no more, the pool's snapshot becomes, and stays,
\* the phones that adb sees and nobody has switched off: refreshes that overlap
\* and overwrite each other with older rows do no lasting harm.
PoolConverges == <>[](snapshot = {p \in Phones : adb[p] = "online"} \ disabled)

\* (no refresh request) The last alert sent for a phone tells how it is.
AlertsConverge ==
  \A p \in Phones :
    <>[](\/ told[p] = "nothing"
         \/ told[p] = "recovered" <=> adb[p] = "online"
         \/ refreshes > 0)

\* (no refresh request) The loss of a phone that was known to be online is
\* reported, unless it is back first.
LossIsTold ==
  \A p \in Phones :
    last[p] = "online" /\ adb[p] # "online"
      ~> told[p] = "down" \/ adb[p] = "online" \/ refreshes > 0

\* What the operators are told comes to be how the phones are.
NewsArrive == []TypeOK /\ AlertsConverge /\ LossIsTold
-----------------------------------------------------------------------------
(* What a docstring says and the code does not do *)

\* "Alerts on a device going down (online -> offline/missing) and, paired with
\* that, on it coming back": when the monitor notes that a phone is online
\* again, no report of its loss is left unanswered.
RecoveryIsTold ==
  [][\A p \in Phones :
       last'[p] # last[p] /\ last'[p] = "online" => p \notin down']_vars
=============================================================================
