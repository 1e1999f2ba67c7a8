----------------------------- MODULE Anomalies ------------------------------
(***************************************************************************)
(* Duration anomalies and the digest: the detector that the scheduler      *)
(* awaits after each sample (anomalies/duration_detector.py), the backfill *)
(* over the history (anomalies/backfill.py), the table (anomalies/store.py)*)
(* and the hourly digest (maintenance/scheduler.py).                       *)
(*                                                                         *)
(* Time counts half seconds, for the table keeps whole ones (SQLite's      *)
(* CURRENT_TIMESTAMP) and the digest compares them with a finer clock.     *)
(* One profile stands for all.                                             *)
(***************************************************************************)
EXTENDS Naturals, FiniteSets

CONSTANTS Samples,
          Slow,         \* samples above the fence of every long enough history
          MinHistory,   \* MIN_HISTORY
          Interval,     \* digest_interval_hours, in half seconds
          MaxClock      \* bound: the last moment

VARIABLES clock,
          timed,      \* samples whose row has a duration
          hook,       \* sample -> where its check_duration_anomaly stands
          fill,       \* where a backfill stands
          known,      \* the samples it read, and adds, as already recorded
          todo,       \* the timed samples it has yet to judge
          records,    \* rows of the table
          told,       \* history: rows that a delivered digest held
          lastSent,   \* anomaly_digest_state.last_sent, 0 for none
          digest,     \* the tick: where it stands, its `now`, `last` and rows
          windows     \* history: the windows of delivered or empty digests

detection == <<timed, hook, fill, known, todo, records>>
sending == <<told, lastSent, digest, windows>>
vars == <<clock, detection, sending>>

NoDigest == [at |-> "idle", now |-> 0, since |-> 0, rows |-> {}]
Row == [sample : Samples, by : {"hook", "fill"}, created : 0 .. MaxClock]

TypeOK ==
  /\ clock \in 1 .. MaxClock
  /\ timed \in SUBSET Samples /\ known \in SUBSET Samples /\ todo \in SUBSET Samples
  /\ hook \in [Samples -> {"running", "check", "record", "over"}]
  /\ fill \in {"idle", "known", "judge"}
  /\ records \in SUBSET Row /\ told \in SUBSET records
  /\ lastSent \in 0 .. MaxClock
  /\ digest.at \in {"idle", "read", "send"} /\ digest.rows \in SUBSET Row
  /\ windows \in SUBSET ((0 .. MaxClock) \X (0 .. MaxClock))

Second(t) == 2 * (t \div 2)
-----------------------------------------------------------------------------
(* Detection *)

\* evaluate_duration: without enough history nothing is an anomaly.
Outlier(x, history) == Cardinality(history) >= MinHistory /\ x \in Slow

\* record_anomaly: created_at is set by the database.
Record(x, by) ==
  records' = records \cup {[sample |-> x, by |-> by, created |-> Second(clock)]}

\* upsert_sample: the row of a sample that has run has its duration.
SampleEnds(x) ==
  /\ hook[x] = "running"
  /\ timed' = timed \cup {x}
  /\ hook' = [hook EXCEPT ![x] = "check"]
  /\ UNCHANGED <<clock, fill, known, todo, records, sending>>

\* The hook's history already holds the sample itself.
Check(x) ==
  /\ hook[x] = "check"
  /\ hook' = [hook EXCEPT ![x] = IF Outlier(x, timed) THEN "record" ELSE "over"]
  /\ UNCHANGED <<clock, timed, fill, known, todo, records, sending>>

\* An error of the insertion is logged.
RecordHook(x) ==
  /\ hook[x] = "record"
  /\ hook' = [hook EXCEPT ![x] = "over"]
  /\ Record(x, "hook") \/ UNCHANGED records
  /\ UNCHANGED <<clock, timed, fill, known, todo, sending>>

\* backfill_duration_anomalies: what is recorded, then the timed samples.
Backfill ==
  /\ fill = "idle"
  /\ fill' = "known"
  /\ known' = {r.sample : r \in records}
  /\ UNCHANGED <<clock, timed, hook, todo, records, sending>>

ReadTimed ==
  /\ fill = "known"
  /\ todo' = timed
  /\ fill' = "judge"
  /\ UNCHANGED <<clock, timed, hook, known, records, sending>>

\* Mutant: the samples that are recorded already are judged again.
FillAgain(x) ==
  /\ fill = "judge" /\ x \in todo
  /\ todo' = todo \ {x}
  /\ IF Outlier(x, timed \ todo) THEN Record(x, "fill") ELSE UNCHANGED records
  /\ UNCHANGED <<clock, timed, hook, fill, known, sending>>

\* Each is judged against those before it, here in any order.
Fill(x) ==
  /\ fill = "judge" /\ x \in todo
  /\ todo' = todo \ {x}
  /\ IF Outlier(x, timed \ todo) /\ x \notin known
     THEN Record(x, "fill") /\ known' = known \cup {x}
     ELSE UNCHANGED <<records, known>>
  /\ UNCHANGED <<clock, timed, hook, fill, sending>>

EndBackfill ==
  /\ fill = "judge" /\ todo = {}
  /\ fill' = "idle" /\ known' = {}
  /\ UNCHANGED <<clock, timed, hook, todo, records, sending>>
-----------------------------------------------------------------------------
(* _digest_tick_once *)

\* The tick is due: nothing was sent yet, or the interval has passed.
DigestTick ==
  /\ digest.at = "idle"
  /\ lastSent = 0 \/ clock - lastSent >= Interval
  /\ digest' = [at |-> "read", now |-> clock, rows |-> {},
                since |-> IF lastSent # 0 THEN lastSent
                          ELSE IF clock > Interval THEN clock - Interval ELSE 0]
  /\ UNCHANGED <<clock, detection, told, lastSent, windows>>

\* Mutant: the window ends where the rows were read.
SentLate ==
  /\ lastSent' = clock
  /\ windows' = windows \cup {<<digest.since, digest.now>>}

\* last_sent is the moment of the tick.
Sent ==
  /\ lastSent' = digest.now
  /\ windows' = windows \cup {<<digest.since, digest.now>>}

\* anomalies_created_since; with nothing to say the window moves on.
ReadRows ==
  /\ digest.at = "read"
  /\ LET rows == {r \in records : r.created >= digest.since}
     IN  IF rows = {} THEN Sent /\ digest' = NoDigest
         ELSE digest' = [digest EXCEPT !.at = "send", !.rows = rows]
              /\ UNCHANGED <<lastSent, windows>>
  /\ UNCHANGED <<clock, detection, told>>

\* The message is delivered and last_sent stored; or it is not delivered; or the
\* process is killed between the two.
Send ==
  /\ digest.at = "send"
  /\ digest' = NoDigest
  /\ \/ told' = told \cup digest.rows /\ (Sent \/ UNCHANGED <<lastSent, windows>>)
     \/ UNCHANGED <<told, lastSent, windows>>
  /\ UNCHANGED <<clock, detection>>

Tick ==
  /\ clock < MaxClock /\ clock' = clock + 1
  /\ UNCHANGED <<detection, sending>>

Init ==
  /\ clock = 1
  /\ timed = {} /\ hook = [x \in Samples |-> "running"]
  /\ fill = "idle" /\ known = {} /\ todo = {} /\ records = {}
  /\ told = {} /\ lastSent = 0 /\ digest = NoDigest /\ windows = {}

Next ==
  \/ \E x \in Samples : SampleEnds(x) \/ Check(x) \/ RecordHook(x) \/ Fill(x)
  \/ Backfill \/ ReadTimed \/ EndBackfill
  \/ DigestTick \/ ReadRows \/ Send
  \/ Tick

Spec == Init /\ [][Next]_vars
-----------------------------------------------------------------------------
\* "retry next tick", "advance so the window doesn't grow unbounded": what lies
\* between the begin of the first window and the end of the last one is in a
\* delivered digest; nothing falls between two windows, whatever is recorded while
\* a tick reads and sends and wherever the process is killed.  Excepted is the
\* second in which a window ends: the table has no finer time, and such a row
\* can be too old for the next window.
WindowsLeaveNoGap ==
  \A r \in records :
    /\ \E w \in windows : w[1] <= r.created
    /\ \E w \in windows : r.created < Second(w[2])
    /\ \A w \in windows : r.created # Second(w[2])
    => r \in told

\* "each sample yields at most one duration anomaly": however often a backfill
\* runs, and beside the hooks, it adds one row of a sample at most.  (The hook and
\* a backfill that began before it may add one each.)
BackfillIsIdempotent ==
  \A r, q \in records : r.sample = q.sample /\ r.by = "fill" /\ q.by = "fill" => r = q

\* An anomaly is recorded once by a backfill, and told.
AnomaliesAreTold == TypeOK /\ WindowsLeaveNoGap /\ BackfillIsIdempotent
=============================================================================
