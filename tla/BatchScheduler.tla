--------------------------- MODULE BatchScheduler ---------------------------
(***************************************************************************)
(* The life of batches: BatchScheduler (scheduler/batch_scheduler.py), the *)
(* batch and sample rows it writes (storage/), the endpoints that submit,  *)
(* cancel, delete, rerun and replay batches (api/batches.py) and the boot  *)
(* that cancels what a killed process left behind (main.py).               *)
(*                                                                         *)
(* A step runs from one await that can suspend (database, device, executor,*)
(* webhook) to the next.  BatchEventBus.publish never suspends; the events *)
(* appear as what a subscriber that saw them all displays.  Persisted:     *)
(* status, request, callbacks, rows, saved; the rest dies with the process. *)
(* What acquire() and the executor answer is a free choice here.           *)
(***************************************************************************)
EXTENDS Naturals, FiniteSets

CONSTANTS Batches,      \* batch ids
          Samples,      \* sample ids, distinct within a batch
          Kinds,        \* sample -> "plain", "device", "end", "noprofile"
          Callbacks,    \* samples submitted with a callback_url
          Concurrency,  \* the semaphore's size (_resolve_concurrency)
          MaxFaults,    \* bound: I/O errors met
          MaxRestarts   \* bound: kills of the process

Kind == {"plain", "device", "end", "noprofile"}

ASSUME SchedulerAssumption ==
  /\ Kinds \in [Samples -> Kind]
  /\ Callbacks \subseteq Samples
  /\ Concurrency \in Nat \ {0}
  /\ MaxFaults \in Nat /\ MaxRestarts \in Nat
  /\ IsFiniteSet(Samples)

VARIABLES status,     \* batch row: its status, "absent" when there is no row
          request,    \* batch row: sample -> kind, "none" if not in the batch
          callbacks,  \* batch row: the samples that have a callback_url
          rows,       \* sample rows: status of the result, "none" if missing
          saved,      \* batch row: the columns done and failed
          run,        \* where the batch's _run task stands
          stage,      \* sample -> where its run_one task stands
          result,     \* sample -> the status of its result in memory
          counts,     \* _RunState.done_count and failed_count
          passed,     \* sample -> the counts it gave to update_batch_progress
          cancelled,  \* batches whose cancel_event is set
          finished,   \* batches whose done_event is set
          final,      \* final_status of _run
          shown,      \* what a subscriber to the batch's events displays
          faults, restarts

persisted == <<status, request, callbacks, rows, saved>>
memory == <<run, stage, result, counts, passed, cancelled, finished, final, shown>>
bounds == <<faults, restarts>>
vars == <<persisted, memory, bounds>>

ActiveStatus == {"queued", "running"}
TerminalStatus == {"done", "failed", "cancelled"}
Outcome == {"done", "failed", "timeout", "cancelled"}
Stage == {"none", "waiting", "acquiring", "executing", "storing", "notifying",
          "saving", "calling", "ended", "raised"}
HasSlot == {"acquiring", "executing", "storing", "notifying", "saving", "calling"}
Tally == [done : Nat, failed : Nat]
View == [samples : [Samples -> {"queued", "running"} \cup Outcome],
         tally : Tally, end : {"none"} \cup TerminalStatus]
Zero == [done |-> 0, failed |-> 0]
NewView == [samples |-> [x \in Samples |-> "queued"], tally |-> Zero, end |-> "none"]

TypeOK ==
  /\ status \in [Batches -> {"absent"} \cup ActiveStatus \cup TerminalStatus]
  /\ request \in [Batches -> [Samples -> {"none"} \cup Kind]]
  /\ rows \in [Batches -> [Samples -> {"none"} \cup Outcome]]
  /\ saved \in [Batches -> Tally]
  /\ run \in [Batches -> {"none", "starting", "running", "closing", "ended", "dead"}]
  /\ stage \in [Batches -> [Samples -> Stage]]
  /\ result \in [Batches -> [Samples -> {"none"} \cup Outcome]]
  /\ counts \in [Batches -> Tally]
  /\ passed \in [Batches -> [Samples -> Tally]]
  /\ cancelled \in SUBSET Batches
  /\ finished \in SUBSET Batches
  /\ final \in [Batches -> TerminalStatus]
  /\ shown \in [Batches -> View]
  /\ callbacks \in [Batches -> SUBSET Samples]
  /\ faults \in 0 .. MaxFaults
  /\ restarts \in 0 .. MaxRestarts

Chosen(b) == {x \in Samples : request[b][x] # "none"}
NoSamples == [x \in Samples |-> "none"]

\* An I/O error is met.
Fault == faults < MaxFaults /\ faults' = faults + 1 /\ UNCHANGED restarts
-----------------------------------------------------------------------------
(* Submission *)

\* submit(): the row is created, the _run task is scheduled.
Submit(b, req, hooks) ==
  /\ status[b] = "absent" /\ run[b] = "none"
  /\ status' = [status EXCEPT ![b] = "queued"]
  /\ request' = [request EXCEPT ![b] = req]
  /\ run' = [run EXCEPT ![b] = "starting"]
  /\ callbacks' = [callbacks EXCEPT ![b] = hooks]
  /\ UNCHANGED <<rows, saved, stage, result, counts, passed, cancelled, finished, final,
                 shown, bounds>>

\* POST /batches, /batches/upload, /tests/sync
Create(b) == Submit(b, Kinds, Callbacks)

\* POST /batches/{b}/rerun?status=st: the samples are rebuilt from their rows,
\* which do not keep end_session nor callback_url.
AsExecuted(k) == IF k = "end" THEN "device" ELSE k
Filters == {"failed", "all", "timeout", "cancelled"}
Selected(b, st) == {x \in Samples : rows[b][x] # "none" /\ (st = "all" \/ rows[b][x] = st)}

\* Mutant: the gate on the original's status is missing.
RerunUngated(b, b2, st) ==
  /\ b # b2
  /\ status[b] # "absent"
  /\ Selected(b, st) # {}
  /\ Submit(b2, [x \in Samples |-> IF x \in Selected(b, st)
                                   THEN AsExecuted(request[b][x]) ELSE "none"], {})

Rerun(b, b2, st) ==
  /\ b # b2
  /\ status[b] \in TerminalStatus
  /\ Selected(b, st) # {}
  /\ Submit(b2, [x \in Samples |-> IF x \in Selected(b, st)
                                   THEN AsExecuted(request[b][x]) ELSE "none"], {})

\* POST /batches/{b}/replay: samples_request_json holds every field.
Replay(b, b2) ==
  /\ b # b2
  /\ status[b] \in TerminalStatus
  /\ Submit(b2, request[b], callbacks[b])
-----------------------------------------------------------------------------
(* The _run task *)

\* update_batch_status("running"), the result file is opened and gather()
\* schedules every run_one.
StartRun(b) ==
  /\ run[b] = "starting"
  /\ run' = [run EXCEPT ![b] = "running"]
  /\ status' = [status EXCEPT ![b] = "running"]
  /\ stage' = [stage EXCEPT ![b] = [x \in Samples |->
                 IF x \in Chosen(b) THEN "waiting" ELSE "none"]]
  /\ UNCHANGED <<request, callbacks, rows, saved, result, counts, passed, cancelled, finished, final,
                 shown, bounds>>

\* The update or the opening of the file fails, before _run's try statement.
StartFails(b) ==
  /\ run[b] = "starting"
  /\ run' = [run EXCEPT ![b] = "dead"]
  /\ \E st \in ActiveStatus : status' = [status EXCEPT ![b] = st]
  /\ Fault
  /\ UNCHANGED <<request, callbacks, rows, saved, stage, result, counts, passed, cancelled, finished,
                 final, shown>>

\* gather() returns and final_status is computed.
\* Mutant: the status of a batch with failures is left as it was.
FinalStatusUnset(b) ==
  IF b \in cancelled THEN "cancelled"
  ELSE IF counts[b].failed = 0 THEN "done" ELSE "running"

FinalStatus(b) ==
  IF b \in cancelled THEN "cancelled"
  ELSE IF counts[b].failed = 0 THEN "done" ELSE "failed"

\* Mutant: the batch is closed when every result is counted.
GatherEarly(b) ==
  /\ run[b] = "running"
  /\ counts[b].done + counts[b].failed = Cardinality(Chosen(b))
  /\ run' = [run EXCEPT ![b] = "closing"]
  /\ final' = [final EXCEPT ![b] = FinalStatus(b)]
  /\ UNCHANGED <<persisted, stage, result, counts, passed, cancelled, finished, shown, bounds>>

Gather(b) ==
  /\ run[b] = "running"
  /\ \A x \in Chosen(b) : stage[b][x] = "ended"
  /\ run' = [run EXCEPT ![b] = "closing"]
  /\ final' = [final EXCEPT ![b] = FinalStatus(b)]
  /\ UNCHANGED <<persisted, stage, result, counts, passed, cancelled, finished, shown, bounds>>

\* The `finally` of _run: the file is closed, batch_done is published and
\* done_event is set.
Close(b, st) ==
  /\ run' = [run EXCEPT ![b] = "ended"]
  /\ shown' = [shown EXCEPT ![b].end = st]
  /\ finished' = finished \cup {b}
  /\ UNCHANGED <<request, callbacks, rows, saved, stage, result, counts, passed, cancelled, final>>

\* Mutant: batch_done first, then the row.
FinishRunLate(b) ==
  \/ /\ run[b] = "closing"
     /\ Close(b, final[b])
     /\ UNCHANGED <<status, bounds>>
  \/ /\ run[b] = "ended" /\ status[b] = "running"
     /\ status' = [status EXCEPT ![b] = final[b]]
     /\ UNCHANGED <<request, callbacks, rows, saved, memory, bounds>>

FinishRun(b) ==
  /\ run[b] = "closing"
  /\ Close(b, final[b])
  /\ \/ status' = [status EXCEPT ![b] = final[b]] /\ UNCHANGED bounds
     \/ Fault /\ UNCHANGED status

\* gather() raises the first exception of a run_one; the others go on.
Abort(b) ==
  /\ run[b] = "running"
  /\ \E x \in Chosen(b) : stage[b][x] = "raised"
  /\ Close(b, "failed")
  /\ UNCHANGED <<status, bounds>>
-----------------------------------------------------------------------------
(* A run_one task *)

Occupied(b) == {x \in Samples : stage[b][x] \in HasSlot}
To(b, x, st) == stage' = [stage EXCEPT ![b][x] = st]

\* The result is there: writer.append(), which raises when the file is closed
\* or cannot be written, and then upsert_sample is awaited.
Append(b, x, res) ==
  /\ result' = [result EXCEPT ![b][x] = res]
  /\ \/ run[b] = "running" /\ To(b, x, "storing") /\ UNCHANGED bounds
     \/ run[b] = "running" /\ To(b, x, "raised") /\ Fault
     \/ run[b] = "ended" /\ To(b, x, "raised") /\ UNCHANGED bounds
  /\ UNCHANGED <<persisted, run, counts, passed, cancelled, finished, final>>

\* The semaphore lets the task in and sample_update "running" is published.
Enter(b, x) ==
  /\ stage[b][x] = "waiting"
  /\ Cardinality(Occupied(b)) < Concurrency
  /\ shown' = [shown EXCEPT ![b].samples[x] = "running"]

BeginCancelled(b, x) == b \in cancelled /\ Enter(b, x) /\ Append(b, x, "cancelled")

BeginEndSession(b, x) ==
  /\ b \notin cancelled
  /\ request[b][x] = "end"
  /\ Enter(b, x) /\ Append(b, x, "done")

BeginNoProfile(b, x) ==
  /\ b \notin cancelled
  /\ request[b][x] = "noprofile"
  /\ Enter(b, x) /\ Append(b, x, "failed")

\* The sample waits for a phone, or its executor runs at once.
BeginWork(b, x) ==
  /\ b \notin cancelled
  /\ Enter(b, x)
  /\ \/ request[b][x] = "device" /\ To(b, x, "acquiring")
     \/ request[b][x] = "plain" /\ To(b, x, "executing")
  /\ UNCHANGED <<persisted, run, result, counts, passed, cancelled, finished, final, bounds>>

Acquired(b, x) ==
  /\ stage[b][x] = "acquiring"
  /\ To(b, x, "executing")
  /\ UNCHANGED <<persisted, run, result, counts, passed, cancelled, finished, final, shown, bounds>>

\* DeviceReserved, DeviceBusy (a cancel included) or DeviceDisabled.
AcquireFails(b, x) ==
  /\ stage[b][x] = "acquiring"
  /\ Append(b, x, "failed") /\ UNCHANGED shown

\* Executor.run answers; it raises nothing.
Executed(b, x) ==
  /\ stage[b][x] = "executing"
  /\ \E res \in {"done", "failed", "timeout"} : Append(b, x, res)
  /\ UNCHANGED shown

\* upsert_sample; an error is logged only.
Stored(b, x) ==
  /\ stage[b][x] = "storing"
  /\ To(b, x, "notifying")
  /\ \/ rows' = [rows EXCEPT ![b][x] = result[b][x]] /\ UNCHANGED bounds
     \/ Fault /\ UNCHANGED rows
  /\ UNCHANGED <<status, request, callbacks, saved, run, result, counts, passed, cancelled, finished,
                 final, shown>>

\* The rules and the duration check are over, progress_lock is taken (it is
\* free when no other task of the batch is saving) and the result is counted.
\* Mutant: a time-out counts as done.
CountedTimeout(b, x) ==
  IF result[b][x] \in {"done", "timeout"} THEN [counts[b] EXCEPT !.done = @ + 1]
                                          ELSE [counts[b] EXCEPT !.failed = @ + 1]

Counted(b, x) ==
  IF result[b][x] = "done" THEN [counts[b] EXCEPT !.done = @ + 1]
                           ELSE [counts[b] EXCEPT !.failed = @ + 1]

\* Mutant: without progress_lock.
CountUnlocked(b, x) ==
  /\ stage[b][x] = "notifying"
  /\ To(b, x, "saving")
  /\ counts' = [counts EXCEPT ![b] = Counted(b, x)]
  /\ passed' = [passed EXCEPT ![b][x] = Counted(b, x)]
  /\ UNCHANGED <<persisted, run, result, cancelled, finished, final, shown, bounds>>

Count(b, x) ==
  /\ stage[b][x] = "notifying"
  /\ \A y \in Samples : stage[b][y] # "saving"
  /\ To(b, x, "saving")
  /\ counts' = [counts EXCEPT ![b] = Counted(b, x)]
  /\ passed' = [passed EXCEPT ![b][x] = Counted(b, x)]
  /\ UNCHANGED <<persisted, run, result, cancelled, finished, final, shown, bounds>>

\* `ctx` exists only on the branch that went on to an executor: on the others
\* the event's payload raises UnboundLocalError, which is caught and logged.
HasContext(b, x) == request[b][x] \in {"plain", "device"} /\ result[b][x] # "cancelled"

\* Mutant: only successes are published.
PublishDone(b, x) ==
  IF result[b][x] = "done" /\ HasContext(b, x)
  THEN [shown[b] EXCEPT !.samples[x] = result[b][x], !.tally = counts[b]]
  ELSE shown[b]

\* update_batch_progress returns (an error is logged only), the two events are
\* published and the lock is released.
Publish(b, x) ==
  IF HasContext(b, x)
  THEN [shown[b] EXCEPT !.samples[x] = result[b][x], !.tally = counts[b]]
  ELSE shown[b]

Save(b, x) ==
  /\ stage[b][x] = "saving"
  /\ To(b, x, IF x \in callbacks[b] THEN "calling" ELSE "ended")
  /\ \/ saved' = [saved EXCEPT ![b] = passed[b][x]] /\ UNCHANGED bounds
     \/ Fault /\ UNCHANGED saved
  /\ passed' = [passed EXCEPT ![b][x] = Zero]
  /\ shown' = [shown EXCEPT ![b] = Publish(b, x)]
  /\ UNCHANGED <<status, request, callbacks, rows, run, result, counts, cancelled,
                 finished, final>>

\* The webhook was delivered or given up; the semaphore is released.
CalledBack(b, x) ==
  /\ stage[b][x] = "calling"
  /\ To(b, x, "ended")
  /\ UNCHANGED <<persisted, run, result, counts, passed, cancelled, finished, final, shown, bounds>>

Begin(b, x) ==
  \/ BeginCancelled(b, x)
  \/ BeginEndSession(b, x)
  \/ BeginNoProfile(b, x)
  \/ BeginWork(b, x)

SampleStep(b, x) ==
  \/ Begin(b, x)
  \/ Acquired(b, x)
  \/ AcquireFails(b, x)
  \/ Executed(b, x)
  \/ Stored(b, x)
  \/ Count(b, x)
  \/ Save(b, x)
  \/ CalledBack(b, x)
-----------------------------------------------------------------------------
(* Requests about a batch, and the end of the process *)

\* scheduler.cancel: any batch of this process, running or not.
Cancel(b) ==
  /\ run[b] # "none"
  /\ cancelled' = cancelled \cup {b}
  /\ UNCHANGED <<persisted, run, stage, result, counts, passed, finished, final, shown, bounds>>

\* Mutant: active batches may be deleted too.
DeleteAny(b) ==
  /\ status[b] # "absent"
  /\ status' = [status EXCEPT ![b] = "absent"]
  /\ request' = [request EXCEPT ![b] = NoSamples]
  /\ rows' = [rows EXCEPT ![b] = NoSamples]
  /\ callbacks' = [callbacks EXCEPT ![b] = {}]
  /\ saved' = [saved EXCEPT ![b] = Zero]
  /\ UNCHANGED <<memory, bounds>>

\* DELETE /batches/{b}, delete-by-status and the retention job.
Delete(b) ==
  /\ status[b] \in TerminalStatus
  /\ status' = [status EXCEPT ![b] = "absent"]
  /\ request' = [request EXCEPT ![b] = NoSamples]
  /\ rows' = [rows EXCEPT ![b] = NoSamples]
  /\ callbacks' = [callbacks EXCEPT ![b] = {}]
  /\ saved' = [saved EXCEPT ![b] = Zero]
  /\ UNCHANGED <<memory, bounds>>

ForgetAll ==
  /\ run' = [b \in Batches |-> "none"]
  /\ stage' = [b \in Batches |-> NoSamples]
  /\ result' = [b \in Batches |-> NoSamples]
  /\ counts' = [b \in Batches |-> Zero]
  /\ passed' = [b \in Batches |-> [x \in Samples |-> Zero]]
  /\ cancelled' = {}
  /\ finished' = {}
  /\ final' = [b \in Batches |-> "failed"]
  /\ shown' = [b \in Batches |-> NewView]

\* Mutant: recover_orphaned_batches forgets the queued ones.
RestartHalf ==
  /\ restarts < MaxRestarts
  /\ restarts' = restarts + 1
  /\ status' = [b \in Batches |-> IF status[b] = "running" THEN "cancelled" ELSE status[b]]
  /\ ForgetAll
  /\ UNCHANGED <<request, callbacks, rows, saved, faults>>

\* The process is killed and boots again: recover_orphaned_batches.
Restart ==
  /\ restarts < MaxRestarts
  /\ restarts' = restarts + 1
  /\ status' = [b \in Batches |->
                 IF status[b] \in ActiveStatus THEN "cancelled" ELSE status[b]]
  /\ ForgetAll
  /\ UNCHANGED <<request, callbacks, rows, saved, faults>>
-----------------------------------------------------------------------------
Init ==
  /\ status = [b \in Batches |-> "absent"]
  /\ request = [b \in Batches |-> NoSamples]
  /\ rows = [b \in Batches |-> NoSamples]
  /\ saved = [b \in Batches |-> Zero]
  /\ run = [b \in Batches |-> "none"]
  /\ stage = [b \in Batches |-> NoSamples]
  /\ result = [b \in Batches |-> NoSamples]
  /\ counts = [b \in Batches |-> Zero]
  /\ passed = [b \in Batches |-> [x \in Samples |-> Zero]]
  /\ cancelled = {}
  /\ finished = {}
  /\ final = [b \in Batches |-> "failed"]
  /\ shown = [b \in Batches |-> NewView]
  /\ callbacks = [b \in Batches |-> {}]
  /\ faults = 0
  /\ restarts = 0

RunStep(b) ==
  \/ StartRun(b)
  \/ StartFails(b)
  \/ Gather(b)
  \/ FinishRun(b)
  \/ Abort(b)

Next ==
  \/ \E b \in Batches : Create(b) \/ RunStep(b) \/ Cancel(b) \/ Delete(b)
  \/ \E b, b2 \in Batches :
       Replay(b, b2) \/ \E st \in Filters : Rerun(b, b2, st)
  \/ \E b \in Batches, x \in Samples : SampleStep(b, x)
  \/ Restart

Spec == Init /\ [][Next]_vars

\* Every task that can run is run by the event loop; database, devices,
\* executors (wait_for) and webhooks (bounded retries) answer.
Fairness ==
  \A b \in Batches : WF_vars(RunStep(b)) /\ \A x \in Samples : WF_vars(SampleStep(b, x))

FairSpec == Spec /\ Fairness
-----------------------------------------------------------------------------
(* Safety.  Those marked (clean) are about runs without I/O errors. *)

Recorded(b, how) == {x \in Samples : rows[b][x] \in how}
Failures == Outcome \ {"done"}
Live(b) == {x \in Samples : stage[b][x] \notin {"none", "ended", "raised"}}

\* (clean) A batch that ended on its own has one row per sample, columns that
\* count them, and is "done" exactly when every row is.
FinishedIsComplete ==
  \A b \in Batches : status[b] \in {"done", "failed"} =>
    /\ Recorded(b, Outcome) = Chosen(b)
    /\ saved[b].done = Cardinality(Recorded(b, {"done"}))
    /\ saved[b].failed = Cardinality(Recorded(b, Failures))
    /\ status[b] = "done" <=> Recorded(b, Failures) = {}

\* (clean) When done_event wakes a caller of wait_done, and when a client reads
\* batch_done, the rows and the terminal status can be read from the database.
EndMeansRecorded ==
  \A b \in finished : status[b] # "absent" =>
    /\ status[b] = shown[b].end
    /\ Recorded(b, Outcome) = Chosen(b)
    /\ saved[b].done + saved[b].failed = Cardinality(Chosen(b))

\* The progress of a batch never goes back: tasks that finish together do not
\* overwrite each other's columns, and no late task touches an old batch.
ProgressNeverBack ==
  [][\A b \in Batches : status'[b] # "absent" =>
       saved'[b].done >= saved[b].done /\ saved'[b].failed >= saved[b].failed]_vars

\* (clean) batch_done is the last event: the client closes its stream on it.
NothingAfterEnd ==
  [][\A b \in Batches :
       shown[b].end # "none" /\ run'[b] # "none" => shown'[b] = shown[b]]_vars

\* The result of a sample that went to an executor or to the pool is shown to
\* the subscribers, and later events of the others do not undo it.
ExecutedIsShown ==
  \A b \in Batches, x \in Samples :
    stage[b][x] \in {"calling", "ended"} /\ HasContext(b, x) =>
      shown[b].samples[x] = result[b][x]

\* A rerun or a replay begins when no sample of the original is under way any
\* more: one batch at a time drives the profiles and devices of a batch.
RerunsAreSeparate ==
  [][\A b, b2 \in Batches :
       (Replay(b, b2) \/ \E st \in Filters : Rerun(b, b2, st)) => Live(b) = {}]_vars

\* No sample row outlives its batch row or comes after it was deleted.
NoOrphanRows ==
  \A b \in Batches : status[b] = "absent" => Recorded(b, Outcome) = {}

\* A batch that is active in the database belongs to this process: what a
\* killed process left is never shown as active.
ActiveIsOurs == \A b \in Batches : status[b] \in ActiveStatus => run[b] # "none"

\* (clean) What a batch leaves when its end is told, for the callers that wait,
\* the clients that read and the subscribers that were told of its samples.
EndIsComplete == FinishedIsComplete /\ EndMeansRecorded /\ ExecutedIsShown

\* Every active batch ends, through cancels and restarts.
Settles == \A b \in Batches : status[b] \in ActiveStatus ~> status[b] \notin ActiveStatus
-----------------------------------------------------------------------------
(* What docs and comments say and the code does not do *)

\* "batch_done: {status: done | failed | cancelled} - terminal": the batch whose
\* batch_done was published has a terminal status.
BatchDoneIsTerminal ==
  \A b \in Batches : shown[b].end # "none" => status[b] \notin ActiveStatus

\* "sample_update ... emitted when a sample enters or leaves running".
LeavingRunningIsShown ==
  \A b \in Batches, x \in Samples :
    stage[b][x] = "ended" => shown[b].samples[x] # "running"

=============================================================================
