------------------------ MODULE BatchSchedulerProofs ------------------------
(***************************************************************************)
(* Proofs about BatchScheduler, for every set of batches and samples, any  *)
(* concurrency and any number of I/O errors and kills of the process: its  *)
(* types, no orphan sample rows, active batches are ours, and reruns that  *)
(* never overlap the batch they repeat.                                    *)
(***************************************************************************)
EXTENDS BatchScheduler, TLAPS

\* No run_one of the batch is under way.
Quiet(b) == \A x \in Samples : stage[b][x] \in {"none", "ended"}

\* What ties the tasks of a batch to its row.  A sample row is written by a task
\* that is under way, and a batch row is deleted in a terminal status only: so
\* the status has to say whether tasks are under way.
Owned(b) ==
  /\ run[b] \in {"starting", "running", "closing"} => status[b] \in ActiveStatus
  /\ run[b] \in {"none", "starting"} => \A x \in Samples : stage[b][x] = "none"
  /\ run[b] = "closing" => Quiet(b)
  /\ status[b] \notin ActiveStatus => Quiet(b)
  /\ \A x \in Samples : request[b][x] = "none" => stage[b][x] \in {"none", "ended"}

Ownership == \A b \in Batches : Owned(b)

\* A task that is past its executor has a result (only then can it be published).
HasResult ==
  \A b \in Batches, x \in Samples :
    stage[b][x] \in {"storing", "notifying", "saving"} => result[b][x] \in Outcome

IInv == TypeOK /\ HasResult /\ Ownership /\ NoOrphanRows /\ ActiveIsOurs

-----------------------------------------------------------------------------
(* Types *)

\* A counter goes up to a counter.
LEMMA TallyType ==
  ASSUME NEW t \in Tally
  PROVE  [t EXCEPT !.done = @ + 1] \in Tally /\ [t EXCEPT !.failed = @ + 1] \in Tally
BY DEF Tally

LEMMA ZeroType == Zero \in Tally
BY DEF Tally, Zero

\* What counting a result gives.
LEMMA CountedType ==
  ASSUME TypeOK, NEW b \in Batches, NEW x \in Samples
  PROVE  counts[b] \in Tally /\ passed[b][x] \in Tally /\ Counted(b, x) \in Tally
<1>1. counts[b] \in Tally /\ passed[b][x] \in Tally
  BY DEF TypeOK
<1> QED BY <1>1, TallyType DEF Counted

\* The changes that events make to a view.
LEMMA ViewType ==
  ASSUME NEW v \in View, NEW x \in Samples, NEW t \in Tally,
         NEW r \in {"queued", "running"} \cup Outcome, NEW e \in TerminalStatus
  PROVE  /\ [v EXCEPT !.samples[x] = r] \in View
         /\ [v EXCEPT !.samples[x] = r, !.tally = t] \in View
         /\ [v EXCEPT !.end = e] \in View
BY DEF View

LEMMA NewViewType == NewView \in View
BY ZeroType DEF View, NewView

LEMMA TypeInit == Init => TypeOK
<1> SUFFICES ASSUME Init PROVE TypeOK
  OBVIOUS
<1>1. NoSamples \in [Samples -> {"none"}]
  BY DEF NoSamples
<1>2. /\ status \in [Batches -> {"absent"}]
      /\ request \in [Batches -> [Samples -> {"none"} \cup Kind]]
      /\ rows \in [Batches -> [Samples -> {"none"} \cup Outcome]]
      /\ result \in [Batches -> [Samples -> {"none"} \cup Outcome]]
      /\ stage \in [Batches -> [Samples -> Stage]]
  BY <1>1 DEF Init, Stage
<1>3. /\ saved \in [Batches -> Tally] /\ counts \in [Batches -> Tally]
      /\ passed \in [Batches -> [Samples -> Tally]]
      /\ shown \in [Batches -> View]
  BY ZeroType, NewViewType DEF Init
<1>4. /\ run \in [Batches -> {"none", "starting", "running", "closing", "ended", "dead"}]
      /\ cancelled \in SUBSET Batches /\ finished \in SUBSET Batches
      /\ final \in [Batches -> TerminalStatus]
      /\ callbacks \in [Batches -> SUBSET Samples]
      /\ faults \in 0 .. MaxFaults /\ restarts \in 0 .. MaxRestarts
  BY SchedulerAssumption DEF Init, TerminalStatus
<1> QED BY <1>2, <1>3, <1>4 DEF TypeOK

\* A request that is submitted is one of the type of requests.
LEMMA SubmitType ==
  ASSUME TypeOK, NEW b \in Batches, NEW req \in [Samples -> {"none"} \cup Kind],
         NEW hooks \in SUBSET Samples, Submit(b, req, hooks)
  PROVE  TypeOK'
BY DEF TypeOK, Submit, ActiveStatus, bounds

LEMMA RunStepType ==
  ASSUME TypeOK, NEW b \in Batches, RunStep(b)
  PROVE  TypeOK'
<1>1. CASE StartRun(b)
  BY <1>1 DEF TypeOK, StartRun, Stage, ActiveStatus, bounds
<1>2. CASE StartFails(b)
  BY <1>2, SchedulerAssumption DEF TypeOK, StartFails, Fault
<1>3. CASE Gather(b)
  BY <1>3 DEF TypeOK, Gather, FinalStatus, TerminalStatus, persisted, bounds
<1>4. ASSUME NEW st \in TerminalStatus, Close(b, st),
             \/ UNCHANGED <<status, bounds>>
             \/ status' = [status EXCEPT ![b] = st] /\ UNCHANGED bounds
             \/ Fault /\ UNCHANGED status
      PROVE  TypeOK'
  <2>1. shown' \in [Batches -> View]
    <3>1. shown[b] \in View
      BY DEF TypeOK
    <3>2. [shown[b] EXCEPT !.end = st] \in View
      BY <3>1 DEF View
    <3> QED BY <1>4, <3>2 DEF TypeOK, Close
  <2>2. faults' \in 0 .. MaxFaults /\ restarts' \in 0 .. MaxRestarts
    BY <1>4, SchedulerAssumption DEF TypeOK, Fault, bounds
  <2> QED BY <1>4, <2>1, <2>2 DEF TypeOK, Close
<1>5. CASE FinishRun(b)
  <2>1. final[b] \in TerminalStatus
    BY DEF TypeOK
  <2> QED BY <1>4, <1>5, <2>1 DEF FinishRun
<1>6. CASE Abort(b)
  BY <1>4, <1>6 DEF Abort, TerminalStatus
<1> QED BY <1>1, <1>2, <1>3, <1>5, <1>6 DEF RunStep

\* sample_update "running" is an event like any other.
LEMMA EnterType ==
  ASSUME TypeOK, NEW b \in Batches, NEW x \in Samples, Enter(b, x)
  PROVE  shown' \in [Batches -> View]
<1>1. shown[b] \in View
  BY DEF TypeOK
<1>2. [shown[b] EXCEPT !.samples[x] = "running"] \in View
  BY <1>1 DEF View
<1> QED BY <1>2 DEF TypeOK, Enter

\* A task goes on to a stage.
LEMMA ToType ==
  ASSUME TypeOK, NEW b \in Batches, NEW x \in Samples, NEW st \in Stage, To(b, x, st)
  PROVE  stage' \in [Batches -> [Samples -> Stage]]
BY DEF TypeOK, To

LEMMA AppendType ==
  ASSUME TypeOK, NEW b \in Batches, NEW x \in Samples, NEW res \in Outcome,
         Append(b, x, res), shown' \in [Batches -> View]
  PROVE  TypeOK'
<1>1. faults' \in 0 .. MaxFaults /\ restarts' \in 0 .. MaxRestarts
  BY SchedulerAssumption DEF TypeOK, Append, Fault, bounds
<1>2. stage' \in [Batches -> [Samples -> Stage]]
  BY ToType DEF Append, Stage
<1> QED BY <1>1, <1>2 DEF TypeOK, Append, persisted

LEMMA BeginType ==
  ASSUME TypeOK, NEW b \in Batches, NEW x \in Samples, Begin(b, x)
  PROVE  TypeOK'
<1>1. ASSUME NEW res \in Outcome, Enter(b, x), Append(b, x, res)
      PROVE  TypeOK'
  BY <1>1, EnterType, AppendType
<1>2. CASE BeginCancelled(b, x) \/ BeginEndSession(b, x) \/ BeginNoProfile(b, x)
  BY <1>1, <1>2 DEF BeginCancelled, BeginEndSession, BeginNoProfile, Outcome
<1>3. CASE BeginWork(b, x)
  <2>1. shown' \in [Batches -> View]
    BY <1>3, EnterType DEF BeginWork
  <2>2. stage' \in [Batches -> [Samples -> Stage]]
    BY <1>3, ToType DEF BeginWork, Stage
  <2> QED BY <1>3, <2>1, <2>2 DEF TypeOK, BeginWork, persisted, bounds
<1> QED BY <1>2, <1>3 DEF Begin

LEMMA SaveType ==
  ASSUME TypeOK, HasResult, NEW b \in Batches, NEW x \in Samples, Save(b, x)
  PROVE  TypeOK'
<1>1. counts[b] \in Tally /\ passed[b][x] \in Tally /\ Zero \in Tally
  BY CountedType, ZeroType
<1>2. shown' \in [Batches -> View]
  <2>1. shown[b] \in View
    BY DEF TypeOK
  <2>2. CASE HasContext(b, x)
    <3>1. result[b][x] \in Outcome
      BY DEF HasResult, Save
    <3>2. Publish(b, x) \in View
      BY <1>1, <2>1, <2>2, <3>1, ViewType DEF Publish, TerminalStatus
    <3> QED BY <3>2 DEF TypeOK, Save
  <2>3. CASE ~HasContext(b, x)
    BY <2>1, <2>3 DEF TypeOK, Save, Publish
  <2> QED BY <2>2, <2>3
<1>3. stage' \in [Batches -> [Samples -> Stage]]
  BY DEF TypeOK, Save, To, Stage
<1>4. saved' \in [Batches -> Tally] /\ passed' \in [Batches -> [Samples -> Tally]]
  BY <1>1 DEF TypeOK, Save
<1>5. faults' \in 0 .. MaxFaults /\ restarts' \in 0 .. MaxRestarts
  BY SchedulerAssumption DEF TypeOK, Save, Fault, bounds
<1> QED BY <1>2, <1>3, <1>4, <1>5 DEF TypeOK, Save

LEMMA SampleStepType ==
  ASSUME TypeOK, HasResult, NEW b \in Batches, NEW x \in Samples, SampleStep(b, x)
  PROVE  TypeOK'
<1>1. CASE Begin(b, x)
  BY <1>1, BeginType
<1>2. CASE Acquired(b, x)
  <2>1. stage' \in [Batches -> [Samples -> Stage]]
    BY <1>2, ToType DEF Acquired, Stage
  <2> QED BY <1>2, <2>1 DEF TypeOK, Acquired, persisted, bounds
<1>3. CASE AcquireFails(b, x) \/ Executed(b, x)
  <2>1. shown' \in [Batches -> View]
    BY <1>3 DEF TypeOK, AcquireFails, Executed
  <2> QED BY <1>3, <2>1, AppendType DEF AcquireFails, Executed, Outcome
<1>4. CASE Stored(b, x)
  <2>1. stage' \in [Batches -> [Samples -> Stage]]
    BY <1>4, ToType DEF Stored, Stage
  <2>2. faults' \in 0 .. MaxFaults /\ restarts' \in 0 .. MaxRestarts
    BY <1>4, SchedulerAssumption DEF TypeOK, Stored, Fault, bounds
  <2>3. rows' \in [Batches -> [Samples -> {"none"} \cup Outcome]]
    <3>1. result[b][x] \in {"none"} \cup Outcome /\ rows \in [Batches -> [Samples -> {"none"} \cup Outcome]]
      BY DEF TypeOK
    <3>2. CASE UNCHANGED rows
      BY <3>1, <3>2
    <3>3. CASE rows' = [rows EXCEPT ![b][x] = result[b][x]]
      BY <3>1, <3>3
    <3> QED BY <1>4, <3>2, <3>3 DEF Stored
  <2> QED BY <1>4, <2>1, <2>2, <2>3 DEF TypeOK, Stored
<1>5. CASE Count(b, x)
  <2>1. stage' \in [Batches -> [Samples -> Stage]]
    BY <1>5, ToType DEF Count, Stage
  <2>2. counts' \in [Batches -> Tally] /\ passed' \in [Batches -> [Samples -> Tally]]
    BY <1>5, CountedType DEF TypeOK, Count
  <2> QED BY <1>5, <2>1, <2>2 DEF TypeOK, Count, persisted, bounds
<1>6. CASE Save(b, x)
  BY <1>6, SaveType
<1>7. CASE CalledBack(b, x)
  <2>1. stage' \in [Batches -> [Samples -> Stage]]
    BY <1>7, ToType DEF CalledBack, Stage
  <2> QED BY <1>7, <2>1 DEF TypeOK, CalledBack, persisted, bounds
<1> QED BY <1>1, <1>2, <1>3, <1>4, <1>5, <1>6, <1>7 DEF SampleStep

\* The requests of a submission, a rerun and a replay.
LEMMA RequestType ==
  ASSUME TypeOK, NEW b \in Batches, NEW b2 \in Batches, NEW st \in Filters
  PROVE  /\ Kinds \in [Samples -> {"none"} \cup Kind]
         /\ request[b] \in [Samples -> {"none"} \cup Kind]
         /\ [x \in Samples |-> IF x \in Selected(b, st) THEN AsExecuted(request[b][x]) ELSE "none"]
              \in [Samples -> {"none"} \cup Kind]
BY SchedulerAssumption DEF TypeOK, AsExecuted, Kind

LEMMA TypeNext ==
  ASSUME TypeOK, HasResult, [Next]_vars
  PROVE  TypeOK'
<1>1. ASSUME NEW b \in Batches, Create(b)
      PROVE  TypeOK'
  BY <1>1, SubmitType, SchedulerAssumption DEF Create
<1>2. ASSUME NEW b \in Batches, RunStep(b)
      PROVE  TypeOK'
  BY <1>2, RunStepType
<1>3. ASSUME NEW b \in Batches, Cancel(b)
      PROVE  TypeOK'
  BY <1>3 DEF TypeOK, Cancel, persisted, bounds
<1>4. ASSUME NEW b \in Batches, Delete(b)
      PROVE  TypeOK'
  BY <1>4, ZeroType DEF TypeOK, Delete, NoSamples, memory, bounds
<1>5. ASSUME NEW b \in Batches, NEW b2 \in Batches, Replay(b, b2)
      PROVE  TypeOK'
  <2>1. request[b] \in [Samples -> {"none"} \cup Kind] /\ callbacks[b] \in SUBSET Samples
    BY DEF TypeOK
  <2> QED BY <1>5, <2>1, SubmitType DEF Replay
<1>6. ASSUME NEW b \in Batches, NEW b2 \in Batches, NEW st \in Filters, Rerun(b, b2, st)
      PROVE  TypeOK'
  BY <1>6, RequestType, SubmitType DEF Rerun
<1>7. ASSUME NEW b \in Batches, NEW x \in Samples, SampleStep(b, x)
      PROVE  TypeOK'
  BY <1>7, SampleStepType
<1>8. CASE Restart
  <2>1. status' \in [Batches -> {"absent"} \cup ActiveStatus \cup TerminalStatus]
    BY <1>8 DEF TypeOK, Restart, TerminalStatus
  <2>2. restarts' \in 0 .. MaxRestarts
    BY <1>8, SchedulerAssumption DEF TypeOK, Restart
  <2>3. /\ counts' \in [Batches -> Tally] /\ passed' \in [Batches -> [Samples -> Tally]]
        /\ shown' \in [Batches -> View]
    BY <1>8, ZeroType, NewViewType DEF Restart, ForgetAll
  <2>4. /\ stage' \in [Batches -> [Samples -> Stage]]
        /\ result' \in [Batches -> [Samples -> {"none"} \cup Outcome]]
    BY <1>8 DEF Restart, ForgetAll, NoSamples, Stage
  <2>5. /\ run' \in [Batches -> {"none", "starting", "running", "closing", "ended", "dead"}]
        /\ cancelled' \in SUBSET Batches /\ finished' \in SUBSET Batches
        /\ final' \in [Batches -> TerminalStatus]
    BY <1>8 DEF Restart, ForgetAll, TerminalStatus
  <2> QED BY <1>8, <2>1, <2>2, <2>3, <2>4, <2>5 DEF TypeOK, Restart
<1>9. CASE UNCHANGED vars
  BY <1>9 DEF TypeOK, vars, persisted, memory, bounds
<1> QED BY <1>1, <1>2, <1>3, <1>4, <1>5, <1>6, <1>7, <1>8, <1>9 DEF Next

-----------------------------------------------------------------------------
(* Results, ownership and orphans *)

LEMMA OtherInit == Init => HasResult /\ Ownership /\ NoOrphanRows /\ ActiveIsOurs
BY DEF Init, NoSamples, HasResult, Ownership, Owned, Quiet, NoOrphanRows, Recorded,
       ActiveIsOurs, ActiveStatus, Outcome

\* What every step of a run_one does: it moves one task that is under way, and
\* a sample row is written in the batch of that task only.
LEMMA SampleStepFacts ==
  ASSUME TypeOK, NEW b \in Batches, NEW x \in Samples, SampleStep(b, x)
  PROVE  /\ stage[b][x] \notin {"none", "ended", "raised"}
         /\ \E st \in Stage \ {"none"} : stage' = [stage EXCEPT ![b][x] = st]
         /\ UNCHANGED <<status, request, run>>
         /\ \A c \in Batches \ {b} : rows'[c] = rows[c]
<1>1. ASSUME NEW res, Append(b, x, res)
      PROVE  /\ \E st \in Stage \ {"none"} : stage' = [stage EXCEPT ![b][x] = st]
             /\ UNCHANGED <<status, request, run, rows>>
  BY <1>1 DEF Append, To, Stage, persisted
<1>2. CASE Begin(b, x)
  BY <1>1, <1>2 DEF Begin, BeginCancelled, BeginEndSession, BeginNoProfile, BeginWork, Enter,
                    To, Stage, persisted
<1>3. CASE AcquireFails(b, x) \/ Executed(b, x)
  BY <1>1, <1>3 DEF AcquireFails, Executed
<1>4. CASE Stored(b, x)
  BY <1>4 DEF Stored, TypeOK, To, Stage
<1>5. CASE Save(b, x)
  BY <1>5 DEF Save, To, Stage
<1>6. CASE Acquired(b, x) \/ Count(b, x) \/ CalledBack(b, x)
  BY <1>6 DEF Acquired, Count, CalledBack, To, Stage, persisted
<1> QED BY <1>2, <1>3, <1>4, <1>5, <1>6 DEF SampleStep

LEMMA SampleStepOwned ==
  ASSUME TypeOK, Ownership, NoOrphanRows, ActiveIsOurs,
         NEW b \in Batches, NEW x \in Samples, SampleStep(b, x)
  PROVE  Ownership' /\ NoOrphanRows' /\ ActiveIsOurs'
<1>1. PICK st \in Stage \ {"none"} : stage' = [stage EXCEPT ![b][x] = st]
  BY SampleStepFacts
<1>2. stage[b][x] \notin {"none", "ended", "raised"} /\ UNCHANGED <<status, request, run>>
  BY SampleStepFacts
<1>3. /\ status[b] \in ActiveStatus /\ run[b] \notin {"none", "starting", "closing"}
      /\ request[b][x] # "none"
  BY <1>2 DEF Ownership, Owned, Quiet
<1>4. Ownership'
  <2> SUFFICES ASSUME NEW c \in Batches PROVE Owned(c)'
    BY DEF Ownership
  <2>1. CASE c = b
    BY <1>1, <1>2, <1>3, <2>1 DEF TypeOK, Ownership, Owned, Quiet
  <2>2. CASE c # b
    <3>1. stage'[c] = stage[c]
      BY <1>1, <2>2 DEF TypeOK
    <3> QED BY <1>2, <3>1 DEF Ownership, Owned, Quiet
  <2> QED BY <2>1, <2>2
<1>5. NoOrphanRows'
  <2>1. \A c \in Batches : status[c] = "absent" => rows'[c] = rows[c]
    BY <1>3, SampleStepFacts DEF ActiveStatus
  <2> QED BY <1>2, <2>1 DEF NoOrphanRows, Recorded
<1> QED BY <1>2, <1>4, <1>5 DEF ActiveIsOurs

LEMMA SampleStepResult ==
  ASSUME TypeOK, HasResult, NEW b \in Batches, NEW x \in Samples, SampleStep(b, x)
  PROVE  HasResult'
<1> SUFFICES ASSUME NEW c \in Batches, NEW y \in Samples,
                    stage'[c][y] \in {"storing", "notifying", "saving"}
             PROVE  result'[c][y] \in Outcome
  BY DEF HasResult
<1>1. ASSUME NEW res \in Outcome, Append(b, x, res)
      PROVE  result'[c][y] \in Outcome
  <2>1. CASE c = b /\ y = x
    BY <1>1, <2>1 DEF Append, TypeOK
  <2>2. CASE ~(c = b /\ y = x)
    BY <1>1, <2>2 DEF Append, To, TypeOK, HasResult
  <2> QED BY <2>1, <2>2
<1>2. CASE BeginCancelled(b, x) \/ BeginEndSession(b, x) \/ BeginNoProfile(b, x)
  BY <1>1, <1>2 DEF BeginCancelled, BeginEndSession, BeginNoProfile, Outcome
<1>3. CASE AcquireFails(b, x) \/ Executed(b, x)
  BY <1>1, <1>3 DEF AcquireFails, Executed, Outcome
<1>4. ASSUME result' = result,
             \E st \in {"acquiring", "executing", "calling", "ended"} :
               stage' = [stage EXCEPT ![b][x] = st]
      PROVE  result'[c][y] \in Outcome
  BY <1>4 DEF TypeOK, HasResult
<1>5. CASE BeginWork(b, x) \/ Acquired(b, x) \/ Save(b, x) \/ CalledBack(b, x)
  BY <1>4, <1>5 DEF BeginWork, Acquired, Save, CalledBack, To
<1>6. CASE Stored(b, x) \/ Count(b, x)
  <2>1. /\ stage[b][x] \in {"storing", "notifying"} /\ result' = result
        /\ \E st \in Stage : stage' = [stage EXCEPT ![b][x] = st]
    BY <1>6 DEF Stored, Count, To, Stage
  <2> QED BY <2>1 DEF TypeOK, HasResult
<1> QED BY <1>2, <1>3, <1>5, <1>6 DEF SampleStep, Begin

\* A step that leaves every task alone leaves their results alone.
LEMMA SameTasksResult ==
  ASSUME HasResult, UNCHANGED <<stage, result>>
  PROVE  HasResult'
BY DEF HasResult

\* What a step on one batch leaves of the others.
LEMMA OneBatch ==
  ASSUME Ownership, NoOrphanRows, ActiveIsOurs, NEW b \in Batches,
         \A c \in Batches \ {b} : /\ status'[c] = status[c] /\ request'[c] = request[c]
                                  /\ rows'[c] = rows[c] /\ run'[c] = run[c]
                                  /\ stage'[c] = stage[c],
         Owned(b)', status'[b] = "absent" => Recorded(b, Outcome)' = {},
         status'[b] \in ActiveStatus => run'[b] # "none"
  PROVE  Ownership' /\ NoOrphanRows' /\ ActiveIsOurs'
<1>1. Ownership'
  <2> SUFFICES ASSUME NEW c \in Batches, c # b PROVE Owned(c)'
    BY DEF Ownership
  <2> QED BY DEF Ownership, Owned, Quiet
<1>2. NoOrphanRows'
  BY DEF NoOrphanRows, Recorded
<1>3. ActiveIsOurs'
  BY DEF ActiveIsOurs
<1> QED BY <1>1, <1>2, <1>3

LEMMA SubmitOwned ==
  ASSUME IInv, NEW b \in Batches, NEW req \in [Samples -> {"none"} \cup Kind],
         NEW hooks, Submit(b, req, hooks)
  PROVE  HasResult' /\ Ownership' /\ NoOrphanRows' /\ ActiveIsOurs'
<1>1. HasResult'
  BY SameTasksResult DEF Submit, IInv
<1>2. /\ status'[b] = "queued" /\ run'[b] = "starting"
      /\ \A x \in Samples : stage'[b][x] = "none"
  BY DEF Submit, IInv, TypeOK, Ownership, Owned
<1>3. Owned(b)'
  BY <1>2 DEF Owned, Quiet, ActiveStatus
<1>4. \A c \in Batches \ {b} : /\ status'[c] = status[c] /\ request'[c] = request[c]
                               /\ rows'[c] = rows[c] /\ run'[c] = run[c]
                               /\ stage'[c] = stage[c]
  BY DEF Submit, IInv, TypeOK
<1> QED BY <1>1, <1>2, <1>3, <1>4, OneBatch DEF IInv

\* The _run task: it ends with all its run_one tasks ended, or the batch stays active.
LEMMA RunStepOwned ==
  ASSUME IInv, NEW b \in Batches, RunStep(b)
  PROVE  HasResult' /\ Ownership' /\ NoOrphanRows' /\ ActiveIsOurs'
<1> USE DEF IInv
<1>1. \A c \in Batches \ {b} : /\ status'[c] = status[c] /\ request'[c] = request[c]
                               /\ rows'[c] = rows[c] /\ run'[c] = run[c]
                               /\ stage'[c] = stage[c]
  BY DEF TypeOK, RunStep, StartRun, StartFails, Gather, FinishRun, Abort, Close, persisted
<1>2. HasResult'
  <2>1. CASE StartRun(b)
    BY <2>1 DEF StartRun, TypeOK, HasResult
  <2>2. CASE StartFails(b) \/ Gather(b) \/ FinishRun(b) \/ Abort(b)
    BY <2>2, SameTasksResult DEF StartFails, Gather, FinishRun, Abort, Close
  <2> QED BY <2>1, <2>2 DEF RunStep
<1>3. Owned(b)' /\ status'[b] # "absent" /\ run'[b] # "none"
  <2>1. CASE StartRun(b)
    <3>1. /\ status'[b] = "running" /\ run'[b] = "running"
          /\ \A x \in Samples : request'[b][x] = "none" => stage'[b][x] = "none"
      BY <2>1 DEF StartRun, TypeOK, Chosen
    <3> QED BY <3>1 DEF Owned, ActiveStatus
  <2>2. CASE StartFails(b)
    <3>1. /\ status'[b] \in ActiveStatus /\ run'[b] = "dead"
          /\ UNCHANGED <<stage, request>>
      BY <2>2 DEF StartFails, TypeOK
    <3> QED BY <3>1 DEF Ownership, Owned, ActiveStatus
  <2>3. CASE Gather(b)
    <3>1. Quiet(b)
      BY <2>3 DEF Gather, Chosen, Quiet, Ownership, Owned
    <3>2. run'[b] = "closing" /\ UNCHANGED <<status, stage, request>> /\ status[b] \in ActiveStatus
      BY <2>3 DEF Gather, TypeOK, persisted, Ownership, Owned
    <3> QED BY <3>1, <3>2 DEF Owned, Quiet, ActiveStatus
  <2>4. CASE FinishRun(b)
    <3>1. Quiet(b) /\ status[b] \in ActiveStatus
      BY <2>4 DEF FinishRun, Ownership, Owned
    <3>2. /\ run'[b] = "ended" /\ UNCHANGED <<stage, request>>
          /\ status'[b] \in TerminalStatus \/ status'[b] = status[b]
      BY <2>4 DEF FinishRun, Close, TypeOK
    <3> QED BY <3>1, <3>2 DEF Owned, Quiet, ActiveStatus, TerminalStatus
  <2>5. CASE Abort(b)
    <3>1. run[b] = "running" /\ run'[b] = "ended" /\ UNCHANGED <<status, stage, request>>
      BY <2>5 DEF Abort, Close, TypeOK
    <3>2. status[b] \in ActiveStatus
      BY <3>1 DEF Ownership, Owned
    <3> QED BY <3>1, <3>2 DEF Ownership, Owned, ActiveStatus
  <2> QED BY <2>1, <2>2, <2>3, <2>4, <2>5 DEF RunStep
<1> QED BY <1>1, <1>2, <1>3, OneBatch

LEMMA DeleteOwned ==
  ASSUME IInv, NEW b \in Batches, Delete(b)
  PROVE  HasResult' /\ Ownership' /\ NoOrphanRows' /\ ActiveIsOurs'
<1> USE DEF IInv
<1>1. HasResult'
  BY SameTasksResult DEF Delete, memory
<1>2. Quiet(b) /\ run[b] \notin {"starting", "running", "closing"}
  BY DEF Delete, Ownership, Owned, TerminalStatus, ActiveStatus
<1>3. /\ status'[b] = "absent" /\ UNCHANGED <<run, stage>>
      /\ \A x \in Samples : rows'[b][x] = "none"
  BY DEF Delete, TypeOK, NoSamples, memory
<1>4. Owned(b)' /\ Recorded(b, Outcome)' = {}
  BY <1>2, <1>3 DEF Ownership, Owned, Quiet, Recorded, Outcome
<1>5. \A c \in Batches \ {b} : /\ status'[c] = status[c] /\ request'[c] = request[c]
                               /\ rows'[c] = rows[c] /\ run'[c] = run[c]
                               /\ stage'[c] = stage[c]
  BY DEF Delete, TypeOK, memory
<1> QED BY <1>1, <1>3, <1>4, <1>5, OneBatch DEF ActiveStatus

LEMMA RestartOwned ==
  ASSUME IInv, Restart
  PROVE  HasResult' /\ Ownership' /\ NoOrphanRows' /\ ActiveIsOurs'
<1>1. \A c \in Batches : /\ run'[c] = "none" /\ \A x \in Samples : stage'[c][x] = "none"
                         /\ status'[c] \notin ActiveStatus
                         /\ status'[c] = "absent" => status[c] = "absent"
  BY DEF Restart, ForgetAll, NoSamples, ActiveStatus
<1>2. HasResult'
  BY <1>1 DEF HasResult
<1>3. Ownership'
  BY <1>1 DEF Ownership, Owned, Quiet
<1>4. ActiveIsOurs'
  BY <1>1 DEF ActiveIsOurs
<1>5. NoOrphanRows'
  BY <1>1 DEF Restart, IInv, NoOrphanRows, Recorded
<1> QED BY <1>2, <1>3, <1>4, <1>5

-----------------------------------------------------------------------------
(* The theorems *)

LEMMA InvNext ==
  ASSUME IInv, [Next]_vars
  PROVE  IInv'
<1>1. TypeOK'
  BY TypeNext DEF IInv
<1>2. HasResult' /\ Ownership' /\ NoOrphanRows' /\ ActiveIsOurs'
  <2>1. ASSUME NEW b \in Batches, Create(b)
        PROVE  HasResult' /\ Ownership' /\ NoOrphanRows' /\ ActiveIsOurs'
    BY <2>1, SubmitOwned, SchedulerAssumption DEF Create
  <2>2. ASSUME NEW b \in Batches, RunStep(b)
        PROVE  HasResult' /\ Ownership' /\ NoOrphanRows' /\ ActiveIsOurs'
    BY <2>2, RunStepOwned
  <2>3. ASSUME NEW b \in Batches, Cancel(b)
        PROVE  HasResult' /\ Ownership' /\ NoOrphanRows' /\ ActiveIsOurs'
    BY <2>3 DEF Cancel, persisted, IInv, HasResult, Ownership, Owned, Quiet, NoOrphanRows,
                Recorded, ActiveIsOurs
  <2>4. ASSUME NEW b \in Batches, Delete(b)
        PROVE  HasResult' /\ Ownership' /\ NoOrphanRows' /\ ActiveIsOurs'
    BY <2>4, DeleteOwned
  <2>5. ASSUME NEW b \in Batches, NEW b2 \in Batches, Replay(b, b2)
        PROVE  HasResult' /\ Ownership' /\ NoOrphanRows' /\ ActiveIsOurs'
    <3>1. request[b] \in [Samples -> {"none"} \cup Kind]
      BY DEF IInv, TypeOK
    <3> QED BY <2>5, <3>1, SubmitOwned DEF Replay
  <2>6. ASSUME NEW b \in Batches, NEW b2 \in Batches, NEW st \in Filters, Rerun(b, b2, st)
        PROVE  HasResult' /\ Ownership' /\ NoOrphanRows' /\ ActiveIsOurs'
    BY <2>6, RequestType, SubmitOwned DEF Rerun, IInv
  <2>7. ASSUME NEW b \in Batches, NEW x \in Samples, SampleStep(b, x)
        PROVE  HasResult' /\ Ownership' /\ NoOrphanRows' /\ ActiveIsOurs'
    BY <2>7, SampleStepOwned, SampleStepResult DEF IInv
  <2>8. CASE Restart
    BY <2>8, RestartOwned
  <2>9. CASE UNCHANGED vars
    BY <2>9 DEF vars, persisted, memory, IInv, HasResult, Ownership, Owned, Quiet,
                NoOrphanRows, Recorded, ActiveIsOurs
  <2> QED BY <2>1, <2>2, <2>3, <2>4, <2>5, <2>6, <2>7, <2>8, <2>9 DEF Next
<1> QED BY <1>1, <1>2 DEF IInv

\* The inductive invariant: types, results, and what ties tasks to their row.
THEOREM Invariant == Spec => []IInv
<1>1. Init => IInv
  BY TypeInit, OtherInit DEF IInv
<1>2. IInv /\ [Next]_vars => IInv'
  BY InvNext
<1> QED BY <1>1, <1>2, PTL DEF Spec

\* The types of the scheduler's memory and of its rows never break.
THEOREM TypeCorrect == Spec => []TypeOK
<1>1. IInv => TypeOK
  BY DEF IInv
<1> QED BY <1>1, Invariant, PTL

\* No sample row outlives its batch row or comes after it was deleted
\* (upsert_sample is awaited by tasks whose batch cannot be deleted yet).
THEOREM NoOrphans == Spec => []NoOrphanRows
<1>1. IInv => NoOrphanRows
  BY DEF IInv
<1> QED BY <1>1, Invariant, PTL

\* After any kill and boot, an active batch is one that this process runs.
THEOREM ActiveOurs == Spec => []ActiveIsOurs
<1>1. IInv => ActiveIsOurs
  BY DEF IInv
<1> QED BY <1>1, Invariant, PTL

\* The gate on the status is enough: a rerun or a replay never starts while a
\* sample of its original is under way, whatever failed before.
THEOREM RerunsApart == Spec => RerunsAreSeparate
<1>1. IInv /\ [Next]_vars =>
        [\A b, b2 \in Batches :
           (Replay(b, b2) \/ \E st \in Filters : Rerun(b, b2, st)) => Live(b) = {}]_vars
  <2> SUFFICES ASSUME IInv, NEW b \in Batches, NEW b2 \in Batches,
                      Replay(b, b2) \/ \E st \in Filters : Rerun(b, b2, st)
               PROVE  Live(b) = {}
    OBVIOUS
  <2>1. status[b] \notin ActiveStatus
    BY DEF Replay, Rerun, TerminalStatus, ActiveStatus
  <2> QED BY <2>1 DEF IInv, Ownership, Owned, Quiet, Live
<1> QED BY <1>1, Invariant, PTL DEF Spec, RerunsAreSeparate
=============================================================================
