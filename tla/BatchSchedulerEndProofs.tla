----------------------- MODULE BatchSchedulerEndProofs -----------------------
(***************************************************************************)
(* Proofs about what a batch leaves when it ends (BatchScheduler), for     *)
(* every set of batches, every finite set of samples, any concurrency and  *)
(* any number of kills, without I/O errors: one row per sample, columns    *)
(* that count them, a terminal status that says what they say, no event    *)
(* after the last one, and progress that never goes back.                  *)
(***************************************************************************)
EXTENDS BatchSchedulerProofs, FiniteSetTheorems

\* Tasks whose result is counted, and those whose row is stored.
IsCounted == {"saving", "calling", "ended"}
HasRow == {"notifying"} \cup IsCounted
HasOutcome == {"storing"} \cup HasRow

Good(b) == {x \in Samples : stage[b][x] \in IsCounted /\ result[b][x] = "done"}
Bad(b) == {x \in Samples : stage[b][x] \in IsCounted /\ result[b][x] # "done"}
Idle(b) == \A x \in Samples : stage[b][x] # "saving"
AtMost(s, t) == s.done <= t.done /\ s.failed <= t.failed

\* The counters in memory count the tasks, whatever order they come in: one
\* saves at a time, and it saves what is counted.
CountsMatch(b) ==
  /\ counts[b].done = Cardinality(Good(b))
  /\ counts[b].failed = Cardinality(Bad(b))
  /\ \A x, y \in Samples : stage[b][x] = "saving" /\ stage[b][y] = "saving" => x = y
  /\ \A x \in Samples : stage[b][x] = "saving" => passed[b][x] = counts[b]

\* Without an I/O error no task fails, and the tasks are those of the request.
TasksMatch(b) ==
  /\ run[b] # "dead"
  /\ \A x \in Samples : /\ stage[b][x] # "raised"
                        /\ stage[b][x] \in HasOutcome => result[b][x] \in Outcome
  /\ run[b] \in {"running", "closing", "ended"} /\ status[b] # "absent" =>
       \A x \in Samples : stage[b][x] = "none" <=> request[b][x] = "none"

\* The rows of a batch of this process are those of its tasks.
RowsMatch(b) ==
  run[b] # "none" /\ status[b] # "absent" =>
    /\ \A x \in Samples :
         rows[b][x] = IF stage[b][x] \in HasRow THEN result[b][x] ELSE "none"
    /\ AtMost(saved[b], counts[b])
    /\ Idle(b) => saved[b] = counts[b]

\* Where a batch stands at its end.
EndMatches(b) ==
  /\ run[b] = "ended" => /\ Quiet(b)
                         /\ shown[b].end = final[b]
                         /\ status[b] \in {"absent", final[b]}
  /\ run[b] # "ended" => shown[b].end = "none" /\ b \notin finished
  /\ run[b] \in {"closing", "ended"} =>
       /\ final[b] = "done" => counts[b].failed = 0
       /\ final[b] = "failed" => counts[b].failed # 0

\* FinishedIsComplete of one batch; after a kill it is all that is left of it.
RowsComplete(b) ==
  /\ status[b] \in {"done", "failed"} =>
       /\ Recorded(b, Outcome) = Chosen(b)
       /\ saved[b].done = Cardinality(Recorded(b, {"done"}))
       /\ saved[b].failed = Cardinality(Recorded(b, Failures))
       /\ status[b] = "done" <=> Recorded(b, Failures) = {}
  /\ status[b] = "absent" => saved[b] = Zero

\* ExecutedIsShown of one batch.
ShownMatches(b) ==
  \A x \in Samples :
    stage[b][x] \in {"calling", "ended"} /\ HasContext(b, x) =>
      shown[b].samples[x] = result[b][x]

EndInv(b) ==
  /\ CountsMatch(b)
  /\ TasksMatch(b)
  /\ RowsMatch(b)
  /\ EndMatches(b)
  /\ RowsComplete(b)
  /\ ShownMatches(b)

EndsInv == \A b \in Batches : EndInv(b)
-----------------------------------------------------------------------------
(* Sets of samples *)

LEMMA SamplesFinite ==
  ASSUME NEW S \in SUBSET Samples
  PROVE  IsFiniteSet(S) /\ Cardinality(S) \in Nat
BY SchedulerAssumption, FS_Subset, FS_CardinalityType

\* The chosen samples, when every task has ended, are the good and the bad.
LEMMA SplitCardinality ==
  ASSUME NEW S \in SUBSET Samples, NEW T \in SUBSET Samples, S \cap T = {}
  PROVE  Cardinality(S \cup T) = Cardinality(S) + Cardinality(T)
<1>1. IsFiniteSet(S) /\ IsFiniteSet(T)
  BY SamplesFinite
<1>2. Cardinality(S \cap T) = 0
  BY FS_EmptySet
<1>3. Cardinality(S \cup T) = Cardinality(S) + Cardinality(T) - Cardinality(S \cap T)
  BY <1>1, FS_Union
<1>4. Cardinality(S) \in Nat /\ Cardinality(T) \in Nat
  BY SamplesFinite
<1> QED BY <1>2, <1>3, <1>4

-----------------------------------------------------------------------------
(* What a step leaves alone *)

LEMMA NoFault ==
  ASSUME TypeOK, MaxFaults = 0
  PROVE  ~ (faults < MaxFaults)
BY DEF TypeOK

\* A batch none of whose rows and tasks change.
LEMMA Untouched ==
  ASSUME NEW c \in Batches, EndInv(c),
         status'[c] = status[c], request'[c] = request[c], rows'[c] = rows[c],
         saved'[c] = saved[c], run'[c] = run[c], stage'[c] = stage[c],
         result'[c] = result[c], counts'[c] = counts[c], passed'[c] = passed[c],
         final'[c] = final[c], shown'[c] = shown[c], c \in finished' => c \in finished
  PROVE  EndInv(c)'
<1>1. CountsMatch(c)'
  BY DEF EndInv, CountsMatch, Good, Bad
<1>2. TasksMatch(c)'
  BY DEF EndInv, TasksMatch
<1>3. RowsMatch(c)'
  BY DEF EndInv, RowsMatch, Idle, AtMost
<1>4. EndMatches(c)'
  BY DEF EndInv, EndMatches, Quiet
<1>5. RowsComplete(c)'
  BY DEF EndInv, RowsComplete, Recorded, Chosen
<1>6. ShownMatches(c)'
  BY DEF EndInv, ShownMatches, HasContext
<1> QED BY <1>1, <1>2, <1>3, <1>4, <1>5, <1>6 DEF EndInv
-----------------------------------------------------------------------------
(* Steps of a run_one *)

\* A task under way belongs to a batch that runs.
LEMMA UnderWay ==
  ASSUME IInv, EndsInv, NEW b \in Batches, NEW x \in Samples,
         stage[b][x] \notin {"none", "ended"}
  PROVE  run[b] = "running" /\ status[b] \in ActiveStatus
<1>1. EndInv(b) /\ Owned(b) /\ TypeOK
  BY DEF IInv, EndsInv, Ownership
<1>2. ~Quiet(b)
  BY DEF Quiet
<1> QED BY <1>1, <1>2 DEF EndInv, EndMatches, TasksMatch, Owned, TypeOK

\* A step before the row is stored: only x's task, result and display change.
LEMMA EarlyEnds ==
  ASSUME IInv, EndsInv, NEW b \in Batches, NEW x \in Samples, NEW st \in Stage,
         stage[b][x] \notin {"none", "ended"} \cup HasRow,
         st \notin {"none", "raised"} \cup HasRow,
         stage' = [stage EXCEPT ![b][x] = st],
         st = "storing" => result'[b][x] \in Outcome,
         \A y \in Samples : y # x => result'[b][y] = result[b][y],
         \A y \in Samples : y # x => shown'[b].samples[y] = shown[b].samples[y],
         shown'[b].end = shown[b].end,
         UNCHANGED <<persisted, run, counts, passed, finished, final>>
  PROVE  EndInv(b)'
<1>0. /\ run[b] = "running" /\ status[b] \in ActiveStatus
      /\ EndInv(b) /\ Owned(b) /\ TypeOK
  BY UnderWay DEF IInv, EndsInv, Ownership
<1>1. /\ stage'[b][x] = st /\ \A y \in Samples : y # x => stage'[b][y] = stage[b][y]
      /\ UNCHANGED <<status, request, rows, saved, run>>
  BY <1>0 DEF TypeOK, persisted
<1>2. CountsMatch(b)'
  <2>1. Good(b)' = Good(b) /\ Bad(b)' = Bad(b)
    BY <1>1 DEF Good, Bad, HasRow, IsCounted
  <2> QED BY <1>0, <1>1, <2>1 DEF EndInv, CountsMatch, HasRow, IsCounted
<1>3. TasksMatch(b)'
  BY <1>0, <1>1 DEF EndInv, TasksMatch, HasOutcome, Owned
<1>4. RowsMatch(b)'
  <2>1. Idle(b)' <=> Idle(b)
    BY <1>1 DEF Idle, HasRow, IsCounted
  <2> QED BY <1>0, <1>1, <2>1 DEF EndInv, RowsMatch, AtMost
<1>5. EndMatches(b)'
  BY <1>0, <1>1 DEF EndInv, EndMatches
<1>6. RowsComplete(b)'
  BY <1>0, <1>1 DEF RowsComplete, ActiveStatus
<1>7. ShownMatches(b)'
  BY <1>0, <1>1 DEF EndInv, ShownMatches, HasContext, HasRow, IsCounted
<1> QED BY <1>2, <1>3, <1>4, <1>5, <1>6, <1>7 DEF EndInv

\* The row of x is stored.
LEMMA StoredEnds ==
  ASSUME IInv, EndsInv, MaxFaults = 0, NEW b \in Batches, NEW x \in Samples, Stored(b, x)
  PROVE  EndInv(b)'
<1>0. /\ run[b] = "running" /\ status[b] \in ActiveStatus /\ stage[b][x] = "storing"
      /\ EndInv(b) /\ Owned(b) /\ TypeOK
  BY UnderWay DEF IInv, EndsInv, Ownership, Stored
<1>1. /\ stage'[b][x] = "notifying" /\ \A y \in Samples : y # x => stage'[b][y] = stage[b][y]
      /\ UNCHANGED <<status, request, saved, run, result, counts, passed, finished, final, shown>>
      /\ rows'[b][x] = result[b][x] /\ \A y \in Samples : y # x => rows'[b][y] = rows[b][y]
  BY <1>0, NoFault DEF TypeOK, Stored, To, Fault
<1>2. CountsMatch(b)'
  <2>1. Good(b)' = Good(b) /\ Bad(b)' = Bad(b)
    BY <1>0, <1>1 DEF Good, Bad, IsCounted
  <2> QED BY <1>0, <1>1, <2>1 DEF EndInv, CountsMatch
<1>3. TasksMatch(b)'
  BY <1>0, <1>1 DEF EndInv, TasksMatch, HasOutcome, HasRow
<1>4. RowsMatch(b)'
  <2>1. Idle(b)' <=> Idle(b)
    BY <1>0, <1>1 DEF Idle
  <2> QED BY <1>0, <1>1, <2>1 DEF EndInv, RowsMatch, AtMost, HasRow, IsCounted, ActiveStatus
<1>5. EndMatches(b)'
  BY <1>0, <1>1 DEF EndInv, EndMatches
<1>6. RowsComplete(b)'
  BY <1>0, <1>1 DEF RowsComplete, ActiveStatus
<1>7. ShownMatches(b)'
  BY <1>0, <1>1 DEF EndInv, ShownMatches, HasContext
<1> QED BY <1>2, <1>3, <1>4, <1>5, <1>6, <1>7 DEF EndInv

\* The result of x is counted while no other task saves.
LEMMA CountEnds ==
  ASSUME IInv, EndsInv, NEW b \in Batches, NEW x \in Samples, Count(b, x)
  PROVE  EndInv(b)'
<1>0. /\ run[b] = "running" /\ status[b] \in ActiveStatus /\ stage[b][x] = "notifying"
      /\ EndInv(b) /\ Owned(b) /\ TypeOK
  BY UnderWay DEF IInv, EndsInv, Ownership, Count
<1>1. /\ stage'[b][x] = "saving" /\ \A y \in Samples : y # x => stage'[b][y] = stage[b][y]
      /\ counts'[b] = Counted(b, x) /\ passed'[b][x] = Counted(b, x)
      /\ UNCHANGED <<status, request, rows, saved, run, result, finished, final, shown>>
      /\ Idle(b)
  BY <1>0 DEF TypeOK, Count, To, persisted, Idle
<1>2. counts[b] \in Tally /\ saved[b] \in Tally
  BY <1>0 DEF TypeOK
<1>3. CountsMatch(b)'
  <2>1. CASE result[b][x] = "done"
    <3>1. Good(b)' = Good(b) \cup {x} /\ x \notin Good(b) /\ Bad(b)' = Bad(b)
      BY <1>0, <1>1, <2>1 DEF Good, Bad, IsCounted
    <3>2. Cardinality(Good(b)') = Cardinality(Good(b)) + 1
      BY <3>1, SamplesFinite, FS_AddElement DEF Good
    <3>3. counts'[b].done = counts[b].done + 1 /\ counts'[b].failed = counts[b].failed
      BY <1>1, <1>2, <2>1 DEF Counted, Tally
    <3> QED BY <1>0, <1>1, <3>1, <3>2, <3>3 DEF EndInv, CountsMatch, Idle
  <2>2. CASE result[b][x] # "done"
    <3>1. Bad(b)' = Bad(b) \cup {x} /\ x \notin Bad(b) /\ Good(b)' = Good(b)
      BY <1>0, <1>1, <2>2 DEF Good, Bad, IsCounted
    <3>2. Cardinality(Bad(b)') = Cardinality(Bad(b)) + 1
      BY <3>1, SamplesFinite, FS_AddElement DEF Bad
    <3>3. counts'[b].failed = counts[b].failed + 1 /\ counts'[b].done = counts[b].done
      BY <1>1, <1>2, <2>2 DEF Counted, Tally
    <3> QED BY <1>0, <1>1, <3>1, <3>2, <3>3 DEF EndInv, CountsMatch, Idle
  <2> QED BY <2>1, <2>2
<1>4. TasksMatch(b)'
  BY <1>0, <1>1 DEF EndInv, TasksMatch, HasOutcome, HasRow
<1>5. RowsMatch(b)'
  <2>1. saved[b] = counts[b]
    BY <1>0, <1>1 DEF EndInv, RowsMatch, ActiveStatus
  <2>2. AtMost(saved[b], counts'[b])
    BY <1>1, <1>2, <2>1 DEF AtMost, Counted, Tally
  <2>3. ~Idle(b)'
    BY <1>1 DEF Idle
  <2>4. \A y \in Samples :
          rows[b][y] = IF stage'[b][y] \in HasRow THEN result[b][y] ELSE "none"
    BY <1>0, <1>1 DEF EndInv, RowsMatch, HasRow, IsCounted, ActiveStatus
  <2> QED BY <1>1, <2>2, <2>3, <2>4 DEF RowsMatch, AtMost
<1>6. EndMatches(b)'
  BY <1>0, <1>1 DEF EndInv, EndMatches
<1>7. RowsComplete(b)'
  BY <1>0, <1>1 DEF RowsComplete, ActiveStatus
<1>8. ShownMatches(b)'
  BY <1>0, <1>1 DEF EndInv, ShownMatches, HasContext
<1> QED BY <1>3, <1>4, <1>5, <1>6, <1>7, <1>8 DEF EndInv
\* The columns and the events of x.
LEMMA SaveEnds ==
  ASSUME IInv, EndsInv, MaxFaults = 0, NEW b \in Batches, NEW x \in Samples, Save(b, x)
  PROVE  EndInv(b)'
<1> DEFINE st == IF x \in callbacks[b] THEN "calling" ELSE "ended"
<1>0. /\ run[b] = "running" /\ status[b] \in ActiveStatus /\ stage[b][x] = "saving"
      /\ EndInv(b) /\ Owned(b) /\ TypeOK
  BY UnderWay DEF IInv, EndsInv, Ownership, Save
<1>1. /\ stage'[b][x] \in {"calling", "ended"}
      /\ \A y \in Samples : y # x => stage'[b][y] = stage[b][y]
      /\ \A y \in Samples : y # x => passed'[b][y] = passed[b][y]
      /\ saved'[b] = passed[b][x]
      /\ shown'[b] = Publish(b, x)
      /\ UNCHANGED <<status, request, rows, run, result, counts, finished, final>>
  BY <1>0, NoFault DEF TypeOK, Save, To, Fault
<1>2. /\ passed[b][x] = counts[b]
      /\ \A y \in Samples : y # x => stage[b][y] # "saving"
  BY <1>0 DEF EndInv, CountsMatch
<1>3. CountsMatch(b)'
  <2>1. Good(b)' = Good(b) /\ Bad(b)' = Bad(b)
    BY <1>0, <1>1 DEF Good, Bad, IsCounted
  <2> QED BY <1>0, <1>1, <1>2, <2>1 DEF EndInv, CountsMatch
<1>4. TasksMatch(b)'
  BY <1>0, <1>1 DEF EndInv, TasksMatch, HasOutcome, HasRow, IsCounted
<1>5. RowsMatch(b)'
  <2>1. AtMost(counts[b], counts[b])
    BY <1>0 DEF AtMost, TypeOK, Tally
  <2>2. \A y \in Samples :
          rows[b][y] = IF stage'[b][y] \in HasRow THEN result[b][y] ELSE "none"
    BY <1>0, <1>1 DEF EndInv, RowsMatch, HasRow, IsCounted, ActiveStatus
  <2> QED BY <1>1, <1>2, <2>1, <2>2 DEF RowsMatch, AtMost
<1>6. /\ shown'[b].end = shown[b].end
      /\ \A y \in Samples : y # x => shown'[b].samples[y] = shown[b].samples[y]
      /\ HasContext(b, x) => shown'[b].samples[x] = result[b][x]
  <2>1. shown[b] \in View
    BY <1>0 DEF TypeOK
  <2> QED BY <1>1, <2>1 DEF Publish, View
<1>7. EndMatches(b)'
  BY <1>0, <1>1, <1>6 DEF EndInv, EndMatches
<1>8. RowsComplete(b)'
  BY <1>0, <1>1 DEF RowsComplete, ActiveStatus
<1>9. ShownMatches(b)'
  BY <1>0, <1>1, <1>6 DEF EndInv, ShownMatches, HasContext
<1> QED BY <1>3, <1>4, <1>5, <1>7, <1>8, <1>9 DEF EndInv

\* The webhook of x is over.
LEMMA CalledBackEnds ==
  ASSUME IInv, EndsInv, NEW b \in Batches, NEW x \in Samples, CalledBack(b, x)
  PROVE  EndInv(b)'
<1>0. /\ run[b] = "running" /\ status[b] \in ActiveStatus /\ stage[b][x] = "calling"
      /\ EndInv(b) /\ Owned(b) /\ TypeOK
  BY UnderWay DEF IInv, EndsInv, Ownership, CalledBack
<1>1. /\ stage'[b][x] = "ended" /\ \A y \in Samples : y # x => stage'[b][y] = stage[b][y]
      /\ UNCHANGED <<status, request, rows, saved, run, result, counts, passed, finished,
                     final, shown>>
  BY <1>0 DEF TypeOK, CalledBack, To, persisted
<1>2. CountsMatch(b)'
  <2>1. Good(b)' = Good(b) /\ Bad(b)' = Bad(b)
    BY <1>0, <1>1 DEF Good, Bad, IsCounted
  <2> QED BY <1>0, <1>1, <2>1 DEF EndInv, CountsMatch
<1>3. TasksMatch(b)'
  BY <1>0, <1>1 DEF EndInv, TasksMatch, HasOutcome, HasRow, IsCounted
<1>4. RowsMatch(b)'
  <2>1. Idle(b)' <=> Idle(b)
    BY <1>0, <1>1 DEF Idle
  <2> QED BY <1>0, <1>1, <2>1 DEF EndInv, RowsMatch, AtMost, HasRow, IsCounted
<1>5. EndMatches(b)'
  BY <1>0, <1>1 DEF EndInv, EndMatches
<1>6. RowsComplete(b)'
  BY <1>0, <1>1 DEF RowsComplete, ActiveStatus
<1>7. ShownMatches(b)'
  BY <1>0, <1>1 DEF EndInv, ShownMatches, HasContext
<1> QED BY <1>2, <1>3, <1>4, <1>5, <1>6, <1>7 DEF EndInv

\* writer.append() of a batch that runs, without an I/O error.
LEMMA AppendEnds ==
  ASSUME IInv, EndsInv, MaxFaults = 0, NEW b \in Batches, NEW x \in Samples,
         NEW res \in Outcome, Append(b, x, res),
         stage[b][x] \in {"waiting", "acquiring", "executing"},
         \A y \in Samples : y # x => shown'[b].samples[y] = shown[b].samples[y],
         shown'[b].end = shown[b].end
  PROVE  EndInv(b)'
<1>0. run[b] = "running" /\ TypeOK
  BY UnderWay DEF IInv
<1>1. /\ stage' = [stage EXCEPT ![b][x] = "storing"]
      /\ UNCHANGED <<persisted, run, counts, passed, finished, final>>
  BY <1>0, NoFault DEF Append, To, Fault
<1>2. /\ result'[b][x] = res
      /\ \A y \in Samples : y # x => result'[b][y] = result[b][y]
  BY <1>0 DEF Append, TypeOK
<1>3. "storing" \in Stage \ ({"none", "raised"} \cup HasRow)
  BY DEF Stage, HasRow, IsCounted
<1>4. stage[b][x] \notin {"none", "ended"} \cup HasRow
  BY DEF HasRow, IsCounted
<1> QED BY <1>1, <1>2, <1>3, <1>4, EarlyEnds

LEMMA SampleEnds ==
  ASSUME IInv, EndsInv, MaxFaults = 0, NEW b \in Batches, NEW x \in Samples,
         SampleStep(b, x)
  PROVE  EndInv(b)'
<1>0. TypeOK /\ shown[b] \in View
  BY DEF IInv, TypeOK
<1>1. ASSUME Enter(b, x)
      PROVE  /\ stage[b][x] = "waiting" /\ shown'[b].end = shown[b].end
             /\ \A y \in Samples : y # x => shown'[b].samples[y] = shown[b].samples[y]
  BY <1>0, <1>1 DEF Enter, View, TypeOK
<1>2. CASE BeginCancelled(b, x) \/ BeginEndSession(b, x) \/ BeginNoProfile(b, x)
  BY <1>1, <1>2, AppendEnds DEF BeginCancelled, BeginEndSession, BeginNoProfile, Outcome
<1>3. ASSUME NEW st \in {"acquiring", "executing"},
             stage[b][x] \in {"waiting", "acquiring"},
             stage' = [stage EXCEPT ![b][x] = st],
             \A y \in Samples : y # x => shown'[b].samples[y] = shown[b].samples[y],
             shown'[b].end = shown[b].end,
             UNCHANGED <<persisted, run, result, counts, passed, finished, final>>
      PROVE  EndInv(b)'
  <2>1. st \in Stage /\ st \notin {"none", "raised"} \cup HasRow /\ st # "storing"
    BY DEF Stage, HasRow, IsCounted
  <2>2. stage[b][x] \notin {"none", "ended"} \cup HasRow
    BY <1>3 DEF HasRow, IsCounted
  <2>3. \A y \in Samples : y # x => result'[b][y] = result[b][y]
    BY <1>3
  <2> QED BY <1>3, <2>1, <2>2, <2>3, EarlyEnds
<1>4. CASE BeginWork(b, x)
  BY <1>1, <1>3, <1>4 DEF BeginWork, To
<1>5. CASE Acquired(b, x)
  BY <1>3, <1>5 DEF Acquired, To
<1>6. CASE AcquireFails(b, x)
  BY <1>6, AppendEnds DEF AcquireFails, Outcome
<1>7. CASE Executed(b, x)
  BY <1>7, AppendEnds DEF Executed, Outcome
<1>8. CASE Stored(b, x)
  BY <1>8, StoredEnds
<1>9. CASE Count(b, x)
  BY <1>9, CountEnds
<1>10. CASE Save(b, x)
  BY <1>10, SaveEnds
<1>11. CASE CalledBack(b, x)
  BY <1>11, CalledBackEnds
<1> QED BY <1>2, <1>4, <1>5, <1>6, <1>7, <1>8, <1>9, <1>10, <1>11 DEF SampleStep, Begin
-----------------------------------------------------------------------------
(* Steps of a _run *)

\* gather() schedules the tasks of the request.
LEMMA StartEnds ==
  ASSUME IInv, EndsInv, NEW b \in Batches, StartRun(b)
  PROVE  EndInv(b)'
<1>0. run[b] = "starting" /\ EndInv(b) /\ Owned(b) /\ TypeOK
  BY DEF IInv, EndsInv, Ownership, StartRun
<1>1. /\ run'[b] = "running" /\ status'[b] = "running"
      /\ \A x \in Samples : stage'[b][x] = IF request[b][x] # "none" THEN "waiting" ELSE "none"
      /\ UNCHANGED <<request, rows, saved, result, counts, passed, finished, final, shown>>
  BY <1>0 DEF TypeOK, StartRun, Chosen
<1>2. \A x \in Samples : stage[b][x] = "none" /\ stage'[b][x] \in {"none", "waiting"}
  BY <1>0, <1>1 DEF Owned
<1>3. CountsMatch(b)'
  <2>1. Good(b)' = Good(b) /\ Bad(b)' = Bad(b)
    BY <1>1, <1>2 DEF Good, Bad, IsCounted
  <2> QED BY <1>0, <1>1, <1>2, <2>1 DEF EndInv, CountsMatch
<1>4. TasksMatch(b)'
  BY <1>1, <1>2 DEF TasksMatch, HasOutcome, HasRow, IsCounted
<1>5. RowsMatch(b)'
  <2>1. run[b] # "none" /\ status[b] # "absent"
    BY <1>0 DEF Owned, ActiveStatus
  <2>2. Idle(b) /\ Idle(b)'
    BY <1>2 DEF Idle
  <2> QED BY <1>0, <1>1, <1>2, <2>1, <2>2 DEF EndInv, RowsMatch, AtMost, HasRow, IsCounted
<1>6. EndMatches(b)'
  BY <1>0, <1>1 DEF EndInv, EndMatches
<1>7. RowsComplete(b)'
  BY <1>1 DEF RowsComplete
<1>8. ShownMatches(b)'
  BY <1>2 DEF ShownMatches
<1> QED BY <1>3, <1>4, <1>5, <1>6, <1>7, <1>8 DEF EndInv

\* gather() returns.
LEMMA GatherEnds ==
  ASSUME IInv, EndsInv, NEW b \in Batches, Gather(b)
  PROVE  EndInv(b)'
<1>0. run[b] = "running" /\ EndInv(b) /\ Owned(b) /\ TypeOK /\ status[b] \in ActiveStatus
  BY DEF IInv, EndsInv, Ownership, Gather, Owned
<1>1. /\ run'[b] = "closing" /\ final'[b] = FinalStatus(b)
      /\ UNCHANGED <<status, request, rows, saved, stage, result, counts, passed, finished,
                     shown>>
  BY <1>0 DEF TypeOK, Gather, persisted
<1>2. CountsMatch(b)'
  BY <1>0, <1>1 DEF EndInv, CountsMatch, Good, Bad
<1>3. TasksMatch(b)'
  BY <1>0, <1>1 DEF EndInv, TasksMatch
<1>4. RowsMatch(b)'
  BY <1>0, <1>1 DEF EndInv, RowsMatch, Idle, AtMost
<1>5. EndMatches(b)'
  BY <1>0, <1>1 DEF EndInv, EndMatches, FinalStatus
<1>6. RowsComplete(b)'
  BY <1>0, <1>1 DEF RowsComplete, ActiveStatus
<1>7. ShownMatches(b)'
  BY <1>0, <1>1 DEF EndInv, ShownMatches, HasContext
<1> QED BY <1>2, <1>3, <1>4, <1>5, <1>6, <1>7 DEF EndInv

\* When every task has ended the rows are the results of all chosen samples,
\* and the columns count them.
LEMMA QuietIsComplete ==
  ASSUME TypeOK, NEW b \in Batches, CountsMatch(b), TasksMatch(b), RowsMatch(b), Quiet(b),
         run[b] \in {"closing", "ended"}, status[b] # "absent"
  PROVE  /\ Recorded(b, Outcome) = Chosen(b)
         /\ Recorded(b, {"done"}) = Good(b) /\ Recorded(b, Failures) = Bad(b)
         /\ saved[b].done = Cardinality(Good(b)) /\ saved[b].failed = Cardinality(Bad(b))
         /\ saved[b].done + saved[b].failed = Cardinality(Chosen(b))
<1>1. \A x \in Samples :
        /\ stage[b][x] \in {"none", "ended"}
        /\ stage[b][x] = "none" <=> request[b][x] = "none"
        /\ stage[b][x] = "ended" => result[b][x] \in Outcome /\ rows[b][x] = result[b][x]
        /\ stage[b][x] = "none" => rows[b][x] = "none"
  BY DEF Quiet, TasksMatch, RowsMatch, HasOutcome, HasRow, IsCounted
<1>2. Recorded(b, Outcome) = Chosen(b)
  BY <1>1 DEF Recorded, Chosen, Outcome
<1>3. Recorded(b, {"done"}) = Good(b)
  BY <1>1 DEF Recorded, Good, IsCounted
<1>4. Recorded(b, Failures) = Bad(b)
  BY <1>1 DEF Recorded, Bad, Failures, Outcome, IsCounted
<1>5. saved[b] = counts[b]
  BY <1>1 DEF RowsMatch, Idle
<1>6. Good(b) \cup Bad(b) = Chosen(b) /\ Good(b) \cap Bad(b) = {}
  BY <1>1 DEF Good, Bad, Chosen, IsCounted
<1>7. Cardinality(Chosen(b)) = Cardinality(Good(b)) + Cardinality(Bad(b))
  <2>1. Good(b) \in SUBSET Samples /\ Bad(b) \in SUBSET Samples
    BY DEF Good, Bad
  <2> QED BY <1>6, <2>1, SplitCardinality
<1> QED BY <1>2, <1>3, <1>4, <1>5, <1>7 DEF CountsMatch

\* The final status is written and batch_done is published.
LEMMA FinishEnds ==
  ASSUME IInv, EndsInv, MaxFaults = 0, NEW b \in Batches, FinishRun(b)
  PROVE  EndInv(b)'
<1>0. /\ run[b] = "closing" /\ EndInv(b) /\ Owned(b) /\ TypeOK
      /\ status[b] \in ActiveStatus /\ Quiet(b)
  BY DEF IInv, EndsInv, Ownership, FinishRun, Owned
<1>1. /\ run'[b] = "ended" /\ status'[b] = final[b]
      /\ shown'[b].end = final[b] /\ shown'[b].samples = shown[b].samples
      /\ UNCHANGED <<request, rows, saved, stage, result, counts, passed, final>>
  BY <1>0, NoFault DEF TypeOK, FinishRun, Close, Fault, View
<1>2. CountsMatch(b)'
  BY <1>0, <1>1 DEF EndInv, CountsMatch, Good, Bad
<1>3. TasksMatch(b)'
  BY <1>0, <1>1 DEF EndInv, TasksMatch, ActiveStatus
<1>4. RowsMatch(b)'
  BY <1>0, <1>1 DEF EndInv, RowsMatch, Idle, AtMost, ActiveStatus
<1>5. EndMatches(b)'
  BY <1>0, <1>1 DEF EndInv, EndMatches, Quiet
<1>6. RowsComplete(b)'
  <2>1. final[b] \in TerminalStatus /\ status[b] # "absent"
    BY <1>0 DEF TypeOK, ActiveStatus
  <2>2. /\ Recorded(b, Outcome) = Chosen(b)
        /\ Recorded(b, {"done"}) = Good(b) /\ Recorded(b, Failures) = Bad(b)
        /\ saved[b].done = Cardinality(Good(b)) /\ saved[b].failed = Cardinality(Bad(b))
    BY <1>0, <2>1, QuietIsComplete DEF EndInv
  <2>3. counts[b].failed = 0 <=> Bad(b) = {}
    <3>1. IsFiniteSet(Bad(b))
      BY SamplesFinite DEF Bad
    <3> QED BY <1>0, <3>1, FS_EmptySet DEF EndInv, CountsMatch
  <2>4. final[b] \in {"done", "failed"} => (final[b] = "done" <=> Bad(b) = {})
    BY <1>0, <2>3 DEF EndInv, EndMatches
  <2>5. /\ Recorded(b, Outcome)' = Recorded(b, Outcome) /\ Chosen(b)' = Chosen(b)
        /\ Recorded(b, {"done"})' = Recorded(b, {"done"})
        /\ Recorded(b, Failures)' = Recorded(b, Failures)
    BY <1>1 DEF Recorded, Chosen
  <2> QED BY <1>1, <2>1, <2>2, <2>4, <2>5 DEF RowsComplete, TerminalStatus
<1>7. ShownMatches(b)'
  BY <1>0, <1>1 DEF EndInv, ShownMatches, HasContext
<1> QED BY <1>2, <1>3, <1>4, <1>5, <1>6, <1>7 DEF EndInv

LEMMA RunEnds ==
  ASSUME IInv, EndsInv, MaxFaults = 0, NEW b \in Batches, RunStep(b)
  PROVE  EndInv(b)'
<1>1. ~StartFails(b)
  BY NoFault DEF StartFails, Fault, IInv
<1>2. ~Abort(b)
  BY DEF Abort, Chosen, EndsInv, EndInv, TasksMatch
<1> QED BY <1>1, <1>2, StartEnds, GatherEnds, FinishEnds DEF RunStep
-----------------------------------------------------------------------------
(* Requests about a batch *)

\* A new batch has no rows and no tasks.
LEMMA SubmitEnds ==
  ASSUME IInv, EndsInv, NEW b \in Batches, NEW req, NEW hooks, Submit(b, req, hooks)
  PROVE  EndInv(b)'
<1>0. /\ run[b] = "none" /\ status[b] = "absent" /\ EndInv(b) /\ Owned(b) /\ TypeOK
      /\ Recorded(b, Outcome) = {}
  BY DEF IInv, EndsInv, Ownership, Submit, NoOrphanRows
<1>1. /\ run'[b] = "starting" /\ status'[b] = "queued"
      /\ UNCHANGED <<rows, saved, stage, result, counts, passed, finished, final, shown>>
  BY <1>0 DEF TypeOK, Submit
<1>2. \A x \in Samples : stage[b][x] = "none" /\ rows[b][x] = "none"
  BY <1>0 DEF Owned, Recorded, TypeOK
<1>3. CountsMatch(b)'
  BY <1>0, <1>1 DEF EndInv, CountsMatch, Good, Bad
<1>4. TasksMatch(b)'
  BY <1>0, <1>1 DEF EndInv, TasksMatch
<1>5. RowsMatch(b)'
  <2>1. Good(b) = {} /\ Bad(b) = {}
    BY <1>2 DEF Good, Bad, IsCounted
  <2>2. counts[b].done = 0 /\ counts[b].failed = 0
    BY <1>0, <2>1, FS_EmptySet DEF EndInv, CountsMatch
  <2>3. counts[b] = Zero /\ saved[b] = Zero
    BY <1>0, <2>2 DEF TypeOK, Tally, Zero, EndInv, RowsComplete
  <2> QED BY <1>1, <1>2, <2>3 DEF RowsMatch, AtMost, Zero, HasRow, IsCounted
<1>6. EndMatches(b)'
  BY <1>0, <1>1 DEF EndInv, EndMatches
<1>7. RowsComplete(b)'
  BY <1>1 DEF RowsComplete
<1>8. ShownMatches(b)'
  BY <1>1, <1>2 DEF ShownMatches
<1> QED BY <1>3, <1>4, <1>5, <1>6, <1>7, <1>8 DEF EndInv

\* A deleted batch has no tasks that could write.
LEMMA DeleteEnds ==
  ASSUME IInv, EndsInv, NEW b \in Batches, Delete(b)
  PROVE  EndInv(b)'
<1>0. EndInv(b) /\ TypeOK
  BY DEF IInv, EndsInv
<1>1. /\ status'[b] = "absent" /\ saved'[b] = Zero
      /\ \A x \in Samples : request'[b][x] = "none"
      /\ UNCHANGED <<run, stage, result, counts, passed, finished, final, shown>>
  BY <1>0 DEF TypeOK, Delete, memory, NoSamples
<1>2. CountsMatch(b)'
  BY <1>0, <1>1 DEF EndInv, CountsMatch, Good, Bad
<1>3. TasksMatch(b)'
  BY <1>0, <1>1 DEF EndInv, TasksMatch
<1>4. RowsMatch(b)' /\ RowsComplete(b)'
  BY <1>1 DEF RowsMatch, RowsComplete
<1>5. EndMatches(b)'
  BY <1>0, <1>1 DEF EndInv, EndMatches, Quiet
<1>6. ShownMatches(b)'
  BY <1>1 DEF ShownMatches, HasContext
<1> QED BY <1>2, <1>3, <1>4, <1>5, <1>6 DEF EndInv

\* A kill leaves the rows of a batch as they are; its memory begins anew.
LEMMA RestartEnds ==
  ASSUME IInv, EndsInv, NEW b \in Batches, Restart
  PROVE  EndInv(b)'
<1>0. EndInv(b) /\ TypeOK
  BY DEF IInv, EndsInv
<1>1. /\ status'[b] = IF status[b] \in ActiveStatus THEN "cancelled" ELSE status[b]
      /\ run'[b] = "none" /\ counts'[b] = Zero /\ finished' = {} /\ shown'[b] = NewView
      /\ \A x \in Samples : stage'[b][x] = "none"
      /\ UNCHANGED <<request, rows, saved>>
  BY <1>0 DEF Restart, ForgetAll, NoSamples
<1>2. CountsMatch(b)'
  <2>1. Good(b)' = {} /\ Bad(b)' = {}
    BY <1>1 DEF Good, Bad, IsCounted
  <2> QED BY <1>1, <2>1, FS_EmptySet DEF CountsMatch, Zero
<1>3. TasksMatch(b)'
  BY <1>1 DEF TasksMatch, HasOutcome, HasRow, IsCounted
<1>4. RowsMatch(b)' /\ EndMatches(b)'
  BY <1>1 DEF RowsMatch, EndMatches, NewView
<1>5. RowsComplete(b)'
  BY <1>0, <1>1 DEF EndInv, RowsComplete, Recorded, Chosen, ActiveStatus
<1>6. ShownMatches(b)'
  BY <1>1 DEF ShownMatches
<1> QED BY <1>2, <1>3, <1>4, <1>5, <1>6 DEF EndInv
-----------------------------------------------------------------------------
(* The invariant *)

\* Rows and memory of c are as they were, except who listens for its cancel.
Same(c) ==
  /\ status'[c] = status[c] /\ request'[c] = request[c] /\ rows'[c] = rows[c]
  /\ saved'[c] = saved[c] /\ run'[c] = run[c] /\ stage'[c] = stage[c]
  /\ result'[c] = result[c] /\ counts'[c] = counts[c] /\ passed'[c] = passed[c]
  /\ final'[c] = final[c] /\ shown'[c] = shown[c] /\ (c \in finished' => c \in finished)

\* A step is one of a single batch; a kill is one of all.
LEMMA OthersSame ==
  ASSUME TypeOK, NEW b \in Batches, NEW c \in Batches, c # b,
         \/ \E req, hooks : Submit(b, req, hooks)
         \/ RunStep(b) \/ Cancel(b) \/ Delete(b)
         \/ \E x \in Samples : SampleStep(b, x)
  PROVE  Same(c)
<1>1. ASSUME NEW req, NEW hooks, Submit(b, req, hooks) PROVE Same(c)
  BY <1>1 DEF Submit, Same, TypeOK
<1>2. CASE StartRun(b) \/ StartFails(b)
  BY <1>2 DEF StartRun, StartFails, Same, TypeOK
<1>3. CASE Gather(b)
  BY <1>3 DEF Gather, Same, TypeOK, persisted
<1>4. ASSUME NEW st, Close(b, st), status'[c] = status[c] PROVE Same(c)
  BY <1>4 DEF Close, Same, TypeOK
<1>5. CASE FinishRun(b) \/ Abort(b)
  BY <1>4, <1>5 DEF FinishRun, Abort, TypeOK
<1>6. CASE Cancel(b)
  BY <1>6 DEF Cancel, Same, persisted
<1>7. CASE Delete(b)
  BY <1>7 DEF Delete, Same, TypeOK, memory
<1>8. ASSUME NEW x \in Samples, SampleStep(b, x) PROVE Same(c)
  <2>1. ASSUME NEW res, Append(b, x, res), shown'[c] = shown[c] PROVE Same(c)
    BY <2>1 DEF Append, To, Same, TypeOK, persisted
  <2>2. Enter(b, x) => shown'[c] = shown[c]
    BY DEF Enter, TypeOK
  <2>3. CASE BeginCancelled(b, x) \/ BeginEndSession(b, x) \/ BeginNoProfile(b, x)
    BY <2>1, <2>2, <2>3 DEF BeginCancelled, BeginEndSession, BeginNoProfile
  <2>4. CASE BeginWork(b, x)
    BY <2>2, <2>4 DEF BeginWork, To, Same, TypeOK, persisted
  <2>5. CASE AcquireFails(b, x) \/ Executed(b, x)
    BY <2>1, <2>5 DEF AcquireFails, Executed
  <2>6. CASE Acquired(b, x) \/ CalledBack(b, x)
    BY <2>6 DEF Acquired, CalledBack, To, Same, TypeOK, persisted
  <2>7. CASE Stored(b, x)
    BY <2>7 DEF Stored, To, Same, TypeOK
  <2>8. CASE Count(b, x)
    BY <2>8 DEF Count, To, Same, TypeOK, persisted
  <2>9. CASE Save(b, x)
    BY <2>9 DEF Save, To, Same, TypeOK
  <2> QED BY <1>8, <2>3, <2>4, <2>5, <2>6, <2>7, <2>8, <2>9 DEF SampleStep, Begin
<1> QED BY <1>1, <1>2, <1>3, <1>5, <1>6, <1>7, <1>8 DEF RunStep

\* What a step of a single batch is.
StepOf(b) ==
  \/ \E req, hooks : Submit(b, req, hooks)
  \/ RunStep(b) \/ Cancel(b) \/ Delete(b)
  \/ \E x \in Samples : SampleStep(b, x)

LEMMA NextCases == Next => Restart \/ \E b \in Batches : StepOf(b)
BY DEF Next, StepOf, Create, Replay, Rerun

LEMMA StepEnds ==
  ASSUME IInv, EndsInv, MaxFaults = 0, NEW b \in Batches, StepOf(b)
  PROVE  EndsInv'
<1>1. EndInv(b)'
  <2>1. CASE Cancel(b)
    <3>1. EndInv(b) /\ UNCHANGED <<status, request, rows, saved, run, stage, result, counts,
                                   passed, final, shown, finished>>
      BY <2>1 DEF Cancel, persisted, EndsInv
    <3> QED BY <3>1, Untouched
  <2> QED BY <2>1, SubmitEnds, RunEnds, DeleteEnds, SampleEnds DEF StepOf
<1>2. ASSUME NEW c \in Batches, c # b PROVE EndInv(c)'
  <2>1. EndInv(c) /\ Same(c)
    BY <1>2, OthersSame DEF StepOf, EndsInv, IInv
  <2> QED BY <2>1, Untouched DEF Same
<1> QED BY <1>1, <1>2 DEF EndsInv

LEMMA EndsInit == Init => EndsInv
<1> SUFFICES ASSUME Init, NEW b \in Batches PROVE EndInv(b)
  BY DEF EndsInv
<1>1. CountsMatch(b)
  <2>1. Good(b) = {} /\ Bad(b) = {}
    BY DEF Init, NoSamples, Good, Bad, IsCounted
  <2> QED BY <2>1, FS_EmptySet DEF Init, NoSamples, CountsMatch, Zero
<1>2. TasksMatch(b) /\ RowsMatch(b) /\ EndMatches(b) /\ RowsComplete(b) /\ ShownMatches(b)
  BY DEF Init, NoSamples, NewView, TasksMatch, RowsMatch, EndMatches, RowsComplete,
         ShownMatches, HasOutcome, HasRow, IsCounted
<1> QED BY <1>1, <1>2 DEF EndInv

LEMMA EndsInvariant == ASSUME MaxFaults = 0 PROVE Spec => []EndsInv
<1>1. IInv /\ EndsInv /\ [Next]_vars => EndsInv'
  <2> SUFFICES ASSUME IInv, EndsInv, [Next]_vars PROVE EndsInv'
    OBVIOUS
  <2>1. CASE \E b \in Batches : StepOf(b)
    BY <2>1, StepEnds
  <2>2. CASE Restart
    BY <2>2, RestartEnds DEF EndsInv
  <2>3. CASE UNCHANGED vars
    <3>1. UNCHANGED <<status, request, rows, saved, run, stage, result, counts, passed, final,
                      shown, finished>>
      BY <2>3 DEF vars, persisted, memory
    <3> QED BY <3>1, Untouched DEF EndsInv
  <2> QED BY <2>1, <2>2, <2>3, NextCases
<1> QED BY <1>1, EndsInit, Invariant, PTL DEF Spec
-----------------------------------------------------------------------------
(* The theorems *)

\* Without I/O errors: when the end of a batch is told, its rows, its columns
\* and its status are in the database and agree, and its subscribers have been
\* told of every sample that went to an executor (_run, run_one).
THEOREM EndComplete == ASSUME MaxFaults = 0 PROVE Spec => []EndIsComplete
<1>1. IInv /\ EndsInv => EndIsComplete
  <2> SUFFICES ASSUME IInv, EndsInv PROVE EndIsComplete
    OBVIOUS
  <2>1. FinishedIsComplete
    BY DEF EndsInv, EndInv, RowsComplete, FinishedIsComplete
  <2>2. EndMeansRecorded
    <3> SUFFICES ASSUME NEW b \in finished, status[b] # "absent"
                 PROVE  /\ status[b] = shown[b].end
                        /\ Recorded(b, Outcome) = Chosen(b)
                        /\ saved[b].done + saved[b].failed = Cardinality(Chosen(b))
      BY DEF EndMeansRecorded
    <3>1. b \in Batches /\ TypeOK
      BY DEF IInv, TypeOK
    <3>2. run[b] = "ended" /\ EndInv(b)
      BY <3>1 DEF EndsInv, EndInv, EndMatches
    <3>3. Quiet(b) /\ status[b] = shown[b].end
      BY <3>2 DEF EndInv, EndMatches
    <3> QED BY <3>1, <3>2, <3>3, QuietIsComplete DEF EndInv
  <2>3. ExecutedIsShown
    BY DEF EndsInv, EndInv, ShownMatches, ExecutedIsShown
  <2> QED BY <2>1, <2>2, <2>3 DEF EndIsComplete
<1> QED BY <1>1, Invariant, EndsInvariant, PTL

\* Without I/O errors: batch_done is the last event of a batch, whatever tasks,
\* cancels and deletions come after it.
THEOREM NothingAfter == ASSUME MaxFaults = 0 PROVE Spec => NothingAfterEnd
<1>1. IInv /\ EndsInv /\ [Next]_vars
      => [\A b \in Batches :
            shown[b].end # "none" /\ run'[b] # "none" => shown'[b] = shown[b]]_vars
  <2> SUFFICES ASSUME IInv, EndsInv, Next, NEW b \in Batches, shown[b].end # "none",
                      run'[b] # "none"
               PROVE  shown'[b] = shown[b]
    OBVIOUS
  <2>1. run[b] = "ended" /\ Quiet(b)
    BY DEF EndsInv, EndInv, EndMatches
  <2>2. ASSUME NEW c \in Batches, StepOf(c) PROVE shown'[b] = shown[b]
    <3>1. CASE c # b
      BY <2>2, <3>1, OthersSame DEF StepOf, Same, IInv
    <3>2. CASE c = b
      <4>1. ~RunStep(b)
        BY <2>1 DEF RunStep, StartRun, StartFails, Gather, FinishRun, Abort
      <4>2. \A x \in Samples : ~SampleStep(b, x)
        BY <2>1, SampleStepFacts DEF Quiet, IInv
      <4>3. (\E req, hooks : Submit(b, req, hooks)) \/ Cancel(b) \/ Delete(b)
        BY <2>2, <3>2, <4>1, <4>2 DEF StepOf
      <4> QED BY <4>3 DEF Submit, Cancel, Delete, memory
    <3> QED BY <3>1, <3>2
  <2>3. ~Restart
    BY DEF Restart, ForgetAll
  <2> QED BY <2>2, <2>3, NextCases
<1> QED BY <1>1, Invariant, EndsInvariant, PTL DEF Spec, NothingAfterEnd

\* Without I/O errors: the columns of a batch never go back while its row is
\* there; tasks that finish together save in the order they count.
THEOREM ProgressKept == ASSUME MaxFaults = 0 PROVE Spec => ProgressNeverBack
<1>1. IInv /\ EndsInv /\ [Next]_vars
      => [\A b \in Batches : status'[b] # "absent" =>
            saved'[b].done >= saved[b].done /\ saved'[b].failed >= saved[b].failed]_vars
  <2> SUFFICES ASSUME IInv, EndsInv, Next, NEW b \in Batches, status'[b] # "absent"
               PROVE  saved'[b].done >= saved[b].done /\ saved'[b].failed >= saved[b].failed
    OBVIOUS
  <2>1. TypeOK /\ saved[b] \in Tally
    BY DEF IInv, TypeOK
  <2>2. CASE saved'[b] = saved[b]
    BY <2>1, <2>2 DEF Tally
  <2>3. ASSUME NEW x \in Samples, Save(b, x)
        PROVE  saved'[b].done >= saved[b].done /\ saved'[b].failed >= saved[b].failed
    <3>1. EndInv(b) /\ stage[b][x] = "saving" /\ run[b] = "running" /\ status[b] \in ActiveStatus
      BY <2>3, UnderWay DEF EndsInv, Save
    <3>2. saved'[b] = counts[b]
      BY <2>1, <2>3, <3>1, NoFault DEF Save, Fault, EndInv, CountsMatch, TypeOK
    <3> QED BY <2>1, <3>1, <3>2 DEF EndInv, RowsMatch, AtMost, ActiveStatus, TypeOK, Tally
  <2>4. ASSUME NEW c \in Batches, StepOf(c)
        PROVE  saved'[b] = saved[b] \/ \E x \in Samples : Save(b, x)
    <3>1. CASE c # b
      BY <2>1, <2>4, <3>1, OthersSame DEF StepOf, Same
    <3>2. CASE c = b
      <4>1. ~Delete(b)
        BY <2>1 DEF Delete, TypeOK
      <4>2. (\E req, hooks : Submit(b, req, hooks)) \/ Cancel(b) => saved' = saved
        BY DEF Submit, Cancel, persisted
      <4>3. RunStep(b) => saved' = saved
        BY DEF RunStep, StartRun, StartFails, Gather, FinishRun, Abort, Close, persisted
      <4>4. ASSUME NEW x \in Samples, SampleStep(b, x), ~Save(b, x) PROVE saved' = saved
        BY <4>4 DEF SampleStep, Begin, BeginCancelled, BeginEndSession, BeginNoProfile,
                    BeginWork, Acquired, AcquireFails, Executed, Append, Stored, Count,
                    CalledBack, persisted
      <4> QED BY <2>4, <3>2, <4>1, <4>2, <4>3, <4>4 DEF StepOf
    <3> QED BY <3>1, <3>2
  <2>5. Restart => saved' = saved
    BY DEF Restart
  <2> QED BY <2>2, <2>3, <2>4, <2>5, NextCases
<1> QED BY <1>1, Invariant, EndsInvariant, PTL DEF Spec, ProgressNeverBack
=============================================================================
