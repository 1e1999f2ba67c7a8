----------------------------- MODULE SyncCalls -----------------------------
(***************************************************************************)
(* One synchronous call: POST /v1/chat/completions, /tests/sync or /tests, *)
(* from its checks over the batch of one sample that it submits to the     *)
(* answer. The caller's wait and the sample's attempts have time limits of *)
(* their own; time is in steps of 30 seconds.                              *)
(***************************************************************************)
EXTENDS Naturals, Sequences, SequencesExt

CONSTANTS Bodies,      \* requests: see Body
          MaxQueue,    \* bound: time in the queue for a phone
          MaxCleanUp,  \* bound: time an attempt takes to end that is cut off
          MaxNotice,   \* bound: time of the rules' judge and alerts, with their retries
          MaxCallback  \* bound: time of the retries of the callback URL

\* A body is [to, fault, model, mode, messages, timeout, retry, callback]: fault is
\* None or what its checks refuse; messages are [role, blank]; timeout is 0 for None.
None == "none"
Faults == {"token", "json", "schema", "unsupported"}
WithPhone(body) == body.mode \in {"gui_android", "agent_android"}

VARIABLES body, at,     \* the request, and where its handler stands
          answer,       \* the HTTP status, 0 before there is one
          clock,        \* since the batch was submitted
          run,          \* "none", "queue", "attempt", "cleanup", "save", "notice",
                        \* "callback", "over"
          attempt, since,  \* the attempt, when it or another stage began
          result,       \* how the sample ended
          row,          \* its row: "none", "stored"
          delays        \* history: the stages that took time, other than the first attempt

sample == <<run, attempt, since, result, row, delays>>
syncVars == <<body, at, answer, clock, sample>>

\* extract_last_user_text finds a prompt; an assistant's text is one, too.
HasText(messages) == \E m \in ToSet(messages) : m.role # "system" /\ ~m.blank

\* /tests and /tests/sync leave an unknown profile to the sample.
Refusal(b) ==
  IF b.fault = "token" THEN 401
  ELSE IF b.fault \in Faults THEN IF b.to = "chat" THEN 400 ELSE 422
  ELSE IF b.to # "chat" THEN 0
  ELSE IF b.model = "unknown" THEN 404
  ELSE IF b.model = "malformed" \/ ~HasText(b.messages) THEN 400
  ELSE 0

\* settings.default_api_timeout_sec, default_gui_timeout_sec, and the caller's wait.
Limit(b) == IF b.timeout # 0 THEN b.timeout ELSE IF b.mode = "api" THEN 2 ELSE 6

\* A mutant: no time is added.
WaitBare(b) == IF b.timeout # 0 THEN b.timeout ELSE IF b.mode = "gui_android" THEN 6 ELSE 20
Wait(b) == 1 + (IF b.timeout # 0 THEN b.timeout ELSE IF b.mode = "gui_android" THEN 6 ELSE 20)
-----------------------------------------------------------------------------
(* The handler *)

Refuse ==
  /\ at = "check" /\ Refusal(body) # 0
  /\ at' = "answered" /\ answer' = Refusal(body)
  /\ UNCHANGED <<body, clock, sample>>

\* Its scheduler.submit() starts the batch's task; /tests answers with its id.
Submit ==
  /\ at = "check" /\ Refusal(body) = 0
  /\ IF body.to = "async" THEN at' = "answered" /\ answer' = 202
                          ELSE at' = "wait" /\ UNCHANGED answer
  /\ IF body.model # "known" THEN run' = "save" /\ result' = "failed"
     ELSE run' = (IF WithPhone(body) THEN "queue" ELSE "attempt") /\ UNCHANGED result
  /\ UNCHANGED <<body, clock, attempt, since, row, delays>>

\* wait_done(): the event is set, or wait_for() raises and a 500 is answered.
Woken ==
  /\ at = "wait" /\ run = "over"
  /\ at' = "read"
  /\ UNCHANGED <<body, answer, clock, sample>>

HangUp ==
  /\ at = "wait" /\ clock = Wait(body)
  /\ at' = "answered" /\ answer' = 500
  /\ UNCHANGED <<body, clock, sample>>

\* SyncSampleResultMissingError, a reservation, or the response.
Read ==
  /\ at = "read"
  /\ at' = "answered"
  /\ answer' = IF row = "none" THEN 500 ELSE IF result = "reserved" THEN 429 ELSE 200
  /\ UNCHANGED <<body, clock, sample>>
-----------------------------------------------------------------------------
(* The sample, as BatchScheduler and Executor.run see it *)

Acquire ==
  /\ run = "queue"
  /\ \/ run' = "attempt" /\ since' = clock /\ UNCHANGED result
     \/ run' = "save" /\ result' \in {"reserved", "busy"} /\ UNCHANGED since
  /\ UNCHANGED <<body, at, answer, clock, attempt, row, delays>>

\* Others follow an attempt that failed.
Ended(how) ==
  IF how = "done" \/ attempt > body.retry
  THEN run' = "save" /\ result' = how /\ UNCHANGED <<attempt, since>>
  ELSE run' = "attempt" /\ attempt' = attempt + 1 /\ since' = clock /\ UNCHANGED result

\* An attempt ends, or is cancelled at its limit.
EndAttempt ==
  /\ run = "attempt"
  /\ \/ \E how \in {"done", "failed"} : Ended(how)
     \/ /\ clock - since = Limit(body)
        /\ run' = "cleanup" /\ since' = clock /\ UNCHANGED <<attempt, result>>
  /\ UNCHANGED <<body, at, answer, clock, row, delays>>

\* wait_for() waits for what the cancelled execute() still does, and for its error.
CleanedUp ==
  /\ run = "cleanup"
  /\ \E how \in {"timeout", "failed"} : Ended(how)
  /\ UNCHANGED <<body, at, answer, clock, row, delays>>

\* upsert_sample(), whose error is only logged.
Save ==
  /\ run = "save"
  /\ row' \in {"none", "stored"}
  /\ run' = "notice" /\ since' = clock
  /\ UNCHANGED <<body, at, answer, clock, attempt, result, delays>>

\* _notify_on_sample() and check_duration_anomaly(), which raise nothing; then the
\* callback URL is called.
Notified ==
  /\ run = "notice"
  /\ IF body.callback THEN run' = "callback" /\ since' = clock
                      ELSE run' = "over" /\ UNCHANGED since
  /\ UNCHANGED <<body, at, answer, clock, attempt, result, row, delays>>

CalledBack ==
  /\ run = "callback"
  /\ run' = "over"
  /\ UNCHANGED <<body, at, answer, clock, attempt, since, result, row, delays>>

\* The batch is deleted, as it may once it has ended.
Delete ==
  /\ run = "over" /\ row = "stored" /\ at = "read"
  /\ row' = "none"
  /\ UNCHANGED <<body, at, answer, clock, run, attempt, since, result, delays>>

\* A rule judges, and alerts of, what a phone was used for.
Judged == WithPhone(body) /\ result \in {"done", "failed", "timeout"} /\ body.model = "known"

Bound ==
  [queue |-> MaxQueue, attempt |-> Limit(body), cleanup |-> MaxCleanUp,
   notice |-> IF Judged THEN MaxNotice ELSE 0, callback |-> MaxCallback]

\* Time passes, up to the next limit. Only these stages take longer.
Tick ==
  /\ run \in DOMAIN Bound /\ clock - since < Bound[run]
  /\ at = "wait" => clock < Wait(body)
  /\ clock' = clock + 1
  /\ delays' = delays \cup (IF run = "attempt" /\ attempt = 1 THEN {} ELSE {run})
  /\ UNCHANGED <<body, at, answer, run, attempt, since, result, row>>

Init ==
  /\ body \in Bodies /\ at = "check" /\ answer = 0 /\ clock = 0
  /\ run = "none" /\ attempt = 1 /\ since = 0 /\ result = None /\ row = "none"
  /\ delays = {}

Next ==
  \/ Refuse \/ Submit \/ Woken \/ HangUp \/ Read
  \/ Acquire \/ EndAttempt \/ CleanedUp \/ Save \/ Notified \/ CalledBack \/ Delete \/ Tick

Spec == Init /\ [][Next]_syncVars
-----------------------------------------------------------------------------
\* "We wait slightly longer to absorb executor startup/teardown": a caller is told
\* of an internal failure while its sample goes on only if that took time beyond its
\* first attempt: for a phone, for more attempts, for one that was slow to end, for
\* the judge and the alerts, or for the callback URL.
LeavesOnlyDelayed == answer = 500 /\ run # "over" => delays # {}

\* "A misconfigured webhook can't stall batch progress": no caller leaves for the
\* judge and the alerts alone.  Not so: they are awaited, with their retries.
NoticesStallNobody == answer = 500 /\ run # "over" => delays # {"notice"}
=============================================================================
