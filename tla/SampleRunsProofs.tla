-------------------------- MODULE SampleRunsProofs --------------------------
(***************************************************************************)
(* Proofs about what happens to a sample, part by part, for any profiles,  *)
(* requests, numbers of prompts and attempts, and limits.                  *)
(***************************************************************************)
EXTENDS SampleRuns, FiniteSetTheorems, SequenceTheorems, WellFoundedInduction, TLAPS

\* A step is one of one part, and the others rest.
LEMMA OnePartSteps ==
  ASSUME [SampleNext]_sampleVars
  PROVE  /\ part' = part
         /\ (part = "android" /\ Android!Next) \/ UNCHANGED androidVars
         /\ Detect!Next \/ UNCHANGED detectVars
         /\ Extract!Next \/ UNCHANGED extractVars
         /\ Send!Next \/ UNCHANGED sendVars
         /\ (part = "web" /\ Web!Next) \/ UNCHANGED webVars
         /\ Agent!Next \/ UNCHANGED agentVars
         /\ Screen!Next \/ UNCHANGED screenVars
         /\ Sync!Next \/ UNCHANGED syncVars
<1>1. CASE UNCHANGED sampleVars
  BY <1>1 DEF sampleVars
<1>2. CASE SampleNext
  BY <1>2 DEF SampleNext, AndroidStep, DetectStep, ExtractStep, SendStep, WebStep, AgentStep,
              ScreenStep, SyncStep
<1> QED BY <1>1, <1>2
-----------------------------------------------------------------------------
(* Detection *)

\* What was seen is of now or before, and the time of stability is not older than
\* the page, as long as the page is the one that was seen.
DetectInv ==
  /\ Detect!TypeOK
  /\ last # Detect!Unset => last <= page
  /\ since # Detect!Unset /\ last = page => since0 <= since
  /\ saw => page >= 1
  /\ u2 \/ failures < Threshold

LEMMA DetectStarts == SampleInit => DetectInv
<1> SUFFICES ASSUME Detect!Init PROVE DetectInv
  BY DEF SampleInit
<1>1. u2 \in BOOLEAN /\ triedU2 \in BOOLEAN /\ saw \in BOOLEAN /\ ~saw
  BY DEF Detect!Init
<1>2. failures < Threshold
  BY DetectionAssumption DEF DetectionAssumption, Detect!Init
<1> QED BY <1>1, <1>2, DetectionAssumption
        DEF DetectionAssumption, DetectInv, Detect!Init, Detect!TypeOK, Detect!Unset

\* A page judged stable has been seen twice alike, StableSec apart.
LEMMA JudgeIsRight ==
  ASSUME DetectInv, Detect!Polling, Detect!Judge, UNCHANGED <<clock, page, since0>>
  PROVE  /\ last' \in 0 .. LastPage \cup {Detect!Unset} /\ since' \in 0 .. clock \cup {Detect!Unset}
         /\ out' \in {"polling", "stable"}
         /\ last' # Detect!Unset => last' <= page
         /\ since' # Detect!Unset /\ last' = page => since0 <= since'
         /\ out' = "stable" => clock - since0 >= StableSec
<1> USE DetectionAssumption DEF DetectionAssumption, DetectInv, Detect!TypeOK, Detect!Unset, Detect!Polling
<1>1. CASE page = last
  BY <1>1 DEF Detect!Judge, Detect!Alike
<1>2. CASE page # last
  BY <1>2 DEF Detect!Judge, Detect!Alike
<1> QED BY <1>1, <1>2

\* The invariant is kept, and what the two action properties say of the step holds.
LEMMA DetectNext ==
  ASSUME DetectInv, Detect!Next
  PROVE  /\ DetectInv'
         /\ out' = "stable" /\ out # "stable" /\ kind # "button" =>
              clock - since0 >= StableSec /\ (kind = "dom" => page # 0)
         /\ out' = "stable" /\ out # "stable" /\ kind = "button" => page = LastPage
<1> USE DetectionAssumption DEF DetectionAssumption
<1> DEFINE Told ==
      /\ out' = "stable" /\ out # "stable" /\ kind # "button" =>
           clock - since0 >= StableSec /\ (kind = "dom" => page # 0)
      /\ out' = "stable" /\ out # "stable" /\ kind = "button" => page = LastPage
<1>1. CASE Detect!Grow
  BY <1>1 DEF Detect!Grow, DetectInv, Detect!TypeOK, Detect!Unset, Detect!tree
<1>2. CASE Detect!Tick
  BY <1>2 DEF Detect!Tick, DetectInv, Detect!TypeOK, Detect!Unset, Detect!tree, Detect!world
<1>3. CASE Detect!LookDom
  <2>1. CASE page = 0
    BY <1>3, <2>1 DEF Detect!LookDom, DetectInv, Detect!TypeOK, Detect!Unset, Detect!tree,
                      Detect!world, Detect!Polling
  <2>2. CASE page # 0
    <3>1. Detect!Judge /\ UNCHANGED <<clock, page, since0>> /\ Detect!Polling /\ kind = "dom"
      BY <1>3, <2>2 DEF Detect!LookDom, Detect!world
    <3> QED BY <1>3, <2>2, <3>1, JudgeIsRight
            DEF Detect!LookDom, DetectInv, Detect!TypeOK, Detect!tree, Detect!world
  <2> QED BY <2>1, <2>2
<1>4. CASE Detect!LookPixels
  <2>1. Detect!Judge /\ UNCHANGED <<clock, page, since0>> /\ Detect!Polling /\ kind = "pixel"
    BY <1>4 DEF Detect!LookPixels, Detect!world
  <2> QED BY <1>4, <2>1, JudgeIsRight
          DEF Detect!LookPixels, DetectInv, Detect!TypeOK, Detect!tree, Detect!world
<1>5. CASE Detect!Dump
  <2>1. Detect!Judge /\ UNCHANGED <<clock, page, since0>> /\ Detect!Polling /\ kind = "tree"
    BY <1>5 DEF Detect!Dump, Detect!world
  <2> QED BY <1>5, <2>1, JudgeIsRight
          DEF Detect!Dump, DetectInv, Detect!TypeOK, Detect!ByU2, Detect!world
<1>6. CASE Detect!FailDump
  <2>1. /\ failures' = IF u2 THEN failures ELSE failures + 1
        /\ u2' = (u2 \/ failures' >= Threshold)
        /\ triedU2' = (triedU2 \/ u2)
        /\ UNCHANGED <<kind, page, since0, clock, last, since, xml, saw, out>>
    BY <1>6 DEF Detect!FailDump, Detect!ByU2, Detect!world
  <2>2. u2 \in BOOLEAN /\ triedU2 \in BOOLEAN
    BY DEF DetectInv, Detect!TypeOK
  <2>3. u2' \in BOOLEAN /\ triedU2' \in BOOLEAN
    BY <2>1, <2>2
  <2>4. failures' \in 0 .. Threshold /\ (u2' \/ failures' < Threshold)
    <3>1. CASE u2
      BY <2>1, <3>1 DEF DetectInv, Detect!TypeOK
    <3>2. CASE ~u2
      <4>1. failures' = failures + 1 /\ failures < Threshold
        BY <2>1, <3>2 DEF DetectInv
      <4>2. failures' \in 0 .. Threshold /\ (failures' < Threshold \/ failures' >= Threshold)
        BY <4>1 DEF DetectInv, Detect!TypeOK
      <4>3. failures' >= Threshold => u2'
        BY <2>1
      <4> QED BY <4>2, <4>3
    <3> QED BY <3>1, <3>2
  <2> QED BY <2>1, <2>3, <2>4 DEF DetectInv, Detect!TypeOK, Detect!Unset
<1>7. CASE Detect!LookButton
  BY <1>7 DEF Detect!LookButton, DetectInv, Detect!TypeOK, Detect!Back, Detect!Disabled,
              Detect!tree, Detect!world, Detect!Unset
<1>8. CASE Detect!GiveUp
  BY <1>8 DEF Detect!GiveUp, DetectInv, Detect!TypeOK, Detect!world, Detect!Unset
<1> QED BY <1>1, <1>2, <1>3, <1>4, <1>5, <1>6, <1>7, <1>8 DEF Detect!Next

LEMMA NextDetect == DetectInv /\ [SampleNext]_sampleVars => DetectInv'
<1> SUFFICES ASSUME DetectInv, [SampleNext]_sampleVars PROVE DetectInv'
  OBVIOUS
<1>1. CASE Detect!Next
  BY <1>1, DetectNext
<1>2. CASE UNCHANGED detectVars
  BY <1>2 DEF detectVars, DetectInv, Detect!TypeOK
<1> QED BY <1>1, <1>2, OnePartSteps

\* "stable" is said of a page that stayed as it is for the time asked for, and of a
\* send button when the reply is complete (complete_detector.py): ReadWhenStill.
THEOREM ReadsWhenStill == SampleSpec => ReadWhenStill
<1>1. DetectInv => Detect!TypeOK
  BY DEF DetectInv
<1>2. DetectInv /\ [SampleNext]_sampleVars =>
        /\ [out' = "stable" /\ out # "stable" /\ kind # "button" =>
              clock - since0 >= StableSec /\ (kind = "dom" => page # 0)]_(Detect!detectVars)
        /\ [out' = "stable" /\ out # "stable" /\ kind = "button" => page = LastPage]_(Detect!detectVars)
  <2> SUFFICES ASSUME DetectInv, [SampleNext]_sampleVars, out' # out
               PROVE  /\ out' = "stable" /\ out # "stable" /\ kind # "button" =>
                            clock - since0 >= StableSec /\ (kind = "dom" => page # 0)
                      /\ out' = "stable" /\ out # "stable" /\ kind = "button" => page = LastPage
    OBVIOUS
  <2>1. Detect!Next
    BY OnePartSteps DEF detectVars
  <2> QED BY <2>1, DetectNext
<1> QED BY <1>1, <1>2, DetectStarts, NextDetect, PTL
        DEF SampleSpec, ReadWhenStill, Detect!ReadWhenStill, Detect!StableMeansStill,
            Detect!BackMeansComplete
-----------------------------------------------------------------------------
(* The screen *)

\* A viewer that waits has no process yet, the one registered is a viewer's that
\* watches or ends, and an input the phone carried out is not taken up again.
ScreenInv ==
  /\ view \in [Viewers -> {"away", "open", "kill", "watch", "end", "left"}]
  /\ recorder \in [Viewers -> {"none", "runs", "dead"}]
  /\ victim \in [Viewers -> Viewers \cup {"nobody"}] /\ active \in Viewers \cup {"nobody"}
  /\ does \in [Inputs -> {"new", "look", "u2", "shell", "sent", "error"}]
  /\ done \in [Inputs -> Nat] /\ unsure \in [Inputs -> BOOLEAN]
  /\ warmer \in [connects : Nat, ends : Nat] /\ warming \in BOOLEAN
  /\ \A v \in Viewers : view[v] \notin {"watch", "end"} => recorder[v] # "runs"
  /\ \A i \in Inputs :
       /\ does[i] \in {"new", "look", "u2"} => done[i] = 0
       /\ does[i] = "shell" => done[i] = 0 \/ (done[i] = 1 /\ unsure[i])
       /\ done[i] > 1 => unsure[i] /\ done[i] = 2
  /\ Screen!OneWarmUp

LEMMA ScreenStarts == SampleInit => ScreenInv
<1> SUFFICES ASSUME Screen!Init PROVE ScreenInv
  BY DEF SampleInit
<1>1. unsure \in [Inputs -> BOOLEAN] /\ warming \in BOOLEAN /\ ~warming
  BY DEF Screen!Init
<1>2. Screen!OneWarmUp
  <2>1. warmer.connects + warmer.ends = 0
    BY DEF Screen!Init
  <2> QED BY <1>1, <2>1 DEF Screen!OneWarmUp
<1> QED BY <1>1, <1>2 DEF Screen!Init, ScreenInv, Screen!Nobody

LEMMA ViewerNext ==
  ASSUME ScreenInv, NEW v \in Viewers,
         Screen!Open(v) \/ Screen!Unreachable(v) \/ Screen!Replace(v) \/ Screen!Spawn(v) \/
         Screen!Exit(v) \/ Screen!End(v) \/ Screen!Leave(v)
  PROVE  ScreenInv'
<1> USE ScreenAssumption DEF ScreenInv, Screen!viewing, Screen!typing, Screen!warm, Screen!Nobody,
            Screen!Killed
<1>1. CASE Screen!Open(v) \/ Screen!Unreachable(v)
  BY <1>1 DEF Screen!Open, Screen!Unreachable, Screen!OneWarmUp
<1>2. CASE Screen!Replace(v)
  BY <1>2 DEF Screen!Replace, Screen!OneWarmUp
<1>3. CASE Screen!Spawn(v)
  BY <1>3 DEF Screen!Spawn, Screen!OneWarmUp
<1>4. CASE Screen!Exit(v)
  BY <1>4 DEF Screen!Exit, Screen!OneWarmUp
<1>5. CASE Screen!End(v)
  BY <1>5 DEF Screen!End, Screen!OneWarmUp
<1>6. CASE Screen!Leave(v)
  BY <1>6 DEF Screen!Leave, Screen!OneWarmUp
<1> QED BY <1>1, <1>2, <1>3, <1>4, <1>5, <1>6

LEMMA InputNext ==
  ASSUME ScreenInv, NEW i \in Inputs,
         Screen!Receive(i) \/ Screen!Look(i) \/ Screen!ByU2(i) \/ Screen!ByShell(i)
  PROVE  ScreenInv'
<1> USE DEF ScreenInv, Screen!viewing, Screen!typing, Screen!warm, Screen!To
<1>1. CASE Screen!Receive(i)
  BY <1>1 DEF Screen!Receive, Screen!OneWarmUp
<1>2. CASE Screen!Look(i)
  <2>1. CASE UNCHANGED <<ready, warming, warmer, warmups>>
    BY <1>2, <2>1 DEF Screen!Look, Screen!OneWarmUp
  <2>2. CASE ~UNCHANGED <<ready, warming, warmer, warmups>>
    <3>1. /\ ~warming /\ warming' = TRUE
          /\ warmer' = [warmer EXCEPT !.connects = warmer.connects + 1]
          /\ does[i] = "look" /\ does' = [does EXCEPT ![i] = "shell"]
          /\ UNCHANGED <<view, recorder, victim, active, done, unsure>>
      BY <1>2, <2>2 DEF Screen!Look, Screen!MayWarm
    <3>2. warmer.connects + warmer.ends = 0
      BY <3>1 DEF Screen!OneWarmUp
    <3>3. warmer'.connects + warmer'.ends = 1 /\ warmer' \in [connects : Nat, ends : Nat]
      BY <3>1, <3>2
    <3> QED BY <3>1, <3>3 DEF Screen!OneWarmUp
  <2> QED BY <2>1, <2>2
<1>3. CASE Screen!ByU2(i)
  BY <1>3 DEF Screen!ByU2, Screen!OneWarmUp
<1>4. CASE Screen!ByShell(i)
  BY <1>4 DEF Screen!ByShell, Screen!OneWarmUp
<1> QED BY <1>1, <1>2, <1>3, <1>4

LEMMA WarmerNext == ASSUME ScreenInv, Screen!Warmed \/ Screen!WarmEnd PROVE ScreenInv'
<1> USE DEF ScreenInv, Screen!viewing, Screen!typing, Screen!OneWarmUp
<1>1. CASE Screen!Warmed
  BY <1>1 DEF Screen!Warmed
<1>2. CASE Screen!WarmEnd
  <2>1. warmer' = [warmer EXCEPT !.ends = warmer.ends - 1] /\ warmer.ends > 0
    BY <1>2 DEF Screen!WarmEnd
  <2>2. warmer' \in [connects : Nat, ends : Nat] /\ warmer'.connects + warmer'.ends = 0
    BY <2>1
  <2>3. warming' \in BOOLEAN /\ ~warming'
    BY <1>2 DEF Screen!WarmEnd
  <2>4. UNCHANGED <<view, recorder, victim, active, does, done, unsure>>
    BY <1>2 DEF Screen!WarmEnd
  <2> QED BY <2>2, <2>3, <2>4
<1> QED BY <1>1, <1>2

\* "Replaces any prior stream", "always clears the in-flight flag" (device_stream.py,
\* u2_input.py): viewers leave no process behind, an input arrives twice only in
\* doubt, and there is one warm-up: ScreenIsTidy.
THEOREM ScreenTidy == SampleSpec => []ScreenIsTidy
<1>1. ScreenInv => ScreenIsTidy
  BY DEF ScreenInv, ScreenIsTidy, Screen!ScreenIsTidy, Screen!NoneIsLeftBehind,
         Screen!TappedTwiceInDoubt
<1>2. ScreenInv /\ [SampleNext]_sampleVars => ScreenInv'
  <2> SUFFICES ASSUME ScreenInv, [SampleNext]_sampleVars PROVE ScreenInv'
    OBVIOUS
  <2>1. CASE Screen!Next
    BY <2>1, ViewerNext, InputNext, WarmerNext DEF Screen!Next
  <2>2. CASE UNCHANGED screenVars
    BY <2>2 DEF screenVars, ScreenInv, Screen!OneWarmUp
  <2> QED BY <2>1, <2>2, OnePartSteps
<1> QED BY <1>1, <1>2, ScreenStarts, PTL DEF SampleSpec
-----------------------------------------------------------------------------
(* The synchronous call *)

\* As long as only the first attempt took time, that is no more than it may take.
SyncInv ==
  /\ body \in Bodies /\ handler \in {"check", "wait", "read", "answered"}
  /\ run \in {"none", "queue", "attempt", "cleanup", "save", "notice", "callback", "over"}
  /\ status \in Nat /\ elapsed \in Nat /\ round \in Nat \ {0}
  /\ delays \subseteq {"queue", "attempt", "cleanup", "notice", "callback"}
  /\ status = 500 => handler = "answered"
  /\ handler = "check" => run = "none"
  /\ handler = "wait" => run # "none"
  /\ handler = "read" => run = "over"
  /\ run \in {"none", "queue"} => round = 1
  /\ run = "none" => began = 0
  /\ delays = {} => elapsed <= Sync!Limit(body)
  /\ delays = {} /\ run \in {"none", "queue"} => elapsed = 0
  /\ delays = {} /\ run = "attempt" /\ round = 1 => began = 0
  /\ Sync!LeavesOnlyDelayed

\* The handler gives its sample more time than one attempt has.
LEMMA WaitIsLonger ==
  ASSUME NEW b \in Bodies
  PROVE  Sync!Limit(b) \in Nat /\ Sync!Wait(b) \in Nat /\ Sync!Limit(b) < Sync!Wait(b)
<1>1. b.timeout \in Nat
  BY BodiesAssumption
<1>2. CASE b.timeout # 0
  BY <1>1, <1>2 DEF Sync!Limit, Sync!Wait
<1>3. CASE b.timeout = 0
  BY <1>3 DEF Sync!Limit, Sync!Wait
<1> QED BY <1>2, <1>3

LEMMA SyncStarts == SampleInit => SyncInv
<1> SUFFICES ASSUME Sync!Init PROVE SyncInv
  BY DEF SampleInit
<1>1. Sync!Limit(body) \in Nat
  BY WaitIsLonger DEF Sync!Init
<1> QED BY <1>1 DEF Sync!Init, SyncInv, Sync!LeavesOnlyDelayed

LEMMA SyncNext == ASSUME SyncInv, Sync!Next PROVE SyncInv'
<1>0. /\ Sync!Limit(body) \in Nat /\ Sync!Wait(body) \in Nat
      /\ Sync!Limit(body) < Sync!Wait(body)
  BY WaitIsLonger DEF SyncInv
<1>00. body' = body
  BY DEF Sync!Next, Sync!Refuse, Sync!Submit, Sync!Woken, Sync!HangUp, Sync!Read, Sync!Acquire,
         Sync!EndAttempt, Sync!CleanedUp, Sync!Save, Sync!Notified, Sync!CalledBack, Sync!Delete,
         Sync!Tick
<1>000. (Sync!Limit(body))' = Sync!Limit(body)
  BY <1>00 DEF Sync!Limit
<1> USE <1>000 DEF SyncInv, Sync!LeavesOnlyDelayed, Sync!sample
<1>1. CASE Sync!Refuse
  <2>1. Sync!Refusal(body) \in {0, 400, 401, 404, 422}
    BY DEF Sync!Refusal
  <2> QED BY <1>1, <2>1 DEF Sync!Refuse
<1>2. CASE Sync!Submit
  BY <1>2 DEF Sync!Submit
<1>3. CASE Sync!Woken
  BY <1>3 DEF Sync!Woken
<1>4. CASE Sync!HangUp
  BY <1>0, <1>4 DEF Sync!HangUp
<1>5. CASE Sync!Read
  BY <1>5 DEF Sync!Read
<1>6. CASE Sync!Acquire
  BY <1>6 DEF Sync!Acquire
<1>7. CASE Sync!EndAttempt \/ Sync!CleanedUp
  <2>1. /\ run \in {"attempt", "cleanup"} /\ UNCHANGED <<body, handler, status, elapsed, delays>>
        /\ \/ run' = "save" /\ UNCHANGED round
           \/ run' = "attempt" /\ round' = round + 1
           \/ run' = "cleanup" /\ UNCHANGED round
    BY <1>7 DEF Sync!EndAttempt, Sync!CleanedUp, Sync!Ended
  <2>2. round' \in Nat \ {0} /\ (round' = round + 1 => round' # 1)
    BY <2>1
  <2> QED BY <2>1, <2>2
<1>8. CASE Sync!Save \/ Sync!Notified \/ Sync!CalledBack \/ Sync!Delete
  <2>1. /\ run \in {"save", "notice", "callback", "over"} /\ (run = "over" => run' = "over")
        /\ run' \in {"notice", "callback", "over"}
        /\ UNCHANGED <<body, handler, status, elapsed, round, delays>>
    BY <1>8 DEF Sync!Save, Sync!Notified, Sync!CalledBack, Sync!Delete
  <2> QED BY <2>1
<1>9. CASE Sync!Tick
  <2>1. /\ elapsed' = elapsed + 1 /\ run \in {"queue", "attempt", "cleanup", "notice", "callback"}
        /\ run = "attempt" => elapsed - began < Sync!Limit(body)
        /\ delays' = delays \cup (IF run = "attempt" /\ round = 1 THEN {} ELSE {run})
        /\ UNCHANGED <<body, handler, status, run, round, began, ended, row>>
    BY <1>9 DEF Sync!Tick, Sync!Bound
  <2>2. CASE run = "attempt" /\ round = 1
    <3>1. delays' = delays
      BY <2>1, <2>2
    <3>2. delays = {} => elapsed + 1 <= Sync!Limit(body)
      BY <1>0, <2>1, <2>2
    <3> QED BY <2>1, <2>2, <3>1, <3>2
  <2>3. CASE ~(run = "attempt" /\ round = 1)
    BY <2>1, <2>3
  <2> QED BY <2>2, <2>3
<1> QED BY <1>1, <1>2, <1>3, <1>4, <1>5, <1>6, <1>7, <1>8, <1>9 DEF Sync!Next

\* "We wait slightly longer to absorb executor startup/teardown" (sync_tests.py):
\* whatever time a request asks for, and however slow the phones, the rules and the
\* callback URL are, a caller leaves a sample that goes on only if that took time
\* beyond its first attempt: LeavesOnlyDelayed.
THEOREM CallersStay == SampleSpec => []LeavesOnlyDelayed
<1>1. SyncInv => LeavesOnlyDelayed
  BY DEF SyncInv, LeavesOnlyDelayed
<1>2. SyncInv /\ [SampleNext]_sampleVars => SyncInv'
  <2> SUFFICES ASSUME SyncInv, [SampleNext]_sampleVars PROVE SyncInv'
    OBVIOUS
  <2>1. CASE Sync!Next
    BY <2>1, SyncNext
  <2>2. CASE UNCHANGED syncVars
    BY <2>2 DEF syncVars, SyncInv, Sync!Limit, Sync!LeavesOnlyDelayed
  <2> QED BY <2>1, <2>2, OnePartSteps
<1> QED BY <1>1, <1>2, SyncStarts, PTL DEF SampleSpec
-----------------------------------------------------------------------------
(* The calls to other services *)

\* A post that was taken is the last one, unless an answer left it open; the pauses
\* so far are those of the posts before this one.
SendInv ==
  /\ client \in Clients /\ callAt \in {"post", "judge", "over"}
  /\ post \in 1 .. Send!MaxAttempts /\ taken \in Nat /\ waited \in Nat /\ doubt \in BOOLEAN
  /\ ~doubt => taken <= 1 /\ (callAt = "post" => taken = 0)
  /\ callAt = "judge" /\ ~doubt /\ taken = 1 => answer \in Send!Taking
  /\ callAt = "judge" /\ answer \in Send!Taking => taken > 0
  /\ waited <= (post - 1) * MaxRetryAfter
  /\ Send!SentHasArrived /\ Send!TapIsWhereSaid

LEMMA SendStarts == SampleInit => SendInv
<1> SUFFICES ASSUME Send!Init PROVE SendInv
  BY DEF SampleInit
<1>1. doubt \in BOOLEAN
  BY DEF Send!Init
<1>2. Send!TapIsWhereSaid
  BY DEF Send!Init, Send!TapIsWhereSaid, Send!None
<1> QED BY <1>1, <1>2, CallsAssumption
        DEF CallsAssumption, Send!Init, SendInv, Send!MaxAttempts, Send!SentHasArrived

\* No client posts again what was taken.
LEMMA TakenIsKept == ASSUME client \in Clients, answer \in Send!Taking PROVE ~Send!Retries
BY CallsAssumption
   DEF CallsAssumption, Send!Taking, Send!Retries, Send!Models, Send!ModelRetries,
       Send!AlertRetries, Send!WebhookRetries

\* A pause is not longer than the limit for what a service asks for.
LEMMA PauseIsShort ==
  ASSUME post \in 1 .. Send!MaxAttempts - 1, NEW ask \in Asks \cup {Send!NoAsk}
  PROVE  Send!Pause(ask) \in Nat /\ Send!Pause(ask) <= MaxRetryAfter
<1>1. Send!Backoff[post] \in Nat /\ Send!Backoff[post] <= MaxRetryAfter
  BY CallsAssumption DEF CallsAssumption, Send!Backoff, Send!MaxAttempts
<1> QED BY <1>1, CallsAssumption DEF CallsAssumption, Send!Pause

\* What is said to have arrived was answered as taken.
LEMMA ArrivedIsTaken ==
  ASSUME client \in Clients, NEW flag \in BOOLEAN,
         Send!Result(flag) \in {"ok", "absent", "abnormal", "truncated"}
  PROVE  answer \in Send!Taking
BY CallsAssumption
   DEF CallsAssumption, Send!Result, Send!Models, Send!Taking, Send!TreeResult, Send!ShotResult,
       Send!HtmlResult, Send!EntryResult, Send!PageResult, Send!ButtonResult, Send!AgentResult,
       Send!ApiResult, Send!AlertResult, Send!WebhookResult, Send!WebhookRetries,
       Send!CheckResult, Send!Extracted, Send!Unreached, Send!Denied

\* A place to tap is one that the reply names, x first.
LEMMA PlaceIsSaid ==
  ASSUME NEW r \in Send!Reply, NEW detect \in BOOLEAN
  PROVE  /\ Send!Place(r, detect) \in {Send!None, <<"x", "y">>, <<"dialog x", "dialog y">>}
         /\ Send!Place(r, detect) = <<"x", "y">> => r.object # "found false"
<1>1. Send!InOrder(r.named) = <<"x", "y">>
  BY DEF Send!InOrder, Send!AsNamed, Send!Swapped
<1> QED BY <1>1 DEF Send!Place, Send!Coords, Send!None

LEMMA SendNext == ASSUME SendInv, Send!Next PROVE SendInv'
<1>1. CASE Send!Post
  <2>1. PICK a \in Send!AnswersTo(client), took \in BOOLEAN :
          /\ took = (IF a \in Send!Doubtful THEN took ELSE a \in Send!Taking)
          /\ answer' = a
          /\ taken' = taken + (IF took THEN 1 ELSE 0)
          /\ doubt' = (doubt \/ a \in Send!Doubtful)
    BY <1>1 DEF Send!Post
  <2>2. callAt = "post" /\ callAt' = "judge" /\ UNCHANGED <<client, post, outcome, waited, tap>>
    BY <1>1 DEF Send!Post
  <2>3. doubt' \in BOOLEAN /\ (doubt => doubt') /\ (~doubt' => a \notin Send!Doubtful)
    BY <2>1 DEF SendInv
  <2>4. a \notin Send!Doubtful => (took <=> a \in Send!Taking)
    BY <2>1
  <2>5. a \in Send!Taking => took
    BY <2>4 DEF Send!Doubtful, Send!Taking
  <2>6. taken' \in Nat /\ taken' >= taken /\ taken' <= taken + 1 /\ (taken' > taken <=> took)
    BY <2>1 DEF SendInv
  <2>7. ~doubt' => taken' <= 1 /\ (taken' = 1 => answer' \in Send!Taking)
    BY <2>1, <2>2, <2>3, <2>4, <2>6 DEF SendInv
  <2>8. answer' \in Send!Taking => taken' > 0
    BY <2>1, <2>5, <2>6 DEF SendInv
  <2>9. Send!SentHasArrived' /\ Send!TapIsWhereSaid'
    <3>1. Send!SentHasArrived'
      BY <2>2, <2>6 DEF SendInv, Send!SentHasArrived
    <3>2. Send!TapIsWhereSaid'
      BY <2>2 DEF SendInv, Send!TapIsWhereSaid, Send!None
    <3> QED BY <3>1, <3>2
  <2> QED BY <2>2, <2>3, <2>6, <2>7, <2>8, <2>9 DEF SendInv, Send!MaxAttempts
<1>2. CASE Send!Again
  <2>1. PICK ask \in Asks \cup {Send!NoAsk} : waited' = waited + Send!Pause(ask)
    BY <1>2 DEF Send!Again
  <2>2. /\ callAt = "judge" /\ Send!Retries /\ post' = post + 1 /\ callAt' = "post"
        /\ post \in 1 .. Send!MaxAttempts - 1 /\ post' \in 1 .. Send!MaxAttempts
        /\ UNCHANGED <<client, answer, outcome, taken, doubt, tap>>
    BY <1>2 DEF Send!Again, SendInv, Send!MaxAttempts
  <2>3. Send!Pause(ask) \in Nat /\ Send!Pause(ask) <= MaxRetryAfter
    BY <2>2, PauseIsShort
  <2>4. waited' \in Nat /\ waited' <= (post' - 1) * MaxRetryAfter
    <3>1. waited' \in Nat /\ waited' <= (post - 1) * MaxRetryAfter + MaxRetryAfter
      BY <2>1, <2>3, CallsAssumption DEF CallsAssumption, SendInv, Send!MaxAttempts
    <3>2. post = 1 \/ post = 2
      BY <2>2 DEF Send!MaxAttempts
    <3> QED BY <2>2, <3>1, <3>2, CallsAssumption DEF CallsAssumption
  <2>5. ~doubt => taken = 0
    BY <2>2, TakenIsKept DEF SendInv
  <2> QED BY <2>2, <2>4, <2>5 DEF SendInv, Send!SentHasArrived, Send!TapIsWhereSaid
<1>3. CASE Send!Finish
  <2>1. PICK flag \in BOOLEAN : outcome' = Send!Result(flag)
    BY <1>3 DEF Send!Finish
  <2>2. callAt = "judge" /\ callAt' = "over" /\ UNCHANGED <<client, post, answer, taken, doubt, waited>>
    BY <1>3 DEF Send!Finish
  <2>3. Send!SentHasArrived'
    BY <2>1, <2>2, ArrivedIsTaken DEF SendInv, Send!SentHasArrived
  <2>4. Send!TapIsWhereSaid'
    <3>1. CASE UNCHANGED tap
      BY <3>1 DEF SendInv, Send!TapIsWhereSaid, Send!None
    <3>2. CASE ~UNCHANGED tap
      <4>1. PICK r \in Send!Reply, detect \in BOOLEAN :
              tap' = [place |-> Send!Place(r, detect), of |-> r]
        BY <1>3, <3>2 DEF Send!Finish
      <4> QED BY <4>1, PlaceIsSaid DEF Send!TapIsWhereSaid, Send!None
    <3> QED BY <3>1, <3>2
  <2> QED BY <2>2, <2>3, <2>4 DEF SendInv
<1> QED BY <1>1, <1>2, <1>3 DEF Send!Next

\* "a single miss = a lost alert", "a sample shouldn't hang for minutes on one 429"
\* (dingtalk.py, http_retry.py): what a call reports the service did, nothing is
\* sent twice but in doubt, and pauses are bounded: SendsAreTold.
THEOREM SendsTold == SampleSpec => []SendsAreTold
<1>1. SendInv => SendsAreTold
  <2> SUFFICES ASSUME SendInv PROVE SendsAreTold
    OBVIOUS
  <2>1. Send!TwiceOnlyInDoubt
    BY DEF SendInv, Send!TwiceOnlyInDoubt
  <2>2. Send!PausesAreBounded
    <3>1. post = 1 \/ post = 2 \/ post = 3
      BY DEF SendInv, Send!MaxAttempts
    <3> QED BY <3>1, CallsAssumption
            DEF CallsAssumption, SendInv, Send!PausesAreBounded, Send!MaxAttempts
  <2> QED BY <2>1, <2>2 DEF SendInv, SendsAreTold, Send!SendsAreTold
<1>2. SendInv /\ [SampleNext]_sampleVars => SendInv'
  <2> SUFFICES ASSUME SendInv, [SampleNext]_sampleVars PROVE SendInv'
    OBVIOUS
  <2>1. CASE Send!Next
    BY <2>1, SendNext
  <2>2. CASE UNCHANGED sendVars
    BY <2>2 DEF sendVars, SendInv, Send!SentHasArrived, Send!TapIsWhereSaid
  <2> QED BY <2>1, <2>2, OnePartSteps
<1> QED BY <1>1, <1>2, SendStarts, PTL DEF SampleSpec
-----------------------------------------------------------------------------
(* The agent *)

AgentLoop ==
  [phase : {"off", "see", "act", "check"}, task : {"none", "main", "copy"}, step : Nat,
   word : Agent!Words, seen : {"none", "old", "new"},
   pending : BOOLEAN, ready : BOOLEAN, part : BOOLEAN, sent : BOOLEAN,
   blind : SUBSET {"enter", "other"}]
AgentClip ==
  [text : {"none", "shot", "prompt", "old", "new"}, prompt : 0 .. Tasks,
   phase : {"none", "start", "loop", "clear", "copy", "extract", "failed", "over"}]

\* On a phone, a loop that has sent a text waits for its reply.
LoopIsRight(l) ==
  /\ l \in AgentLoop
  /\ platform = "android" => (l.sent => l.pending)

LoopsAreRight ==
  loop \in [Agent!Tries -> AgentLoop] /\ \A t \in Agent!Tries : LoopIsRight(loop[t])

\* What is on the clipboard while it is read was put there for that.
ClipIsLater ==
  /\ platform \in {"android", "pc"} /\ copies \in BOOLEAN
  /\ agentTry \in Agent!Tries /\ task \in 0 .. Tasks
  /\ agentAt \in {"start", "loop", "clear", "copy", "extract", "failed", "over"}
  /\ agentAt \in {"loop", "clear", "copy", "extract"} => task # 0
  /\ box \in {"empty", "part", "whole"} /\ reply \in {"none", "old", "new"}
  /\ copied \in AgentClip /\ said \in [1 .. Tasks -> AgentClip]
  /\ agentAt = "copy" /\ copied # Agent!Nothing => copied.phase = "copy" /\ copied.prompt = task
  /\ Agent!CopyIsLater

\* In the first attempt of a phone's sample, what stands in the box b is not taken for
\* confirmed by a loop that typed it in part, and none was sent by "enter".
Confirmed(l, b) ==
  agentTry = 1 => "enter" \notin l.blind /\ (l.part /\ b = "part" => ~l.ready)

Guarded(l, b) ==
  /\ l.phase # "off" => l.task = "main"
  /\ agentTry = 1 => "enter" \notin l.blind
  /\ l.phase \notin {"check", "off"} => Confirmed(l, b)

\* A phone's loops look for no copy button, and before another attempt there is one.
PhoneIsAlone ==
  platform = "android" =>
    /\ ~copies /\ agentAt \notin {"clear", "copy"}
    /\ \A t \in Agent!Tries : Guarded(loop[t], box)
    /\ agentTry = 1 => \A t \in Agent!Tries : t # 1 => loop[t].phase = "off"

AgentInv == LoopsAreRight /\ ClipIsLater /\ PhoneIsAlone

LEMMA BegunIsRight ==
  ASSUME NEW kindOf \in {"main", "copy"} PROVE LoopIsRight(Agent!Begun(kindOf))
<1>1. Agent!Idle \in AgentLoop
  BY DEF Agent!Idle, AgentLoop, Agent!Words
<1>2. Agent!Begun(kindOf) \in AgentLoop
  BY <1>1 DEF Agent!Begun, AgentLoop, Agent!Idle
<1>3. ~Agent!Begun(kindOf).sent
  BY DEF Agent!Begun, Agent!Idle
<1> QED BY <1>2, <1>3 DEF LoopIsRight

LEMMA OnwardIsRight == ASSUME NEW l, LoopIsRight(l) PROVE LoopIsRight(Agent!Onward(l))
<1>1. Agent!Idle.word \in Agent!Words
  BY DEF Agent!Idle, Agent!Words
<1>2. Agent!Onward(l) \in AgentLoop
  <2>1. l \in AgentLoop /\ l.step + 1 \in Nat
    BY DEF LoopIsRight, AgentLoop
  <2>2. [l EXCEPT !.step = l.step + 1, !.phase = "see", !.word = Agent!Idle.word, !.seen = "none"]
          \in AgentLoop
    BY <1>1, <2>1 DEF AgentLoop
  <2>3. [l EXCEPT !.phase = "off"] \in AgentLoop
    BY <2>1 DEF AgentLoop
  <2> QED BY <2>2, <2>3 DEF Agent!Onward
<1>3. Agent!Onward(l).sent = l.sent /\ Agent!Onward(l).pending = l.pending
  BY DEF LoopIsRight, Agent!Onward, AgentLoop
<1> QED BY <1>2, <1>3 DEF LoopIsRight

LEMMA OnwardIsGuarded ==
  ASSUME NEW l \in AgentLoop, NEW b, l.task = "main", Confirmed(l, b)
  PROVE  Guarded(Agent!Onward(l), b)
<1>1. /\ Agent!Onward(l).blind = l.blind /\ Agent!Onward(l).part = l.part
      /\ Agent!Onward(l).ready = l.ready /\ Agent!Onward(l).task = l.task
  BY DEF Agent!Onward, AgentLoop
<1> QED BY <1>1 DEF Guarded, Confirmed

\* A loop set to a right one leaves all of them right.
LEMMA SetIsRight ==
  ASSUME AgentInv, NEW t \in Agent!Tries, NEW l, LoopIsRight(l), Agent!Set(t, l),
         UNCHANGED platform
  PROVE  /\ loop' \in [Agent!Tries -> AgentLoop]
         /\ \A u \in Agent!Tries : LoopIsRight(loop'[u])
         /\ \A u \in Agent!Tries : LoopIsRight(loop[u])'
<1>1. loop' \in [Agent!Tries -> AgentLoop] /\ \A u \in Agent!Tries : LoopIsRight(loop'[u])
  BY DEF AgentInv, LoopsAreRight, LoopIsRight, Agent!Set
<1> QED BY <1>1 DEF LoopIsRight, AgentLoop, Agent!Words, Agent!Taps, Agent!Presses, Agent!Names

\* The one loop of a phone may be set to a guarded one.
LEMMA SetIsGuarded ==
  ASSUME AgentInv, NEW t \in Agent!Tries, NEW l \in AgentLoop, Agent!Set(t, l),
         UNCHANGED <<platform, copies, agentTry>>, agentAt' \notin {"clear", "copy"} \/ agentAt' = agentAt,
         platform = "android" =>
           (loop[t].phase # "off" \/ t = agentTry) /\ Guarded(l, box')
  PROVE  PhoneIsAlone'
<1> SUFFICES ASSUME platform = "android" PROVE PhoneIsAlone'
  BY DEF PhoneIsAlone
<1>1. /\ ~copies' /\ agentAt' \notin {"clear", "copy"} /\ agentTry' = agentTry
      /\ \A u \in Agent!Tries : loop'[u] = IF u = t THEN l ELSE loop[u]
      /\ \A u \in Agent!Tries : Guarded(loop[u], box)
      /\ agentTry = 1 => \A u \in Agent!Tries : u # 1 => loop[u].phase = "off"
  BY DEF AgentInv, PhoneIsAlone, LoopsAreRight, Agent!Set
<1>2. agentTry = 1 => t = 1
  BY <1>1
<1>3. ASSUME NEW u \in Agent!Tries, u # t PROVE Guarded(loop[u], box')
  BY <1>1, <1>2, <1>3 DEF Guarded, Confirmed
<1>4. \A u \in Agent!Tries : Guarded(loop'[u], box')
  BY <1>1, <1>3
<1>5. (\A u \in Agent!Tries : Guarded(loop[u], box))'
  BY <1>1, <1>4 DEF Guarded, Confirmed, Agent!Tries
<1>6. agentTry = 1 => \A u \in Agent!Tries : u # 1 => loop'[u].phase = "off"
  BY <1>1, <1>2
<1> QED BY <1>1, <1>5, <1>6 DEF PhoneIsAlone, Agent!Tries

\* Nothing changes for it where the loops and the box do not.
LEMMA PhoneRests ==
  ASSUME AgentInv, UNCHANGED <<platform, copies, loop, box>>, agentTry' \in Agent!Tries,
         agentTry' = 1 => agentTry = 1,
         agentAt' \notin {"clear", "copy"} \/ agentAt' = agentAt \/ copies
  PROVE  PhoneIsAlone'
BY DEF AgentInv, PhoneIsAlone, Guarded, Confirmed, Agent!Tries

LEMMA AgentStarts == SampleInit => AgentInv
<1> SUFFICES ASSUME Agent!Init PROVE AgentInv
  BY DEF SampleInit
<1>1. /\ Agent!Idle \in AgentLoop /\ ~Agent!Idle.sent /\ Agent!Idle.phase = "off"
      /\ ~Agent!Idle.part /\ Agent!Idle.blind = {}
  BY DEF Agent!Idle, AgentLoop, Agent!Words
<1>2. loop \in [Agent!Tries -> AgentLoop] /\ \A t \in Agent!Tries : LoopIsRight(loop[t])
  BY <1>1 DEF Agent!Init, LoopIsRight
<1>3. copies \in BOOLEAN
  BY DEF Agent!Init
<1>4. Agent!Nothing \in AgentClip /\ Agent!Nothing.text = "none"
  BY RunAssumption DEF Agent!Nothing, AgentClip
<1>5. Agent!CopyIsLater
  BY <1>4 DEF Agent!Init, Agent!CopyIsLater
<1>6. PhoneIsAlone
  <2>1. platform = "android" => ~copies
    BY DEF Agent!Init
  <2>2. \A t \in Agent!Tries : loop[t] = Agent!Idle
    BY DEF Agent!Init
  <2> QED BY <1>1, <2>1, <2>2 DEF PhoneIsAlone, Guarded, Confirmed, Agent!Init
<1> QED BY <1>2, <1>3, <1>4, <1>5, <1>6, RunAssumption
        DEF AgentInv, LoopsAreRight, ClipIsLater, Agent!Init, Agent!Tries

LEMMA LoopsRest == ASSUME AgentInv, UNCHANGED <<loop, platform>> PROVE LoopsAreRight'
<1>1. \A t \in Agent!Tries : LoopIsRight(loop[t])'
  BY DEF AgentInv, LoopsAreRight, LoopIsRight, AgentLoop, Agent!Words, Agent!Taps,
         Agent!Presses, Agent!Names
<1>2. loop' \in [Agent!Tries -> AgentLoop]
  BY DEF AgentInv, LoopsAreRight
<1> QED BY <1>1, <1>2 DEF LoopsAreRight, Agent!Tries, AgentLoop, Agent!Words, Agent!Taps,
         Agent!Presses, Agent!Names

LEMMA ClipRests ==
  ASSUME AgentInv, UNCHANGED <<platform, copies, agentTry, task, agentAt, copied, said>>,
         box' \in {"empty", "part", "whole"}, reply' \in {"none", "old", "new"}
  PROVE  ClipIsLater'
BY DEF AgentInv, ClipIsLater, Agent!CopyIsLater, Agent!Tries, Agent!Nothing, AgentClip

LEMMA AgentSeeNext ==
  ASSUME AgentInv, NEW t \in Agent!Tries,
         Agent!See(t) \/ Agent!Finish(t) \/ Agent!Noop(t) \/ Agent!Check(t)
  PROVE  AgentInv'
<1>1. LoopIsRight(loop[t])
  BY DEF AgentInv, LoopsAreRight
<1>0. /\ loop[t] \in AgentLoop
      /\ platform = "android" => Guarded(loop[t], box)
  BY <1>1 DEF LoopIsRight, AgentInv, PhoneIsAlone
<1>2. CASE Agent!See(t)
  <2>1. PICK w \in Agent!Words :
          Agent!Set(t, [loop[t] EXCEPT !.phase = "act", !.word = w, !.seen = reply])
    BY <1>2 DEF Agent!See
  <2> DEFINE l == [loop[t] EXCEPT !.phase = "act", !.word = w, !.seen = reply]
  <2>2. LoopIsRight(l) /\ l \in AgentLoop
    BY <1>1 DEF LoopIsRight, AgentLoop, AgentInv, ClipIsLater
  <2>3. LoopsAreRight'
    BY <1>2, <2>1, <2>2, SetIsRight DEF LoopsAreRight, AgentInv, Agent!See, Agent!Tries
  <2>4. platform = "android" => Guarded(l, box)
    <3>1. loop[t].phase = "see"
      BY <1>2 DEF Agent!See
    <3>2. /\ l.blind = loop[t].blind /\ l.part = loop[t].part /\ l.ready = loop[t].ready
          /\ l.task = loop[t].task
      BY <1>0 DEF AgentLoop
    <3> HIDE DEF l
    <3> QED BY <1>0, <3>1, <3>2 DEF Guarded, Confirmed
  <2>5. PhoneIsAlone'
    BY <1>2, <2>1, <2>2, <2>4, SetIsGuarded DEF Agent!See
  <2> QED BY <1>2, <2>3, <2>5, ClipRests DEF Agent!See, AgentInv, ClipIsLater
<1>3. CASE Agent!Finish(t)
  <2> DEFINE l == [loop[t] EXCEPT !.phase = "off"]
  <2>1. LoopIsRight(l) /\ l \in AgentLoop
    BY <1>1 DEF LoopIsRight, AgentLoop
  <2>2. LoopsAreRight'
    BY <1>3, <2>1, SetIsRight DEF LoopsAreRight, AgentInv, Agent!Finish, Agent!Tries
  <2>3. platform = "android" => Guarded(l, box)
    <3>1. loop[t].phase = "act"
      BY <1>3 DEF Agent!Finish
    <3>2. l.phase = "off" /\ l.blind = loop[t].blind
      BY <1>0 DEF AgentLoop
    <3> HIDE DEF l
    <3> QED BY <1>0, <3>1, <3>2 DEF Guarded, Confirmed
  <2>4. PhoneIsAlone'
    BY <1>3, <2>1, <2>3, SetIsGuarded DEF Agent!Finish
  <2> QED BY <1>3, <2>2, <2>4, ClipRests DEF Agent!Finish, AgentInv, ClipIsLater
<1>4. CASE Agent!Noop(t)
  <2>1. LoopsAreRight'
    BY <1>1, <1>4, OnwardIsRight, SetIsRight DEF LoopsAreRight, AgentInv, Agent!Noop, Agent!Tries
  <2>2. loop[t].phase = "act" /\ Agent!Set(t, Agent!Onward(loop[t]))
        /\ UNCHANGED <<platform, copies, agentTry, agentAt, box>>
    BY <1>4 DEF Agent!Noop
  <2>3. platform = "android" => Guarded(Agent!Onward(loop[t]), box)
    BY <1>0, <2>2, OnwardIsGuarded DEF Guarded
  <2>4. Agent!Onward(loop[t]) \in AgentLoop
    BY <1>1, OnwardIsRight DEF LoopIsRight
  <2>5. PhoneIsAlone'
    BY <2>2, <2>3, <2>4, SetIsGuarded
  <2> QED BY <1>4, <2>1, <2>5, ClipRests DEF Agent!Noop, AgentInv, ClipIsLater
<1>5. CASE Agent!Check(t)
  <2>1. PICK yes \in {FALSE, box = "whole"} :
          Agent!Set(t, Agent!Onward([loop[t] EXCEPT !.ready = yes]))
    BY <1>5 DEF Agent!Check
  <2>2. yes \in BOOLEAN /\ (box = "part" => ~yes)
    OBVIOUS
  <2> DEFINE l == [loop[t] EXCEPT !.ready = yes]
  <2>3. LoopIsRight(l) /\ l \in AgentLoop
    BY <1>1, <2>2 DEF LoopIsRight, AgentLoop
  <2>4. LoopsAreRight'
    BY <1>5, <2>1, <2>3, OnwardIsRight, SetIsRight DEF LoopsAreRight, AgentInv, Agent!Check, Agent!Tries
  <2>5. platform = "android" => Guarded(Agent!Onward(l), box)
    <3>1. loop[t].phase = "check"
      BY <1>5 DEF Agent!Check
    <3>2. l.blind = loop[t].blind /\ l.ready = yes /\ l.task = loop[t].task
      BY <1>0 DEF AgentLoop
    <3>3. platform = "android" => Confirmed(l, box) /\ l.task = "main"
      <4> HIDE DEF l
      <4> QED BY <1>0, <2>2, <3>1, <3>2 DEF Guarded, Confirmed
    <3> HIDE DEF l
    <3> QED BY <2>3, <3>3, OnwardIsGuarded
  <2>6. Agent!Onward(l) \in AgentLoop
    BY <2>3, OnwardIsRight DEF LoopIsRight
  <2>7. PhoneIsAlone'
    <3>1. /\ Agent!Set(t, Agent!Onward(l)) /\ loop[t].phase # "off"
          /\ UNCHANGED <<platform, copies, agentTry, agentAt, box>>
      BY <1>5, <2>1 DEF Agent!Check
    <3> HIDE DEF l
    <3> QED BY <2>5, <2>6, <3>1, SetIsGuarded
  <2> QED BY <1>5, <2>4, <2>7, ClipRests DEF Agent!Check, AgentInv, ClipIsLater
<1> QED BY <1>2, <1>3, <1>4, <1>5

\* What is put on the clipboard bears the prompt and the phase of the moment.
LEMMA ClipIsOfNow ==
  ASSUME AgentInv, UNCHANGED <<platform, copies, agentTry, task, agentAt, said>>,
         box' \in {"empty", "part", "whole"}, reply' \in {"none", "old", "new"},
         NEW words \in {"prompt", "none", "old", "new"},
         copied' = copied \/ copied' = [text |-> words, prompt |-> task, phase |-> agentAt]
  PROVE  ClipIsLater'
<1>1. CASE copied' = copied
  BY <1>1, ClipRests
<1>2. CASE copied' = [text |-> words, prompt |-> task, phase |-> agentAt]
  <2>1. copied' \in AgentClip /\ copied'.phase = agentAt /\ copied'.prompt = task
    BY <1>2 DEF AgentInv, ClipIsLater, AgentClip
  <2> QED BY <2>1 DEF AgentInv, ClipIsLater, Agent!CopyIsLater, Agent!Tries, Agent!Nothing, AgentClip
<1> QED BY <1>1, <1>2

\* Only presses have a key that is Enter's.
LEMMA KeysAreOfPresses ==
  ASSUME NEW w \in Agent!Words
  PROVE  /\ w.key \in {"enter", "other"} <=> w.name \in Agent!Presses
         /\ w.key \in {"none", "enter", "other"}
BY DEF Agent!Words, Agent!Names, Agent!Taps, Agent!Presses

\* On a phone, a tap and "enter" are what the runtime takes for a trigger, and a press
\* of "enter" is refused unless the input was confirmed.
LEMMA PhoneSendsAsSeen ==
  ASSUME NEW l \in AgentLoop, platform = "android", Agent!Sends(l)
  PROVE  /\ l.word.name = "Tap" \/ l.word.key = "enter" => Agent!IsTrigger(l.word)
         /\ l.word.key = "enter" /\ ~Agent!Refused(l) => l.ready
<1>1. Agent!Canonical(l.word.name) = l.word.name
  BY DEF Agent!Canonical
<1>2. l.word.name \in {"Tap", "Double Tap", "Press"}
  BY <1>1 DEF Agent!Sends
<1>3. l.word.key = "enter" => l.word.name = "Press"
  BY <1>2, KeysAreOfPresses DEF AgentLoop, Agent!Presses
<1>4. l.word.name = "Tap" => Agent!Lower(l.word.name) = "tap"
  BY DEF Agent!Lower
<1>5. l.word.name = "Press" => Agent!Lower(l.word.name) = "press"
  BY DEF Agent!Lower
<1> QED BY <1>3, <1>4, <1>5 DEF Agent!IsTrigger, Agent!Refused

LEMMA AgentDoNext == ASSUME AgentInv, NEW t \in Agent!Tries, Agent!Do(t) PROVE AgentInv'
<1> DEFINE l == loop[t]
           after(pending, sent1, blind) ==
             [l EXCEPT !.pending = pending, !.sent = sent1, !.blind = blind]
<1>1. LoopIsRight(l) /\ l \in AgentLoop /\ l.word \in Agent!Words
  BY DEF AgentInv, LoopsAreRight, LoopIsRight, AgentLoop
<1>2. PICK done1 \in BOOLEAN, sends \in BOOLEAN, pending \in BOOLEAN, sent1 \in BOOLEAN,
           blind \in {l.blind, l.blind \cup {l.word.key}} :
        /\ done1 => ~Agent!Refused(l)
        /\ sends <=> done1 /\ Agent!Sends(l)
        /\ pending <=> l.pending \/ Agent!IsTrigger(l.word)
        /\ sent1 <=> l.sent \/ (sends /\ (l.word.name = "Tap" \/ l.word.key = "enter"))
        /\ blind = l.blind \/ (sends /\ Agent!Canonical(l.word.name) = "Press" /\ l.part /\ box = "part")
        /\ Agent!Set(t, Agent!Onward(after(pending, sent1, blind)))
        /\ box' = IF sends THEN "empty" ELSE box
        /\ reply' = IF sends /\ reply = "new" THEN "old" ELSE reply
        /\ copied' = copied \/ copied' = [text |-> reply, prompt |-> task, phase |-> agentAt]
  <2>1. PICK done1 \in BOOLEAN :
          LET s == done1 /\ Agent!Sends(l)
              e == s /\ Agent!Canonical(l.word.name) = "Press"
          IN  /\ done1 => ~Agent!Refused(l)
              /\ Agent!Set(t, Agent!Onward(after(
                   l.pending \/ Agent!IsTrigger(l.word),
                   l.sent \/ (s /\ (l.word.name = "Tap" \/ l.word.key = "enter")),
                   IF e /\ l.part /\ box = "part" THEN l.blind \cup {l.word.key} ELSE l.blind)))
              /\ box' = IF s THEN "empty" ELSE box
              /\ reply' = IF s /\ reply = "new" THEN "old" ELSE reply
              /\ copied' = copied \/ copied' = [text |-> reply, prompt |-> task, phase |-> agentAt]
    BY DEF Agent!Do
  <2> DEFINE s == done1 /\ Agent!Sends(l)
             p == l.pending \/ Agent!IsTrigger(l.word)
             q == l.sent \/ (s /\ (l.word.name = "Tap" \/ l.word.key = "enter"))
             e == s /\ Agent!Canonical(l.word.name) = "Press"
             u == IF e /\ l.part /\ box = "part" THEN l.blind \cup {l.word.key} ELSE l.blind
  <2>2. s \in BOOLEAN /\ p \in BOOLEAN /\ q \in BOOLEAN /\ u \in {l.blind, l.blind \cup {l.word.key}}
    OBVIOUS
  <2>3. /\ done1 => ~Agent!Refused(l)
        /\ Agent!Set(t, Agent!Onward(after(p, q, u)))
        /\ box' = IF s THEN "empty" ELSE box
        /\ reply' = IF s /\ reply = "new" THEN "old" ELSE reply
        /\ copied' = copied \/ copied' = [text |-> reply, prompt |-> task, phase |-> agentAt]
    BY <2>1
  <2>4. u = l.blind \/ (s /\ Agent!Canonical(l.word.name) = "Press" /\ l.part /\ box = "part")
    OBVIOUS
  <2>5. s <=> done1 /\ Agent!Sends(l)
    OBVIOUS
  <2>6. p <=> l.pending \/ Agent!IsTrigger(l.word)
    OBVIOUS
  <2>7. q <=> l.sent \/ (s /\ (l.word.name = "Tap" \/ l.word.key = "enter"))
    OBVIOUS
  <2> HIDE DEF s, p, q, e, u, l, after
  <2> QED BY <2>2, <2>3, <2>4, <2>5, <2>6, <2>7
<1>3. blind \in SUBSET {"enter", "other"}
  <2>1. Agent!Canonical(l.word.name) = "Press" => l.word.name \in Agent!Presses
    BY DEF Agent!Canonical, Agent!PcName, Agent!Presses
  <2>2. blind = l.blind \/ l.word.key \in {"enter", "other"}
    BY <1>1, <1>2, <2>1, KeysAreOfPresses
  <2>3. l.blind \in SUBSET {"enter", "other"}
    BY <1>1 DEF AgentLoop
  <2> QED BY <1>2, <2>2, <2>3
<1> DEFINE m == after(pending, sent1, blind)
<1>4. m \in AgentLoop
  <2> HIDE DEF l
  <2> QED BY <1>1, <1>2, <1>3 DEF AgentLoop
<1>5. /\ m.pending = pending /\ m.sent = sent1 /\ m.blind = blind
      /\ m.part = l.part /\ m.ready = l.ready /\ m.task = l.task
  BY <1>1 DEF AgentLoop
<1>6. LoopIsRight(m)
  <2> HIDE DEF l, m, after
  <2>1. platform = "android" /\ sends /\ (l.word.name = "Tap" \/ l.word.key = "enter")
          => Agent!IsTrigger(l.word)
    BY <1>1, <1>2, PhoneSendsAsSeen
  <2>2. platform = "android" => (l.sent => l.pending)
    BY <1>1 DEF LoopIsRight
  <2>3. platform = "android" => (sent1 => pending)
    BY <1>2, <2>1, <2>2
  <2> QED BY <1>4, <1>5, <2>3 DEF LoopIsRight
<1>7. UNCHANGED <<platform, copies, agentTry, task, agentAt, said>> /\ l.phase = "act"
  BY DEF Agent!Do
<1>8. LoopsAreRight'
  <2> HIDE DEF m, after
  <2>1. Agent!Set(t, Agent!Onward(m))
    BY <1>2 DEF m, after
  <2> QED BY <2>1, <1>6, <1>7, OnwardIsRight, SetIsRight DEF LoopsAreRight, Agent!Tries
<1>9. PhoneIsAlone'
  <2>1. Agent!Set(t, Agent!Onward(m)) /\ l.phase # "off" /\ Agent!Onward(m) \in AgentLoop
    BY <1>2, <1>6, <1>7, OnwardIsRight DEF LoopIsRight
  <2> HIDE DEF m, after
  <2>2. ASSUME platform = "android" PROVE Guarded(Agent!Onward(m), box')
    <3>1. Guarded(l, box)
      BY <2>2 DEF AgentInv, PhoneIsAlone
    <3>2. l.task = "main" /\ Confirmed(l, box)
      BY <1>7, <3>1 DEF Guarded
    <3>3. sends /\ l.word.key = "enter" => l.ready
      BY <1>1, <1>2, <2>2, PhoneSendsAsSeen
    <3>4. agentTry = 1 => "enter" \notin blind
      <4>1. agentTry = 1 /\ l.part /\ box = "part" => ~l.ready
        BY <3>2 DEF Confirmed
      <4>2. agentTry = 1 => "enter" \notin l.blind
        BY <3>2 DEF Confirmed
      <4>3. agentTry = 1 /\ blind # l.blind => l.word.key # "enter"
        BY <1>2, <3>3, <4>1
      <4> QED BY <1>2, <4>2, <4>3
    <3>5. agentTry = 1 /\ l.part /\ box' = "part" => ~l.ready
      BY <1>2, <3>2 DEF Confirmed
    <3>6. Confirmed(m, box')
      BY <1>5, <3>4, <3>5 DEF Confirmed
    <3> QED BY <1>4, <1>5, <3>2, <3>6, OnwardIsGuarded
  <2> QED BY <1>7, <2>1, <2>2, SetIsGuarded
<1>10. /\ box' \in {"empty", "part", "whole"} /\ reply' \in {"none", "old", "new"}
       /\ reply \in {"prompt", "none", "old", "new"}
  BY <1>2 DEF AgentInv, ClipIsLater
<1>11. ClipIsLater'
  BY <1>2, <1>7, <1>10, ClipIsOfNow
<1> QED BY <1>8, <1>9, <1>11 DEF AgentInv

LEMMA AgentTypeNext ==
  ASSUME AgentInv, NEW t \in Agent!Tries, Agent!Type(t) \/ Agent!Break(t) PROVE AgentInv'
<1>1. LoopIsRight(loop[t])
  BY DEF AgentInv, LoopsAreRight
<1>0. loop[t] \in AgentLoop
  BY <1>1 DEF LoopIsRight
<1>2. CASE Agent!Type(t)
  <2>1. PICK part1 \in BOOLEAN, l \in AgentLoop :
          /\ Agent!Set(t, l)
          /\ \/ /\ part1 = (box' = "part") /\ box' \in {"part", "whole"}
                /\ \/ /\ loop[t].task = "main"
                      /\ l = [loop[t] EXCEPT !.phase = "check", !.part = part1]
                   \/ /\ loop[t].task # "main"
                      /\ l = Agent!Onward([loop[t] EXCEPT !.ready = TRUE, !.part = part1])
             \/ box' = box /\ l = Agent!Onward([loop[t] EXCEPT !.ready = FALSE])
          /\ LoopIsRight(l)
    <3> DEFINE p == (box' = "part")
               l1 == [loop[t] EXCEPT !.phase = "check", !.part = p]
               l2 == [loop[t] EXCEPT !.ready = TRUE, !.part = p]
               l3 == [loop[t] EXCEPT !.ready = FALSE]
    <3>1. l1 \in AgentLoop /\ l2 \in AgentLoop /\ l3 \in AgentLoop
      <4>1. p \in BOOLEAN
        OBVIOUS
      <4> HIDE DEF p
      <4> QED BY <1>0, <4>1 DEF AgentLoop
    <3>2. LoopIsRight(l1) /\ LoopIsRight(l2) /\ LoopIsRight(l3)
      BY <1>1, <3>1 DEF LoopIsRight, AgentLoop
    <3>3. /\ LoopIsRight(Agent!Onward(l2)) /\ Agent!Onward(l2) \in AgentLoop
          /\ LoopIsRight(Agent!Onward(l3)) /\ Agent!Onward(l3) \in AgentLoop
      BY <3>2, OnwardIsRight DEF LoopIsRight
    <3>4. CASE Agent!Known(loop[t].word.name) /\ loop[t].task = "main"
      <4>1. Agent!Set(t, l1) /\ box' \in {"part", "whole"}
        BY <1>2, <3>4 DEF Agent!Type
      <4> QED BY <3>1, <3>2, <3>4, <4>1
    <3>5. CASE Agent!Known(loop[t].word.name) /\ loop[t].task # "main"
      <4>1. Agent!Set(t, Agent!Onward(l2)) /\ box' \in {"part", "whole"}
        BY <1>2, <3>5 DEF Agent!Type
      <4> QED BY <3>3, <3>5, <4>1
    <3>6. CASE ~Agent!Known(loop[t].word.name)
      <4>1. Agent!Set(t, Agent!Onward(l3)) /\ box' = box
        BY <1>2, <3>6 DEF Agent!Type
      <4> QED BY <3>3, <4>1
    <3> QED BY <3>4, <3>5, <3>6
  <2>2. /\ UNCHANGED <<platform, copies, agentTry, task, agentAt, reply, said>>
        /\ box' \in {"empty", "part", "whole"} /\ reply' \in {"none", "old", "new"}
        /\ copied' = copied \/ copied' = [text |-> "prompt", prompt |-> task, phase |-> agentAt]
        /\ loop[t].phase = "act"
    BY <1>2 DEF Agent!Type, AgentInv, ClipIsLater
  <2>3. LoopsAreRight'
    BY <2>1, <2>2, SetIsRight DEF LoopsAreRight, Agent!Tries
  <2>4. ASSUME platform = "android" PROVE Guarded(l, box')
    <3>1. Guarded(loop[t], box) /\ loop[t].task = "main" /\ (agentTry = 1 => "enter" \notin loop[t].blind)
      BY <2>2, <2>4 DEF AgentInv, PhoneIsAlone, Guarded
    <3>2. CASE l = [loop[t] EXCEPT !.phase = "check", !.part = part1]
      <4>1. l.phase = "check" /\ l.blind = loop[t].blind /\ l.task = loop[t].task
        BY <1>0, <3>2 DEF AgentLoop
      <4> QED BY <3>1, <4>1 DEF Guarded
    <3>3. CASE l = Agent!Onward([loop[t] EXCEPT !.ready = FALSE])
      <4> DEFINE l3 == [loop[t] EXCEPT !.ready = FALSE]
      <4>1. /\ l3 \in AgentLoop /\ l3.blind = loop[t].blind /\ l3.task = loop[t].task
            /\ l3.ready = FALSE
        BY <1>0 DEF AgentLoop
      <4>2. l = Agent!Onward(l3)
        BY <3>3
      <4> HIDE DEF l3
      <4>3. Confirmed(l3, box')
        BY <3>1, <4>1 DEF Confirmed
      <4> QED BY <3>1, <4>1, <4>2, <4>3, OnwardIsGuarded
    <3> QED BY <2>1, <3>1, <3>2, <3>3
  <2>5. PhoneIsAlone'
    BY <2>1, <2>2, <2>4, SetIsGuarded
  <2>6. ClipIsLater'
    BY <2>2, ClipIsOfNow
  <2> QED BY <2>3, <2>5, <2>6 DEF AgentInv
<1>3. CASE Agent!Break(t)
  <2> DEFINE l == [loop[t] EXCEPT !.phase = "off"]
  <2>1. LoopIsRight(l) /\ l \in AgentLoop
    BY <1>1 DEF LoopIsRight, AgentLoop
  <2>2. LoopsAreRight'
    BY <1>3, <2>1, SetIsRight DEF LoopsAreRight, Agent!Break, Agent!Tries
  <2>3. ClipIsLater'
    BY <1>3 DEF Agent!Break, AgentInv, ClipIsLater, Agent!CopyIsLater, Agent!Tries,
                Agent!Nothing, AgentClip
  <2>4. /\ Agent!Set(t, l) /\ loop[t].phase # "off" /\ UNCHANGED <<platform, copies, agentTry, box>>
        /\ agentAt' = "failed" \/ agentAt' = agentAt
    BY <1>3 DEF Agent!Break, Agent!Running
  <2>5. ASSUME platform = "android" PROVE Guarded(l, box')
    <3>1. Guarded(loop[t], box) /\ box' = box
      BY <2>4, <2>5 DEF AgentInv, PhoneIsAlone
    <3>2. l.phase = "off" /\ l.blind = loop[t].blind
      BY <1>0 DEF AgentLoop
    <3> HIDE DEF l
    <3> QED BY <3>1, <3>2 DEF Guarded, Confirmed
  <2>6. PhoneIsAlone'
    <3> HIDE DEF l
    <3> QED BY <2>1, <2>4, <2>5, SetIsGuarded
  <2> QED BY <2>2, <2>3, <2>6 DEF AgentInv
<1> QED BY <1>2, <1>3

LEMMA ExecuteNext ==
  ASSUME AgentInv,
         \/ Agent!Start \/ Agent!Final \/ Agent!Clear \/ Agent!ReadClip \/ Agent!Extract
         \/ Agent!Done \/ Agent!Again \/ Agent!Answer
  PROVE  AgentInv'
<1>0. UNCHANGED <<loop, platform>> => LoopsAreRight'
  BY LoopsRest
<1>1. ASSUME NEW kindOf \in {"main", "copy"}, Agent!Set(agentTry, Agent!Begun(kindOf)),
             UNCHANGED <<platform, copies, agentTry, box>>, agentAt' \in {"loop", "copy"},
             platform = "android" => kindOf = "main" /\ agentAt' = "loop"
      PROVE  LoopsAreRight' /\ PhoneIsAlone'
  <2>1. agentTry \in Agent!Tries
    BY DEF AgentInv, ClipIsLater
  <2>2. LoopIsRight(Agent!Begun(kindOf)) /\ Agent!Begun(kindOf) \in AgentLoop
    BY BegunIsRight DEF LoopIsRight
  <2>3. LoopsAreRight'
    BY <1>1, <2>1, <2>2, SetIsRight DEF LoopsAreRight, Agent!Tries
  <2>4. platform = "android" => Guarded(Agent!Begun(kindOf), box')
    <3>1. /\ Agent!Begun(kindOf).task = kindOf /\ Agent!Begun(kindOf).blind = {}
          /\ ~Agent!Begun(kindOf).part
      BY DEF Agent!Begun, Agent!Idle
    <3> QED BY <1>1, <3>1 DEF Guarded, Confirmed
  <2>5. platform = "android" => PhoneIsAlone'
    BY <1>1, <2>1, <2>2, <2>4, SetIsGuarded
  <2>6. platform # "android" => PhoneIsAlone'
    BY <1>1 DEF PhoneIsAlone
  <2> QED BY <2>3, <2>5, <2>6
<1> USE RunAssumption
    DEF ClipIsLater, Agent!CopyIsLater, Agent!Tries, Agent!Nothing, AgentClip
<1>2. CASE Agent!Start
  <2>1. LoopsAreRight' /\ PhoneIsAlone'
    BY <1>1, <1>2 DEF Agent!Start
  <2> QED BY <1>2, <2>1 DEF Agent!Start, AgentInv
<1>3. CASE Agent!Clear
  <2>1. platform # "android"
    BY <1>3 DEF Agent!Clear, AgentInv, PhoneIsAlone
  <2>2. LoopsAreRight' /\ PhoneIsAlone'
    BY <1>1, <1>3, <2>1 DEF Agent!Clear
  <2> QED BY <1>3, <2>2 DEF Agent!Clear, AgentInv
<1>4. CASE Agent!Final \/ Agent!Done \/ Agent!Answer
  <2>1. PhoneIsAlone'
    BY <1>4, PhoneRests DEF Agent!Final, Agent!Done, Agent!Answer, AgentInv
  <2> QED BY <1>0, <1>4, <2>1 DEF Agent!Final, Agent!Done, Agent!Answer, AgentInv
<1>5. CASE Agent!ReadClip
  <2>1. PhoneIsAlone'
    BY <1>5, PhoneRests DEF Agent!ReadClip, AgentInv
  <2> QED BY <1>0, <1>5, <2>1 DEF Agent!ReadClip, AgentInv, Agent!Shot
<1>6. CASE Agent!Extract
  <2>1. PhoneIsAlone'
    BY <1>6, PhoneRests DEF Agent!Extract, AgentInv
  <2> QED BY <1>0, <1>6, <2>1 DEF Agent!Extract, AgentInv, Agent!Shot
<1>7. CASE Agent!Again
  <2>1. agentTry' \in Agent!Tries /\ (agentTry' = 1 => agentTry = 1)
    BY <1>7 DEF Agent!Again, AgentInv
  <2>2. PhoneIsAlone'
    BY <1>7, <2>1, PhoneRests DEF Agent!Again, AgentInv
  <2> QED BY <1>0, <1>7, <2>2 DEF Agent!Again, AgentInv
<1> QED BY <1>2, <1>3, <1>4, <1>5, <1>6, <1>7

LEMMA NextAgent == AgentInv /\ [SampleNext]_sampleVars => AgentInv'
<1> SUFFICES ASSUME AgentInv, [SampleNext]_sampleVars PROVE AgentInv'
  OBVIOUS
<1>1. CASE Agent!Next
  BY <1>1, AgentSeeNext, AgentDoNext, AgentTypeNext, ExecuteNext DEF Agent!Next
<1>2. CASE UNCHANGED agentVars
  <2>1. PhoneIsAlone'
    BY <1>2, PhoneRests DEF agentVars, AgentInv, ClipIsLater
  <2> QED BY <1>2, <2>1, LoopsRest, ClipRests DEF agentVars, AgentInv, ClipIsLater
<1> QED BY <1>1, <1>2, OnePartSteps

\* "Press(enter) is rejected" while the input was not confirmed (runtime.py): a loop that
\* has the phone to itself does not send a part of a text by it, a phone's loops finish
\* on a reply they saw, and what is read from a clipboard was copied for that: AgentSees.
THEOREM AgentsSee == SampleSpec => AgentSees
<1>1. AgentInv => Agent!EnterIsConfirmedOnPhones /\ Agent!CopyIsLater
  BY DEF AgentInv, ClipIsLater, PhoneIsAlone, Guarded, Agent!EnterIsConfirmedOnPhones
<1>2. AgentInv =>
        [\A t \in Agent!Tries :
           platform = "android" /\ hint /\ loop[t].task = "main" /\ loop[t].sent /\ Agent!Finish(t)
             => loop[t].seen # "none"]_(Agent!agentVars)
  BY DEF AgentInv, LoopsAreRight, LoopIsRight, Agent!Finish, Agent!Finishing
<1> QED BY <1>1, <1>2, AgentStarts, NextAgent, PTL
        DEF SampleSpec, AgentSees, Agent!AgentSees, Agent!FinishSeesReply
-----------------------------------------------------------------------------
(* The phone *)

\* Between the set-up and the end of an attempt, each prompt has been sent once.
MessagesAreCounted ==
  /\ attempt \in 1 .. Attempts /\ idx \in 1 .. Prompts
  /\ first \in Nat /\ first <= (attempt - 1) * Prompts
  /\ sent \in Nat /\ first <= sent /\ sent <= first + idx
  /\ phoneAt \in {"start", "prepare"} => idx = 1 /\ sent = first
  /\ phoneAt \in {"type", "send"} => sent = first + idx - 1
  /\ phoneAt \in {"wait", "vlm", "read", "copy", "method", "llm", "next"} => sent = first + idx

\* Nothing is on the clipboard while the first way is tried, unless clearing it failed
\* for this message, or the tap gave nothing.
ClipIsClear ==
  /\ clip \in 0 .. sent /\ fails \in 0 .. MaxFails /\ tries \in 0 .. MaxTaps
  /\ phoneAt = "vlm" => clip = 0 \/ fails >= 1

\* One response per prompt.
ResponsesAreCounted ==
  /\ responses \in Seq([by : {"vlm", "read", "copy", "method", "none", "dry"}, copied : Nat, failed : Nat])
  /\ \A i \in DOMAIN responses : responses[i].copied <= sent /\ responses[i].failed <= MaxFails
  /\ phoneAt \in Android!Working =>
       Len(responses) = (IF phoneAt = "next" \/ phoneAt = "llm" THEN idx ELSE idx - 1)
  /\ phoneAt \in {"leave", "over"} /\ result = "done" => Len(responses) = Prompts
  /\ Android!TapIsFresh

RecordsAreTyped ==
  /\ llm \in Seq((1 .. Attempts) \X (1 .. Prompts))
  /\ shots \in [1 .. Prompts -> 0 .. Attempts]

\* One text at a time with the ADB keyboard, and the keyboard that was found is
\* remembered until it is put back.
KeyboardIsKept ==
  /\ field \in 0 .. 2 /\ stacked \in BOOLEAN /\ torn \in BOOLEAN
  /\ profile.keyboard = "adb" => field <= 1 /\ ~stacked
  /\ ime \in {"own", "adb"} /\ restore \in {"none", "own", "adb"}
  /\ phoneAt \in {"start", "prepare", "over"} => restore = "none"
  /\ ~torn => IF restore = "none" THEN ime = "own" ELSE restore = "own"

AndroidInv ==
  /\ profile \in Android!Profile /\ phoneAt \in Android!Working \cup {"leave", "over"}
  /\ result \in {"done", "timeout", "failed"}
  /\ MessagesAreCounted /\ ClipIsClear /\ ResponsesAreCounted /\ RecordsAreTyped
  /\ KeyboardIsKept

LEMMA AndroidStarts == SampleInit => AndroidInv
<1> SUFFICES ASSUME Android!Init PROVE AndroidInv
  BY DEF SampleInit
<1>1. MessagesAreCounted /\ ClipIsClear /\ RecordsAreTyped
  BY RunAssumption DEF Android!Init, MessagesAreCounted, ClipIsClear, RecordsAreTyped
<1>2. ResponsesAreCounted
  BY DEF Android!Init, ResponsesAreCounted, Android!TapIsFresh, Android!Working
<1>3. stacked \in BOOLEAN /\ torn \in BOOLEAN /\ ~stacked
  BY DEF Android!Init
<1>4. KeyboardIsKept
  BY <1>3 DEF Android!Init, KeyboardIsKept
<1> QED BY <1>1, <1>2, <1>4, RunAssumption DEF AndroidInv, Android!Init, Android!Working

LEMMA MessagesNext == ASSUME AndroidInv, Android!Next PROVE MessagesAreCounted'
<1> USE RunAssumption
    DEF AndroidInv, MessagesAreCounted, Android!Working, Android!place, Android!phone, Android!typed,
        Android!record, Android!Goto
<1>1. CASE Android!Leave
  <2>1. CASE result' = "done" \/ attempt = Attempts
    BY <1>1, <2>1 DEF Android!Leave
  <2>2. CASE ~(result' = "done" \/ attempt = Attempts)
    <3>1. /\ attempt' = attempt + 1 /\ idx' = 1 /\ first' = sent /\ phoneAt' = "start"
          /\ sent' = sent /\ attempt' \in 1 .. Attempts
      BY <1>1, <2>2 DEF Android!Leave
    <3>2. (attempt' - 1) * Prompts = (attempt - 1) * Prompts + Prompts
      BY <3>1
    <3> QED BY <3>1, <3>2
  <2> QED BY <2>1, <2>2
<1>2. CASE Android!NextPrompt
  BY <1>2 DEF Android!NextPrompt
<1>3. CASE Android!Start \/ Android!DryRun \/ Android!Prepare \/ Android!Type
  BY <1>3 DEF Android!Start, Android!DryRun, Android!Prepare, Android!Type
<1>4. CASE Android!Send \/ Android!Wait
  BY <1>4 DEF Android!Send, Android!Wait
<1>5. CASE Android!VlmTry \/ Android!VlmMiss
  BY <1>5 DEF Android!VlmTry, Android!VlmMiss
<1>6. CASE Android!ReadShot \/ Android!SkipRead \/ Android!CopyText \/ Android!SkipCopy
  BY <1>6 DEF Android!ReadShot, Android!SkipRead, Android!CopyText, Android!SkipCopy
<1>7. CASE Android!Method \/ Android!AskLlm
  BY <1>7 DEF Android!Method, Android!AskLlm
<1>8. CASE Android!Break
  BY <1>8 DEF Android!Break
<1> QED BY <1>1, <1>2, <1>3, <1>4, <1>5, <1>6, <1>7, <1>8 DEF Android!Next

LEMMA ClipNext == ASSUME AndroidInv, Android!Next PROVE ClipIsClear'
<1> USE RunAssumption
    DEF AndroidInv, ClipIsClear, MessagesAreCounted, Android!Working, Android!place, Android!phone,
        Android!typed, Android!record, Android!Goto
<1>1. CASE Android!Leave \/ Android!NextPrompt \/ Android!Break
  BY <1>1 DEF Android!Leave, Android!NextPrompt, Android!Break
<1>2. CASE Android!Start \/ Android!DryRun \/ Android!Prepare \/ Android!Type
  BY <1>2 DEF Android!Start, Android!DryRun, Android!Prepare, Android!Type
<1>3. CASE Android!Send
  BY <1>3 DEF Android!Send
<1>4. CASE Android!Wait
  BY <1>4 DEF Android!Wait, Android!Clear
<1>5. CASE Android!VlmTry \/ Android!VlmMiss
  BY <1>5 DEF Android!VlmTry, Android!VlmMiss, Android!Tap, Android!Clear, Android!Copies
<1>6. CASE Android!ReadShot \/ Android!SkipRead \/ Android!CopyText \/ Android!SkipCopy
  BY <1>6 DEF Android!ReadShot, Android!SkipRead, Android!CopyText, Android!SkipCopy, Android!Copies
<1>7. CASE Android!Method \/ Android!AskLlm
  BY <1>7 DEF Android!Method, Android!AskLlm
<1> QED BY <1>1, <1>2, <1>3, <1>4, <1>5, <1>6, <1>7 DEF Android!Next

\* The tap of the first way gives what was copied after this prompt was sent, unless
\* clearing failed twice for it.
LEMMA TapGivesTheLast ==
  ASSUME AndroidInv, Android!VlmTry
  PROVE  /\ clip' = 0 \/ clip' = sent \/ fails' >= 2
         /\ clip' \in 0 .. sent /\ fails' \in 0 .. MaxFails
BY RunAssumption DEF MessagesAreCounted, AndroidInv, ClipIsClear, Android!VlmTry, Android!Tap, Android!Clear, Android!Copies

\* A response added is the one of this prompt.
LEMMA ResponseAdded ==
  ASSUME AndroidInv, Len(responses) = idx - 1, sent' = sent, UNCHANGED <<idx, first>>,
         NEW by \in {"vlm", "read", "copy", "method", "none"}, NEW n \in 0 .. sent,
         NEW failed \in 0 .. MaxFails, by = "vlm" => n = first + idx \/ failed >= 2,
         Android!Taken(by, n, failed)
  PROVE  /\ responses' \in Seq([by : {"vlm", "read", "copy", "method", "none", "dry"}, copied : Nat, failed : Nat])
         /\ \A i \in DOMAIN responses' :
              responses'[i].copied <= sent' /\ responses'[i].failed <= MaxFails
         /\ Len(responses') = idx
         /\ Android!TapIsFresh'
<1> DEFINE R == [by : {"vlm", "read", "copy", "method", "none", "dry"}, copied : Nat, failed : Nat]
           r == [by |-> by, copied |-> n, failed |-> failed]
<1>1. r \in R /\ responses \in Seq(R) /\ responses' = Append(responses, r)
  BY DEF AndroidInv, ResponsesAreCounted, MessagesAreCounted, Android!Taken
<1>2. /\ responses' \in Seq(R) /\ Len(responses') = idx
      /\ \A i \in 1 .. Len(responses) : responses'[i] = responses[i]
      /\ responses'[Len(responses) + 1] = r
  BY <1>1, AppendProperties DEF AndroidInv, MessagesAreCounted
<1>3. /\ DOMAIN responses' = 1 .. idx /\ DOMAIN responses = 1 .. idx - 1
      /\ idx \in Nat \ {0} /\ sent \in Nat /\ first \in Nat
  BY <1>1, <1>2, LenProperties DEF AndroidInv, MessagesAreCounted
<1>4. \A i \in 1 .. idx - 1 : responses[i].copied <= sent /\ responses[i].failed <= MaxFails
  BY <1>3 DEF AndroidInv, ResponsesAreCounted
<1>5. \A i \in 1 .. idx - 1 : responses[i].by = "vlm" => responses[i].copied = first + i \/ responses[i].failed >= 2
  BY <1>3 DEF AndroidInv, ResponsesAreCounted, Android!TapIsFresh
<1>6. \A i \in DOMAIN responses' :
        responses'[i].copied <= sent' /\ responses'[i].failed <= MaxFails
  BY <1>2, <1>3, <1>4
<1>7. Android!TapIsFresh'
  <2>1. /\ \A i \in 1 .. idx - 1 : responses'[i] = responses[i]
        /\ responses'[idx] = r /\ first' = first /\ DOMAIN responses' = 1 .. idx
    BY <1>2, <1>3
  <2> SUFFICES ASSUME NEW i \in 1 .. idx, responses'[i].by = "vlm"
               PROVE  responses'[i].copied = first + i \/ responses'[i].failed >= 2
    BY <2>1 DEF Android!TapIsFresh
  <2>2. CASE i = idx
    <3>1. r.by = by /\ r.copied = n /\ r.failed = failed
      OBVIOUS
    <3> QED BY <2>1, <2>2, <3>1
  <2>3. CASE i \in 1 .. idx - 1
    BY <1>5, <2>1, <2>3
  <2> QED BY <1>3, <2>2, <2>3
<1> QED BY <1>2, <1>6, <1>7

\* A step that leaves the responses alone and sends nothing, or one more.
LEMMA ResponsesRest ==
  ASSUME AndroidInv, UNCHANGED <<responses, first>>, sent' \in {sent, sent + 1}
  PROVE  /\ responses' \in Seq([by : {"vlm", "read", "copy", "method", "none", "dry"}, copied : Nat, failed : Nat])
         /\ \A i \in DOMAIN responses' :
              responses'[i].copied <= sent' /\ responses'[i].failed <= MaxFails
         /\ Android!TapIsFresh'
<1>1. \A i \in DOMAIN responses :
        /\ responses[i].copied \in Nat /\ responses[i].copied <= sent
        /\ responses[i].failed <= MaxFails
  <2> DEFINE R == [by : {"vlm", "read", "copy", "method", "none", "dry"}, copied : Nat, failed : Nat]
  <2>1. responses \in Seq(R)
    BY DEF AndroidInv, ResponsesAreCounted
  <2>2. \A i \in DOMAIN responses : responses[i] \in R
    <3> HIDE DEF R
    <3> QED BY <2>1, LenProperties, ElementOfSeq
  <2> QED BY <2>2 DEF AndroidInv, ResponsesAreCounted
<1>2. sent \in Nat /\ sent' \in Nat /\ sent <= sent'
  BY DEF AndroidInv, MessagesAreCounted
<1>3. \A i \in DOMAIN responses' :
        responses'[i].copied <= sent' /\ responses'[i].failed <= MaxFails
  BY <1>1, <1>2
<1>4. Android!TapIsFresh'
  BY DEF AndroidInv, ResponsesAreCounted, Android!TapIsFresh
<1> QED BY <1>3, <1>4 DEF AndroidInv, ResponsesAreCounted

LEMMA ResponsesNext == ASSUME AndroidInv, Android!Next PROVE ResponsesAreCounted'
<1> DEFINE R == [by : {"vlm", "read", "copy", "method", "none", "dry"}, copied : Nat, failed : Nat]
<1>0. /\ idx \in 1 .. Prompts /\ sent \in Nat /\ clip \in 0 .. sent /\ Prompts \in Nat \ {0}
      /\ fails \in 0 .. MaxFails /\ MaxFails \in Nat
      /\ phoneAt \in Android!Working =>
           Len(responses) = (IF phoneAt = "next" \/ phoneAt = "llm" THEN idx ELSE idx - 1)
      /\ phoneAt \in {"leave", "over"} /\ result = "done" => Len(responses) = Prompts
  BY RunAssumption DEF AndroidInv, MessagesAreCounted, ClipIsClear, ResponsesAreCounted
<1> USE DEF Android!Working, Android!place, Android!phone, Android!typed, Android!record, Android!Goto
<1>1. CASE Android!Leave
  <2>1. CASE UNCHANGED <<responses, idx, first>>
    <3>1. phoneAt' \in {"over", "start"} /\ phoneAt = "leave" /\ sent' = sent
          /\ (result' = "done" => result = "done")
      BY <1>1 DEF Android!Leave, Android!RestoreFails
    <3>2. phoneAt' = "start" => responses' = <<>> /\ idx' = 1
      BY <1>1 DEF Android!Leave
    <3> QED BY <1>0, <2>1, <3>1, <3>2, ResponsesRest DEF ResponsesAreCounted
  <2>2. CASE ~UNCHANGED <<responses, idx, first>>
    <3>1. responses' = <<>> /\ phoneAt' = "start" /\ idx' = 1
      BY <1>1, <2>2 DEF Android!Leave
    <3> QED BY <3>1 DEF ResponsesAreCounted, Android!TapIsFresh
  <2> QED BY <2>1, <2>2
<1>2. CASE Android!DryRun
  <2>1. /\ responses' = [i \in 1 .. Prompts |-> [by |-> "dry", copied |-> 0, failed |-> 0]]
        /\ phoneAt' = "over" /\ sent' = sent
    BY <1>2 DEF Android!DryRun
  <2>2. responses' \in [1 .. Prompts -> R]
    BY <2>1
  <2>3. responses' \in Seq(R)
    <3>1. Seq(R) = UNION {[1 .. n -> R] : n \in Nat}
      BY SeqDef
    <3> HIDE DEF R
    <3> QED BY <1>0, <2>2, <3>1
  <2>4. Len(responses') = Prompts
    BY <1>0, <2>2, <2>3, LenProperties
  <2>5. \A i \in DOMAIN responses' : /\ responses'[i].by = "dry" /\ responses'[i].copied = 0
                                      /\ responses'[i].failed = 0
    BY <2>1
  <2> QED BY <1>0, <2>1, <2>3, <2>4, <2>5 DEF ResponsesAreCounted, Android!TapIsFresh
<1>3. CASE Android!Start \/ Android!Prepare \/ Android!Type \/ Android!Wait
  BY <1>0, <1>3, ResponsesRest
     DEF Android!Start, Android!Prepare, Android!Type, Android!Wait, ResponsesAreCounted
<1>4. CASE Android!Send
  BY <1>0, <1>4, ResponsesRest DEF Android!Send, ResponsesAreCounted
<1>5. CASE Android!VlmTry
  <2>1. CASE clip' = 0
    BY <1>0, <1>5, <2>1, ResponsesRest DEF Android!VlmTry, ResponsesAreCounted
  <2>2. CASE clip' # 0
    <3>1. /\ clip' = sent \/ fails' >= 2
          /\ clip' \in 0 .. sent /\ fails' \in 0 .. MaxFails
          /\ Android!Taken("vlm", clip', fails') /\ phoneAt' = "next" /\ phoneAt = "vlm"
          /\ UNCHANGED <<sent, idx, first>>
      BY <1>5, <2>2, TapGivesTheLast DEF Android!VlmTry
    <3>2. sent = first + idx
      BY <3>1 DEF AndroidInv, MessagesAreCounted
    <3> QED BY <1>0, <3>1, <3>2, ResponseAdded DEF ResponsesAreCounted
  <2> QED BY <2>1, <2>2
<1>6. CASE Android!VlmMiss
  <2>1. CASE UNCHANGED responses
    BY <1>0, <1>6, <2>1, ResponsesRest DEF Android!VlmMiss, ResponsesAreCounted, Android!Taken
  <2>2. CASE Android!Taken("none", 0, fails) /\ phoneAt' = "next"
    BY <1>0, <1>6, <2>2, ResponseAdded DEF Android!VlmMiss, ResponsesAreCounted
  <2> QED BY <1>6, <2>1, <2>2 DEF Android!VlmMiss
<1>7. CASE Android!ReadShot
  <2>1. CASE UNCHANGED responses /\ phoneAt' = "copy"
    BY <1>0, <1>7, <2>1, ResponsesRest DEF Android!ReadShot, ResponsesAreCounted
  <2>2. CASE (Android!Taken("none", 0, fails) \/ Android!Taken("read", 0, fails)) /\ phoneAt' = "next"
    BY <1>0, <1>7, <2>2, ResponseAdded DEF Android!ReadShot, ResponsesAreCounted
  <2> QED BY <1>7, <2>1, <2>2 DEF Android!ReadShot
<1>8. CASE Android!CopyText
  <2>1. CASE UNCHANGED responses /\ phoneAt' = "method"
    BY <1>0, <1>8, <2>1, ResponsesRest DEF Android!CopyText, ResponsesAreCounted
  <2>2. CASE Android!Taken("copy", clip', fails) /\ phoneAt' = "next"
    BY <1>0, <1>8, <2>2, ResponseAdded DEF Android!CopyText, ResponsesAreCounted, Android!Copies
  <2> QED BY <1>8, <2>1, <2>2 DEF Android!CopyText
<1>9. CASE Android!SkipRead \/ Android!SkipCopy \/ Android!AskLlm
  BY <1>0, <1>9, ResponsesRest
     DEF Android!SkipRead, Android!SkipCopy, Android!AskLlm, ResponsesAreCounted
<1>10. CASE Android!Method
  <2>1. Android!Taken("method", 0, fails) /\ phoneAt' \in {"llm", "next"} /\ UNCHANGED <<sent, idx, first>>
    BY <1>10 DEF Android!Method
  <2> QED BY <1>0, <1>10, <2>1, ResponseAdded DEF Android!Method, ResponsesAreCounted
<1>11. CASE Android!NextPrompt
  <2>1. /\ phoneAt = "next" /\ UNCHANGED <<responses, first, sent>>
        /\ \/ idx' = idx + 1 /\ phoneAt' = "type"
           \/ idx = Prompts /\ phoneAt' = "leave"
    BY <1>0, <1>11 DEF Android!NextPrompt
  <2>2. /\ responses' \in Seq(R)
        /\ \A i \in DOMAIN responses' :
             responses'[i].copied <= sent' /\ responses'[i].failed <= MaxFails
        /\ Android!TapIsFresh'
    BY <2>1, ResponsesRest
  <2>3. Len(responses') = idx
    BY <1>0, <2>1
  <2> QED BY <1>0, <2>1, <2>2, <2>3 DEF ResponsesAreCounted
<1>12. CASE Android!Break
  BY <1>0, <1>12, ResponsesRest DEF Android!Break, ResponsesAreCounted
<1> QED BY <1>1, <1>2, <1>3, <1>4, <1>5, <1>6, <1>7, <1>8, <1>9, <1>10, <1>11, <1>12
        DEF Android!Next

LEMMA RecordsNext == ASSUME AndroidInv, Android!Next PROVE RecordsAreTyped'
<1>0. attempt \in 1 .. Attempts /\ idx \in 1 .. Prompts
  BY DEF AndroidInv, MessagesAreCounted
<1>1. CASE UNCHANGED <<llm, shots>>
  BY <1>1 DEF AndroidInv, RecordsAreTyped
<1>2. CASE Android!Shoot /\ UNCHANGED llm
  BY <1>0, <1>2 DEF AndroidInv, RecordsAreTyped, Android!Shoot
<1>3. CASE Android!AskLlm
  BY <1>0, <1>3, AppendProperties DEF AndroidInv, RecordsAreTyped, Android!AskLlm
<1>4. UNCHANGED <<llm, shots>> \/ (Android!Shoot /\ UNCHANGED llm) \/ Android!AskLlm
  BY DEF Android!Next, Android!DryRun, Android!Start, Android!Prepare, Android!Type, Android!Send,
         Android!Wait, Android!VlmTry, Android!VlmMiss, Android!ReadShot, Android!SkipRead,
         Android!CopyText, Android!SkipCopy, Android!Method, Android!NextPrompt, Android!Break,
         Android!Leave, Android!record
<1> QED BY <1>1, <1>2, <1>3, <1>4

LEMMA KeyboardNext == ASSUME AndroidInv, Android!Next PROVE KeyboardIsKept'
<1> DEFINE Kept(s, u, f, k, r, where) ==
      /\ f \in 0 .. 2 /\ s \in BOOLEAN /\ u \in BOOLEAN
      /\ profile.keyboard = "adb" => f <= 1 /\ ~s
      /\ k \in {"own", "adb"} /\ r \in {"none", "own", "adb"}
      /\ where \in {"start", "prepare", "over"} => r = "none"
      /\ ~u => IF r = "none" THEN k = "own" ELSE r = "own"
<1>0. Kept(stacked, torn, field, ime, restore, phoneAt)
  BY DEF AndroidInv, KeyboardIsKept
<1>00. profile' = profile
  BY DEF Android!Next, Android!DryRun, Android!Start, Android!Prepare, Android!Type, Android!Send,
         Android!Wait, Android!VlmTry, Android!VlmMiss, Android!ReadShot, Android!SkipRead,
         Android!CopyText, Android!SkipCopy, Android!Method, Android!AskLlm, Android!NextPrompt,
         Android!Break, Android!Leave, Android!place
<1> SUFFICES Kept(stacked', torn', field', ime', restore', phoneAt')
  BY <1>00 DEF KeyboardIsKept
<1>1. CASE UNCHANGED <<stacked, torn, field, ime, restore>> /\ phoneAt' \notin {"start", "prepare"}
           /\ (phoneAt' = "over" => phoneAt = "start")
  BY <1>0, <1>1
<1>2. CASE Android!Start
  BY <1>0, <1>2 DEF Android!Start, Android!phone, Android!typed, Android!Goto
<1>3. CASE Android!Prepare
  BY <1>0, <1>3 DEF Android!Prepare, Android!typed, Android!Goto
<1>4. CASE Android!Type
  BY <1>0, <1>4 DEF Android!Type, Android!SetText, Android!Stacked, Android!Goto
<1>5. CASE Android!Send
  <2>1. stacked' = (stacked \/ field = 2) /\ field' = 0 /\ phoneAt' = "wait"
        /\ UNCHANGED <<torn, ime, restore>>
    BY <1>5 DEF Android!Send, Android!Goto
  <2>2. stacked' \in BOOLEAN /\ (~stacked /\ field # 2 => ~stacked')
    BY <2>1
  <2>3. profile.keyboard = "adb" => ~stacked'
    BY <1>0, <2>2
  <2> QED BY <1>0, <2>1, <2>2, <2>3
<1>6. CASE Android!Break
  <2>1. /\ field' \in {field, 0, 1} /\ stacked' = stacked /\ restore' = restore /\ phoneAt' = "leave"
        /\ \/ ime' = ime /\ torn' = torn
           \/ ime' \in {ime, "adb"} /\ torn' = (torn \/ ime' # ime)
    BY <1>6 DEF Android!Break, Android!Goto
  <2>2. torn' \in BOOLEAN
    BY <1>0, <2>1
  <2>3. ~torn' => ~torn /\ ime' = ime
    BY <2>1
  <2>4. ime' \in {"own", "adb"}
    BY <1>0, <2>1
  <2> QED BY <1>0, <2>1, <2>2, <2>3, <2>4
<1>7. CASE Android!Leave
  <2>1. restore' = "none" /\ UNCHANGED <<field, stacked>>
    BY <1>7 DEF Android!Leave, Android!typed
  <2>2. CASE ime' = Android!Restored /\ UNCHANGED torn
    BY <1>0, <2>1, <2>2 DEF Android!Restored
  <2>3. CASE Android!RestoreFails
    <3>1. ime' \in {"own", "adb"} /\ torn' = TRUE
      BY <1>0, <2>3 DEF Android!RestoreFails, Android!Restored
    <3> QED BY <1>0, <2>1, <3>1
  <2> QED BY <1>7, <2>2, <2>3 DEF Android!Leave
<1> QED BY <1>1, <1>2, <1>3, <1>4, <1>5, <1>6, <1>7
        DEF Android!Next, Android!DryRun, Android!Wait, Android!VlmTry, Android!VlmMiss,
            Android!ReadShot, Android!SkipRead, Android!CopyText, Android!SkipCopy, Android!Method,
            Android!AskLlm, Android!NextPrompt, Android!phone, Android!typed, Android!Goto

LEMMA NextAndroid == AndroidInv /\ [SampleNext]_sampleVars => AndroidInv'
<1> SUFFICES ASSUME AndroidInv, [SampleNext]_sampleVars PROVE AndroidInv'
  OBVIOUS
<1>1. CASE Android!Next
  <2>1. /\ profile' = profile /\ phoneAt' \in Android!Working \cup {"leave", "over"}
        /\ result' \in {"done", "timeout", "failed"}
    BY <1>1
       DEF AndroidInv, Android!Next, Android!DryRun, Android!Start, Android!Prepare, Android!Type,
           Android!Send, Android!Wait, Android!VlmTry, Android!VlmMiss, Android!ReadShot,
           Android!SkipRead, Android!CopyText, Android!SkipCopy, Android!Method, Android!AskLlm,
           Android!NextPrompt, Android!Break, Android!Leave, Android!RestoreFails,
           Android!place, Android!Goto, Android!Working
  <2> QED BY <1>1, <2>1, MessagesNext, ClipNext, ResponsesNext, RecordsNext, KeyboardNext
          DEF AndroidInv, Android!Profile, Android!Working
<1>2. CASE UNCHANGED androidVars
  BY <1>2 DEF androidVars, AndroidInv, MessagesAreCounted, ClipIsClear, ResponsesAreCounted,
              RecordsAreTyped, KeyboardIsKept, Android!Profile, Android!Working, Android!TapIsFresh
<1> QED BY <1>1, <1>2, OnePartSteps

\* The typed form of the invariant: at most one message per prompt of each attempt.
LEMMA AndroidIsTyped == AndroidInv => Android!TypeOK
<1> SUFFICES ASSUME AndroidInv PROVE Android!TypeOK
  OBVIOUS
<1>1. sent \in 0 .. Attempts * Prompts /\ clip \in 0 .. sent /\ first \in 0 .. sent
  <2>1. /\ Attempts \in Nat /\ Prompts \in Nat /\ attempt \in 1 .. Attempts /\ sent \in Nat
        /\ sent <= (attempt - 1) * Prompts + Prompts
    BY RunAssumption DEF AndroidInv, MessagesAreCounted
  <2>2. (attempt - 1) * Prompts + Prompts = attempt * Prompts /\ attempt * Prompts <= Attempts * Prompts
    BY <2>1
  <2> QED BY <2>1, <2>2 DEF AndroidInv, MessagesAreCounted, ClipIsClear
<1>2. responses \in Seq([by : {"vlm", "read", "copy", "method", "none", "dry"},
                          copied : 0 .. sent, failed : 0 .. MaxFails])
  <2> DEFINE R == [by : {"vlm", "read", "copy", "method", "none", "dry"}, copied : Nat, failed : Nat]
             Q == [by : {"vlm", "read", "copy", "method", "none", "dry"}, copied : 0 .. sent,
                   failed : 0 .. MaxFails]
  <2>1. /\ Len(responses) \in Nat /\ responses \in [1 .. Len(responses) -> R]
        /\ \A i \in 1 .. Len(responses) :
             responses[i].copied <= sent /\ responses[i].failed <= MaxFails
    BY LenProperties DEF AndroidInv, ResponsesAreCounted
  <2>2. \A i \in 1 .. Len(responses) : responses[i] \in Q
    BY <1>1, <2>1, RunAssumption
  <2>3. responses \in [1 .. Len(responses) -> Q]
    BY <2>1, <2>2
  <2>4. Seq(Q) = UNION {[1 .. n -> Q] : n \in Nat}
    BY SeqDef
  <2>5. responses \in Seq(Q)
    <3> HIDE DEF Q
    <3> QED BY <2>1, <2>3, <2>4
  <2> QED BY <2>5
<1> QED BY <1>1, <1>2, RunAssumption
        DEF AndroidInv, Android!TypeOK, MessagesAreCounted, ClipIsClear, RecordsAreTyped, KeyboardIsKept

\* "return list of response strings (one per prompt)", "Clear clipboard so a previous
\* prompt's text can't be mistaken", "Clear focused field first" (android_executor.py):
\* for any number of prompts, attempts and taps, and errors of the phone: TurnIsOwn.
THEOREM TurnsAreOwn == SampleSpec => []TurnIsOwn
<1>1. AndroidInv => TurnIsOwn
  BY AndroidIsTyped
     DEF AndroidInv, TurnIsOwn, Android!TurnIsOwn, Android!OneAnswerEach, Android!SentAlone,
         Android!KeyboardComesBack, ResponsesAreCounted, KeyboardIsKept
<1> QED BY <1>1, AndroidStarts, NextAndroid, PTL DEF SampleSpec
-----------------------------------------------------------------------------
(* The page *)

\* A call's prompts and replies, by where it stands.
PromptsAreCounted ==
  \A s \in Calls :
    /\ pc[s] \in {"ready", "queue", "launch", "setup", "new"} => prompt[s] = 0 /\ replies[s] = 0
    /\ pc[s] = "fill" => prompt[s] < Prompts /\ replies[s] = prompt[s]
    /\ pc[s] \in {"send", "wait"} => prompt[s] >= 1 /\ replies[s] = prompt[s] - 1
    /\ pc[s] = "judge" => prompt[s] >= 1 /\ replies[s] = prompt[s]

\* A context that is being set up is not registered yet, one that is being dropped no
\* longer, and neither is another call's to set up.
SetUp(s) == pc[s] = "setup"
Dropped(s) == pc[s] = "drop" /\ uses[s] # 0
ContextsAreApart ==
  /\ session # 0 => context[session] # "none" /\ context[session] # "closed"
  /\ \A s \in Calls :
       /\ uses[s] # 0 => context[uses[s]] # "none"
       /\ pc[s] \in {"setup", "queue", "new", "fill", "send", "wait", "judge", "recover"} => uses[s] # 0
       /\ SetUp(s) \/ Dropped(s) => uses[s] # session
  /\ \A s, o \in Calls : s # o /\ SetUp(s) /\ (SetUp(o) \/ Dropped(o)) => uses[s] # uses[o]

\* The conversation ends with the first n prompts of a call, and is no more than them
\* if it began a new one.
OwnEnd(said1, s, n) ==
  /\ Len(said1) >= n
  /\ \A i \in 1 .. n : said1[Len(said1) - n + i] = <<s, i>>
  /\ s \in Fresh => Len(said1) = n

\* Who works on a page holds its lock, so that what it shows is the call's own.
AtPage == {"new", "fill", "send", "wait", "judge", "recover"}
PagesAreOwn ==
  \A s \in Calls :
    /\ pc[s] \in AtPage => lock[uses[s]] = s
    /\ pc[s] \in {"fill", "wait", "judge"} => OwnEnd(talk[uses[s]], s, prompt[s])
    /\ pc[s] = "send" => OwnEnd(talk[uses[s]], s, prompt[s] - 1)
    /\ pc[s] = "judge" => OwnEnd(heard[s], s, prompt[s])

WebInv == Web!TypeOK /\ PromptsAreCounted /\ ContextsAreApart /\ PagesAreOwn

LEMMA WebStarts == SampleInit => WebInv
<1> SUFFICES ASSUME SampleInit PROVE WebInv
  OBVIOUS
<1> USE RunAssumption, WebAssumption
<1>1. Web!Init
  BY DEF SampleInit
<1>2. <<>> \in Seq(Calls \X (1 .. Prompts))
  BY EmptySeq
<1>3. Web!TypeOK
  <2> DEFINE Said == Seq(Calls \X (1 .. Prompts))
  <2>1. talk \in [Web!Contexts -> Said] /\ heard \in [Calls -> Said]
    <3> HIDE DEF Said
    <3> QED BY <1>1, <1>2 DEF Web!Init, Said
  <2> QED BY <1>1, <2>1 DEF Web!Init, Web!TypeOK, Web!Contexts
<1> QED BY <1>1, <1>3 DEF Web!Init, WebInv, PromptsAreCounted, ContextsAreApart, SetUp, Dropped,
          PagesAreOwn, AtPage

LEMMA WebTypeNext == ASSUME WebInv, Web!Next PROVE Web!TypeOK'
<1> DEFINE Said == Seq(Calls \X (1 .. Prompts))
           Typed ==
             /\ pc \in [Calls -> {"ready", "queue", "over"} \cup Web!Holding \cup Web!Launching]
             /\ webTry \in [Calls -> 1 .. Attempts]
             /\ uses \in [Calls -> 0 .. MaxLaunch]
             /\ prompt \in [Calls -> 0 .. Prompts] /\ replies \in [Calls -> 0 .. Prompts]
             /\ session \in 0 .. MaxLaunch
             /\ context \in [1 .. MaxLaunch -> {"none", "open", "closed", "dead"}]
             /\ lock \in [1 .. MaxLaunch -> Calls \cup {Web!None}]
             /\ talk \in [1 .. MaxLaunch -> Said] /\ heard \in [Calls -> Said]
<1> HIDE DEF Said
<1>0. Typed /\ PromptsAreCounted /\ MaxLaunch \in Nat /\ Prompts \in Nat /\ Attempts \in Nat
  BY RunAssumption, WebAssumption DEF WebInv, Web!TypeOK, Web!Contexts, Said
<1> USE DEF Web!Contexts, Web!Holding, Web!Launching, Web!Goes
<1>1. ASSUME NEW c \in Web!Contexts, Web!Die(c) PROVE Typed'
  BY <1>0, <1>1 DEF Web!Die, Web!Works
<1>2. ASSUME NEW s \in Calls, Web!Start(s) PROVE Typed'
  BY <1>0, <1>2 DEF Web!Start
<1>3. ASSUME NEW s \in Calls, Web!Take(s) PROVE Typed'
  BY <1>0, <1>3 DEF Web!Take
<1>4. ASSUME NEW s \in Calls, Web!Launch(s) PROVE Typed'
  BY <1>0, <1>4 DEF Web!Launch
<1>14. ASSUME NEW s \in Calls, Web!Register(s) PROVE Typed'
  BY <1>0, <1>14 DEF Web!Register, Web!Works, WebInv, ContextsAreApart
<1>5. ASSUME NEW s \in Calls, Web!NewSession(s) PROVE Typed'
  <2>1. <<>> \in Said
    BY EmptySeq DEF Said
  <2> QED BY <1>0, <1>5, <2>1 DEF Web!NewSession
<1>6. ASSUME NEW s \in Calls, Web!Fill(s) PROVE Typed'
  <2>1. prompt[s] + 1 \in 0 .. Prompts
    BY <1>0, <1>6 DEF Web!Fill, PromptsAreCounted
  <2> QED BY <1>0, <1>6, <2>1 DEF Web!Fill
<1>15. ASSUME NEW s \in Calls, Web!FailPrompt(s) PROVE Typed'
  BY <1>0, <1>15 DEF Web!FailPrompt
<1>7. ASSUME NEW s \in Calls, Web!Send(s) PROVE Typed'
  <2>1. <<s, prompt[s]>> \in Calls \X (1 .. Prompts)
    BY <1>0, <1>7 DEF Web!Send, PromptsAreCounted
  <2>2. \A c \in 1 .. MaxLaunch : Append(talk[c], <<s, prompt[s]>>) \in Said
    BY <1>0, <2>1, AppendProperties DEF Said
  <2> QED BY <1>0, <1>7, <2>2 DEF Web!Send
<1>8. ASSUME NEW s \in Calls, Web!Collect(s) PROVE Typed'
  <2>1. replies[s] + 1 \in 0 .. Prompts /\ (pc[s] = "wait" => uses[s] \in 1 .. MaxLaunch)
    BY <1>0, <1>8 DEF Web!Collect, PromptsAreCounted, WebInv, ContextsAreApart
  <2> QED BY <1>0, <1>8, <2>1 DEF Web!Collect
<1>9. ASSUME NEW s \in Calls, Web!Judge(s) PROVE Typed'
  BY <1>0, <1>9 DEF Web!Judge, Web!Released
<1>10. ASSUME NEW s \in Calls, Web!EndOfAttempt(s),
              context' \in [1 .. MaxLaunch -> {"none", "open", "closed", "dead"}],
              UNCHANGED <<session, talk, heard>>
       PROVE  Typed'
  <2>1. webTry' \in [Calls -> 1 .. Attempts]
    BY <1>0, <1>10 DEF Web!EndOfAttempt
  <2>2. pc' \in [Calls -> {"ready", "queue", "over"} \cup Web!Holding \cup Web!Launching]
    BY <1>0, <1>10 DEF Web!EndOfAttempt
  <2>3. lock' \in [1 .. MaxLaunch -> Calls \cup {Web!None}]
    BY <1>0, <1>10 DEF Web!EndOfAttempt, Web!Released
  <2>4. /\ uses' \in [Calls -> 0 .. MaxLaunch]
        /\ prompt' \in [Calls -> 0 .. Prompts] /\ replies' \in [Calls -> 0 .. Prompts]
    BY <1>0, <1>10 DEF Web!EndOfAttempt
  <2> QED BY <1>0, <1>10, <2>1, <2>2, <2>3, <2>4
<1>11. ASSUME NEW s \in Calls,
              Web!FailLaunch(s) \/ Web!FailSetup(s) \/ Web!FailNewSession(s) \/ Web!Close(s) \/ Web!Cancel(s)
       PROVE  Typed'
  <2>1. \A c \in 0 .. MaxLaunch : Web!Closed(c) \in [1 .. MaxLaunch -> {"none", "open", "closed", "dead"}]
    BY <1>0 DEF Web!Closed
  <2>2. /\ context' \in [1 .. MaxLaunch -> {"none", "open", "closed", "dead"}]
        /\ Web!EndOfAttempt(s) /\ UNCHANGED <<session, talk, heard>>
    BY <1>0, <1>11, <2>1
       DEF Web!FailLaunch, Web!FailSetup, Web!FailNewSession, Web!Close, Web!Cancel
  <2> QED BY <1>10, <2>2
<1>12. ASSUME NEW s \in Calls, Web!Drop(s) PROVE Typed'
  BY <1>0, <1>12 DEF Web!Drop
<1>13. Typed'
  BY <1>1, <1>2, <1>3, <1>4, <1>5, <1>6, <1>7, <1>8, <1>9, <1>11, <1>12, <1>14, <1>15 DEF Web!Next
<1> QED BY <1>13 DEF Web!TypeOK, Said

LEMMA PromptsNext == ASSUME WebInv, Web!Next PROVE PromptsAreCounted'
<1>0. /\ pc \in [Calls -> {"ready", "queue", "over"} \cup Web!Holding \cup Web!Launching]
      /\ prompt \in [Calls -> 0 .. Prompts] /\ replies \in [Calls -> 0 .. Prompts]
      /\ Prompts \in Nat \ {0} /\ PromptsAreCounted
  BY RunAssumption DEF WebInv, Web!TypeOK
<1> USE DEF Web!Holding, Web!Launching, Web!Goes, PromptsAreCounted
<1>1. CASE \E c \in Web!Contexts : Web!Die(c)
  BY <1>0, <1>1 DEF Web!Die
<1>2. ASSUME NEW s \in Calls,
             \/ Web!Start(s) \/ Web!Launch(s) \/ Web!Register(s) \/ Web!Take(s) \/ Web!NewSession(s)
             \/ Web!FailPrompt(s) \/ Web!Drop(s)
      PROVE  PromptsAreCounted'
  BY <1>0, <1>2 DEF Web!Start, Web!Launch, Web!Register, Web!Take, Web!NewSession, Web!FailPrompt,
                    Web!Drop
<1>3. ASSUME NEW s \in Calls, Web!Fill(s) \/ Web!Send(s) PROVE PromptsAreCounted'
  BY <1>0, <1>3 DEF Web!Fill, Web!Send
<1>4. ASSUME NEW s \in Calls, Web!Collect(s) PROVE PromptsAreCounted'
  BY <1>0, <1>4 DEF Web!Collect
<1>5. ASSUME NEW s \in Calls, Web!Judge(s) PROVE PromptsAreCounted'
  BY <1>0, <1>5 DEF Web!Judge
<1>6. ASSUME NEW s \in Calls, Web!EndOfAttempt(s) PROVE PromptsAreCounted'
  BY <1>0, <1>6 DEF Web!EndOfAttempt
<1> QED BY <1>1, <1>2, <1>3, <1>4, <1>5, <1>6
        DEF Web!Next, Web!FailLaunch, Web!FailSetup, Web!FailNewSession, Web!Close, Web!Cancel

LEMMA ContextsNext == ASSUME WebInv, Web!Next PROVE ContextsAreApart'
<1>0. /\ pc \in [Calls -> {"ready", "queue", "over"} \cup Web!Holding \cup Web!Launching]
      /\ uses \in [Calls -> 0 .. MaxLaunch] /\ session \in 0 .. MaxLaunch /\ MaxLaunch \in Nat
      /\ context \in [1 .. MaxLaunch -> {"none", "open", "closed", "dead"}]
      /\ ContextsAreApart
  BY WebAssumption DEF WebInv, Web!TypeOK, Web!Contexts
<1> USE DEF Web!Holding, Web!Launching, Web!Goes, SetUp, Dropped
<1>1. ASSUME NEW c \in Web!Contexts, Web!Die(c) PROVE ContextsAreApart'
  BY <1>0, <1>1 DEF Web!Die, Web!Works, Web!Contexts, ContextsAreApart
<1>2. ASSUME NEW s \in Calls, Web!Start(s) PROVE ContextsAreApart'
  BY <1>0, <1>2 DEF Web!Start, ContextsAreApart
<1>3. ASSUME NEW s \in Calls, Web!Launch(s) PROVE ContextsAreApart'
  BY <1>0, <1>3 DEF Web!Launch, Web!Contexts, ContextsAreApart
<1>4. ASSUME NEW s \in Calls, Web!Register(s) PROVE ContextsAreApart'
  BY <1>0, <1>4 DEF Web!Register, Web!Works, ContextsAreApart
<1>5. ASSUME NEW s \in Calls, UNCHANGED <<uses, session, context>>,
             pc[s] \in {"queue", "new", "fill", "send", "wait", "judge"}, pc' = [pc EXCEPT ![s] = pc'[s]],
             pc'[s] \notin {"setup", "drop"}
      PROVE  ContextsAreApart'
  BY <1>0, <1>5 DEF ContextsAreApart
<1>6. ASSUME NEW s \in Calls,
             \/ Web!Take(s) \/ Web!NewSession(s) \/ Web!Fill(s) \/ Web!Send(s) \/ Web!Collect(s)
             \/ Web!Judge(s) \/ Web!FailPrompt(s)
      PROVE  ContextsAreApart'
  BY <1>0, <1>5, <1>6 DEF Web!Take, Web!NewSession, Web!Fill, Web!Send, Web!Collect, Web!Judge,
                          Web!FailPrompt
<1>7. ASSUME NEW s \in Calls, Web!Drop(s) PROVE ContextsAreApart'
  BY <1>0, <1>7 DEF Web!Drop, ContextsAreApart
<1>8. ASSUME NEW s \in Calls, Web!EndOfAttempt(s), session' = session,
             \/ context' = context
             \/ context' = Web!Closed(uses[s]) /\ uses[s] # 0 /\ (SetUp(s) \/ Dropped(s))
      PROVE  ContextsAreApart'
  <2>1. /\ uses' = [uses EXCEPT ![s] = 0] /\ pc' \in {[pc EXCEPT ![s] = "ready"], [pc EXCEPT ![s] = "over"]}
    BY <1>8 DEF Web!EndOfAttempt
  <2>2. /\ \A c \in 1 .. MaxLaunch : context[c] # "none" => context'[c] # "none"
        /\ session # 0 => context'[session] = context[session]
    BY <1>0, <1>8 DEF Web!Closed, ContextsAreApart
  <2> QED BY <1>0, <1>8, <2>1, <2>2 DEF ContextsAreApart
<1>9. ASSUME NEW s \in Calls,
             Web!FailLaunch(s) \/ Web!FailSetup(s) \/ Web!FailNewSession(s) \/ Web!Close(s) \/ Web!Cancel(s)
      PROVE  ContextsAreApart'
  BY <1>0, <1>8, <1>9
     DEF Web!FailLaunch, Web!FailSetup, Web!FailNewSession, Web!Close, Web!Cancel, ContextsAreApart
<1> QED BY <1>1, <1>2, <1>3, <1>4, <1>6, <1>7, <1>9 DEF Web!Next

\* What a prompt adds to the conversation of a page.
LEMMA SentIsOwn ==
  ASSUME NEW said1 \in Seq(Calls \X (1 .. Prompts)), NEW s \in Calls, NEW n \in 1 .. Prompts,
         OwnEnd(said1, s, n - 1)
  PROVE  OwnEnd(Append(said1, <<s, n>>), s, n)
<1> DEFINE T == Calls \X (1 .. Prompts)
           m == Len(said1)
           said2 == Append(said1, <<s, n>>)
<1>0. <<s, n>> \in T
  OBVIOUS
<1>1. /\ Len(said2) = m + 1 /\ m \in Nat /\ said2[m + 1] = <<s, n>>
      /\ \A i \in 1 .. m : said2[i] = said1[i]
  <2> HIDE DEF T
  <2> QED BY <1>0, AppendProperties, LenProperties DEF T
<1> HIDE DEF said2
<1>2. \A i \in 1 .. n : said2[m + 1 - n + i] = <<s, i>>
  <2>1. ASSUME NEW i \in 1 .. n PROVE said2[m + 1 - n + i] = <<s, i>>
    <3>1. CASE i = n
      BY <1>1, <3>1, RunAssumption
    <3>2. CASE i < n
      <4>1. /\ i \in 1 .. n - 1 /\ m + 1 - n + i = m - (n - 1) + i
            /\ m - (n - 1) + i \in 1 .. m
        BY <1>1, <3>2, RunAssumption DEF OwnEnd
      <4>2. PICK j \in 1 .. m : j = m - (n - 1) + i /\ j = m + 1 - n + i
        BY <4>1
      <4>3. said1[j] = <<s, i>>
        BY <4>1, <4>2 DEF OwnEnd
      <4>4. said2[j] = <<s, i>>
        BY <1>1, <4>3
      <4>5. j = Len(said1) + 1 - n + i
        BY <4>2
      <4> QED BY <4>4, <4>5, Zenon
    <3> QED BY <3>1, <3>2, RunAssumption
  <2> QED BY <2>1
<1>3. \A i \in 1 .. n : said2[Len(said2) - n + i] = <<s, i>>
  <2>1. ASSUME NEW i \in 1 .. n PROVE said2[Len(said2) - n + i] = <<s, i>>
    <3>1. Len(said2) - n + i = m + 1 - n + i
      BY <1>1
    <3>2. said2[m + 1 - n + i] = <<s, i>>
      BY <1>2
    <3> HIDE DEF m
    <3> QED BY <3>1, <3>2, Zenon
  <2> QED BY <2>1
<1>4. Len(said2) >= n /\ (s \in Fresh => Len(said2) = n)
  BY <1>1, RunAssumption DEF OwnEnd
<1>5. OwnEnd(said2, s, n)
  BY <1>3, <1>4 DEF OwnEnd
<1> QED BY <1>5 DEF said2

LEMMA PagesNext == ASSUME WebInv, Web!Next PROVE PagesAreOwn'
<1> DEFINE Said == Seq(Calls \X (1 .. Prompts))
<1> HIDE DEF Said
<1>0. /\ pc \in [Calls -> {"ready", "queue", "over"} \cup Web!Holding \cup Web!Launching]
      /\ uses \in [Calls -> 0 .. MaxLaunch] /\ MaxLaunch \in Nat /\ Prompts \in Nat \ {0}
      /\ prompt \in [Calls -> 0 .. Prompts] /\ lock \in [1 .. MaxLaunch -> Calls \cup {Web!None}]
      /\ talk \in [1 .. MaxLaunch -> Said] /\ heard \in [Calls -> Said]
      /\ Web!None \notin Calls
      /\ \A s \in Calls : pc[s] \in AtPage \cup {"queue"} => uses[s] \in 1 .. MaxLaunch
      /\ PagesAreOwn
  BY WebAssumption, RunAssumption
     DEF WebInv, Web!TypeOK, Web!Contexts, Said, ContextsAreApart, AtPage
<1> USE DEF Web!Goes, AtPage
<1>1. CASE \E c \in Web!Contexts : Web!Die(c)
  BY <1>0, <1>1 DEF Web!Die, PagesAreOwn
<1>2. ASSUME NEW s \in Calls, Web!Start(s) PROVE PagesAreOwn'
  BY <1>0, <1>2 DEF Web!Start, PagesAreOwn
<1>3. ASSUME NEW s \in Calls, Web!Launch(s) PROVE PagesAreOwn'
  BY <1>0, <1>3 DEF Web!Launch, PagesAreOwn
<1>4. ASSUME NEW s \in Calls, Web!Register(s) \/ Web!FailPrompt(s) PROVE PagesAreOwn'
  BY <1>0, <1>4 DEF Web!Register, Web!FailPrompt, PagesAreOwn
<1>5. ASSUME NEW s \in Calls, Web!Drop(s) PROVE PagesAreOwn'
  BY <1>0, <1>5 DEF Web!Drop, PagesAreOwn
<1>6. ASSUME NEW s \in Calls, Web!EndOfAttempt(s), UNCHANGED <<talk, heard>> PROVE PagesAreOwn'
  <2>1. /\ pc' \in {[pc EXCEPT ![s] = "ready"], [pc EXCEPT ![s] = "over"]}
        /\ \A o \in Calls \ {s} : uses'[o] = uses[o] /\ prompt'[o] = prompt[o]
    BY <1>0, <1>6 DEF Web!EndOfAttempt
  <2>2. \A c \in 1 .. MaxLaunch : lock[c] # s => lock'[c] = lock[c]
    BY <1>0, <1>6 DEF Web!EndOfAttempt, Web!Released, Web!Contexts
  <2> QED BY <1>0, <1>6, <2>1, <2>2 DEF PagesAreOwn
<1>7. ASSUME NEW s \in Calls, Web!Take(s) PROVE PagesAreOwn'
  <2>1. lock[uses[s]] = Web!None /\ uses[s] \in 1 .. MaxLaunch /\ prompt[s] = 0
        /\ pc' \in {[pc EXCEPT ![s] = "new"], [pc EXCEPT ![s] = "fill"]}
        /\ (s \in Fresh => pc'[s] = "new")
        /\ lock' = [lock EXCEPT ![uses[s]] = s]
        /\ UNCHANGED <<uses, prompt, talk, heard>>
    BY <1>0, <1>7 DEF Web!Take, WebInv, PromptsAreCounted
  <2>2. \A o \in Calls \ {s} : pc[o] \in AtPage => uses[o] # uses[s]
    BY <1>0, <2>1 DEF PagesAreOwn
  <2>3. \A o \in Calls : pc'[o] \in AtPage => lock'[uses'[o]] = o
    BY <1>0, <2>1, <2>2 DEF PagesAreOwn
  <2>4. s \notin Fresh => OwnEnd(talk[uses[s]], s, 0)
    <3>1. Len(talk[uses[s]]) \in Nat
      BY <1>0, <2>1, LenProperties DEF Said
    <3> QED BY <3>1 DEF OwnEnd
  <2> QED BY <1>0, <2>1, <2>3, <2>4 DEF PagesAreOwn
<1>8. ASSUME NEW s \in Calls, Web!NewSession(s) PROVE PagesAreOwn'
  <2>1. /\ uses[s] \in 1 .. MaxLaunch /\ prompt[s] = 0 /\ talk'[uses[s]] = <<>>
        /\ \A c \in 1 .. MaxLaunch : c # uses[s] => talk'[c] = talk[c]
        /\ pc' = [pc EXCEPT ![s] = "fill"] /\ UNCHANGED <<lock, uses, prompt, heard>>
    BY <1>0, <1>8 DEF Web!NewSession, WebInv, PromptsAreCounted
  <2>2. \A o \in Calls \ {s} : pc[o] \in AtPage => uses[o] # uses[s]
    BY <1>0, <1>8 DEF PagesAreOwn, Web!NewSession
  <2>3. OwnEnd(<<>>, s, 0)
    BY EmptySeq DEF OwnEnd
  <2> QED BY <1>0, <1>8, <2>1, <2>2, <2>3 DEF PagesAreOwn, Web!NewSession
<1>9. ASSUME NEW s \in Calls, Web!Fill(s) PROVE PagesAreOwn'
  BY <1>0, <1>9 DEF Web!Fill, PagesAreOwn
<1>10. ASSUME NEW s \in Calls, Web!Send(s) PROVE PagesAreOwn'
  <2>1. /\ uses[s] \in 1 .. MaxLaunch /\ prompt[s] \in 1 .. Prompts
        /\ talk'[uses[s]] = Append(talk[uses[s]], <<s, prompt[s]>>)
        /\ \A c \in 1 .. MaxLaunch : c # uses[s] => talk'[c] = talk[c]
        /\ pc' = [pc EXCEPT ![s] = "wait"] /\ UNCHANGED <<lock, uses, prompt, heard>>
    BY <1>0, <1>10 DEF Web!Send, WebInv, PromptsAreCounted
  <2>2. \A o \in Calls \ {s} : pc[o] \in AtPage => uses[o] # uses[s]
    BY <1>0, <1>10 DEF PagesAreOwn, Web!Send
  <2>3. OwnEnd(talk'[uses[s]], s, prompt[s])
    <3>1. OwnEnd(talk[uses[s]], s, prompt[s] - 1) /\ talk[uses[s]] \in Said
      BY <1>0, <1>10, <2>1 DEF PagesAreOwn, Web!Send
    <3> QED BY <2>1, <3>1, SentIsOwn DEF Said
  <2> QED BY <1>0, <1>10, <2>1, <2>2, <2>3 DEF PagesAreOwn, Web!Send
<1>11. ASSUME NEW s \in Calls, Web!Collect(s) PROVE PagesAreOwn'
  BY <1>0, <1>11 DEF Web!Collect, PagesAreOwn
<1>12. ASSUME NEW s \in Calls, Web!Judge(s) PROVE PagesAreOwn'
  <2>1. CASE prompt[s] < Prompts
    BY <1>0, <1>12, <2>1 DEF Web!Judge, PagesAreOwn
  <2>2. CASE ~(prompt[s] < Prompts)
    <3>1. /\ pc' = [pc EXCEPT ![s] = "over"] /\ UNCHANGED <<uses, prompt, talk, heard>>
          /\ \A c \in 1 .. MaxLaunch : lock[c] # s => lock'[c] = lock[c]
      BY <1>0, <1>12, <2>2 DEF Web!Judge, Web!Released, Web!Contexts
    <3> QED BY <1>0, <3>1 DEF PagesAreOwn
  <2> QED BY <2>1, <2>2
<1> QED BY <1>1, <1>2, <1>3, <1>4, <1>5, <1>6, <1>7, <1>8, <1>9, <1>10, <1>11, <1>12
        DEF Web!Next, Web!FailLaunch, Web!FailSetup, Web!FailNewSession, Web!Close, Web!Cancel

LEMMA NextWeb == WebInv /\ [SampleNext]_sampleVars => WebInv'
<1> SUFFICES ASSUME WebInv, [SampleNext]_sampleVars PROVE WebInv'
  OBVIOUS
<1>1. CASE Web!Next
  BY <1>1, WebTypeNext, PromptsNext, ContextsNext, PagesNext DEF WebInv
<1>2. CASE UNCHANGED webVars
  <2>1. Web!TypeOK'
    BY <1>2 DEF webVars, WebInv, Web!TypeOK
  <2>2. PromptsAreCounted' /\ ContextsAreApart' /\ PagesAreOwn'
    BY <1>2 DEF webVars, WebInv, PromptsAreCounted, ContextsAreApart, PagesAreOwn, SetUp, Dropped
  <2> QED BY <2>1, <2>2 DEF WebInv
<1> QED BY <1>1, <1>2, OnePartSteps

\* A conversation that ends with a call's prompts has them as its tail.
LEMMA TailIsOwn ==
  ASSUME NEW said1 \in Seq(Calls \X (1 .. Prompts)), NEW s \in Calls, NEW n \in 1 .. Prompts,
         OwnEnd(said1, s, n)
  PROVE  /\ Len(said1) - n >= 0
         /\ SubSeq(said1, Len(said1) - n + 1, Len(said1)) = [i \in 1 .. n |-> <<s, i>>]
         /\ s \in Fresh => Len(said1) - n = 0
<1> DEFINE m == Len(said1)
           own == SubSeq(said1, m - n + 1, m)
<1>1. m \in Nat /\ m >= n /\ m - n + 1 \in 1 .. m + 1 /\ n \in Nat
  <2> DEFINE T == Calls \X (1 .. Prompts)
  <2> HIDE DEF T
  <2>1. said1 \in Seq(T)
    BY DEF T
  <2>2. m \in Nat
    BY <2>1, LenProperties
  <2> QED BY <2>2, RunAssumption DEF OwnEnd
<1>2. /\ Len(own) = n
      /\ own \in Seq(Calls \X (1 .. Prompts))
      /\ \A i \in 1 .. n : own[i] = said1[m - n + i]
  <2> DEFINE T == Calls \X (1 .. Prompts)
  <2> HIDE DEF T
  <2>1. said1 \in Seq(T)
    BY DEF T
  <2>2. \A i \in m - n + 1 .. m : i \in 1 .. m
    BY <1>1
  <2>3. /\ Len(own) = (IF m - n + 1 <= m THEN m - (m - n + 1) + 1 ELSE 0)
        /\ own \in Seq(T)
        /\ \A i \in 1 .. m - (m - n + 1) + 1 : own[i] = said1[m - n + 1 + i - 1]
    <3> HIDE DEF m
    <3> QED BY <1>1, <2>1, <2>2, SubSeqProperties DEF m
  <2> HIDE DEF own
  <2>4. Len(own) = n
    BY <1>1, <2>3
  <2>5. \A i \in 1 .. n : own[i] = said1[m - n + i]
    <3>1. \A i \in 1 .. n : i \in 1 .. m - (m - n + 1) + 1 /\ m - n + 1 + i - 1 = m - n + i
      BY <1>1
    <3> QED BY <2>3, <3>1
  <2>6. own \in Seq(Calls \X (1 .. Prompts))
    BY <2>3 DEF T
  <2> QED BY <2>4, <2>5, <2>6
<1> HIDE DEF own
<1>3. own = [i \in 1 .. n |-> <<s, i>>]
  <2>1. own \in [1 .. n -> Calls \X (1 .. Prompts)]
    <3> DEFINE T == Calls \X (1 .. Prompts)
    <3> HIDE DEF T
    <3>1. own \in [1 .. n -> T]
      BY <1>2, LenProperties DEF T
    <3> QED BY <3>1 DEF T
  <2>2. \A i \in 1 .. n : own[i] = <<s, i>>
    BY <1>2 DEF OwnEnd
  <2> QED BY <2>1, <2>2
<1>4. SubSeq(said1, Len(said1) - n + 1, Len(said1)) = [i \in 1 .. n |-> <<s, i>>]
  BY <1>3 DEF own
<1>5. Len(said1) - n >= 0 /\ (s \in Fresh => Len(said1) - n = 0)
  BY <1>1 DEF OwnEnd
<1> QED BY <1>4, <1>5

\* "async with session._lock", "new_session ... fresh navigation", "Invalidate session
\* on error so next call gets a fresh browser" (web_executor.py): whoever shares the
\* browser, for any number of prompts, attempts and launches: SessionIsOwn.
THEOREM SessionsAreOwn == SampleSpec => []SessionIsOwn
<1>1. WebInv => Web!SessionIsOwn
  <2> SUFFICES ASSUME WebInv PROVE Web!SessionIsOwn
    OBVIOUS
  <2>1. Web!TalkIsOwn
    <3>1. ASSUME NEW s \in Calls, pc[s] = "judge"
          PROVE  /\ heard[s] \in Seq(Calls \X (1 .. Prompts)) /\ prompt[s] \in 1 .. Prompts
                 /\ OwnEnd(heard[s], s, prompt[s])
      BY <3>1, RunAssumption DEF WebInv, Web!TypeOK, PromptsAreCounted, PagesAreOwn
    <3>2. ASSUME NEW s \in Calls, pc[s] = "judge"
          PROVE  /\ Len(heard[s]) - prompt[s] >= 0
                 /\ SubSeq(heard[s], Len(heard[s]) - prompt[s] + 1, Len(heard[s]))
                      = [i \in 1 .. prompt[s] |-> <<s, i>>]
                 /\ s \in Fresh => Len(heard[s]) - prompt[s] = 0
      BY <3>1, <3>2, TailIsOwn
    <3> QED BY <3>2 DEF Web!TalkIsOwn
  <2>2. Web!RegisteredIsOpen
    BY DEF WebInv, ContextsAreApart, Web!RegisteredIsOpen
  <2> QED BY <2>1, <2>2 DEF WebInv, Web!SessionIsOwn
<1>2. WebInv => SessionIsOwn
  BY <1>1 DEF SessionIsOwn
<1> QED BY <1>2, WebStarts, NextWeb, PTL DEF SampleSpec
-----------------------------------------------------------------------------
(* Extraction *)

\* Texts stand below each other, on the screen.
TextsInv ==
  /\ texts \in Seq([len : Lengths, top : Nat, row : Nat])
  /\ \A i \in 1 .. Len(texts) : Extract!Bottom(i) <= Tall
  /\ \A i, j \in 1 .. Len(texts) : i < j => Extract!Bottom(i) <= Extract!Top(j)

\* What is below the head of a block and above the next head.
BlockOf(i) == {j \in Extract!Candidates : j >= i /\ \A h \in Extract!Heads : i < h => j < h}

\* A set of numbers below n has a greatest one: of the intervals from its members
\* to n, there is a least one.
LEMMA GreatestOf ==
  ASSUME NEW n \in Nat, NEW S, S \subseteq 0 .. n, S # {}
  PROVE  \E x \in S : \A y \in S : y <= x
<1> DEFINE above == {x .. n : x \in S}
<1>1. above \subseteq FiniteSubsetsOf(Nat) /\ above # {}
  <2>1. \A x \in S : x .. n \subseteq Nat /\ IsFiniteSet(x .. n)
    BY FS_Interval
  <2> QED BY <2>1 DEF FiniteSubsetsOf
<1>2. PICK a \in above : \A b \in above : ~(<<b, a>> \in StrictSubsetOrdering(Nat))
  <2> HIDE DEF above
  <2> QED BY <1>1, WFMin, FS_StrictSubsetOrderingWellFounded
<1>3. PICK x \in S : a = x .. n
  OBVIOUS
<1>4. ASSUME NEW y \in S, y > x
      PROVE  FALSE
  <2>1. y .. n \in SUBSET Nat /\ x .. n \in SUBSET Nat /\ y .. n \subseteq x .. n /\ y .. n # x .. n
    BY <1>4
  <2>2. <<y .. n, a>> \in StrictSubsetOrdering(Nat)
    BY <1>3, <2>1 DEF StrictSubsetOrdering
  <2> QED BY <1>2, <2>2
<1> QED BY <1>4

LEMMA LowestIs ==
  ASSUME NEW n \in Nat, NEW S, S \subseteq 1 .. n, S # {}
  PROVE  Extract!Lowest(S) \in S /\ \A j \in S : j <= Extract!Lowest(S)
<1>1. S \subseteq 0 .. n
  OBVIOUS
<1>2. \E x \in S : \A y \in S : y <= x
  BY <1>1, GreatestOf
<1> QED BY <1>2 DEF Extract!Lowest

LEMMA HighestIs ==
  ASSUME NEW n \in Nat, NEW S, S \subseteq 1 .. n, S # {}
  PROVE  Extract!Highest(S) \in S /\ \A j \in S : Extract!Highest(S) <= j
<1> DEFINE T == {n - x : x \in S}
<1>1. T \subseteq 0 .. n /\ T # {}
  <2>1. \A x \in S : n - x \in 0 .. n
    OBVIOUS
  <2> QED BY <2>1
<1>2. PICK t \in T : \A y \in T : y <= t
  <2> HIDE DEF T
  <2> QED BY <1>1, GreatestOf
<1>3. PICK x \in S : t = n - x
  OBVIOUS
<1>4. \A y \in S : x <= y
  BY <1>2, <1>3
<1> QED BY <1>4 DEF Extract!Highest

LEMMA TextsAre ==
  ASSUME TextsInv
  PROVE  /\ Len(texts) \in Nat /\ Extract!Candidates \subseteq 1 .. Len(texts)
         /\ Extract!Heads \subseteq Extract!Candidates
         /\ \A i \in 1 .. Len(texts) :
              /\ texts[i].len \in Nat /\ Extract!Top(i) \in Nat
              /\ Extract!Bottom(i) = Extract!Top(i) + 40
<1>1. Len(texts) \in Nat /\ DOMAIN texts = 1 .. Len(texts)
  BY LenProperties DEF TextsInv
<1>2. ASSUME NEW i \in 1 .. Len(texts)
      PROVE  /\ texts[i].len \in Nat /\ Extract!Top(i) \in Nat
             /\ Extract!Bottom(i) = Extract!Top(i) + 40
  <2>1. texts[i] \in [len : Lengths, top : Nat, row : Nat]
    BY <1>1, <1>2, ElementOfSeq DEF TextsInv
  <2>2. i # 0
    BY <1>1, <1>2
  <2> QED BY <2>1, <2>2, TextsAssumption DEF Extract!Top, Extract!Bottom, Extract!High
<1> QED BY <1>1, <1>2 DEF Extract!Candidates, Extract!Heads

LEMMA TextsStart == SampleInit => TextsInv
<1> SUFFICES ASSUME SampleInit PROVE TextsInv
  OBVIOUS
<1>1. texts = <<>>
  BY DEF SampleInit, Extract!Init
<1> QED BY <1>1, EmptySeq DEF TextsInv

LEMMA TextsNext == ASSUME TextsInv, Extract!Next PROVE TextsInv'
<1>1. PICK len \in Lengths, gap \in Gaps, begins \in BOOLEAN : Extract!Draw(len, gap, begins)
  BY DEF Extract!Next
<1>0. PICK n \in Nat : n = Len(texts)
  BY TextsAre
<1> DEFINE Text == [len : Lengths, top : Nat, row : Nat]
           r == IF begins \/ n = 0 THEN Extract!Row(n) + 1 ELSE Extract!Row(n)
           t == [len |-> len, top |-> Extract!Bottom(n) + gap, row |-> r]
<1>2. texts' = Append(texts, t) /\ Extract!Bottom(n) + gap + 40 <= Tall
  BY <1>0, <1>1 DEF Extract!Draw, Extract!High
<1>3. texts \in Seq(Text) /\ gap \in Nat
  BY TextsAssumption DEF TextsInv
<1>4. Extract!Bottom(n) \in Nat
  BY <1>0, TextsAre DEF Extract!Bottom
<1>5. Extract!Row(n) \in Nat
  <2>1. CASE n = 0
    BY <2>1 DEF Extract!Row
  <2>2. CASE n # 0
    <3>1. texts[n] \in Text
      <4> HIDE DEF Text
      <4> QED BY <1>0, <1>3, <2>2, ElementOfSeq
    <3> QED BY <2>2, <3>1 DEF Extract!Row
  <2> QED BY <2>1, <2>2
<1>6. t \in Text
  <2>1. r \in Nat
    BY <1>5
  <2> HIDE DEF r
  <2> QED BY <1>3, <1>4, <2>1
<1>7. /\ texts' \in Seq(Text) /\ Len(texts') = n + 1
      /\ texts'[n + 1] = t /\ \A i \in 1 .. n : texts'[i] = texts[i]
  <2> HIDE DEF Text, t
  <2> QED BY <1>0, <1>2, <1>3, <1>6, AppendProperties
<1>8. t.top = Extract!Bottom(n) + gap
  OBVIOUS
<1> HIDE DEF t
<1>9. /\ \A i \in 1 .. n : Extract!Bottom(i)' = Extract!Bottom(i) /\ Extract!Top(i)' = Extract!Top(i)
      /\ Extract!Top(n + 1)' = Extract!Bottom(n) + gap
      /\ Extract!Bottom(n + 1)' = Extract!Bottom(n) + gap + 40
  <2>1. \A i \in 1 .. n + 1 : i # 0
    OBVIOUS
  <2>2. \A i \in 1 .. n : Extract!Bottom(i)' = Extract!Bottom(i) /\ Extract!Top(i)' = Extract!Top(i)
    BY <1>7, <2>1 DEF Extract!Bottom, Extract!Top
  <2>3. Extract!Top(n + 1)' = Extract!Bottom(n) + gap
    BY <1>7, <1>8 DEF Extract!Top
  <2>4. Extract!Bottom(n + 1)' = Extract!Top(n + 1)' + 40
    BY <1>3, <2>1 DEF Extract!Bottom, Extract!Top, Extract!High
  <2> QED BY <2>2, <2>3, <2>4
<1>10. \A i \in 1 .. n : Extract!Bottom(i) \in Nat /\ Extract!Bottom(i) <= Extract!Bottom(n)
  <2> SUFFICES ASSUME NEW i \in 1 .. n
               PROVE  Extract!Bottom(i) \in Nat /\ Extract!Bottom(i) <= Extract!Bottom(n)
    OBVIOUS
  <2>1. n \in 1 .. n
    BY <1>3
  <2>2. CASE i = n
    BY <1>4, <2>2
  <2>3. CASE i # n
    <3>1. i < n
      BY <1>3, <2>3
    <3>2. Extract!Bottom(i) <= Extract!Top(n)
      BY <1>0, <2>1, <3>1 DEF TextsInv
    <3>3. /\ Extract!Bottom(i) \in Nat /\ Extract!Top(n) \in Nat
          /\ Extract!Bottom(n) = Extract!Top(n) + 40
      <4>1. Extract!Bottom(i) = Extract!Top(i) + 40 /\ Extract!Top(i) \in Nat
        BY <1>0, TextsAre
      <4> QED BY <1>0, <2>1, <4>1, TextsAre
    <3> QED BY <3>2, <3>3
  <2> QED BY <2>2, <2>3
<1>11. \A i \in 1 .. n + 1 : i \in 1 .. n \/ i = n + 1
  BY <1>3
<1>12. \A i \in 1 .. n + 1 : Extract!Bottom(i)' <= Tall
  <2>1. \A i \in 1 .. n : Extract!Bottom(i) <= Tall
    BY <1>0 DEF TextsInv
  <2>2. Extract!Bottom(n + 1)' <= Tall
    BY <1>2, <1>9
  <2> QED BY <1>9, <1>11, <2>1, <2>2
<1>13. \A i, j \in 1 .. n + 1 : i < j => Extract!Bottom(i)' <= Extract!Top(j)'
  <2> SUFFICES ASSUME NEW i \in 1 .. n + 1, NEW j \in 1 .. n + 1, i < j
               PROVE  Extract!Bottom(i)' <= Extract!Top(j)'
    OBVIOUS
  <2>1. i \in 1 .. n
    BY <1>3
  <2>2. CASE j \in 1 .. n
    BY <1>0, <1>9, <2>1, <2>2 DEF TextsInv
  <2>3. CASE j = n + 1
    <3>1. /\ Extract!Bottom(i) \in Nat /\ Extract!Bottom(i) <= Extract!Bottom(n)
          /\ Extract!Top(j)' = Extract!Bottom(n) + gap /\ Extract!Bottom(i)' = Extract!Bottom(i)
      BY <1>9, <1>10, <2>1, <2>3
    <3> QED BY <1>3, <1>4, <3>1
  <2> QED BY <1>11, <2>2, <2>3
<1> QED BY <1>7, <1>12, <1>13 DEF TextsInv

LEMMA NextTexts == TextsInv /\ [SampleNext]_sampleVars => TextsInv'
<1> SUFFICES ASSUME TextsInv, [SampleNext]_sampleVars PROVE TextsInv'
  OBVIOUS
<1>1. CASE UNCHANGED extractVars
  BY <1>1 DEF extractVars, TextsInv, Extract!Bottom, Extract!Top
<1> QED BY <1>1, OnePartSteps, TextsNext

\* Suggestions are left out, but never all there is.
LEMMA SomeAreKept ==
  ASSUME NEW groups, groups # {}, NEW substantial
  PROVE  /\ Extract!WithoutChips(groups, substantial) \subseteq groups
         /\ Extract!WithoutChips(groups, substantial) # {}
         /\ \A g \in groups : g \notin Extract!WithoutChips(groups, substantial)
              => substantial /\ Extract!Chips(g)
BY DEF Extract!WithoutChips

\* "Protects multi-paragraph short-line replies": the row with the lowest text that
\* is not left out.
LEMMA RowIsWhole == TextsInv => Extract!LatestRowIsWhole
<1> DEFINE C == Extract!Candidates
           long == \E i \in C : texts[i].len >= 40
           left == Extract!WithoutChips(Extract!Bubbles, long)
           lowest == Extract!Lowest(UNION left)
           response == Extract!LatestBubble
<1> SUFFICES ASSUME TextsInv, found, C # {}
             PROVE  /\ response \in Extract!Bubbles
                    /\ \A r \in Extract!Bubbles : Extract!Lowest(r) > Extract!Lowest(response) =>
                         Extract!Chips(r) /\ \E i \in C \ r : texts[i].len >= 40
  BY DEF Extract!LatestRowIsWhole, Extract!Response
<1>1. PICK n \in Nat : n = Len(texts) /\ C \subseteq 1 .. n /\ \A i \in 1 .. n : texts[i].len \in Nat
  BY TextsAre
<1>2. Extract!Bubbles # {} /\ \A r \in Extract!Bubbles : r # {} /\ r \subseteq C
  <2> DEFINE rowOf(i) == {j \in C : Extract!Row(j) = Extract!Row(i)}
  <2>1. Extract!Bubbles = {rowOf(i) : i \in C}
    BY DEF Extract!Bubbles
  <2>2. \A i \in C : i \in rowOf(i) /\ rowOf(i) \subseteq C
    OBVIOUS
  <2> HIDE DEF rowOf, C
  <2> QED BY <2>1, <2>2
<1>3. /\ left \subseteq Extract!Bubbles /\ left # {}
      /\ \A r \in Extract!Bubbles : r \notin left => long /\ Extract!Chips(r)
  BY <1>2, SomeAreKept
<1>4. UNION left \subseteq 1 .. n /\ UNION left # {}
  <2> HIDE DEF left, C
  <2> QED BY <1>1, <1>2, <1>3
<1>5. lowest \in UNION left /\ \A j \in UNION left : j <= lowest
  <2> HIDE DEF left
  <2> QED BY <1>4, LowestIs
<1>6. response = CHOOSE b \in left : lowest \in b
  BY DEF Extract!LatestBubble
<1>7. response \in left /\ lowest \in response
  <2> HIDE DEF left, lowest, response
  <2> QED BY <1>5, <1>6
<1> HIDE DEF left, lowest, response
<1>8. ASSUME NEW r \in Extract!Bubbles, Extract!Lowest(r) > Extract!Lowest(response)
      PROVE  Extract!Chips(r) /\ \E i \in C \ r : texts[i].len >= 40
  <2>1. Extract!Lowest(response) \in 1 .. n /\ lowest \in 1 .. n /\ lowest <= Extract!Lowest(response)
    BY <1>1, <1>2, <1>3, <1>7, LowestIs
  <2>2. Extract!Lowest(r) \in r /\ Extract!Lowest(r) \in 1 .. n
    <3>1. r \subseteq 1 .. n /\ r # {}
      BY <1>1, <1>2, <1>8
    <3> QED BY <3>1, LowestIs
  <2>3. r \notin left
    <3> SUFFICES ASSUME r \in left PROVE FALSE
      OBVIOUS
    <3>1. Extract!Lowest(r) <= lowest
      BY <1>5, <2>2
    <3>2. Extract!Lowest(response) \in Nat /\ lowest \in Nat /\ Extract!Lowest(r) \in Nat
      BY <2>1, <2>2
    <3> QED BY <1>8, <2>1, <3>1, <3>2
  <2>4. long /\ Extract!Chips(r)
    BY <1>3, <2>3
  <2>5. PICK i \in C : texts[i].len >= 40
    BY <2>4
  <2>6. i \notin r
    <3>1. i \in r => texts[i].len <= 24
      BY <2>4 DEF Extract!Chips
    <3> QED BY <1>1, <2>5, <3>1
  <2> QED BY <2>4, <2>5, <2>6
<1> QED BY <1>3, <1>7, <1>8

\* A block begins with its head, and only with that one.
LEMMA BlocksAre ==
  ASSUME TextsInv, NEW i \in Extract!Heads
  PROVE  /\ i \in BlockOf(i) /\ BlockOf(i) \subseteq 1 .. Len(texts)
         /\ BlockOf(i) \subseteq Extract!Candidates
         /\ Extract!Highest(BlockOf(i)) = i
         /\ Extract!Lowest(BlockOf(i)) \in BlockOf(i)
         /\ \A j \in BlockOf(i) : j <= Extract!Lowest(BlockOf(i)) /\ (j = i \/ j \notin Extract!Heads)
<1>1. PICK n \in Nat : n = Len(texts) /\ Extract!Candidates \subseteq 1 .. n /\ Extract!Heads \subseteq Extract!Candidates
  BY TextsAre
<1>2. i \in Nat /\ i \in BlockOf(i) /\ BlockOf(i) \subseteq Extract!Candidates
  BY <1>1 DEF BlockOf
<1>3. BlockOf(i) \subseteq 1 .. n
  BY <1>1, <1>2
<1>4. /\ Extract!Highest(BlockOf(i)) \in BlockOf(i) /\ Extract!Highest(BlockOf(i)) <= i
      /\ Extract!Lowest(BlockOf(i)) \in BlockOf(i)
      /\ \A j \in BlockOf(i) : j <= Extract!Lowest(BlockOf(i))
  BY <1>2, <1>3, LowestIs, HighestIs
<1>5. \A j \in BlockOf(i) : j \in Nat /\ j >= i /\ (j = i \/ j \notin Extract!Heads)
  <2> SUFFICES ASSUME NEW j \in BlockOf(i) PROVE j \in Nat /\ j >= i /\ (j = i \/ j \notin Extract!Heads)
    OBVIOUS
  <2>1. j \in Nat /\ j >= i /\ \A h \in Extract!Heads : i < h => j < h
    BY <1>3 DEF BlockOf
  <2>2. j \in Extract!Heads /\ i < j => j < j
    BY <2>1
  <2> QED BY <1>2, <2>1, <2>2
<1>6. Extract!Highest(BlockOf(i)) = i
  BY <1>2, <1>4, <1>5
<1> QED BY <1>1, <1>2, <1>3, <1>4, <1>5, <1>6

\* Of two blocks one is above the other, all of it.
LEMMA BlocksApart ==
  ASSUME TextsInv, NEW i \in Extract!Heads, NEW k \in Extract!Heads, i < k
  PROVE  Extract!Lowest(BlockOf(i)) < k /\ k <= Extract!Lowest(BlockOf(k))
<1>1. Extract!Lowest(BlockOf(i)) \in BlockOf(i) /\ k \in BlockOf(k)
  BY BlocksAre
<1> QED BY <1>1, BlocksAre DEF BlockOf

LEMMA BlocksKept ==
  ASSUME TextsInv, Extract!Candidates # {}
  PROVE  /\ Extract!Blocks = {BlockOf(i) : i \in Extract!Heads}
         /\ Extract!KeptBlocks \subseteq Extract!Blocks
<1>1. Extract!Blocks = {BlockOf(i) : i \in Extract!Heads}
  BY DEF Extract!Blocks, BlockOf
<1>2. Extract!KeptBlocks \subseteq Extract!Blocks
  BY DEF Extract!KeptBlocks, Extract!WithoutChips
<1> QED BY <1>1, <1>2

\* The block that is next above another one of the kept.
LEMMA NextAbove ==
  ASSUME TextsInv, NEW blocks, blocks \subseteq {BlockOf(i) : i \in Extract!Heads},
         NEW b \in blocks, NEW a \in blocks, Extract!Lowest(a) < Extract!Lowest(b)
  PROVE  \E c \in blocks : Extract!NextBelow(c, b, blocks) /\ Extract!Lowest(a) <= Extract!Lowest(c)
<1>1. PICK n \in Nat : n = Len(texts)
  BY TextsAre
<1>2. \A c \in blocks : Extract!Lowest(c) \in 1 .. n
  BY <1>1, BlocksAre
<1> DEFINE ends == {x \in 1 .. n : x < Extract!Lowest(b) /\ \E c \in blocks : x = Extract!Lowest(c)}
<1>3. ends \subseteq 0 .. n /\ Extract!Lowest(a) \in ends
  BY <1>2
<1>4. PICK x \in ends : \A y \in ends : y <= x
  <2> HIDE DEF ends
  <2> QED BY <1>3, GreatestOf
<1>5. PICK c \in blocks : x = Extract!Lowest(c)
  OBVIOUS
<1>6. ASSUME NEW d \in blocks, Extract!Lowest(c) < Extract!Lowest(d), Extract!Lowest(d) < Extract!Lowest(b)
      PROVE  FALSE
  <2>1. Extract!Lowest(d) \in ends
    BY <1>2, <1>6
  <2>2. Extract!Lowest(d) <= x /\ x \in Nat /\ Extract!Lowest(d) \in Nat
    BY <1>2, <1>4, <2>1
  <2> QED BY <1>5, <1>6, <2>2
<1>7. Extract!NextBelow(c, b, blocks)
  BY <1>5, <1>6 DEF Extract!NextBelow
<1>8. Extract!Lowest(a) <= Extract!Lowest(c)
  BY <1>3, <1>4, <1>5
<1> QED BY <1>7, <1>8

\* What is above a text is not lower than the lowest candidate above it.
LEMMA NearerIs ==
  ASSUME TextsInv, NEW k \in Extract!Candidates, NEW j \in Extract!Above(k), NEW gap \in Nat,
         Extract!Top(k) - Extract!Bottom(j) <= gap
  PROVE  Extract!Near(k, gap)
<1>1. PICK n \in Nat : n = Len(texts) /\ Extract!Candidates \subseteq 1 .. n
  BY TextsAre
<1>2. Extract!Above(k) \subseteq 1 .. n /\ Extract!Above(k) # {}
  BY <1>1 DEF Extract!Above
<1>3. PICK l \in Extract!Above(k) : l = Extract!Lowest(Extract!Above(k)) /\ j <= l
  BY <1>2, LowestIs
<1>4. l \in 1 .. n /\ j \in 1 .. n /\ k \in 1 .. n
  BY <1>1, <1>2
<1>5. /\ Extract!Top(k) \in Nat /\ Extract!Top(l) \in Nat /\ Extract!Top(j) \in Nat
      /\ Extract!Bottom(l) = Extract!Top(l) + 40 /\ Extract!Bottom(j) = Extract!Top(j) + 40
  BY <1>1, <1>4, TextsAre
<1>6. j < l => Extract!Bottom(j) <= Extract!Top(l)
  BY <1>1, <1>4 DEF TextsInv
<1>7. Extract!Bottom(j) <= Extract!Bottom(l)
  BY <1>3, <1>4, <1>5, <1>6
<1>8. Extract!Top(k) - Extract!Bottom(l) <= gap
  BY <1>5, <1>7
<1> QED BY <1>2, <1>3, <1>8 DEF Extract!Near

\* "Stopping at genuine message boundaries (which have larger gaps)": within a block
\* texts are near each other, and the block above one that was joined reaches it.
LEMMA ExpandedIsNear ==
  ASSUME TextsInv, NEW blocks, blocks \subseteq {BlockOf(i) : i \in Extract!Heads},
         NEW w, NEW r, r = Extract!Expand(w, blocks), NEW k \in r, k # Extract!Highest(r)
  PROVE  Extract!Near(k, 150)
<1>1. PICK n \in Nat : n = Len(texts) /\ Extract!Candidates \subseteq 1 .. n /\ Extract!Heads \subseteq Extract!Candidates
  BY TextsAre
<1>2. PICK b \in blocks : /\ k \in b /\ Extract!Lowest(b) <= Extract!Lowest(w)
  BY DEF Extract!Expand
<1>3. PICK i \in Extract!Heads : b = BlockOf(i)
  OBVIOUS
<1>4. k \in Extract!Candidates /\ k \in 1 .. n /\ i \in 1 .. n
  BY <1>1, <1>2, <1>3, BlocksAre
<1>5. CASE k # i
  <2>1. k \notin Extract!Heads
    BY <1>2, <1>3, <1>5, BlocksAre
  <2>2. Extract!Near(k, 90)
    BY <1>4, <2>1 DEF Extract!Heads
  <2>3. PICK l \in Extract!Above(k) : l = Extract!Lowest(Extract!Above(k)) /\ Extract!Top(k) - Extract!Bottom(l) <= 90
    <3>1. Extract!Above(k) # {} /\ Extract!Above(k) \subseteq 1 .. n
      BY <1>1, <2>2 DEF Extract!Near, Extract!Above
    <3>2. Extract!Lowest(Extract!Above(k)) \in Extract!Above(k)
      BY <3>1, LowestIs
    <3> QED BY <2>2, <3>2 DEF Extract!Near
  <2>4. Extract!Top(k) - Extract!Bottom(l) <= 150
    <3>1. l \in 1 .. n
      BY <1>1, <2>3 DEF Extract!Above
    <3>2. Extract!Top(k) \in Nat /\ Extract!Top(l) \in Nat /\ Extract!Bottom(l) = Extract!Top(l) + 40
      BY <1>1, <1>4, <3>1, TextsAre
    <3> QED BY <2>3, <3>2
  <2> QED BY <1>4, <2>3, <2>4, NearerIs
<1>6. CASE k = i
  <2>1. r \subseteq 1 .. n /\ r # {}
    <3>1. \A c \in blocks : c \subseteq 1 .. n
      BY <1>1, BlocksAre
    <3> QED BY <3>1 DEF Extract!Expand
  <2>2. PICK m \in r : m = Extract!Highest(r) /\ m < k
    <3>1. Extract!Highest(r) \in r /\ Extract!Highest(r) <= k
      BY <2>1, HighestIs
    <3> QED BY <1>4, <2>1, <3>1
  <2>3. PICK a \in blocks :
          /\ m \in a
          /\ \A c, d \in blocks :
               Extract!Lowest(a) <= Extract!Lowest(c) /\ Extract!Lowest(d) <= Extract!Lowest(w)
                 /\ Extract!NextBelow(c, d, blocks) => Extract!Reaches(c, d)
    BY <2>2 DEF Extract!Expand
  <2>4. PICK h \in Extract!Heads : a = BlockOf(h)
    OBVIOUS
  <2>5. h < k
    <3>1. h \in Nat /\ m \in Nat /\ h <= m
      BY <1>1, <2>1, <2>3, <2>4 DEF BlockOf
    <3> QED BY <1>4, <2>2, <3>1
  <2>6. Extract!Lowest(a) < Extract!Lowest(b)
    <3>1. Extract!Lowest(a) \in 1 .. n /\ Extract!Lowest(b) \in 1 .. n
      BY <1>1, <1>3, <2>4, BlocksAre
    <3>2. Extract!Lowest(a) < k /\ k <= Extract!Lowest(b)
      BY <1>3, <1>6, <2>4, <2>5, BlocksApart
    <3> QED BY <1>4, <3>1, <3>2
  <2>7. PICK c \in blocks : Extract!NextBelow(c, b, blocks) /\ Extract!Lowest(a) <= Extract!Lowest(c)
    BY <2>6, NextAbove
  <2>8. Extract!Reaches(c, b)
    BY <1>2, <2>3, <2>7
  <2>9. PICK g \in Extract!Heads : c = BlockOf(g)
    OBVIOUS
  <2>10. g \in 1 .. n /\ Extract!Lowest(c) \in 1 .. n /\ Extract!Lowest(b) \in 1 .. n
         /\ Extract!Lowest(c) \in Extract!Candidates /\ g <= Extract!Lowest(c)
    BY <1>1, <1>3, <2>9, BlocksAre
  <2>11. Extract!Lowest(c) < Extract!Lowest(b)
    BY <2>7 DEF Extract!NextBelow
  <2>12. Extract!Lowest(c) < k
    <3>1. CASE g < k
      BY <1>6, <2>9, <3>1, BlocksApart
    <3>2. CASE g = k
      BY <1>3, <1>6, <2>9, <2>10, <2>11, <3>2
    <3>3. CASE k < g
      <4>1. Extract!Lowest(b) < g
        BY <1>3, <1>6, <2>9, <3>3, BlocksApart
      <4> QED BY <2>10, <2>11, <4>1
    <3> QED BY <1>4, <2>10, <3>1, <3>2, <3>3
  <2>13. Extract!Lowest(c) \in Extract!Above(k)
    BY <2>10, <2>12 DEF Extract!Above
  <2>14. Extract!Top(k) - Extract!Bottom(Extract!Lowest(c)) <= 150
    <3>1. Extract!Highest(b) = k
      BY <1>3, <1>6, BlocksAre
    <3> QED BY <2>8, <3>1 DEF Extract!Reaches
  <2> QED BY <1>4, <2>13, <2>14, NearerIs
<1> QED BY <1>5, <1>6

LEMMA BoundaryStays == TextsInv => Extract!BoundaryIsKept
<1> SUFFICES ASSUME TextsInv, ~found, NEW k \in Extract!Response, k # Extract!Highest(Extract!Response)
             PROVE  Extract!Near(k, 150)
  BY DEF Extract!BoundaryIsKept
<1>1. Extract!Candidates # {}
  BY DEF Extract!Response
<1>2. Extract!Response = Extract!Expand(Extract!Winner(Extract!KeptBlocks), Extract!KeptBlocks)
  BY <1>1 DEF Extract!Response
<1>3. Extract!KeptBlocks \subseteq {BlockOf(i) : i \in Extract!Heads}
  BY <1>1, BlocksKept
<1> QED BY <1>2, <1>3, ExpandedIsNear

\* The characters of some texts.
CharsOf(S) == UNION {{i} \X (1 .. texts[i].len) : i \in S}

LEMMA CharsAreFinite ==
  ASSUME TextsInv, NEW S, S \subseteq 1 .. Len(texts)
  PROVE  IsFiniteSet(S) /\ IsFiniteSet(CharsOf(S)) /\ Extract!LenOf(S) = Cardinality(CharsOf(S))
<1>1. IsFiniteSet(S)
  <2>1. IsFiniteSet(1 .. Len(texts)) /\ S \in SUBSET (1 .. Len(texts))
    BY TextsAre, FS_Interval
  <2> QED BY <2>1, FS_Subset
<1> DEFINE T == {{i} \X (1 .. texts[i].len) : i \in S}
           f == [i \in S |-> {i} \X (1 .. texts[i].len)]
<1>2. f \in Surjection(S, T)
  <2>1. f \in [S -> T]
    OBVIOUS
  <2>2. \A t \in T : \E i \in S : f[i] = t
    OBVIOUS
  <2> HIDE DEF f, T
  <2> QED BY <2>1, <2>2 DEF Surjection
<1>3. IsFiniteSet(T)
  <2> HIDE DEF f, T
  <2> QED BY <1>1, <1>2, FS_Surjection
<1>4. \A t \in T : IsFiniteSet(t)
  <2> SUFFICES ASSUME NEW i \in S PROVE IsFiniteSet({i} \X (1 .. texts[i].len))
    OBVIOUS
  <2>1. PICK l \in Int : l = texts[i].len
    BY TextsAre
  <2>2. IsFiniteSet(1 .. l)
    BY FS_Interval
  <2>3. IsFiniteSet({i})
    BY FS_Singleton
  <2>4. IsFiniteSet({i} \X (1 .. l))
    BY <2>2, <2>3, FS_Product
  <2> QED BY <2>1, <2>4
<1>5. IsFiniteSet(UNION T)
  <2> HIDE DEF T
  <2> QED BY <1>3, <1>4, FS_UNION
<1>6. CharsOf(S) = UNION T
  BY DEF CharsOf
<1>7. Extract!LenOf(S) = Extract!Cardinality(CharsOf(S))
  BY DEF Extract!LenOf, CharsOf
<1>8. Extract!Cardinality(CharsOf(S)) = Cardinality(CharsOf(S))
  BY DEF Extract!Cardinality, Cardinality
<1> QED BY <1>1, <1>5, <1>6, <1>7, <1>8

\* More texts have more characters.
LEMMA LengthsGrow ==
  ASSUME TextsInv, NEW T \in SUBSET (1 .. Len(texts)), NEW S \in SUBSET T, S # {}
  PROVE  /\ Extract!TextLen(S) \in Nat /\ Extract!TextLen(T) \in Nat
         /\ Extract!TextLen(S) <= Extract!TextLen(T)
<1>1. /\ IsFiniteSet(S) /\ IsFiniteSet(CharsOf(S)) /\ Extract!LenOf(S) = Cardinality(CharsOf(S))
      /\ IsFiniteSet(T) /\ IsFiniteSet(CharsOf(T)) /\ Extract!LenOf(T) = Cardinality(CharsOf(T))
  <2>1. S \subseteq 1 .. Len(texts)
    OBVIOUS
  <2> QED BY <2>1, CharsAreFinite
<1>2. Cardinality(CharsOf(S)) <= Cardinality(CharsOf(T))
  <2>1. CharsOf(S) \in SUBSET CharsOf(T)
    BY DEF CharsOf
  <2> QED BY <1>1, <2>1, FS_Subset
<1>3. Cardinality(S) <= Cardinality(T) /\ Cardinality(S) # 0
  <2>1. S \in SUBSET T
    OBVIOUS
  <2> QED BY <1>1, <2>1, FS_Subset, FS_EmptySet
<1>4. \A U : Extract!Cardinality(U) = Cardinality(U)
  BY DEF Extract!Cardinality, Cardinality
<1>5. /\ Extract!TextLen(S) = Cardinality(CharsOf(S)) + Cardinality(S) - 1
      /\ Extract!TextLen(T) = Cardinality(CharsOf(T)) + Cardinality(T) - 1
  BY <1>1, <1>4 DEF Extract!TextLen
<1>6. /\ Cardinality(S) \in Nat /\ Cardinality(T) \in Nat
      /\ Cardinality(CharsOf(S)) \in Nat /\ Cardinality(CharsOf(T)) \in Nat
  BY <1>1, FS_CardinalityType
<1>7. \A x, y, u, v \in Nat :
        x <= u /\ y <= v /\ y # 0 => x + y - 1 \in Nat /\ u + v - 1 \in Nat /\ x + y - 1 <= u + v - 1
  OBVIOUS
<1> QED BY <1>2, <1>3, <1>5, <1>6, <1>7

\* What block_score compares, without its penalty.
LEMMA ScoresAre ==
  ASSUME TextsInv, NEW i \in Extract!Heads, NEW b, b = BlockOf(i)
  PROVE  /\ Extract!TextLen(b) \in Nat /\ Extract!TextLen(b) <= Extract!TextLen(1 .. Len(texts))
         /\ Extract!Score(b)[2] = Extract!TextLen(b)
         /\ \E high \in 40 .. Tall :
              Extract!Score(b)[1] = high - (IF Extract!TextLen(b) < 15 THEN 2500 ELSE 0)
<1>1. b \subseteq 1 .. Len(texts) /\ b # {} /\ Extract!Lowest(b) \in 1 .. Len(texts)
  BY BlocksAre
<1>2. Extract!TextLen(b) \in Nat /\ Extract!TextLen(b) <= Extract!TextLen(1 .. Len(texts))
  BY <1>1, LengthsGrow
<1>3. Extract!Bottom(Extract!Lowest(b)) \in 40 .. Tall
  <2>1. PICK l \in 1 .. Len(texts) : l = Extract!Lowest(b)
    BY <1>1
  <2>2. Extract!Top(l) \in Nat /\ Extract!Bottom(l) = Extract!Top(l) + 40
    BY TextsAre
  <2>3. Extract!Bottom(l) <= Tall
    BY DEF TextsInv
  <2> QED BY <2>1, <2>2, <2>3, TextsAssumption
<1> QED BY <1>2, <1>3 DEF Extract!Score

LEMMA WinnerIs ==
  ASSUME TextsInv, NEW blocks, blocks \subseteq {BlockOf(i) : i \in Extract!Heads}, blocks # {}
  PROVE  /\ Extract!Winner(blocks) \in blocks
         /\ \A c \in blocks : Extract!Better(Extract!Winner(blocks), c)
<1>1. PICK m \in Nat : m = Extract!TextLen(1 .. Len(texts))
  BY ScoresAre, LengthsGrow, BlocksAre
<1>2. \A c \in blocks : /\ Extract!Score(c)[1] \in Int /\ Extract!Score(c)[1] + 2500 \in 0 .. Tall + 2500
                        /\ Extract!Score(c)[2] \in 0 .. m
  <2> SUFFICES ASSUME NEW c \in blocks
               PROVE  /\ Extract!Score(c)[1] \in Int /\ Extract!Score(c)[1] + 2500 \in 0 .. Tall + 2500
                      /\ Extract!Score(c)[2] \in 0 .. m
    OBVIOUS
  <2>1. PICK i \in Extract!Heads : c = BlockOf(i)
    OBVIOUS
  <2>2. PICK high \in 40 .. Tall :
          Extract!Score(c)[1] = high - (IF Extract!TextLen(c) < 15 THEN 2500 ELSE 0)
    BY <2>1, ScoresAre
  <2>3. Extract!Score(c)[2] \in 0 .. m
    BY <1>1, <2>1, ScoresAre
  <2> QED BY <2>2, <2>3, TextsAssumption
<1> DEFINE heights == {Extract!Score(c)[1] + 2500 : c \in blocks}
<1>3. PICK b1 \in blocks : \A c \in blocks : Extract!Score(c)[1] <= Extract!Score(b1)[1]
  <2>1. heights \subseteq 0 .. Tall + 2500 /\ heights # {} /\ Tall + 2500 \in Nat
    BY <1>2, TextsAssumption
  <2>2. PICK x \in heights : \A y \in heights : y <= x
    <3>1. PICK n \in Nat : n = Tall + 2500
      BY <2>1
    <3>2. heights \subseteq 0 .. n /\ heights # {}
      BY <2>1, <3>1
    <3> HIDE DEF heights
    <3> QED BY <3>2, GreatestOf
  <2>3. PICK b1 \in blocks : x = Extract!Score(b1)[1] + 2500
    OBVIOUS
  <2>4. \A c \in blocks : Extract!Score(c)[1] <= Extract!Score(b1)[1]
    <3> SUFFICES ASSUME NEW c \in blocks PROVE Extract!Score(c)[1] <= Extract!Score(b1)[1]
      OBVIOUS
    <3>1. Extract!Score(c)[1] + 2500 <= Extract!Score(b1)[1] + 2500
      BY <2>2, <2>3
    <3> QED BY <1>2, <3>1
  <2> QED BY <2>4
<1> DEFINE longest == {Extract!Score(c)[2] : c \in {d \in blocks : Extract!Score(d)[1] = Extract!Score(b1)[1]}}
<1>4. PICK b \in blocks :
        /\ Extract!Score(b)[1] = Extract!Score(b1)[1]
        /\ \A c \in blocks : Extract!Score(c)[1] = Extract!Score(b1)[1]
             => Extract!Score(c)[2] <= Extract!Score(b)[2]
  <2>1. longest \subseteq 0 .. m /\ longest # {}
    BY <1>2
  <2>2. PICK x \in longest : \A y \in longest : y <= x
    <3> HIDE DEF longest
    <3> QED BY <2>1, GreatestOf
  <2> QED BY <2>2
<1>5. \A c \in blocks : Extract!Better(b, c)
  <2> SUFFICES ASSUME NEW c \in blocks PROVE Extract!Better(b, c)
    OBVIOUS
  <2>1. CASE Extract!Score(c)[1] = Extract!Score(b1)[1]
    BY <1>2, <1>4, <2>1 DEF Extract!Better
  <2>2. CASE Extract!Score(c)[1] # Extract!Score(b1)[1]
    <3>1. Extract!Score(b)[1] > Extract!Score(c)[1]
      BY <1>2, <1>3, <1>4, <2>2
    <3> QED BY <3>1 DEF Extract!Better
  <2> QED BY <2>1, <2>2
<1> QED BY <1>5 DEF Extract!Winner

\* The response has the winner in it.
LEMMA WinnerIsRead ==
  ASSUME TextsInv, NEW blocks, blocks \subseteq {BlockOf(i) : i \in Extract!Heads}, NEW w \in blocks
  PROVE  w \subseteq Extract!Expand(w, blocks) /\ Extract!Expand(w, blocks) \subseteq 1 .. Len(texts)
<1>1. PICK n \in Nat : n = Len(texts)
  BY TextsAre
<1>2. \A c \in blocks : c \subseteq 1 .. n /\ Extract!Lowest(c) \in 1 .. n
  BY <1>1, BlocksAre
<1>3. Extract!Lowest(w) <= Extract!Lowest(w)
  BY <1>2
<1>4. ASSUME NEW c \in blocks, NEW d \in blocks, Extract!Lowest(w) <= Extract!Lowest(c),
             Extract!Lowest(d) <= Extract!Lowest(w), Extract!NextBelow(c, d, blocks)
      PROVE  FALSE
  <2>1. Extract!Lowest(c) < Extract!Lowest(d)
    BY <1>4 DEF Extract!NextBelow
  <2> QED BY <1>2, <1>4, <2>1
<1>5. w \subseteq Extract!Expand(w, blocks)
  BY <1>3, <1>4 DEF Extract!Expand
<1>6. Extract!Expand(w, blocks) \subseteq 1 .. n
  BY <1>2 DEF Extract!Expand
<1> QED BY <1>1, <1>5, <1>6

\* The lowest text of the response is the winner's.
LEMMA WinnerIsLowest ==
  ASSUME TextsInv, NEW blocks, blocks \subseteq {BlockOf(i) : i \in Extract!Heads}, NEW w \in blocks
  PROVE  Extract!Lowest(Extract!Expand(w, blocks)) = Extract!Lowest(w)
<1>1. PICK n \in Nat : n = Len(texts)
  BY TextsAre
<1>2. \A c \in blocks : c \subseteq 1 .. n /\ c # {} /\ Extract!Lowest(c) \in c
                         /\ \A j \in c : j <= Extract!Lowest(c)
  <2>1. \A c \in blocks : c \subseteq 1 .. n /\ c # {}
    BY <1>1, BlocksAre
  <2> QED BY <2>1, LowestIs
<1>3. PICK T \in SUBSET (1 .. n) : T = Extract!Expand(w, blocks) /\ w \subseteq T
  BY <1>1, WinnerIsRead
<1>4. Extract!Lowest(w) \in T /\ T # {}
  BY <1>2, <1>3
<1>5. \A j \in T : j <= Extract!Lowest(w)
  <2> SUFFICES ASSUME NEW j \in T PROVE j <= Extract!Lowest(w)
    OBVIOUS
  <2>1. PICK c \in blocks : j \in c /\ Extract!Lowest(c) <= Extract!Lowest(w)
    BY <1>3 DEF Extract!Expand
  <2>2. j \in 1 .. n /\ Extract!Lowest(c) \in 1 .. n /\ Extract!Lowest(w) \in 1 .. n
        /\ j <= Extract!Lowest(c)
    BY <1>2, <2>1
  <2> QED BY <2>1, <2>2
<1>6. Extract!Lowest(T) \in T /\ \A j \in T : j <= Extract!Lowest(T)
  BY <1>4, LowestIs
<1> QED BY <1>3, <1>4, <1>5, <1>6

\* "So a genuine response higher on screen still wins over them": up to the distance
\* that the penalty makes up for.
LEMMA LongerWins ==
  ASSUME TextsInv
  PROVE  Extract!GenuineWins
<1> DEFINE Deep(S, b) ==
      Extract!Bottom(Extract!Lowest(S)) - Extract!Bottom(Extract!Lowest(b)) >= 2500
<1> SUFFICES ASSUME ~found, NEW b \in Extract!KeptBlocks, Extract!TextLen(b) >= 15
             PROVE  Extract!TextLen(Extract!Response) >= 15 \/ Deep(Extract!Response, b)
  BY DEF Extract!GenuineWins
<1>1. Extract!Candidates # {}
  <2>1. Extract!Heads # {}
    <3>1. b \in Extract!Blocks
      BY DEF Extract!KeptBlocks, Extract!WithoutChips
    <3> QED BY <3>1 DEF Extract!Blocks
  <2> QED BY <2>1, TextsAre
<1>2. PICK blocks : blocks = Extract!KeptBlocks
  OBVIOUS
<1>3. blocks \subseteq {BlockOf(i) : i \in Extract!Heads} /\ b \in blocks
  BY <1>1, <1>2, BlocksKept
<1>4. PICK w \in blocks : w = Extract!Winner(blocks) /\ Extract!Better(w, b)
  BY <1>3, WinnerIs
<1>5. Extract!Response = Extract!Expand(w, blocks)
  BY <1>1, <1>2, <1>4 DEF Extract!Response
<1>6. Extract!TextLen(w) >= 15 \/ Deep(w, b)
  <2>1. PICK i \in Extract!Heads, k \in Extract!Heads : b = BlockOf(i) /\ w = BlockOf(k)
    BY <1>3
  <2>2. Extract!TextLen(w) \in Nat /\ Extract!TextLen(b) \in Nat
    BY <2>1, ScoresAre
  <2>3. PICK lowB \in Nat, lowW \in Nat :
          lowB = Extract!Bottom(Extract!Lowest(b)) /\ lowW = Extract!Bottom(Extract!Lowest(w))
    <3>1. /\ b \subseteq 1 .. Len(texts) /\ b # {} /\ w \subseteq 1 .. Len(texts) /\ w # {}
          /\ Len(texts) \in Nat
      <4>1. /\ BlockOf(i) \subseteq 1 .. Len(texts) /\ i \in BlockOf(i)
            /\ BlockOf(k) \subseteq 1 .. Len(texts) /\ k \in BlockOf(k)
        BY BlocksAre
      <4> QED BY <2>1, <4>1, TextsAre
    <3>2. Extract!Lowest(b) \in 1 .. Len(texts) /\ Extract!Lowest(w) \in 1 .. Len(texts)
      BY <3>1, LowestIs
    <3> QED BY <3>2, TextsAre
  <2>4. /\ Extract!Score(b)[1] = lowB
        /\ Extract!Score(w)[1] = lowW - (IF Extract!TextLen(w) < 15 THEN 2500 ELSE 0)
    BY <2>2, <2>3 DEF Extract!Score
  <2>5. Extract!Score(w)[1] >= Extract!Score(b)[1]
    BY <1>4, <2>2, <2>3, <2>4 DEF Extract!Better
  <2> QED BY <2>2, <2>3, <2>4, <2>5
<1>7. /\ Extract!TextLen(w) \in Nat /\ Extract!TextLen(Extract!Response) \in Nat
      /\ Extract!TextLen(w) <= Extract!TextLen(Extract!Response)
  <2>1. w # {}
    BY <1>3, BlocksAre
  <2>2. PICK T \in SUBSET (1 .. Len(texts)) : T = Extract!Response /\ w \in SUBSET T
    BY <1>3, <1>5, WinnerIsRead
  <2>3. /\ Extract!TextLen(w) \in Nat /\ Extract!TextLen(T) \in Nat
        /\ Extract!TextLen(w) <= Extract!TextLen(T)
    BY <2>1, <2>2, LengthsGrow
  <2> QED BY <2>2, <2>3
<1>8. Extract!Lowest(Extract!Response) = Extract!Lowest(w)
  BY <1>3, <1>5, WinnerIsLowest
<1> QED BY <1>6, <1>7, <1>8

\* The texts that extract_from_xml puts together are the last message of the app
\* (response_extractor.py): for any number of texts of any length at any distance, on
\* screens of any height: ReplyIsGenuine.
THEOREM RepliesAreGenuine == SampleSpec => []ReplyIsGenuine
<1>1. TextsInv => ReplyIsGenuine
  BY RowIsWhole, BoundaryStays, LongerWins DEF ReplyIsGenuine, Extract!ReplyIsGenuine
<1> QED BY <1>1, TextsStart, NextTexts, PTL DEF SampleSpec
=============================================================================
