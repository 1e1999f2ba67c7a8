----------------------------- MODULE SampleRuns -----------------------------
(***************************************************************************)
(* What happens to one sample outside the scheduler and the pool: the call *)
(* that waits for it, the executors that drive an app, a page or an agent, *)
(* how they know that a reply is complete and which texts are the reply,   *)
(* the calls to models and webhooks, and the screen shown meanwhile.       *)
(* These parts share neither memory nor rows that their properties depend  *)
(* on, so a behaviour is one of one part; the others stay as they began.   *)
(***************************************************************************)
EXTENDS Naturals

CONSTANTS Profiles, MaxTaps, MaxFails,          \* of AndroidRun
          Prompts, Attempts,                    \* of it and of WebRun
          Calls, Fresh, MaxLaunch,              \* of WebRun
          Tasks, AgentAttempts, MaxSteps,       \* of AgentRun
          StableSec, Deadline, LastPage, Threshold, Slack,   \* of Detection
          Lengths, Gaps, MaxTexts, Tall,        \* of Extraction
          Clients, Asks, MaxRetryAfter,         \* of Outbound
          Viewers, Inputs, MaxWarmups,          \* of ScreenStream
          Bodies, MaxQueue, MaxCleanUp, MaxNotice, MaxCallback   \* of SyncCalls

VARIABLES part,
          profile, phoneAt, attempt, idx, result, sent, first, clip, tries, fails,
          field, stacked, responses, llm, shots, ime, restore, torn,
          kind, clock, page, since0, last, since, xml, failures, u2, triedU2, saw,
          out,
          texts, found,
          client, callAt, post, answer, outcome, taken, doubt, waited, tap,
          pc, webTry, uses, prompt, replies, session, context, lock, talk, heard,
          platform, hint, copies, agentTry, task, agentAt, loop, box, reply, copied, said,
          view, recorder, victim, active, does, done, unsure, ready, warming,
          warmer, warmups,
          body, handler, status, elapsed, run, round, began, ended, row, delays

Android == INSTANCE AndroidRun
  WITH Taps <- MaxTaps, at <- phoneAt
Detect == INSTANCE Detection
  WITH Kinds <- {"dom", "pixel", "tree", "button"}, End <- LastPage
Extract == INSTANCE Extraction
Send == INSTANCE Outbound
  WITH at <- callAt, attempt <- post, result <- outcome
Web == INSTANCE WebRun
  WITH attempt <- webTry
Agent == INSTANCE AgentRun
  WITH Platforms <- {"android", "pc"}, Prompts <- Tasks, Attempts <- AgentAttempts,
       attempt <- agentTry, prompt <- task, at <- agentAt, clip <- copied
Screen == INSTANCE ScreenStream
  WITH doubt <- unsure
Sync == INSTANCE SyncCalls
  WITH at <- handler, answer <- status, clock <- elapsed, attempt <- round,
       since <- began, result <- ended

androidVars ==
  <<profile, phoneAt, attempt, idx, result, sent, first, clip, tries, fails, field,
    stacked, responses, llm, shots, ime, restore, torn>>
detectVars ==
  <<kind, clock, page, since0, last, since, xml, failures, u2, triedU2, saw, out>>
extractVars == <<texts, found>>
sendVars ==
  <<client, callAt, post, answer, outcome, taken, doubt, waited, tap>>
webVars ==
  <<pc, webTry, uses, prompt, replies, session, context, lock, talk, heard>>
agentVars ==
  <<platform, hint, copies, agentTry, task, agentAt, loop, box, reply, copied, said>>
screenVars ==
  <<view, recorder, victim, active, does, done, unsure, ready, warming, warmer,
    warmups>>
syncVars ==
  <<body, handler, status, elapsed, run, round, began, ended, row, delays>>

sampleVars ==
  <<part, androidVars, detectVars, extractVars, sendVars, webVars,
    agentVars, screenVars, syncVars>>

ASSUME RunAssumption ==
  /\ Prompts \in Nat \ {0} /\ Attempts \in Nat \ {0} /\ MaxTaps \in Nat
  /\ MaxFails \in Nat
  /\ Tasks \in Nat \ {0} /\ AgentAttempts \in Nat \ {0} /\ MaxSteps \in Nat \ {0}
  /\ Profiles \subseteq Android!Profile
ASSUME DetectionAssumption ==
  /\ StableSec \in Nat /\ Deadline \in Nat /\ LastPage \in Nat /\ Slack \in Nat
  /\ Threshold \in Nat \ {0}
ASSUME TextsAssumption == Lengths \subseteq Nat /\ Gaps \subseteq Nat /\ Tall \in Nat
ASSUME CallsAssumption ==
  /\ Clients \subseteq Send!Models \cup {"alert", "webhook", "check", "agent", "api"}
  /\ Asks \subseteq Nat /\ MaxRetryAfter \in Nat
  /\ Send!Backoff[Send!MaxAttempts - 1] <= MaxRetryAfter
ASSUME BodiesAssumption == \A b \in Bodies : b.timeout \in Nat /\ b.retry \in Nat
ASSUME WebAssumption == MaxLaunch \in Nat /\ Web!None \notin Calls
ASSUME ScreenAssumption == Screen!Nobody \notin Viewers

\* A part that does not run begins with the first of its inputs.
Given(p, input, inputs) == part = p \/ input = CHOOSE i \in inputs : TRUE

SampleInit ==
  /\ part \in {"android", "detection", "extraction", "outbound", "web", "agent",
              "screen", "sync"}
  /\ Android!Init /\ Given("android", profile, Profiles)
  /\ Detect!Init /\ Given("detection", <<kind, u2>>, {<<"dom", FALSE>>})
  /\ Extract!Init /\ Given("extraction", found, BOOLEAN)
  /\ Send!Init /\ Given("outbound", client, Clients)
  /\ Agent!Init /\ Given("agent", <<platform, hint, copies>>, {<<"pc", TRUE, FALSE>>})
  /\ Sync!Init /\ Given("sync", body, Bodies)
  /\ Web!Init /\ Screen!Init

AndroidStep ==
  /\ part = "android" /\ Android!Next
  /\ UNCHANGED <<part, detectVars, extractVars, sendVars, webVars,
                agentVars, screenVars, syncVars>>

DetectStep ==
  /\ part = "detection" /\ Detect!Next
  /\ UNCHANGED <<part, androidVars, extractVars, sendVars, webVars,
                agentVars, screenVars, syncVars>>

ExtractStep ==
  /\ part = "extraction" /\ Extract!Next
  /\ UNCHANGED <<part, androidVars, detectVars, sendVars, webVars,
                agentVars, screenVars, syncVars>>

SendStep ==
  /\ part = "outbound" /\ Send!Next
  /\ UNCHANGED <<part, androidVars, detectVars, extractVars, webVars,
                agentVars, screenVars, syncVars>>

WebStep ==
  /\ part = "web" /\ Web!Next
  /\ UNCHANGED <<part, androidVars, detectVars, extractVars, sendVars,
                agentVars, screenVars, syncVars>>

AgentStep ==
  /\ part = "agent" /\ Agent!Next
  /\ UNCHANGED <<part, androidVars, detectVars, extractVars, sendVars,
                webVars, screenVars, syncVars>>

ScreenStep ==
  /\ part = "screen" /\ Screen!Next
  /\ UNCHANGED <<part, androidVars, detectVars, extractVars, sendVars,
                webVars, agentVars, syncVars>>

SyncStep ==
  /\ part = "sync" /\ Sync!Next
  /\ UNCHANGED <<part, androidVars, detectVars, extractVars, sendVars,
                webVars, agentVars, screenVars>>

SampleNext ==
  \/ AndroidStep \/ DetectStep \/ ExtractStep \/ SendStep \/ WebStep \/
     AgentStep \/ ScreenStep \/ SyncStep

SampleSpec == SampleInit /\ [][SampleNext]_sampleVars
-----------------------------------------------------------------------------
(* The properties of the parts, stated and explained in their modules.       *)

\* What an Android run records was sent and read by it (android_executor.py).
TurnIsOwn == part = "android" => Android!TurnIsOwn

\* A reply is read when it is complete (complete_detector.py), ...
ReadWhenStill == Detect!ReadWhenStill

\* Neither of the two holds of every run (see AndroidRun).
TapIsAlwaysFresh == part = "android" => Android!TapIsAlwaysFresh
KeyboardAlwaysBack == part = "android" => Android!KeyboardAlwaysBack

\* ... and the texts read are the app's last message (response_extractor.py).
ReplyIsGenuine == part = "extraction" => Extract!ReplyIsGenuine

\* A call says of itself what the service did (the clients of models and webhooks).
SendsAreTold == Send!SendsAreTold

\* Samples that share a browser do not read each other's texts (web_executor.py).
SessionIsOwn == part = "web" => Web!SessionIsOwn

\* An agent acts on, and answers with, what it has seen (agent_core).
AgentSees == Agent!AgentSees

\* Viewers leave nothing behind, inputs arrive once (device_stream.py, u2_input.py).
ScreenIsTidy == Screen!ScreenIsTidy

\* A caller leaves only a sample that takes more than its first attempt (sync_tests.py).
LeavesOnlyDelayed == Sync!LeavesOnlyDelayed

\* This does not hold of every run (see SyncCalls).
NoticesStallNobody == Sync!NoticesStallNobody
=============================================================================
