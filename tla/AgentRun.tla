------------------------------- MODULE AgentRun ------------------------------
(***************************************************************************)
(* A sample carried out by an agent (agent_android_executor.py,            *)
(* agent_pc_executor.py): for each prompt a loop of screenshot, model and  *)
(* action (agent_core/runtime.py) in a thread of its own, then the reply   *)
(* read from a screenshot or through the clipboard.  A thread cannot be    *)
(* cancelled: when the sample times out its loop goes on beside the next   *)
(* attempt's.                                                              *)
(***************************************************************************)
EXTENDS Naturals

CONSTANTS Platforms,   \* of "android", "pc"
          Prompts, Attempts,
          MaxSteps

VARIABLES platform,
          hint,      \* response_hint is not empty
          copies,    \* copy_extraction is enabled (PC only)
          attempt, prompt,
          at,        \* where the sample is: "loop", "final", "copy", "over"
          loop,      \* attempt -> its agent loop
          box,       \* the input box: "empty", "part" or "whole" of a prompt
          reply,     \* on the screen: "none", "old" of an earlier prompt, "new"
          clip,      \* what is on the clipboard: [text, prompt, phase]
          said       \* history: prompt -> what its response was read from

agentVars == <<platform, hint, copies, attempt, prompt, at, loop, box, reply, clip, said>>

Tries == 1 .. Attempts
Nothing == [text |-> "none", prompt |-> 0, phase |-> "none"]
Shot == [Nothing EXCEPT !.text = "shot"]

\* The names a model calls an action by; "other" stands for those that neither send
\* nor type: swipes, scrolls, other keys, waits.
Taps == {"Tap", "tap", "Click", "Double Tap"}
Presses == {"Press", "press", "keypress"}
Names == Taps \cup Presses \cup {"Type", "type", "other"}

\* What parse_action finds in the model's words.  A press is of Enter, by that name
\* or in another way: without a key, or by the name the device has for it; a tap is on
\* the send button or not.  An action that lacks arguments fails when it is done.
Words ==
  [name : (Names \ Presses) \cup {"finish", "noop"}, sends : {FALSE}, key : {"none"}] \cup
  [name : Taps, sends : {TRUE}, key : {"none"}] \cup
  [name : Presses, sends : {TRUE}, key : {"enter", "other"}]

Idle ==
  [phase |-> "off", task |-> "none", step |-> 0,
   word |-> [name |-> "noop", sends |-> FALSE, key |-> "none"],
   seen |-> "none", pending |-> FALSE, ready |-> TRUE,
   \* History: it typed a part of its text last; it sent by a tap or by "enter"; how it
   \* pressed Enter on such a part.
   part |-> FALSE, sent |-> FALSE, blind |-> {}]

Running(t) == loop[t].phase # "off"
-----------------------------------------------------------------------------
(* What a name is to the handlers, and what it is to the runtime *)

\* PcActionHandler.execute.
PcName(n) ==
  CASE n = "Click" -> "Tap" [] n = "keypress" -> "Press" [] OTHER -> n

\* AndroidActionHandler.execute knows its names as they are.
Canonical(n) == IF platform = "pc" THEN PcName(n) ELSE n
Known(n) == Canonical(n) \in {"Tap", "Double Tap", "Type", "Press", "other"}

Lower(n) ==
  CASE n = "Tap" -> "tap" [] n = "Type" -> "type" [] n = "Press" -> "press"
    [] n = "Click" -> "click" [] OTHER -> n

\* Mutant: only Enter can send.
IsTriggerEnter(w) == Lower(w.name) = "press" /\ w.key = "enter"

\* _is_response_trigger_action: a press without a key is none.
IsTrigger(w) == Lower(w.name) = "tap" \/ (Lower(w.name) = "press" /\ w.key = "enter")

\* _should_verify_action
IsType(w) == Lower(w.name) = "type"

\* Mutant: whatever is in the box is sent.
RefusedNever(l) == FALSE

\* _is_send_action, refused while the input is not ready.
Refused(l) == Lower(l.word.name) = "press" /\ l.word.key = "enter" /\ ~l.ready
-----------------------------------------------------------------------------
(* AgentRuntime.run *)

Set(t, l) == loop' = [loop EXCEPT ![t] = l]

\* The next step, or max_steps.
Onward(l) ==
  IF l.step < MaxSteps
  THEN [l EXCEPT !.step = @ + 1, !.phase = "see", !.word = Idle.word, !.seen = "none"]
  ELSE [l EXCEPT !.phase = "off"]

\* A screenshot, and the model's answer to it.
See(t) ==
  /\ loop[t].phase = "see"
  /\ \E w \in Words :
       Set(t, [loop[t] EXCEPT !.phase = "act", !.word = w, !.seen = reply])
  /\ UNCHANGED <<platform, hint, copies, attempt, prompt, at, box, reply, clip, said>>

\* finish, refused while a response is pending and the screenshot shows none; without a
\* hint, and in the loop at the copy button, nobody looks for one.
Finishing(l) ==
  l.word.name = "finish" /\ (l.pending /\ hint /\ l.task = "main" => l.seen # "none")

Finish(t) ==
  /\ loop[t].phase = "act" /\ Finishing(loop[t])
  /\ Set(t, [loop[t] EXCEPT !.phase = "off"])
  /\ UNCHANGED <<platform, hint, copies, attempt, prompt, at, box, reply, clip, said>>

\* No action in the answer, or a finish too early.
Noop(t) ==
  LET l == loop[t]
  IN  /\ l.phase = "act" /\ l.word.name \in {"finish", "noop"} /\ ~Finishing(l)
      /\ Set(t, Onward(l))
      /\ UNCHANGED <<platform, hint, copies, attempt, prompt, at, box, reply, clip, said>>

\* The input box is sent by Enter, or by its button.
Sends(l) ==
  /\ Canonical(l.word.name) \in {"Tap", "Double Tap", "Press"} /\ l.word.sends
  /\ box # "empty"

\* Any action but Type: refused, of an unknown name, with bad arguments, or done.
Do(t) ==
  LET l == loop[t] IN
  /\ l.phase = "act" /\ l.word.name \in Names /\ ~IsType(l.word)
  /\ \E done \in BOOLEAN :
       /\ done => ~Refused(l) /\ Known(l.word.name)
       /\ LET sends == done /\ Sends(l)
              byEnter == sends /\ Canonical(l.word.name) = "Press"
          IN  /\ Set(t, Onward([l EXCEPT
                       !.pending = @ \/ IsTrigger(l.word),
                       !.sent = @ \/ (sends /\ (l.word.name = "Tap" \/ l.word.key = "enter")),
                       !.blind = IF byEnter /\ l.part /\ box = "part"
                                 THEN @ \cup {l.word.key} ELSE @]))
              /\ box' = IF sends THEN "empty" ELSE box
              /\ reply' = IF sends /\ reply = "new" THEN "old" ELSE reply
       \* A tap may be on the copy button of the reply.
       /\ \/ UNCHANGED clip
          \/ /\ done /\ Canonical(l.word.name) \in {"Tap", "Double Tap"} /\ ~l.word.sends
             /\ reply # "none"
             /\ clip' = [text |-> reply, prompt |-> prompt, phase |-> at]
  /\ UNCHANGED <<platform, hint, copies, attempt, prompt, at, said>>

\* Type puts the text in the box, or part of it; on the PC by the clipboard.
Type(t) ==
  LET l == loop[t] IN
  /\ l.phase = "act" /\ IsType(l.word)
  /\ IF Known(l.word.name)
     THEN /\ box' \in {"part", "whole"}
          /\ clip' = IF platform = "pc"
                     THEN [text |-> "prompt", prompt |-> prompt, phase |-> at]
                     ELSE clip
          /\ Set(t, IF l.task = "main"
                    THEN [l EXCEPT !.phase = "check", !.part = (box' = "part")]
                    ELSE Onward([l EXCEPT !.ready = TRUE, !.part = (box' = "part")]))
     ELSE /\ Set(t, Onward([l EXCEPT !.ready = FALSE]))
          /\ UNCHANGED <<box, clip>>
  /\ UNCHANGED <<platform, hint, copies, attempt, prompt, at, reply, said>>

\* The second screenshot, and action_observer's word on it, which may be an error.
Check(t) ==
  /\ loop[t].phase = "check"
  /\ \E yes \in {FALSE, box = "whole"} : Set(t, Onward([loop[t] EXCEPT !.ready = yes]))
  /\ UNCHANGED <<platform, hint, copies, attempt, prompt, at, box, reply, clip, said>>

\* capture, the model or the device raises: the loop ends with the exception, and
\* with it the attempt if the sample still waits for it.
Break(t) ==
  /\ Running(t)
  /\ Set(t, [loop[t] EXCEPT !.phase = "off"])
  /\ IF t = attempt /\ at \in {"loop", "copy"}
     THEN at' = "failed"
     ELSE UNCHANGED at
  /\ UNCHANGED <<platform, hint, copies, attempt, prompt, box, reply, clip, said>>
-----------------------------------------------------------------------------
(* execute *)

Begun(task) == [Idle EXCEPT !.phase = "see", !.task = task, !.step = 1]

\* The task of the next prompt.
Start ==
  /\ at = "start" /\ prompt < Prompts
  /\ prompt' = prompt + 1 /\ at' = "loop"
  /\ Set(attempt, Begun("main"))
  /\ UNCHANGED <<platform, hint, copies, attempt, box, reply, clip, said>>

\* The loop ended, by finish or by max_steps: its trace is written and a screenshot
\* taken.
Final ==
  /\ at = "loop" /\ ~Running(attempt)
  /\ at' = IF copies THEN "clear" ELSE "extract"
  /\ UNCHANGED <<platform, hint, copies, attempt, prompt, loop, box, reply, clip, said>>

\* Mutant: the clipboard is not cleared.
ClearNot ==
  /\ at = "clear"
  /\ at' = "copy" /\ Set(attempt, Begun("copy"))
  /\ UNCHANGED <<platform, hint, copies, attempt, prompt, box, reply, clip, said>>

\* _run_copy_extraction.
Clear ==
  /\ at = "clear"
  /\ clip' = Nothing
  /\ at' = "copy" /\ Set(attempt, Begun("copy"))
  /\ UNCHANGED <<platform, hint, copies, attempt, prompt, box, reply, said>>

\* The clipboard, or the screenshot taken before if it is empty.
ReadClip ==
  /\ at = "copy" /\ ~Running(attempt)
  /\ said' = [said EXCEPT ![prompt] = IF clip = Nothing THEN Shot ELSE clip]
  /\ at' = "start"
  /\ UNCHANGED <<platform, hint, copies, attempt, prompt, loop, box, reply, clip>>

\* extract_response_from_screenshot; its error is noted, and the sample goes on.
Extract ==
  /\ at = "extract"
  /\ said' = [said EXCEPT ![prompt] = Shot]
  /\ at' = "start"
  /\ UNCHANGED <<platform, hint, copies, attempt, prompt, loop, box, reply, clip>>

Done ==
  /\ at = "start" /\ prompt = Prompts
  /\ at' = "over"
  /\ UNCHANGED <<platform, hint, copies, attempt, prompt, loop, box, reply, clip, said>>

\* An error, or the sample's timeout, which leaves the thread running.
Again ==
  /\ at # "over"
  /\ IF attempt < Attempts
     THEN attempt' = attempt + 1 /\ prompt' = 0 /\ at' = "start"
     ELSE at' = "over" /\ UNCHANGED <<attempt, prompt>>
  /\ UNCHANGED <<platform, hint, copies, loop, box, reply, clip, said>>

\* The other side answers what was sent to it.
Answer ==
  /\ \E t \in Tries : loop[t].sent
  /\ reply # "new" /\ reply' = "new"
  /\ UNCHANGED <<platform, hint, copies, attempt, prompt, at, loop, box, clip, said>>

Init ==
  /\ platform \in Platforms /\ hint \in BOOLEAN /\ copies \in {FALSE, platform = "pc"}
  /\ attempt = 1 /\ prompt = 0 /\ at = "start"
  /\ loop = [t \in Tries |-> Idle]
  /\ box = "empty" /\ reply = "none" /\ clip = Nothing
  /\ said = [i \in 1 .. Prompts |-> Nothing]

Next ==
  \/ \E t \in Tries : See(t) \/ Finish(t) \/ Noop(t) \/ Do(t) \/ Type(t) \/ Check(t) \/ Break(t)
  \/ Start \/ Final \/ Clear \/ ReadClip \/ Extract \/ Done \/ Again \/ Answer

Spec == Init /\ [][Next]_agentVars
-----------------------------------------------------------------------------
\* "When the latest input attempt was not confirmed inside the input box, Press(enter)
\* is rejected": a loop on a phone that has it to itself does not press Enter, by that
\* name, on the part of a text that it typed.
EnterIsConfirmedOnPhones ==
  platform = "android" /\ attempt = 1 => \A t \in Tries : "enter" \notin loop[t].blind

\* "A hard guardrail": the same of Enter however it is called.  Not so: the handler
\* presses Enter for a Press without a key, too, and the runtime does not know.
EnterIsAlwaysConfirmed ==
  platform = "android" /\ attempt = 1 => \A t \in Tries : loop[t].blind = {}

\* A loop on a phone that has sent a text, by a tap or by "enter", does not finish before
\* its screenshot shows a reply, given that it is told what one looks like.
FinishSeesReply ==
  [][\A t \in Tries :
       platform = "android" /\ hint /\ loop[t].task = "main" /\ loop[t].sent /\ Finish(t)
         => loop[t].seen # "none"]_agentVars

\* A response read from the clipboard was put there while the copy button was
\* looked for: it is not the prompt that was typed by the clipboard before.
CopyIsLater ==
  \A i \in 1 .. Prompts :
    said[i].text \in {"prompt", "old", "new"} => said[i].phase = "copy" /\ said[i].prompt = i

\* "Each sample has its device to itself": no loop acts while another attempt, or
\* another sample, has the device.  Not so of a loop whose sample timed out.
OneLoopDrives == \A t \in Tries : Running(t) => t = attempt /\ at \in {"loop", "copy"}

\* A loop acts on, and answers with, what it has seen.
AgentSees == [](EnterIsConfirmedOnPhones /\ CopyIsLater) /\ FinishSeesReply
=============================================================================
