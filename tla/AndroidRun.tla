----------------------------- MODULE AndroidRun -----------------------------
(***************************************************************************)
(* A sample on a phone: the supervised run with its timeout and its        *)
(* retries (executors/base.py) and what one attempt does with the app      *)
(* (executors/android_executor.py): set up the keyboard, then for each     *)
(* prompt type, send, wait for the reply and take the response by the      *)
(* first way the profile allows that works.                                *)
(*                                                                         *)
(* A response is told by the way it was taken and by the message during    *)
(* which it got into the clipboard; messages are numbered over the whole   *)
(* run.  An attempt can be cut off by its timeout at every await.          *)
(***************************************************************************)
EXTENDS Naturals, Sequences

CONSTANTS Profiles,    \* the profiles in question
          Prompts,     \* number of prompts of the sample
          Attempts,    \* retry + 1
          Taps,        \* taps for the copy button: cached ones and the model's
          MaxFails     \* bound: errors of clearing the clipboard for one message

VARIABLES profile, at,
          attempt, idx,  \* the attempt, the prompt it is at
          result,        \* how the attempt ended so far
          sent,          \* messages sent to the app by the run
          first,         \* messages sent before this attempt
          clip,          \* message during which the clipboard was filled, 0 empty
          tries,         \* taps left
          fails,         \* errors of clearing the clipboard since the message was sent
          field, stacked, \* texts in the input field, history: two were sent as one
          responses,     \* of this attempt
          llm,           \* ctx.llm_responses: of all attempts, as <<attempt, prompt>>
          shots,         \* prompt -> the attempt whose after_result it shows
          ime, restore,  \* keyboard of the phone, _pending_restore_ime
          torn           \* history: a switch of the keyboard failed or was cut off

place == <<profile, attempt, idx, first>>
typed == <<field, stacked>>
phone == <<sent, clip, fails, ime, restore, torn, typed>>
record == <<responses, llm, shots>>
runVars == <<place, at, result, phone, tries, record>>

\* Ways a profile may name; "final" ones record an empty response on failure.
Profile == [vlm : {"off", "final", "fallback"}, read : {"off", "final", "fallback"},
            copyText : BOOLEAN, llm : BOOLEAN, keyboard : {"adb", "u2"}]

Working == {"start", "prepare", "type", "send", "wait", "vlm", "read", "copy",
            "method", "llm", "next"}

TypeOK ==
  /\ profile \in Profile
  /\ at \in Working \cup {"leave", "over"}
  /\ attempt \in 1 .. Attempts /\ idx \in 1 .. Prompts + 1
  /\ result \in {"done", "timeout", "failed"}
  /\ sent \in 0 .. Attempts * Prompts /\ clip \in 0 .. sent /\ first \in 0 .. sent
  /\ tries \in 0 .. Taps /\ fails \in 0 .. MaxFails
  /\ field \in 0 .. 2 /\ stacked \in BOOLEAN
  /\ responses \in Seq([by : {"vlm", "read", "copy", "method", "none", "dry"},
                        copied : 0 .. sent, failed : 0 .. MaxFails])
  /\ llm \in Seq((1 .. Attempts) \X (1 .. Prompts))
  /\ shots \in [1 .. Prompts -> 0 .. Attempts]
  /\ ime \in {"own", "adb"} /\ restore \in {"none", "own", "adb"} /\ torn \in BOOLEAN

Goto(where) == at' = where

\* A response, with history: how many errors of clearing came before it.
Taken(by, copied, failed) ==
  responses' = Append(responses, [by |-> by, copied |-> copied, failed |-> failed])

\* ScreenshotStore.write_screenshot: one file per label, written over.
Shoot == shots' = [shots EXCEPT ![idx] = attempt]
-----------------------------------------------------------------------------
(* Set-up: the phone is woken, the app started *)

Start ==
  /\ at = "start"
  /\ Goto(IF profile.keyboard = "adb" THEN "prepare" ELSE "type")
  /\ UNCHANGED <<place, result, phone, tries, record>>

\* A dry run answers every prompt by itself.
DryRun ==
  /\ at = "start" /\ attempt = 1
  /\ responses' = [i \in 1 .. Prompts |-> [by |-> "dry", copied |-> 0, failed |-> 0]]
  /\ result' = "done" /\ Goto("over")
  /\ UNCHANGED <<place, phone, tries, llm, shots>>

\* ensure_adb_keyboard_ready: the keyboard that was there is put back later.
Prepare ==
  /\ at = "prepare"
  /\ restore' = ime /\ ime' = "adb"
  /\ Goto("type")
  /\ UNCHANGED <<place, result, sent, clip, fails, torn, typed, tries, record>>

Stacked(n) == IF n = 0 THEN 1 ELSE 2

\* Mutant: ADB_INPUT_B64 without ADB_CLEAR_TEXT.
SetTextAppending == field' = Stacked(field)

\* set_text empties the field first; an error of clear_text is passed over.
SetText ==
  \/ field' = 1
  \/ profile.keyboard = "u2" /\ field' = Stacked(field)

\* Focus, screenshot, set_text, screenshot.
Type ==
  /\ at = "type"
  /\ SetText
  /\ Goto("send")
  /\ UNCHANGED <<place, result, sent, clip, fails, ime, restore, torn, stacked, tries, record>>

Send ==
  /\ at = "send"
  /\ sent' = sent + 1 /\ fails' = 0
  /\ field' = 0 /\ stacked' = (stacked \/ field = 2)
  /\ Goto("wait")
  /\ UNCHANGED <<place, result, clip, ime, restore, torn, tries, record>>

\* An error of clearing the clipboard is passed over: what it holds afterwards.
Clear(holds) ==
  \/ holds = 0 /\ UNCHANGED fails
  \/ holds = clip /\ fails < MaxFails /\ fails' = fails + 1

\* The reply is awaited; pre_extract_action; the clipboard is cleared for the
\* first way.
Wait ==
  /\ at = "wait"
  /\ IF profile.vlm = "off" THEN Goto("read") /\ UNCHANGED <<clip, fails>>
                            ELSE Goto("vlm") /\ Clear(clip')
  /\ tries' = Taps
  /\ UNCHANGED <<place, result, sent, ime, restore, torn, typed, record>>
-----------------------------------------------------------------------------
(* The first way: tap the copy button where a model sees it *)

\* _poll_clipboard: the tap has filled it with the last message's text, or not.
Copies(holds) == clip' \in {holds, sent}

\* Mutant: the clipboard is not cleared again for each try.
TapKeeping == Copies(clip) /\ UNCHANGED fails

\* The clipboard is cleared, a place is tapped, and something is copied, or not.
Tap == \E holds \in 0 .. sent : Clear(holds) /\ Copies(holds)

\* What the clipboard then holds is the response.  A try without coordinates, or
\* the tap on a dialog in the way, copies nothing.
VlmTry ==
  /\ at = "vlm" /\ tries > 0
  /\ tries' = tries - 1
  /\ Tap
  /\ IF clip' # 0 THEN Taken("vlm", clip', fails') /\ Shoot /\ Goto("next")
                  ELSE UNCHANGED <<at, responses, shots>>
  /\ UNCHANGED <<place, result, sent, ime, restore, torn, typed, llm>>

\* Mutant: after the empty response the next way is tried as well.
VlmMissFallingThrough ==
  /\ at = "vlm" /\ tries = 0
  /\ Shoot
  /\ IF profile.vlm = "fallback" THEN UNCHANGED responses ELSE Taken("none", 0, fails)
  /\ Goto("read")
  /\ UNCHANGED <<place, result, phone, tries, llm>>

VlmMiss ==
  /\ at = "vlm" /\ tries = 0
  /\ Shoot
  /\ IF profile.vlm = "fallback" THEN Goto("read") /\ UNCHANGED responses
                                 ELSE Goto("next") /\ Taken("none", 0, fails)
  /\ UNCHANGED <<place, result, phone, tries, llm>>
-----------------------------------------------------------------------------
(* The second way: a model reads the screenshot *)

\* After max_attempts; the final screenshot is taken unless its file is there.
ReadShot ==
  /\ at = "read" /\ profile.read # "off"
  /\ IF shots[idx] = 0 THEN Shoot ELSE UNCHANGED shots
  /\ \/ Taken("read", 0, fails) /\ Goto("next")
     \/ IF profile.read = "fallback" THEN Goto("copy") /\ UNCHANGED responses
                                     ELSE Goto("next") /\ Taken("none", 0, fails)
  /\ UNCHANGED <<place, result, phone, tries, llm>>

SkipRead ==
  /\ at = "read" /\ profile.read = "off"
  /\ Goto("copy")
  /\ UNCHANGED <<place, result, phone, tries, record>>
-----------------------------------------------------------------------------
(* The third way: the copy button that the UI tree names *)

\* It is tapped; whatever the clipboard holds then is the response.
CopyText ==
  /\ at = "copy" /\ profile.copyText
  /\ Copies(clip)
  /\ IF clip' # 0 THEN Taken("copy", clip', fails) /\ Shoot /\ Goto("next")
                  ELSE UNCHANGED <<responses, shots>> /\ Goto("method")
  /\ UNCHANGED <<place, result, sent, fails, ime, restore, torn, typed, tries, llm>>

\* No tree, or no such button in it.
SkipCopy ==
  /\ at = "copy"
  /\ Goto("method")
  /\ UNCHANGED <<place, result, phone, tries, record>>
-----------------------------------------------------------------------------
(* The last way: the UI tree, OCR, or the one and then the other *)

\* A tree that says "loading" is dumped again five times; what it then gives is
\* the response, an empty one too.
Method ==
  /\ at = "method"
  /\ Taken("method", 0, fails) /\ Shoot
  /\ Goto(IF profile.llm THEN "llm" ELSE "next")
  /\ UNCHANGED <<place, result, phone, tries, llm>>

\* extract_response_via_llm: the text, or an error, is added to the context.
AskLlm ==
  /\ at = "llm"
  /\ llm' = Append(llm, <<attempt, idx>>)
  /\ Goto("next")
  /\ UNCHANGED <<place, result, phone, tries, responses, shots>>

NextPrompt ==
  /\ at = "next"
  /\ IF idx < Prompts THEN idx' = idx + 1 /\ Goto("type") /\ UNCHANGED result
                      ELSE UNCHANGED idx /\ Goto("leave") /\ result' = "done"
  /\ UNCHANGED <<profile, attempt, first, phone, tries, record>>
-----------------------------------------------------------------------------
(* The end of an attempt *)

\* wait_for cuts the attempt off or a step of it fails.  The thread that switches
\* the keyboard runs on, and nothing remembers the keyboard it found.
Break ==
  /\ at \in Working
  /\ result' \in {"timeout", "failed"}
  /\ IF at = "prepare" THEN ime' \in {ime, "adb"} /\ torn' = (torn \/ ime' # ime)
                       ELSE UNCHANGED <<ime, torn>>
  /\ Goto("leave")
  /\ IF at = "type" THEN field' \in {field, 0, 1} ELSE UNCHANGED field
  /\ UNCHANGED <<place, sent, clip, fails, restore, stacked, tries, record>>

\* Mutant: the keyboard comes back only when the attempt succeeded.
RestoredIfDone == IF restore = "none" \/ result # "done" THEN ime ELSE restore

\* The keyboard that AndroidInput.__aexit__ asks for.
Restored == IF restore = "none" THEN ime ELSE restore

\* set_ime may fail, and with it the attempt, one that had all its responses too; or
\* the timeout cuts it off, and its thread runs on.
RestoreFails ==
  /\ restore # "none"
  /\ \/ result' = "failed"
     \/ result # "timeout" /\ result' = "timeout"
  /\ ime' \in {ime, Restored} /\ torn' = TRUE

\* The run ends, or the next attempt begins with the context of this one; nothing
\* remembers a keyboard that did not come back.
Leave ==
  /\ at = "leave"
  /\ \/ ime' = Restored /\ UNCHANGED <<result, torn>>
     \/ RestoreFails
  /\ restore' = "none"
  /\ IF result' = "done" \/ attempt = Attempts
     THEN Goto("over") /\ UNCHANGED <<attempt, idx, first, responses>>
     ELSE /\ Goto("start")
          /\ attempt' = attempt + 1 /\ idx' = 1 /\ first' = sent /\ responses' = <<>>
  /\ UNCHANGED <<profile, sent, clip, fails, typed, tries, llm, shots>>

Init ==
  /\ profile \in Profiles
  /\ at = "start" /\ attempt = 1 /\ idx = 1 /\ result = "failed"
  /\ sent = 0 /\ first = 0 /\ clip = 0 /\ tries = 0 /\ fails = 0
  /\ field = 0 /\ stacked = FALSE
  /\ responses = <<>> /\ llm = <<>> /\ shots = [i \in 1 .. Prompts |-> 0]
  /\ ime = "own" /\ restore = "none" /\ torn = FALSE

Next ==
  \/ DryRun \/ Start \/ Prepare \/ Type \/ Send \/ Wait
  \/ VlmTry \/ VlmMiss
  \/ ReadShot \/ SkipRead \/ CopyText \/ SkipCopy
  \/ Method \/ AskLlm \/ NextPrompt
  \/ Break \/ Leave

Spec == Init /\ [][Next]_runVars
-----------------------------------------------------------------------------
\* "return list of response strings (one per prompt)": whichever of the ways were
\* tried, each prompt that is over has left exactly one response.
OneAnswerEach ==
  /\ at \in Working => Len(responses) = (IF at = "next" \/ at = "llm" THEN idx ELSE idx - 1)
  /\ at = "over" /\ result = "done" => Len(responses) = Prompts

\* "Clear focused field first [...] so retries would otherwise stack text from
\* previous attempts": with the ADB keyboard an attempt cut off between typing and
\* sending leaves nothing in front of what a later one sends.
SentAlone == profile.keyboard = "adb" => ~stacked

\* "Clear clipboard so a previous prompt's text can't be mistaken for a
\* successful copy": what the tap of the first way gives was copied after this
\* prompt was sent, not by an earlier prompt or attempt, even if clearing fails
\* once for it: the clipboard is cleared before the tries and again for each.
TapIsFresh ==
  \A i \in DOMAIN responses :
    responses[i].by = "vlm" => responses[i].copied = first + i \/ responses[i].failed >= 2

\* The same however often clearing fails.  Not so: each error is passed over, and the
\* tap that copies nothing then finds the text of an earlier prompt.
TapIsAlwaysFresh ==
  \A i \in DOMAIN responses : responses[i].by = "vlm" => responses[i].copied = first + i

\* The same of the copy button that the tree names: not so, its clipboard is not
\* cleared, and a tap that copies nothing gives the text of an earlier prompt.
CopyIsFresh ==
  \A i \in DOMAIN responses : responses[i].by = "copy" => responses[i].copied = first + i

\* "Always snapshot final state": the screenshot kept of a prompt that is over
\* shows it in this attempt.  Not so where a model reads it: the file of the
\* attempt before is taken for one written by "a prior branch".
FinalShotIsOwn ==
  \A i \in DOMAIN responses : shots[i] = attempt

\* The model's answers belong to the attempt that counts, in the order of its
\* prompts.  Not so: those of an attempt cut off stay, and a prompt answered
\* another way leaves none.
LlmIsOwn ==
  at = "over" /\ result = "done" => \A i \in DOMAIN llm : llm[i] = <<attempt, i>>

\* However its attempts end, a run leaves the phone the keyboard it found, unless a
\* switch from or to it failed or was cut off.
KeyboardComesBack == at = "over" /\ ~torn => ime = "own"

\* "try/finally guarantees the restore": the same of every run.  Not so: what the
\* finally needs is remembered only after the switch, and the next attempt takes
\* the keyboard that was left behind for the phone's own.
KeyboardAlwaysBack == at = "over" => ime = "own"

\* What a run records was sent and read by this run, and the phone is left as it was.
TurnIsOwn == TypeOK /\ OneAnswerEach /\ SentAlone /\ TapIsFresh /\ KeyboardComesBack
=============================================================================
