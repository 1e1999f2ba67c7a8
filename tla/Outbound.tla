------------------------------ MODULE Outbound -----------------------------
(***************************************************************************)
(* One request to another service and its retries: to a model              *)
(* (utils/http_retry.py and the callers that judge the final answer), to   *)
(* DingTalk (notifications/dingtalk.py), to a callback URL                 *)
(* (webhooks/sender.py), and the check of a model's configuration          *)
(* (executors/llm_checker.py).                                             *)
(***************************************************************************)
EXTENDS Integers, FiniteSets

CONSTANTS Clients,        \* of the names in Result
          Asks,           \* values of Retry-After
          MaxRetryAfter   \* _MAX_RETRY_AFTER_SEC

VARIABLES client, at, attempt,
          answer,    \* to the last post
          result,    \* what the caller makes of it
          taken,     \* posts that the service took
          doubt,     \* history: an answer did not tell whether it took the post
          waited,    \* time between the posts
          tap        \* of "button": the coordinates read from the reply

outVars == <<client, at, attempt, answer, result, taken, doubt, waited, tap>>

MaxAttempts == 3
Backoff == <<1, 2, 4>>   \* _BACKOFF_SEC

\* "accepted" is a 2xx other than 200; "refused" a 200 that holds an errcode,
\* "busy" one with an errcode of the rate limit; "shape" a 200 with a body that
\* is not what it should be.
Answers == {"ok", "accepted", "refused", "busy", "shape", "limited", "denied",
            "missing", "bad", "server", "timeout", "network"}

\* An errcode is DingTalk's, and a callback's body is not looked at.
AnswersTo(c) ==
  Answers \ ((IF c = "alert" THEN {} ELSE {"refused", "busy"})
             \cup (IF c = "webhook" THEN {"shape"} ELSE {}))

Doubtful == {"server", "timeout", "network"}
Taking == {"ok", "accepted"}
-----------------------------------------------------------------------------
(* Which answers are worth another post *)

\* post_json_with_retry.
ModelRetries == answer \in {"limited", "server", "timeout", "network"}

\* _is_retryable
AlertRetries == answer \in {"busy", "server", "timeout", "network"}

\* Mutant: only a 200 counts as received.
WebhookRetriesAccepted == answer # "ok"

WebhookRetries == answer \notin {"ok", "accepted"}

Models == {"tree", "shot", "html", "entry", "button", "page"}

\* The agent's model, an api sample and a check of a configuration get one post.
Retries ==
  CASE client \in Models -> ModelRetries
    [] client = "alert" -> AlertRetries
    [] client = "webhook" -> WebhookRetries
    [] client \in {"agent", "api", "check"} -> FALSE

NoAsk == 0 - 1   \* no Retry-After, or none that can be read

\* Mutant: as long as the service asks for.
PauseAsked(ask) ==
  IF client \in Models /\ answer = "limited" /\ ask # NoAsk THEN ask ELSE Backoff[attempt]

\* _parse_retry_after, up to a limit.
Pause(ask) ==
  IF client \in Models /\ answer = "limited" /\ ask # NoAsk
  THEN IF ask < MaxRetryAfter THEN ask ELSE MaxRetryAfter
  ELSE Backoff[attempt]
-----------------------------------------------------------------------------
(* What the callers make of the final answer.  A caller that raises, or an   *)
(* error, is named by the error; "ok" stands for a text, a verdict, a pair   *)
(* of coordinates or a message that arrived.                                 *)

Unreached == answer \in {"timeout", "network"}
Denied == answer = "denied"

Extracted ==
  CASE answer = "timeout" -> "timeout"
    [] answer = "network" -> "connect"
    [] Denied -> "auth"
    [] answer = "ok" -> "ok"
    [] OTHER -> "response_shape"

\* extract_response_via_llm: what was cut from the XML is not an error.
TreeResult(cut) == Extracted

\* extract_response_from_screenshot
ShotResult == Extracted

\* extract_web_response_via_llm: what was cut from the HTML is one.
HtmlResult(cut) == IF Extracted = "ok" /\ cut THEN "truncated" ELSE Extracted

\* verify_text_entry_in_screenshot: "ok" is the model's word that the text is there.
EntryResult(yes) == IF Extracted = "ok" /\ ~yes THEN "absent" ELSE Extracted

\* is_normal_chat_page: none of the screenshots could be read, or the model's word.
PageResult(yes) ==
  CASE answer = "ok" -> IF yes THEN "ok" ELSE "abnormal"
    [] Unreached \/ Denied -> Extracted
    [] answer = "shape" -> "response_shape"
    [] OTHER -> "status"

\* locate_copy_button_via_vlm, before the reply is read.
ButtonResult ==
  IF answer = "ok" \/ Unreached \/ answer = "shape" THEN Extracted ELSE "status"

\* ModelClient.call and ApiExecutor.execute raise what raise_for_status raises.
AgentResult == IF answer = "ok" THEN "ok" ELSE "raised"
ApiResult == IF answer = "ok" THEN "ok" ELSE "raised"

\* Mutant: what came with a 200 was delivered.
AlertResultByStatus == IF answer \in {"ok", "refused", "busy"} THEN "ok" ELSE "lost"

\* _send_once
AlertResult == IF answer = "ok" THEN "ok" ELSE "lost"

WebhookResult == IF WebhookRetries THEN "lost" ELSE "ok"

\* check_llm_api
CheckResult ==
  CASE Unreached -> "connect"
    [] Denied -> "auth"
    [] answer = "missing" -> "model_not_found"
    [] answer = "ok" -> "ok"
    [] OTHER -> "response_shape"

Result(flag) ==
  CASE client = "tree" -> TreeResult(flag)
    [] client = "shot" -> ShotResult
    [] client = "html" -> HtmlResult(flag)
    [] client = "entry" -> EntryResult(flag)
    [] client = "page" -> PageResult(flag)
    [] client = "button" -> ButtonResult
    [] client = "agent" -> AgentResult
    [] client = "api" -> ApiResult
    [] client = "alert" -> AlertResult
    [] client = "webhook" -> WebhookResult
    [] client = "check" -> CheckResult
-----------------------------------------------------------------------------
(* The reply of locate_copy_button_via_vlm, in whatever form the model chose: *)
(* the object in it, a pair named x and y in this or that order, a bare pair; *)
(* and the same of a dialog in the way. Words like "no button" are looked for *)
(* last, where there is no place anyway: beside a pair they count for nothing. *)

Reply == [object : {"none", "found false", "pair", "nested", "other"},
          named : {"none", "xy", "yx"}, bare : BOOLEAN, dialog : BOOLEAN]

None == <<>>

\* The pair in the order in which the reply names its parts.
AsNamed(named) == IF named = "yx" THEN <<"y", "x">> ELSE <<"x", "y">>

Swapped(pair) == <<pair[2], pair[1]>>

\* Mutant: a pair named y first is taken as it stands.
InOrderAsIs(named) == AsNamed(named)

\* _YX_NAMED_RE: swapped, so that the result is always (x, y).
InOrder(named) == IF named = "yx" THEN Swapped(AsNamed(named)) ELSE AsNamed(named)

\* _extract_coords
Coords(r) ==
  IF r.object = "found false" THEN None
  ELSE IF r.object \in {"pair", "nested"} THEN <<"x", "y">>
  ELSE IF r.named # "none" THEN InOrder(r.named)
  ELSE IF r.bare THEN <<"x", "y">>
  ELSE None

\* _extract_dialog_coords first, if the profile asks for it.
Place(r, detect) == IF detect /\ r.dialog THEN <<"dialog x", "dialog y">> ELSE Coords(r)
-----------------------------------------------------------------------------
Post ==
  /\ at = "post"
  /\ \E a \in AnswersTo(client), took \in BOOLEAN :
       /\ took = (IF a \in Doubtful THEN took ELSE a \in Taking)
       /\ answer' = a
       /\ taken' = taken + (IF took THEN 1 ELSE 0)
       /\ doubt' = (doubt \/ a \in Doubtful)
  /\ at' = "judge"
  /\ UNCHANGED <<client, attempt, result, waited, tap>>

Again ==
  /\ at = "judge" /\ Retries /\ attempt < MaxAttempts
  /\ \E ask \in Asks \cup {NoAsk} : waited' = waited + Pause(ask)
  /\ attempt' = attempt + 1 /\ at' = "post"
  /\ UNCHANGED <<client, answer, result, taken, doubt, tap>>

Finish ==
  /\ at = "judge" /\ (~Retries \/ attempt = MaxAttempts)
  /\ \E flag \in BOOLEAN : result' = Result(flag)
  /\ at' = "over"
  /\ IF client = "button" /\ ButtonResult = "ok"
     THEN \E r \in Reply, detect \in BOOLEAN : tap' = [place |-> Place(r, detect), of |-> r]
     ELSE UNCHANGED tap
  /\ UNCHANGED <<client, attempt, answer, taken, doubt, waited>>

Init ==
  /\ client \in Clients /\ at = "post" /\ attempt = 1
  /\ answer = "none" /\ result = "none" /\ taken = 0 /\ doubt = FALSE /\ waited = 0
  /\ tap = [place |-> None]

Next == Post \/ Again \/ Finish

Spec == Init /\ [][Next]_outVars
-----------------------------------------------------------------------------
\* A message reaches DingTalk or a callback URL twice only if the answer to the
\* first left open whether it had arrived.
TwiceOnlyInDoubt == taken > 1 => doubt

\* "a single miss = a lost alert": an alert or a result reported as sent has
\* arrived, at some attempt; and no text or verdict comes without an answer.
SentHasArrived == result \in {"ok", "absent", "abnormal", "truncated"} => taken > 0

\* "a sample shouldn't hang for minutes on one 429": the pauses of a call add up
\* to at most the limit for each of them, whatever the service asks for.
PausesAreBounded == waited <= (MaxAttempts - 1) * MaxRetryAfter

\* "swap so result is always (x, y)", and a reply whose object says "found": false is
\* not tapped, whatever numbers are beside it.
TapIsWhereSaid ==
  /\ tap.place \in {None, <<"x", "y">>, <<"dialog x", "dialog y">>}
  /\ tap.place = <<"x", "y">> => tap.of.object # "found false"

\* What a call says of itself is what the service did.
SendsAreTold == TwiceOnlyInDoubt /\ SentHasArrived /\ PausesAreBounded /\ TapIsWhereSaid
=============================================================================
