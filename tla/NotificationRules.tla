------------------------- MODULE NotificationRules -------------------------
(***************************************************************************)
(* The rules evaluated after every sample (notifications/rules.py): empty  *)
(* responses in a row, the same response in a row, and an ANR of the app.  *)
(*                                                                         *)
(* The scheduler awaits on_sample_result in the task of each sample, so    *)
(* samples of one phone from different batches are in it at the same time. *)
(* The streaks are changed and saved under one asyncio.Lock: each such     *)
(* block is one step.  The lists, the judgement by the VLM, the log of the *)
(* phone and the alerts are outside of it.  One profile stands for all:    *)
(* the second streak is per (phone, profile) and the lists per profile.    *)
(***************************************************************************)
EXTENDS Naturals, Sequences, SequencesExt

CONSTANTS Samples, Serials,
          SerialOf,    \* sample -> the phone it ran on
          Responses,   \* texts other than the empty one
          Empty,       \* the empty response
          Threshold,   \* empty_response_threshold and same_response_threshold
          MaxKills     \* bound: restarts of the process

ASSUME RulesAssumption ==
  /\ SerialOf \in [Samples -> Serials]
  /\ Empty \notin Responses
  /\ Threshold \in Nat \ {0} /\ MaxKills \in Nat

VARIABLES at,        \* sample -> where its call of on_sample_result stands
          text,      \* sample -> its effective response
          memory,    \* _streak and _same_state
          loaded,    \* _state_loaded
          saved,     \* the row "notification_state"
          list,      \* the rows of the whitelist and of the blacklist
          entries,   \* sample -> the list that its add() has read
          edit,      \* the request that edits a list: what it will save
          refs,      \* sample -> the streak its call has to judge
          alerts,    \* <<rule, sample>>: anomalies recorded and sent
          counted,   \* history: phone -> what the first rule saw, in lock order
          faulty,    \* history: a read or a write of the saved row failed
          kills

streaks == <<memory, loaded, saved, faulty>>
lists == <<list, entries, edit>>
rulesVars == <<at, text, streaks, lists, refs, alerts, counted, kills>>

Blank == [empty |-> [d \in Serials |-> 0], same |-> [d \in Serials |-> <<>>]]
NoEdit == [on |-> "none", keep |-> {}]
Stages == {"running", "empty", "emptyFires", "black", "dropBlack", "white", "dropWhite",
           "count", "judge", "addWhite", "addBlack", "saveWhite", "saveBlack",
           "sameFires", "anr", "anrFires", "over"}

\* A streak, the streaks of all phones.
StreaksOK(m) ==
  \A d \in Serials : m.empty[d] \in 0 .. Threshold /\ m.same[d] \in Seq(Samples)

TypeOK ==
  /\ at \in [Samples -> Stages]
  /\ text \in [Samples -> Responses \cup {Empty}]
  /\ StreaksOK(memory) /\ StreaksOK(saved)
  /\ loaded \in BOOLEAN /\ faulty \in BOOLEAN
  /\ list \in [{"white", "black"} -> SUBSET Responses]
  /\ entries \in [Samples -> SUBSET Responses]
  /\ edit.on \in {"none", "white", "black"} /\ edit.keep \in SUBSET Responses
  /\ \A x \in Samples : refs[x] \in Seq(Samples)
  /\ alerts \in SUBSET ({"empty", "same", "anr"} \X Samples)

Goto(x, where) == at' = [at EXCEPT ![x] = where]
-----------------------------------------------------------------------------
(* The streaks under _lock *)

\* _hydrate_state_once: the first block after a start loads the row; a failing
\* read is not repeated.  The bound on failures is one read or write.
Hydrated == IF loaded THEN memory ELSE saved
Found == IF loaded \/ faulty THEN {Hydrated} ELSE {saved, Blank}

\* Mutant: the row is written only when a streak grew.
PersistGrowth(found, made) ==
  /\ memory' = made
  /\ loaded' = TRUE
  /\ saved' = IF \E d \in Serials : made.empty[d] > found.empty[d] \/ made.same[d] # <<>>
              THEN made ELSE saved
  /\ faulty' = (faulty \/ found # Hydrated)

\* _persist_state writes what the block made of the streaks it found; a failing
\* write is logged.
Persist(found, made) ==
  /\ memory' = made
  /\ loaded' = TRUE
  /\ saved' \in {made} \cup (IF faulty THEN {} ELSE {saved})
  /\ faulty' = (faulty \/ found # Hydrated \/ saved' # made)
-----------------------------------------------------------------------------
(* on_sample_result *)

\* The sample has its result.  One that never reached a phone, or alerts that
\* are off or lack a webhook, end the call; only a sample that is done meets the
\* two streak rules.
Begin(x) ==
  /\ at[x] = "running"
  /\ \E answer \in Responses \cup {Empty} : text' = [text EXCEPT ![x] = answer]
  /\ \E where \in {"empty", "anr", "over"} : Goto(x, where)
  /\ UNCHANGED <<streaks, lists, refs, alerts, counted, kills>>

\* Mutant: the counter is not set back when the alert fires.
EmptyRuleKeeping(x) ==
  /\ at[x] = "empty"
  /\ \E found \in Found :
       LET d == SerialOf[x]
           count == IF text[x] = Empty THEN (found.empty[d] + 1) % (Threshold + 1) ELSE 0
       IN  /\ Persist(found, [found EXCEPT !.empty[d] = count])
           /\ Goto(x, IF count >= Threshold THEN "emptyFires" ELSE "black")
  /\ counted' = [counted EXCEPT ![SerialOf[x]] = Append(@, x)]
  /\ UNCHANGED <<text, lists, refs, alerts, kills>>

\* The counter of the phone grows or is set back; at the threshold it fires.
EmptyRule(x) ==
  /\ at[x] = "empty"
  /\ \E found \in Found :
       LET d == SerialOf[x]
           count == IF text[x] = Empty THEN found.empty[d] + 1 ELSE 0
           fires == count >= Threshold
       IN  /\ Persist(found, [found EXCEPT !.empty[d] = IF fires THEN 0 ELSE count])
           /\ Goto(x, IF fires THEN "emptyFires" ELSE "black")
  /\ counted' = [counted EXCEPT ![SerialOf[x]] = Append(@, x)]
  /\ UNCHANGED <<text, lists, refs, alerts, kills>>

\* An alert: an init job of the phone is started (if the rule's switch is on; an
\* ANR always), the anomaly is recorded and the message is sent, each best effort.
Fire(rule, x) ==
  /\ alerts' = alerts \cup {<<rule, x>>}
  /\ UNCHANGED <<text, streaks, lists, refs, counted, kills>>

FireEmpty(x) ==
  /\ at[x] = "emptyFires"
  /\ Fire("empty", x) /\ Goto(x, "black")

\* The second rule passes over an empty response, and over every response
\* while it is switched off; then the blacklist decides.
LookBlack(x) ==
  /\ at[x] = "black"
  /\ \/ Goto(x, "anr")
     \/ text[x] # Empty /\ Goto(x, IF text[x] \in list["black"] THEN "dropBlack" ELSE "white")
  /\ UNCHANGED <<text, streaks, lists, refs, alerts, counted, kills>>

\* Without a configured VLM the rule ends here.
LookWhite(x) ==
  /\ at[x] = "white"
  /\ \/ Goto(x, "anr")
     \/ Goto(x, IF text[x] \in list["white"] THEN "dropWhite" ELSE "count")
  /\ UNCHANGED <<text, streaks, lists, refs, alerts, counted, kills>>

\* A listed response ends the streak of its phone; a black one is an alert of
\* this sample alone.
DropStreak(x) ==
  /\ at[x] \in {"dropBlack", "dropWhite"}
  /\ \E found \in Found : Persist(found, [found EXCEPT !.same[SerialOf[x]] = <<>>])
  /\ refs' = [refs EXCEPT ![x] = IF at[x] = "dropBlack" THEN <<x>> ELSE <<>>]
  /\ Goto(x, IF at[x] = "dropBlack" THEN "sameFires" ELSE "anr")
  /\ UNCHANGED <<text, lists, alerts, counted, kills>>

\* Mutant: a streak that is taken for judgement stays in the table.
CountSameKeeping(x) ==
  /\ at[x] = "count"
  /\ \E found \in Found :
       LET d == SerialOf[x]
           s == found.same[d]
           n == IF s # <<>> /\ text[Head(s)] = text[x] THEN Append(s, x) ELSE <<x>>
       IN  /\ Persist(found, [found EXCEPT !.same[d] = n])
           /\ refs' = [refs EXCEPT ![x] = IF Len(n) >= Threshold THEN n ELSE <<>>]
           /\ Goto(x, IF Len(n) >= Threshold THEN "judge" ELSE "anr")
  /\ UNCHANGED <<text, lists, alerts, counted, kills>>

\* The streak grows or starts again; at the threshold it is taken for judgement.
CountSame(x) ==
  /\ at[x] = "count"
  /\ \E found \in Found :
       LET d == SerialOf[x]
           s == found.same[d]
           n == IF s # <<>> /\ text[Head(s)] = text[x] THEN Append(s, x) ELSE <<x>>
           full == Len(n) >= Threshold
       IN  /\ Persist(found, [found EXCEPT !.same[d] = IF full THEN <<>> ELSE n])
           /\ refs' = [refs EXCEPT ![x] = IF full THEN n ELSE <<>>]
           /\ Goto(x, IF full THEN "judge" ELSE "anr")
  /\ UNCHANGED <<text, lists, alerts, counted, kills>>

\* judge_screenshot: the model's answer, or none.
Verdicts == {"normal", "abnormal", "none"}

\* _judge_and_act: a normal page whitelists the response and is no alert, an
\* abnormal one blacklists it and is; no screenshot, no readable one, a failing
\* call or an answer that cannot be read is an alert.
Judge(x) ==
  /\ at[x] = "judge"
  /\ \E v \in Verdicts :
       Goto(x, CASE v = "normal" -> "addWhite" [] v = "abnormal" -> "addBlack"
                 [] v = "none" -> "sameFires")
  /\ UNCHANGED <<text, streaks, lists, refs, alerts, counted, kills>>

FireSame(x) ==
  /\ at[x] = "sameFires"
  /\ Fire("same", x) /\ Goto(x, "anr")
-----------------------------------------------------------------------------
(* _response_list: add() reads the row, then writes it *)

\* A response that is listed already is not added again.
ReadList(x) ==
  /\ at[x] \in {"addWhite", "addBlack"}
  /\ LET l == IF at[x] = "addWhite" THEN "white" ELSE "black"
     IN  IF text[x] \in list[l]
         THEN Goto(x, IF l = "white" THEN "anr" ELSE "sameFires") /\ UNCHANGED entries
         ELSE /\ entries' = [entries EXCEPT ![x] = list[l]]
              /\ Goto(x, IF l = "white" THEN "saveWhite" ELSE "saveBlack")
  /\ UNCHANGED <<text, streaks, list, edit, refs, alerts, counted, kills>>

SaveList(x) ==
  /\ at[x] \in {"saveWhite", "saveBlack"}
  /\ LET l == IF at[x] = "saveWhite" THEN "white" ELSE "black"
     IN  /\ list' = [list EXCEPT ![l] = entries[x] \cup {text[x]}]
         /\ Goto(x, IF l = "white" THEN "anr" ELSE "sameFires")
  /\ entries' = [entries EXCEPT ![x] = {}]
  /\ UNCHANGED <<text, streaks, edit, refs, alerts, counted, kills>>

\* A request adds or removes an entry: it has read the row.
EditList(l, r) ==
  /\ edit = NoEdit
  /\ edit' = [on |-> l, keep |-> IF r \in list[l] THEN list[l] \ {r} ELSE list[l] \cup {r}]
  /\ UNCHANGED <<at, text, streaks, list, entries, refs, alerts, counted, kills>>

SaveEdit ==
  /\ edit # NoEdit
  /\ list' = [list EXCEPT ![edit.on] = edit.keep]
  /\ edit' = NoEdit
  /\ UNCHANGED <<at, text, streaks, entries, refs, alerts, counted, kills>>
-----------------------------------------------------------------------------
(* The ANR rule *)

\* It reads the phone's log and clears it; a hit is an alert.
AnrRule(x) ==
  /\ at[x] = "anr"
  /\ Goto(x, "over") \/ Goto(x, "anrFires")
  /\ UNCHANGED <<text, streaks, lists, refs, alerts, counted, kills>>

FireAnr(x) ==
  /\ at[x] = "anrFires"
  /\ Fire("anr", x) /\ Goto(x, "over")
-----------------------------------------------------------------------------
\* The process is killed: the calls under way are not resumed.
Kill ==
  /\ kills < MaxKills /\ kills' = kills + 1
  /\ at' = [x \in Samples |-> IF at[x] = "running" THEN "running" ELSE "over"]
  /\ memory' = Blank /\ loaded' = FALSE
  /\ entries' = [x \in Samples |-> {}] /\ edit' = NoEdit
  /\ refs' = [x \in Samples |-> <<>>]
  /\ UNCHANGED <<text, saved, faulty, list, alerts, counted>>

Init ==
  /\ at = [x \in Samples |-> "running"]
  /\ text = [x \in Samples |-> Empty]
  /\ memory = Blank /\ saved = Blank /\ loaded = FALSE /\ faulty = FALSE
  /\ list = [l \in {"white", "black"} |-> {}]
  /\ entries = [x \in Samples |-> {}] /\ edit = NoEdit
  /\ refs = [x \in Samples |-> <<>>]
  /\ alerts = {}
  /\ counted = [d \in Serials |-> <<>>]
  /\ kills = 0

CallStep(x) ==
  \/ EmptyRule(x) \/ FireEmpty(x)
  \/ LookBlack(x) \/ LookWhite(x) \/ DropStreak(x) \/ CountSame(x) \/ Judge(x) \/ FireSame(x)
  \/ ReadList(x) \/ SaveList(x)
  \/ AnrRule(x) \/ FireAnr(x)

Next ==
  \/ \E x \in Samples : Begin(x) \/ CallStep(x)
  \/ \E l \in {"white", "black"}, r \in Responses : EditList(l, r)
  \/ SaveEdit
  \/ Kill

Spec == Init /\ [][Next]_rulesVars
-----------------------------------------------------------------------------
\* How many samples at the end of s were empty.
Trailing(s) ==
  LET lengths == {n \in 0 .. Len(s) : \A i \in Len(s) - n + 1 .. Len(s) : text[s[i]] = Empty}
  IN  CHOOSE n \in lengths : \A m \in lengths : m <= n

\* "Persisted to the kv config so uvicorn reload doesn't reset a mid-flight
\* streak": while the row can be read and written, the counter of a phone is the
\* length of its present run of empty responses, modulo the alerts it gave,
\* whatever the order of the calls and however often the process was killed.
StreakIsTrailingRun ==
  ~faulty => \A d \in Serials : Hydrated.empty[d] = Trailing(counted[d]) % Threshold

\* "consecutive empty responses": while nothing was killed or failed, the alerts
\* on empty responses are those of every Threshold-th sample of a run, in the
\* order in which the calls took the lock; each is given or about to be.
EveryNthEmptyAlerts ==
  ~faulty /\ kills = 0 =>
    \A d \in Serials : \A i \in DOMAIN counted[d] :
      LET x == counted[d][i]
          run == Trailing(SubSeq(counted[d], 1, i))
      IN  (<<"empty", x>> \in alerts \/ at[x] = "emptyFires")
            <=> (run > 0 /\ run % Threshold = 0)

\* "both whitelist and alert decisions consume the streak": no sample is in two
\* streaks, or in a streak and in a judgement; a streak is of one phone and of
\* one response and is taken before it is longer than the threshold.
Pending(x) == IF at[x] \in {"judge", "addWhite", "addBlack", "saveWhite", "saveBlack"}
              THEN ToSet(refs[x]) ELSE {}
StreaksAreApart ==
  /\ \A d \in Serials :
       LET s == Hydrated.same[d]
       IN  /\ Len(s) < Threshold /\ IsInjective(s)
           /\ \A i \in DOMAIN s : SerialOf[s[i]] = d /\ text[s[i]] = text[s[1]]
           /\ \A x \in Samples : ToSet(s) \cap Pending(x) = {}
  /\ \A x, y \in Samples : x # y => Pending(x) \cap Pending(y) = {}

\* "Whitelist so this exact response never trips again": a response stays on
\* its list while no request edits that list.
ListedStays ==
  [][\A l \in {"white", "black"} : edit.on # l => list[l] \subseteq list'[l]]_rulesVars

\* The streaks that the rules count are those that the phones had.
StreaksAreSound ==
  TypeOK /\ StreakIsTrailingRun /\ StreaksAreApart /\ EveryNthEmptyAlerts
=============================================================================
