----------------------------- MODULE ScreenStream ----------------------------
(***************************************************************************)
(* The screen of one phone in the browser (api/device_stream.py): each     *)
(* viewer has a screenrecord process, _active_streams names the last; and  *)
(* the taps and keys sent back to it (devices/u2_input.py), by a warm      *)
(* uiautomator2 connection once there is one, else by adb shell.           *)
(***************************************************************************)
EXTENDS Naturals, FiniteSets

CONSTANTS Viewers, Inputs,
          MaxWarmups   \* bound: warm-ups of the connection

VARIABLES view,      \* viewer -> "away", "open", "kill", "watch", "end" or "left"
          recorder,  \* viewer -> its process: "none", "runs", "dead"
          victim,    \* viewer -> whose process it replaces
          active,    \* _active_streams[serial]
          does,      \* input -> "new", "look", "u2", "shell", "sent" or "error"
          done,      \* input -> how often the phone carried it out
          doubt,     \* history: u2 failed after the phone had carried it out
          ready,     \* _ready[serial]: "none", "good", or "broken" connection
          warming,   \* serial \in _warming
          warmer,    \* the threads that warm up: how many connect, how many are to end
          warmups

viewing == <<view, recorder, victim, active>>
typing == <<does, done, doubt>>
warm == <<ready, warming, warmer, warmups>>
screenVars == <<viewing, typing, warm>>

Nobody == "nobody"
-----------------------------------------------------------------------------
(* A viewer *)

\* A request with a good token and serial: get_screen_resolution asks the phone.
Open(v) ==
  /\ view[v] = "away"
  /\ view' = [view EXCEPT ![v] = "open"]
  /\ UNCHANGED <<recorder, victim, active, typing, warm>>

\* The phone does not answer.
Unreachable(v) ==
  /\ view[v] = "open"
  /\ view' = [view EXCEPT ![v] = "left"]
  /\ UNCHANGED <<recorder, victim, active, typing, warm>>

\* _spawn_screenrecord takes the prior stream off and begins to kill it, ...
Replace(v) ==
  /\ view[v] = "open"
  /\ victim' = [victim EXCEPT ![v] = active]
  /\ active' = Nobody
  /\ view' = [view EXCEPT ![v] = "kill"]
  /\ UNCHANGED <<recorder, typing, warm>>

Killed(v) == IF v = Nobody THEN recorder ELSE [recorder EXCEPT ![v] = "dead"]

\* ... waits until it has ended, and starts its own.
Spawn(v) ==
  /\ view[v] = "kill"
  /\ recorder' = [Killed(victim[v]) EXCEPT ![v] = "runs"]
  /\ active' = v
  /\ view' = [view EXCEPT ![v] = "watch"]
  /\ UNCHANGED <<victim, typing, warm>>

\* screenrecord ends by itself (its limit, an error, a phone that is lost).
Exit(v) ==
  /\ recorder[v] = "runs"
  /\ recorder' = [recorder EXCEPT ![v] = "dead"]
  /\ UNCHANGED <<view, victim, active, typing, warm>>

\* Mutant: its process is killed only if it is the one registered.
EndIfActive(v) ==
  /\ view[v] = "watch"
  /\ active' = IF active = v THEN Nobody ELSE active
  /\ view' = [view EXCEPT ![v] = IF active = v THEN "end" ELSE "left"]
  /\ UNCHANGED <<recorder, victim, typing, warm>>

\* The last chunk, no chunk for 8 s, one that is no H.264, or the viewer is gone:
\* the finally clause takes off what is registered, ...
End(v) ==
  /\ view[v] = "watch"
  /\ active' = Nobody
  /\ view' = [view EXCEPT ![v] = "end"]
  /\ UNCHANGED <<recorder, victim, typing, warm>>

\* ... and kills its own process.
Leave(v) ==
  /\ view[v] = "end"
  /\ recorder' = Killed(v)
  /\ view' = [view EXCEPT ![v] = "left"]
  /\ UNCHANGED <<victim, active, typing, warm>>
-----------------------------------------------------------------------------
(* An input *)

To(i, where) == does' = [does EXCEPT ![i] = where]

\* device_input hands the command to a thread.  Text goes to the shell at once.
Receive(i) ==
  /\ does[i] = "new"
  /\ \E text \in BOOLEAN : To(i, IF text THEN "shell" ELSE "look")
  /\ UNCHANGED <<viewing, done, doubt, warm>>

\* Mutant: a warm-up under way is not looked for.
MayWarmAgain == ready = "none"

\* _start_warmup, under the lock.
MayWarm == ready = "none" /\ ~warming

\* send_input: a warm connection, or one is begun for the next time.
Look(i) ==
  /\ does[i] = "look"
  /\ IF ready # "none"
     THEN To(i, "u2") /\ UNCHANGED warm
     ELSE /\ To(i, "shell")
          /\ IF MayWarm
             THEN /\ warmups < MaxWarmups /\ warmups' = warmups + 1
                  /\ warming' = TRUE /\ warmer' = [warmer EXCEPT !.connects = @ + 1]
                  /\ UNCHANGED ready
             ELSE UNCHANGED warm
  /\ UNCHANGED <<viewing, done, doubt>>

\* _dispatch_u2.  It fails, for a key it does not know or a connection that broke,
\* before the phone acted on it or after: the connection is dropped.
ByU2(i) ==
  /\ does[i] = "u2"
  /\ \/ /\ To(i, "sent") /\ done' = [done EXCEPT ![i] = @ + 1]
        /\ UNCHANGED <<doubt, ready>>
     \/ /\ To(i, "shell") /\ ready' = "none"
        /\ \E acted \in BOOLEAN :
             /\ done' = [done EXCEPT ![i] = @ + IF acted THEN 1 ELSE 0]
             /\ doubt' = [doubt EXCEPT ![i] = @ \/ acted]
  /\ UNCHANGED <<viewing, warming, warmer, warmups>>

\* Mutant: after u2, a failed shell command is tried again.
ByShellTwice(i) ==
  /\ does[i] = "shell"
  /\ \/ To(i, "sent") /\ done' = [done EXCEPT ![i] = @ + 1]
     \/ To(i, "shell") /\ done' = [done EXCEPT ![i] = @ + 1]
  /\ UNCHANGED <<viewing, doubt, warm>>

\* run_input_command.
ByShell(i) ==
  /\ does[i] = "shell"
  /\ \/ To(i, "sent") /\ done' = [done EXCEPT ![i] = @ + 1]
     \/ To(i, "error") /\ UNCHANGED done
  /\ UNCHANGED <<viewing, doubt, warm>>

\* _warmup: connect and probe, ...
Warmed ==
  /\ warmer.connects > 0
  /\ warmer' = [connects |-> warmer.connects - 1, ends |-> warmer.ends + 1]
  /\ ready' \in {"good", ready}
  /\ UNCHANGED <<viewing, typing, warming, warmups>>

\* Mutant: only a warm-up that succeeded takes the mark off.
WarmEndIfReady ==
  /\ warmer.ends > 0
  /\ warmer' = [warmer EXCEPT !.ends = @ - 1]
  /\ warming' = (ready = "none")
  /\ UNCHANGED <<viewing, typing, ready, warmups>>

\* ... and in any case the mark is taken off.
WarmEnd ==
  /\ warmer.ends > 0
  /\ warmer' = [warmer EXCEPT !.ends = @ - 1]
  /\ warming' = FALSE
  /\ UNCHANGED <<viewing, typing, ready, warmups>>

Init ==
  /\ view = [v \in Viewers |-> "away"] /\ recorder = [v \in Viewers |-> "none"]
  /\ victim = [v \in Viewers |-> Nobody] /\ active = Nobody
  /\ does = [i \in Inputs |-> "new"] /\ done = [i \in Inputs |-> 0]
  /\ doubt = [i \in Inputs |-> FALSE]
  /\ ready = "none" /\ warming = FALSE /\ warmups = 0
  /\ warmer = [connects |-> 0, ends |-> 0]

Next ==
  \/ \E v \in Viewers :
       Open(v) \/ Unreachable(v) \/ Replace(v) \/ Spawn(v) \/ Exit(v) \/ End(v) \/ Leave(v)
  \/ \E i \in Inputs : Receive(i) \/ Look(i) \/ ByU2(i) \/ ByShell(i)
  \/ Warmed \/ WarmEnd

Spec == Init /\ [][Next]_screenVars
-----------------------------------------------------------------------------
\* No screenrecord is left running on the phone by a viewer who has gone.
NoneIsLeftBehind == \A v \in Viewers : view[v] = "left" => recorder[v] # "runs"

\* "always clears the in-flight flag so a later tap can retry": a warm-up marked as
\* under way is, and there is one of them.
OneWarmUp ==
  /\ warmer.connects + warmer.ends <= 1
  /\ warming <=> warmer.connects + warmer.ends = 1

\* A tap is carried out twice only if u2 failed after the phone had acted.
TappedTwiceInDoubt == \A i \in Inputs : done[i] > 1 => doubt[i] /\ done[i] = 2

\* "Replaces any prior stream for the same serial to avoid two screenrecord processes
\* fighting for the encoder."  Not so of two viewers who open it at once, nor of the
\* third, as the end of the first stream takes the second one's entry off.
OneRecorder == Cardinality({v \in Viewers : recorder[v] = "runs"}) <= 1

\* Viewers leave nothing behind on the phone, and their inputs arrive once.
ScreenIsTidy == NoneIsLeftBehind /\ OneWarmUp /\ TappedTwiceInDoubt
=============================================================================
