------------------------------- MODULE WebRun -------------------------------
(***************************************************************************)
(* Samples of one web profile on WebExecutor (executors/web_executor.py):  *)
(* the browser they share, the lock around its page, the prompts, errors   *)
(* and timeouts.  The executor is one object for all batches and for       *)
(* synchronous tests, so calls overlap whatever a batch's concurrency is.  *)
(*                                                                         *)
(* The page's conversation is the list of prompts sent since it was last   *)
(* opened afresh; the site answers the last of them.                       *)
(***************************************************************************)
EXTENDS Naturals, Sequences

CONSTANTS Calls,
          Fresh,      \* those whose sample has new_session
          Prompts,    \* how many prompts a sample has
          Attempts,   \* retry + 1
          MaxLaunch   \* bound: browsers launched

VARIABLES pc, attempt,
          uses,      \* which context a call works on, 0 before it has one
          prompt,    \* how many prompts it began
          replies,   \* how many responses it collected in this attempt
          session,   \* _sessions[profile.name], 0 if there is none
          context,   \* "none", "open", "closed" by the executor, or "dead"
          lock,      \* who holds a session's lock, None
          talk,      \* the conversation shown by a context's page
          heard      \* history: the conversation of the last reply collected

webVars == <<pc, attempt, uses, prompt, replies, session, context, lock, talk, heard>>

None == "none"
Contexts == 1 .. MaxLaunch
Works(c) == context[c] = "open"

Holding == {"new", "fill", "send", "wait", "judge", "recover", "drop"}
Launching == {"launch", "setup"}

TypeOK ==
  /\ pc \in [Calls -> {"ready", "queue", "over"} \cup Holding \cup Launching]
  /\ attempt \in [Calls -> 1 .. Attempts]
  /\ uses \in [Calls -> 0 .. MaxLaunch]
  /\ prompt \in [Calls -> 0 .. Prompts] /\ replies \in [Calls -> 0 .. Prompts]
  /\ session \in 0 .. MaxLaunch
  /\ context \in [Contexts -> {"none", "open", "closed", "dead"}]
  /\ lock \in [Contexts -> Calls \cup {None}]
  /\ talk \in [Contexts -> Seq(Calls \X (1 .. Prompts))]
  /\ heard \in [Calls -> Seq(Calls \X (1 .. Prompts))]

Goes(s, to) == pc' = [pc EXCEPT ![s] = to]

Closed(c) == [context EXCEPT ![c] = IF @ = "open" THEN "closed" ELSE @]
Released(s) == [c \in Contexts |-> IF lock[c] = s THEN None ELSE lock[c]]
-----------------------------------------------------------------------------
(* _get_or_create_session *)

\* The session there is, else a browser is launched: between this look at
\* _sessions and Register there are awaits.
Start(s) ==
  /\ pc[s] = "ready"
  /\ uses' = [uses EXCEPT ![s] = session]
  /\ Goes(s, IF session # 0 THEN "queue" ELSE "launch")
  /\ UNCHANGED <<attempt, prompt, replies, session, context, lock, talk, heard>>

\* _launch_context, by the channel asked for, after the artifacts of a dead
\* browser were removed, or by the other channel.
Launch(s) ==
  /\ pc[s] = "launch"
  /\ \E c \in Contexts :
       /\ context[c] = "none" /\ \A d \in 1 .. c - 1 : context[d] # "none"
       /\ context' = [context EXCEPT ![c] = "open"]
       /\ uses' = [uses EXCEPT ![s] = c]
  /\ Goes(s, "setup")
  /\ UNCHANGED <<attempt, prompt, replies, session, lock, talk, heard>>

\* The page is open and ready.
Register(s) ==
  /\ pc[s] = "setup" /\ Works(uses[s])
  /\ session' = uses[s]
  /\ Goes(s, "queue")
  /\ UNCHANGED <<attempt, uses, prompt, replies, context, lock, talk, heard>>

\* Mutant: the page is not locked.
TakeUnlocked(s) ==
  /\ pc[s] = "queue"
  /\ Goes(s, IF s \in Fresh THEN "new" ELSE "fill")
  /\ UNCHANGED <<attempt, uses, prompt, replies, session, context, lock, talk, heard>>

\* async with session._lock.  Whoever waits may be next.
Take(s) ==
  /\ pc[s] = "queue" /\ lock[uses[s]] = None
  /\ lock' = [lock EXCEPT ![uses[s]] = s]
  /\ Goes(s, IF s \in Fresh THEN "new" ELSE "fill")
  /\ UNCHANGED <<attempt, uses, prompt, replies, session, context, talk, heard>>
-----------------------------------------------------------------------------
(* execute, on the page *)

\* new_session_action, or a fresh navigation.
NewSession(s) ==
  /\ pc[s] = "new" /\ Works(uses[s])
  /\ talk' = [talk EXCEPT ![uses[s]] = <<>>]
  /\ Goes(s, "fill")
  /\ UNCHANGED <<attempt, uses, prompt, replies, session, context, lock, heard>>

Fill(s) ==
  /\ pc[s] = "fill" /\ Works(uses[s])
  /\ prompt' = [prompt EXCEPT ![s] = @ + 1]
  /\ Goes(s, "send")
  /\ UNCHANGED <<attempt, uses, replies, session, context, lock, talk, heard>>

\* _send.
Send(s) ==
  /\ pc[s] = "send" /\ Works(uses[s])
  /\ talk' = [talk EXCEPT ![uses[s]] = Append(@, <<s, prompt[s]>>)]
  /\ Goes(s, "wait")
  /\ UNCHANGED <<attempt, uses, prompt, replies, session, context, lock, heard>>

\* wait_for_complete and the latest text of the page.
Collect(s) ==
  /\ pc[s] = "wait" /\ Works(uses[s])
  /\ replies' = [replies EXCEPT ![s] = @ + 1]
  /\ heard' = [heard EXCEPT ![s] = talk[uses[s]]]
  /\ Goes(s, "judge")
  /\ UNCHANGED <<attempt, uses, prompt, session, context, lock, talk>>

\* The model's own reading of the page, whose errors are noted and not raised; then
\* the next prompt, or the sample is done and the lock free.
Judge(s) ==
  /\ pc[s] = "judge"
  /\ IF prompt[s] < Prompts
     THEN Goes(s, "fill") /\ UNCHANGED lock
     ELSE Goes(s, "over") /\ lock' = Released(s)
  /\ UNCHANGED <<attempt, uses, prompt, replies, session, context, talk, heard>>
-----------------------------------------------------------------------------
(* Errors and timeouts *)

\* The sample's next attempt (Executor.run), or the end of it.
EndOfAttempt(s) ==
  /\ lock' = Released(s)
  /\ uses' = [uses EXCEPT ![s] = 0]
  /\ prompt' = [prompt EXCEPT ![s] = 0]
  /\ replies' = [replies EXCEPT ![s] = 0]
  /\ IF attempt[s] < Attempts
     THEN Goes(s, "ready") /\ attempt' = [attempt EXCEPT ![s] = @ + 1]
     ELSE Goes(s, "over") /\ UNCHANGED attempt

FailLaunch(s) ==
  /\ pc[s] = "launch"
  /\ EndOfAttempt(s)
  /\ UNCHANGED <<session, context, talk, heard>>

\* A page that does not open or become ready: the context is closed.
FailSetup(s) ==
  /\ pc[s] = "setup"
  /\ context' = Closed(uses[s])
  /\ EndOfAttempt(s)
  /\ UNCHANGED <<session, talk, heard>>

\* An error of new_session is raised as it is.
FailNewSession(s) ==
  /\ pc[s] = "new"
  /\ EndOfAttempt(s)
  /\ UNCHANGED <<session, context, talk, heard>>

\* An error of a prompt: a screenshot and recovery_path first.
FailPrompt(s) ==
  /\ pc[s] \in {"fill", "send", "wait"}
  /\ Goes(s, "recover")
  /\ UNCHANGED <<attempt, uses, prompt, replies, session, context, lock, talk, heard>>

\* Mutant: the session is closed and stays registered.
DropKeeping(s) ==
  /\ pc[s] = "recover"
  /\ uses' = [uses EXCEPT ![s] = session]
  /\ Goes(s, "drop")
  /\ UNCHANGED <<attempt, prompt, replies, session, context, lock, talk, heard>>

\* _invalidate_session takes what is registered for the profile, whoever uses it...
Drop(s) ==
  /\ pc[s] = "recover"
  /\ session' = 0
  /\ uses' = [uses EXCEPT ![s] = session]
  /\ Goes(s, "drop")
  /\ UNCHANGED <<attempt, prompt, replies, context, lock, talk, heard>>

\* ...and closes it, after which the error is raised.
Close(s) ==
  /\ pc[s] = "drop"
  /\ context' = IF uses[s] = 0 THEN context ELSE Closed(uses[s])
  /\ EndOfAttempt(s)
  /\ UNCHANGED <<session, talk, heard>>

\* The sample's timeout cancels execute at whatever it awaits: "except Exception"
\* does not see it, so that neither a session nor a context is cleaned up.
Cancel(s) ==
  /\ pc[s] \notin {"ready", "over"}
  /\ EndOfAttempt(s)
  /\ UNCHANGED <<session, context, talk, heard>>

\* A browser dies.
Die(c) ==
  /\ Works(c)
  /\ context' = [context EXCEPT ![c] = "dead"]
  /\ UNCHANGED <<pc, attempt, uses, prompt, replies, session, lock, talk, heard>>

Init ==
  /\ pc = [s \in Calls |-> "ready"] /\ attempt = [s \in Calls |-> 1]
  /\ uses = [s \in Calls |-> 0]
  /\ prompt = [s \in Calls |-> 0] /\ replies = [s \in Calls |-> 0]
  /\ session = 0 /\ context = [c \in Contexts |-> "none"]
  /\ lock = [c \in Contexts |-> None] /\ talk = [c \in Contexts |-> <<>>]
  /\ heard = [s \in Calls |-> <<>>]

Next ==
  \/ \E s \in Calls :
       \/ Start(s) \/ Launch(s) \/ Register(s) \/ Take(s)
       \/ NewSession(s) \/ Fill(s) \/ Send(s) \/ Collect(s) \/ Judge(s)
       \/ FailLaunch(s) \/ FailSetup(s) \/ FailNewSession(s)
       \/ FailPrompt(s) \/ Drop(s) \/ Close(s) \/ Cancel(s)
  \/ \E c \in Contexts : Die(c)

Spec == Init /\ [][Next]_webVars
-----------------------------------------------------------------------------
\* The reply collected for a prompt ends a conversation whose last prompts are the
\* sample's, in order; for new_session there are no others on the page, not even
\* those of an attempt that timed out.
TalkIsOwn ==
  \A s \in Calls :
    pc[s] = "judge" =>
      LET own == [i \in 1 .. prompt[s] |-> <<s, i>>]
          past == Len(heard[s]) - prompt[s]
      IN  /\ past >= 0 /\ SubSeq(heard[s], past + 1, Len(heard[s])) = own
          /\ s \in Fresh => past = 0

\* The session that the next sample finds is not one the executor has closed.
RegisteredIsOpen == session # 0 => context[session] # "closed"

\* "If setup fails before that, close it here or it leaks for good": an open
\* browser is the registered one or some call's.  Not so of a set-up cut short by
\* the sample's timeout, nor of two calls that begin together, the second of which
\* takes the first one's place in _sessions.
NoBrowserLeaks ==
  \A c \in Contexts :
    context[c] = "open" => c = session \/ \E s \in Calls : uses[s] = c /\ pc[s] # "over"

\* "Invalidate session on error so next call gets a fresh browser".  Not so of the
\* call that already waits for the session's lock.
NextCallIsFresh == \A s \in Calls : pc[s] \in {"new", "fill"} => context[uses[s]] # "closed"

\* Samples that share a browser do not read each other's conversations.
SessionIsOwn == TypeOK /\ TalkIsOwn /\ RegisteredIsOpen
=============================================================================
