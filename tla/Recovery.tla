------------------------------ MODULE Recovery ------------------------------
(***************************************************************************)
(* What finds its way back after a loss: the page of a batch, whose stream *)
(* is cut or overflows; a phone, which jobs reboot and which falls off     *)
(* adb.  They share no state, so a behaviour is one of one of them; the    *)
(* other stays as it began.                                                *)
(***************************************************************************)
EXTENDS EventStream

CONSTANTS Phones, Wifi, Jobs, Free, Sample   \* of DeviceCare

VARIABLES part,
          power, linked, holder, registry, task, mark, sync, listed, last, down, noted,
          autoheal, enabled, todo, connecting, resting, mishaps

Care == INSTANCE DeviceCare WITH MaxKeep <- 1, MaxMishaps <- 1, told <- noted

careVars == <<power, linked, holder, registry, task, mark, sync, listed, last, down, noted,
              autoheal, enabled, todo, connecting, resting, mishaps>>
recoveryVars == <<part, vars, careVars>>

OfPage(A) == part = "page" /\ A /\ UNCHANGED <<part, careVars>>
OfCare(A) == part = "care" /\ A /\ UNCHANGED <<part, vars>>

RecoveryInit ==
  part \in {"page", "care"} /\ Init /\ Care!Init

PageStep == OfPage(Next)
CareStep == OfCare(Care!Next)
RecoveryNext == PageStep \/ CareStep

\* The fairness of EventStream and of DeviceCare, each in its own behaviours.
RecoveryFairness ==
  /\ WF_recoveryVars(OfPage(Write)) /\ WF_recoveryVars(OfPage(Read))
  /\ WF_recoveryVars(OfPage(Follow))
  /\ \A j \in Jobs, p \in Phones : WF_recoveryVars(OfCare(Care!JobStep(j, p)))
  /\ WF_recoveryVars(OfCare(Care!SyncStep))
  /\ \A p \in Phones : WF_recoveryVars(OfCare(Care!Passes(p)))

RecoverySpec == RecoveryInit /\ [][RecoveryNext]_recoveryVars /\ RecoveryFairness
-----------------------------------------------------------------------------
(* The properties of the parts, stated and explained in their modules.  Those *)
(* of EventStream keep their names.                                           *)

\* A page that has loaded a running batch shows its end (bus.py, useBatchStream.ts).
EndShows == part = "page" => EndWillShow

\* A wifi phone comes back, whatever jobs and samples do (healer.py).
WifiComesBack == part = "care" => Care!WifiComesBack

\* What the operators and the page of a job are told of: a recovery is told as
\* what its loss was told as (device_state.py), and a job that has not ended can
\* be asked for (init_jobs.py).
CareIsTold == [](Care!TypeOK /\ Care!UnfinishedIsKnown) /\ Care!NotesComeInPairs
=============================================================================
