----------------------------- MODULE SelfUpdate -----------------------------
(***************************************************************************)
(* Self-update (system/updater.py, system/update_scheduler.py and the      *)
(* /system/update endpoints): pull, synchronise the dependencies, build    *)
(* the web page and restart, all of it in threads of the process that is   *)
(* being replaced.                                                         *)
(*                                                                         *)
(* A commit is its number on origin/main.  The machine has one checkout    *)
(* (head), one Python environment (venv: the commit it was last synced     *)
(* to) and one built page (bundle), and every request works on them: there *)
(* is no lock.  A subprocess is one step.                                  *)
(***************************************************************************)
EXTENDS Naturals

CONSTANTS Applies,     \* slots for concurrent POST /system/update/apply
          Batches,     \* batches that are submitted while it runs
          MaxCommit,   \* bound: the last commit that is pushed
          Touches      \* commit -> TRUE when it changes pyproject.toml or uv.lock

ASSUME UpdateAssumption ==
  /\ MaxCommit \in Nat
  /\ Touches \in [1 .. MaxCommit -> BOOLEAN]

Commits == 0 .. MaxCommit
Unknown == MaxCommit + 1      \* `git rev-parse` failed

VARIABLES enabled,    \* DefaultsConfig.self_update_enabled
          remote,     \* origin's main
          tracking,   \* the ref origin/main of the checkout
          head, venv, bundle,
          running,    \* the commit the process was started from
          apply,      \* slot -> where its thread stands
          old, new,   \* slot -> the locals of apply_update()
          forced,     \* slot -> whether it was asked for with force
          staged,     \* slots whose detached `run.sh restart` sleeps its 2 s
          batch       \* batch -> "new", "active" or "over"

repo == <<remote, tracking, head, venv, bundle, running>>
thread == <<apply, old, new, forced, staged>>
updateVars == <<enabled, repo, thread, batch>>

TypeOK ==
  /\ enabled \in BOOLEAN
  /\ remote \in Commits /\ tracking \in Commits /\ running \in Commits
  /\ head \in Commits /\ venv \in Commits /\ bundle \in Commits
  /\ apply \in [Applies -> {"idle", "begun", "pull", "pulled", "sync", "install",
                            "build", "spawn", "current"}]
  /\ old \in [Applies -> Commits \cup {Unknown}]
  /\ new \in [Applies -> Commits \cup {Unknown}]
  /\ forced \in [Applies -> BOOLEAN]
  /\ staged \in SUBSET Applies
  /\ batch \in [Batches -> {"new", "active", "over"}]

Active == {b \in Batches : batch[b] = "active"}

\* _deps_changed: some commit in old..new touches a dependency file.  A slot
\* whose rev-parse failed skips the question.
DepsChanged(o, n) == o # Unknown /\ n # Unknown /\ \E c \in o + 1 .. n : Touches[c]

Goto(a, where) == apply' = [apply EXCEPT ![a] = where]

\* The thread of slot a is over and its locals are gone.
Ends(a) ==
  /\ Goto(a, "idle")
  /\ old' = [old EXCEPT ![a] = 0]
  /\ new' = [new EXCEPT ![a] = 0]
-----------------------------------------------------------------------------
(* check_for_update: POST /system/update/check and the hourly tick *)

FetchTick ==
  /\ enabled
  /\ tracking' = remote
  /\ UNCHANGED <<enabled, remote, head, venv, bundle, running, thread, batch>>

\* What the status endpoint answers without a fetch.
UpToDate == head = tracking
-----------------------------------------------------------------------------
(* apply_update *)

\* The endpoint refuses while it is disabled or, unless forced, while a batch
\* is active; then a thread begins.
Apply(a, force) ==
  /\ apply[a] = "idle" /\ a \notin staged /\ enabled
  /\ force \/ Active = {}
  /\ Goto(a, "begun")
  /\ forced' = [forced EXCEPT ![a] = force]
  /\ UNCHANGED <<enabled, repo, old, new, staged, batch>>

ReadOld(a) ==
  /\ apply[a] = "begun"
  /\ \E c \in {head, Unknown} : old' = [old EXCEPT ![a] = c]
  /\ Goto(a, "pull")
  /\ UNCHANGED <<enabled, repo, new, forced, staged, batch>>

Pull(a) ==
  /\ apply[a] = "pull"
  /\ head' = remote /\ tracking' = remote
  /\ Goto(a, "pulled")
  /\ UNCHANGED <<enabled, remote, venv, bundle, running, old, new, forced, staged, batch>>

\* "already up to date; nothing to apply", or on to the dependencies.
ReadNew(a) ==
  /\ apply[a] = "pulled"
  /\ \E c \in {head, Unknown} :
       /\ new' = [new EXCEPT ![a] = c]
       /\ Goto(a, IF c = old[a] /\ c # Unknown THEN "current" ELSE "sync")
  /\ UNCHANGED <<enabled, repo, old, forced, staged, batch>>

\* Mutant: `uv sync` looks at the last commit alone.
SyncLast(a) ==
  /\ apply[a] = "sync"
  /\ Goto(a, "install")
  /\ venv' = IF new[a] \in DOMAIN Touches /\ Touches[new[a]] THEN head ELSE venv
  /\ UNCHANGED <<enabled, remote, tracking, head, bundle, running, old, new, forced, staged, batch>>

\* A failing diff counts as changed dependencies.
Sync(a) ==
  /\ apply[a] = "sync"
  /\ \/ venv' = head /\ old[a] # Unknown /\ new[a] # Unknown
     \/ ~DepsChanged(old[a], new[a]) /\ venv' = venv
  /\ Goto(a, "install")
  /\ UNCHANGED <<enabled, remote, tracking, head, bundle, running, old, new, forced, staged, batch>>

\* `pnpm install`, or the note that the frontend's lock file did not change.
Install(a) ==
  /\ apply[a] = "install"
  /\ Goto(a, "build")
  /\ UNCHANGED <<enabled, repo, old, new, forced, staged, batch>>

Build(a) ==
  /\ apply[a] = "build"
  /\ bundle' = head
  /\ Goto(a, "spawn")
  /\ UNCHANGED <<enabled, remote, tracking, head, venv, running, old, new, forced, staged, batch>>

Spawn(a) ==
  /\ apply[a] = "spawn"
  /\ staged' = staged \cup {a}
  /\ Ends(a)
  /\ UNCHANGED <<enabled, repo, forced, batch>>

\* A command fails: the answer is an error and nothing is undone.  Without both
\* commits neither `uv sync` nor `pnpm install` is run.
Fails(a) ==
  /\ apply[a] \in {"pull", "sync", "install", "build", "spawn"}
  /\ apply[a] \in {"sync", "install"} => Unknown \notin {old[a], new[a]}
  /\ Ends(a)
  /\ forced' = [forced EXCEPT ![a] = FALSE]
  /\ UNCHANGED <<enabled, repo, staged, batch>>

\* The success without a restart is answered.
Answer(a) ==
  /\ apply[a] = "current"
  /\ Ends(a)
  /\ forced' = [forced EXCEPT ![a] = FALSE]
  /\ UNCHANGED <<enabled, repo, staged, batch>>

\* run.sh restart --no-build: the process dies with its threads and comes back
\* from the checkout; the boot cancels the batches that were active.
Restart(a) ==
  /\ a \in staged
  /\ staged' = staged \ {a}
  /\ running' = head
  /\ apply' = [q \in Applies |-> "idle"]
  /\ old' = [q \in Applies |-> 0]
  /\ new' = [q \in Applies |-> 0]
  /\ forced' = [q \in Applies |-> q \in staged' /\ forced[q]]
  /\ batch' = [b \in Batches |-> IF batch[b] = "active" THEN "over" ELSE batch[b]]
  /\ UNCHANGED <<enabled, remote, tracking, head, venv, bundle>>
-----------------------------------------------------------------------------
(* The environment *)

Push ==
  /\ remote < MaxCommit
  /\ remote' = remote + 1
  /\ UNCHANGED <<enabled, tracking, head, venv, bundle, running, thread, batch>>

SetEnabled ==
  /\ enabled' = ~enabled
  /\ UNCHANGED <<repo, thread, batch>>

Submit(b) ==
  /\ batch[b] = "new"
  /\ batch' = [batch EXCEPT ![b] = "active"]
  /\ UNCHANGED <<enabled, repo, thread>>

BatchEnds(b) ==
  /\ batch[b] = "active"
  /\ batch' = [batch EXCEPT ![b] = "over"]
  /\ UNCHANGED <<enabled, repo, thread>>

Init ==
  /\ enabled = FALSE
  /\ remote = 0 /\ tracking = 0 /\ head = 0 /\ venv = 0 /\ bundle = 0 /\ running = 0
  /\ apply = [a \in Applies |-> "idle"]
  /\ old = [a \in Applies |-> 0]
  /\ new = [a \in Applies |-> 0]
  /\ forced = [a \in Applies |-> FALSE]
  /\ staged = {}
  /\ batch = [b \in Batches |-> "new"]

ApplyStep(a) ==
  \/ \E force \in BOOLEAN : Apply(a, force)
  \/ ReadOld(a) \/ Pull(a) \/ ReadNew(a) \/ Sync(a) \/ Install(a)
  \/ Build(a) \/ Spawn(a) \/ Fails(a) \/ Answer(a) \/ Restart(a)

Next ==
  \/ \E a \in Applies : ApplyStep(a)
  \/ FetchTick \/ Push \/ SetEnabled
  \/ \E b \in Batches : Submit(b) \/ BatchEnds(b)

Spec == Init /\ [][Next]_updateVars
-----------------------------------------------------------------------------
\* However many updates overlap, one that reaches its restart has built a page
\* at least as new as what it pulled, and what the environment misses of it was in
\* the checkout already when it began: apply_update() compares the commits before
\* and after its own pull, and no more than that.
PulledIsInstalled ==
  \A a \in Applies : apply[a] = "spawn" /\ old[a] # Unknown /\ new[a] # Unknown =>
    /\ bundle >= new[a]
    /\ \A c \in old[a] + 1 .. new[a] : Touches[c] => venv >= c

\* "We do the git pull / dependency sync / SPA build while the old process is still
\* serving (so a broken update aborts with zero downtime), and only then spawn a
\* detached restart": no restart is scheduled without the dependencies of the
\* checkout, even if every command that asks for a commit works.  The code does:
\* what a failed sync left out, the next update skips.
StagedIsWhole ==
  \A a \in Applies : apply[a] = "spawn" /\ Unknown \notin {old[a], new[a]} =>
    \A c \in 1 .. head : Touches[c] => venv >= c

\* "Caller must confirm interrupting in-flight batches with force=true": a restart
\* that was not forced interrupts nothing.  It does: the batches are counted before
\* the minutes the update takes, in which others may be submitted.
InterruptionIsForced ==
  [][\A a \in Applies : Restart(a) /\ ~forced[a] => Active = {}]_updateVars

\* What every step of the code keeps.
UpdateIsSafe == TypeOK /\ PulledIsInstalled
=============================================================================
