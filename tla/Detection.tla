------------------------------ MODULE Detection -----------------------------
(***************************************************************************)
(* When is a reply complete?  The polling loops of                         *)
(* executors/complete_detector.py: the text of a page, the pixels or the   *)
(* UI tree of a phone stay the same for a while, or the send button comes  *)
(* back; until a deadline.                                                 *)
(*                                                                         *)
(* The reply grows: page 0 is the one before it, End the complete one.  A  *)
(* look shows the page at the moment it ends; between two looks time       *)
(* passes, as much as a dump takes.                                        *)
(***************************************************************************)
EXTENDS Integers

CONSTANTS Kinds,       \* of "dom", "pixel", "tree", "button"
          StableSec, Deadline,
          End,         \* the page with the complete reply
          Threshold,   \* _CLI_FALLBACK_THRESHOLD
          Slack        \* bound: how far past the deadline a look may end

VARIABLES kind, clock,
          page, since0,   \* what is shown, and since when
          last, since,    \* the loop's last look and stable_since; Unset before
          xml,            \* last_xml: the page of the last dump that worked
          failures, u2,   \* failed CLI dumps in a row; whether u2 is used
          triedU2,        \* history: a dump by u2 was tried
          saw,            \* saw_disabled
          out             \* "polling", "stable", "deadline" or "timeout"

world == <<kind, page, since0>>
tree == <<xml, failures, u2, triedU2>>
detectVars == <<world, clock, last, since, tree, saw, out>>

Unset == -1

TypeOK ==
  /\ kind \in Kinds /\ clock \in 0 .. Deadline + Slack
  /\ page \in 0 .. End /\ since0 \in 0 .. clock
  /\ last \in 0 .. End \cup {Unset} /\ since \in 0 .. clock \cup {Unset}
  /\ xml \in 0 .. End \cup {Unset}
  /\ failures \in 0 .. Threshold /\ u2 \in BOOLEAN /\ triedU2 \in BOOLEAN
  /\ saw \in BOOLEAN /\ out \in {"polling", "stable", "deadline", "timeout"}

Polling == out = "polling" /\ clock < Deadline
-----------------------------------------------------------------------------
(* The page and the time *)

Grow ==
  /\ page < End
  /\ page' = page + 1 /\ since0' = clock
  /\ UNCHANGED <<kind, clock, last, since, tree, saw, out>>

Tick ==
  /\ out = "polling" /\ clock < Deadline + Slack
  /\ clock' = clock + 1
  /\ UNCHANGED <<world, last, since, tree, saw, out>>
-----------------------------------------------------------------------------
(* A look at the page *)

\* By the hash of the pixels or of the texts of the tree.
Alike == page = last

\* Mutant: the time of stability is not set back by a change.
JudgeLax ==
  IF Alike
  THEN /\ UNCHANGED last
       /\ IF since = Unset THEN since' = clock /\ UNCHANGED out
          ELSE UNCHANGED since /\ out' = IF clock - since >= StableSec THEN "stable" ELSE out
  ELSE last' = page /\ UNCHANGED <<since, out>>

\* The second look alike starts the time; with no time to wait it is enough.
Judge ==
  IF Alike
  THEN /\ UNCHANGED last
       /\ since' = IF since = Unset THEN clock ELSE since
       /\ out' = IF since = Unset
                 THEN IF StableSec = 0 /\ kind # "dom" THEN "stable" ELSE out
                 ELSE IF clock - since >= StableSec THEN "stable" ELSE out
  ELSE last' = page /\ since' = Unset /\ UNCHANGED out

\* _dom_stable: no text yet starts no time.
LookDom ==
  /\ Polling /\ kind = "dom"
  /\ IF page = 0 THEN last' = 0 /\ since' = Unset /\ UNCHANGED out ELSE Judge
  /\ UNCHANGED <<world, clock, tree, saw>>

LookPixels ==
  /\ Polling /\ kind = "pixel"
  /\ Judge
  /\ UNCHANGED <<world, clock, tree, saw>>

\* _u2_dump_hierarchy.
ByU2 == triedU2' = (triedU2 \/ u2)

\* A dump by the CLI, or by u2 once the CLI failed Threshold times in a row.
Dump ==
  /\ Polling /\ kind = "tree"
  /\ xml' = page
  /\ failures' = IF u2 THEN failures ELSE 0
  /\ ByU2
  /\ Judge
  /\ UNCHANGED <<world, clock, u2, saw>>

\* An empty dump leaves what was seen; the CLI's comes after a second try if the
\* slot of the UI automation was busy, whose holder is killed.
FailDump ==
  /\ Polling /\ kind = "tree"
  /\ failures' = IF u2 THEN failures ELSE failures + 1
  /\ u2' = (u2 \/ failures' >= Threshold)
  /\ ByU2
  /\ UNCHANGED <<world, clock, last, since, xml, saw, out>>

Disabled == page \in 1 .. End - 1

\* Mutant: a button that is enabled will do.
BackAtOnce == ~Disabled

Back == ~Disabled /\ saw

\* _send_button_reenable.
LookButton ==
  /\ Polling /\ kind = "button"
  /\ saw' = (saw \/ Disabled)
  /\ out' = IF Back THEN "stable" ELSE out
  /\ UNCHANGED <<world, clock, last, since, tree>>

\* Time enough for one look there always is.
Looked == failures > 0 \/ xml # Unset \/ triedU2

\* The tree's loop gives what it has, after one more try if u2 was not chosen;
\* the others raise TimeoutError.
GiveUp ==
  /\ out = "polling" /\ clock >= Deadline
  /\ kind = "tree" => Looked
  /\ IF kind = "tree"
     THEN /\ out' = "deadline"
          /\ triedU2' = (triedU2 \/ (xml = Unset /\ ~u2))
          /\ xml' \in IF xml = Unset /\ ~u2 THEN {page, Unset} ELSE {xml}
     ELSE out' = "timeout" /\ UNCHANGED <<xml, triedU2>>
  /\ UNCHANGED <<world, clock, last, since, failures, u2, saw>>

Init ==
  /\ kind \in Kinds /\ clock = 0 /\ page = 0 /\ since0 = 0
  /\ last = Unset /\ since = Unset /\ xml = Unset
  /\ failures = 0 /\ u2 \in IF kind = "tree" THEN BOOLEAN ELSE {FALSE}   \* prefer_u2
  /\ triedU2 = FALSE /\ saw = FALSE /\ out = "polling"

Next ==
  \/ Grow \/ Tick
  \/ LookDom \/ LookPixels \/ Dump \/ FailDump \/ LookButton
  \/ GiveUp

Spec == Init /\ [][Next]_detectVars
-----------------------------------------------------------------------------
\* A page reported stable is one that stayed as it is for stable_sec, whatever
\* dumps failed in between; of a web page it is not the one without a reply.
StableMeansStill ==
  [][out' = "stable" /\ out # "stable" /\ kind # "button" =>
       clock - since0 >= StableSec /\ (kind = "dom" => page # 0)]_detectVars

\* A send button reported back is back because the reply is complete.
BackMeansComplete ==
  [][out' = "stable" /\ out # "stable" /\ kind = "button" => page = End]_detectVars

\* "if every CLI dump failed and we never tried u2, do it once now so the caller
\* doesn't get an empty string": a loop that ends with nothing has tried u2.  Not
\* so when the deadline passes right after the CLI failed for the last time.
U2IsTried == out = "deadline" /\ xml = Unset => triedU2

\* A page is read when the reply is there.
ReadWhenStill == []TypeOK /\ StableMeansStill /\ BackMeansComplete
=============================================================================
