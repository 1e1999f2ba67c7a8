------------------------------ MODULE MCUpkeep ------------------------------
(* Two commits, the first of which changes dependencies, and six ways for a  *)
(* sample to end: answered, answered by the review of an empty text, empty   *)
(* after a failed review, failed with two answers, empty for a blank prompt, *)
(* a session released.                                                       *)
EXTENDS Upkeep, TLC

FirstTouches == [c \in 1 .. MaxCommit |-> c = 1]

Ended(profile, ms, answers, llm, errors) ==
  [profile |-> profile, status |-> "done", ms |-> ms, asked |-> TRUE, answers |-> answers,
   llm |-> llm, errors |-> errors, released |-> FALSE]

SomeResults ==
  {Ended("p", 10, <<"t">>, <<>>, <<>>),
   Ended("p", 90, <<"">>, <<"t">>, <<"none">>),
   Ended("p", 10, <<"">>, <<"t">>, <<"error">>),
   [Ended("q", 10, <<"", "t">>, <<"", "t">>, <<"none", "none">>) EXCEPT !.status = "failed"],
   [Ended("p", 10, <<"">>, <<>>, <<>>) EXCEPT !.asked = FALSE],
   [Ended("q", 0, <<>>, <<>>, <<>>) EXCEPT !.released = TRUE, !.asked = FALSE]}

\* Requests, calls, old batches and runs are alike.
Alike == Permutations(Applies) \cup Permutations(Pruners) \cup Permutations(Archivable)
           \cup Permutations(Runs)

SomeDefaults == [b \in Stored |-> IF b \in SingleRows THEN "q" ELSE "none"]
=============================================================================
