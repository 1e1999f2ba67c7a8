------------------------------ MODULE Listing ------------------------------
(***************************************************************************)
(* The page of batches: storage/batches.py's filters in SQL, the cards     *)
(* that count with the same filters, and api/batches.py's list_all, which  *)
(* reads batches, samples and averages one after the other while batches   *)
(* go on, and computes in Python what each row shows.                      *)
(***************************************************************************)
EXTENDS Naturals, FiniteSets, Sequences, SequencesExt, FiniteSetsExt

CONSTANTS Batches,
          Single,    \* batches of one sample; the others have two
          Default,   \* batch -> target_profile_default, or None
          Results    \* what samples may end with: see Result below

\* A result is [profile, status, ms, asked, answers, llm, errors, released]: ms is 0
\* when nothing ran, asked is whether the first prompt that was sent is not blank,
\* answers and llm are lists of texts, errors one of texts and None.
None == "none"     \* JSON null
Nothing == ""      \* the empty text
Blank == "blank"   \* a text of white space

VARIABLES status,   \* batch -> batches.status
          ran,      \* batch -> the results of its samples, in the order they ended
          kept,     \* batch -> indexes of those whose row was stored
          reader,   \* where list_all stands: [at, filter, averages, rows]
          page      \* batch -> what its row of the last page shows

listVars == <<status, ran, kept, reader, page>>

Sum(s) == FoldSeq(LAMBDA r, n : n + r.ms, 0, s)
Total(b) == IF b \in Single THEN 1 ELSE 2

\* avg_duration_ms of the batch's row, 0 for NULL: done by update_batch_progress.
BatchAverage(b) ==
  LET timed == SelectSeq(ran[b], LAMBDA r : r.ms > 0)
  IN  IF timed = <<>> THEN 0 ELSE Sum(timed) \div Len(timed)

Rows(b) == {ran[b][i] : i \in kept[b]}

\* Averages over the stored rows of the profiles that have any with a duration.
Averages ==
  LET timed(p) == {x \in Batches \X (1 .. 2) : x[2] \in kept[x[1]]
                     /\ ran[x[1]][x[2]].profile = p /\ ran[x[1]][x[2]].ms > 0}
      ms(x) == ran[x[1]][x[2]].ms
  IN  [p \in {q \in {r.profile : r \in Results} : timed(q) # {}} |->
         MapThenSumSet(ms, timed(p)) \div Cardinality(timed(p))]
-----------------------------------------------------------------------------
(* The filters, on a pair of a batch and a row of its outer join *)

NoRow == [profile |-> None]
Joined(b) == IF kept[b] = {} THEN {NoRow} ELSE Rows(b)

AtZero(texts) == IF texts = <<>> THEN None ELSE texts[1]

\* A mutant: whatever error the review of the answer met.
HasEffectiveLlmAnyway(s) == AtZero(s.llm) \notin {None, Nothing}

HasEffectiveLlm(s) ==
  /\ AtZero(s.errors) = None
  /\ AtZero(s.llm) \notin {None, Nothing}

RawEmpty(s) ==
  \/ s.answers = <<>> \/ s.answers = <<Nothing>>
  \/ Len(s.answers) > 1 /\ s.answers[1] = Nothing

IsEmpty(s) == s = NoRow \/ (RawEmpty(s) /\ ~HasEffectiveLlm(s) /\ ~s.released)

IsSlow(b, s, averages) ==
  /\ s.profile \in DOMAIN averages /\ averages[s.profile] > 0
  /\ \/ BatchAverage(b) > 2 * averages[s.profile]
     \/ 2 * BatchAverage(b) < averages[s.profile]

\* A filter is a set of "empty", "slow", "sessions" and profiles.
Passes(b, s, filter, averages) ==
  /\ "empty" \in filter => Total(b) = 1 /\ status[b] = "done" /\ IsEmpty(s)
  /\ "slow" \in filter => Total(b) = 1 /\ BatchAverage(b) # 0 /\ IsSlow(b, s, averages)
  /\ "sessions" \in filter => s = NoRow \/ ~s.released
  /\ \A p \in filter \ {"empty", "slow", "sessions"} : Default[b] = p \/ s.profile = p

Hits(filter, averages) ==
  {x \in UNION {{b} \X Joined(b) : b \in Batches} :
     status[x[1]] # "deleted" /\ Passes(x[1], x[2], filter, averages)}

\* SELECT DISTINCT of the batches.
ListBatches(filter, averages) == {x[1] : x \in Hits(filter, averages)}

\* The cards have filters of their own, ...
Counted(b, s, filter, averages) ==
  /\ \A p \in filter \ {"empty", "slow", "sessions"} : p \in {Default[b], s.profile}
  /\ "empty" \in filter => b \in Single /\ status[b] = "done" /\ IsEmpty(s)
  /\ ~("sessions" \in filter /\ s # NoRow /\ s.released)
  /\ "slow" \in filter => b \in Single /\ BatchAverage(b) # 0 /\ IsSlow(b, s, averages)

\* A mutant: count(batch).
CountJoined(filter, averages) ==
  [st \in {status[b] : b \in Batches} |->
     Cardinality({x \in Hits(filter, averages) : status[x[1]] = st})]

\* ... of which they are count(DISTINCT batch) by status.
CountByStatus(filter, averages) ==
  [st \in {status[b] : b \in Batches} |->
     Cardinality({b \in Batches : /\ status[b] = st /\ st # "deleted"
                                  /\ \E s \in Joined(b) : Counted(b, s, filter, averages)})]
-----------------------------------------------------------------------------
(* What a row shows *)

SelectEffective(s) ==
  IF s.llm # <<>> /\ s.errors # <<>> /\ s.errors[1] = None /\ s.llm[1] # Nothing
  THEN s.llm[1]
  ELSE IF s.answers = <<>> THEN Nothing ELSE s.answers[1]

Truncate(text) == IF text = Blank THEN Nothing ELSE text

\* Without a prompt that could be shown the answer is not shown either.
Preview(b) ==
  IF b \notin Single \/ kept[b] = {} \/ ~ran[b][1].asked THEN None
  ELSE Truncate(SelectEffective(ran[b][1]))

\* A mutant: one threshold was tuned.
IsDurationAnomalyTuned(average, usual) ==
  average # 0 /\ usual > 0 /\ (average > 3 * usual \/ 2 * average < usual)

IsDurationAnomaly(average, usual) ==
  average # 0 /\ usual > 0 /\ (average > 2 * usual \/ 2 * average < usual)

IsFlagged(b, averages) ==
  /\ b \in Single /\ kept[b] # {} /\ ran[b][1].profile \in DOMAIN averages
  /\ IsDurationAnomaly(BatchAverage(b), averages[ran[b][1].profile])

\* The red mark of the page (web/src/pages/Batches/List.tsx).
ShownEmpty(b) == b \in Single /\ status[b] = "done" /\ Preview(b) = Nothing
-----------------------------------------------------------------------------
Idle == [at |-> "idle", filter |-> {}, averages |-> <<>>, rows |-> {}]

Filters == {{"empty"}, {"slow"}, {"sessions"}, {"empty", "sessions"}}
             \cup {{r.profile} : r \in Results} \cup {{"slow", r.profile} : r \in Results}
             \cup {{Default[b]} : b \in Batches}

\* A sample ends; the error of a row that cannot be stored is only logged.
Store(b, r) ==
  /\ status[b] = "running" /\ Len(ran[b]) < Total(b)
  /\ ran' = [ran EXCEPT ![b] = Append(@, r)]
  /\ \/ kept' = [kept EXCEPT ![b] = @ \cup {Len(ran[b]) + 1}]
     \/ UNCHANGED kept
  /\ UNCHANGED <<status, reader, page>>

End(b) ==
  /\ status[b] = "running" /\ Len(ran[b]) = Total(b)
  /\ status' = [status EXCEPT ![b] =
       IF \A i \in 1 .. Total(b) : ran[b][i].status = "done" THEN "done" ELSE "failed"]
  /\ UNCHANGED <<ran, kept, reader, page>>

Delete(b) ==
  /\ status[b] \in {"done", "failed"}
  /\ status' = [status EXCEPT ![b] = "deleted"]
  /\ kept' = [kept EXCEPT ![b] = {}]
  /\ UNCHANGED <<ran, reader, page>>

\* GET /batches: the averages are read first, and only for this filter.
Ask(filter) ==
  /\ reader.at = "idle"
  /\ reader' = [at |-> "rows", filter |-> filter, rows |-> {},
                averages |-> IF "slow" \in filter THEN Averages ELSE <<>>]
  /\ page' = <<>>
  /\ UNCHANGED <<status, ran, kept>>

ReadRows ==
  /\ reader.at = "rows"
  /\ reader' = [reader EXCEPT !.at = "samples",
                              !.rows = ListBatches(reader.filter, reader.averages)]
  /\ UNCHANGED <<status, ran, kept, page>>

\* list_samples_for_batches, then the averages once more.
ReadSamples ==
  /\ reader.at = "samples"
  /\ page' = [b \in reader.rows |-> Preview(b)]
  /\ reader' = [reader EXCEPT !.at = "idle"]
  /\ UNCHANGED <<status, ran, kept>>

Init ==
  /\ status = [b \in Batches |-> "running"]
  /\ ran = [b \in Batches |-> <<>>] /\ kept = [b \in Batches |-> {}]
  /\ reader = Idle /\ page = <<>>

Next ==
  \/ \E b \in Batches : (\E r \in Results : Store(b, r)) \/ End(b) \/ Delete(b)
  \/ \E filter \in {{"empty"}, {"slow"}} : Ask(filter)
  \/ ReadRows \/ ReadSamples

Spec == Init /\ [][Next]_listVars
-----------------------------------------------------------------------------
\* "Must agree with select_effective_response": what the filter finds among the
\* stored answers the page marks as empty, unless the prompt was blank, and what the
\* page marks the filter finds, unless the answer is white space.
EmptyAgrees ==
  \A b \in Single : kept[b] # {} =>
    /\ b \in ListBatches({"empty"}, <<>>) => ShownEmpty(b) \/ ~ran[b][1].asked
    /\ ShownEmpty(b) => b \in ListBatches({"empty"}, <<>>) \/ SelectEffective(ran[b][1]) = Blank

\* "Same thresholds, so the two never drift apart": on the same averages, a batch
\* of one sample is found as slow or fast exactly when its row is flagged.
SlowAgrees ==
  \A b \in Single : status[b] # "deleted" =>
    (b \in ListBatches({"slow"}, Averages) <=> IsFlagged(b, Averages))

\* "So the dashboard cards stay consistent with the visible list".
CardsAgree ==
  \A filter \in Filters : \A st \in {status[b] : b \in Batches} :
    CountByStatus(filter, Averages)[st]
      = Cardinality({b \in ListBatches(filter, Averages) : status[b] = st})

\* However batches go on between the reads, a row listed as empty shows no answer.
EmptyShowsNoAnswer ==
  "empty" \in reader.filter => \A b \in DOMAIN page : page[b] \in {None, Nothing}

\* What the page lists, counts and marks agrees.
ListIsHonest == EmptyAgrees /\ SlowAgrees /\ CardsAgree /\ EmptyShowsNoAnswer
=============================================================================
