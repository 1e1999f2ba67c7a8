---------------------- MODULE NotificationRulesProofs -----------------------
(***************************************************************************)
(* Proofs about NotificationRules, for any samples, phones, responses,     *)
(* threshold and kills: the streaks that the rules count are those that    *)
(* the phones had.                                                         *)
(***************************************************************************)
EXTENDS NotificationRules, SequenceTheorems, TLAPS

Rules == {"empty", "same", "anr"}
Streaks == [empty : [Serials -> 0 .. Threshold - 1], same : [Serials -> Seq(Samples)]]

Typed ==
  /\ at \in [Samples -> Stages] /\ text \in [Samples -> Responses \cup {Empty}]
  /\ memory \in Streaks /\ saved \in Streaks
  /\ loaded \in BOOLEAN /\ faulty \in BOOLEAN
  /\ list \in [{"white", "black"} -> SUBSET Responses]
  /\ entries \in [Samples -> SUBSET Responses]
  /\ edit.on \in {"none", "white", "black"} /\ edit.keep \in SUBSET Responses
  /\ refs \in [Samples -> Seq(Samples)]
  /\ alerts \in SUBSET (Rules \X Samples)
  /\ counted \in [Serials -> Seq(Samples)] /\ kills \in Nat

\* Where a call has not been through the count of responses.
Early ==
  {"running", "empty", "emptyFires", "black", "dropBlack", "white", "dropWhite", "count"}
Judging == {"judge", "addWhite", "addBlack", "saveWhite", "saveBlack"}

\* The streaks of a row: below the threshold, of one phone and one response, and
\* of calls that have counted theirs.
Streak(s, d, said, where) ==
  /\ Len(s) < Threshold
  /\ \A i, j \in 1 .. Len(s) : s[i] = s[j] => i = j
  /\ \A i \in 1 .. Len(s) :
       SerialOf[s[i]] = d /\ said[s[i]] = said[s[1]] /\ where[s[i]] \notin Early
StreaksAreOfOne ==
  \A d \in Serials : Streak(memory.same[d], d, text, at) /\ Streak(saved.same[d], d, text, at)

\* What is judged has left the streaks, which a process that loaded none has not.
JudgedIsOut ==
  /\ \A x \in Samples : \A i \in 1 .. Len(refs[x]) : at[refs[x][i]] \notin Early
  /\ ~loaded => \A x \in Samples : refs[x] = <<>>
  /\ loaded => \A d \in Serials, x \in Samples :
       at[x] \in Judging =>
         \A i \in 1 .. Len(memory.same[d]), j \in 1 .. Len(refs[x]) : memory.same[d][i] # refs[x][j]
  /\ \A x, y \in Samples :
       x # y /\ at[x] \in Judging /\ at[y] \in Judging =>
         \A i \in 1 .. Len(refs[x]), j \in 1 .. Len(refs[y]) : refs[x][i] # refs[y][j]

\* A response that is looked up on the whitelist, counted or judged is not the empty one.
Saying == Judging \cup {"white", "count"}
SaysSomething == \A x \in Samples : at[x] \in Saying => text[x] # Empty

SavedIsMemory == ~faulty /\ loaded => saved = memory

\* A call is counted once, by its phone, on its way.
CountedOnce ==
  \A d \in Serials :
    /\ \A i \in 1 .. Len(counted[d]) :
         SerialOf[counted[d][i]] = d /\ at[counted[d][i]] \notin {"running", "empty"}
    /\ \A i, j \in 1 .. Len(counted[d]) : counted[d][i] = counted[d][j] => i = j

\* The run of empty responses that ends with the i-th of s has n of them.
RunAt(s, i, n, said) ==
  /\ n \in 0 .. i
  /\ \A j \in i - n + 1 .. i : said[s[j]] = Empty
  /\ n < i => said[s[i - n]] # Empty
RunsAreKnown == \A d \in Serials : \A i \in 0 .. Len(counted[d]) : \E n \in 0 .. i : RunAt(counted[d], i, n, text)

CounterIsRun ==
  ~faulty => \A d \in Serials : \A n \in 0 .. Len(counted[d]) :
    RunAt(counted[d], Len(counted[d]), n, text) => Hydrated.empty[d] = n % Threshold

Told(x) == <<"empty", x>> \in alerts \/ at[x] = "emptyFires"
TellsEveryNth ==
  /\ \A x \in Samples : <<"empty", x>> \in alerts => at[x] \notin {"running", "empty"}
  /\ ~faulty /\ kills = 0 =>
       \A d \in Serials : \A i \in 1 .. Len(counted[d]) : \A n \in 0 .. i :
         RunAt(counted[d], i, n, text) => (Told(counted[d][i]) <=> n > 0 /\ n % Threshold = 0)

RulesInv ==
  /\ Typed /\ SaysSomething /\ StreaksAreOfOne /\ JudgedIsOut /\ SavedIsMemory /\ CountedOnce
  /\ RunsAreKnown /\ CounterIsRun /\ TellsEveryNth
-----------------------------------------------------------------------------
(* Counting modulo the threshold *)

LEMMA RemainderIs ==
  ASSUME NEW T \in Nat \ {0}, NEW n \in Nat
  PROVE  (n % T) \in 0 .. T - 1 /\ n = T * (n \div T) + (n % T) /\ n \div T \in Int
<1>1. (n % T) \in 0 .. T - 1
  OBVIOUS
<1>2. n = T * (n \div T) + (n % T)
  OBVIOUS
<1>3. n \div T \in Int
  OBVIOUS
<1> QED BY <1>1, <1>2, <1>3

LEMMA OneRemainder ==
  ASSUME NEW T \in Nat \ {0}, NEW q \in Int, NEW p \in Int, NEW r \in 0 .. T - 1,
         NEW s \in 0 .. T - 1, T * q + r = T * p + s
  PROVE  r = s
<1>1. T * (q - p) = s - r
  OBVIOUS
<1>2. CASE q - p >= 1
  <2>1. T * (q - p) >= T
    BY <1>2
  <2> QED BY <1>1, <2>1
<1>3. CASE q - p <= -1
  <2>1. T * (q - p) <= -T
    BY <1>3
  <2> QED BY <1>1, <2>1
<1>4. CASE q = p
  BY <1>4
<1> QED BY <1>2, <1>3, <1>4

LEMMA NextRemainder ==
  ASSUME NEW T \in Nat \ {0}, NEW n \in Nat
  PROVE  (n + 1) % T = IF (n % T) + 1 >= T THEN 0 ELSE (n % T) + 1
<1> DEFINE q == n \div T
           r == n % T
           p == (n + 1) \div T
           s == (n + 1) % T
<1>1. /\ q \in Int /\ r \in 0 .. T - 1 /\ p \in Int /\ s \in 0 .. T - 1
      /\ T * q + r + 1 = T * p + s
  BY RemainderIs
<1> HIDE DEF q, r, p, s
<1>2. CASE r + 1 < T
  <2>1. T * q + (r + 1) = T * p + s /\ r + 1 \in 0 .. T - 1
    BY <1>1, <1>2
  <2>2. r + 1 = s
    BY <1>1, <2>1, OneRemainder
  <2> QED BY <2>2, <1>1, <1>2 DEF q, r, p, s
<1>3. CASE r + 1 >= T
  <2>1. r + 1 = T
    BY <1>1, <1>3
  <2>2. T * (q + 1) + 0 = T * p + s /\ 0 \in 0 .. T - 1 /\ q + 1 \in Int
    BY <1>1, <2>1
  <2>3. 0 = s
    BY <1>1, <2>2, OneRemainder
  <2> QED BY <2>3, <1>1, <1>3 DEF q, r, p, s
<1> QED BY <1>1, <1>2, <1>3
-----------------------------------------------------------------------------
(* Runs of empty responses *)

\* A run is the only one that ends there, and one more sample makes it longer or ends it.
LEMMA OneRun ==
  ASSUME NEW s, NEW said, NEW i \in Nat, NEW n \in 0 .. i, NEW m \in 0 .. i, RunAt(s, i, n, said), RunAt(s, i, m, said)
  PROVE  n = m
<1>1. ASSUME NEW k \in 0 .. i, NEW l \in 0 .. i, RunAt(s, i, k, said), RunAt(s, i, l, said), k < l PROVE FALSE
  <2>1. i - k \in i - l + 1 .. i
    BY <1>1
  <2> QED BY <1>1, <2>1 DEF RunAt
<1> QED BY <1>1

LEMMA RunGoesOn ==
  ASSUME NEW s, NEW said, NEW i \in Nat, NEW n \in 0 .. i, RunAt(s, i, n, said)
  PROVE  /\ said[s[i + 1]] = Empty => RunAt(s, i + 1, n + 1, said)
         /\ said[s[i + 1]] # Empty => RunAt(s, i + 1, 0, said)
<1>1. ASSUME said[s[i + 1]] = Empty PROVE RunAt(s, i + 1, n + 1, said)
  <2>1. \A j \in i + 1 - (n + 1) + 1 .. i + 1 : j \in i - n + 1 .. i \/ j = i + 1
    OBVIOUS
  <2>2. i + 1 - (n + 1) = i - n
    OBVIOUS
  <2> QED BY <1>1, <2>1, <2>2 DEF RunAt
<1>2. ASSUME said[s[i + 1]] # Empty PROVE RunAt(s, i + 1, 0, said)
  BY <1>2 DEF RunAt
<1> QED BY <1>1, <1>2

\* The operator of the properties finds it.
LEMMA TrailingIsRun ==
  ASSUME NEW s \in Seq(Samples), NEW i \in 0 .. Len(s), NEW n \in 0 .. i, RunAt(s, i, n, text)
  PROVE  Trailing(SubSeq(s, 1, i)) = n
<1> DEFINE t == SubSeq(s, 1, i)
           lengths == {m \in 0 .. Len(t) : \A j \in Len(t) - m + 1 .. Len(t) : text[t[j]] = Empty}
<1>1. Len(s) \in Nat /\ i \in Nat
  BY LenProperties
<1>2. Len(t) = i /\ \A j \in 1 .. i : t[j] = s[j]
  <2>1. \A j \in 1 .. i : j \in 1 .. Len(s)
    BY <1>1
  <2>2. /\ Len(t) = (IF 1 <= i THEN i - 1 + 1 ELSE 0)
        /\ \A j \in 1 .. i - 1 + 1 : t[j] = s[1 + j - 1]
    BY <1>1, <2>1, SubSeqProperties
  <2> HIDE DEF t
  <2>3. Len(t) = i
    BY <1>1, <2>2
  <2>4. ASSUME NEW j \in 1 .. i PROVE t[j] = s[j]
    <3>1. j \in 1 .. i - 1 + 1 /\ 1 + j - 1 = j
      BY <1>1
    <3> QED BY <2>2, <3>1
  <2> QED BY <2>3, <2>4
<1> HIDE DEF t
<1>3. n \in lengths
  <2>1. \A j \in i - n + 1 .. i : j \in 1 .. i
    BY <1>1
  <2> QED BY <1>2, <2>1 DEF RunAt
<1>4. ASSUME NEW m \in lengths PROVE m <= n
  <2>1. m \in 0 .. i /\ \A j \in i - m + 1 .. i : text[t[j]] = Empty
    BY <1>2
  <2>2. CASE n < m
    <3>1. i - n \in i - m + 1 .. i /\ i - n \in 1 .. i
      BY <1>1, <2>1, <2>2
    <3>2. text[s[i - n]] = Empty
      BY <1>2, <2>1, <3>1
    <3> QED BY <2>1, <2>2, <3>2 DEF RunAt
  <2> QED BY <2>1, <2>2
<1>5. \A m \in lengths : m \in Nat
  BY <1>1, <1>2
<1> HIDE DEF lengths
<1>6. ASSUME NEW k, k \in lengths, \A m \in lengths : m <= k PROVE k = n
  BY <1>3, <1>4, <1>5, <1>6
<1>7. (CHOOSE k \in lengths : \A m \in lengths : m <= k) = n
  BY <1>3, <1>4, <1>6
<1> QED BY <1>7 DEF Trailing, lengths, t
-----------------------------------------------------------------------------
(* The steps *)

\* A call that goes on: it does not come back to the count of responses, nor does
\* one that has been counted change its response.
MovesOn(x) ==
  /\ \A y \in Samples \ {x} : at'[y] = at[y] /\ text'[y] = text[y]
  /\ at[x] \notin Early => at'[x] \notin Early
  /\ at[x] \notin {"running", "empty"} => at'[x] \notin {"running", "empty"} /\ text'[x] = text[x]

LEMMA InitRules == Init => RulesInv
<1> SUFFICES ASSUME Init PROVE RulesInv
  OBVIOUS
<1> USE RulesAssumption DEF Init
<1>1. <<>> \in Seq(Samples) /\ Len(<<>>) = 0
  BY EmptySeq
<1>2. Blank \in Streaks
  BY <1>1 DEF Blank, Streaks
<1>3. Typed
  BY <1>1, <1>2 DEF Typed, Stages, NoEdit
<1>4. StreaksAreOfOne /\ SaysSomething
  BY <1>1 DEF StreaksAreOfOne, Streak, Blank, SaysSomething, Saying, Judging
<1>5. JudgedIsOut /\ SavedIsMemory
  BY <1>1 DEF JudgedIsOut, SavedIsMemory, Judging
<1>6. CountedOnce /\ TellsEveryNth
  BY <1>1 DEF CountedOnce, TellsEveryNth
<1>7. RunsAreKnown
  BY <1>1 DEF RunsAreKnown, RunAt
<1>8. CounterIsRun
  <2>1. 0 % Threshold = 0
    OBVIOUS
  <2> QED BY <1>1, <2>1 DEF CounterIsRun, Hydrated, Blank
<1> QED BY <1>3, <1>4, <1>5, <1>6, <1>7, <1>8 DEF RulesInv

LEMMA SampleOf == ASSUME Typed PROVE
  /\ \A d \in Serials : /\ memory.same[d] \in Seq(Samples) /\ saved.same[d] \in Seq(Samples)
                        /\ counted[d] \in Seq(Samples)
                        /\ Len(counted[d]) \in Nat
                        /\ \A i \in 1 .. Len(counted[d]) : counted[d][i] \in Samples
                        /\ \A i \in 1 .. Len(memory.same[d]) : memory.same[d][i] \in Samples
                        /\ \A i \in 1 .. Len(saved.same[d]) : saved.same[d][i] \in Samples
  /\ \A x \in Samples : \A i \in 1 .. Len(refs[x]) : refs[x][i] \in Samples
<1>1. \A s \in Seq(Samples) : Len(s) \in Nat /\ \A i \in 1 .. Len(s) : s[i] \in Samples
  BY LenProperties, ElementOfSeq
<1> QED BY <1>1 DEF Typed, Streaks

\* Streaks and runs are of responses that no step changes.
LEMMA StreakStays ==
  ASSUME NEW said, NEW where, NEW said2, NEW where2,
         \A y \in Samples : where[y] \notin Early => where2[y] \notin Early /\ said2[y] = said[y],
         NEW s \in Seq(Samples), NEW d \in Serials, Streak(s, d, said, where)
  PROVE  Streak(s, d, said2, where2)
<1>1. Len(s) \in Nat /\ \A i \in 1 .. Len(s) : s[i] \in Samples
  BY LenProperties, ElementOfSeq
<1>2. \A i \in 1 .. Len(s) : 1 \in 1 .. Len(s)
  BY <1>1
<1> QED BY <1>1, <1>2 DEF Streak

LEMMA RunStays ==
  ASSUME NEW s, NEW said, NEW said2, NEW i \in Nat, NEW n \in 0 .. i,
         \A j \in 1 .. i : said2[s[j]] = said[s[j]]
  PROVE  RunAt(s, i, n, said2) <=> RunAt(s, i, n, said)
<1>1. \A j \in i - n + 1 .. i : j \in 1 .. i
  OBVIOUS
<1>2. n < i => i - n \in 1 .. i
  OBVIOUS
<1> QED BY <1>1, <1>2 DEF RunAt

LEMMA RunOfPrefix ==
  ASSUME NEW s, NEW s2, NEW said, NEW i \in Nat, NEW n \in 0 .. i, \A j \in 1 .. i : s2[j] = s[j]
  PROVE  RunAt(s2, i, n, said) <=> RunAt(s, i, n, said)
<1>1. \A j \in i - n + 1 .. i : j \in 1 .. i
  OBVIOUS
<1>2. n < i => i - n \in 1 .. i
  OBVIOUS
<1> QED BY <1>1, <1>2 DEF RunAt

LEMMA CountedStays ==
  ASSUME Typed, CountedOnce, RunsAreKnown, NEW x \in Samples, MovesOn(x), counted' = counted
  PROVE  /\ CountedOnce' /\ RunsAreKnown'
         /\ \A d \in Serials : \A i \in 0 .. Len(counted[d]), n \in Nat :
              RunAt(counted[d], i, n, text)' => RunAt(counted[d], i, n, text)
<1>1. \A d \in Serials : \A i \in 1 .. Len(counted[d]) :
        /\ at'[counted[d][i]] \notin {"running", "empty"}
        /\ text'[counted[d][i]] = text[counted[d][i]]
  BY SampleOf DEF MovesOn, CountedOnce
<1>2. \A d \in Serials : Len(counted[d]) \in Nat
  BY SampleOf
<1>3. \A d \in Serials : \A i \in 0 .. Len(counted[d]) : \A n \in 0 .. i :
        RunAt(counted[d], i, n, text)' <=> RunAt(counted[d], i, n, text)
  <2> SUFFICES ASSUME NEW d \in Serials, NEW i \in 0 .. Len(counted[d]), NEW n \in 0 .. i
               PROVE  RunAt(counted[d], i, n, text)' <=> RunAt(counted[d], i, n, text)
    OBVIOUS
  <2>1. i \in Nat /\ \A j \in 1 .. i : text'[counted[d][j]] = text[counted[d][j]]
    BY <1>1, <1>2
  <2> QED BY <2>1, RunStays
<1>4. CountedOnce'
  BY <1>1 DEF CountedOnce
<1>5. RunsAreKnown'
  BY <1>3 DEF RunsAreKnown
<1>6. \A d \in Serials : \A i \in 0 .. Len(counted[d]), n \in Nat :
        RunAt(counted[d], i, n, text)' => n \in 0 .. i
  BY DEF RunAt
<1> QED BY <1>3, <1>4, <1>5, <1>6
\* What a call that goes on without the lock leaves true.
Sound ==
  StreaksAreOfOne /\ JudgedIsOut /\ SavedIsMemory /\ CountedOnce /\ RunsAreKnown /\ CounterIsRun

LEMMA LateStays ==
  ASSUME NEW x \in Samples, MovesOn(x)
  PROVE  \A y \in Samples : at[y] \notin Early => at'[y] \notin Early /\ text'[y] = text[y]
BY DEF MovesOn, Early

LEMMA SayingNext ==
  ASSUME SaysSomething, NEW x \in Samples, MovesOn(x), at'[x] \in Saying => text'[x] # Empty
  PROVE  SaysSomething'
<1>1. \A y \in Samples \ {x} : at'[y] = at[y] /\ text'[y] = text[y]
  BY DEF MovesOn
<1> QED BY <1>1 DEF SaysSomething

LEMMA MovingNext ==
  ASSUME RulesInv, NEW x \in Samples, MovesOn(x), UNCHANGED <<streaks, refs, counted>>,
         at'[x] \in Judging => at[x] \in Judging
  PROVE  Sound'
<1> USE DEF RulesInv, streaks
<1>1. Typed /\ \A y \in Samples : at[y] \notin Early => at'[y] \notin Early /\ text'[y] = text[y]
  BY LateStays
<1>2. StreaksAreOfOne'
  <2>1. \A d \in Serials : memory.same[d] \in Seq(Samples) /\ saved.same[d] \in Seq(Samples)
    BY SampleOf
  <2> QED BY <1>1, <2>1, StreakStays DEF StreaksAreOfOne
<1>3. JudgedIsOut'
  <2>1. \A y \in Samples : at'[y] \in Judging => at[y] \in Judging
    BY DEF MovesOn
  <2>2. \A y \in Samples : \A i \in 1 .. Len(refs[y]) : refs[y][i] \in Samples
    BY SampleOf
  <2>3. \A y \in Samples : \A i \in 1 .. Len(refs[y]) : at'[refs[y][i]] \notin Early
    BY <1>1, <2>2 DEF JudgedIsOut
  <2>4. UNCHANGED <<refs, loaded, memory>>
    OBVIOUS
  <2> QED BY <2>1, <2>3, <2>4 DEF JudgedIsOut
<1>4. CountedOnce' /\ RunsAreKnown'
  BY CountedStays
<1>5. CounterIsRun'
  <2>1. \A d \in Serials : \A n \in 0 .. Len(counted[d]) :
          RunAt(counted[d], Len(counted[d]), n, text)' => RunAt(counted[d], Len(counted[d]), n, text)
    <3>1. \A d \in Serials : Len(counted[d]) \in Nat /\ Len(counted[d]) \in 0 .. Len(counted[d])
      BY SampleOf
    <3> QED BY <3>1, CountedStays
  <2> QED BY <2>1 DEF CounterIsRun, Hydrated
<1>6. SavedIsMemory'
  BY DEF SavedIsMemory
<1> QED BY <1>2, <1>3, <1>4, <1>5, <1>6 DEF Sound

\* What the alerts say stays true of calls that have been counted.
LEMMA TellsNext ==
  ASSUME RulesInv, NEW x \in Samples, MovesOn(x), UNCHANGED <<kills, counted>>, ~faulty' => ~faulty,
         at[x] \notin {"running", "empty"} => (Told(x)' <=> Told(x)),
         alerts \subseteq alerts',
         \A y \in Samples : <<"empty", y>> \in alerts' \ alerts => y = x /\ at'[x] \notin {"running", "empty"}
  PROVE  TellsEveryNth'
<1> USE DEF RulesInv
<1>1. \A y \in Samples : <<"empty", y>> \in alerts' => at'[y] \notin {"running", "empty"}
  BY DEF TellsEveryNth, MovesOn
<1>2. \A y \in Samples : at[y] \notin {"running", "empty"} => (Told(y)' <=> Told(y))
  <2> SUFFICES ASSUME NEW y \in Samples, y # x PROVE Told(y)' <=> Told(y)
    OBVIOUS
  <2>1. at'[y] = at[y] /\ (<<"empty", y>> \in alerts' <=> <<"empty", y>> \in alerts)
    BY DEF MovesOn
  <2> QED BY <2>1 DEF Told
<1>3. ASSUME ~faulty', kills' = 0, NEW d \in Serials, NEW i \in 1 .. Len(counted[d]), NEW n \in 0 .. i,
             RunAt(counted[d], i, n, text)'
      PROVE  Told(counted[d][i])' <=> n > 0 /\ n % Threshold = 0
  <2>1. /\ i \in 0 .. Len(counted[d]) /\ n \in Nat /\ counted[d][i] \in Samples
        /\ at[counted[d][i]] \notin {"running", "empty"}
    BY SampleOf DEF CountedOnce
  <2>2. RunAt(counted[d], i, n, text)
    BY <1>3, <2>1, CountedStays
  <2>3. Told(counted[d][i]) <=> n > 0 /\ n % Threshold = 0
    BY <1>3, <2>2 DEF TellsEveryNth
  <2> QED BY <1>2, <2>1, <2>3
<1>4. \A y \in Samples : Told(y)' <=> (<<"empty", y>> \in alerts' \/ at'[y] = "emptyFires")
  BY DEF Told
<1> QED BY <1>1, <1>3, SampleOf DEF TellsEveryNth, Told

LEMMA StreaksStay ==
  ASSUME \A y \in Samples : at[y] \notin Early => at'[y] \notin Early /\ text'[y] = text[y]
  PROVE  \A s \in Seq(Samples), d \in Serials : Streak(s, d, text, at) => Streak(s, d, text', at')
BY StreakStays

\* What a block under the lock finds, and what it leaves.
LEMMA FoundIsSound ==
  ASSUME RulesInv, NEW found \in Found
  PROVE  /\ found \in Streaks
         /\ \A d \in Serials : Streak(found.same[d], d, text, at)
         /\ \A d \in Serials, y \in Samples : at[y] \in Judging =>
              \A i \in 1 .. Len(found.same[d]), j \in 1 .. Len(refs[y]) :
                found.same[d][i] # refs[y][j]
<1>1. (found = memory /\ loaded) \/ (~loaded /\ (found = saved \/ found = Blank))
  BY DEF Found, Hydrated
<1>2. <<>> \in Seq(Samples) /\ Len(<<>>) = 0
  BY EmptySeq
<1>3. CASE found = memory /\ loaded
  BY <1>3 DEF RulesInv, Typed, StreaksAreOfOne, JudgedIsOut
<1>4. CASE ~loaded /\ found = saved
  BY <1>2, <1>4 DEF RulesInv, Typed, StreaksAreOfOne, JudgedIsOut
<1>5. CASE ~loaded /\ found = Blank
  BY <1>2, <1>5, RulesAssumption DEF RulesInv, Blank, Streaks, JudgedIsOut, Streak
<1> QED BY <1>1, <1>3, <1>4, <1>5

LEMMA PersistNext ==
  ASSUME RulesInv, NEW found \in Found, NEW made \in Streaks, Persist(found, made),
         \A y \in Samples : at[y] \notin Early => at'[y] \notin Early /\ text'[y] = text[y],
         \A d \in Serials : Streak(made.same[d], d, text', at')
  PROVE  /\ StreaksAreOfOne' /\ SavedIsMemory' /\ memory' = made /\ loaded' = TRUE
         /\ memory' \in Streaks /\ saved' \in Streaks /\ faulty' \in BOOLEAN
<1>1. memory' = made /\ saved' \in {made, saved} /\ loaded' = TRUE
  BY DEF Persist
<1>2. \A d \in Serials : Streak(saved.same[d], d, text', at')
  <2>1. \A d \in Serials : saved.same[d] \in Seq(Samples)
    BY SampleOf DEF RulesInv
  <2> QED BY <2>1, StreaksStay DEF RulesInv, StreaksAreOfOne
<1>3. StreaksAreOfOne'
  BY <1>1, <1>2 DEF StreaksAreOfOne
<1>4. ~faulty' => saved' = made
  BY DEF Persist
<1>5. SavedIsMemory'
  BY <1>1, <1>4 DEF SavedIsMemory
<1>6. faulty' \in BOOLEAN
  BY DEF Persist
<1> QED BY <1>1, <1>3, <1>5, <1>6 DEF RulesInv, Typed

LEMMA DropStreakNext ==
  ASSUME RulesInv, NEW x \in Samples, DropStreak(x)
  PROVE  RulesInv'
<1> PICK found \in Found : Persist(found, [found EXCEPT !.same[SerialOf[x]] = <<>>])
  BY DEF DropStreak
<1> DEFINE d == SerialOf[x]
           made == [found EXCEPT !.same[d] = <<>>]
<1>1. /\ found \in Streaks /\ d \in Serials /\ <<>> \in Seq(Samples) /\ Len(<<>>) = 0
      /\ Threshold \in Nat \ {0}
  BY FoundIsSound, RulesAssumption, EmptySeq
<1>2. /\ made \in Streaks /\ made.empty = found.empty /\ made.same[d] = <<>>
      /\ \A e \in Serials \ {d} : made.same[e] = found.same[e]
  BY <1>1 DEF Streaks
<1> HIDE DEF made
<1>3. /\ Typed /\ at' \in [Samples -> Stages] /\ MovesOn(x)
      /\ \A y \in Samples \ {x} : at'[y] = at[y]
      /\ at[x] \in {"dropBlack", "dropWhite"} /\ at'[x] \in {"sameFires", "anr"}
      /\ UNCHANGED <<text, lists, alerts, counted, kills>>
  <2>1. /\ Typed /\ at \in [Samples -> Stages] /\ at[x] \in {"dropBlack", "dropWhite"}
        /\ at' = [at EXCEPT ![x] = at'[x]] /\ at'[x] \in {"sameFires", "anr"}
        /\ UNCHANGED <<text, lists, alerts, counted, kills>>
    BY DEF RulesInv, Typed, DropStreak, Goto
  <2>2. at' \in [Samples -> Stages] /\ \A y \in Samples \ {x} : at'[y] = at[y]
    BY <2>1 DEF Stages
  <2>3. MovesOn(x)
    BY <2>1, <2>2 DEF MovesOn, Early, Judging
  <2> QED BY <2>1, <2>2, <2>3
<1>4. \A y \in Samples : at[y] \notin Early => at'[y] \notin Early /\ text'[y] = text[y]
  BY <1>3, LateStays
<1>5. \A e \in Serials : Streak(made.same[e], e, text', at')
  <2>1. Streak(<<>>, d, text', at')
    BY <1>1 DEF Streak
  <2>2. \A e \in Serials : found.same[e] \in Seq(Samples)
    BY <1>1 DEF Streaks
  <2>3. \A e \in Serials : Streak(found.same[e], e, text', at')
    BY <1>4, <2>2, FoundIsSound, StreaksStay
  <2> QED BY <1>2, <2>1, <2>3
<1>6. /\ StreaksAreOfOne' /\ SavedIsMemory' /\ memory' = made /\ loaded' = TRUE
      /\ memory' \in Streaks /\ saved' \in Streaks /\ faulty' \in BOOLEAN
  BY <1>2, <1>4, <1>5, PersistNext DEF made
<1>7. refs' \in [Samples -> Seq(Samples)] /\ refs'[x] \in {<<x>>, <<>>}
      /\ \A y \in Samples \ {x} : refs'[y] = refs[y]
  <2>1. <<x>> \in Seq(Samples)
    OBVIOUS
  <2> QED BY <1>1, <1>3, <2>1 DEF Typed, DropStreak
<1>8. Typed'
  BY <1>3, <1>6, <1>7 DEF Typed, lists
<1>9. JudgedIsOut'
  <2>1. \A y \in Samples : \A i \in 1 .. Len(refs'[y]) : at'[refs'[y][i]] \notin Early
    <3>1. \A i \in 1 .. Len(refs'[x]) : at'[refs'[x][i]] \notin Early
      BY <1>1, <1>3, <1>7 DEF Early
    <3>2. \A y \in Samples \ {x} : \A i \in 1 .. Len(refs[y]) : at'[refs[y][i]] \notin Early
      BY <1>3, <1>4, SampleOf DEF RulesInv, JudgedIsOut
    <3> QED BY <1>7, <3>1, <3>2
  <2>2. \A y \in Samples : at'[y] \in Judging => y # x /\ at[y] \in Judging
    BY <1>3 DEF Judging
  <2>3. \A e \in Serials, y \in Samples : at'[y] \in Judging =>
          \A i \in 1 .. Len(made.same[e]), j \in 1 .. Len(refs'[y]) : made.same[e][i] # refs'[y][j]
    <3> SUFFICES ASSUME NEW e \in Serials, NEW y \in Samples, at'[y] \in Judging,
                        NEW i \in 1 .. Len(made.same[e]), NEW j \in 1 .. Len(refs'[y])
                 PROVE  made.same[e][i] # refs'[y][j]
      OBVIOUS
    <3>1. e # d
      BY <1>1, <1>2
    <3>2. made.same[e] = found.same[e] /\ refs'[y] = refs[y] /\ at[y] \in Judging
      BY <1>2, <1>7, <2>2, <3>1
    <3> QED BY <3>2, FoundIsSound
  <2>4. \A y, z \in Samples :
          y # z /\ at'[y] \in Judging /\ at'[z] \in Judging =>
            \A i \in 1 .. Len(refs'[y]), j \in 1 .. Len(refs'[z]) : refs'[y][i] # refs'[z][j]
    <3>1. \A y \in Samples : at'[y] \in Judging => refs'[y] = refs[y] /\ at[y] \in Judging
      BY <1>7, <2>2
    <3> QED BY <3>1 DEF RulesInv, JudgedIsOut
  <2> QED BY <1>6, <2>1, <2>3, <2>4 DEF JudgedIsOut
<1>10. CountedOnce' /\ RunsAreKnown'
  BY <1>3, CountedStays DEF RulesInv
<1>11. CounterIsRun'
  <2>1. \A e \in Serials : \A n \in 0 .. Len(counted[e]) :
          RunAt(counted[e], Len(counted[e]), n, text)' => RunAt(counted[e], Len(counted[e]), n, text)
    BY <1>3
  <2>2. ~faulty' => ~faulty /\ found = Hydrated
    BY DEF Persist
  <2>3. ~faulty' => Hydrated'.empty = Hydrated.empty
    BY <1>2, <1>6, <2>2 DEF Hydrated
  <2> QED BY <1>3, <2>1, <2>2, <2>3 DEF RulesInv, CounterIsRun
<1>12. TellsEveryNth'
  <2>1. Told(x)' <=> Told(x)
    BY <1>3 DEF Told
  <2>2. ~faulty' => ~faulty
    BY DEF Persist
  <2> QED BY <1>3, <2>1, <2>2, TellsNext
<1>13. SaysSomething'
  <2>1. at'[x] \notin Saying
    BY <1>3 DEF Saying, Judging
  <2> QED BY <1>3, <2>1, SayingNext DEF RulesInv
<1> QED BY <1>6, <1>8, <1>9, <1>10, <1>11, <1>12, <1>13 DEF RulesInv

\* The streak that a call joins, or begins.
Join(s, x) == IF s # <<>> /\ text[Head(s)] = text[x] THEN Append(s, x) ELSE <<x>>

LEMMA JoinedStreak ==
  ASSUME RulesInv, NEW x \in Samples, at[x] = "count", at'[x] \notin Early, text' = text,
         NEW s \in Seq(Samples), Streak(s, SerialOf[x], text, at),
         \A y \in Samples : at[y] \notin Early => at'[y] \notin Early /\ text'[y] = text[y]
  PROVE  LET n == Join(s, x)
         IN  /\ n \in Seq(Samples) /\ Len(n) \in Nat
             /\ \A i \in 1 .. Len(n) : n[i] = x \/ \E j \in 1 .. Len(s) : n[i] = s[j]
             /\ \A i \in 1 .. Len(n) : at'[n[i]] \notin Early /\ SerialOf[n[i]] = SerialOf[x]
             /\ Len(n) < Threshold => Streak(n, SerialOf[x], text', at')
<1> DEFINE n == Join(s, x)
<1>1. Len(s) \in Nat /\ \A i \in 1 .. Len(s) : s[i] \in Samples
  BY LenProperties, ElementOfSeq
<1>2. \A i \in 1 .. Len(s) : at[s[i]] \notin Early /\ s[i] # x /\ at'[s[i]] \notin Early
  BY <1>1 DEF Streak, Early
<1>3. CASE s # <<>> /\ text[Head(s)] = text[x]
  <2>1. n = Append(s, x)
    BY <1>3 DEF Join
  <2> HIDE DEF n
  <2>2. /\ n \in Seq(Samples) /\ Len(n) = Len(s) + 1
        /\ \A i \in 1 .. Len(s) : n[i] = s[i]
        /\ n[Len(s) + 1] = x
    BY <2>1, AppendProperties
  <2>3. Len(s) >= 1 /\ Head(s) = s[1]
    BY <1>1, <1>3, EmptySeq
  <2>4. \A i \in 1 .. Len(n) : i = Len(s) + 1 \/ i \in 1 .. Len(s)
    BY <1>1, <2>2
  <2>5. \A i \in 1 .. Len(n) : n[i] = x \/ \E j \in 1 .. Len(s) : n[i] = s[j]
    BY <2>2, <2>4
  <2>6. \A i \in 1 .. Len(n) : at'[n[i]] \notin Early /\ SerialOf[n[i]] = SerialOf[x]
    BY <1>2, <2>5 DEF Streak
  <2>7. \A i, j \in 1 .. Len(n) : n[i] = n[j] => i = j
    BY <1>2, <2>2, <2>4 DEF Streak
  <2>8. \A i \in 1 .. Len(n) : text'[n[i]] = text'[n[1]]
    BY <1>3, <2>2, <2>3, <2>4 DEF Streak
  <2>9. n \in Seq(Samples) /\ Len(n) \in Nat
    BY <1>1, <2>2
  <2>10. Len(n) < Threshold => Streak(n, SerialOf[x], text', at')
    BY <2>6, <2>7, <2>8 DEF Streak
  <2> QED BY <2>5, <2>6, <2>9, <2>10 DEF n
<1>4. CASE ~(s # <<>> /\ text[Head(s)] = text[x])
  <2>1. n = <<x>> /\ n \in Seq(Samples) /\ Len(n) = 1 /\ n[1] = x
    BY <1>4 DEF Join
  <2> HIDE DEF n
  <2>2. \A i \in 1 .. Len(n) : n[i] = x
    BY <2>1
  <2>3. \A i \in 1 .. Len(n) : at'[n[i]] \notin Early /\ SerialOf[n[i]] = SerialOf[x]
    BY <2>2
  <2>4. \A i, j \in 1 .. Len(n) : i = j
    BY <2>1
  <2>5. Streak(n, SerialOf[x], text', at') \/ ~(Len(n) < Threshold)
    BY <2>1, <2>2, <2>3, <2>4 DEF Streak
  <2>6. Len(n) \in Nat
    BY <2>1
  <2> QED BY <2>1, <2>2, <2>3, <2>5, <2>6 DEF n
<1> QED BY <1>3, <1>4

LEMMA CountSameNext ==
  ASSUME RulesInv, NEW x \in Samples, CountSame(x)
  PROVE  RulesInv'
<1> DEFINE d == SerialOf[x]
           Full(s) == Len(Join(s, x)) >= Threshold
           Made(found) ==
             [found EXCEPT !.same[d] = IF Full(found.same[d]) THEN <<>> ELSE Join(found.same[d], x)]
<1> PICK found \in Found :
      /\ Persist(found, Made(found))
      /\ refs' = [refs EXCEPT ![x] = IF Full(found.same[d]) THEN Join(found.same[d], x) ELSE <<>>]
      /\ Goto(x, IF Full(found.same[d]) THEN "judge" ELSE "anr")
  BY Zenon DEF CountSame, Join
<1> DEFINE s == found.same[d]
           n == Join(s, x)
           made == Made(found)
<1>1. /\ found \in Streaks /\ d \in Serials /\ <<>> \in Seq(Samples) /\ Len(<<>>) = 0
      /\ Threshold \in Nat \ {0} /\ s \in Seq(Samples) /\ Streak(s, d, text, at)
  BY FoundIsSound, RulesAssumption, EmptySeq DEF Streaks
<1>2. /\ Typed /\ at \in [Samples -> Stages] /\ at[x] = "count"
      /\ at' = [at EXCEPT ![x] = IF Full(s) THEN "judge" ELSE "anr"]
      /\ UNCHANGED <<text, lists, alerts, counted, kills>>
  BY Zenon DEF RulesInv, Typed, CountSame, Goto, Join
<1> HIDE DEF Full
<1>3. /\ at' \in [Samples -> Stages] /\ at'[x] \notin Early /\ at'[x] \notin {"running", "empty", "emptyFires"}
      /\ at'[x] = (IF Full(s) THEN "judge" ELSE "anr")
      /\ \A y \in Samples \ {x} : at'[y] = at[y]
  BY <1>2 DEF Stages, Early
<1>4. \A y \in Samples : at[y] \notin Early => at'[y] \notin Early /\ text'[y] = text[y]
  BY <1>2, <1>3
<1>5. /\ n \in Seq(Samples) /\ Len(n) \in Nat
      /\ \A i \in 1 .. Len(n) : n[i] = x \/ \E j \in 1 .. Len(s) : n[i] = s[j]
      /\ \A i \in 1 .. Len(n) : at'[n[i]] \notin Early /\ SerialOf[n[i]] = d
      /\ Len(n) < Threshold => Streak(n, d, text', at')
  BY <1>1, <1>2, <1>3, <1>4, JoinedStreak
<1>6. /\ made \in Streaks /\ made.empty = found.empty
      /\ made.same[d] = (IF Full(s) THEN <<>> ELSE n)
      /\ \A e \in Serials \ {d} : made.same[e] = found.same[e]
  <2>1. (IF Full(s) THEN <<>> ELSE n) \in Seq(Samples)
    BY <1>1, <1>5
  <2> QED BY <1>1, <2>1 DEF Streaks
<1>7. /\ \A e \in Serials : Streak(made.same[e], e, text', at')
  <2>1. Streak(made.same[d], d, text', at')
    <3>1. Streak(<<>>, d, text', at')
      BY <1>1 DEF Streak
    <3>2. ~Full(s) => Len(n) < Threshold
      BY <1>1, <1>5 DEF Full
    <3> QED BY <1>5, <1>6, <3>1, <3>2
  <2>2. \A e \in Serials : found.same[e] \in Seq(Samples)
    BY <1>1 DEF Streaks
  <2>3. \A e \in Serials : Streak(found.same[e], e, text', at')
    BY <1>4, <2>2, FoundIsSound, StreaksStay
  <2> QED BY <1>6, <2>1, <2>3
<1>8. /\ StreaksAreOfOne' /\ SavedIsMemory' /\ memory' = made /\ loaded' = TRUE
      /\ memory' \in Streaks /\ saved' \in Streaks /\ faulty' \in BOOLEAN
  <2> HIDE DEF Made
  <2> QED BY <1>4, <1>6, <1>7, PersistNext
<1> HIDE DEF Made
<1>9. /\ refs' \in [Samples -> Seq(Samples)] /\ refs'[x] = (IF Full(s) THEN n ELSE <<>>)
      /\ \A y \in Samples \ {x} : refs'[y] = refs[y]
  BY <1>1, <1>2, <1>5 DEF Typed
<1>10. Typed'
  BY <1>2, <1>3, <1>8, <1>9 DEF Typed, lists
<1>11. JudgedIsOut'
  <2>1. \A y \in Samples : \A i \in 1 .. Len(refs'[y]) : at'[refs'[y][i]] \notin Early
    <3>1. \A i \in 1 .. Len(refs'[x]) : at'[refs'[x][i]] \notin Early
      BY <1>1, <1>5, <1>9
    <3>2. \A y \in Samples \ {x} : \A i \in 1 .. Len(refs[y]) : at'[refs[y][i]] \notin Early
      BY <1>2, <1>4, SampleOf DEF RulesInv, JudgedIsOut
    <3> QED BY <1>9, <3>1, <3>2
  <2>2. \A y \in Samples \ {x} : at'[y] \in Judging => at[y] \in Judging /\ refs'[y] = refs[y]
    BY <1>3, <1>9
  <2>3. \A y \in Samples \ {x} : at'[y] \in Judging =>
          \A i \in 1 .. Len(n), j \in 1 .. Len(refs[y]) : n[i] # refs[y][j]
    <3> SUFFICES ASSUME NEW y \in Samples \ {x}, at'[y] \in Judging,
                        NEW i \in 1 .. Len(n), NEW j \in 1 .. Len(refs[y])
                 PROVE  n[i] # refs[y][j]
      OBVIOUS
    <3>1. CASE n[i] = x
      BY <1>2, <3>1 DEF RulesInv, JudgedIsOut, Early
    <3>2. CASE \E k \in 1 .. Len(s) : n[i] = s[k]
      BY <1>1, <2>2, <3>2, FoundIsSound
    <3> QED BY <1>5, <3>1, <3>2
  <2>4. \A e \in Serials, y \in Samples : at'[y] \in Judging =>
          \A i \in 1 .. Len(made.same[e]), j \in 1 .. Len(refs'[y]) : made.same[e][i] # refs'[y][j]
    <3> SUFFICES ASSUME NEW e \in Serials, NEW y \in Samples, at'[y] \in Judging,
                        NEW i \in 1 .. Len(made.same[e]), NEW j \in 1 .. Len(refs'[y])
                 PROVE  made.same[e][i] # refs'[y][j]
      OBVIOUS
    <3>1. CASE y # x /\ e = d
      BY <1>1, <1>6, <2>2, <2>3, <3>1
    <3>2. CASE y # x /\ e # d
      BY <1>6, <2>2, <3>2, FoundIsSound
    <3>3. CASE y = x /\ Full(s)
      <4>1. refs'[x] = n /\ e # d
        BY <1>1, <1>6, <1>9, <3>3
      <4>2. SerialOf[made.same[e][i]] = e
        BY <1>7 DEF Streak
      <4> QED BY <1>5, <3>3, <4>1, <4>2
    <3>4. CASE y = x /\ ~Full(s)
      BY <1>1, <1>9, <3>4
    <3> QED BY <3>1, <3>2, <3>3, <3>4
  <2>5. \A y, z \in Samples :
          y # z /\ at'[y] \in Judging /\ at'[z] \in Judging =>
            \A i \in 1 .. Len(refs'[y]), j \in 1 .. Len(refs'[z]) : refs'[y][i] # refs'[z][j]
    <3> SUFFICES ASSUME NEW y \in Samples, NEW z \in Samples, y # z, at'[y] \in Judging, at'[z] \in Judging,
                        NEW i \in 1 .. Len(refs'[y]), NEW j \in 1 .. Len(refs'[z])
                 PROVE  refs'[y][i] # refs'[z][j]
      OBVIOUS
    <3>1. CASE y # x /\ z # x
      BY <2>2, <3>1 DEF RulesInv, JudgedIsOut
    <3>2. refs'[x] = n \/ refs'[x] = <<>>
      BY <1>9
    <3>3. CASE y = x
      BY <1>1, <2>2, <2>3, <3>2, <3>3
    <3>4. CASE z = x
      BY <1>1, <2>2, <2>3, <3>2, <3>4
    <3> QED BY <3>1, <3>3, <3>4
  <2> QED BY <1>8, <2>1, <2>4, <2>5 DEF JudgedIsOut
<1>12. CountedOnce' /\ RunsAreKnown'
  BY <1>2, <1>3 DEF RulesInv, CountedOnce, RunsAreKnown
<1>13. CounterIsRun'
  <2>1. ~faulty' => ~faulty /\ found = Hydrated
    BY DEF Persist
  <2>2. ~faulty' => Hydrated'.empty = Hydrated.empty
    BY <1>6, <1>8, <2>1 DEF Hydrated
  <2> QED BY <1>2, <2>1, <2>2 DEF RulesInv, CounterIsRun
<1>14. TellsEveryNth'
  <2>1. MovesOn(x) /\ alerts' = alerts
    BY <1>2, <1>3 DEF MovesOn
  <2>2. Told(x)' <=> Told(x)
    BY <1>2, <1>3 DEF Told
  <2>3. ~faulty' => ~faulty
    BY DEF Persist
  <2> QED BY <1>2, <2>1, <2>2, <2>3, TellsNext
<1>15. SaysSomething'
  <2>1. MovesOn(x)
    BY <1>2, <1>3 DEF MovesOn
  <2>2. text'[x] # Empty
    BY <1>2 DEF RulesInv, SaysSomething, Saying
  <2> QED BY <2>1, <2>2, SayingNext DEF RulesInv
<1> QED BY <1>8, <1>10, <1>11, <1>12, <1>13, <1>14, <1>15 DEF RulesInv

LEMMA EmptyRuleNext ==
  ASSUME RulesInv, NEW x \in Samples, EmptyRule(x)
  PROVE  RulesInv'
<1> PICK d \in Serials : d = SerialOf[x]
  BY RulesAssumption
<1> PICK l \in Nat : l = Len(counted[d])
  BY SampleOf DEF RulesInv
<1> DEFINE Count(found) == IF text[x] = Empty THEN found.empty[d] + 1 ELSE 0
           Fires(found) == Count(found) >= Threshold
           Made(found) == [found EXCEPT !.empty[d] = IF Fires(found) THEN 0 ELSE Count(found)]
<1> PICK found \in Found :
      /\ Persist(found, Made(found))
      /\ Goto(x, IF Fires(found) THEN "emptyFires" ELSE "black")
  BY Zenon DEF EmptyRule
<1> DEFINE made == Made(found)
           fires == Fires(found)
           r == IF fires THEN 0 ELSE Count(found)
<1>1. /\ found \in Streaks /\ d \in Serials /\ Threshold \in Nat \ {0}
      /\ found.empty[d] \in 0 .. Threshold - 1
  BY FoundIsSound, RulesAssumption DEF Streaks
<1>2. /\ Typed /\ at \in [Samples -> Stages] /\ at[x] = "empty" /\ at' = [at EXCEPT ![x] = at'[x]]
      /\ at'[x] = (IF fires THEN "emptyFires" ELSE "black")
      /\ counted' = [counted EXCEPT ![d] = Append(counted[d], x)]
      /\ UNCHANGED <<text, lists, refs, alerts, kills>>
  <2>1. Typed /\ at \in [Samples -> Stages]
    BY DEF RulesInv, Typed
  <2>2. at' = [at EXCEPT ![x] = IF fires THEN "emptyFires" ELSE "black"]
    BY DEF Goto
  <2>3. /\ at[x] = "empty" /\ counted' = [counted EXCEPT ![d] = Append(counted[d], x)]
        /\ UNCHANGED <<text, lists, refs, alerts, kills>>
    BY DEF EmptyRule
  <2> HIDE DEF Fires
  <2> QED BY <2>1, <2>2, <2>3
<1>3. /\ r \in 0 .. Threshold - 1
      /\ (fires => text[x] = Empty)
      /\ text[x] = Empty => (fires <=> found.empty[d] + 1 >= Threshold) /\ (~fires => r = found.empty[d] + 1)
      /\ text[x] # Empty => r = 0
  <2>1. CASE text[x] = Empty
    <3>1. Count(found) = found.empty[d] + 1
      BY <2>1
    <3> HIDE DEF Count
    <3>2. fires <=> found.empty[d] + 1 >= Threshold
      BY <3>1
    <3>3. r = IF fires THEN 0 ELSE found.empty[d] + 1
      BY <3>1
    <3> HIDE DEF Fires, r
    <3> QED BY <1>1, <2>1, <3>2, <3>3
  <2>2. CASE text[x] # Empty
    <3>1. Count(found) = 0
      BY <2>2
    <3> HIDE DEF Count
    <3> QED BY <1>1, <2>2, <3>1
  <2> QED BY <2>1, <2>2
<1>4. /\ made \in Streaks /\ made.same = found.same
      /\ made.empty[d] = r
      /\ \A e \in Serials \ {d} : made.empty[e] = found.empty[e]
  <2> HIDE DEF Fires, Count, r
  <2>1. made = [found EXCEPT !.empty[d] = r]
    BY DEF r
  <2> HIDE DEF Made
  <2>2. found.same \in [Serials -> Seq(Samples)] /\ found.empty \in [Serials -> 0 .. Threshold - 1]
    BY <1>1 DEF Streaks
  <2>3. made = [empty |-> [found.empty EXCEPT ![d] = r], same |-> found.same]
    BY <1>1, <2>1 DEF Streaks
  <2>4. [found.empty EXCEPT ![d] = r] \in [Serials -> 0 .. Threshold - 1]
    BY <1>3, <2>2
  <2> QED BY <2>2, <2>3, <2>4 DEF Streaks
<1> HIDE DEF Made, Fires, Count, r
<1>5. /\ at' \in [Samples -> Stages] /\ \A y \in Samples \ {x} : at'[y] = at[y]
      /\ MovesOn(x) /\ at'[x] \notin Judging
  <2>1. at' \in [Samples -> Stages] /\ \A y \in Samples \ {x} : at'[y] = at[y]
    BY <1>2 DEF Stages
  <2>2. MovesOn(x) /\ at'[x] \notin Judging
    BY <1>2, <2>1 DEF MovesOn, Early, Judging
  <2> QED BY <2>1, <2>2
<1>6. \A y \in Samples : at[y] \notin Early => at'[y] \notin Early /\ text'[y] = text[y]
  BY <1>5, LateStays
<1>7. \A e \in Serials : Streak(made.same[e], e, text', at')
  <2>1. \A e \in Serials : found.same[e] \in Seq(Samples)
    BY <1>1 DEF Streaks
  <2> QED BY <1>4, <1>6, <2>1, FoundIsSound, StreaksStay
<1>8. /\ StreaksAreOfOne' /\ SavedIsMemory' /\ memory' = made /\ loaded' = TRUE
      /\ memory' \in Streaks /\ saved' \in Streaks /\ faulty' \in BOOLEAN
  BY <1>4, <1>6, <1>7, PersistNext
<1>9. /\ counted[d] \in Seq(Samples) /\ l \in Nat /\ counted'[d] = Append(counted[d], x)
      /\ counted'[d] \in Seq(Samples) /\ Len(counted'[d]) = l + 1
      /\ \A i \in 1 .. l : counted'[d][i] = counted[d][i] /\ counted[d][i] # x
      /\ counted'[d][l + 1] = x
      /\ \A e \in Serials \ {d} : counted'[e] = counted[e]
      /\ counted' \in [Serials -> Seq(Samples)]
  <2>1. counted[d] \in Seq(Samples) /\ l \in Nat
    BY <1>1, <1>2, SampleOf
  <2>2. /\ Append(counted[d], x) \in Seq(Samples) /\ Len(Append(counted[d], x)) = l + 1
        /\ \A i \in 1 .. l : Append(counted[d], x)[i] = counted[d][i]
        /\ Append(counted[d], x)[l + 1] = x
    BY <2>1, AppendProperties
  <2>3. counted'[d] = Append(counted[d], x) /\ \A e \in Serials \ {d} : counted'[e] = counted[e]
    BY <1>1, <1>2 DEF Typed
  <2>4. counted' \in [Serials -> Seq(Samples)]
    BY <1>1, <1>2, <2>2 DEF Typed
  <2>5. \A i \in 1 .. l : counted[d][i] # x
    BY <1>1, <1>2 DEF RulesInv, CountedOnce
  <2> QED BY <2>1, <2>2, <2>3, <2>4, <2>5
<1>10. Typed'
  BY <1>2, <1>5, <1>8, <1>9 DEF Typed, lists
<1>11. JudgedIsOut'
  <2>1. \A y \in Samples : at'[y] \in Judging => at[y] \in Judging
    BY <1>2, <1>5
  <2>2. \A y \in Samples : \A i \in 1 .. Len(refs[y]) : at'[refs[y][i]] \notin Early
    BY <1>2, <1>6, SampleOf DEF RulesInv, JudgedIsOut
  <2>3. \A e \in Serials, y \in Samples : at'[y] \in Judging =>
          \A i \in 1 .. Len(made.same[e]), j \in 1 .. Len(refs[y]) : made.same[e][i] # refs[y][j]
    <3>1. made.same = found.same
      BY <1>4
    <3> QED BY <2>1, <3>1, FoundIsSound
  <2>4. refs' = refs
    BY <1>2
  <2> QED BY <1>8, <2>1, <2>2, <2>3, <2>4 DEF RulesInv, JudgedIsOut
<1>12. CountedOnce'
  <2>1. /\ \A e \in Serials : \A i \in 1 .. Len(counted[e]) :
             SerialOf[counted[e][i]] = e /\ at'[counted[e][i]] \notin {"running", "empty"}
        /\ at'[x] \notin {"running", "empty"}
    <3>1. \A e \in Serials : \A i \in 1 .. Len(counted[e]) :
            counted[e][i] \in Samples /\ counted[e][i] # x
      BY <1>2, SampleOf DEF RulesInv, CountedOnce
    <3> QED BY <1>2, <1>5, <3>1 DEF RulesInv, CountedOnce
  <2>2. \A i \in 1 .. l + 1 : i = l + 1 \/ i \in 1 .. l
    BY <1>9
  <2>3. \A i \in 1 .. l + 1 : SerialOf[counted'[d][i]] = d /\ at'[counted'[d][i]] \notin {"running", "empty"}
    <3> TAKE i \in 1 .. l + 1
    <3>1. CASE i = l + 1
      BY <1>9, <2>1, <3>1
    <3>2. CASE i \in 1 .. l
      BY <1>9, <2>1, <3>2
    <3> QED BY <2>2, <3>1, <3>2
  <2>4. \A i, j \in 1 .. l : counted[d][i] = counted[d][j] => i = j
    BY DEF RulesInv, CountedOnce
  <2>5. \A i, j \in 1 .. l + 1 : counted'[d][i] = counted'[d][j] => i = j
    BY <1>9, <2>2, <2>4
  <2>6. ASSUME NEW e \in Serials
        PROVE  /\ \A i \in 1 .. Len(counted'[e]) :
                    SerialOf[counted'[e][i]] = e /\ at'[counted'[e][i]] \notin {"running", "empty"}
               /\ \A i, j \in 1 .. Len(counted'[e]) : counted'[e][i] = counted'[e][j] => i = j
    <3>1. CASE e = d
      <4>1. Len(counted'[e]) = l + 1
        BY <1>9, <3>1
      <4> QED BY <2>3, <2>5, <3>1, <4>1
    <3>2. CASE e # d
      <4>1. counted'[e] = counted[e]
        BY <1>9, <3>2
      <4>2. \A i, j \in 1 .. Len(counted[e]) : counted[e][i] = counted[e][j] => i = j
        BY DEF RulesInv, CountedOnce
      <4> QED BY <2>1, <4>1, <4>2
    <3> QED BY <3>1, <3>2
  <2> QED BY <2>6 DEF CountedOnce
<1>13. \A e \in Serials : \A i \in 0 .. Len(counted[e]) : \A n \in 0 .. i :
         RunAt(counted'[e], i, n, text) <=> RunAt(counted[e], i, n, text)
  <2> SUFFICES ASSUME NEW e \in Serials, NEW i \in 0 .. Len(counted[e]), NEW n \in 0 .. i
               PROVE  RunAt(counted'[e], i, n, text) <=> RunAt(counted[e], i, n, text)
    OBVIOUS
  <2>1. i \in Nat /\ \A j \in 1 .. i : counted'[e][j] = counted[e][j]
    <3>1. Len(counted[e]) \in Nat
      BY <1>2, SampleOf
    <3>2. \A j \in 1 .. i : j \in 1 .. Len(counted[e])
      BY <3>1
    <3>3. CASE e = d
      BY <1>9, <3>1, <3>2, <3>3
    <3>4. CASE e # d
      BY <1>9, <3>1, <3>4
    <3> QED BY <3>3, <3>4
  <2> QED BY <2>1, RunOfPrefix
<1>14. PICK m \in 0 .. l : RunAt(counted[d], l, m, text)
  <2>1. l \in 0 .. Len(counted[d])
    OBVIOUS
  <2> QED BY <2>1 DEF RulesInv, RunsAreKnown
<1> DEFINE k == IF text[x] = Empty THEN m + 1 ELSE 0
<1>15. k \in 0 .. l + 1 /\ RunAt(counted'[d], l + 1, k, text)
  <2>1. RunAt(counted'[d], l, m, text) /\ l \in 0 .. Len(counted[d])
    <3>1. l \in 0 .. Len(counted[d])
      OBVIOUS
    <3> QED BY <1>13, <1>14, <3>1
  <2>2. l \in Nat
    BY <1>9
  <2>3. /\ text[x] = Empty => RunAt(counted'[d], l + 1, m + 1, text)
        /\ text[x] # Empty => RunAt(counted'[d], l + 1, 0, text)
    BY <1>9, <2>1, RunGoesOn
  <2> QED BY <2>2, <2>3
<1>16. /\ ~faulty' => ~faulty /\ found = Hydrated /\ found.empty[d] = m % Threshold
       /\ \A n \in 0 .. l + 1 : RunAt(counted'[d], l + 1, n, text) => n = k
  <2>1. ~faulty' => ~faulty /\ found = Hydrated
    BY DEF Persist
  <2>2. \A n \in 0 .. l + 1 : RunAt(counted'[d], l + 1, n, text) => n = k
    <3> HIDE DEF k
    <3> QED BY <1>9, <1>15, OneRun
  <2> QED BY <1>1, <1>14, <2>1, <2>2 DEF RulesInv, CounterIsRun
<1>17. /\ text[x] = Empty =>
            k = m + 1 /\ k % Threshold = IF (m % Threshold) + 1 >= Threshold THEN 0 ELSE (m % Threshold) + 1
       /\ text[x] # Empty => k = 0 /\ k % Threshold = 0
       /\ (m % Threshold) \in 0 .. Threshold - 1 /\ m \in Nat
  <2>1. m \in Nat
    BY <1>9
  <2>2. (m + 1) % Threshold = IF (m % Threshold) + 1 >= Threshold THEN 0 ELSE (m % Threshold) + 1
    BY <1>1, <2>1, NextRemainder
  <2>3. 0 % Threshold = 0
    BY <1>1
  <2>4. (m % Threshold) \in 0 .. Threshold - 1
    BY <1>1, <2>1
  <2> QED BY <2>1, <2>2, <2>3, <2>4
<1>18. ~faulty' => /\ r = k % Threshold
                   /\ fires <=> k > 0 /\ k % Threshold = 0
  <2>1. CASE text[x] = Empty
    <3>1. ~faulty' => (fires <=> (m % Threshold) + 1 >= Threshold)
      BY <1>3, <1>16, <2>1
    <3>2. ~faulty' => r = IF (m % Threshold) + 1 >= Threshold THEN 0 ELSE (m % Threshold) + 1
      BY <1>3, <1>16, <2>1, <3>1 DEF r, Fires
    <3>3. k % Threshold = 0 <=> (m % Threshold) + 1 >= Threshold
      BY <1>17, <2>1
    <3>4. k > 0
      BY <1>17, <2>1
    <3> QED BY <1>17, <2>1, <3>1, <3>2, <3>3, <3>4
  <2>2. CASE text[x] # Empty
    BY <1>3, <1>17, <2>2
  <2> QED BY <2>1, <2>2
<1> HIDE DEF k
<1>19. RunsAreKnown'
  <2> SUFFICES ASSUME NEW e \in Serials, NEW i \in 0 .. Len(counted'[e])
               PROVE  \E n \in 0 .. i : RunAt(counted'[e], i, n, text')
    BY DEF RunsAreKnown
  <2>1. CASE e = d /\ i = l + 1
    BY <1>2, <1>15, <2>1
  <2>2. CASE ~(e = d /\ i = l + 1)
    <3>1. i \in 0 .. Len(counted[e])
      BY <1>9, <2>2
    <3> QED BY <1>2, <1>13, <3>1 DEF RulesInv, RunsAreKnown
  <2> QED BY <2>1, <2>2
<1>20. CounterIsRun'
  <2> SUFFICES ASSUME ~faulty', NEW e \in Serials, NEW n \in 0 .. Len(counted'[e]),
                      RunAt(counted'[e], Len(counted'[e]), n, text')
               PROVE  Hydrated'.empty[e] = n % Threshold
    BY DEF CounterIsRun
  <2>1. Hydrated' = made
    BY <1>8 DEF Hydrated
  <2>2. CASE e = d
    BY <1>2, <1>4, <1>9, <1>16, <1>18, <2>1, <2>2
  <2>3. CASE e # d
    BY <1>2, <1>4, <1>9, <1>16, <2>1, <2>3 DEF RulesInv, CounterIsRun
  <2> QED BY <2>2, <2>3
<1>21. TellsEveryNth'
  <2>1. \A y \in Samples \ {x} : (Told(y)' <=> Told(y)) /\ at'[y] = at[y]
    BY <1>2, <1>5 DEF Told
  <2>2. Told(x)' <=> fires
    BY <1>2 DEF Told, RulesInv, TellsEveryNth
  <2>3. \A y \in Samples : <<"empty", y>> \in alerts' => at'[y] \notin {"running", "empty"}
    BY <1>2, <2>1 DEF RulesInv, TellsEveryNth
  <2>4. ASSUME ~faulty', kills' = 0, NEW e \in Serials, NEW i \in 1 .. Len(counted'[e]), NEW n \in 0 .. i,
               RunAt(counted'[e], i, n, text')
        PROVE  Told(counted[e][i])' <=> n > 0 /\ n % Threshold = 0
    <3>1. CASE e = d /\ i = l + 1
      <4>1. counted'[e][i] = x
        BY <1>9, <3>1
      <4>2. n = k
        BY <1>2, <1>16, <2>4, <3>1
      <4> QED BY <1>18, <2>2, <2>4, <4>1, <4>2
    <3>2. CASE ~(e = d /\ i = l + 1)
      <4>1. /\ i \in 1 .. Len(counted[e]) /\ i \in 0 .. Len(counted[e])
            /\ counted'[e][i] = counted[e][i] /\ counted[e][i] \in Samples \ {x}
        <5>1. i \in 1 .. Len(counted[e]) /\ i \in 0 .. Len(counted[e]) /\ counted'[e][i] = counted[e][i]
          BY <1>9, <3>2
        <5> QED BY <1>2, <5>1, SampleOf DEF RulesInv, CountedOnce
      <4>2. RunAt(counted[e], i, n, text)
        BY <1>2, <1>13, <2>4, <4>1
      <4>3. Told(counted[e][i]) <=> n > 0 /\ n % Threshold = 0
        BY <1>2, <1>16, <2>4, <4>1, <4>2 DEF RulesInv, TellsEveryNth
      <4>4. PICK y \in Samples \ {x} : y = counted[e][i]
        BY <4>1
      <4>5. Told(y)' <=> n > 0 /\ n % Threshold = 0
        BY <2>1, <4>3, <4>4
      <4> QED BY <4>1, <4>4, <4>5
    <3> QED BY <3>1, <3>2
  <2>5. \A y \in Samples : Told(y)' <=> (<<"empty", y>> \in alerts' \/ at'[y] = "emptyFires")
    BY DEF Told
  <2>6. \A e \in Serials : \A i \in 1 .. Len(counted'[e]) : counted'[e][i] \in Samples
    BY <1>9, ElementOfSeq, LenProperties
  <2> QED BY <2>3, <2>4, <2>5, <2>6 DEF TellsEveryNth, Told
<1>22. SaysSomething'
  <2>1. at'[x] \notin Saying
    BY <1>2 DEF Saying, Judging
  <2> QED BY <1>5, <2>1, SayingNext DEF RulesInv
<1> QED BY <1>8, <1>10, <1>11, <1>12, <1>19, <1>20, <1>21, <1>22 DEF RulesInv

\* A call that goes on without the lock.
LEMMA WalkNext ==
  ASSUME RulesInv, NEW x \in Samples, MovesOn(x), UNCHANGED <<streaks, refs, counted, kills>>,
         at' \in [Samples -> Stages], text' \in [Samples -> Responses \cup {Empty}],
         list' \in [{"white", "black"} -> SUBSET Responses],
         entries' \in [Samples -> SUBSET Responses], edit' = edit,
         alerts' \in SUBSET (Rules \X Samples), alerts \subseteq alerts',
         at'[x] \in Judging => at[x] \in Judging, at'[x] \in Saying => text'[x] # Empty,
         at[x] \notin {"running", "empty"} => (Told(x)' <=> Told(x)),
         \A y \in Samples : <<"empty", y>> \in alerts' \ alerts => y = x /\ at'[x] \notin {"running", "empty"}
  PROVE  RulesInv'
<1>1. Sound'
  BY MovingNext
<1>2. TellsEveryNth'
  BY TellsNext DEF streaks
<1>3. Typed'
  BY DEF RulesInv, Typed, streaks
<1>4. SaysSomething'
  BY SayingNext DEF RulesInv
<1> QED BY <1>1, <1>2, <1>3, <1>4 DEF Sound, RulesInv

\* One that only goes to another place.
LEMMA GotoNext ==
  ASSUME RulesInv, NEW x \in Samples, NEW where \in Stages, Goto(x, where),
         UNCHANGED <<streaks, refs, counted, kills, edit, text, alerts>>,
         list' \in [{"white", "black"} -> SUBSET Responses],
         entries' \in [Samples -> SUBSET Responses],
         at[x] \notin {"running", "empty", "emptyFires"}, where \notin {"running", "empty", "emptyFires"},
         at[x] \notin Early => where \notin Early, where \in Judging => at[x] \in Judging,
         where \in Saying => text[x] # Empty
  PROVE  RulesInv'
<1>1. /\ at \in [Samples -> Stages] /\ alerts \in SUBSET (Rules \X Samples)
      /\ text \in [Samples -> Responses \cup {Empty}]
  BY DEF RulesInv, Typed
<1>2. /\ at' \in [Samples -> Stages] /\ at'[x] = where
      /\ \A y \in Samples \ {x} : at'[y] = at[y]
  BY <1>1 DEF Goto
<1>3. MovesOn(x)
  BY <1>2 DEF MovesOn
<1>4. Told(x)' <=> Told(x)
  BY <1>2 DEF Told
<1> QED BY <1>1, <1>2, <1>3, <1>4, WalkNext

LEMMA BeginNext ==
  ASSUME RulesInv, NEW x \in Samples, Begin(x)
  PROVE  RulesInv'
<1>1. Typed
  BY DEF RulesInv
<1>2. PICK where \in {"empty", "anr", "over"} : at' = [at EXCEPT ![x] = where]
  BY DEF Begin, Goto
<1>3. PICK answer \in Responses \cup {Empty} : text' = [text EXCEPT ![x] = answer]
  BY DEF Begin
<1>4. at[x] = "running" /\ UNCHANGED <<streaks, lists, refs, alerts, counted, kills>>
  BY DEF Begin
<1>5. /\ at' \in [Samples -> Stages] /\ at'[x] \in {"empty", "anr", "over"}
      /\ \A y \in Samples \ {x} : at'[y] = at[y]
  BY <1>1, <1>2 DEF Typed, Stages
<1>6. /\ text' \in [Samples -> Responses \cup {Empty}]
      /\ \A y \in Samples \ {x} : text'[y] = text[y]
  BY <1>1, <1>3 DEF Typed
<1>7. MovesOn(x)
  BY <1>4, <1>5, <1>6 DEF MovesOn, Early
<1>8. at'[x] \notin Judging /\ at'[x] \notin Saying
  BY <1>5 DEF Judging, Saying
<1> QED BY <1>1, <1>4, <1>5, <1>6, <1>7, <1>8, WalkNext DEF lists, Typed

LEMMA FireNext ==
  ASSUME RulesInv, NEW x \in Samples, FireEmpty(x) \/ FireSame(x) \/ FireAnr(x)
  PROVE  RulesInv'
<1>1. Typed
  BY DEF RulesInv
<1>2. PICK rule \in Rules, where \in {"black", "anr", "over"} :
        /\ at' = [at EXCEPT ![x] = where] /\ alerts' = alerts \cup {<<rule, x>>}
        /\ \/ rule = "empty" /\ at[x] = "emptyFires" /\ where = "black"
           \/ rule # "empty" /\ at[x] \in {"sameFires", "anrFires"} /\ where # "black"
        /\ UNCHANGED <<text, streaks, lists, refs, counted, kills>>
  <2>1. CASE FireEmpty(x)
    BY <2>1 DEF FireEmpty, Fire, Goto, Rules
  <2>2. CASE FireSame(x)
    BY <2>2 DEF FireSame, Fire, Goto, Rules
  <2>3. CASE FireAnr(x)
    BY <2>3 DEF FireAnr, Fire, Goto, Rules
  <2> QED BY <2>1, <2>2, <2>3
<1>3. /\ at' \in [Samples -> Stages] /\ at'[x] = where
      /\ \A y \in Samples \ {x} : at'[y] = at[y]
  BY <1>1, <1>2 DEF Typed, Stages
<1>4. MovesOn(x)
  BY <1>2, <1>3 DEF MovesOn, Early
<1>5. where \notin Judging /\ where \notin Saying
  BY DEF Judging, Saying
<1>6. Told(x)' <=> Told(x)
  <2>1. CASE rule = "empty"
    <3>1. Told(x)'
      BY <1>2, <2>1 DEF Told
    <3>2. Told(x)
      BY <1>2, <2>1 DEF Told
    <3> QED BY <3>1, <3>2
  <2>2. CASE rule # "empty"
    BY <1>2, <1>3, <2>2 DEF Told
  <2> QED BY <2>1, <2>2
<1>7. \A y \in Samples : <<"empty", y>> \in alerts' \ alerts => y = x /\ at'[x] \notin {"running", "empty"}
  BY <1>2, <1>3
<1>8. alerts' \in SUBSET (Rules \X Samples) /\ alerts \subseteq alerts'
  BY <1>1, <1>2 DEF Typed
<1> QED BY <1>1, <1>2, <1>3, <1>4, <1>5, <1>6, <1>7, <1>8, WalkNext DEF lists, Typed

LEMMA LookNext ==
  ASSUME RulesInv, NEW x \in Samples, LookBlack(x) \/ LookWhite(x) \/ AnrRule(x) \/ Judge(x)
  PROVE  RulesInv'
<1>1. PICK where \in {"anr", "dropBlack", "white", "dropWhite", "count", "over", "anrFires",
                      "addWhite", "addBlack", "sameFires"} :
        /\ Goto(x, where) /\ UNCHANGED <<text, streaks, lists, refs, alerts, counted, kills>>
        /\ \/ at[x] \in {"black", "white"} /\ where \notin {"addWhite", "addBlack"}
           \/ at[x] = "anr" /\ where \in {"over", "anrFires"}
           \/ at[x] = "judge" /\ where \in {"addWhite", "addBlack", "sameFires"}
        /\ at[x] = "black" /\ where = "white" => text[x] # Empty
        /\ where = "white" => at[x] = "black"
        /\ where = "count" => at[x] = "white"
  <2>1. CASE LookBlack(x)
    BY <2>1 DEF LookBlack
  <2>2. CASE LookWhite(x)
    BY <2>2 DEF LookWhite
  <2>3. CASE AnrRule(x)
    BY <2>3 DEF AnrRule
  <2>4. CASE Judge(x)
    BY <2>4 DEF Judge, Verdicts
  <2> QED BY <2>1, <2>2, <2>3, <2>4
<1>2. where \in Stages
  BY DEF Stages
<1>3. /\ at[x] \notin {"running", "empty", "emptyFires"} /\ where \notin {"running", "empty", "emptyFires"}
      /\ (at[x] \notin Early => where \notin Early) /\ (where \in Judging => at[x] \in Judging)
  BY <1>1 DEF Early, Judging
<1>5. where \in Saying => text[x] # Empty
  <2>1. where \in Saying => at[x] \in Saying \/ (at[x] = "black" /\ where = "white")
    BY <1>1 DEF Saying, Judging
  <2> QED BY <1>1, <2>1 DEF RulesInv, SaysSomething
<1>4. list \in [{"white", "black"} -> SUBSET Responses] /\ entries \in [Samples -> SUBSET Responses]
  BY DEF RulesInv, Typed
<1> QED BY <1>1, <1>2, <1>3, <1>4, <1>5, GotoNext DEF lists

\* What is added to a list is a response that was judged, which is not the empty one.
LEMMA ListNext ==
  ASSUME RulesInv, NEW x \in Samples, ReadList(x) \/ SaveList(x)
  PROVE  RulesInv'
<1>1. /\ list \in [{"white", "black"} -> SUBSET Responses] /\ entries \in [Samples -> SUBSET Responses]
      /\ text[x] \in Responses /\ text[x] # Empty
  <2>1. at[x] \in Saying
    BY DEF ReadList, SaveList, Saying, Judging
  <2> QED BY <2>1, RulesAssumption DEF RulesInv, Typed, SaysSomething
<1>2. CASE ReadList(x)
  <2>1. PICK where \in {"anr", "sameFires", "saveWhite", "saveBlack"} : Goto(x, where)
    BY <1>2 DEF ReadList
  <2>2. /\ entries' \in [Samples -> SUBSET Responses]
        /\ at[x] \in {"addWhite", "addBlack"} /\ UNCHANGED <<text, streaks, list, edit, refs, alerts, counted, kills>>
    BY <1>1, <1>2 DEF ReadList
  <2>3. /\ at[x] \notin {"running", "empty", "emptyFires"} /\ where \notin {"running", "empty", "emptyFires"}
        /\ where \notin Early /\ (where \in Judging => at[x] \in Judging) /\ where \in Stages
    BY <2>2 DEF Early, Judging, Stages
  <2> QED BY <1>1, <2>1, <2>2, <2>3, GotoNext
<1>3. CASE SaveList(x)
  <2>1. PICK where \in {"anr", "sameFires"} : Goto(x, where)
    BY <1>3 DEF SaveList
  <2>2. /\ entries' \in [Samples -> SUBSET Responses]
        /\ at[x] \in {"saveWhite", "saveBlack"} /\ UNCHANGED <<text, streaks, edit, refs, alerts, counted, kills>>
    BY <1>1, <1>3 DEF SaveList
  <2>3. list' \in [{"white", "black"} -> SUBSET Responses]
    <3>1. PICK l \in {"white", "black"} : list' = [list EXCEPT ![l] = entries[x] \cup {text[x]}]
      BY <1>3 DEF SaveList
    <3> QED BY <1>1, <3>1
  <2>4. /\ at[x] \notin {"running", "empty", "emptyFires"} /\ where \notin {"running", "empty", "emptyFires"}
        /\ where \notin Early /\ (where \in Judging => at[x] \in Judging) /\ where \in Stages
    BY <2>2 DEF Early, Judging, Stages
  <2> QED BY <1>1, <2>1, <2>2, <2>3, <2>4, GotoNext
<1> QED BY <1>2, <1>3

LEMMA OthersNext ==
  ASSUME RulesInv, UNCHANGED <<at, text, streaks, refs, alerts, counted, kills>>, Typed'
  PROVE  RulesInv'
<1> USE DEF RulesInv, streaks
<1>1. StreaksAreOfOne' /\ JudgedIsOut' /\ SavedIsMemory'
  BY DEF StreaksAreOfOne, JudgedIsOut, SavedIsMemory
<1>2. CountedOnce' /\ RunsAreKnown' /\ CounterIsRun'
  BY DEF CountedOnce, RunsAreKnown, CounterIsRun, Hydrated
<1>3. TellsEveryNth' /\ SaysSomething'
  BY DEF TellsEveryNth, Told, SaysSomething
<1> QED BY <1>1, <1>2, <1>3

LEMMA KillNext ==
  ASSUME RulesInv, Kill
  PROVE  RulesInv'
<1> USE DEF RulesInv, Kill
<1>1. <<>> \in Seq(Samples) /\ Len(<<>>) = 0
  BY EmptySeq
<1>2. Blank \in Streaks
  BY <1>1, RulesAssumption DEF Blank, Streaks
<1>3. Typed'
  <2>1. /\ text \in [Samples -> Responses \cup {Empty}] /\ saved \in Streaks /\ faulty \in BOOLEAN
        /\ list \in [{"white", "black"} -> SUBSET Responses] /\ alerts \in SUBSET (Rules \X Samples)
        /\ counted \in [Serials -> Seq(Samples)] /\ kills \in Nat
    BY DEF Typed
  <2>2. at' \in [Samples -> Stages]
    BY DEF Stages
  <2>3. refs' \in [Samples -> Seq(Samples)]
    BY <1>1
  <2>4. /\ entries' \in [Samples -> SUBSET Responses]
        /\ edit'.on \in {"none", "white", "black"} /\ edit'.keep \in SUBSET Responses
    BY DEF NoEdit
  <2>5. /\ memory' = Blank /\ loaded' = FALSE /\ kills' = kills + 1
        /\ UNCHANGED <<text, saved, faulty, list, alerts, counted>>
    OBVIOUS
  <2> HIDE DEF Kill, RulesInv
  <2>6. memory' \in Streaks /\ loaded' \in BOOLEAN /\ kills' \in Nat
    <3>1. kills' \in Nat
      <4>1. kills \in Nat /\ kills' = kills + 1
        BY <2>1, <2>5
      <4> QED BY <4>1
    <3>2. memory' \in Streaks
      BY <1>2, <2>5, Zenon
    <3>3. loaded' \in BOOLEAN
      BY <2>5, Zenon
    <3> QED BY <3>1, <3>2, <3>3
  <2>7. /\ text' \in [Samples -> Responses \cup {Empty}] /\ saved' \in Streaks /\ faulty' \in BOOLEAN
        /\ list' \in [{"white", "black"} -> SUBSET Responses] /\ alerts' \in SUBSET (Rules \X Samples)
        /\ counted' \in [Serials -> Seq(Samples)]
    BY <2>1, <2>5
  <2> QED BY <2>2, <2>3, <2>4, <2>6, <2>7, Zenon DEF Typed
<1>4. \A y \in Samples : /\ at[y] # "running" => at'[y] = "over"
                         /\ at'[y] \notin Judging /\ at'[y] \notin Saying /\ text'[y] = text[y]
  BY DEF Judging, Saying
<1>5. StreaksAreOfOne'
  <2>1. \A y \in Samples : at[y] \notin Early => at'[y] \notin Early /\ text'[y] = text[y]
    BY <1>4 DEF Early
  <2>2. \A d \in Serials : Streak(saved.same[d], d, text', at')
    <3>1. \A d \in Serials : saved.same[d] \in Seq(Samples)
      BY SampleOf
    <3> QED BY <2>1, <3>1, StreaksStay DEF StreaksAreOfOne
  <2>3. \A d \in Serials : Streak(Blank.same[d], d, text', at')
    BY <1>1, RulesAssumption DEF Blank, Streak
  <2> QED BY <2>2, <2>3 DEF StreaksAreOfOne
<1>6. JudgedIsOut' /\ SavedIsMemory'
  BY <1>1, <1>4 DEF JudgedIsOut, SavedIsMemory
<1>7. CountedOnce'
  <2>1. \A d \in Serials : \A i \in 1 .. Len(counted[d]) : counted[d][i] \in Samples
    BY SampleOf
  <2> QED BY <1>4, <2>1 DEF CountedOnce
<1>8. RunsAreKnown' /\ CounterIsRun'
  <2>1. ~faulty => Hydrated' = Hydrated
    BY DEF Hydrated, SavedIsMemory
  <2> QED BY <2>1 DEF RunsAreKnown, CounterIsRun
<1>9. TellsEveryNth'
  <2>1. kills' # 0
    BY DEF Typed
  <2> QED BY <1>4, <2>1 DEF TellsEveryNth
<1>10. SaysSomething'
  BY <1>4 DEF SaysSomething
<1> QED BY <1>3, <1>5, <1>6, <1>7, <1>8, <1>9, <1>10

LEMMA NextRules == RulesInv /\ [Next]_rulesVars => RulesInv'
<1> SUFFICES ASSUME RulesInv, [Next]_rulesVars PROVE RulesInv'
  OBVIOUS
<1>1. ASSUME NEW x \in Samples, Begin(x) \/ CallStep(x) PROVE RulesInv'
  BY <1>1, BeginNext, EmptyRuleNext, FireNext, LookNext, DropStreakNext, CountSameNext, ListNext DEF CallStep
<1>2. ASSUME NEW l \in {"white", "black"}, NEW r \in Responses, EditList(l, r) PROVE RulesInv'
  <2>1. Typed'
    BY <1>2 DEF RulesInv, Typed, EditList, streaks
  <2> QED BY <1>2, <2>1, OthersNext DEF EditList
<1>3. CASE SaveEdit
  <2>1. Typed'
    BY <1>3 DEF RulesInv, Typed, SaveEdit, streaks, NoEdit
  <2> QED BY <1>3, <2>1, OthersNext DEF SaveEdit
<1>4. CASE UNCHANGED rulesVars
  <2>1. Typed'
    BY <1>4 DEF RulesInv, Typed, rulesVars, streaks, lists
  <2> QED BY <1>4, <2>1, OthersNext DEF rulesVars
<1> QED BY <1>1, <1>2, <1>3, <1>4, KillNext DEF Next
-----------------------------------------------------------------------------
(* What the properties say *)

LEMMA WholeRun ==
  ASSUME NEW s \in Seq(Samples), NEW n \in 0 .. Len(s), RunAt(s, Len(s), n, text)
  PROVE  Trailing(s) = n
<1>1. Len(s) \in Nat /\ Len(s) \in 0 .. Len(s)
  BY LenProperties
<1>2. SubSeq(s, 1, Len(s)) = s
  BY SubSeqFull
<1> QED BY <1>1, <1>2, TrailingIsRun

LEMMA RulesAreTrue == RulesInv => StreaksAreSound
<1> SUFFICES ASSUME RulesInv PROVE StreaksAreSound
  OBVIOUS
<1> USE DEF RulesInv
<1>1. TypeOK
  <2>1. ASSUME NEW m \in Streaks PROVE StreaksOK(m)
    BY RulesAssumption DEF StreaksOK, Streaks
  <2> QED BY <2>1 DEF TypeOK, Typed, Rules
<1>2. StreakIsTrailingRun
  <2> SUFFICES ASSUME ~faulty, NEW d \in Serials
               PROVE  Hydrated.empty[d] = Trailing(counted[d]) % Threshold
    BY DEF StreakIsTrailingRun
  <2>1. counted[d] \in Seq(Samples) /\ Len(counted[d]) \in 0 .. Len(counted[d])
    <3>1. counted[d] \in Seq(Samples) /\ Len(counted[d]) \in Nat
      BY SampleOf
    <3> QED BY <3>1
  <2>2. PICK n \in 0 .. Len(counted[d]) : RunAt(counted[d], Len(counted[d]), n, text)
    BY <2>1 DEF RunsAreKnown
  <2>3. Trailing(counted[d]) = n
    BY <2>1, <2>2, WholeRun
  <2>4. Hydrated.empty[d] = n % Threshold
    BY <2>2 DEF CounterIsRun
  <2> QED BY <2>3, <2>4
<1>3. EveryNthEmptyAlerts
  <2> SUFFICES ASSUME ~faulty, kills = 0, NEW d \in Serials, NEW i \in 1 .. Len(counted[d])
               PROVE  LET x == counted[d][i]
                          run == Trailing(SubSeq(counted[d], 1, i))
                      IN  (<<"empty", x>> \in alerts \/ at[x] = "emptyFires") <=> (run > 0 /\ run % Threshold = 0)
    <3>1. \A d \in Serials : DOMAIN counted[d] = 1 .. Len(counted[d])
      BY SampleOf, LenProperties
    <3> QED BY <3>1 DEF EveryNthEmptyAlerts
  <2>1. counted[d] \in Seq(Samples) /\ i \in 0 .. Len(counted[d])
    <3>1. counted[d] \in Seq(Samples) /\ Len(counted[d]) \in Nat
      BY SampleOf
    <3> QED BY <3>1
  <2>2. PICK n \in 0 .. i : RunAt(counted[d], i, n, text)
    BY <2>1 DEF RunsAreKnown
  <2>3. Trailing(SubSeq(counted[d], 1, i)) = n
    BY <2>1, <2>2, TrailingIsRun
  <2>4. Told(counted[d][i]) <=> n > 0 /\ n % Threshold = 0
    BY <2>2 DEF TellsEveryNth
  <2> QED BY <2>3, <2>4 DEF Told
<1>4. StreaksAreApart
  <2>1. \A d \in Serials : Hydrated.same[d] \in Seq(Samples) /\ Streak(Hydrated.same[d], d, text, at)
    BY SampleOf DEF Hydrated, StreaksAreOfOne
  <2>2. \A x \in Samples : refs[x] \in Seq(Samples) /\ Len(refs[x]) \in Nat
    BY LenProperties DEF Typed
  <2>3. \A x \in Samples : \A v \in Pending(x) :
          at[x] \in Judging /\ \E i \in 1 .. Len(refs[x]) : refs[x][i] = v
    BY <2>2, LenProperties DEF Pending, Judging, ToSet
  <2>4. ASSUME NEW x \in Samples, NEW y \in Samples, x # y PROVE Pending(x) \cap Pending(y) = {}
    BY <2>3, <2>4 DEF JudgedIsOut
  <2>5. ASSUME NEW d \in Serials
        PROVE  LET s == Hydrated.same[d]
               IN  /\ Len(s) < Threshold /\ IsInjective(s)
                   /\ \A i \in DOMAIN s : SerialOf[s[i]] = d /\ text[s[i]] = text[s[1]]
                   /\ \A x \in Samples : ToSet(s) \cap Pending(x) = {}
    <3> PICK s \in Seq(Samples) : s = Hydrated.same[d]
      BY <2>1
    <3>1. /\ Streak(s, d, text, at) /\ DOMAIN s = 1 .. Len(s) /\ Len(s) \in Nat
      BY <2>1, LenProperties
    <3>2. IsInjective(s)
      BY <3>1 DEF Streak, IsInjective
    <3>3. \A x \in Samples : ToSet(s) \cap Pending(x) = {}
      <4> SUFFICES ASSUME NEW x \in Samples, NEW v \in Pending(x), NEW i \in 1 .. Len(s), s[i] = v
                   PROVE  FALSE
        BY <3>1 DEF ToSet
      <4>1. PICK j \in 1 .. Len(refs[x]) : refs[x][j] = v
        BY <2>3
      <4>2. at[x] \in Judging
        BY <2>3
      <4>3. CASE loaded
        BY <4>1, <4>2, <4>3 DEF Hydrated, JudgedIsOut
      <4>4. CASE ~loaded
        <5>1. refs[x] = <<>>
          BY <4>4 DEF JudgedIsOut
        <5> QED BY <4>1, <5>1, EmptySeq
      <4> QED BY <4>3, <4>4
    <3> QED BY <3>1, <3>2, <3>3 DEF Streak
  <2> QED BY <2>4, <2>5 DEF StreaksAreApart
<1> QED BY <1>1, <1>2, <1>3, <1>4 DEF StreaksAreSound

\* The counters and the streaks of the rules are those of the phones, whatever
\* the order of the calls, the failures of the row and the restarts.
THEOREM StreaksSound == Spec => []StreaksAreSound
<1>1. Spec => []RulesInv
  BY InitRules, NextRules, PTL DEF Spec
<1> QED BY <1>1, RulesAreTrue, PTL
=============================================================================
