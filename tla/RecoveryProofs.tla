--------------------------- MODULE RecoveryProofs ---------------------------
(***************************************************************************)
(* Proofs about what finds its way back, in Recovery.  The page, for any   *)
(* number of samples, buffer, cuts, loads and kills: what it shows, and    *)
(* what is on its way to it, is what the database has committed, without   *)
(* gap or repetition.  The care of phones, for any phones and jobs: a job  *)
(* in flight can be asked for, and a recovery is told as what its loss was *)
(* told as.                                                                *)
(***************************************************************************)
EXTENDS Recovery, TLAPS, SequenceTheorems

(* The page of a batch *)

\* s is a run of consecutive events up to number n.
RunTo(s, n) == \A i \in DOMAIN s : s[i].seq = n - Len(s) + i

\* No event of s says more than b does.
SaidBy(s, b) ==
  \A i \in DOMAIN s :
    /\ s[i].done <= b.done
    /\ s[i].state = "ended" => b.state = "ended"

\* The row is at least as far as b.
Committed(b) ==
  /\ b.done <= row.done
  /\ b.state = "ended" => row.state # "active"

\* The buffer has the latest events: all of them, or as many as it holds.
BufferIsLatest ==
  /\ RunTo(buffer, seq)
  /\ Len(buffer) = BufferSize \/ Len(buffer) = seq

\* What is published was committed before, and so was what a load has read.
PublishedIsCommitted ==
  /\ told.state # "absent" /\ Committed(told)
  /\ SaidBy(buffer, told) /\ SaidBy(pending, told)
  /\ Committed(load.row)

\* Until something invalidates its query, a connected page does not load.
OneLoad == conn # "idle" /\ LoadedOnce => load.stage = "none"

PageInv == PageIsTrue /\ BufferIsLatest /\ PublishedIsCommitted /\ OneLoad

-----------------------------------------------------------------------------
(* Runs of events *)

LEMMA LeastIsMin ==
  ASSUME NEW S, NEW m \in S, m \in Nat, \A k \in S : k \in Nat /\ m <= k
  PROVE  Min(S) = m
<1>1. \E x \in S : \A y \in S : x <= y
  OBVIOUS
<1>2. Min(S) \in S /\ \A y \in S : Min(S) <= y
  BY <1>1 DEF Min
<1>3. Min(S) \in Nat /\ Min(S) <= m /\ m <= Min(S)
  BY <1>2
<1> QED BY <1>3

LEMMA EmptyRun == <<>> \in Seq(Event) /\ Len(<<>>) = 0 /\ DOMAIN <<>> = {}
BY EmptySeq, LenProperties

LEMMA AppendElements ==
  ASSUME NEW s \in Seq(Event), NEW e \in Event
  PROVE  /\ Append(s, e) \in Seq(Event) /\ Len(Append(s, e)) \in Nat \ {0}
         /\ DOMAIN Append(s, e) = 1 .. Len(Append(s, e))
         /\ \A i \in DOMAIN Append(s, e) :
              Append(s, e)[i] = e \/ (i \in DOMAIN s /\ Append(s, e)[i] = s[i])
<1> DEFINE a == Append(s, e)
<1>1. /\ a \in Seq(Event) /\ Len(a) = Len(s) + 1
      /\ \A i \in 1 .. Len(s) : a[i] = s[i]
      /\ a[Len(s) + 1] = e
  BY AppendProperties
<1>2. Len(s) \in Nat /\ DOMAIN s = 1 .. Len(s) /\ DOMAIN a = 1 .. Len(a)
  BY <1>1, LenProperties
<1> HIDE DEF a
<1>3. ASSUME NEW i \in DOMAIN a PROVE a[i] = e \/ (i \in DOMAIN s /\ a[i] = s[i])
  <2>1. CASE i = Len(s) + 1
    BY <2>1, <1>1
  <2>2. CASE i # Len(s) + 1
    <3>1. i \in 1 .. Len(s)
      BY <2>2, <1>1, <1>2
    <3> QED BY <3>1, <1>1, <1>2
  <2> QED BY <2>1, <2>2
<1> QED BY <1>1, <1>2, <1>3 DEF a

LEMMA RunAppend ==
  ASSUME NEW s \in Seq(Event), NEW e \in Event, NEW n \in Nat,
         e.seq = n + 1, RunTo(s, n)
  PROVE  /\ Append(s, e) \in Seq(Event)
         /\ Len(Append(s, e)) = Len(s) + 1
         /\ RunTo(Append(s, e), n + 1)
<1> DEFINE t == Append(s, e)
<1>1. /\ t \in Seq(Event) /\ Len(t) = Len(s) + 1
      /\ \A i \in 1 .. Len(s) : t[i] = s[i]
      /\ t[Len(s) + 1] = e
  BY AppendProperties
<1>2. Len(s) \in Nat /\ DOMAIN s = 1 .. Len(s) /\ DOMAIN t = 1 .. Len(t)
  BY <1>1, LenProperties
<1> HIDE DEF t
<1>3. ASSUME NEW i \in DOMAIN t PROVE t[i].seq = n + 1 - Len(t) + i
  <2>1. CASE i = Len(s) + 1
    BY <2>1, <1>1, <1>2
  <2>2. CASE i # Len(s) + 1
    <3>1. i \in 1 .. Len(s)
      BY <2>2, <1>1, <1>2
    <3> QED BY <3>1, <1>1, <1>2 DEF RunTo
  <2> QED BY <2>1, <2>2
<1> QED BY <1>1, <1>3 DEF t, RunTo

LEMMA RunSuffix ==
  ASSUME NEW s \in Seq(Event), NEW n \in Nat, NEW k \in 1 .. Len(s) + 1, RunTo(s, n)
  PROVE  LET t == SubSeq(s, k, Len(s))
         IN  /\ t \in Seq(Event)
             /\ Len(t) = Len(s) - k + 1
             /\ RunTo(t, n)
             /\ \A i \in DOMAIN t : k + i - 1 \in DOMAIN s /\ t[i] = s[k + i - 1]
<1> DEFINE t == SubSeq(s, k, Len(s))
<1>1. Len(s) \in Nat /\ DOMAIN s = 1 .. Len(s)
  BY LenProperties
<1>2. \A i \in k .. Len(s) : s[i] \in Event
  BY <1>1, ElementOfSeq
<1>3. /\ t \in Seq(Event)
      /\ Len(t) = IF k <= Len(s) THEN Len(s) - k + 1 ELSE 0
      /\ \A i \in 1 .. Len(s) - k + 1 : t[i] = s[k + i - 1]
  BY <1>1, <1>2, SubSeqProperties
<1>4. Len(t) = Len(s) - k + 1 /\ DOMAIN t = 1 .. Len(t)
  BY <1>1, <1>3, LenProperties
<1> HIDE DEF t
<1>5. \A i \in DOMAIN t : k + i - 1 \in DOMAIN s /\ t[i] = s[k + i - 1]
  BY <1>1, <1>3, <1>4
<1>6. RunTo(t, n)
  BY <1>1, <1>4, <1>5 DEF RunTo
<1> QED BY <1>3, <1>4, <1>5, <1>6 DEF t

\* replay_since returns the events that are numbered higher, and no others.
LEMMA ReplayIsFilter ==
  ASSUME NEW n \in Nat, TypeOK, BufferIsLatest
  PROVE  LET t == ReplaySince(n)
         IN  /\ t \in Seq(Event)
             /\ RunTo(t, seq)
             /\ \A i \in DOMAIN t : \E k \in DOMAIN buffer : t[i] = buffer[k]
             /\ n + Len(t) >= seq \/ Len(t) >= BufferSize
<1> DEFINE later == {i \in DOMAIN buffer : buffer[i].seq > n}
           first == IF later = {} THEN Len(buffer) + 1 ELSE Min(later)
<1>1. /\ Len(buffer) \in Nat /\ DOMAIN buffer = 1 .. Len(buffer) /\ seq \in Nat
      /\ BufferSize \in Nat \ {0} /\ buffer \in Seq(Event)
      /\ \A i \in DOMAIN buffer : buffer[i].seq = seq - Len(buffer) + i
  BY LenProperties, StreamAssumption DEF TypeOK, BufferIsLatest, RunTo
<1>2. /\ first \in 1 .. Len(buffer) + 1
      /\ first = 1 \/ n >= seq - Len(buffer) + first - 1
  <2>1. CASE later = {}
    BY <2>1, <1>1
  <2>2. CASE later # {}
    <3> DEFINE m == IF n < seq - Len(buffer) + 1 THEN 1 ELSE n - seq + Len(buffer) + 1
    <3>1. later = {i \in 1 .. Len(buffer) : seq - Len(buffer) + i > n}
      BY <1>1
    <3>2. PICK i \in 1 .. Len(buffer) : seq - Len(buffer) + i > n
      BY <2>2, <3>1
    <3>3. m \in 1 .. Len(buffer) /\ seq - Len(buffer) + m > n
      BY <3>2, <1>1
    <3>4. \A k \in later : k \in Nat /\ m <= k
      BY <3>1, <1>1
    <3>5. m \in later /\ m \in Nat
      BY <3>1, <3>3
    <3> HIDE DEF later, m
    <3>6. Min(later) = m
      BY <3>4, <3>5, LeastIsMin
    <3>7. first = m
      BY <2>2, <3>6
    <3>8. m \in 1 .. Len(buffer) + 1 /\ (m = 1 \/ n >= seq - Len(buffer) + m - 1)
      BY <3>3, <1>1 DEF m
    <3> HIDE DEF first
    <3> QED BY <3>7, <3>8
  <2> QED BY <2>1, <2>2
<1>3. first \in 1 .. Len(buffer) + 1
  BY <1>1, <1>2
<1> HIDE DEF first
<1>4. LET t == SubSeq(buffer, first, Len(buffer))
      IN  /\ t \in Seq(Event)
          /\ Len(t) = Len(buffer) - first + 1
          /\ RunTo(t, seq)
          /\ \A i \in DOMAIN t : first + i - 1 \in DOMAIN buffer /\ t[i] = buffer[first + i - 1]
  BY <1>1, <1>3, RunSuffix DEF BufferIsLatest
<1>5. Len(buffer) = BufferSize \/ Len(buffer) = seq
  BY DEF BufferIsLatest
<1> DEFINE t == SubSeq(buffer, first, Len(buffer))
<1>6. ReplaySince(n) = t
  BY DEF ReplaySince, first
<1>7. n + (Len(buffer) - first + 1) >= seq \/ Len(buffer) - first + 1 >= BufferSize
  <2> DEFINE l == Len(buffer)
  <2>1. l \in Nat /\ seq \in Nat /\ BufferSize \in Nat /\ first \in Nat
    BY <1>1, <1>3
  <2>2. first = 1 \/ n >= seq - l + first - 1
    BY <1>2
  <2>3. l = BufferSize \/ l = seq
    BY <1>5
  <2> HIDE DEF l
  <2>4. n + (l - first + 1) >= seq \/ l - first + 1 >= BufferSize
    BY <2>1, <2>2, <2>3
  <2> QED BY <2>4 DEF l
<1>8. \A i \in DOMAIN t : \E k \in DOMAIN buffer : t[i] = buffer[k]
  BY <1>4
<1> QED BY <1>4, <1>6, <1>7, <1>8

(* The steps *)

LEMMA Records ==
  /\ NewBatch \in Batch /\ NoLoad \in [stage : {"none", "row", "seq", "reply"}, row : Batch, seq : Nat]
  /\ \A b \in Batch : b.done \in Nat /\ b.done <= Total
  /\ \A e \in Event : e.done \in Nat /\ e.seq \in Nat
BY StreamAssumption DEF NewBatch, NoLoad, Batch, Event

LEMMA InitPage == Init => PageInv
<1> SUFFICES ASSUME Init PROVE PageInv
  OBVIOUS
<1>1. TypeOK
  BY Records, EmptyRun, StreamAssumption DEF Init, TypeOK
<1>2. StreamIsContiguous /\ NothingSkipped /\ OneLoad
  BY DEF Init, StreamIsContiguous, NothingSkipped, OneLoad
<1>3. BufferIsLatest /\ ViewIsCommitted
  BY EmptyRun DEF Init, BufferIsLatest, RunTo, ViewIsCommitted, NewBatch
<1>4. PublishedIsCommitted
  BY EmptyRun DEF Init, PublishedIsCommitted, Committed, SaidBy, NewBatch, NoLoad
<1> QED BY <1>1, <1>2, <1>3, <1>4 DEF PageInv, PageIsTrue

\* What has been said stays said while the batch goes on.
LEMMA SaidOn ==
  ASSUME NEW s \in Seq(Event), NEW b \in Batch, NEW c \in Batch, SaidBy(s, b),
         b.done <= c.done, b.state = "ended" => c.state = "ended"
  PROVE  SaidBy(s, c)
<1>1. ASSUME NEW i \in DOMAIN s PROVE s[i].done <= c.done /\ (s[i].state = "ended" => c.state = "ended")
  <2>1. s[i] \in Event
    BY LenProperties, ElementOfSeq
  <2> QED BY <2>1, Records DEF SaidBy
<1> QED BY <1>1 DEF SaidBy

\* An event is published of a row that is at least as far.
LEMMA PublishNext ==
  ASSUME PageInv, NEW b \in Batch, b.state # "absent", Committed(b), Publish(b),
         told.done <= b.done, told.state = "ended" => b.state = "ended"
  PROVE  PageInv'
<1> DEFINE e == [seq |-> seq + 1, done |-> b.done, state |-> b.state]
           all == Append(buffer, e)
           k == IF Len(all) > BufferSize THEN 2 ELSE 1
<1> USE DEF PageInv, PageIsTrue
<1>1. /\ seq \in Nat /\ buffer \in Seq(Event) /\ pending \in Seq(Event) /\ told \in Batch
      /\ BufferSize \in Nat \ {0} /\ Len(buffer) <= BufferSize
      /\ Len(buffer) \in Nat /\ Len(pending) \in Nat
  BY StreamAssumption, LenProperties DEF TypeOK
<1>2. e \in Event /\ e.seq = seq + 1 /\ e.done = b.done /\ e.state = b.state
  BY <1>1 DEF Event, Batch
<1> HIDE DEF e
<1>3. all \in Seq(Event) /\ Len(all) = Len(buffer) + 1 /\ RunTo(all, seq + 1)
  BY <1>1, <1>2, RunAppend DEF BufferIsLatest
<1>4. seq' = seq + 1 /\ told' = b /\ buffer' = SubSeq(all, k, Len(all))
  BY DEF Publish, e
<1>5. UNCHANGED <<row, conn, load, page, bounds>>
  BY DEF Publish
<1>6. SaidBy(all, b) /\ SaidBy(pending, b) /\ SaidBy(Append(pending, e), b)
  <2>1. SaidBy(buffer, b) /\ SaidBy(pending, b)
    BY <1>1, SaidOn DEF PublishedIsCommitted
  <2>2. ASSUME NEW s \in Seq(Event), SaidBy(s, b) PROVE SaidBy(Append(s, e), b)
    <3>1. \A i \in DOMAIN Append(s, e) :
            Append(s, e)[i] = e \/ (i \in DOMAIN s /\ Append(s, e)[i] = s[i])
      BY <1>2, AppendElements
    <3> QED BY <3>1, <2>2, <1>2, Records DEF SaidBy
  <2> QED BY <2>1, <2>2, <1>1
<1> DEFINE t == SubSeq(all, k, Len(all))
<1>7. /\ t \in Seq(Event) /\ Len(t) = Len(all) - k + 1 /\ RunTo(t, seq + 1)
      /\ \A i \in DOMAIN t : k + i - 1 \in DOMAIN all /\ t[i] = all[k + i - 1]
  <2>1. k \in 1 .. Len(all) + 1 /\ seq + 1 \in Nat
    BY <1>1, <1>3
  <2> QED BY <2>1, <1>3, RunSuffix
<1> HIDE DEF all, t
<1>8. BufferIsLatest' /\ buffer' \in Seq(Event) /\ Len(buffer') <= BufferSize
  <2>1. Len(t) = BufferSize \/ Len(t) = seq + 1
    BY <1>1, <1>3, <1>7 DEF BufferIsLatest
  <2>2. Len(t) <= BufferSize
    BY <1>1, <1>3, <1>7
  <2> QED BY <2>1, <2>2, <1>4, <1>7 DEF BufferIsLatest, t
<1>9. SaidBy(t, b)
  BY <1>6, <1>7 DEF SaidBy
<1>10. Append(pending, e) \in Seq(Event) /\ Len(Append(pending, e)) = Len(pending) + 1
  BY <1>1, <1>2, AppendProperties
<1>11. pending' = IF conn = "open" THEN Append(pending, e) ELSE pending
  BY DEF Publish, e
<1>12. TypeOK'
  BY <1>1, <1>4, <1>5, <1>8, <1>10, <1>11 DEF TypeOK, page, bounds
<1>13. StreamIsContiguous' /\ NothingSkipped'
  <2> SUFFICES ASSUME conn' = "open" PROVE StreamIsContiguous' /\ NothingSkipped'
    BY DEF StreamIsContiguous, NothingSkipped
  <2>1. RunTo(pending, seq)
    BY <1>5 DEF StreamIsContiguous, RunTo
  <2>2. RunTo(pending', seq')
    BY <2>1, <1>1, <1>2, <1>4, <1>5, <1>11, RunAppend
  <2>3. seqRef \in Nat /\ seqRef' = seqRef /\ Len(pending') = Len(pending) + 1
    BY <1>5, <1>10, <1>11 DEF TypeOK, page
  <2>4. NothingSkipped'
    BY <2>3, <1>1, <1>4, <1>5 DEF NothingSkipped, LoadedOnce, bounds
  <2> QED BY <2>2, <2>4 DEF StreamIsContiguous, RunTo
<1>14. PublishedIsCommitted'
  BY <1>4, <1>5, <1>6, <1>9, <1>11 DEF PublishedIsCommitted, Committed, t
<1>15. ViewIsCommitted' /\ OneLoad'
  BY <1>5 DEF ViewIsCommitted, OneLoad, LoadedOnce, page, bounds
<1> QED BY <1>8, <1>12, <1>13, <1>14, <1>15

LEMMA CommitNext == PageInv /\ (CommitProgress \/ CommitEnd \/ Delete) => PageInv'
<1> SUFFICES ASSUME PageInv, CommitProgress \/ CommitEnd \/ Delete PROVE PageInv'
  OBVIOUS
<1> USE DEF PageInv, PageIsTrue
<1>1. /\ row' \in Batch /\ row.done <= row'.done /\ row.done \in Nat /\ row'.done \in Nat
      /\ row'.state = "active" => row.state = "active"
  <2>1. row \in Batch /\ row.done \in Nat /\ Total \in Nat
    BY Records, StreamAssumption DEF TypeOK
  <2>2. CASE CommitProgress
    BY <2>1, <2>2 DEF CommitProgress, Batch
  <2>3. CASE CommitEnd
    BY <2>1, <2>3 DEF CommitEnd, Batch
  <2>4. CASE Delete
    BY <2>1, <2>4 DEF Delete, Batch
  <2> QED BY <2>2, <2>3, <2>4
<1>2. UNCHANGED <<told, seq, buffer, conn, pending, load, page, bounds>>
  BY DEF CommitProgress, CommitEnd, Delete
<1>3. TypeOK'
  BY <1>1, <1>2 DEF TypeOK, page, bounds
<1>4. /\ told.done \in Nat /\ load.row.done \in Nat /\ view.done \in Nat
  BY Records DEF TypeOK
<1>5. PublishedIsCommitted' /\ ViewIsCommitted'
  BY <1>1, <1>2, <1>4 DEF PublishedIsCommitted, Committed, SaidBy, ViewIsCommitted, page
<1>6. StreamIsContiguous' /\ NothingSkipped' /\ BufferIsLatest' /\ OneLoad'
  BY <1>2 DEF StreamIsContiguous, NothingSkipped, BufferIsLatest, RunTo, OneLoad, LoadedOnce,
              page, bounds
<1> QED BY <1>3, <1>5, <1>6

LEMMA RestartNext == PageInv /\ Restart => PageInv'
<1> SUFFICES ASSUME PageInv, Restart PROVE PageInv'
  OBVIOUS
<1> USE DEF PageInv, PageIsTrue
<1>1. /\ row' \in Batch /\ row'.done = row.done /\ row'.state # "active"
      /\ told' = [done |-> row.done, state |-> "ended"] /\ told' \in Batch
  BY DEF Restart, TypeOK, Batch
<1>2. /\ seq' = 0 /\ buffer' = <<>> /\ pending' = <<>> /\ load' = NoLoad
      /\ UNCHANGED <<seqRef, view, cuts, reloads>>
      /\ conn' \in {"idle", "connecting", "stopped"}
      /\ restarts < MaxRestarts /\ restarts' = restarts + 1
  BY DEF Restart, page, TypeOK
<1>3. restarts' \in 0 .. MaxRestarts /\ restarts' # 0
  BY <1>2, StreamAssumption DEF TypeOK
<1>4. TypeOK'
  BY <1>1, <1>2, <1>3, EmptyRun, Records, StreamAssumption DEF TypeOK
<1>5. StreamIsContiguous' /\ NothingSkipped' /\ OneLoad'
  BY <1>2, <1>3 DEF StreamIsContiguous, NothingSkipped, OneLoad, LoadedOnce
<1>6. BufferIsLatest'
  BY <1>2, EmptyRun DEF BufferIsLatest, RunTo
<1>7. PublishedIsCommitted'
  <2>1. row.done \in Nat
    BY Records DEF TypeOK
  <2> QED BY <1>1, <1>2, <2>1, EmptyRun
          DEF PublishedIsCommitted, Committed, SaidBy, NoLoad, NewBatch
<1>8. ViewIsCommitted'
  BY <1>1, <1>2 DEF ViewIsCommitted
<1> QED BY <1>4, <1>5, <1>6, <1>7, <1>8

LEMMA LoadNext == PageInv /\ (BeginLoad \/ Read) => PageInv'
<1> SUFFICES ASSUME PageInv, BeginLoad \/ Read PROVE PageInv'
  OBVIOUS
<1> USE DEF PageInv, PageIsTrue
<1>1. UNCHANGED <<server, pending, cuts, restarts>>
  BY DEF BeginLoad, Read, ReadRow, ReadSeq, Loaded, bounds
<1>2. row.done \in Nat /\ seq \in Nat /\ reloads \in Nat
  BY Records DEF TypeOK
<1>3. /\ load' \in [stage : {"none", "row", "seq", "reply"}, row : Batch, seq : Nat]
      /\ Committed(load'.row)
      /\ reloads' \in 0 .. MaxReloads
      /\ reloads' = reloads \/ (conn # "idle" /\ reloads' # 0)
  <2>1. CASE BeginLoad
    <3>1. /\ load' \in [stage : {"none", "row", "seq", "reply"}, row : Batch, seq : Nat]
          /\ load'.row = NewBatch
      BY <2>1, Records DEF BeginLoad, NoLoad
    <3>2. Committed(NewBatch)
      BY <1>2 DEF Committed, NewBatch
    <3>3. /\ reloads' \in 0 .. MaxReloads
          /\ reloads' = reloads \/ (conn # "idle" /\ reloads' # 0)
      BY <2>1, <1>2, StreamAssumption DEF BeginLoad, TypeOK
    <3>4. Committed(load'.row)
      BY <3>1, <3>2 DEF Committed
    <3> QED BY <3>1, <3>3, <3>4
  <2>2. CASE ReadRow
    <3>1. /\ load' \in [stage : {"none", "row", "seq", "reply"}, row : Batch, seq : Nat]
          /\ load'.row = NewBatch \/ load'.row = row
      BY <2>2, Records DEF ReadRow, NoLoad, TypeOK
    <3>2. Committed(NewBatch) /\ Committed(row)
      BY <1>2 DEF Committed, NewBatch
    <3>3. reloads' = reloads
      BY <2>2 DEF ReadRow, bounds
    <3> QED BY <3>1, <3>2, <3>3 DEF TypeOK
  <2>3. CASE ReadSeq
    BY <2>3 DEF ReadSeq, TypeOK, Committed, PublishedIsCommitted, bounds
  <2>4. CASE Loaded
    BY <2>4, <1>2, Records DEF Loaded, TypeOK, NoLoad, NewBatch, Committed, bounds
  <2> QED BY <2>1, <2>2, <2>3, <2>4 DEF Read
<1>4. \/ UNCHANGED <<seqRef, view, conn>>
      \/ /\ seqRef' = load.seq /\ view' = load.row /\ load' = NoLoad /\ load.stage = "reply"
         /\ conn' = IF conn = "idle" THEN "connecting" ELSE conn
         /\ UNCHANGED reloads
  BY DEF BeginLoad, Read, ReadRow, ReadSeq, Loaded, page, bounds
<1>5. TypeOK'
  BY <1>1, <1>3, <1>4 DEF TypeOK, server
<1>6. StreamIsContiguous' /\ BufferIsLatest' /\ PublishedIsCommitted'
  BY <1>1, <1>3, <1>4
     DEF StreamIsContiguous, BufferIsLatest, RunTo, PublishedIsCommitted, Committed, SaidBy, server
<1>7. ViewIsCommitted'
  BY <1>1, <1>4 DEF ViewIsCommitted, PublishedIsCommitted, Committed, server
<1>8. OneLoad'
  <2> SUFFICES ASSUME conn' # "idle", LoadedOnce' PROVE load'.stage = "none"
    BY DEF OneLoad
  <2>1. LoadedOnce
    BY <1>1, <1>2, <1>3 DEF LoadedOnce
  <2>2. CASE load.stage = "none"
    BY <2>1, <2>2, <1>3, <1>4 DEF BeginLoad, Read, ReadRow, ReadSeq, Loaded, LoadedOnce
  <2>3. CASE load.stage # "none"
    BY <2>1, <2>3, <1>4 DEF OneLoad, BeginLoad, Read, ReadRow, ReadSeq, Loaded, NoLoad
  <2> QED BY <2>2, <2>3
<1>9. NothingSkipped'
  <2> SUFFICES ASSUME conn' = "open", LoadedOnce'
               PROVE  seqRef' + Len(pending') >= seq' \/ Len(pending') >= BufferSize
    BY DEF NothingSkipped
  <2>1. conn = "open" /\ LoadedOnce
    BY <1>1, <1>3, <1>4 DEF LoadedOnce
  <2>2. seqRef' = seqRef
    BY <2>1, <1>4 DEF OneLoad
  <2> QED BY <2>1, <2>2, <1>1 DEF NothingSkipped, server
<1> QED BY <1>5, <1>6, <1>7, <1>8, <1>9

LEMMA ConnectNext == PageInv /\ (Connect \/ Cut) => PageInv'
<1> SUFFICES ASSUME PageInv, Connect \/ Cut PROVE PageInv'
  OBVIOUS
<1> USE DEF PageInv, PageIsTrue
<1>1. /\ ReplaySince(seqRef) \in Seq(Event) /\ RunTo(ReplaySince(seqRef), seq)
      /\ \A i \in DOMAIN ReplaySince(seqRef) :
           \E k \in DOMAIN buffer : ReplaySince(seqRef)[i] = buffer[k]
      /\ \/ seqRef + Len(ReplaySince(seqRef)) >= seq
         \/ Len(ReplaySince(seqRef)) >= BufferSize
  BY ReplayIsFilter DEF TypeOK
<1>2. UNCHANGED <<server, load, page, reloads, restarts>>
  BY DEF Connect, Cut, bounds
<1>3. \/ conn = "connecting" /\ conn' = "open" /\ pending' = ReplaySince(seqRef)
      \/ conn = "open" /\ conn' = "connecting" /\ pending' = <<>>
  BY DEF Connect, Cut
<1>4. cuts' \in 0 .. MaxCuts
  BY StreamAssumption DEF Connect, Cut, bounds, TypeOK
<1>5. SaidBy(pending', told)
  BY <1>1, <1>3, EmptyRun DEF SaidBy, PublishedIsCommitted
<1>6. TypeOK'
  BY <1>1, <1>2, <1>3, <1>4, EmptyRun DEF TypeOK, server, page
<1>7. StreamIsContiguous' /\ NothingSkipped'
  BY <1>1, <1>2, <1>3 DEF StreamIsContiguous, NothingSkipped, RunTo, server, page
<1>8. BufferIsLatest' /\ ViewIsCommitted' /\ OneLoad'
  BY <1>2, <1>3 DEF BufferIsLatest, RunTo, ViewIsCommitted, OneLoad, LoadedOnce, server, page
<1>9. PublishedIsCommitted'
  BY <1>2, <1>5 DEF PublishedIsCommitted, Committed, SaidBy, server
<1> QED BY <1>6, <1>7, <1>8, <1>9

LEMMA ReceiveNext == PageInv /\ Receive => PageInv'
<1> SUFFICES ASSUME PageInv, Receive PROVE PageInv'
  OBVIOUS
<1> USE DEF PageInv, PageIsTrue
<1> DEFINE e == Head(pending)
           t == Tail(pending)
<1>1. /\ pending \in Seq(Event) /\ pending # <<>> /\ conn = "open" /\ seq \in Nat
      /\ seqRef \in Nat /\ BufferSize \in Nat
  BY StreamAssumption DEF Receive, TypeOK
<1>2. Len(pending) \in Nat /\ 1 <= Len(pending) /\ DOMAIN pending = 1 .. Len(pending)
  BY <1>1, EmptySeq, LenProperties
<1>3. e = pending[1] /\ e \in Event
  BY <1>1, HeadTailProperties
<1>4. /\ t \in Seq(Event) /\ Len(t) = Len(pending) - 1 /\ RunTo(t, seq)
      /\ \A i \in DOMAIN t : \E k \in DOMAIN pending : t[i] = pending[k]
  <2>1. t = SubSeq(pending, 2, Len(pending))
    BY <1>1, TailIsSubSeq
  <2>2. RunTo(pending, seq)
    BY <1>1 DEF StreamIsContiguous, RunTo
  <2>3. 2 \in 1 .. Len(pending) + 1
    BY <1>2
  <2>4. /\ t \in Seq(Event) /\ Len(t) = Len(pending) - 2 + 1 /\ RunTo(t, seq)
        /\ \A i \in DOMAIN t : 2 + i - 1 \in DOMAIN pending /\ t[i] = pending[2 + i - 1]
    <3> DEFINE u == SubSeq(pending, 2, Len(pending))
    <3>1. /\ u \in Seq(Event) /\ Len(u) = Len(pending) - 2 + 1 /\ RunTo(u, seq)
          /\ \A i \in DOMAIN u : 2 + i - 1 \in DOMAIN pending /\ u[i] = pending[2 + i - 1]
      BY <1>1, <2>2, <2>3, RunSuffix
    <3> HIDE DEF u, t
    <3>2. t = u
      BY <2>1 DEF u
    <3> QED BY <3>1, <3>2
  <2> HIDE DEF t
  <2>5. Len(t) = Len(pending) - 1
    BY <1>2, <2>4
  <2> QED BY <2>4, <2>5
<1>5. e.seq = seq - Len(pending) + 1 /\ e.done <= told.done /\ (e.state = "ended" => told.state = "ended")
  BY <1>1, <1>2, <1>3 DEF StreamIsContiguous, PublishedIsCommitted, SaidBy
<1>6. pending' = t /\ UNCHANGED <<server, load, bounds>>
  BY DEF Receive
<1> HIDE DEF e, t
<1>7. \/ e.seq <= seqRef /\ UNCHANGED page /\ conn' \in {"open", "connecting"}
      \/ /\ seqRef' = e.seq /\ view' = Applied(e) /\ conn' \in {"open", "stopped"}
  BY <1>1 DEF Receive, e
<1>8. e.done \in Nat /\ e.seq \in Nat /\ told.done \in Nat /\ row.done \in Nat
  BY <1>3, Records DEF TypeOK
<1>9. view' \in Batch /\ seqRef' \in Nat
  BY <1>3, <1>7, <1>8 DEF TypeOK, page, Applied, Batch, Event
<1>10. TypeOK'
  BY <1>4, <1>6, <1>7, <1>9 DEF TypeOK, server, bounds
<1>11. ViewIsCommitted'
  <2>1. CASE UNCHANGED page
    BY <2>1, <1>6 DEF ViewIsCommitted, page, server
  <2>2. CASE view' = Applied(e)
    <3>1. view'.done = e.done /\ (view'.state = "ended" => view.state = "ended" \/ e.state = "ended")
      BY <2>2 DEF Applied, TypeOK, Batch
    <3>2. e.done <= row.done /\ (e.state = "ended" => row.state # "active")
      BY <1>5, <1>8 DEF PublishedIsCommitted, Committed
    <3> QED BY <3>1, <3>2, <1>6 DEF ViewIsCommitted, server
  <2> QED BY <2>1, <2>2, <1>7
<1>12. StreamIsContiguous'
  BY <1>4, <1>6 DEF StreamIsContiguous, RunTo, server
<1>13. NothingSkipped'
  <2> SUFFICES ASSUME LoadedOnce' PROVE seqRef' + Len(pending') >= seq'
    BY DEF NothingSkipped
  <2>1. Len(pending') = Len(pending) - 1 /\ seq' = seq
    BY <1>4, <1>6 DEF server
  <2>2. seqRef' \in Nat /\ seqRef' >= seq - Len(pending) + 1
    BY <1>1, <1>5, <1>7, <1>8, <1>2 DEF page
  <2> QED BY <2>1, <2>2, <1>1, <1>2
<1>14. BufferIsLatest' /\ OneLoad'
  BY <1>1, <1>6 DEF BufferIsLatest, RunTo, OneLoad, LoadedOnce, server, bounds
<1>15. PublishedIsCommitted'
  BY <1>4, <1>6 DEF PublishedIsCommitted, Committed, SaidBy, server
<1> QED BY <1>10, <1>11, <1>12, <1>13, <1>14, <1>15

LEMMA NextPage == PageInv /\ [Next]_vars => PageInv'
<1> SUFFICES ASSUME PageInv, [Next]_vars PROVE PageInv'
  OBVIOUS
<1>1. CASE PublishProgress
  <2> DEFINE b == [told EXCEPT !.done = row.done]
  <2>1. /\ b \in Batch /\ b.done = row.done /\ b.state = told.state
        /\ told.done <= row.done /\ row.done \in Nat
    BY Records DEF PageInv, PageIsTrue, TypeOK, Batch, PublishedIsCommitted, Committed
  <2>2. b.state # "absent" /\ Committed(b)
    BY <2>1 DEF PageInv, PublishedIsCommitted, Committed
  <2> QED BY <1>1, <2>1, <2>2, PublishNext DEF PublishProgress
<1>2. CASE PublishEnd
  <2> DEFINE b == [told EXCEPT !.state = "ended"]
  <2>1. /\ b \in Batch /\ b.done = told.done /\ b.state = "ended"
        /\ told.done \in Nat /\ told.done <= row.done
    BY Records DEF PageInv, PageIsTrue, TypeOK, Batch, PublishedIsCommitted, Committed
  <2>2. Committed(b)
    BY <1>2, <2>1 DEF PublishEnd, Committed
  <2>3. Publish(b) /\ told.done <= b.done /\ b.state # "absent"
    BY <1>2, <2>1 DEF PublishEnd
  <2> HIDE DEF b
  <2> QED BY <2>1, <2>2, <2>3, PublishNext
<1>3. CASE UNCHANGED vars
  BY <1>3 DEF PageInv, PageIsTrue, TypeOK, StreamIsContiguous, NothingSkipped, ViewIsCommitted,
              BufferIsLatest, RunTo, PublishedIsCommitted, Committed, SaidBy, OneLoad, LoadedOnce,
              vars, server, page, bounds
<1> QED BY <1>1, <1>2, <1>3, CommitNext, RestartNext, LoadNext, ConnectNext, ReceiveNext
        DEF Next, Write, Follow

\* The steps beside the page leave it alone.
LEMMA PageSteps == [RecoveryNext]_recoveryVars => [Next]_vars
BY DEF RecoveryNext, PageStep, CareStep, OfPage, OfCare, recoveryVars

\* What the page shows, and what is on its way to it, is what was committed
\* (bus.py, the stream endpoints and useBatchStream.ts): PageIsTrue.
THEOREM PageTrue == RecoverySpec => []PageIsTrue
<1>1. PageInv => PageIsTrue
  BY DEF PageInv
<1>2. RecoveryInit => Init
  BY DEF RecoveryInit
<1> QED BY <1>1, <1>2, InitPage, NextPage, PageSteps, PTL DEF RecoverySpec

-----------------------------------------------------------------------------
(* What is sent is in order, and the page is never ahead of what is to come *)

Sent == {buffer[i] : i \in DOMAIN buffer} \cup {pending[i] : i \in DOMAIN pending}

\* A later event says at least as much, and so does each that the page, or a
\* load that is about to be shown, has not seen.
InOrder ==
  \A e \in Sent :
    /\ e.seq <= seq
    /\ \A f \in Sent : e.seq < f.seq => e.done <= f.done
    /\ e.seq > seqRef => view.done <= e.done
    /\ load.stage = "reply" /\ e.seq > load.seq => load.row.done <= e.done

\* A batch ends when all of its progress is told.
EndIsLast == row.state # "active" => told.done = row.done

\* A connected page does not load, unless it is made to.
QuietOnceConnected == conn # "idle" /\ reloads = 0 => load.stage = "none"

SeenInv == PageInv /\ InOrder /\ EndIsLast /\ QuietOnceConnected

LEMMA SentTypes ==
  ASSUME TypeOK
  PROVE  /\ \A e \in Sent : e \in Event /\ e.seq \in Nat /\ e.done \in Nat
         /\ seq \in Nat /\ seqRef \in Nat /\ view.done \in Nat /\ told.done \in Nat
         /\ row.done \in Nat /\ load.row.done \in Nat /\ load.seq \in Nat
<1>1. buffer \in Seq(Event) /\ pending \in Seq(Event)
  BY DEF TypeOK
<1>2. \A e \in Sent : e \in Event
  BY <1>1, LenProperties, ElementOfSeq DEF Sent
<1> QED BY <1>2, Records DEF TypeOK

LEMMA HeadSent == TypeOK /\ pending # <<>> => Head(pending) \in Sent
<1> SUFFICES ASSUME TypeOK, pending # <<>> PROVE Head(pending) \in Sent
  OBVIOUS
<1>1. pending \in Seq(Event)
  BY DEF TypeOK
<1>2. /\ Len(pending) \in Nat \ {0} /\ DOMAIN pending = 1 .. Len(pending)
      /\ Head(pending) = pending[1]
  BY <1>1, EmptySeq, LenProperties, HeadTailProperties
<1>3. 1 \in DOMAIN pending
  BY <1>2
<1> QED BY <1>2, <1>3 DEF Sent

LEMMA InitSeen == Init => SeenInv
<1> SUFFICES ASSUME Init PROVE SeenInv
  OBVIOUS
<1>1. Sent = {}
  BY EmptyRun DEF Init, Sent
<1> QED BY <1>1, InitPage DEF Init, SeenInv, InOrder, EndIsLast, QuietOnceConnected, NewBatch

\* Only publishing adds to what is sent.
LEMMA PublishSent ==
  ASSUME TypeOK, NEW b \in Batch, b.state # "absent", Publish(b)
  PROVE  \A f \in Sent' : f \in Sent \/ (f.seq = seq + 1 /\ f.done = b.done)
<1> DEFINE e == [seq |-> seq + 1, done |-> b.done, state |-> b.state]
           all == Append(buffer, e)
           k == IF Len(all) > BufferSize THEN 2 ELSE 1
           t == SubSeq(all, k, Len(all))
           u == Append(pending, e)
<1>1. buffer \in Seq(Event) /\ pending \in Seq(Event) /\ seq \in Nat
  BY DEF TypeOK
<1>2. e \in Event /\ e.seq = seq + 1 /\ e.done = b.done
  BY <1>1 DEF Event, Batch
<1>3. buffer' = t /\ (pending' = u \/ pending' = pending)
  BY DEF Publish
<1> HIDE DEF e
<1>4. ASSUME NEW s \in Seq(Event)
      PROVE  /\ Append(s, e) \in Seq(Event) /\ Len(Append(s, e)) \in Nat \ {0}
             /\ DOMAIN Append(s, e) = 1 .. Len(Append(s, e))
             /\ \A i \in DOMAIN Append(s, e) :
                  Append(s, e)[i] = e \/ (i \in DOMAIN s /\ Append(s, e)[i] = s[i])
  BY <1>2, AppendElements
<1>5. all \in Seq(Event) /\ Len(all) \in Nat \ {0} /\ DOMAIN all = 1 .. Len(all)
  BY <1>1, <1>4
<1>6. \A i \in DOMAIN t : \E j \in DOMAIN all : t[i] = all[j]
  <2> HIDE DEF all
  <2>1. \A i \in k .. Len(all) : all[i] \in Event
    BY <1>5, ElementOfSeq
  <2>2. /\ t \in Seq(Event)
        /\ Len(t) = IF k <= Len(all) THEN Len(all) - k + 1 ELSE 0
        /\ \A i \in 1 .. Len(all) - k + 1 : t[i] = all[k + i - 1]
    BY <1>5, <2>1, SubSeqProperties
  <2>3. DOMAIN t = 1 .. Len(t)
    BY <2>2, LenProperties
  <2>4. \A i \in DOMAIN t : k + i - 1 \in DOMAIN all /\ t[i] = all[k + i - 1]
    BY <1>5, <2>2, <2>3
  <2> QED BY <2>4
<1>7. \A i \in DOMAIN t : t[i] = e \/ t[i] \in Sent
  BY <1>1, <1>4, <1>6 DEF Sent
<1>8. \A i \in DOMAIN u : u[i] = e \/ u[i] \in Sent
  BY <1>1, <1>4 DEF Sent
<1> HIDE DEF t, u
<1>9. \A f \in Sent' : f = e \/ f \in Sent
  BY <1>3, <1>7, <1>8 DEF Sent
<1> QED BY <1>2, <1>9

LEMMA OthersSent ==
  ASSUME PageInv, [Next]_vars, ~PublishProgress, ~PublishEnd
  PROVE  Sent' \subseteq Sent
<1>1. pending \in Seq(Event) /\ seqRef \in Nat
  BY DEF PageInv, PageIsTrue, TypeOK
<1>2. CASE Connect
  <2>1. \A i \in DOMAIN ReplaySince(seqRef) :
          \E k \in DOMAIN buffer : ReplaySince(seqRef)[i] = buffer[k]
    BY <1>1, ReplayIsFilter DEF PageInv, PageIsTrue
  <2> QED BY <1>2, <2>1 DEF Connect, Sent, server
<1>3. CASE Receive
  <2> DEFINE t == Tail(pending)
  <2>1. pending # <<>> /\ pending' = t /\ buffer' = buffer
    BY <1>3 DEF Receive, server
  <2>2. t \in Seq(Event) /\ Len(t) = Len(pending) - 1 /\ \A i \in 1 .. Len(t) : t[i] = pending[i + 1]
    BY <1>1, <2>1, HeadTailProperties
  <2>3. Len(pending) \in Nat /\ DOMAIN pending = 1 .. Len(pending) /\ DOMAIN t = 1 .. Len(t)
    BY <1>1, <2>2, LenProperties
  <2> HIDE DEF t
  <2>4. \A i \in DOMAIN t : i + 1 \in DOMAIN pending /\ t[i] = pending[i + 1]
    BY <2>2, <2>3
  <2> QED BY <2>1, <2>4 DEF Sent
<1>4. CASE Restart \/ Cut
  BY <1>4, EmptyRun DEF Restart, Cut, Sent, server
<1>5. CASE UNCHANGED <<buffer, pending>>
  BY <1>5 DEF Sent
<1> QED BY <1>2, <1>3, <1>4, <1>5
        DEF Next, Write, Read, Follow, CommitProgress, CommitEnd, Delete, BeginLoad, ReadRow,
            ReadSeq, Loaded, vars, server

LEMMA InOrderNext == SeenInv /\ [Next]_vars => InOrder'
<1> SUFFICES ASSUME SeenInv, [Next]_vars PROVE InOrder'
  OBVIOUS
<1>1. TypeOK /\ TypeOK' /\ PageInv /\ PageInv' /\ InOrder
  BY NextPage DEF SeenInv, PageInv, PageIsTrue
<1>2. /\ \A e \in Sent : e \in Event /\ e.seq \in Nat /\ e.done \in Nat
      /\ seq \in Nat /\ seqRef \in Nat /\ view.done \in Nat /\ told.done \in Nat
      /\ row.done \in Nat /\ load.row.done \in Nat /\ load.seq \in Nat
  BY <1>1, SentTypes
<1>3. \A e \in Sent : e.done <= told.done
  BY <1>1 DEF Sent, PageInv, PublishedIsCommitted, SaidBy
<1>4. ASSUME NEW b \in Batch, b.state # "absent", Publish(b), b.done = row.done PROVE InOrder'
  <2>1. \A f \in Sent' : f \in Sent \/ (f.seq = seq + 1 /\ f.done = b.done)
    BY <1>1, <1>4, PublishSent
  <2>2. seq' = seq + 1 /\ UNCHANGED <<load, seqRef, view>>
    BY <1>4 DEF Publish, page
  <2>3. told.done <= row.done /\ view.done <= row.done /\ load.row.done <= row.done
    BY <1>1 DEF PageInv, PageIsTrue, PublishedIsCommitted, Committed, ViewIsCommitted
  <2>4. \A e \in Sent : e.seq <= seq /\ e.done <= row.done
    BY <1>1, <1>2, <1>3, <2>3 DEF InOrder
  <2> QED BY <1>1, <1>2, <1>4, <2>1, <2>2, <2>3, <2>4 DEF InOrder
<1>5. CASE PublishProgress
  <2> DEFINE b == [told EXCEPT !.done = row.done]
  <2>1. b \in Batch /\ b.done = row.done /\ b.state # "absent"
    BY <1>1 DEF PageInv, TypeOK, Batch, PublishedIsCommitted
  <2>2. Publish(b)
    BY <1>5 DEF PublishProgress
  <2> HIDE DEF b
  <2> QED BY <2>1, <2>2, <1>4
<1>6. CASE PublishEnd
  <2> DEFINE b == [told EXCEPT !.state = "ended"]
  <2>1. b \in Batch /\ b.done = told.done /\ b.state # "absent"
    BY <1>1 DEF TypeOK, Batch
  <2>2. Publish(b) /\ told.done = row.done
    BY <1>6 DEF PublishEnd, SeenInv, EndIsLast
  <2> HIDE DEF b
  <2> QED BY <2>1, <2>2, <1>4
<1>7. ASSUME ~PublishProgress, ~PublishEnd PROVE InOrder'
  <2>1. Sent' \subseteq Sent
    BY <1>1, <1>7, OthersSent
  <2>2. CASE Receive
    <3> DEFINE h == Head(pending)
    <3>1. h \in Sent
      BY <1>1, <2>2, HeadSent DEF Receive
    <3>2. seq' = seq /\ load' = load
      BY <2>2 DEF Receive, server
    <3>3. UNCHANGED page \/ (seqRef' = h.seq /\ view' = Applied(h))
      BY <2>2 DEF Receive
    <3>4. view \in Batch
      BY <1>1 DEF TypeOK
    <3> HIDE DEF h
    <3>5. (seqRef' = seqRef /\ view' = view) \/ (seqRef' = h.seq /\ view'.done = h.done)
      BY <3>3, <3>4 DEF Applied, Batch, page
    <3> QED BY <1>1, <2>1, <3>1, <3>2, <3>5 DEF InOrder
  <2>3. CASE ReadSeq
    BY <1>1, <1>2, <2>1, <2>3 DEF ReadSeq, InOrder, server, page
  <2>4. CASE Loaded
    BY <1>1, <2>1, <2>4 DEF Loaded, InOrder, server, NoLoad
  <2>5. CASE Restart
    <3>1. Sent' = {}
      BY <2>5, EmptyRun DEF Restart, Sent
    <3> QED BY <3>1 DEF InOrder
  <2>6. CASE BeginLoad \/ ReadRow
    <3>1. load'.stage # "reply" /\ UNCHANGED <<seq, seqRef, view>>
      <4>1. CASE BeginLoad
        BY <4>1 DEF BeginLoad, server, page, NoLoad
      <4>2. CASE ReadRow
        BY <1>1, <4>2 DEF ReadRow, server, page, NoLoad, TypeOK
      <4> QED BY <2>6, <4>1, <4>2
    <3> QED BY <1>1, <2>1, <3>1 DEF InOrder
  <2>7. CASE UNCHANGED <<seq, seqRef, view, load>>
    BY <1>1, <2>1, <2>7 DEF InOrder
  <2> QED BY <1>7, <2>2, <2>3, <2>4, <2>5, <2>6, <2>7
          DEF Next, Write, Read, Follow, CommitProgress, CommitEnd, Delete, Connect, Cut, vars,
              server, page
<1> QED BY <1>5, <1>6, <1>7

LEMMA NextSeen == SeenInv /\ [Next]_vars => SeenInv'
<1> SUFFICES ASSUME SeenInv, [Next]_vars PROVE SeenInv'
  OBVIOUS
<1>1. PageInv /\ PageInv' /\ InOrder' /\ TypeOK
  BY NextPage, InOrderNext DEF SeenInv, PageInv, PageIsTrue
<1>2. EndIsLast'
  <2> USE DEF EndIsLast, SeenInv
  <2>1. row \in Batch /\ told \in Batch /\ told.done \in Nat /\ row.done \in Nat
    BY <1>1, SentTypes DEF TypeOK
  <2>2. CASE Write \/ Delete \/ Restart
    <3>1. CASE CommitProgress \/ CommitEnd \/ Delete
      BY <3>1, <2>1 DEF CommitProgress, CommitEnd, Delete, Batch
    <3>2. CASE PublishProgress
      BY <3>2, <2>1 DEF PublishProgress, Publish, Batch
    <3>3. CASE PublishEnd
      BY <3>3, <2>1 DEF PublishEnd, Publish, Batch
    <3>4. CASE Restart
      BY <3>4, <2>1 DEF Restart, Batch
    <3> QED BY <2>2, <3>1, <3>2, <3>3, <3>4 DEF Write
  <2>3. CASE UNCHANGED <<row, told>>
    BY <2>3
  <2> QED BY <2>2, <2>3
          DEF Next, Read, Follow, BeginLoad, ReadRow, ReadSeq, Loaded, Connect, Receive, Cut,
              vars, server
<1>3. QuietOnceConnected'
  <2> USE DEF QuietOnceConnected, SeenInv
  <2>1. reloads \in Nat
    BY <1>1 DEF TypeOK
  <2>2. CASE BeginLoad
    BY <2>1, <2>2 DEF BeginLoad
  <2>3. CASE Read
    BY <2>3 DEF Read, ReadRow, ReadSeq, Loaded, NoLoad, bounds
  <2>4. CASE Restart
    BY <2>4 DEF Restart, NoLoad
  <2>5. CASE Connect \/ Receive \/ Cut
    BY <2>5 DEF Connect, Receive, Cut, bounds
  <2>6. CASE UNCHANGED <<conn, reloads, load>>
    BY <2>6
  <2> QED BY <2>2, <2>3, <2>4, <2>5, <2>6
          DEF Next, Write, Follow, Delete, CommitProgress, CommitEnd, PublishProgress, PublishEnd,
              Publish, vars, bounds
<1> QED BY <1>1, <1>2, <1>3 DEF SeenInv

\* What a page that loads once shows never goes back, whatever is cut,
\* overwritten or killed (useBatchStream.ts): ViewNeverBack.
THEOREM NeverBack == RecoverySpec => ViewNeverBack
<1>1. SeenInv /\ [Next]_vars =>
        [conn # "idle" /\ reloads = 0 =>
           /\ view'.done >= view.done
           /\ view.state = "ended" => view'.state = "ended"]_vars
  <2> SUFFICES ASSUME SeenInv, [Next]_vars, conn # "idle", reloads = 0
               PROVE  /\ view'.done >= view.done
                      /\ view.state = "ended" => view'.state = "ended"
    OBVIOUS
  <2>1. TypeOK /\ InOrder /\ load.stage = "none"
    BY DEF SeenInv, PageInv, PageIsTrue, QuietOnceConnected
  <2>2. view.done \in Nat /\ view \in Batch
    BY <2>1, SentTypes DEF TypeOK
  <2>3. CASE Receive
    <3> DEFINE h == Head(pending)
    <3>1. h \in Sent
      BY <2>1, <2>3, HeadSent DEF Receive
    <3>2. UNCHANGED page \/ (~(h.seq <= seqRef) /\ view' = Applied(h))
      BY <2>3 DEF Receive
    <3>3. h.seq \in Nat /\ h.done \in Nat /\ seqRef \in Nat
      BY <2>1, <3>1, SentTypes
    <3> HIDE DEF h
    <3>4. CASE view' = view
      BY <3>4, <2>2
    <3>5. CASE ~(h.seq <= seqRef) /\ view' = Applied(h)
      <4>1. view'.done = h.done /\ (view.state = "ended" => view'.state = "ended")
        BY <3>5, <2>2 DEF Applied, Batch
      <4>2. view.done <= h.done
        BY <2>1, <3>1, <3>3, <3>5 DEF InOrder
      <4> QED BY <4>1, <4>2, <3>3, <2>2
    <3> QED BY <3>2, <3>4, <3>5 DEF page
  <2>4. CASE view' = view
    BY <2>2, <2>4
  <2> QED BY <2>1, <2>3, <2>4
          DEF Next, Write, Read, Follow, Delete, Restart, CommitProgress, CommitEnd,
              PublishProgress, PublishEnd, Publish, BeginLoad, ReadRow, ReadSeq, Loaded, Connect,
              Cut, vars, page
<1>2. RecoveryInit => Init
  BY DEF RecoveryInit
<1> QED BY <1>1, <1>2, InitSeen, NextSeen, PageSteps, PTL DEF RecoverySpec, ViewNeverBack

-----------------------------------------------------------------------------
(* The care of phones *)

\* A phone that is down was told of last, as what it is down for.
DownIsTold == \A p \in Phones : down[p] # "none" => noted[p] = down[p]

CareInv == Care!TypeOK /\ Care!UnfinishedIsKnown /\ DownIsTold

-----------------------------------------------------------------------------
LEMMA InitCareInv == RecoveryInit => CareInv
<1> SUFFICES ASSUME Care!Init PROVE CareInv
  BY DEF RecoveryInit
<1>1. Care!TypeOK
  BY DEF Care!Init, Care!TypeOK, Care!Over
<1>2. Care!UnfinishedIsKnown
  BY DEF Care!Init, Care!UnfinishedIsKnown, Care!Finished, Care!Over
<1>3. DownIsTold
  BY DEF Care!Init, DownIsTold
<1> QED BY <1>1, <1>2, <1>3 DEF CareInv

(* Types *)

LEMMA CareTypeNext == Care!TypeOK /\ Care!Next => Care!TypeOK'
<1> SUFFICES ASSUME Care!TypeOK, Care!Next PROVE Care!TypeOK'
  OBVIOUS
<1> USE DEF Care!TypeOK, Care!phone, Care!jobVars, Care!alerting, Care!healing,
            Care!switches, Care!Mishap
<1>1. ASSUME NEW j \in Jobs, NEW serials \in SUBSET Phones, Care!StartJob(j, serials)
      PROVE  Care!TypeOK'
  BY <1>1 DEF Care!StartJob, Care!PruneOldJobs, Care!Over
<1>2. ASSUME NEW j \in Jobs, NEW p \in Phones, Care!JobStep(j, p) PROVE Care!TypeOK'
  <2> USE DEF Care!Step, Care!Ends, Care!Over
  <2>1. CASE Care!Hold(j, p)
    <3>1. CASE holder[p] = Free /\ holder' = [holder EXCEPT ![p] = j] /\ Care!Step(j, p, "begin")
      BY <2>1, <3>1 DEF Care!Hold
    <3>2. CASE Care!Step(j, p, "failed") /\ UNCHANGED holder
      BY <2>1, <3>2 DEF Care!Hold
    <3> QED BY <2>1, <3>1, <3>2 DEF Care!Hold
  <2>2. CASE Care!BeginInit(j, p)
    <3>1. CASE Care!Step(j, p, "reboot") /\ mark' = mark \cup {p}
      BY <2>2, <3>1 DEF Care!BeginInit
    <3>2. CASE Care!Step(j, p, "steps") /\ UNCHANGED mark
      BY <2>2, <3>2 DEF Care!BeginInit
    <3> QED BY <2>2, <3>1, <3>2 DEF Care!BeginInit
  <2>3. CASE Care!Reboot(j, p)
    <3>1. CASE /\ power' = [power EXCEPT ![p] = "booting"] /\ linked' = linked \ {p}
               /\ Care!Step(j, p, "boot") /\ UNCHANGED holder
      BY <2>3, <3>1 DEF Care!Reboot
    <3>2. CASE Care!Ends(j, p, "failed") /\ UNCHANGED <<power, linked>>
      BY <2>3, <3>2 DEF Care!Reboot
    <3> QED BY <2>3, <3>1, <3>2 DEF Care!Reboot
  <2>4. CASE Care!WaitForBoot(j, p)
    BY <2>4 DEF Care!WaitForBoot
  <2>5. CASE Care!Settle(j, p)
    BY <2>5 DEF Care!Settle
  <2>6. CASE Care!RunSteps(j, p)
    <3>1. PICK result \in {"done", "failed"} : Care!Ends(j, p, result)
      BY <2>6 DEF Care!RunSteps
    <3>2. UNCHANGED <<power, linked, registry, mark, sync, listed, last, down, noted, autoheal,
                      enabled, todo, connecting, resting>>
      BY <2>6 DEF Care!RunSteps
    <3> QED BY <3>1, <3>2
  <2> QED BY <1>2, <2>1, <2>2, <2>3, <2>4, <2>5, <2>6 DEF Care!JobStep
<1>3. CASE Care!SyncStep
  <2>1. CASE Care!List \/ Care!StartHealing \/ Care!EndSync
    BY <2>1 DEF Care!List, Care!StartHealing, Care!EndSync, Care!Online, Care!Due
  <2>2. ASSUME NEW p \in Phones, Care!Alert(p) PROVE Care!TypeOK'
    BY <2>2 DEF Care!Alert, Care!AlertOf, Care!Kind
  <2>3. ASSUME NEW p \in Phones, Care!Skip(p) \/ Care!Heal(p) \/ Care!Connected(p)
        PROVE  Care!TypeOK'
    BY <2>3 DEF Care!Skip, Care!Heal, Care!Connected
  <2> QED BY <1>3, <2>1, <2>2, <2>3 DEF Care!SyncStep
<1>4. ASSUME NEW p \in Phones, Care!Passes(p) PROVE Care!TypeOK'
  BY <1>4 DEF Care!Passes, Care!Expire, Care!Rested, Care!Boots, Care!SampleEnds
<1>5. ASSUME NEW p \in Phones, Care!Lost(p) \/ Care!SampleTakes(p) PROVE Care!TypeOK'
  BY <1>5 DEF Care!Lost, Care!SampleTakes
<1>6. CASE Care!Switch
  <2>1. autoheal' \in BOOLEAN
    BY <1>6 DEF Care!Switch
  <2>2. enabled' \in SUBSET Phones
    BY <1>6 DEF Care!Switch
  <2> QED BY <1>6, <2>1, <2>2 DEF Care!Switch
<1> QED BY <1>1, <1>2, <1>3, <1>4, <1>5, <1>6 DEF Care!Next

(* Jobs *)

LEMMA CareKnownNext ==
  Care!TypeOK /\ Care!UnfinishedIsKnown /\ Care!Next => Care!UnfinishedIsKnown'
<1> SUFFICES ASSUME Care!TypeOK, Care!UnfinishedIsKnown, Care!Next
             PROVE  Care!UnfinishedIsKnown'
  OBVIOUS
<1> USE DEF Care!UnfinishedIsKnown
<1>1. ASSUME NEW j \in Jobs, NEW serials \in SUBSET Phones, Care!StartJob(j, serials)
      PROVE  Care!UnfinishedIsKnown'
  <2>1. PICK kept \in SUBSET registry :
          /\ registry \ kept \subseteq {k \in registry : Care!Finished(k)}
          /\ registry' = kept \cup {j}
    BY <1>1 DEF Care!StartJob, Care!PruneOldJobs
  <2>2. \A k \in Jobs \ {j} : task'[k] = task[k]
    BY <1>1 DEF Care!StartJob, Care!TypeOK
  <2>3. \A k \in Jobs \ {j} : Care!Finished(k)' = Care!Finished(k)
    BY <2>2 DEF Care!Finished
  <2> QED BY <2>1, <2>3
<1>2. ASSUME NEW j \in Jobs, NEW p \in Phones, Care!JobStep(j, p)
      PROVE  Care!UnfinishedIsKnown'
  <2> USE DEF Care!JobStep, Care!Hold, Care!BeginInit, Care!Reboot, Care!WaitForBoot, Care!Settle,
              Care!RunSteps
  <2>1. task[j][p] \notin Care!Over /\ registry' = registry
    BY <1>2 DEF Care!Over
  <2>2. \A k \in Jobs \ {j} : task'[k] = task[k]
    BY <1>2 DEF Care!Step, Care!Ends, Care!TypeOK
  <2>3. j \in registry
    BY <2>1 DEF Care!Finished
  <2>4. \A k \in Jobs \ {j} : Care!Finished(k)' = Care!Finished(k)
    BY <2>2 DEF Care!Finished
  <2> QED BY <2>1, <2>3, <2>4
<1>3. CASE UNCHANGED <<registry, task>>
  BY <1>3 DEF Care!Finished
<1> QED BY <1>1, <1>2, <1>3
        DEF Care!Next, Care!SyncStep, Care!List, Care!StartHealing, Care!EndSync, Care!Alert,
            Care!Skip, Care!Heal, Care!Connected, Care!Passes, Care!Switch, Care!Expire, Care!Rested, Care!Boots, Care!Lost,
            Care!SampleTakes, Care!SampleEnds, Care!jobVars

(* Notes *)

\* Only an alert changes what was told, and it tells of one phone.
LEMMA NotesNext ==
  ASSUME Care!TypeOK, DownIsTold, Care!Next
  PROVE  /\ DownIsTold'
         /\ \A p \in Phones : noted'[p] # noted[p] =>
              /\ noted'[p] = "rebooted" => noted[p] = "expected"
              /\ noted'[p] = "recovered" => noted[p] = "fault"
<1> DEFINE Paired ==
      \A p \in Phones : noted'[p] # noted[p] =>
        /\ noted'[p] = "rebooted" => noted[p] = "expected"
        /\ noted'[p] = "recovered" => noted[p] = "fault"
<1>1. ASSUME NEW q \in Phones, Care!Alert(q) PROVE DownIsTold' /\ Paired
  <2>1. CASE q \in last
    <3>1. /\ down' = [down EXCEPT ![q] = Care!Kind(q)]
          /\ noted' = [noted EXCEPT ![q] = Care!Kind(q)]
      BY <1>1, <2>1 DEF Care!Alert, Care!AlertOf
    <3>2. Care!Kind(q) \in {"expected", "fault"}
      BY DEF Care!Kind
    <3> QED BY <3>1, <3>2 DEF DownIsTold, Care!TypeOK
  <2>2. CASE q \notin last /\ down[q] = "none"
    BY <1>1, <2>2 DEF Care!Alert, Care!AlertOf, DownIsTold
  <2>3. CASE q \notin last /\ down[q] # "none"
    <3>1. /\ down' = [down EXCEPT ![q] = "none"]
          /\ noted' = [noted EXCEPT ![q] = IF down[q] = "expected" THEN "rebooted" ELSE "recovered"]
      BY <1>1, <2>3 DEF Care!Alert, Care!AlertOf
    <3>2. down[q] \in {"expected", "fault"} /\ noted[q] = down[q]
      BY <2>3 DEF DownIsTold, Care!TypeOK
    <3> QED BY <3>1, <3>2 DEF DownIsTold, Care!TypeOK
  <2> QED BY <2>1, <2>2, <2>3
<1>2. CASE UNCHANGED <<down, noted>>
  BY <1>2 DEF DownIsTold
<1> QED BY <1>1, <1>2
        DEF Care!Next, Care!StartJob, Care!JobStep, Care!Hold, Care!BeginInit, Care!Reboot,
            Care!WaitForBoot, Care!Settle, Care!RunSteps, Care!SyncStep, Care!List,
            Care!StartHealing, Care!EndSync, Care!Skip, Care!Heal, Care!Connected, Care!Passes, Care!Switch, Care!Expire, Care!Rested,
            Care!Boots, Care!Lost, Care!SampleTakes, Care!SampleEnds, Care!alerting

LEMMA NextCareInv == CareInv /\ [RecoveryNext]_recoveryVars => CareInv'
<1> SUFFICES ASSUME CareInv, [RecoveryNext]_recoveryVars PROVE CareInv'
  OBVIOUS
<1>1. CASE Care!Next
  BY <1>1, CareTypeNext, CareKnownNext, NotesNext DEF CareInv
<1>2. CASE UNCHANGED careVars
  BY <1>2 DEF careVars, CareInv, Care!TypeOK, Care!UnfinishedIsKnown, Care!Finished, DownIsTold
<1> QED BY <1>1, <1>2
        DEF RecoveryNext, PageStep, CareStep, OfPage, OfCare, recoveryVars

\* A recovery is told as what its loss was told as, and an unfinished job can be
\* asked for (device_state.py, init_jobs.py): CareIsTold.
THEOREM CareTold == RecoverySpec => CareIsTold
<1>1. CareInv => Care!TypeOK /\ Care!UnfinishedIsKnown
  BY DEF CareInv
<1>2. CareInv /\ [RecoveryNext]_recoveryVars =>
        [\A p \in Phones : noted'[p] # noted[p] =>
           /\ noted'[p] = "rebooted" => noted[p] = "expected"
           /\ noted'[p] = "recovered" => noted[p] = "fault"]_(Care!careVars)
  <2> SUFFICES ASSUME CareInv, [RecoveryNext]_recoveryVars, noted' # noted
               PROVE  \A p \in Phones : noted'[p] # noted[p] =>
                        /\ noted'[p] = "rebooted" => noted[p] = "expected"
                        /\ noted'[p] = "recovered" => noted[p] = "fault"
    BY DEF Care!careVars, Care!alerting
  <2>1. CASE Care!Next
    BY <2>1, NotesNext DEF CareInv
  <2> QED BY <2>1
          DEF RecoveryNext, PageStep, CareStep, OfPage, OfCare, recoveryVars, careVars
<1> QED BY <1>1, <1>2, InitCareInv, NextCareInv, PTL
        DEF RecoverySpec, CareIsTold, Care!NotesComeInPairs
=============================================================================
