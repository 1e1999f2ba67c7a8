------------------------ MODULE DevicePoolOrderProofs ------------------------
(***************************************************************************)
(* Proofs about the two orders DevicePool keeps, for every set of phones,  *)
(* sessions and concurrent calls: the FIFO of each lock holds exactly the  *)
(* calls that wait for it, and the pins stand in the order of their        *)
(* expiry, so that a full table drops its oldest reservation.              *)
(***************************************************************************)
EXTENDS DevicePoolProofs

\* No value twice in a sequence.
Distinct(s) == \A i, j \in DOMAIN s : s[i] = s[j] => i = j

-----------------------------------------------------------------------------
(* Sequences *)

\* What RemoveAt leaves: the elements before i, then those behind it.
LEMMA RemoveAtElements ==
  ASSUME NEW S, NEW s \in Seq(S), NEW i \in 1 .. Len(s)
  PROVE  /\ RemoveAt(s, i) \in Seq(S)
         /\ Len(RemoveAt(s, i)) = Len(s) - 1
         /\ DOMAIN RemoveAt(s, i) = 1 .. Len(s) - 1
         /\ \A k \in 1 .. Len(s) - 1 : RemoveAt(s, i)[k] = IF k < i THEN s[k] ELSE s[k + 1]
<1> DEFINE a == SubSeq(s, 1, i - 1)
           b == SubSeq(s, i + 1, Len(s))
<1>0. Len(s) \in Nat /\ DOMAIN s = 1 .. Len(s)
  BY LenProperties
<1>1. /\ a \in Seq(S) /\ Len(a) = i - 1
      /\ \A k \in 1 .. i - 1 : a[k] = s[k]
  BY <1>0, SubSeqProperties, SMT
<1>2. /\ b \in Seq(S) /\ Len(b) = Len(s) - i
      /\ \A k \in 1 .. Len(s) - i : b[k] = s[i + k]
  <2> DEFINE m == i + 1
             n == Len(s)
  <2>1. /\ m \in 1 .. Len(s) + 1 /\ n \in m - 1 .. Len(s)
        /\ n - m + 1 = Len(s) - i
        /\ \A k \in 1 .. Len(s) - i : m + k - 1 = i + k
    BY <1>0
  <2> HIDE DEF m, n
  <2>2. /\ SubSeq(s, m, n) \in Seq(S)
        /\ Len(SubSeq(s, m, n)) = n - m + 1
        /\ \A k \in 1 .. n - m + 1 : SubSeq(s, m, n)[k] = s[m + k - 1]
    BY <2>1, SubSeqProperties, SMT
  <2>3. b = SubSeq(s, m, n)
    BY DEF m, n
  <2> HIDE DEF b
  <2> QED BY <2>1, <2>2, <2>3
<1> HIDE DEF a, b
<1>3. /\ a \o b \in Seq(S)
      /\ Len(a \o b) = Len(a) + Len(b)
      /\ \A k \in 1 .. Len(a) + Len(b) : (a \o b)[k] = IF k <= Len(a) THEN a[k] ELSE b[k - Len(a)]
  BY <1>1, <1>2, ConcatProperties
<1>4. RemoveAt(s, i) = a \o b
  BY DEF RemoveAt, a, b
<1>5. Len(RemoveAt(s, i)) = Len(s) - 1 /\ RemoveAt(s, i) \in Seq(S)
  <2>1. Len(a) + Len(b) = Len(s) - 1
    BY <1>0, <1>1, <1>2
  <2> QED BY <1>3, <1>4, <2>1
<1>6. DOMAIN RemoveAt(s, i) = 1 .. Len(s) - 1
  BY <1>5, LenProperties
<1>7. ASSUME NEW k \in 1 .. Len(s) - 1
      PROVE  RemoveAt(s, i)[k] = IF k < i THEN s[k] ELSE s[k + 1]
  <2>1. CASE k < i
    BY <2>1, <1>0, <1>1, <1>2, <1>3, <1>4
  <2>2. CASE ~ (k < i)
    <3>1. k - Len(a) \in 1 .. Len(s) - i /\ i + (k - Len(a)) = k + 1
      BY <2>2, <1>0, <1>1
    <3>2. (a \o b)[k] = b[k - Len(a)]
      BY <2>2, <1>0, <1>1, <1>2, <1>3
    <3> QED BY <2>2, <3>1, <3>2, <1>2, <1>4
  <2> QED BY <2>1, <2>2
<1> QED BY <1>5, <1>6, <1>7

\* A waiter that leaves a queue without doubles is gone, the others stay.
LEMMA RemoveOnce ==
  ASSUME NEW S, NEW s \in Seq(S), NEW i \in 1 .. Len(s), Distinct(s)
  PROVE  /\ Distinct(RemoveAt(s, i))
         /\ \A x : Contains(RemoveAt(s, i), x) <=> Contains(s, x) /\ x # s[i]
<1> DEFINE q == RemoveAt(s, i)
<1>0. Len(s) \in Nat /\ DOMAIN s = 1 .. Len(s)
  BY LenProperties
<1>1. /\ Len(q) = Len(s) - 1 /\ DOMAIN q = 1 .. Len(s) - 1
      /\ \A k \in 1 .. Len(s) - 1 : q[k] = IF k < i THEN s[k] ELSE s[k + 1]
  BY RemoveAtElements
<1> HIDE DEF q
<1>2. Distinct(q)
  BY <1>0, <1>1 DEF Distinct
<1>3. ASSUME NEW x, Contains(q, x)
      PROVE  Contains(s, x) /\ x # s[i]
  <2>1. PICK k \in 1 .. Len(s) - 1 : q[k] = x
    BY <1>3, <1>1 DEF Contains
  <2> QED BY <1>0, <1>1, <2>1 DEF Contains, Distinct
<1>4. ASSUME NEW x, Contains(s, x), x # s[i]
      PROVE  Contains(q, x)
  <2>1. PICK k \in 1 .. Len(s) : s[k] = x
    BY <1>4 DEF Contains
  <2>2. CASE k < i
    BY <2>1, <2>2, <1>0, <1>1 DEF Contains
  <2>3. CASE k > i
    <3>1. k - 1 \in 1 .. Len(s) - 1 /\ ~ (k - 1 < i) /\ (k - 1) + 1 = k
      BY <2>3, <1>0
    <3>2. q[k - 1] = x
      BY <3>1, <2>1, <1>1
    <3> QED BY <3>1, <3>2, <1>1 DEF Contains
  <2> QED BY <2>1, <2>2, <2>3, <1>4, <1>0
<1> QED BY <1>2, <1>3, <1>4 DEF q

\* The head that is granted the lock leaves in the same way.
LEMMA TailOnce ==
  ASSUME NEW S, NEW s \in Seq(S), s # <<>>, Distinct(s)
  PROVE  /\ Distinct(Tail(s))
         /\ \A x : Contains(Tail(s), x) <=> Contains(s, x) /\ x # Head(s)
<1>0. Len(s) \in Nat /\ DOMAIN s = 1 .. Len(s) /\ Len(s) # 0
  BY LenProperties, EmptySeq
<1>1. /\ Head(s) = s[1]
      /\ Tail(s) \in Seq(S) /\ Len(Tail(s)) = Len(s) - 1
      /\ \A k \in 1 .. Len(s) - 1 : Tail(s)[k] = s[k + 1]
  BY HeadTailProperties
<1>2. DOMAIN Tail(s) = 1 .. Len(s) - 1
  BY <1>1, LenProperties
<1>3. Distinct(Tail(s))
  BY <1>0, <1>1, <1>2 DEF Distinct
<1>4. ASSUME NEW x, Contains(Tail(s), x)
      PROVE  Contains(s, x) /\ x # Head(s)
  <2>1. PICK k \in 1 .. Len(s) - 1 : Tail(s)[k] = x
    BY <1>4, <1>1 DEF Contains
  <2> QED BY <1>0, <1>1, <2>1 DEF Contains, Distinct
<1>5. ASSUME NEW x, Contains(s, x), x # Head(s)
      PROVE  Contains(Tail(s), x)
  <2>1. PICK k \in 1 .. Len(s) : s[k] = x
    BY <1>5 DEF Contains
  <2>2. k - 1 \in 1 .. Len(s) - 1 /\ (k - 1) + 1 = k
    BY <2>1, <1>0, <1>1, <1>5
  <2>3. Tail(s)[k - 1] = x
    BY <2>1, <2>2, <1>1
  <2> QED BY <2>2, <2>3, <1>1 DEF Contains
<1> QED BY <1>3, <1>4, <1>5

\* A newcomer joins at the end.
LEMMA AppendOnce ==
  ASSUME NEW S, NEW s \in Seq(S), NEW e \in S, Distinct(s), ~Contains(s, e)
  PROVE  /\ Distinct(Append(s, e))
         /\ \A x : Contains(Append(s, e), x) <=> Contains(s, x) \/ x = e
<1> DEFINE q == Append(s, e)
<1>0. Len(s) \in Nat /\ DOMAIN s = 1 .. Len(s)
  BY LenProperties
<1>1. /\ q \in Seq(S) /\ Len(q) = Len(s) + 1
      /\ \A k \in 1 .. Len(s) : q[k] = s[k]
      /\ q[Len(s) + 1] = e
  BY AppendProperties
<1>2. DOMAIN q = 1 .. Len(s) + 1
  BY <1>1, LenProperties
<1> HIDE DEF q
<1>3. Distinct(q)
  <2>1. ASSUME NEW i \in 1 .. Len(s) + 1, NEW j \in 1 .. Len(s) + 1, q[i] = q[j]
        PROVE  i = j
    <3>1. CASE i <= Len(s) /\ j <= Len(s)
      BY <2>1, <3>1, <1>0, <1>1 DEF Distinct
    <3>2. CASE i = Len(s) + 1 \/ j = Len(s) + 1
      BY <2>1, <3>2, <1>0, <1>1 DEF Contains
    <3> QED BY <3>1, <3>2, <1>0
  <2> QED BY <2>1, <1>2 DEF Distinct
<1>4. \A x : Contains(q, x) <=> Contains(s, x) \/ x = e
  BY <1>0, <1>1 DEF Contains
<1> QED BY <1>3, <1>4 DEF q
-----------------------------------------------------------------------------
(* The queues of the locks *)

\* Who is suspended in lock.acquire() for d.
WaitsFor(r, d) == pc[r] = "queued" /\ dev[r] = d

\* QueuesAreExact of one phone.
QueueIsExact(d) ==
  /\ Distinct(waiters[d])
  /\ \A r \in Requests : Contains(waiters[d], r) <=> WaitsFor(r, d)

LEMMA QueuesUnfold == QueuesAreExact <=> \A d \in Serials : QueueIsExact(d)
BY DEF QueuesAreExact, QueueIsExact, Distinct, WaitsFor

\* A step that moves nobody in or out of a queue.
LEMMA SameQueues ==
  ASSUME QueuesAreExact, waiters' = waiters,
         \A q \in Requests : (pc[q] = "queued" \/ pc'[q] = "queued")
           => pc'[q] = pc[q] /\ dev'[q] = dev[q]
  PROVE  QueuesAreExact'
BY DEF QueuesAreExact

\* A call ends that did not queue.
LEMMA EndExact ==
  ASSUME TypeOK, QueuesAreExact, NEW r \in Requests, pc[r] # "queued", EndCall(r),
         waiters' = waiters
  PROVE  QueuesAreExact'
<1>1. \A q \in Requests : q # r => pc'[q] = pc[q] /\ dev'[q] = dev[q]
  BY DEF TypeOK, EndCall
<1>2. pc'[r] = "idle"
  BY DEF TypeOK, EndCall
<1> QED BY <1>1, <1>2, SameQueues

\* A call takes a lock at once, or sleeps: it does not queue before or after.
LEMMA MoveExact ==
  ASSUME TypeOK, QueuesAreExact, NEW r \in Requests, NEW st \in {"using", "polling"},
         pc[r] # "queued", waiters' = waiters, pc' = [pc EXCEPT ![r] = st],
         NEW d, dev' = dev \/ dev' = [dev EXCEPT ![r] = d]
  PROVE  QueuesAreExact'
<1>1. \A q \in Requests : q # r => pc'[q] = pc[q] /\ dev'[q] = dev[q]
  BY DEF TypeOK
<1>2. pc'[r] # "queued"
  BY DEF TypeOK
<1> QED BY <1>1, <1>2, SameQueues

\* A call joins the queue of d, where it is not yet.
LEMMA JoinExact ==
  ASSUME TypeOK, QueuesAreExact, NEW r \in Requests, NEW d \in Serials,
         pc[r] # "queued", JoinQueue(r, d),
         pc' = [pc EXCEPT ![r] = "queued"], dev' = [dev EXCEPT ![r] = d]
  PROVE  QueuesAreExact'
<1>1. /\ waiters[d] \in Seq(Requests) /\ Distinct(waiters[d])
      /\ ~Contains(waiters[d], r)
  BY QueuesUnfold DEF TypeOK, QueueIsExact, WaitsFor
<1>2. /\ Distinct(Append(waiters[d], r))
      /\ \A x : Contains(Append(waiters[d], r), x) <=> Contains(waiters[d], x) \/ x = r
  BY <1>1, AppendOnce
<1>3. \A q \in Requests : q # r => pc'[q] = pc[q] /\ dev'[q] = dev[q]
  BY DEF TypeOK
<1>4. pc'[r] = "queued" /\ dev'[r] = d
  BY DEF TypeOK
<1>5. waiters'[d] = Append(waiters[d], r) /\ \A c \in Serials : c # d => waiters'[c] = waiters[c]
  BY DEF TypeOK, JoinQueue
<1>6. QueueIsExact(d)'
  BY <1>2, <1>3, <1>4, <1>5, QueuesUnfold DEF QueueIsExact, WaitsFor
<1>7. ASSUME NEW c \in Serials, c # d PROVE QueueIsExact(c)'
  <2>1. QueueIsExact(c) /\ waiters'[c] = waiters[c]
    BY <1>5, <1>7, QueuesUnfold
  <2> QED BY <2>1, <1>3, <1>4, <1>7 DEF QueueIsExact, WaitsFor, Distinct
<1>8. \A c \in Serials : QueueIsExact(c)'
  BY <1>6, <1>7
<1> QED BY <1>8 DEF QueuesAreExact, QueueIsExact, Distinct, WaitsFor

\* r leaves the queue of its phone, which keeps all others.
LEMMA LeaveExact ==
  ASSUME TypeOK, QueuesAreExact, NEW r \in Requests, pc[r] = "queued",
         NEW d \in Serials, dev[r] = d, NEW w,
         waiters' = [waiters EXCEPT ![d] = w], Distinct(w),
         \A x : Contains(w, x) <=> Contains(waiters[d], x) /\ x # r,
         pc'[r] # "queued",
         \A q \in Requests : q # r => pc'[q] = pc[q] /\ dev'[q] = dev[q]
  PROVE  QueuesAreExact'
<1>1. waiters'[d] = w /\ \A c \in Serials : c # d => waiters'[c] = waiters[c]
  BY DEF TypeOK
<1>2. QueueIsExact(d)'
  <2>1. QueueIsExact(d)
    BY QueuesUnfold
  <2>2. \A q \in Requests : WaitsFor(q, d)' <=> WaitsFor(q, d) /\ q # r
    BY DEF WaitsFor
  <2>3. Distinct(waiters'[d])
    BY <1>1
  <2>4. \A q \in Requests : Contains(waiters'[d], q) <=> WaitsFor(q, d)'
    BY <1>1, <2>1, <2>2 DEF QueueIsExact
  <2> QED BY <2>3, <2>4 DEF QueueIsExact, Distinct, WaitsFor
<1>3. ASSUME NEW c \in Serials, c # d PROVE QueueIsExact(c)'
  <2>1. QueueIsExact(c) /\ waiters'[c] = waiters[c]
    BY <1>1, <1>3, QueuesUnfold
  <2> QED BY <2>1, <1>3 DEF QueueIsExact, WaitsFor, Distinct
<1>4. \A c \in Serials : QueueIsExact(c)'
  BY <1>2, <1>3
<1> QED BY <1>4 DEF QueuesAreExact, QueueIsExact, Distinct, WaitsFor

LEMMA PassExact ==
  ASSUME IInv, QueuesAreExact, NEW r \in Requests, NEW c \in Call, NEW p \in Seq(Pin),
         pc[r] # "queued", Pass(r, c, p)
  PROVE  QueuesAreExact'
<1>0. TypeOK /\ Eligible(c.allowed) \subseteq Serials
  BY DEF Eligible, IInv, TypeOK
<1>1. CASE Raise(r, p)
  BY <1>0, <1>1, EndExact DEF Raise, locks
<1>2. CASE PassTakes(r, c, p)
  BY <1>0, <1>2, MoveExact DEF PassTakes, TakeLock
<1>3. CASE PassQueues(r, c, p)
  <2>1. PICK d \in Eligible(c.allowed) \ c.exclude :
          JoinQueue(r, d) /\ dev' = [dev EXCEPT ![r] = d]
    BY <1>3 DEF PassQueues
  <2> QED BY <1>0, <1>3, <2>1, JoinExact DEF PassQueues
<1>4. CASE PassSleeps(r, c, p)
  BY <1>0, <1>4, MoveExact DEF PassSleeps, locks
<1> QED BY <1>1, <1>2, <1>3, <1>4
        DEF Pass, PassCancelled, PassDisabled, PassReserved, PassBusy

LEMMA HoldTimesOutExact ==
  ASSUME IInv, QueuesAreExact, NEW r \in Requests, HoldTimesOut(r)
  PROVE  QueuesAreExact'
<1>1. PICK d \in Serials : dev[r] = d
  BY DEF IInv, HasDevice, HoldTimesOut
<1>2. waiters[d] \in Seq(Requests) /\ Distinct(waiters[d])
  BY QueuesUnfold DEF IInv, TypeOK, QueueIsExact
<1>3. PICK i \in 1 .. Len(waiters[d]) :
        waiters[d][i] = r /\ waiters' = [waiters EXCEPT ![d] = RemoveAt(waiters[d], i)]
  <2>1. DOMAIN waiters[d] = 1 .. Len(waiters[d])
    BY <1>2, LenProperties
  <2> QED BY <1>1, <2>1 DEF HoldTimesOut
<1>4. /\ Distinct(RemoveAt(waiters[d], i))
      /\ \A x : Contains(RemoveAt(waiters[d], i), x) <=> Contains(waiters[d], x) /\ x # r
  BY <1>2, <1>3, RemoveOnce
<1>5. /\ pc'[r] # "queued"
      /\ \A q \in Requests : q # r => pc'[q] = pc[q] /\ dev'[q] = dev[q]
  BY DEF IInv, TypeOK, HoldTimesOut, EndCall
<1>6. TypeOK /\ pc[r] = "queued"
  BY DEF IInv, HoldTimesOut
<1> QED BY <1>1, <1>3, <1>4, <1>5, <1>6, LeaveExact

LEMMA GrantedExact ==
  ASSUME IInv, QueuesAreExact, NEW r \in Requests, Granted(r)
  PROVE  QueuesAreExact'
<1>1. PICK d \in Serials : dev[r] = d
  BY DEF IInv, HasDevice, Granted
<1>2. /\ waiters[d] \in Seq(Requests) /\ Distinct(waiters[d])
      /\ waiters[d] # <<>> /\ Head(waiters[d]) = r
      /\ waiters' = [waiters EXCEPT ![d] = Tail(waiters[d])]
  BY <1>1, QueuesUnfold DEF IInv, TypeOK, QueueIsExact, Granted
<1>3. /\ Distinct(Tail(waiters[d]))
      /\ \A x : Contains(Tail(waiters[d]), x) <=> Contains(waiters[d], x) /\ x # r
  BY <1>2, TailOnce
<1>4. /\ pc'[r] # "queued"
      /\ \A q \in Requests : q # r => pc'[q] = pc[q] /\ dev'[q] = dev[q]
  BY DEF IInv, TypeOK, Granted
<1>5. TypeOK /\ pc[r] = "queued"
  BY DEF IInv, Granted
<1> QED BY <1>1, <1>2, <1>3, <1>4, <1>5, LeaveExact

LEMMA RequestExact ==
  ASSUME IInv, QueuesAreExact, NEW r \in Requests, RequestStep(r)
  PROVE  QueuesAreExact'
<1>0. TypeOK
  BY DEF IInv
<1>1. ASSUME NEW s \in Sessions \cup {NoSession}, NEW new \in BOOLEAN,
             NEW A \in Pools \cup {AnyDevice}, Acquire(r, s, new, A)
      PROVE  QueuesAreExact'
  <2> DEFINE p == IF Looks(s, new) THEN Lookup(pins, s) ELSE pins
  <2>1. A \in SUBSET Serials
    BY PoolAssumption DEF AnyDevice
  <2>2. AcquireCall(s, new, A) \in Call
    BY <1>0, <2>1, CallType
  <2>3. p \in Seq(Pin)
    BY LookupType DEF IInv, TypeOK
  <2>4. pc[r] # "queued" /\ Pass(r, AcquireCall(s, new, A), p)
    BY <1>1 DEF Acquire
  <2> HIDE DEF p
  <2> QED BY <2>2, <2>3, <2>4, PassExact
<1>2. CASE Poll(r)
  <2>1. call[r] \in Call /\ pins \in Seq(Pin)
    BY DEF IInv, TypeOK
  <2> QED BY <1>2, <2>1, PassExact DEF Poll
<1>3. ASSUME NEW d \in Serials, Hold(r, d)
      PROVE  QueuesAreExact'
  <2>1. CASE TakeLock(d) /\ pc' = [pc EXCEPT ![r] = "using"]
    BY <1>0, <1>3, <2>1, MoveExact DEF Hold, TakeLock
  <2>2. CASE JoinQueue(r, d) /\ pc' = [pc EXCEPT ![r] = "queued"]
    BY <1>0, <1>3, <2>2, JoinExact DEF Hold
  <2> QED BY <1>3, <2>1, <2>2 DEF Hold
<1>4. CASE HoldTimesOut(r)
  BY <1>4, HoldTimesOutExact
<1>5. CASE Granted(r)
  BY <1>5, GrantedExact
<1>6. CASE Finish(r)
  BY <1>0, <1>6, EndExact DEF Finish, ReleaseLock
<1>7. CASE DeadlinePasses(r)
  BY <1>7, SameQueues DEF DeadlinePasses, locks
<1>8. CASE Cancel(r)
  BY <1>8, SameQueues DEF Cancel, locks
<1> QED BY <1>1, <1>2, <1>3, <1>4, <1>5, <1>6, <1>7, <1>8 DEF RequestStep

\* The FIFO of a lock holds the calls that are suspended in lock.acquire() for
\* it, each once, through time-outs of hold() and wake-ups (asyncio.Lock under
\* DevicePool.acquire and hold).
THEOREM QueuesExact == Spec => []QueuesAreExact
<1>1. Init => QueuesAreExact
  <2>1. <<>> \in Seq(Requests) /\ DOMAIN <<>> = {} /\ Len(<<>>) = 0
    OBVIOUS
  <2> QED BY <2>1 DEF Init, QueuesAreExact, Contains
<1>2. IInv /\ QueuesAreExact /\ [Next]_vars => QueuesAreExact'
  <2> SUFFICES ASSUME IInv, QueuesAreExact, [Next]_vars PROVE QueuesAreExact'
    OBVIOUS
  <2>1. CASE \E r \in Requests : RequestStep(r)
    BY <2>1, RequestExact
  <2>2. CASE UNCHANGED <<locks, pc, dev>>
    BY <2>2, SameQueues DEF locks
  <2>3. CASE \E s \in Sessions : ReleaseSession(s)
    BY <2>2, <2>3 DEF ReleaseSession
  <2>4. CASE PinExpires
    BY <2>2, <2>4 DEF PinExpires
  <2>5. CASE UpdateSnapshot
    BY <2>2, <2>5 DEF UpdateSnapshot
  <2>6. CASE UNCHANGED vars
    BY <2>2, <2>6 DEF vars, locks
  <2> QED BY <2>1, <2>3, <2>4, <2>5, <2>6 DEF Next
<1> QED BY <1>1, <1>2, Invariant, PTL DEF Spec
-----------------------------------------------------------------------------
(* The pins *)

\* OldestPinFirst of a value of `pins`.
PinOrder(p) ==
  /\ Len(p) <= MaxSessions
  /\ \A i, j \in DOMAIN p :
       /\ p[i].session = p[j].session => i = j
       /\ i < j /\ p[i].live => p[j].live

\* A session whose live pin is gone had the oldest of a full table.
EvictsOldest(p, q) ==
  \A t \in Sessions :
    HasLivePin(p, t) /\ ~HasLivePin(q, t) => Len(p) = MaxSessions /\ p[1].session = t

\* Forgetting a session keeps the order and the pins of all others; the table
\* is as it was, or shorter.
LEMMA ForgetOrder ==
  ASSUME NEW p \in Seq(Pin), NEW s, PinOrder(p)
  PROVE  /\ PinOrder(Forget(p, s))
         /\ \A i \in DOMAIN Forget(p, s) : Forget(p, s)[i].session # s
         /\ \A t : t # s /\ HasLivePin(p, t) => HasLivePin(Forget(p, s), t)
         /\ Forget(p, s) = p \/ Len(Forget(p, s)) < Len(p)
<1> DEFINE n == PinIndex(p, s)
           q == RemoveAt(p, n)
<1>0. Len(p) \in Nat /\ DOMAIN p = 1 .. Len(p)
  BY LenProperties
<1>1. CASE ~ \E i \in DOMAIN p : p[i].session = s
  <2>1. Forget(p, s) = p
    BY <1>1 DEF Forget, PinIndex, Without
  <2> QED BY <1>1, <2>1
<1>2. CASE \E i \in DOMAIN p : p[i].session = s
  <2>1. n \in 1 .. Len(p) /\ p[n].session = s
    BY <1>0, <1>2 DEF PinIndex
  <2>2. Forget(p, s) = q
    BY <2>1 DEF Forget, Without
  <2>3. /\ Len(q) = Len(p) - 1 /\ DOMAIN q = 1 .. Len(p) - 1
        /\ \A k \in 1 .. Len(p) - 1 : q[k] = IF k < n THEN p[k] ELSE p[k + 1]
    BY <2>1, RemoveAtElements
  <2> HIDE DEF n, q
  <2>4. MaxSessions \in Nat /\ Len(q) <= MaxSessions /\ Len(q) < Len(p)
    BY <1>0, <2>3, PoolAssumption DEF PinOrder
  <2>5. ASSUME NEW i \in DOMAIN q, NEW j \in DOMAIN q
        PROVE  /\ q[i].session = q[j].session => i = j
               /\ i < j /\ q[i].live => q[j].live
    <3> DEFINE at(k) == IF k < n THEN k ELSE k + 1
    <3>1. /\ at(i) \in DOMAIN p /\ at(j) \in DOMAIN p
          /\ (at(i) = at(j) => i = j) /\ (i < j => at(i) < at(j))
      BY <1>0, <2>1, <2>3
    <3>2. q[i] = p[at(i)] /\ q[j] = p[at(j)]
      BY <2>3
    <3> HIDE DEF at
    <3> QED BY <3>1, <3>2 DEF PinOrder
  <2>6. \A i \in DOMAIN q : q[i].session # s
    <3> SUFFICES ASSUME NEW i \in DOMAIN q PROVE q[i].session # s
      OBVIOUS
    <3> DEFINE k == IF i < n THEN i ELSE i + 1
    <3>1. k \in DOMAIN p /\ k # n /\ n \in DOMAIN p
      BY <1>0, <2>1, <2>3
    <3>2. q[i] = p[k]
      BY <2>3
    <3> HIDE DEF k
    <3> QED BY <2>1, <3>1, <3>2 DEF PinOrder
  <2>7. ASSUME NEW t, t # s, HasLivePin(p, t)
        PROVE  HasLivePin(q, t)
    <3>1. PICK i \in 1 .. Len(p) : p[i].session = t /\ p[i].live
      BY <1>0, <2>7 DEF HasLivePin
    <3> DEFINE k == IF i < n THEN i ELSE i - 1
    <3>2. i # n
      BY <2>1, <2>7, <3>1
    <3>3. k \in 1 .. Len(p) - 1 /\ (IF k < n THEN k ELSE k + 1) = i
      BY <1>0, <2>1, <3>1, <3>2
    <3>4. q[k] = p[i]
      BY <2>3, <3>3
    <3> HIDE DEF k
    <3> QED BY <2>3, <3>1, <3>3, <3>4 DEF HasLivePin
  <2>8. PinOrder(q)
    BY <2>4, <2>5 DEF PinOrder
  <2> QED BY <2>2, <2>4, <2>6, <2>7, <2>8
<1> QED BY <1>1, <1>2

\* _lookup_pin takes no live pin away.
LEMMA LookupOrder ==
  ASSUME NEW p \in Seq(Pin), NEW s, PinOrder(p)
  PROVE  /\ PinOrder(Lookup(p, s))
         /\ \A t : HasLivePin(p, t) => HasLivePin(Lookup(p, s), t)
         /\ Lookup(p, s) = p \/ Len(Lookup(p, s)) < Len(p)
<1>1. CASE HasLivePin(p, s)
  BY <1>1 DEF Lookup
<1>2. CASE ~HasLivePin(p, s)
  BY <1>2, ForgetOrder DEF Lookup
<1> QED BY <1>1, <1>2

\* _remember_pin puts the session's live pin at the end; what it may drop is
\* the first entry of a table that was full without that session.
LEMMA RememberOrder ==
  ASSUME NEW p \in Seq(Pin), NEW s \in Sessions, NEW d \in Serials, PinOrder(p)
  PROVE  PinOrder(Remember(p, s, d)) /\ EvictsOldest(p, Remember(p, s, d))
<1> DEFINE e == [session |-> s, serial |-> d, live |-> TRUE]
           f == Forget(p, s)
           q == Append(f, e)
           n == Len(f)
<1>0. /\ Len(p) \in Nat /\ DOMAIN p = 1 .. Len(p)
      /\ MaxSessions \in Nat \ {0} /\ Len(p) <= MaxSessions
  BY LenProperties, PoolAssumption DEF PinOrder
<1>1. f \in Seq(Pin) /\ e \in Pin /\ e.session = s /\ e.live = TRUE
  BY ForgetType DEF Pin
<1>2. /\ PinOrder(f)
      /\ \A i \in DOMAIN f : f[i].session # s
      /\ \A t : t # s /\ HasLivePin(p, t) => HasLivePin(f, t)
      /\ f = p \/ n < Len(p)
  BY ForgetOrder
<1> HIDE DEF f, e
<1>3. n \in Nat /\ DOMAIN f = 1 .. n /\ n <= MaxSessions
  BY <1>1, <1>2, LenProperties DEF PinOrder
<1>4. /\ q \in Seq(Pin) /\ q # <<>> /\ Len(q) = n + 1
      /\ \A i \in 1 .. n : q[i] = f[i]
      /\ q[n + 1] = e
  BY <1>1, AppendProperties
<1>5. /\ Tail(q) \in Seq(Pin) /\ Len(Tail(q)) = n
      /\ \A i \in 1 .. n : Tail(q)[i] = q[i + 1]
  <2>1. /\ Tail(q) \in Seq(Pin) /\ Len(Tail(q)) = Len(q) - 1
        /\ \A i \in 1 .. Len(q) - 1 : Tail(q)[i] = q[i + 1]
    BY <1>4, HeadTailProperties
  <2> QED BY <2>1, <1>3, <1>4
<1>6. DOMAIN q = 1 .. n + 1 /\ DOMAIN Tail(q) = 1 .. n
  BY <1>4, <1>5, LenProperties
<1> HIDE DEF q, n
<1>7. ASSUME NEW i \in 1 .. n + 1, NEW j \in 1 .. n + 1
      PROVE  /\ q[i].session = q[j].session => i = j
             /\ i < j /\ q[i].live => q[j].live
  <2>1. CASE i \in 1 .. n /\ j \in 1 .. n
    BY <1>2, <1>3, <1>4, <2>1 DEF PinOrder
  <2>2. CASE i \in 1 .. n /\ j = n + 1
    BY <1>1, <1>2, <1>3, <1>4, <2>2
  <2>3. CASE i = n + 1 /\ j \in 1 .. n
    BY <1>1, <1>2, <1>3, <1>4, <2>3
  <2>4. CASE i = n + 1 /\ j = n + 1
    BY <2>4, <1>3
  <2> QED BY <1>3, <2>1, <2>2, <2>3, <2>4
<1>8. ASSUME NEW t, t # s, HasLivePin(p, t)
      PROVE  \E i \in 1 .. n : q[i].session = t /\ q[i].live
  <2>1. PICK i \in 1 .. n : f[i].session = t /\ f[i].live
    BY <1>2, <1>3, <1>8 DEF HasLivePin
  <2>2. q[i] = f[i]
    BY <1>4
  <2> QED BY <2>1, <2>2
<1>9. CASE ~ (Len(q) > MaxSessions)
  <2>1. Remember(p, s, d) = q
    BY <1>9 DEF Remember, q, f, e
  <2>2. PinOrder(q)
    BY <1>0, <1>3, <1>4, <1>6, <1>7, <1>9 DEF PinOrder
  <2>3. HasLivePin(q, s)
    BY <1>1, <1>3, <1>4, <1>6 DEF HasLivePin
  <2>4. \A t : t # s /\ HasLivePin(p, t) => HasLivePin(q, t)
    BY <1>3, <1>6, <1>8 DEF HasLivePin
  <2> QED BY <2>1, <2>2, <2>3, <2>4 DEF EvictsOldest
<1>10. CASE Len(q) > MaxSessions
  <2>1. Remember(p, s, d) = Tail(q)
    BY <1>10 DEF Remember, q, f, e
  <2>2. n = MaxSessions /\ f = p /\ Len(p) = MaxSessions
    <3>1. n = MaxSessions
      BY <1>0, <1>3, <1>4, <1>10
    <3>2. f = p
      BY <1>0, <1>2, <3>1
    <3> QED BY <3>1, <3>2 DEF n
  <2>3. PinOrder(Tail(q))
    <3>1. ASSUME NEW i \in 1 .. n, NEW j \in 1 .. n
          PROVE  /\ Tail(q)[i].session = Tail(q)[j].session => i = j
                 /\ i < j /\ Tail(q)[i].live => Tail(q)[j].live
      <4>1. i + 1 \in 1 .. n + 1 /\ j + 1 \in 1 .. n + 1
        BY <1>3
      <4>2. Tail(q)[i] = q[i + 1] /\ Tail(q)[j] = q[j + 1]
        BY <1>5
      <4>3. /\ q[i + 1].session = q[j + 1].session => i + 1 = j + 1
            /\ i + 1 < j + 1 /\ q[i + 1].live => q[j + 1].live
        BY <1>7, <4>1
      <4>4. i \in Nat /\ j \in Nat /\ (i + 1 = j + 1 => i = j) /\ (i < j => i + 1 < j + 1)
        BY <1>3
      <4> QED BY <4>2, <4>3, <4>4
    <3> QED BY <3>1, <1>3, <1>5, <1>6 DEF PinOrder
  <2>4. HasLivePin(Tail(q), s)
    <3>1. n \in 1 .. n /\ Tail(q)[n] = e
      BY <1>0, <1>3, <1>4, <1>5, <2>2
    <3> QED BY <1>1, <1>6, <3>1 DEF HasLivePin
  <2>5. ASSUME NEW t, t # s, HasLivePin(p, t), ~HasLivePin(Tail(q), t)
        PROVE  p[1].session = t
    <3>1. PICK i \in 1 .. n : q[i].session = t /\ q[i].live
      BY <1>8, <2>5
    <3>2. CASE i = 1
      BY <1>3, <1>4, <2>2, <3>1, <3>2
    <3>3. CASE i # 1
      <4>1. i - 1 \in 1 .. n /\ (i - 1) + 1 = i
        BY <1>3, <3>1, <3>3
      <4>2. Tail(q)[i - 1] = q[i]
        BY <1>5, <4>1
      <4> QED BY <1>6, <2>5, <3>1, <4>1, <4>2 DEF HasLivePin
    <3> QED BY <3>2, <3>3
  <2> QED BY <2>1, <2>2, <2>3, <2>4, <2>5 DEF EvictsOldest
<1> QED BY <1>9, <1>10

LEMMA PinningOrder ==
  ASSUME NEW p \in Seq(Pin), NEW c \in Call, NEW d \in Serials, PinOrder(p)
  PROVE  PinOrder(Pinning(p, c, d)) /\ EvictsOldest(p, Pinning(p, c, d))
<1>1. CASE c.session = NoSession
  BY <1>1 DEF Pinning, EvictsOldest
<1>2. CASE c.session # NoSession
  BY <1>2, RememberOrder DEF Pinning, Call
<1> QED BY <1>1, <1>2

\* Expiry is in the order of the pins.
LEMMA ExpiryOrder ==
  ASSUME TypeOK, PinOrder(pins), PinExpires
  PROVE  PinOrder(pins')
<1>1. PICK i \in DOMAIN pins :
        /\ pins[i].live
        /\ \A j \in 1 .. i - 1 : ~pins[j].live
        /\ pins' = [pins EXCEPT ![i].live = FALSE]
  BY DEF PinExpires
<1>2. Len(pins) \in Nat /\ DOMAIN pins = 1 .. Len(pins) /\ pins \in Seq(Pin)
  BY LenProperties DEF TypeOK
<1>3. \A j \in DOMAIN pins : pins[j] \in Pin
  BY <1>2, ElementOfSeq
<1>4. DOMAIN pins' = 1 .. Len(pins) /\ Len(pins') = Len(pins)
  <2>1. [pins[i] EXCEPT !.live = FALSE] \in Pin
    BY <1>3 DEF Pin
  <2>2. pins' \in Seq(Pin) /\ DOMAIN pins' = DOMAIN pins
    BY <1>1, <1>2, <2>1, ExceptSeq
  <2> QED BY <1>2, <2>2, LenProperties
<1>5. ASSUME NEW j \in DOMAIN pins
      PROVE  pins'[j].session = pins[j].session /\ (pins'[j].live <=> j # i /\ pins[j].live)
  BY <1>1, <1>3 DEF Pin
<1>6. ASSUME NEW j \in DOMAIN pins, NEW k \in DOMAIN pins
      PROVE  /\ pins'[j].session = pins'[k].session => j = k
             /\ j < k /\ pins'[j].live => pins'[k].live
  <2>1. pins'[j].session = pins'[k].session => j = k
    BY <1>5 DEF PinOrder
  <2>2. ASSUME j < k, pins'[j].live PROVE pins'[k].live
    <3>1. pins[j].live /\ j # i /\ pins[k].live
      BY <1>5, <2>2 DEF PinOrder
    <3>2. ~ (j \in 1 .. i - 1)
      BY <1>1, <3>1
    <3>3. k # i
      BY <1>2, <2>2, <3>1, <3>2
    <3> QED BY <1>5, <3>1, <3>3
  <2> QED BY <2>1, <2>2
<1> QED BY <1>2, <1>4, <1>6 DEF PinOrder

\* What a pass makes of the pins.
LEMMA PassPins ==
  ASSUME IInv, NEW r \in Requests, NEW c \in Call, NEW p \in Seq(Pin), PinOrder(p),
         Pass(r, c, p)
  PROVE  PinOrder(pins') /\ EvictsOldest(p, pins')
<1>0. Eligible(c.allowed) \subseteq Serials
  BY DEF Eligible, IInv, TypeOK
<1>1. CASE pins' = p
  BY <1>1 DEF EvictsOldest
<1>2. CASE PassTakes(r, c, p)
  <2>1. PICK d \in Serials : pins' = Pinning(p, c, d)
    BY <1>0, <1>2 DEF PassTakes
  <2> QED BY <2>1, PinningOrder
<1> QED BY <1>1, <1>2
        DEF Pass, PassCancelled, PassDisabled, PassReserved, PassQueues, PassBusy,
            PassSleeps, Raise

\* What a step of a request makes of them.
LEMMA RequestPins ==
  ASSUME IInv, PinOrder(pins), NEW r \in Requests, RequestStep(r)
  PROVE  PinOrder(pins') /\ EvictsOldest(pins, pins')
<1>0. pins \in Seq(Pin) /\ call[r] \in Call /\ Len(pins) \in Nat
  BY LenProperties DEF IInv, TypeOK
<1>1. ASSUME NEW s \in Sessions \cup {NoSession}, NEW new \in BOOLEAN,
             NEW A \in Pools \cup {AnyDevice}, Acquire(r, s, new, A)
      PROVE  PinOrder(pins') /\ EvictsOldest(pins, pins')
  <2> DEFINE p == IF Looks(s, new) THEN Lookup(pins, s) ELSE pins
  <2>1. A \in SUBSET Serials
    BY PoolAssumption DEF AnyDevice
  <2>2. AcquireCall(s, new, A) \in Call
    BY <2>1, CallType DEF IInv
  <2>3. p \in Seq(Pin)
    BY <1>0, LookupType
  <2>4. /\ PinOrder(p) /\ (\A t : HasLivePin(pins, t) => HasLivePin(p, t))
        /\ p = pins \/ Len(p) < Len(pins)
    BY <1>0, LookupOrder
  <2>5. Pass(r, AcquireCall(s, new, A), p)
    BY <1>1 DEF Acquire
  <2> HIDE DEF p
  <2>6. PinOrder(pins') /\ EvictsOldest(p, pins')
    BY <2>2, <2>3, <2>4, <2>5, PassPins
  <2>7. Len(p) = MaxSessions => p = pins
    BY <1>0, <2>3, <2>4, LenProperties, PoolAssumption DEF PinOrder
  <2> QED BY <2>4, <2>6, <2>7 DEF EvictsOldest
<1>2. CASE Poll(r)
  BY <1>0, <1>2, PassPins DEF Poll
<1>3. CASE Granted(r)
  <2>1. dev[r] \in Serials /\ pins' = Pinning(pins, call[r], dev[r])
    BY <1>3 DEF IInv, HasDevice, Granted
  <2> QED BY <1>0, <2>1, PinningOrder
<1>4. CASE UNCHANGED pins
  BY <1>4 DEF EvictsOldest
<1> QED BY <1>1, <1>2, <1>3, <1>4
        DEF RequestStep, Hold, HoldTimesOut, Finish, DeadlinePasses, Cancel

\* The pins stand in the order of their expiry.
LEMMA PinsOrdered == Spec => []OldestPinFirst
<1>1. OldestPinFirst <=> PinOrder(pins)
  BY DEF OldestPinFirst, PinOrder
<1>2. Init => OldestPinFirst
  <2>1. Len(<<>>) = 0 /\ DOMAIN <<>> = {}
    OBVIOUS
  <2> QED BY <2>1, PoolAssumption DEF Init, OldestPinFirst
<1>3. IInv /\ OldestPinFirst /\ [Next]_vars => OldestPinFirst'
  <2> SUFFICES ASSUME IInv, PinOrder(pins), [Next]_vars PROVE PinOrder(pins')
    BY <1>1 DEF OldestPinFirst, PinOrder
  <2>1. CASE \E r \in Requests : RequestStep(r)
    BY <2>1, RequestPins
  <2>2. CASE \E s \in Sessions : ReleaseSession(s)
    BY <2>2, ForgetOrder DEF ReleaseSession, IInv, TypeOK
  <2>3. CASE PinExpires
    BY <2>3, ExpiryOrder DEF IInv
  <2>4. CASE UpdateSnapshot
    BY <2>4 DEF UpdateSnapshot
  <2>5. CASE UNCHANGED vars
    BY <2>5 DEF vars
  <2> QED BY <2>1, <2>2, <2>3, <2>4, <2>5 DEF Next
<1> QED BY <1>2, <1>3, Invariant, PTL DEF Spec

\* A reservation that ends was released, has expired, was renewed, or was the
\* oldest of a full table (_remember_pin).
THEOREM ReservationsKept == Spec => ReservationsLast
<1>1. IInv /\ OldestPinFirst /\ [Next]_vars
      => [\A s \in Sessions :
            HasLivePin(pins, s) /\ ~HasLivePin(pins', s)
            => \/ ReleaseSession(s)
               \/ PinExpires
               \/ Len(pins) = MaxSessions /\ pins[1].session = s]_vars
  <2> SUFFICES ASSUME IInv, PinOrder(pins), Next, NEW s \in Sessions,
                      HasLivePin(pins, s), ~HasLivePin(pins', s), ~PinExpires
               PROVE  \/ ReleaseSession(s)
                      \/ Len(pins) = MaxSessions /\ pins[1].session = s
    BY DEF OldestPinFirst, PinOrder
  <2>1. CASE \E r \in Requests : RequestStep(r)
    BY <2>1, RequestPins DEF EvictsOldest
  <2>2. CASE \E t \in Sessions : ReleaseSession(t)
    <3>1. PICK t \in Sessions : ReleaseSession(t)
      BY <2>2
    <3>2. t = s
      BY <3>1, ForgetOrder DEF ReleaseSession, IInv, TypeOK
    <3> QED BY <3>1, <3>2
  <2>3. CASE UpdateSnapshot
    BY <2>3 DEF UpdateSnapshot
  <2> QED BY <2>1, <2>2, <2>3 DEF Next
<1> QED BY <1>1, Invariant, PinsOrdered, PTL DEF Spec, ReservationsLast
-----------------------------------------------------------------------------
(* Fresh takes *)

\* A request that takes a phone in the first pass of its call takes one that
\* is reserved for nobody else at that moment.
LEMMA FreshTake ==
  ASSUME IInv, NEW r \in Requests, RequestStep(r), pc[r] = "idle", pc'[r] = "using",
         call'[r].kind = "acquire", ~call'[r].pinned
  PROVE  dev'[r] \notin Reserved(pins, call'[r].session)
<1>0. /\ pc \in [Requests -> {"idle", "polling", "queued", "using"}]
      /\ call \in [Requests -> Call]
      /\ dev \in [Requests -> Serials \cup {NoSerial}]
  BY DEF IInv, TypeOK
<1>1. ASSUME NEW s \in Sessions \cup {NoSession}, NEW new \in BOOLEAN,
             NEW A \in Pools \cup {AnyDevice}, Acquire(r, s, new, A)
      PROVE  dev'[r] \notin Reserved(pins, call'[r].session)
  <2> DEFINE p == IF Looks(s, new) THEN Lookup(pins, s) ELSE pins
             c == AcquireCall(s, new, A)
  <2>1. Pass(r, c, p)
    BY <1>1 DEF Acquire
  <2>2. c.pinned \/ (c.session = s /\ c.exclude = Reserved(pins, s))
    BY DEF AcquireCall
  <2> HIDE DEF p, c
  <2>3. PassTakes(r, c, p)
    BY <1>0, <2>1 DEF Pass, PassCancelled, PassDisabled, PassReserved, PassQueues, PassBusy,
                      PassSleeps, Raise, EndCall
  <2>4. call'[r] = c /\ dev'[r] \notin c.exclude
    BY <1>0, <2>3 DEF PassTakes
  <2> QED BY <2>2, <2>4
<1>2. ASSUME NEW d \in Serials, Hold(r, d) PROVE FALSE
  BY <1>0, <1>2 DEF Hold, HoldCall, NoCall
<1>3. ~ (Poll(r) \/ HoldTimesOut(r) \/ Granted(r) \/ Finish(r))
  BY DEF Poll, HoldTimesOut, Granted, Finish
<1>4. ~ (DeadlinePasses(r) \/ Cancel(r))
  BY DEF DeadlinePasses, Cancel
<1> QED BY <1>1, <1>2, <1>3, <1>4 DEF RequestStep

\* A step of a request leaves the place of every other as it is.
LEMMA OthersStay ==
  ASSUME IInv, NEW r \in Requests, NEW q \in Requests, q # r, RequestStep(q)
  PROVE  pc'[r] = pc[r]
<1>0. pc \in [Requests -> {"idle", "polling", "queued", "using"}]
  BY DEF IInv, TypeOK
<1>1. ASSUME NEW c, NEW p, Pass(q, c, p) PROVE pc'[r] = pc[r]
  BY <1>0, <1>1 DEF Pass, PassCancelled, PassDisabled, PassReserved, PassTakes, PassQueues,
                    PassBusy, PassSleeps, Raise, EndCall
<1>2. ASSUME NEW s, NEW new, NEW A, Acquire(q, s, new, A) PROVE pc'[r] = pc[r]
  BY <1>1, <1>2 DEF Acquire
<1>3. CASE Poll(q)
  BY <1>1, <1>3 DEF Poll
<1>4. ASSUME NEW d, Hold(q, d) PROVE pc'[r] = pc[r]
  BY <1>0, <1>4 DEF Hold
<1>5. CASE HoldTimesOut(q) \/ Finish(q)
  BY <1>0, <1>5 DEF HoldTimesOut, Finish, EndCall
<1>6. CASE Granted(q)
  BY <1>0, <1>6 DEF Granted
<1>7. CASE DeadlinePasses(q) \/ Cancel(q)
  BY <1>7 DEF DeadlinePasses, Cancel
<1> QED BY <1>2, <1>3, <1>4, <1>5, <1>6, <1>7 DEF RequestStep

\* Conversations share the phones fairly: the table drops its oldest entry
\* only, and a new conversation gets a phone that is reserved for no other.
THEOREM FairPins == Spec => PinsAreFair
<1>1. IInv /\ [Next]_vars
      => [\A r \in Requests :
            pc[r] = "idle" /\ pc'[r] = "using" /\ call'[r].kind = "acquire"
              /\ ~call'[r].pinned
            => dev'[r] \notin Reserved(pins, call'[r].session)]_vars
  <2> SUFFICES ASSUME IInv, Next, NEW r \in Requests, pc[r] = "idle", pc'[r] = "using",
                      call'[r].kind = "acquire", ~call'[r].pinned
               PROVE  dev'[r] \notin Reserved(pins, call'[r].session)
    OBVIOUS
  <2>1. ASSUME NEW q \in Requests, RequestStep(q)
        PROVE  dev'[r] \notin Reserved(pins, call'[r].session)
    <3>1. q = r
      BY <2>1, OthersStay
    <3> QED BY <2>1, <3>1, FreshTake
  <2>2. ~ ((\E s \in Sessions : ReleaseSession(s)) \/ PinExpires \/ UpdateSnapshot)
    BY DEF ReleaseSession, PinExpires, UpdateSnapshot
  <2> QED BY <2>1, <2>2 DEF Next
<1> QED BY <1>1, Invariant, PinsOrdered, PTL DEF Spec, PinsAreFair, FreshTakesAreExclusive
=============================================================================
