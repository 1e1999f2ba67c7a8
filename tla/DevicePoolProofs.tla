-------------------------- MODULE DevicePoolProofs --------------------------
(***************************************************************************)
(* Proofs about DevicePool: its types, mutual exclusion on every phone,    *)
(* no lost wake-up, that the phone a call gets fits its arguments, and     *)
(* that it implements exclusive leases, for every set of phones, sessions  *)
(* and concurrent calls.                                                   *)
(***************************************************************************)
EXTENDS DevicePool, TLAPS, SequenceTheorems

\* The inductive invariant.  Mutual exclusion alone is not inductive: a queued
\* request that is granted the lock must find it free (NoLostWakeup: only the
\* head of the queue of a FREE lock is ever woken), and the lock it is granted
\* must be that of a phone (HasDevice).
IInv == TypeOK /\ HasDevice /\ NoLostWakeup /\ MutualExclusion

-----------------------------------------------------------------------------
(* Operators on the pins *)

\* Taking an entry out of a sequence leaves a sequence of the same kind.
LEMMA WithoutType ==
  ASSUME NEW S, NEW s \in Seq(S), NEW i \in 0 .. Len(s)
  PROVE  Without(s, i) \in Seq(S)
<1>1. CASE i = 0
  BY <1>1 DEF Without
<1>2. CASE i # 0
  <2>1. SubSeq(s, 1, i - 1) \in Seq(S)
    BY <1>2, SubSeqProperties, SMT
  <2>2. SubSeq(s, i + 1, Len(s)) \in Seq(S)
    BY <1>2, SubSeqProperties, LenProperties, SMT
  <2> QED BY <1>2, <2>1, <2>2, ConcatProperties DEF Without, RemoveAt
<1> QED BY <1>1, <1>2

\* The position of a session is one of the sequence, or 0.
LEMMA PinIndexRange ==
  ASSUME NEW p \in Seq(Pin), NEW s
  PROVE  /\ PinIndex(p, s) \in 0 .. Len(p)
         /\ (\E i \in DOMAIN p : p[i].session = s)
              => PinIndex(p, s) \in DOMAIN p /\ p[PinIndex(p, s)] \in Pin
<1>1. DOMAIN p = 1 .. Len(p) /\ Len(p) \in Nat
  BY LenProperties
<1>2. CASE \E i \in DOMAIN p : p[i].session = s
  <2>1. PinIndex(p, s) \in DOMAIN p
    BY <1>2 DEF PinIndex
  <2>2. p[PinIndex(p, s)] \in Pin
    BY <2>1, <1>1, ElementOfSeq
  <2> QED BY <2>1, <2>2, <1>1
<1>3. CASE ~ \E i \in DOMAIN p : p[i].session = s
  BY <1>3, <1>1 DEF PinIndex
<1> QED BY <1>2, <1>3

\* release_session and the eviction in _lookup_pin keep the pins a sequence.
LEMMA ForgetType ==
  ASSUME NEW p \in Seq(Pin), NEW s
  PROVE  Forget(p, s) \in Seq(Pin)
BY WithoutType, PinIndexRange DEF Forget

LEMMA LookupType ==
  ASSUME NEW p \in Seq(Pin), NEW s
  PROVE  Lookup(p, s) \in Seq(Pin)
BY ForgetType DEF Lookup

\* _remember_pin keeps the pins a sequence.
LEMMA RememberType ==
  ASSUME NEW p \in Seq(Pin), NEW s \in Sessions, NEW d \in Serials
  PROVE  Remember(p, s, d) \in Seq(Pin)
<1> DEFINE e == [session |-> s, serial |-> d, live |-> TRUE]
           q == Append(Forget(p, s), e)
<1>1. e \in Pin
  BY DEF Pin
<1>2. q \in Seq(Pin) /\ q # <<>>
  BY <1>1, ForgetType, AppendProperties
<1>3. Tail(q) \in Seq(Pin)
  BY <1>2, HeadTailProperties
<1> QED BY <1>2, <1>3 DEF Remember

\* The arguments a call works with are well-formed.
LEMMA CallType ==
  ASSUME TypeOK, NEW s \in Sessions \cup {NoSession}, NEW new \in BOOLEAN,
         NEW A \in SUBSET Serials
  PROVE  AcquireCall(s, new, A) \in Call
<1>1. pins \in Seq(Pin)
  BY DEF TypeOK
<1>2. Reserved(pins, s) \subseteq Serials
  <2>1. \A i \in DOMAIN pins : pins[i] \in Pin
    BY <1>1, ElementOfSeq, LenProperties
  <2> QED BY <2>1 DEF Reserved, Pin
<1>3. HasLivePin(pins, s) => PinnedSerial(pins, s) \in Serials
  BY <1>1, PinIndexRange DEF HasLivePin, PinnedSerial, Pin
<1> QED BY <1>2, <1>3 DEF AcquireCall, Call

LEMMA PinningType ==
  ASSUME NEW p \in Seq(Pin), NEW c \in Call, NEW d \in Serials
  PROVE  Pinning(p, c, d) \in Seq(Pin)
BY RememberType DEF Pinning, Call
-----------------------------------------------------------------------------
(* Steps of the loop.  c are the arguments the pass works with, p the pins. *)

LEMMA EndCallType ==
  ASSUME TypeOK, NEW r \in Requests, EndCall(r)
  PROVE  /\ pc' \in [Requests -> {"idle", "polling", "queued", "using"}]
         /\ call' \in [Requests -> Call]
         /\ dev' \in [Requests -> Serials \cup {NoSerial}]
         /\ late' \in SUBSET Requests
         /\ cancelled' \in SUBSET Requests
BY DEF TypeOK, EndCall, NoCall, Call

\* An exception of a call that holds no lock changes nobody's lock.
LEMMA RaiseStep ==
  ASSUME IInv, NEW r \in Requests, NEW p \in Seq(Pin),
         pc[r] \in {"idle", "polling"}, Raise(r, p), UNCHANGED snapshot
  PROVE  IInv'
<1>1. TypeOK'
  BY EndCallType DEF IInv, TypeOK, Raise, locks
<1>2. HasDevice'
  BY DEF IInv, TypeOK, HasDevice, Raise, EndCall
<1>3. NoLostWakeup'
  BY DEF IInv, NoLostWakeup, Raise, locks
<1>4. MutualExclusion'
  BY DEF IInv, TypeOK, MutualExclusion, Raise, EndCall, locks
<1> QED BY <1>1, <1>2, <1>3, <1>4 DEF IInv

\* Taking a free lock that nobody queues for.
LEMMA TakeStep ==
  ASSUME IInv, NEW r \in Requests, NEW d \in Serials,
         NEW c \in Call, NEW p \in Seq(Pin),
         pc[r] \in {"idle", "polling"}, TakeLock(d),
         dev' = [dev EXCEPT ![r] = d], pc' = [pc EXCEPT ![r] = "using"],
         call' = [call EXCEPT ![r] = c], pins' = p,
         UNCHANGED <<snapshot, late, cancelled>>
  PROVE  IInv'
<1>1. TypeOK'
  BY DEF IInv, TypeOK, TakeLock
<1>2. HasDevice'
  BY DEF IInv, TypeOK, HasDevice
<1>3. NoLostWakeup'
  BY DEF IInv, TypeOK, NoLostWakeup, TakeLock
<1>4. MutualExclusion'
  BY DEF IInv, TypeOK, MutualExclusion, TakeLock
<1> QED BY <1>1, <1>2, <1>3, <1>4 DEF IInv

\* Joining the queue of a lock that is taken or promised to its head waiter.
LEMMA QueueStep ==
  ASSUME IInv, NEW r \in Requests, NEW d \in Serials,
         NEW c \in Call, NEW p \in Seq(Pin),
         pc[r] \in {"idle", "polling"}, JoinQueue(r, d),
         dev' = [dev EXCEPT ![r] = d], pc' = [pc EXCEPT ![r] = "queued"],
         call' = [call EXCEPT ![r] = c], pins' = p,
         UNCHANGED <<snapshot, late, cancelled>>
  PROVE  IInv'
<1>0. waiters[d] \in Seq(Requests)
  BY DEF IInv, TypeOK
<1>1. /\ Append(waiters[d], r) \in Seq(Requests)
      /\ Append(waiters[d], r) # <<>>
  BY <1>0, AppendProperties
<1>2. TypeOK'
  BY <1>1 DEF IInv, TypeOK, JoinQueue
<1>3. HasDevice'
  BY DEF IInv, TypeOK, HasDevice
<1>4. NoLostWakeup'
  BY <1>1 DEF IInv, TypeOK, NoLostWakeup, JoinQueue
<1>5. MutualExclusion'
  BY DEF IInv, TypeOK, MutualExclusion, JoinQueue
<1> QED BY <1>2, <1>3, <1>4, <1>5 DEF IInv

\* A pass of the loop, at the call or later.
LEMMA PassStep ==
  ASSUME IInv, NEW r \in Requests, NEW c \in Call, NEW p \in Seq(Pin),
         pc[r] \in {"idle", "polling"}, Pass(r, c, p), UNCHANGED snapshot
  PROVE  IInv'
<1>0. Eligible(c.allowed) \subseteq Serials
  BY DEF Eligible, IInv, TypeOK
<1>1. CASE PassCancelled(r, p)
  BY <1>1, RaiseStep DEF PassCancelled
<1>2. CASE PassDisabled(r, c, p)
  BY <1>2, RaiseStep DEF PassDisabled
<1>3. CASE PassReserved(r, c, p)
  BY <1>3, RaiseStep DEF PassReserved
<1>4. CASE PassTakes(r, c, p)
  <2>1. PICK d \in Eligible(c.allowed) \ c.exclude :
          TakeLock(d) /\ dev' = [dev EXCEPT ![r] = d] /\ pins' = Pinning(p, c, d)
    BY <1>4 DEF PassTakes
  <2>2. Pinning(p, c, d) \in Seq(Pin)
    BY <1>0, PinningType
  <2> QED BY <1>0, <1>4, <2>1, <2>2, TakeStep DEF PassTakes
<1>5. CASE PassQueues(r, c, p)
  <2>1. PICK d \in Eligible(c.allowed) \ c.exclude :
          ~locked[d] /\ JoinQueue(r, d) /\ dev' = [dev EXCEPT ![r] = d]
    BY <1>5 DEF PassQueues
  <2> QED BY <1>0, <1>5, <2>1, QueueStep DEF PassQueues
<1>6. CASE PassBusy(r, c, p)
  BY <1>6, RaiseStep DEF PassBusy
<1>7. CASE PassSleeps(r, c, p)
  <2>1. TypeOK'
    BY <1>7 DEF IInv, TypeOK, PassSleeps, locks
  <2>2. HasDevice'
    BY <1>7 DEF IInv, TypeOK, HasDevice, PassSleeps
  <2>3. NoLostWakeup'
    BY <1>7 DEF IInv, NoLostWakeup, PassSleeps, locks
  <2>4. MutualExclusion'
    BY <1>7 DEF IInv, TypeOK, MutualExclusion, PassSleeps, locks
  <2> QED BY <2>1, <2>2, <2>3, <2>4 DEF IInv
<1> QED BY <1>1, <1>2, <1>3, <1>4, <1>5, <1>6, <1>7 DEF Pass
-----------------------------------------------------------------------------
(* Steps of a request *)

LEMMA AcquireStep ==
  ASSUME IInv, NEW r \in Requests, NEW s \in Sessions \cup {NoSession},
         NEW new \in BOOLEAN, NEW A \in Pools \cup {AnyDevice},
         Acquire(r, s, new, A)
  PROVE  IInv'
<1> DEFINE p == IF Looks(s, new) THEN Lookup(pins, s) ELSE pins
<1>1. A \in SUBSET Serials
  BY PoolAssumption DEF AnyDevice
<1>2. AcquireCall(s, new, A) \in Call
  BY <1>1, CallType DEF IInv
<1>3. p \in Seq(Pin)
  BY LookupType DEF IInv, TypeOK
<1>4. pc[r] \in {"idle", "polling"} /\ Pass(r, AcquireCall(s, new, A), p) /\ UNCHANGED snapshot
  BY DEF Acquire
<1> HIDE DEF p
<1> QED BY <1>2, <1>3, <1>4, PassStep

LEMMA PollStep ==
  ASSUME IInv, NEW r \in Requests, Poll(r)
  PROVE  IInv'
<1>1. call[r] \in Call /\ pins \in Seq(Pin)
  BY DEF IInv, TypeOK
<1> QED BY <1>1, PassStep DEF Poll

LEMMA HoldStep ==
  ASSUME IInv, NEW r \in Requests, NEW d \in Serials, Hold(r, d)
  PROVE  IInv'
<1>1. HoldCall \in Call /\ pins \in Seq(Pin)
  BY DEF HoldCall, NoCall, Call, IInv, TypeOK
<1>2. CASE TakeLock(d) /\ pc' = [pc EXCEPT ![r] = "using"]
  BY <1>1, <1>2, TakeStep DEF Hold
<1>3. CASE JoinQueue(r, d) /\ pc' = [pc EXCEPT ![r] = "queued"]
  BY <1>1, <1>3, QueueStep DEF Hold
<1> QED BY <1>2, <1>3 DEF Hold

LEMMA HoldTimesOutStep ==
  ASSUME IInv, NEW r \in Requests, HoldTimesOut(r)
  PROVE  IInv'
<1> DEFINE d == dev[r]
<1>1. d \in Serials /\ waiters[d] \in Seq(Requests)
  BY DEF IInv, TypeOK, HasDevice, HoldTimesOut
<1>2. PICK i \in DOMAIN waiters[d] :
        waiters' = [waiters EXCEPT ![d] = RemoveAt(@, i)]
  BY DEF HoldTimesOut
<1>3. RemoveAt(waiters[d], i) \in Seq(Requests)
  <2>1. i \in 1 .. Len(waiters[d])
    BY <1>1, <1>2, LenProperties
  <2> QED BY <1>1, <2>1, WithoutType DEF Without
<1>4. TypeOK'
  <2>1. waiters' \in [Serials -> Seq(Requests)]
    BY <1>1, <1>2, <1>3 DEF IInv, TypeOK
  <2>2. woken' \in [Serials -> BOOLEAN]
    BY DEF IInv, TypeOK, HoldTimesOut
  <2> QED BY <2>1, <2>2, EndCallType DEF IInv, TypeOK, HoldTimesOut
<1>5. HasDevice'
  BY DEF IInv, TypeOK, HasDevice, HoldTimesOut, EndCall
<1>6. NoLostWakeup'
  BY <1>1, <1>2 DEF IInv, TypeOK, NoLostWakeup, HoldTimesOut
<1>7. MutualExclusion'
  BY DEF IInv, TypeOK, MutualExclusion, HoldTimesOut, EndCall
<1> QED BY <1>4, <1>5, <1>6, <1>7 DEF IInv

LEMMA GrantedStep ==
  ASSUME IInv, NEW r \in Requests, Granted(r)
  PROVE  IInv'
<1> DEFINE d == dev[r]
<1>1. d \in Serials /\ waiters[d] \in Seq(Requests) /\ waiters[d] # <<>>
  BY DEF IInv, TypeOK, HasDevice, Granted
<1>2. Tail(waiters[d]) \in Seq(Requests)
  BY <1>1, HeadTailProperties
<1>3. Pinning(pins, call[r], d) \in Seq(Pin)
  BY <1>1, PinningType DEF IInv, TypeOK
<1>4. ~locked[d]
  BY <1>1 DEF IInv, NoLostWakeup, Granted
<1>5. TypeOK'
  BY <1>1, <1>2, <1>3 DEF IInv, TypeOK, Granted
<1>6. HasDevice'
  BY <1>1 DEF IInv, TypeOK, HasDevice, Granted
<1>7. NoLostWakeup'
  BY <1>1 DEF IInv, TypeOK, NoLostWakeup, Granted
<1>8. MutualExclusion'
  BY <1>1, <1>4 DEF IInv, TypeOK, MutualExclusion, Granted
<1> QED BY <1>5, <1>6, <1>7, <1>8 DEF IInv

LEMMA FinishStep ==
  ASSUME IInv, NEW r \in Requests, Finish(r)
  PROVE  IInv'
<1> DEFINE d == dev[r]
<1>1. d \in Serials /\ locked[d]
  BY DEF IInv, TypeOK, HasDevice, MutualExclusion, Finish
<1>2. TypeOK'
  BY EndCallType DEF IInv, TypeOK, Finish, ReleaseLock
<1>3. HasDevice'
  BY DEF IInv, TypeOK, HasDevice, Finish, EndCall
<1>4. NoLostWakeup'
  BY <1>1 DEF IInv, TypeOK, NoLostWakeup, Finish, ReleaseLock
<1>5. MutualExclusion'
  BY <1>1 DEF IInv, TypeOK, MutualExclusion, Finish, ReleaseLock, EndCall
<1> QED BY <1>2, <1>3, <1>4, <1>5 DEF IInv

\* Steps that touch no lock and no call.
LEMMA OtherStep ==
  ASSUME IInv, UNCHANGED <<locks, pc, dev>>, TypeOK'
  PROVE  IInv'
BY DEF IInv, HasDevice, NoLostWakeup, MutualExclusion, locks

LEMMA ReleaseSessionStep ==
  ASSUME IInv, NEW s \in Sessions, ReleaseSession(s)
  PROVE  IInv'
<1>1. Forget(pins, s) \in Seq(Pin)
  BY ForgetType DEF IInv, TypeOK
<1>2. TypeOK'
  BY <1>1 DEF IInv, TypeOK, ReleaseSession, locks
<1> QED BY <1>2, OtherStep DEF ReleaseSession

LEMMA PinExpiresStep ==
  ASSUME IInv, PinExpires
  PROVE  IInv'
<1>1. pins \in Seq(Pin)
  BY DEF IInv, TypeOK
<1>2. PICK i \in DOMAIN pins : pins' = [pins EXCEPT ![i].live = FALSE]
  BY DEF PinExpires
<1>3. pins[i] \in Pin /\ i \in 1 .. Len(pins)
  BY <1>1, <1>2, ElementOfSeq, LenProperties
<1>4. [pins[i] EXCEPT !.live = FALSE] \in Pin
  BY <1>3 DEF Pin
<1>5. pins' \in Seq(Pin)
  BY <1>1, <1>2, <1>3, <1>4, ExceptSeq
<1>6. TypeOK'
  BY <1>5 DEF IInv, TypeOK, PinExpires, locks
<1> QED BY <1>6, OtherStep DEF PinExpires
-----------------------------------------------------------------------------
(* The invariant *)

LEMMA InitIInv == Init => IInv
<1> SUFFICES ASSUME Init PROVE IInv
  OBVIOUS
<1>1. TypeOK
  BY EmptySeq DEF Init, TypeOK, NoCall, Call
<1>2. HasDevice /\ NoLostWakeup /\ MutualExclusion
  BY DEF Init, HasDevice, NoLostWakeup, MutualExclusion
<1> QED BY <1>1, <1>2 DEF IInv

LEMMA NextIInv == IInv /\ [Next]_vars => IInv'
<1> SUFFICES ASSUME IInv, [Next]_vars PROVE IInv'
  OBVIOUS
<1>1. ASSUME NEW r \in Requests, RequestStep(r) PROVE IInv'
  <2>1. CASE \E s \in Sessions \cup {NoSession}, new \in BOOLEAN,
               A \in Pools \cup {AnyDevice} : Acquire(r, s, new, A)
    BY <2>1, AcquireStep
  <2>2. CASE Poll(r)
    BY <2>2, PollStep
  <2>3. CASE \E d \in Serials : Hold(r, d)
    BY <2>3, HoldStep
  <2>4. CASE HoldTimesOut(r)
    BY <2>4, HoldTimesOutStep
  <2>5. CASE Granted(r)
    BY <2>5, GrantedStep
  <2>6. CASE Finish(r)
    BY <2>6, FinishStep
  <2>7. CASE DeadlinePasses(r)
    <3>1. TypeOK'
      BY <2>7 DEF IInv, TypeOK, DeadlinePasses, locks
    <3> QED BY <2>7, <3>1, OtherStep DEF DeadlinePasses
  <2>8. CASE Cancel(r)
    <3>1. TypeOK'
      BY <2>8 DEF IInv, TypeOK, Cancel, locks
    <3> QED BY <2>8, <3>1, OtherStep DEF Cancel
  <2> QED BY <1>1, <2>1, <2>2, <2>3, <2>4, <2>5, <2>6, <2>7, <2>8 DEF RequestStep
<1>2. CASE \E s \in Sessions : ReleaseSession(s)
  BY <1>2, ReleaseSessionStep
<1>3. CASE PinExpires
  BY <1>3, PinExpiresStep
<1>4. CASE UpdateSnapshot
  <2>1. TypeOK'
    BY <1>4 DEF IInv, TypeOK, UpdateSnapshot, locks
  <2> QED BY <1>4, <2>1, OtherStep DEF UpdateSnapshot
<1>5. CASE UNCHANGED vars
  BY <1>5 DEF vars, locks, IInv, TypeOK, HasDevice, NoLostWakeup, MutualExclusion
<1> QED BY <1>1, <1>2, <1>3, <1>4, <1>5 DEF Next

\* Every reachable state of the pool satisfies the inductive invariant.
THEOREM Invariant == Spec => []IInv
BY InitIInv, NextIInv, PTL DEF Spec

\* Every variable of the pool keeps its type: in particular the queues hold
\* requests and the pins hold sessions, phones and flags.
THEOREM TypeCorrect == Spec => []TypeOK
<1>1. IInv => TypeOK
  BY DEF IInv
<1> QED BY <1>1, Invariant, PTL

\* acquire() and hold() give a phone to one request at a time, and the flag of
\* its lock is set exactly while it is in use.
THEOREM Exclusion == Spec => []MutualExclusion
<1>1. IInv => MutualExclusion
  BY DEF IInv
<1> QED BY <1>1, Invariant, PTL

\* A released lock with waiters has woken its head, a taken one nobody.
THEOREM WakeupsKept == Spec => []NoLostWakeup
<1>1. IInv => NoLostWakeup
  BY DEF IInv
<1> QED BY <1>1, Invariant, PTL
-----------------------------------------------------------------------------
(* The phone a call gets fits the arguments it works with *)

\* The arguments of a call that carries a live pin allow that phone alone.
PinnedArgs(c) == c.pinned => \E x \in Serials : c.allowed = {x}

\* What the two invariants on arguments say of one request, and what makes them
\* inductive: a call that has found no phone yet remembers none.
CallFits(r) ==
  /\ PinnedArgs(call[r])
  /\ pc[r] \in {"idle", "polling"} => dev[r] = NoSerial
  /\ pc[r] \in {"queued", "using"} /\ ~call[r].pinned => dev[r] \notin call[r].exclude
  /\ call[r].pinned /\ dev[r] # NoSerial => call[r].allowed = {dev[r]}

ArgsInv == \A r \in Requests : CallFits(r)

\* A step of r leaves the other calls alone.
LEMMA OthersFit ==
  ASSUME IInv, ArgsInv, NEW r \in Requests, CallFits(r)',
         \A q \in Requests \ {r} :
           pc'[q] = pc[q] /\ call'[q] = call[q] /\ dev'[q] = dev[q]
  PROVE  ArgsInv'
BY DEF ArgsInv, CallFits, PinnedArgs

\* A call that is over has no arguments and no phone.
LEMMA EndFits ==
  ASSUME IInv, ArgsInv, NEW r \in Requests, EndCall(r)
  PROVE  ArgsInv'
<1>1. CallFits(r)'
  BY DEF IInv, TypeOK, EndCall, CallFits, PinnedArgs, NoCall
<1> QED BY <1>1, OthersFit DEF IInv, TypeOK, EndCall

\* The phone a pass chooses is one its arguments allow and do not exclude; for
\* a pinned call that leaves the pinned one.
LEMMA ChosenFits ==
  ASSUME IInv, ArgsInv, NEW r \in Requests, NEW c \in Call, PinnedArgs(c),
         NEW d \in Eligible(c.allowed) \ c.exclude,
         NEW where \in {"queued", "using"},
         pc' = [pc EXCEPT ![r] = where], call' = [call EXCEPT ![r] = c],
         dev' = [dev EXCEPT ![r] = d]
  PROVE  ArgsInv'
<1>1. c.pinned => c.allowed = {d}
  BY DEF PinnedArgs, Eligible, AnyDevice
<1>2. pc'[r] = where /\ call'[r] = c /\ dev'[r] = d
  BY DEF IInv, TypeOK
<1>3. CallFits(r)'
  BY <1>1, <1>2 DEF CallFits, PinnedArgs
<1> QED BY <1>3, OthersFit DEF IInv, TypeOK

LEMMA PassFits ==
  ASSUME IInv, ArgsInv, NEW r \in Requests, NEW c \in Call, PinnedArgs(c),
         NEW p, pc[r] \in {"idle", "polling"}, Pass(r, c, p)
  PROVE  ArgsInv'
<1>1. CASE \/ PassCancelled(r, p)
           \/ PassDisabled(r, c, p)
           \/ PassReserved(r, c, p)
           \/ PassBusy(r, c, p)
  BY <1>1, EndFits DEF PassCancelled, PassDisabled, PassReserved, PassBusy, Raise
<1>2. CASE PassTakes(r, c, p)
  BY <1>2, ChosenFits DEF PassTakes
<1>3. CASE PassQueues(r, c, p)
  BY <1>3, ChosenFits DEF PassQueues
<1>4. CASE PassSleeps(r, c, p)
  <2>1. pc'[r] = "polling" /\ call'[r] = c /\ dev'[r] = NoSerial
    BY <1>4 DEF IInv, TypeOK, ArgsInv, CallFits, PassSleeps
  <2>2. CallFits(r)'
    BY <2>1 DEF CallFits, PinnedArgs
  <2> QED BY <1>4, <2>2, OthersFit DEF IInv, TypeOK, PassSleeps
<1> QED BY <1>1, <1>2, <1>3, <1>4 DEF Pass

LEMMA AcquireFits ==
  ASSUME IInv, ArgsInv, NEW r \in Requests, NEW s \in Sessions \cup {NoSession},
         NEW new \in BOOLEAN, NEW A \in Pools \cup {AnyDevice},
         Acquire(r, s, new, A)
  PROVE  ArgsInv'
<1> DEFINE c == AcquireCall(s, new, A)
           p == IF Looks(s, new) THEN Lookup(pins, s) ELSE pins
<1>1. c \in Call
  BY PoolAssumption, CallType DEF IInv, AnyDevice
<1>2. HasLivePin(pins, s) => PinnedSerial(pins, s) \in Serials
  BY PinIndexRange DEF IInv, TypeOK, HasLivePin, PinnedSerial, Pin
<1>3. PinnedArgs(c)
  BY <1>2 DEF AcquireCall, PinnedArgs
<1>4. pc[r] \in {"idle", "polling"} /\ Pass(r, c, p)
  BY DEF Acquire
<1> HIDE DEF c, p
<1> QED BY <1>1, <1>3, <1>4, PassFits

LEMMA RequestFits ==
  ASSUME IInv, ArgsInv, NEW r \in Requests, RequestStep(r)
  PROVE  ArgsInv'
<1>1. CASE \E s \in Sessions \cup {NoSession}, new \in BOOLEAN,
             A \in Pools \cup {AnyDevice} : Acquire(r, s, new, A)
  BY <1>1, AcquireFits
<1>2. CASE Poll(r)
  <2>1. call[r] \in Call /\ PinnedArgs(call[r])
    BY DEF IInv, TypeOK, ArgsInv, CallFits
  <2> QED BY <1>2, <2>1, PassFits DEF Poll
<1>3. CASE \E d \in Serials : Hold(r, d)
  <2>1. PICK d \in Serials : Hold(r, d)
    BY <1>3
  <2>2. call'[r].pinned = FALSE /\ call'[r].exclude = {} /\ pc'[r] \in {"queued", "using"}
    BY <2>1 DEF IInv, TypeOK, Hold, HoldCall, NoCall
  <2>3. CallFits(r)'
    BY <2>2 DEF CallFits, PinnedArgs
  <2> QED BY <2>1, <2>3, OthersFit DEF IInv, TypeOK, Hold
<1>4. CASE HoldTimesOut(r)
  BY <1>4, EndFits DEF HoldTimesOut
<1>5. CASE Granted(r)
  <2>1. CallFits(r)'
    BY <1>5 DEF IInv, TypeOK, ArgsInv, CallFits, PinnedArgs, Granted
  <2> QED BY <1>5, <2>1, OthersFit DEF IInv, TypeOK, Granted
<1>6. CASE Finish(r)
  BY <1>6, EndFits DEF Finish
<1>7. CASE DeadlinePasses(r) \/ Cancel(r)
  BY <1>7 DEF ArgsInv, CallFits, PinnedArgs, DeadlinePasses, Cancel
<1> QED BY <1>1, <1>2, <1>3, <1>4, <1>5, <1>6, <1>7 DEF RequestStep

\* Every reachable call fits its arguments.
LEMMA ArgsInvariant == Spec => []ArgsInv
<1>1. Init => ArgsInv
  BY DEF Init, ArgsInv, CallFits, PinnedArgs, NoCall
<1>2. IInv /\ ArgsInv /\ [Next]_vars => ArgsInv'
  <2> SUFFICES ASSUME IInv, ArgsInv, [Next]_vars PROVE ArgsInv'
    OBVIOUS
  <2>1. CASE \E r \in Requests : RequestStep(r)
    BY <2>1, RequestFits
  <2>2. CASE \/ \E s \in Sessions : ReleaseSession(s)
             \/ PinExpires
             \/ UpdateSnapshot
             \/ UNCHANGED vars
    <3>1. UNCHANGED <<pc, call, dev>>
      BY <2>2 DEF ReleaseSession, PinExpires, UpdateSnapshot, vars
    <3> QED BY <3>1 DEF ArgsInv, CallFits, PinnedArgs
  <2> QED BY <2>1, <2>2 DEF Next
<1> QED BY <1>1, <1>2, Invariant, PTL DEF Spec

\* However long acquire() waits, a call without a live pin ends on no phone that
\* another session had reserved when it came in.
THEOREM ReservationsKnownKept == Spec => []KnownReservationsRespected
<1>1. ArgsInv => KnownReservationsRespected
  BY DEF ArgsInv, CallFits, KnownReservationsRespected
<1> QED BY <1>1, ArgsInvariant, PTL

\* acquire() never gives a later turn of a conversation another phone than the
\* one its session was pinned to when the turn came in.
THEOREM NoSubstitute == Spec => []NeverSubstitutes
<1>1. ArgsInv => NeverSubstitutes
  BY DEF ArgsInv, CallFits, NeverSubstitutes
<1> QED BY <1>1, ArgsInvariant, PTL
-----------------------------------------------------------------------------
(* Refinement: the locks implement DeviceLease *)

LEMMA OnlyOf ==
  /\ Only({}) = NoRequest
  /\ \A r \in Requests : Only({r}) = r
BY DEF Only

\* A phone has no owner exactly when nobody uses it, and its owner uses it.
LEMMA OwnerUses ==
  ASSUME NEW d \in Serials
  PROVE  /\ Owner[d] = NoRequest <=> Users(d) = {}
         /\ Owner[d] # NoRequest => Owner[d] \in Users(d)
<1>1. Users(d) \subseteq Requests
  BY DEF Users
<1>2. CASE Users(d) = {}
  BY <1>2, OnlyOf DEF Owner
<1>3. CASE Users(d) # {}
  <2>1. Only(Users(d)) \in Users(d)
    BY <1>3 DEF Only
  <2> QED BY <1>1, <1>3, <2>1, PoolAssumption DEF Owner
<1> QED BY <1>2, <1>3

LEMMA SameUsers ==
  ASSUME \A d \in Serials : Users(d)' = Users(d)
  PROVE  UNCHANGED Owner
BY DEF Owner

\* A request that starts to run leases its phone.
LEMMA StartsLease ==
  ASSUME IInv, IInv', NEW r \in Requests, NEW d \in Serials,
         pc[r] # "using", ~locked[d],
         pc' = [pc EXCEPT ![r] = "using"], dev' = [dev EXCEPT ![r] = d]
  PROVE  Lease!Next
<1>1. Users(d) = {} /\ Users(d)' = {r}
  BY DEF IInv, TypeOK, MutualExclusion, Users
<1>2. \A e \in Serials \ {d} : Users(e)' = Users(e)
  BY DEF IInv, TypeOK, Users
<1>3. Owner' = [Owner EXCEPT ![d] = r]
  BY <1>1, <1>2, OnlyOf DEF Owner
<1>4. Owner[d] = NoRequest
  BY <1>1, OwnerUses
<1>5. \A e \in Serials : Owner[e] # r
  <2> SUFFICES ASSUME NEW e \in Serials, Owner[e] = r PROVE FALSE
    OBVIOUS
  <2>1. r \in Users(e)
    BY OwnerUses, PoolAssumption
  <2> QED BY <2>1 DEF Users
<1> QED BY <1>3, <1>4, <1>5 DEF Lease!Next, Lease!Lease

\* A request that ends gives its phone back.
LEMMA FinishGivesBack ==
  ASSUME IInv, NEW r \in Requests, Finish(r)
  PROVE  Lease!Next
<1>1. PICK d \in Serials : d = dev[r]
  BY DEF IInv, HasDevice, Finish
<1>2. Users(d) = {r} /\ Users(d)' = {}
  BY <1>1 DEF IInv, TypeOK, MutualExclusion, Users, Finish, EndCall
<1>3. \A e \in Serials \ {d} : Users(e)' = Users(e)
  BY <1>1 DEF IInv, TypeOK, Users, Finish, EndCall
<1>4. Owner[d] = r
  BY <1>1, <1>2, OnlyOf DEF Owner
<1>5. Owner' = [Owner EXCEPT ![d] = NoRequest]
  BY <1>1, <1>2, <1>3, OnlyOf DEF Owner
<1> QED BY <1>4, <1>5 DEF Lease!Next, Lease!GiveBack

\* A request that does not run before the step, nor after it, owns nothing.
LEMMA NoLease ==
  ASSUME IInv, NEW r \in Requests, NEW where \in {"idle", "polling", "queued"},
         NEW d, pc[r] # "using",
         pc' = [pc EXCEPT ![r] = where],
         dev' = dev \/ dev' = [dev EXCEPT ![r] = d]
  PROVE  UNCHANGED Owner
<1>1. \A e \in Serials : Users(e)' = Users(e)
  BY DEF IInv, TypeOK, Users
<1> QED BY <1>1, SameUsers

LEMMA PassLease ==
  ASSUME IInv, IInv', NEW r \in Requests, NEW c, NEW p,
         pc[r] \in {"idle", "polling"}, Pass(r, c, p)
  PROVE  Lease!Next \/ UNCHANGED Owner
<1>1. CASE \/ PassCancelled(r, p)
           \/ PassDisabled(r, c, p)
           \/ PassReserved(r, c, p)
           \/ PassBusy(r, c, p)
  <2>1. EndCall(r)
    BY <1>1 DEF PassCancelled, PassDisabled, PassReserved, PassBusy, Raise
  <2> QED BY <2>1, NoLease DEF EndCall
<1>2. CASE PassTakes(r, c, p)
  <2>1. PICK d \in Eligible(c.allowed) \ c.exclude :
          TakeLock(d) /\ dev' = [dev EXCEPT ![r] = d]
    BY <1>2 DEF PassTakes
  <2>2. d \in Serials
    BY <2>1 DEF Eligible, IInv, TypeOK
  <2> QED BY <1>2, <2>1, <2>2, StartsLease DEF PassTakes, TakeLock
<1>3. CASE PassQueues(r, c, p)
  <2>1. PICK d : dev' = [dev EXCEPT ![r] = d]
    BY <1>3 DEF PassQueues
  <2> QED BY <1>3, <2>1, NoLease DEF PassQueues
<1>4. CASE PassSleeps(r, c, p)
  BY <1>4, NoLease DEF PassSleeps
<1> QED BY <1>1, <1>2, <1>3, <1>4 DEF Pass

LEMMA RequestLease ==
  ASSUME IInv, IInv', NEW r \in Requests, RequestStep(r)
  PROVE  Lease!Next \/ UNCHANGED Owner
<1>1. CASE \E s \in Sessions \cup {NoSession}, new \in BOOLEAN,
             A \in Pools \cup {AnyDevice} : Acquire(r, s, new, A)
  BY <1>1, PassLease DEF Acquire
<1>2. CASE Poll(r)
  BY <1>2, PassLease DEF Poll
<1>3. CASE \E d \in Serials : Hold(r, d)
  <2>1. PICK d \in Serials : Hold(r, d)
    BY <1>3
  <2>2. CASE TakeLock(d) /\ pc' = [pc EXCEPT ![r] = "using"]
    BY <2>1, <2>2, StartsLease DEF Hold, TakeLock
  <2>3. CASE pc' = [pc EXCEPT ![r] = "queued"]
    BY <2>1, <2>3, NoLease DEF Hold
  <2> QED BY <2>1, <2>2, <2>3 DEF Hold
<1>4. CASE HoldTimesOut(r)
  BY <1>4, NoLease DEF HoldTimesOut, EndCall
<1>5. CASE Granted(r)
  <2>1. dev[r] \in Serials /\ ~locked[dev[r]]
    BY <1>5 DEF IInv, HasDevice, NoLostWakeup, Granted
  <2>2. dev' = [dev EXCEPT ![r] = dev[r]]
    BY <1>5 DEF IInv, TypeOK, Granted
  <2> QED BY <1>5, <2>1, <2>2, StartsLease DEF Granted
<1>6. CASE Finish(r)
  BY <1>6, FinishGivesBack
<1>7. CASE DeadlinePasses(r) \/ Cancel(r)
  BY <1>7, SameUsers DEF DeadlinePasses, Cancel, Users
<1> QED BY <1>1, <1>2, <1>3, <1>4, <1>5, <1>6, <1>7 DEF RequestStep

\* The pool implements exclusive leases of its phones.
THEOREM LeaseImplemented == Spec => ImplementsLease
<1>1. Init => Lease!Init
  <2> SUFFICES ASSUME Init PROVE Lease!Init
    OBVIOUS
  <2>1. \A d \in Serials : Users(d) = {}
    BY DEF Init, Users
  <2> QED BY <2>1, OnlyOf DEF Lease!Init, Owner
<1>2. IInv /\ IInv' /\ [Next]_vars => [Lease!Next]_Owner
  <2> SUFFICES ASSUME IInv, IInv', [Next]_vars
               PROVE  Lease!Next \/ UNCHANGED Owner
    OBVIOUS
  <2>1. CASE \E r \in Requests : RequestStep(r)
    BY <2>1, RequestLease
  <2>2. CASE \/ \E s \in Sessions : ReleaseSession(s)
             \/ PinExpires
             \/ UpdateSnapshot
             \/ UNCHANGED vars
    BY <2>2, SameUsers DEF ReleaseSession, PinExpires, UpdateSnapshot, vars, Users
  <2> QED BY <2>1, <2>2 DEF Next
<1> QED BY <1>1, <1>2, Invariant, PTL DEF Spec, ImplementsLease, Lease!Spec
=============================================================================
