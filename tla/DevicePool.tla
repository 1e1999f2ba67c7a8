----------------------------- MODULE DevicePool -----------------------------
(***************************************************************************)
(* The in-memory device pool (devices/pool.py, class DevicePool): which    *)
(* request may run on which phone.                                         *)
(*                                                                         *)
(* A request is one call of acquire() (a sample that needs a phone) or of  *)
(* hold() (a maintenance job that fences one phone).  A finished request   *)
(* slot is used again for a later call.  The pool keeps                    *)
(*   - the snapshot of the devices the monitor last stored,                *)
(*   - one asyncio.Lock per serial: a flag and a FIFO of waiters.  release *)
(*     clears the flag and wakes the head of the FIFO, which takes the     *)
(*     lock only when the event loop runs it: between the two the lock is  *)
(*     free and has waiters,                                               *)
(*   - the session pins, an OrderedDict with the oldest entry first.       *)
(*                                                                         *)
(* Real time is abstracted to two events: a deadline passes (late) and the *)
(* oldest live pin expires.  All pins have the same lifetime and are moved *)
(* to the end when renewed, so pins expire in the order of the sequence.   *)
(* The device list of a pass is tried in the snapshot's order in the code; *)
(* that order is arbitrary here.  A step runs from one await to the next.  *)
(* A device that the snapshot lacks and one it lists as offline or         *)
(* disabled are the same to the pool.                                      *)
(***************************************************************************)
EXTENDS Naturals, SequencesExt

CONSTANTS Serials,      \* serial numbers of the phones
          Sessions,     \* session ids of multi-turn conversations
          Requests,     \* slots for concurrent calls of acquire() and hold()
          Pools,        \* the serial sets a profile may restrict a call to
          MaxSessions,  \* _MAX_SESSIONS
          NoSerial, NoSession, NoRequest

AnyDevice == {}         \* `allowed is None`: no preferred and no allowed serial

ASSUME PoolAssumption ==
  /\ NoSerial \notin Serials
  /\ NoSession \notin Sessions
  /\ NoRequest \notin Requests
  /\ Pools \subseteq SUBSET Serials
  /\ MaxSessions \in Nat \ {0}

VARIABLES snapshot,   \* the serials _snapshot lists as online and enabled
          locked,     \* serial -> the lock's flag
          waiters,    \* serial -> FIFO of requests waiting for the lock
          woken,      \* serial -> the head waiter's future has its result
          pins,       \* _session_pins
          pc,         \* request -> where its call stands; "idle": no call
          call,       \* request -> the arguments its loop works with
          dev,        \* request -> the device it queues for or holds
          late,       \* requests whose deadline has passed
          cancelled   \* requests whose batch was cancelled during the call

locks == <<locked, waiters, woken>>
vars == <<snapshot, locked, waiters, woken, pins, pc, call, dev, late,
          cancelled>>

Pin == [session : Sessions, serial : Serials, live : BOOLEAN]
Call == [kind : {"acquire", "hold"}, session : Sessions \cup {NoSession},
         pinned : BOOLEAN, allowed : SUBSET Serials, exclude : SUBSET Serials]
NoCall == [kind |-> "acquire", session |-> NoSession, pinned |-> FALSE,
           allowed |-> {}, exclude |-> {}]

TypeOK ==
  /\ snapshot \in SUBSET Serials
  /\ locked \in [Serials -> BOOLEAN]
  /\ waiters \in [Serials -> Seq(Requests)]
  /\ woken \in [Serials -> BOOLEAN]
  /\ pins \in Seq(Pin)
  /\ pc \in [Requests -> {"idle", "polling", "queued", "using"}]
  /\ call \in [Requests -> Call]
  /\ dev \in [Requests -> Serials \cup {NoSerial}]
  /\ late \in SUBSET Requests
  /\ cancelled \in SUBSET Requests
-----------------------------------------------------------------------------
(* Session pins.  p is a value of `pins`. *)

Without(s, i) == IF i = 0 THEN s ELSE RemoveAt(s, i)

\* The position of session s among the pins, 0 when it has none.
PinIndex(p, s) ==
  IF \E i \in DOMAIN p : p[i].session = s
  THEN CHOOSE i \in DOMAIN p : p[i].session = s
  ELSE 0

Forget(p, s) == Without(p, PinIndex(p, s))

\* _lookup_pin: an expired entry is deleted on the way.
HasLivePin(p, s) == \E i \in DOMAIN p : p[i].session = s /\ p[i].live
PinnedSerial(p, s) == p[PinIndex(p, s)].serial
LookupConsumes(p, s) == Forget(p, s)                                 \* mutant
Lookup(p, s) == IF HasLivePin(p, s) THEN p ELSE Forget(p, s)

\* Mutants: the fields swapped; an entry renewed where it stands.
RememberSwapped(p, s, d) ==
  LET q == Append(Forget(p, s), [session |-> d, serial |-> s, live |-> TRUE])
  IN  IF Len(q) > MaxSessions THEN Tail(q) ELSE q

RememberInPlace(p, s, d) ==
  LET i == PinIndex(p, s)
      e == [session |-> s, serial |-> d, live |-> TRUE]
      q == IF i = 0 THEN Append(p, e) ELSE [p EXCEPT ![i] = e]
  IN  IF Len(q) > MaxSessions THEN Tail(q) ELSE q

\* _remember_pin: (re)insert at the end, evict the oldest above the limit.
Remember(p, s, d) ==
  LET q == Append(Forget(p, s), [session |-> s, serial |-> d, live |-> TRUE])
  IN  IF Len(q) > MaxSessions THEN Tail(q) ELSE q

Reserved(p, s) ==
  {p[i].serial : i \in {j \in DOMAIN p : p[j].live /\ p[j].session # s}}

-----------------------------------------------------------------------------
(* asyncio.Lock *)

\* Mutant: a newcomer overtakes the waiter that was woken.
TakeLockBarges(d) ==
  /\ ~locked[d]
  /\ locked' = [locked EXCEPT ![d] = TRUE]
  /\ UNCHANGED <<waiters, woken>>

\* lock.acquire() without waiting: only when nobody queues for the lock.
TakeLock(d) ==
  /\ ~locked[d]
  /\ waiters[d] = <<>>
  /\ locked' = [locked EXCEPT ![d] = TRUE]
  /\ UNCHANGED <<waiters, woken>>

JoinQueue(r, d) ==
  /\ locked[d] \/ waiters[d] # <<>>
  /\ waiters' = [waiters EXCEPT ![d] = Append(@, r)]
  /\ UNCHANGED <<locked, woken>>

\* Mutant: nobody is woken.
ReleaseLockSilently(d) ==
  /\ locked' = [locked EXCEPT ![d] = FALSE]
  /\ UNCHANGED <<waiters, woken>>

\* lock.release(): the head of the queue is woken, the flag stays clear.
ReleaseLock(d) ==
  /\ locked' = [locked EXCEPT ![d] = FALSE]
  /\ woken' = [woken EXCEPT ![d] = waiters[d] # <<>>]
  /\ UNCHANGED waiters
-----------------------------------------------------------------------------
(* The acquire() loop *)

Eligible(A) == IF A = AnyDevice THEN snapshot ELSE snapshot \cap A
PoolDead(A) == A # AnyDevice /\ Eligible(A) = {}

\* The call of r is over, by its exception or by the end of its body.
EndCall(r) ==
  /\ pc' = [pc EXCEPT ![r] = "idle"]
  /\ call' = [call EXCEPT ![r] = NoCall]
  /\ dev' = [dev EXCEPT ![r] = NoSerial]
  /\ late' = late \ {r}
  /\ cancelled' = cancelled \ {r}

\* A pass raises: the call holds nothing.
Raise(r, p) == EndCall(r) /\ pins' = p /\ UNCHANGED locks

Pinning(p, c, d) == IF c.session = NoSession THEN p ELSE Remember(p, c.session, d)

\* One pass of the loop for request r with arguments c; p are the pins.
\* DeviceBusy("cancelled while waiting for device")
PassCancelled(r, p) == r \in cancelled /\ Raise(r, p)

\* DeviceDisabled
PassDisabled(r, c, p) ==
  /\ r \notin cancelled
  /\ PoolDead(c.allowed)
  /\ Raise(r, p)

AllReserved(c) ==
  /\ c.session # NoSession
  /\ Eligible(c.allowed) # {}
  /\ Eligible(c.allowed) \subseteq c.exclude

\* DeviceReserved
PassReserved(r, c, p) ==
  /\ r \notin cancelled
  /\ AllReserved(c)
  /\ Raise(r, p)

\* Mutant: the reservations are not taken out of the candidates.
PassTakesAny(r, c, p) ==
  /\ r \notin cancelled
  /\ \E d \in Eligible(c.allowed) :
       /\ TakeLock(d)
       /\ dev' = [dev EXCEPT ![r] = d]
       /\ pins' = Pinning(p, c, d)
  /\ pc' = [pc EXCEPT ![r] = "using"]
  /\ call' = [call EXCEPT ![r] = c]
  /\ UNCHANGED <<late, cancelled>>

\* `lock.locked()` is false: this is the device.  It is taken at once, or the
\* call queues behind a waiter that was woken and has not run yet.
PassTakes(r, c, p) ==
  /\ r \notin cancelled
  /\ \E d \in Eligible(c.allowed) \ c.exclude :
       /\ TakeLock(d)
       /\ dev' = [dev EXCEPT ![r] = d]
       /\ pins' = Pinning(p, c, d)
  /\ pc' = [pc EXCEPT ![r] = "using"]
  /\ call' = [call EXCEPT ![r] = c]
  /\ UNCHANGED <<late, cancelled>>

PassQueues(r, c, p) ==
  /\ r \notin cancelled
  /\ \E d \in Eligible(c.allowed) \ c.exclude :
       /\ ~locked[d]
       /\ JoinQueue(r, d)
       /\ dev' = [dev EXCEPT ![r] = d]
  /\ pc' = [pc EXCEPT ![r] = "queued"]
  /\ call' = [call EXCEPT ![r] = c]
  /\ pins' = p
  /\ UNCHANGED <<late, cancelled>>

Fruitless(c) ==
  /\ ~PoolDead(c.allowed)
  /\ ~AllReserved(c)
  /\ \A d \in Eligible(c.allowed) \ c.exclude : locked[d]

\* Mutant: the deadline is computed afresh in the loop.
PassBusyRestarts(r, c, p) ==
  /\ r \notin cancelled
  /\ Fruitless(c)
  /\ r \in late
  /\ late' = late \ {r}
  /\ pins' = p
  /\ UNCHANGED <<locks, pc, call, dev, cancelled>>

\* DeviceBusy("no device available within ...")
PassBusy(r, c, p) ==
  /\ r \notin cancelled
  /\ Fruitless(c)
  /\ r \in late
  /\ Raise(r, p)

PassSleeps(r, c, p) ==
  /\ r \notin cancelled
  /\ Fruitless(c)
  /\ r \notin late
  /\ pc' = [pc EXCEPT ![r] = "polling"]
  /\ call' = [call EXCEPT ![r] = c]
  /\ pins' = p
  /\ UNCHANGED <<locks, dev, late, cancelled>>

Pass(r, c, p) ==
  \/ PassCancelled(r, p)
  \/ PassDisabled(r, c, p)
  \/ PassReserved(r, c, p)
  \/ PassTakes(r, c, p)
  \/ PassQueues(r, c, p)
  \/ PassBusy(r, c, p)
  \/ PassSleeps(r, c, p)
-----------------------------------------------------------------------------
(* Steps of the requests *)

\* The arguments the loop works with.  A live pin overrides what the profile
\* allows and sees no reservation; any other call excludes what is reserved by
\* other sessions NOW: the set is not computed again while the call waits.
Looks(s, new) == s # NoSession /\ ~new

\* Mutants: the pin widens the profile's set; new_session sees no reservation.
AcquireCallWidens(s, new, A) ==
  IF Looks(s, new) /\ HasLivePin(pins, s)
  THEN [kind |-> "acquire", session |-> s, pinned |-> TRUE,
        allowed |-> A \cup {PinnedSerial(pins, s)}, exclude |-> {}]
  ELSE [kind |-> "acquire", session |-> s, pinned |-> FALSE,
        allowed |-> A, exclude |-> Reserved(pins, s)]

AcquireCallNewTakesAll(s, new, A) ==
  IF Looks(s, new) /\ HasLivePin(pins, s)
  THEN [kind |-> "acquire", session |-> s, pinned |-> TRUE,
        allowed |-> {PinnedSerial(pins, s)}, exclude |-> {}]
  ELSE [kind |-> "acquire", session |-> s, pinned |-> FALSE,
        allowed |-> A, exclude |-> IF new THEN {} ELSE Reserved(pins, s)]

AcquireCall(s, new, A) ==
  IF Looks(s, new) /\ HasLivePin(pins, s)
  THEN [kind |-> "acquire", session |-> s, pinned |-> TRUE,
        allowed |-> {PinnedSerial(pins, s)}, exclude |-> {}]
  ELSE [kind |-> "acquire", session |-> s, pinned |-> FALSE,
        allowed |-> A, exclude |-> Reserved(pins, s)]

\* acquire() up to its first await: the look-up of the pin, which may delete
\* an expired entry, and the first pass.
Acquire(r, s, new, A) ==
  /\ pc[r] = "idle"
  /\ new => s # NoSession
  /\ Pass(r, AcquireCall(s, new, A), IF Looks(s, new) THEN Lookup(pins, s) ELSE pins)
  /\ UNCHANGED snapshot

\* A later pass, after asyncio.sleep(0.1).
Poll(r) ==
  /\ pc[r] = "polling"
  /\ Pass(r, call[r], pins)
  /\ UNCHANGED snapshot

HoldCall == [NoCall EXCEPT !.kind = "hold"]

\* hold(): wait_for runs lock.acquire() in a task of its own.
Hold(r, d) ==
  /\ pc[r] = "idle"
  /\ dev' = [dev EXCEPT ![r] = d]
  /\ call' = [call EXCEPT ![r] = HoldCall]
  /\ \/ TakeLock(d) /\ pc' = [pc EXCEPT ![r] = "using"]
     \/ JoinQueue(r, d) /\ pc' = [pc EXCEPT ![r] = "queued"]
  /\ UNCHANGED <<snapshot, pins, late, cancelled>>

\* Mutants: a wake-up dies with the waiter; the waiter stays in the queue.
HoldTimesOutDropsWakeup(r) ==
  /\ pc[r] = "queued" /\ call[r].kind = "hold"
  /\ \E i \in DOMAIN waiters[dev[r]] :
       /\ waiters[dev[r]][i] = r
       /\ waiters' = [waiters EXCEPT ![dev[r]] = RemoveAt(@, i)]
  /\ woken' = [woken EXCEPT ![dev[r]] = @ /\ Head(waiters[dev[r]]) # r]
  /\ EndCall(r)
  /\ UNCHANGED <<snapshot, locked, pins>>

HoldTimesOutStays(r) ==
  /\ pc[r] = "queued" /\ call[r].kind = "hold"
  /\ EndCall(r)
  /\ UNCHANGED <<snapshot, locks, pins>>

\* wait_for gives up: the waiter leaves the queue, and a wake-up it may have
\* had goes to the next one.
HoldTimesOut(r) ==
  /\ pc[r] = "queued" /\ call[r].kind = "hold"
  /\ \E i \in DOMAIN waiters[dev[r]] :
       /\ waiters[dev[r]][i] = r
       /\ waiters' = [waiters EXCEPT ![dev[r]] = RemoveAt(@, i)]
  /\ woken' = [woken EXCEPT ![dev[r]] = ~locked[dev[r]] /\ waiters'[dev[r]] # <<>>]
  /\ EndCall(r)
  /\ UNCHANGED <<snapshot, locked, pins>>

\* The woken head of the queue runs: it has the lock, and a session call pins
\* its device now.  Nothing else is looked at again.
Granted(r) ==
  /\ pc[r] = "queued"
  /\ waiters[dev[r]] # <<>> /\ Head(waiters[dev[r]]) = r
  /\ woken[dev[r]]
  /\ locked' = [locked EXCEPT ![dev[r]] = TRUE]
  /\ waiters' = [waiters EXCEPT ![dev[r]] = Tail(@)]
  /\ woken' = [woken EXCEPT ![dev[r]] = FALSE]
  /\ pins' = Pinning(pins, call[r], dev[r])
  /\ pc' = [pc EXCEPT ![r] = "using"]
  /\ UNCHANGED <<snapshot, call, dev, late, cancelled>>

\* The body of the `async with` ends, normally or by an exception.
Finish(r) ==
  /\ pc[r] = "using"
  /\ ReleaseLock(dev[r])
  /\ EndCall(r)
  /\ UNCHANGED <<snapshot, pins>>
-----------------------------------------------------------------------------
(* Steps around the requests *)

\* time.monotonic() reaches the deadline of a polling acquire(); one that
\* queues for a lock never looks at its deadline again.
DeadlinePasses(r) ==
  /\ pc[r] = "polling"
  /\ r \notin late
  /\ late' = late \cup {r}
  /\ UNCHANGED <<snapshot, locks, pins, pc, call, dev, cancelled>>

\* cancel_event.set() while the acquire() of one of the batch's samples waits.
Cancel(r) ==
  /\ pc[r] \in {"polling", "queued"} /\ call[r].kind = "acquire"
  /\ r \notin cancelled
  /\ cancelled' = cancelled \cup {r}
  /\ UNCHANGED <<snapshot, locks, pins, pc, call, dev, late>>

\* release_session: an end_session sample or DELETE /devices/sessions/{id}.
ReleaseSession(s) ==
  /\ PinIndex(pins, s) # 0
  /\ pins' = Forget(pins, s)
  /\ UNCHANGED <<snapshot, locks, pc, call, dev, late, cancelled>>

\* _SESSION_TTL_SEC have passed since the oldest live pin was remembered.
PinExpires ==
  /\ \E i \in DOMAIN pins :
       /\ pins[i].live
       /\ \A j \in 1 .. i - 1 : ~pins[j].live
       /\ pins' = [pins EXCEPT ![i].live = FALSE]
  /\ UNCHANGED <<snapshot, locks, pc, call, dev, late, cancelled>>

\* update_snapshot: the monitor stored another view of the devices.
UpdateSnapshot ==
  /\ snapshot' \in SUBSET Serials
  /\ UNCHANGED <<locks, pins, pc, call, dev, late, cancelled>>
-----------------------------------------------------------------------------
Init ==
  /\ snapshot = {}
  /\ locked = [d \in Serials |-> FALSE]
  /\ waiters = [d \in Serials |-> <<>>]
  /\ woken = [d \in Serials |-> FALSE]
  /\ pins = <<>>
  /\ pc = [r \in Requests |-> "idle"]
  /\ call = [r \in Requests |-> NoCall]
  /\ dev = [r \in Requests |-> NoSerial]
  /\ late = {}
  /\ cancelled = {}

RequestStep(r) ==
  \/ \E s \in Sessions \cup {NoSession}, new \in BOOLEAN,
        A \in Pools \cup {AnyDevice} : Acquire(r, s, new, A)
  \/ Poll(r)
  \/ \E d \in Serials : Hold(r, d)
  \/ HoldTimesOut(r)
  \/ Granted(r)
  \/ Finish(r)
  \/ DeadlinePasses(r)
  \/ Cancel(r)

Next ==
  \/ \E r \in Requests : RequestStep(r)
  \/ \E s \in Sessions : ReleaseSession(s)
  \/ PinExpires
  \/ UpdateSnapshot

Spec == Init /\ [][Next]_vars

\* sleep(0.1) and a woken future are always run by the event loop; the body
\* (an executor run with a timeout, a bounded maintenance job) ends; time passes.
Fairness ==
  \A r \in Requests :
    /\ WF_vars(Poll(r))
    /\ WF_vars(Granted(r))
    /\ WF_vars(Finish(r))
    /\ WF_vars(DeadlinePasses(r))

FairSpec == Spec /\ Fairness
-----------------------------------------------------------------------------
(* Safety *)

\* At most one request runs on a phone, and the lock's flag says which phones
\* are in use: what makes a sample, and a maintenance job that fences the
\* phone, the only one to drive it ("a sample can't grab the device while it's
\* held (and vice versa)", hold()).
MutualExclusion ==
  \A d \in Serials :
    /\ locked[d] <=> \E r \in Requests : pc[r] = "using" /\ dev[r] = d
    /\ \A r, q \in Requests :
         pc[r] = "using" /\ dev[r] = d /\ pc[q] = "using" /\ dev[q] = d => r = q

\* A request that queues or runs has a phone to queue for or to run on.
HasDevice == \A r \in Requests : pc[r] \in {"queued", "using"} => dev[r] \in Serials

\* The wake-up of a released lock is never lost: while somebody queues for a
\* free lock the head of the queue has been woken, and nobody is woken for a
\* lock that is taken.
NoLostWakeup ==
  \A d \in Serials : woken[d] <=> (~locked[d] /\ waiters[d] # <<>>)

\* The FIFO of a lock holds exactly the requests suspended in lock.acquire()
\* for it, each once: a hold() that timed out leaves nothing behind.
QueuesAreExact ==
  \A d \in Serials :
    /\ \A i, j \in DOMAIN waiters[d] : waiters[d][i] = waiters[d][j] => i = j
    /\ \A r \in Requests : Contains(waiters[d], r) <=> (pc[r] = "queued" /\ dev[r] = d)

\* A request that carries no live pin never gets a phone that another session
\* had reserved when the request came in, however long it waits and whatever
\* happens to that reservation meanwhile.
KnownReservationsRespected ==
  \A r \in Requests :
    pc[r] \in {"queued", "using"} /\ ~call[r].pinned => dev[r] \notin call[r].exclude

\* The next turn of a conversation runs on the phone of the previous turn or
\* on none at all: "never silently substitutes a different device".
NeverSubstitutes ==
  \A r \in Requests :
    call[r].pinned /\ dev[r] # NoSerial => call[r].allowed = {dev[r]}

\* The OrderedDict's order is the order of expiry: no session is listed twice,
\* and an entry that has expired never stands behind one that is live, so that
\* evicting from the front costs a live reservation only when all are live.
OldestPinFirst ==
  /\ Len(pins) <= MaxSessions
  /\ \A i, j \in DOMAIN pins :
       /\ pins[i].session = pins[j].session => i = j
       /\ i < j /\ pins[i].live => pins[j].live

\* A call without a live pin that is served in its first pass never gets a
\* phone that is reserved for another session at that moment.
FreshTakesAreExclusive ==
  [][\A r \in Requests :
       pc[r] = "idle" /\ pc'[r] = "using" /\ call'[r].kind = "acquire"
         /\ ~call'[r].pinned
       => dev'[r] \notin Reserved(pins, call'[r].session)]_vars

\* A reservation ends only by release_session, by expiry, by a new pin of the
\* same session, or by eviction when _MAX_SESSIONS sessions hold a pin.
ReservationsLast ==
  [][\A s \in Sessions :
       HasLivePin(pins, s) /\ ~HasLivePin(pins', s)
       => \/ ReleaseSession(s)
          \/ PinExpires
          \/ Len(pins) = MaxSessions /\ pins[1].session = s]_vars

\* Conversations share the phones fairly: a reservation is dropped for want of
\* room only when it is the oldest, and a new one is only on a free phone.
PinsAreFair == []OldestPinFirst /\ FreshTakesAreExclusive

(* The lease that the locks implement *)

Users(d) == {r \in Requests : pc[r] = "using" /\ dev[r] = d}
Only(S) == IF S = {} THEN NoRequest ELSE CHOOSE r \in S : TRUE
Owner == [d \in Serials |-> Only(Users(d))]
Lease == INSTANCE DeviceLease WITH owner <- Owner, Nobody <- NoRequest

\* Flags, queues and wake-ups together implement exclusive leases: every step
\* leases a free phone to a request that has none, gives one back, or changes
\* nobody's phone.
ImplementsLease == Lease!Spec

(* Liveness *)

\* A call that polls gets an answer, and a call that queues for a lock gets
\* the lock or gives up: nobody waits for ever.
PollingEnds == \A r \in Requests : pc[r] = "polling" ~> pc[r] # "polling"
QueueingEnds == \A r \in Requests : pc[r] = "queued" ~> pc[r] # "queued"
-----------------------------------------------------------------------------
(* What the docstring of acquire() says and the code does not do *)

\* "once a device is pinned to a session_id, no other request can pick it up":
\* no acquire() begins to run on a phone with a live pin of another session.
ReservationIsStrict ==
  [][\A r \in Requests :
       pc[r] # "using" /\ pc'[r] = "using" /\ call'[r].kind = "acquire"
       => dev'[r] \notin Reserved(pins, call'[r].session)]_vars

\* "polls until one frees up or the timeout / cancel fires": a call that has
\* been cancelled does not get a phone any more.
CancelledGetsNoDevice ==
  [][\A r \in Requests :
       r \in cancelled /\ pc[r] # "using" => pc'[r] # "using"]_vars

=============================================================================
