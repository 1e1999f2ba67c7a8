---------------------------- MODULE EventStream -----------------------------
(***************************************************************************)
(* How one batch's page follows the batch: the scheduler writes the row    *)
(* and publishes on BatchEventBus (events/bus.py), GET /batches/{id} reads *)
(* a snapshot and GET /batches/{id}/events replays and streams             *)
(* (api/batches.py), the browser's useBatchStream hook loads, connects,    *)
(* drops what it knows already and connects again (useBatchStream.ts).     *)
(*                                                                         *)
(* One page stands for all: subscriptions share nothing.  The two events   *)
(* of a finished sample are published together and are one event here;     *)
(* "running" updates change nothing a snapshot has.  Statuses are "active" *)
(* and "ended"; the row of a deleted batch is "absent".                    *)
(***************************************************************************)
EXTENDS Naturals, SequencesExt

CONSTANTS Total,        \* samples of the batch
          BufferSize,   \* buffer_size of the bus
          MaxCuts,      \* bound: connections that break
          MaxReloads,   \* bound: later loads (an invalidated query)
          MaxRestarts   \* bound: kills of the process

ASSUME StreamAssumption ==
  /\ Total \in Nat /\ BufferSize \in Nat \ {0}
  /\ MaxCuts \in Nat /\ MaxReloads \in Nat /\ MaxRestarts \in Nat

VARIABLES row,      \* the batch row
          told,     \* what the published events have said of it
          seq,      \* _seq of the batch
          buffer,   \* _buffer of the batch
          conn,     \* the page's stream: "idle" before the first load
          pending,  \* replayed and queued events the page has not read yet
          load,     \* the GET under way, with the row it has read
          seqRef,   \* the page: last seq it has seen
          view,     \* the page: the batch it shows
          cuts, reloads, restarts

server == <<row, told, seq, buffer>>
page == <<seqRef, view>>
bounds == <<cuts, reloads, restarts>>
vars == <<server, conn, pending, load, page, bounds>>

Batch == [done : 0 .. Total, state : {"active", "ended", "absent"}]
Event == [seq : Nat, done : 0 .. Total, state : {"active", "ended"}]
NewBatch == [done |-> 0, state |-> "active"]
NoLoad == [stage |-> "none", row |-> NewBatch, seq |-> 0]

TypeOK ==
  /\ row \in Batch /\ told \in Batch /\ view \in Batch
  /\ seq \in Nat /\ seqRef \in Nat
  /\ buffer \in Seq(Event) /\ Len(buffer) <= BufferSize
  /\ pending \in Seq(Event)
  /\ conn \in {"idle", "connecting", "open", "stopped"}
  /\ load \in [stage : {"none", "row", "seq", "reply"}, row : Batch, seq : Nat]
  /\ cuts \in 0 .. MaxCuts /\ reloads \in 0 .. MaxReloads /\ restarts \in 0 .. MaxRestarts
-----------------------------------------------------------------------------
(* The scheduler: each change is committed, then published *)

\* Mutants: without a bound; without the live queues.
PublishUnbounded(b) ==
  LET e == [seq |-> seq + 1, done |-> b.done, state |-> b.state]
  IN /\ seq' = seq + 1
     /\ told' = b
     /\ buffer' = Append(buffer, e)
     /\ pending' = IF conn = "open" THEN Append(pending, e) ELSE pending
     /\ UNCHANGED <<row, conn, load, page, bounds>>

PublishBuffered(b) ==
  LET e == [seq |-> seq + 1, done |-> b.done, state |-> b.state]
      all == Append(buffer, e)
  IN /\ seq' = seq + 1
     /\ told' = b
     /\ buffer' = SubSeq(all, IF Len(all) > BufferSize THEN 2 ELSE 1, Len(all))
     /\ UNCHANGED <<row, conn, pending, load, page, bounds>>

\* publish(): number, buffer (a deque of BufferSize) and queues in one step.
Publish(b) ==
  LET e == [seq |-> seq + 1, done |-> b.done, state |-> b.state]
      all == Append(buffer, e)
  IN /\ seq' = seq + 1
     /\ told' = b
     /\ buffer' = SubSeq(all, IF Len(all) > BufferSize THEN 2 ELSE 1, Len(all))
     /\ pending' = IF conn = "open" THEN Append(pending, e) ELSE pending
     /\ UNCHANGED <<row, conn, load, page, bounds>>

\* update_batch_progress, under progress_lock until it is published.
CommitProgress ==
  /\ row.state = "active" /\ row = told /\ row.done < Total
  /\ row' = [row EXCEPT !.done = @ + 1]
  /\ UNCHANGED <<told, seq, buffer, conn, pending, load, page, bounds>>

PublishProgress == told.done < row.done /\ Publish([told EXCEPT !.done = row.done])

\* update_batch_status with the final status.
CommitEnd ==
  /\ row.state = "active" /\ row = told /\ row.done = Total
  /\ row' = [row EXCEPT !.state = "ended"]
  /\ UNCHANGED <<told, seq, buffer, conn, pending, load, page, bounds>>

\* batch_done
\* Mutant: published before the row is written.
PublishEndEarly ==
  /\ row = told /\ row.done = Total /\ told.state = "active"
  /\ Publish([told EXCEPT !.state = "ended"])

PublishEnd ==
  /\ row.state # "active" /\ told.state = "active"
  /\ Publish([told EXCEPT !.state = "ended"])

\* DELETE of a terminal batch; the bus is not told.
Delete ==
  /\ row.state = "ended"
  /\ row' = [row EXCEPT !.state = "absent"]
  /\ UNCHANGED <<told, seq, buffer, conn, pending, load, page, bounds>>

\* The process is killed and boots: the row of an active batch is cancelled,
\* the bus is empty, requests and streams break.
Restart ==
  /\ restarts < MaxRestarts
  /\ restarts' = restarts + 1
  /\ row' = [row EXCEPT !.state = IF @ = "active" THEN "ended" ELSE @]
  /\ told' = [done |-> row.done, state |-> "ended"]
  /\ seq' = 0
  /\ buffer' = <<>>
  /\ conn' = IF conn = "open" THEN "connecting" ELSE conn
  /\ pending' = <<>>
  /\ load' = NoLoad
  /\ UNCHANGED <<page, cuts, reloads>>
-----------------------------------------------------------------------------
(* GET /batches/{id} *)

\* The first load of a page, or a later one of a query that was invalidated.
BeginLoad ==
  /\ load.stage = "none"
  /\ \/ conn = "idle" /\ UNCHANGED reloads
     \/ conn # "idle" /\ reloads < MaxReloads /\ reloads' = reloads + 1
  /\ load' = [NoLoad EXCEPT !.stage = "row"]
  /\ UNCHANGED <<server, conn, pending, page, cuts, restarts>>

\* get_batch: the row as it is, or a 404.
ReadRow ==
  /\ load.stage = "row"
  /\ load' = IF row.state = "absent" THEN NoLoad
             ELSE [load EXCEPT !.stage = "seq", !.row = row]
  /\ UNCHANGED <<server, conn, pending, page, bounds>>

\* The sample rows have been read meanwhile; last_seq is read at the end.
ReadSeq ==
  /\ load.stage = "seq"
  /\ load' = [load EXCEPT !.stage = "reply", !.seq = seq]
  /\ UNCHANGED <<server, conn, pending, page, bounds>>

\* Mutant: seqRef is left alone.
LoadedUnnumbered ==
  /\ load.stage = "reply"
  /\ load' = NoLoad
  /\ view' = load.row
  /\ conn' = IF conn = "idle" THEN "connecting" ELSE conn
  /\ UNCHANGED <<server, pending, seqRef, bounds>>

\* The queryFn sets seqRef and its answer replaces the page's data; the first
\* success starts the effect that connects.
Loaded ==
  /\ load.stage = "reply"
  /\ load' = NoLoad
  /\ seqRef' = load.seq
  /\ view' = load.row
  /\ conn' = IF conn = "idle" THEN "connecting" ELSE conn
  /\ UNCHANGED <<server, pending, bounds>>
-----------------------------------------------------------------------------
(* GET /batches/{id}/events *)

\* replay_since: the events numbered after n, the buffer being in their order.
ReplaySince(n) ==
  LET later == {i \in DOMAIN buffer : buffer[i].seq > n}
  IN SubSeq(buffer, IF later = {} THEN Len(buffer) + 1 ELSE Min(later), Len(buffer))

\* subscribe(), then replay_since(after_seq), with no await between them.
\* Mutant: the stream only subscribes.
ConnectLive ==
  /\ conn = "connecting"
  /\ conn' = "open"
  /\ pending' = <<>>
  /\ UNCHANGED <<server, load, page, bounds>>

Connect ==
  /\ conn = "connecting"
  /\ conn' = "open"
  /\ pending' = ReplaySince(seqRef)
  /\ UNCHANGED <<server, load, page, bounds>>

\* applyEvent: a progress event carries no status.
Applied(e) == [view EXCEPT !.done = e.done,
                           !.state = IF e.state = "ended" THEN "ended" ELSE @]

\* An event is read.  The server ends the stream after batch_done: the hook
\* stops if it has applied it and connects again if it has dropped it.
Receive ==
  /\ conn = "open" /\ pending # <<>>
  /\ LET e == Head(pending)
     IN IF e.seq <= seqRef
        THEN /\ conn' = IF e.state = "ended" THEN "connecting" ELSE conn
             /\ UNCHANGED page
        ELSE /\ seqRef' = e.seq
             /\ view' = Applied(e)
             /\ conn' = IF e.state = "ended" THEN "stopped" ELSE conn
  /\ pending' = Tail(pending)
  /\ UNCHANGED <<server, load, bounds>>

\* The connection breaks; the hook connects again after RECONNECT_DELAY_MS.
Cut ==
  /\ conn = "open" /\ cuts < MaxCuts
  /\ cuts' = cuts + 1
  /\ conn' = "connecting"
  /\ pending' = <<>>
  /\ UNCHANGED <<server, load, page, reloads, restarts>>
-----------------------------------------------------------------------------
Init ==
  /\ row = NewBatch /\ told = NewBatch
  /\ seq = 0 /\ buffer = <<>>
  /\ conn = "idle" /\ pending = <<>>
  /\ load = NoLoad
  /\ seqRef = 0 /\ view = NewBatch
  /\ cuts = 0 /\ reloads = 0 /\ restarts = 0

Write == CommitProgress \/ PublishProgress \/ CommitEnd \/ PublishEnd
Read == ReadRow \/ ReadSeq \/ Loaded
Follow == Connect \/ Receive

Next == Write \/ Delete \/ Restart \/ BeginLoad \/ Read \/ Follow \/ Cut

Spec == Init /\ [][Next]_vars

\* The scheduler's task and the requests are run by the event loop; samples
\* end; the hook retries for ever and a connection that is not cut delivers.
Fairness == WF_vars(Write) /\ WF_vars(Read) /\ WF_vars(Follow)

FairSpec == Spec /\ Fairness
-----------------------------------------------------------------------------
(* Safety.  Those marked (one load) are about a page that has loaded once and *)
(* a process that has not been killed since.                                *)

LoadedOnce == reloads = 0 /\ restarts = 0

\* "nothing published between here and the replay read below can fall in the
\* gap": what an open stream is still to deliver is a run of consecutive events
\* up to the last one published, none of them twice.
StreamIsContiguous ==
  conn = "open" =>
    \A i \in DOMAIN pending : pending[i].seq = seq - Len(pending) + i

\* (one load) The run begins right after what the page has seen; only events
\* that the buffer had overwritten before the page connected are missing.
NothingSkipped ==
  conn = "open" /\ LoadedOnce => seqRef + Len(pending) >= seq \/ Len(pending) >= BufferSize

\* (one load) What the page shows never goes back: progress does not shrink and a batch
\* that has ended is not active again.
ViewNeverBack ==
  [][conn # "idle" /\ reloads = 0 =>
       /\ view'.done >= view.done
       /\ view.state = "ended" => view'.state = "ended"]_vars

\* The page never runs ahead of the database: what it shows is committed.
ViewIsCommitted ==
  /\ view.done <= row.done
  /\ view.state = "ended" => row.state # "active"

\* (one load) A page that has loaded a batch whose batch_done is still to come will show
\* its end, through cut connections and overwritten buffers.
EndWillShow ==
  conn # "idle" /\ told.state = "active" ~> view.state = "ended" \/ ~LoadedOnce

\* What the page shows, and what is on its way to it, is what was committed.
PageIsTrue == TypeOK /\ StreamIsContiguous /\ NothingSkipped /\ ViewIsCommitted
-----------------------------------------------------------------------------
(* What docs and comments say and the code does not do *)

\* "seq: the last event seq absorbed into the snapshot".
SeqIsAbsorbed ==
  conn # "idle" =>
    \A i \in DOMAIN buffer :
      buffer[i].seq <= seqRef =>
        /\ buffer[i].done <= view.done
        /\ buffer[i].state = "ended" => view.state = "ended"

=============================================================================
