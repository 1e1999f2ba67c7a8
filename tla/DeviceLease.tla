---------------------------- MODULE DeviceLease -----------------------------
(***************************************************************************)
(* What the device pool promises, whatever its locks and queues do: a      *)
(* phone is leased to one request at a time, and a request leases at most  *)
(* one phone.                                                              *)
(***************************************************************************)
CONSTANTS Serials, Requests, Nobody

VARIABLE owner      \* serial -> the request that runs on the phone, or Nobody

Init == owner = [d \in Serials |-> Nobody]

Lease(r, d) ==
  /\ owner[d] = Nobody
  /\ \A e \in Serials : owner[e] # r
  /\ owner' = [owner EXCEPT ![d] = r]

GiveBack(r, d) ==
  /\ owner[d] = r
  /\ owner' = [owner EXCEPT ![d] = Nobody]

Next == \E r \in Requests, d \in Serials : Lease(r, d) \/ GiveBack(r, d)

Spec == Init /\ [][Next]_owner
=============================================================================
