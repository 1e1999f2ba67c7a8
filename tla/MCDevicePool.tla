---------------------------- MODULE MCDevicePool ----------------------------
(* Small instances of DevicePool for TLC. *)
EXTENDS DevicePool

\* Requests, sessions and serials are interchangeable in safety runs.
Symmetry ==
  Permutations(Requests) \cup Permutations(Sessions) \cup Permutations(Serials)

\* A profile that names every phone; no profile that names any.
WholePool == {Serials}
NoPools == {}
=============================================================================
