-------------------------- MODULE MCBatchScheduler --------------------------
(* Small instances of BatchScheduler for TLC. *)
EXTENDS BatchScheduler, TLC

CONSTANTS x1, x2, x3

\* One sample for a phone, one that ends a conversation, one without profile.
MixedKinds == x1 :> "device" @@ x2 :> "end" @@ x3 :> "noprofile"
\* One sample without a phone, one with.
ApiKinds == x1 :> "plain" @@ x2 :> "device"
\* One sample for a phone, one that ends a conversation.
PairKinds == x1 :> "device" @@ x2 :> "end"
=============================================================================
