------------------------- MODULE MCNotificationRules ------------------------
(* All samples ran on one phone.                                             *)
EXTENDS NotificationRules

OnePhone == [x \in Samples |-> CHOOSE d \in Serials : TRUE]
Symmetry == Permutations(Samples)
=============================================================================
