--------------------------- MODULE MCNotification ---------------------------
(* NotificationDelivery on small instances. *)
EXTENDS NotificationDelivery, TLC

Symmetry == Permutations(Proc)
=============================================================================
