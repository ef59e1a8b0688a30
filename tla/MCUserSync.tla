----------------------------- MODULE MCUserSync -----------------------------
(* UserSync on small instances. *)
EXTENDS UserSync

\* Every server has every item.
AllItems == [m \in Members |-> Items]
=============================================================================
