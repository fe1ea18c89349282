-------------------------- MODULE MCUserHandleTable --------------------------
(* The handle table on its own, instantiated for TLC. *)
EXTENDS UserHandleTable

CONSTANTS o1, o2, p1, p2, none

MCObj == {o1, o2}
MCOwner == {p1, p2}

=============================================================================
