------------------------------- MODULE MCDlep -------------------------------
(* Instances of Dlep for TLC. *)
EXTENDS Dlep

NeighborOnly == <<"n">>
WithDestination == <<"n", "d">>
NeighborOwner == [k \in {"n"} |-> "n"]
WithDestinationOwner == [k \in {"n", "d"} |-> "n"]
=============================================================================
