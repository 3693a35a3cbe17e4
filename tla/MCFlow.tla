-------------------------------- MODULE MCFlow -------------------------------
(* Instances of Flow for TLC. *)
EXTENDS Flow

CONSTANTS m1, m2

Transfers == [download |-> TRUE, retry_refilter |-> FALSE]
Refilters == [download |-> TRUE, retry_refilter |-> TRUE]
PostsOnly == [download |-> FALSE, retry_refilter |-> FALSE]

AllOptions == {Transfers, Refilters, PostsOnly}
Downloads == {Transfers, Refilters}
TransfersOnly == {Transfers}
=============================================================================
