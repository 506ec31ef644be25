----------------------------- MODULE MCIndexer -----------------------------
(***************************************************************************)
(* The indexer alone: a deposit, and an event nobody handles.              *)
(***************************************************************************)
EXTENDS Indexer

event(kind, n) == [contract |-> "custody", kind |-> kind, key |-> "ann", n |-> n, after |-> {}]

TwoEvents == {[contracts |-> {"custody"},
               events |-> {event("Deposited", 2), event("NetDeltasApplied", 0)}]}

=============================================================================
