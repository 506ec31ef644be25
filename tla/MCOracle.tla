------------------------------ MODULE MCOracle ------------------------------
(***************************************************************************)
(* Two markets, two actors, and three specs: two share a condition, and    *)
(* one has no expiry, so that its market can be created again.  The payout *)
(* vectors include one of the wrong length, a zero one, and two for the    *)
(* same outcome on different scales.                                       *)
(***************************************************************************)
EXTENDS Oracle

S(q, slots, expiry, window, amount) ==
    [questionId |-> q, outcomeSlotCount |-> slots, expiry |-> expiry, disputeWindow |-> window,
     bondAmount |-> amount]

MCSpecs == {S("q1", 2, 1, 1, 1), S("q1", 2, 2, 0, 2), S("q2", 2, 0, 2, 2)}
MCPayouts == {<<0, 1>>, <<0, 2>>, <<0, 0>>, <<1>>}

=============================================================================
