----------------------------- MODULE MCCustody ------------------------------
(***************************************************************************)
(* Two users and the exchange.  The delta arrays include ones that revert  *)
(* (unbalanced, overdrawing), one whose credit covers its own debit only   *)
(* in the order given, and the empty array of an empty settlement.         *)
(***************************************************************************)
EXTENDS Custody

CONSTANTS alice, bob, exchange, vault

D(a, n) == [account |-> a, amount |-> n]

MCAccounts == {alice, bob, exchange}

MCDeltaLists ==
    { << >>,
      <<D(alice, -1), D(exchange, 1)>>,
      <<D(alice, 1), D(bob, -1)>>,
      <<D(bob, 1), D(bob, -2), D(exchange, 1)>>,
      <<D(alice, -2), D(alice, 1), D(bob, 1)>>,
      <<D(alice, 1)>> }

=============================================================================
