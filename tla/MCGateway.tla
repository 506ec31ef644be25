----------------------------- MODULE MCGateway -----------------------------
(***************************************************************************)
(* Two users who cross each other on one position, at two prices.  A       *)
(* caller may also name the other position when it cancels.                *)
(***************************************************************************)
EXTENDS Gateway

signed(maker, side, price, amount) ==
    [maker |-> maker, side |-> side, position |-> "p", price |-> price, amount |-> amount]

\* Two bids of ann at different prices and an ask of ben that meets both.
MCSignedOrders == {signed("ann", "buy", 2, 1), signed("ann", "buy", 1, 2), signed("ben", "sell", 1, 2)}
MCIndexed == {<<"ann", -2>>}

=============================================================================
