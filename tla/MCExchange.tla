----------------------------- MODULE MCExchange -----------------------------
(***************************************************************************)
(* Two users trade two positions.  Units are scaled down: a dollar is 2    *)
(* units of price and a rate is a number of halves, so that volumes, fees  *)
(* and rebates round in both directions.  One order is only good after a   *)
(* cancellation, one is unsigned, and one expires early.                   *)
(***************************************************************************)
EXTENDS SettlementExchange

CONSTANTS alice, bob, exchange, vault, yes, no

O(salt, maker, p, price, amount, side, nonce, deadline) ==
    [salt |-> salt, maker |-> maker, positionId |-> p, price |-> price, amount |-> amount,
     side |-> side, nonce |-> nonce, deadline |-> deadline]

MCUsers == {alice, bob}

buyYes   == O(1, alice, yes, 2, 2, 0, 0, 1)
sellYes  == O(2, bob,   yes, 1, 2, 1, 0, 1)
sellNext == O(3, bob,   yes, 2, 1, 1, 1, 1)
buyNo    == O(4, bob,   no,  2, 1, 0, 0, 1)
sellNo   == O(5, alice, no,  2, 1, 1, 0, 0)
forged   == O(6, bob,   yes, 1, 1, 1, 0, 1)

MCSigned == {buyYes, sellYes, sellNext, buyNo, sellNo}
MCOrders == MCSigned \cup {forged}

L(o, f, m) == [order |-> o, fill |-> f, isMaker |-> m]

MCBatches ==
    { << >>,
      <<L(sellYes, 1, TRUE), L(buyYes, 1, FALSE)>>,
      <<L(buyYes, 2, TRUE), L(sellYes, 2, FALSE)>>,
      <<L(buyYes, 2, FALSE), L(sellYes, 1, TRUE), L(sellYes, 1, TRUE)>>,
      <<L(buyYes, 1, FALSE), L(sellNext, 1, TRUE)>>,
      <<L(buyYes, 1, FALSE), L(forged, 1, TRUE)>>,
      <<L(buyNo, 1, TRUE), L(sellNo, 1, FALSE)>>,
      <<L(buyNo, 1, TRUE), L(sellNo, 1, TRUE)>>,
      <<L(buyYes, 1, FALSE), L(sellNo, 1, FALSE), L(sellYes, 1, TRUE), L(buyNo, 1, TRUE)>>,
      <<L(buyYes, 1, FALSE), L(sellNo, 1, FALSE)>>,
      <<L(buyYes, 2, TRUE), L(sellYes, 1, FALSE)>>,
      <<L(sellYes, 1, FALSE)>> }

MCInitialShares ==
    [h \in Holdings |-> IF h = <<bob, yes>> THEN 2 ELSE IF h = <<alice, no>> THEN 1 ELSE 0]

\* For the fees: orders at one price, filled as taker and maker, and both as makers.
buyPar  == O(7, alice, yes, 2, 3, 0, 0, 1)
sellPar == O(8, bob,   yes, 2, 3, 1, 0, 1)

FeeOrders == {buyPar, sellPar}

FeeShares == [h \in Holdings |-> IF h = <<bob, yes>> THEN 3 ELSE 0]

FeeBatches ==
    { <<L(sellPar, 1, TRUE), L(buyPar, 1, FALSE)>>,
      <<L(buyPar, 2, TRUE), L(sellPar, 2, FALSE)>>,
      <<L(buyPar, 2, TRUE), L(sellPar, 2, TRUE)>> }

(***************************************************************************)
(* An order whose side is neither Buy (0) nor Sell (1).                    *)
(***************************************************************************)
sideTwo == O(9, bob, yes, 1, 1, 2, 0, 1)

SideOrders == {buyYes, sellYes, sideTwo}

SideBatches ==
    { <<L(sellYes, 1, TRUE), L(buyYes, 1, FALSE)>>,
      <<L(buyYes, 1, FALSE), L(sellYes, 2, TRUE), L(sideTwo, 1, TRUE)>> }

=============================================================================
