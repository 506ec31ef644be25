-------------------------- MODULE MCSharedDatabase --------------------------
(***************************************************************************)
(* Small sets of transactions, each next to the requests of one order:  a  *)
(* deposit with a withdrawal; a withdrawal by a user who never deposited;  *)
(* two epochs; events that are only logged or unknown; a market with a     *)
(* proposal; a market that never expires; and a deposit with a market,     *)
(* which is what it takes to store an order.                               *)
(***************************************************************************)
EXTENDS SharedDatabase

event(contract_, kind, key, n, after) ==
    [contract |-> contract_, kind |-> kind, key |-> key, n |-> n, after |-> after]

deposit  == event("custody", "Deposited", "ann", 2, {})
withdraw == event("custody", "Withdrawn", "ann", 1, {deposit})
settled  == event("custody", "NetDeltasApplied", "ann", 0, {})
earned   == event("custody", "ForcedWithdrawalExecuted", "ann", 1, {})
epoch1   == event("exchange", "NonceInvalidated", "ann", 1, {})
epoch2   == event("exchange", "NonceInvalidated", "ann", 2, {epoch1})
fees     == event("exchange", "FeeRatesUpdated", "ann", 0, {})
created  == event("oracle", "MarketCreated", "m", 1, {})
proposed == event("oracle", "OutcomeProposed", "m", 0, {created})
endless  == event("oracle", "MarketCreated", "m", 2, {})
opened   == event("oracle", "MarketCreated", "m", 1, {deposit})

scenario(contracts_, events_) == [contracts |-> contracts_, events |-> events_]

TradedMarket == {scenario({"custody", "oracle"}, {deposit, created})}

\* Here the market is created after the deposit; MCSharedRelease.cfg has the two in either order. With that
\* here there are twice as many states, and no more is found.
MCScenarios == {scenario({"custody", "oracle"}, {deposit, opened}),
                scenario({"custody"}, {deposit, withdraw}),
                scenario({"custody"}, {settled}),
                scenario({"custody"}, {earned}),
                scenario({"exchange"}, {epoch1, epoch2}),
                scenario({"exchange"}, {fees}),
                scenario({"oracle"}, {created, proposed}),
                scenario({"oracle"}, {endless})}

MCOrders == {[user |-> "ann", nonce |-> 0, market |-> "m", collateral |-> 2]}

=============================================================================
