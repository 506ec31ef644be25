# Omniscient: a TLA+ model

Omniscient is a prediction-market exchange. Users deposit USDC into a custody contract, sign orders for
outcome shares, and a gateway matches the orders off the chain; an operator settles the matches on the
chain, where every movement must follow from a signature. An oracle contract decides the markets, and an
indexer copies what happens on the chain into the database the gateway reads.

This directory holds specifications of those parts, the TLC runs that check them on small instances, and
theorems that TLAPS proves for instances of any size: every invariant and every property of single steps
that a run checks is one, but for `WindowHasAnEnd`, which is about ENABLED. `PROJECT.json` maps every
definition to the lines it stands for, and lists the hazards the properties are aimed at.

## The system

| Part | Source | State | Operations | What makes it correct |
|---|---|---|---|---|
| Custody | `contracts/src/Custody.sol` | balances, withdrawal nonces, applied batches, liveness clock and threshold, pause; its USDC | deposit, withdraw, forced withdrawal, applyNetDeltas, heartbeat, pause, threshold | solvent at all times; nobody credited twice; a silent operator cannot hold funds |
| SettlementExchange | `contracts/src/SettlementExchange.sol` | filled amounts, epochs, settled batches, fee rates, pause | settleBatch, cancelAllOrders, setFeeRates, withdrawFees, pause | trades follow from signatures, no overfill, shares pass through, fees never spent, agrees with Custody |
| Oracle | `contracts/src/Oracle.sol` | spec, state and claim of each market; its USDC | createMarket, proposeOutcome, disputeOutcome, resolveDispute, finalizeOutcome, pause | bonds backed, window without gap or overlap, resolved exactly when reported, proposals settle |
| Conditional tokens, USDC | external | shares, prepared and reported conditions, token balances | transfers, reports | - |
| Gateway | `backend/gateway/src` | tables orders, holds, balances; order books; two channels | accept an order, cancel one, match, persist results, rebuild at startup | collateral conserved and covering, books uncrossed and in priority order, fills counted once |
| Indexer | `backend/indexer/src` | cursors, checkpoints, indexed logs, balances, markets | poll, dispatch, finalize, roll back, reconcile | every final event applied exactly once |
| Settlement, resolution services | `backend/settlement`, `backend/resolution` | none | stubs that print and exit | - |

How they interact. Users call the contracts. The exchange calls Custody inside `settleBatch` (it is the
holder of `SETTLEMENT_ROLE`) and moves shares between makers through itself. The oracle reports to the
conditional-tokens contract. The gateway's HTTP handlers run concurrently, share the database, and send
commands to one matcher thread over a bounded channel; the matcher sends fills over an unbounded channel
to one result processor, which publishes them and updates the orders. The indexer polls logs and writes
the same `balances` and `orders` tables, and posts to the gateway's `/internal/reconcile`. The service that
would carry published matches to `settleBatch` is a stub today, so the chain from a match to a settlement
is modelled from both of its ends and not across.

What is hard in this code: a transaction is atomic, but calls of many parties come in every order, with
retried batches, pauses and clocks in between; rounding and fees must favour the pool in every mix of
legs; order acceptance is five statements, each able to fail, with other requests, the matcher and crashes
between them; results outlive the state they were computed from; and the chain itself can be reorganized
under the indexer. `PROJECT.json` lists each hazard at its line.

## Modules

    Ledger ---------+-- Vault             what custody promises
                    +-- Custody           implements Vault (INSTANCE)
                    +-- SettlementExchange  the exchange composed with Custody (INSTANCE)
                    +-- Oracle
    OrderBook ------+-- Gateway           the book is a set of pure operators, the gateway runs them
    Ledger ---------+
    Escrow ---------+                     what the gateway promises about collateral (INSTANCE)
    Indexer ---------- SharedDatabase     the indexer, and the gateway's requests in its tables;
                                          implements Indexer (INSTANCE)

| Module | Models |
|---|---|
| `Ledger` | tables of amounts, their sum, and signed deltas applied in order (`Custody.sol:133-159`; the exchange's share transfers use the same operators) |
| `Vault` | the abstract promise: claims are funded by arriving tokens, redeemed against leaving ones, or redistributed |
| `Custody` | the contract, one action per call |
| `SettlementExchange` | the exchange's calls, each with the Custody call it makes, together with Custody's own users |
| `Oracle` | the contract, with the parts of USDC and the conditional-tokens contract it uses |
| `OrderBook` | `domain.rs` and what `engine.rs` does with an order |
| `Gateway` | handlers, matcher thread and result processor around one database and two channels |
| `Escrow` | the abstract promise: reservations take what is free, releases give back what is held, only the chain adds or takes |
| `Indexer` | the poll loop, the handlers, finality and rollback, over a chain that may replace its last blocks |
| `SharedDatabase` | the indexer with the gateway's requests in the same rows: reservation, order, release |
| `LedgerLemmas` | lemmas about sums, folds, sequences and functions that the proofs share |
| `VaultProofs`, `CustodyProofs`, `ExchangeProofs`, `OracleProofs`, `GatewayProofs`, `IndexerProofs`, `SharedProofs` | the theorems about each part, and their proofs |
| `MC*` | constants for TLC |

Reading conventions. Variables and actions carry the names of the source. Where two contracts have a
function of the same name the exchange's is called `pauseExchange`, `exchangePaused` and so on. Operators
whose comment begins with "Faulty" are what a plausible mistake would make of the definition that follows
them; nothing uses them. They are there to show that each property would notice (`PROJECT.json`, "mutants").

### Contracts

A transaction is one action, all of it: `settleBatch` checks every leg, computes the deltas, performs
Custody's `applyNetDeltas` and moves the shares in one step. A call that reverts changes nothing, so it is
an action that is not enabled. `ReentrancyGuard` rules out the interleavings inside a call of Custody and
of `settleBatch`. Block timestamps advance by `Tick` between transactions. A signature is membership: an
`Authorization` record that names a caller, nonce, amount and deadline, or an order in `Signed`. Two orders
with different contents have different hashes, so `filledAmount` is indexed by the order itself (its `salt`
is what tells equal orders apart).

The contracts never add up their balances; `Total` does, for the properties. It is the cardinality of the
set of single units in a table, which TLC evaluates and for which the sum lemmas can be proved without
induction over a data structure.

USDC is modelled by `held`, what Custody has; the rest of the supply is outside. `MaxTransferFee` lets the
token withhold part of a transfer, which real USDC can be configured to do and the code claims to survive.
`Donate`, `GiftShare` and the oracle's `Gift` are tokens sent without being asked for.

In `SettlementExchange` the legs of a batch come from a constant set: TLC uses a dozen telling ones, the
proofs use any set. Prices are scaled to `PriceUnit`, fee rates to `FeeUnit`.

### Gateway

A step is what runs without another task in between: one SQL statement, one message taken from a channel,
one publication. `at[i]` says how far the request of order `i` is (`reserved`, `inserted`, `held`, ...), so
any number of requests interleave at every `await`; a statement may fail at every point (`insertFails`,
`releaseFails`, `cancelFails`, the `ok` of the result processor), and then the code's error path is taken.
A caller may hang up (`disconnected`): the handler is then dropped at whatever `await` it is, its error path is
not taken, and what it has stored stays. Dropped inside a statement, the statement has either been carried out
or not, so the handler is dropped after it or before it. For `cancel_order` that is `cancelFails`.
`Restart` stops the process anywhere: what the database holds survives, channels and books do not, and
`rebuild_books` fills the books from the open rows. `traded`, `indexed`, `restarted` and `lost` are history:
what the matcher has filled, what the indexer has added to a balance, whether there has been a restart, and
the orders of which a fill was not stored, because the update failed or a crash took the result.

`ImplementsEscrow` maps the balances table to `Escrow`: `available` is what is free, `hold_amount` what is
held, and the indexer's writes are its credits. It is a stronger claim than `FundsConserved`: a step that
reserves more than is free, or gives back what is not held, moves no money out of the account and is still
no step of an escrow.

SQL statements are taken by what they say. `schema.sql` has no `balances.hold_amount`, which the code
writes, and no code inserts share balances (`'ctf'` rows); the model gives every account a starting balance
of each kind so that both sides can trade. Time is left out: an order's deadline is looked at once, in
`validate_signed_order`, and an order that fails there leaves no trace.

`OrderBook` is written to be reasoned about. `match` is a recursive function of how many resting orders are
left to look at, as the loop of `match_order` pops them; `filledOf(i, s)` and `fillsTotal(s)`, what some fills
give an order, are a `Total` of their amounts; `restingRow` says which rows a restart loads.

### Indexer

The chain is a sequence of blocks, each a sequence of transactions under a branch number that stands for
the hash. `Mine` extends it; `Reorg` replaces blocks that are not final by as many others, which may hold the
same transactions elsewhere. A transaction logs one event, and the index of the log is its place in the
block, as the `logIndex` of a node is. The RPC node answers from that chain.

A step is one RPC call or one database transaction: `poll` (the head and the cursors), `get_logs`,
`index_log` (checkpoint, handler and the row of `indexed_logs` commit together), `check_block` (one block of
`finalize_blocks`: hash comparison, then either the rollback or the finalization). Wherever the code says
`continue` after an error there is an action that fails (`get_logs_fails`, `log_fails`, `check_fails`), and
`crash` stops the process between any two steps; `MaxFaults` bounds how many of these there are. Three things are
refused whenever they are tried: a balance for an unknown user and a market whose expiry does not fit the column
(`handlers/oracle.rs:39`; both `log_refused`), and the deletion of a market that an order refers to
(`rollback_refused`).
`ensure_user` and `insert_order` are what the gateway writes to the tables that these two depend on.

`unapplied`, `inverted` and `past` are history: events whose transaction failed or was taken back, rows that
a withdrawal has created, what has happened so far. The post to `/internal/reconcile` is left out of the
step because it changes nothing today: the gateway expects `blockNumber` and a number, the indexer sends
`block_number` and a string, so the body is refused, and the failure is only logged. `schema.sql` has
`markets.question_id` as bytes while `handle_market_created` binds text, which the database may refuse; the
model lets that statement succeed or fail like any other.

### The shared database

`SharedDatabase` puts the two processes around one database. The indexer is `Indexer`'s, step by step
(`Beside`); next to it each order's request goes through `accept_order`: `makeKnown`, `reserve_collateral`,
`storeOrder`, and, if the database refuses the order because its market is not there (or not any more), the
release of what was reserved. The module has those statements only, since the others touch no table of the
indexer's; they are in `Gateway`. A request may stop for good at any point, as in a crash.

A balance row is now in two parts: `balances[u].amount`, what is free, and `hold[u]`. The indexer's upserts
change the first and keep the second (`KeepHolds`); its rollback deletes both. `Whole` adds them up, and
`ImplementsIndexer` says that with the two counted together no request is seen by the indexer at all: every
step is one of `Indexer`, next to a gateway that stores users and orders. So `FinalizedIsFinal`,
`AccountedFor`, `RowsFollowChain`, `FinalLogsStay` and `CursorsCatchUp` are checked of the two processes
together, and `FundsTraced` and `ReservationsHeld` say what becomes of the money. The one step that disturbs
the indexer is a release after a rollback, which is the finding of `shared_release`.

## The runs

| Run | Distinct states | Shows |
|---|---|---|
| `custody` | 67 200 | `Solvency`, `ImplementsVault`, `SurplusNeverShrinks`, `CreditsAreFresh`, `SilenceFreesFunds` |
| `exchange` | 151 104 | `NeverOverfilled`, `BooksAgree`, `NoTransientOverdraft`, `MatchesFundTheirRebate`, `TradesAreSigned`, `PassThrough`, `DeadOrdersStayDead` |
| `exchange_fees` | 292 864 | `Solvency`, `FeesNeverSpent` with fee withdrawals |
| `oracle` | 438 060 | `BondsBacked`, `ResolvedIsReported`, `OnlyVerdictsMoveMoney`, `WindowHasAnEnd`, `ProposalsSettle` |
| `gateway` | 901 172 | `FundsConserved`, `ImplementsEscrow`, `HoldsCovered`, `RestingIsHeld`, `Uncrossed`, `FillsCountOnce`, `FillsFollowPriority`, `OrdersSettle` |
| `shared_database` | 475 076 | `FinalizedIsFinal`, `AccountedFor`, `FundsTraced`, `ReservationsHeld`, `RowsFollowChain`, `FinalLogsStay`, `CursorsCatchUp`, `ImplementsIndexer` |
| `exchange_sides`, `exchange_collateral`, `gateway_remainder`, `gateway_cancelled`, `indexer_idempotent`, `shared_release` | short | the code disagrees with its comments, tests or docs, see below |

The passing runs of `custody`, `exchange`, `exchange_fees`, `oracle`, `gateway` and `shared_database` check the type
invariant as well (`SharedTypeOK` contains `Indexer`'s).

### Bounds, and why they are enough

- Custody: two users and the exchange, three tokens, a token fee of up to one unit, two batch ids, six delta
  arrays (among them an unbalanced one, an overdrawing one, two whose outcome depends on the order, the
  empty one), thresholds 1 and 2, time to 4. Two users are needed to pay one with the other's tokens, a
  second batch id to tell a retry from a new batch, and time 4 to let a threshold of 2 pass with a
  change of threshold and a pause on the way. What does not depend on time is proved for all sizes.
- Exchange: two users, two positions, six orders (one unsigned, one good only after a cancellation, one
  that expires early), twelve batches (crossing, partial, one order in two legs, stranding, unsigned, both
  makers, multi-position). Units of 2 make volumes, fees and rebates round both ways.
- Oracle: two markets, three specs, two of which share a condition and one of which has an expiry of 0, four
  payout vectors (wrong length, all zero, and one outcome on two scales), windows 0 to 2, time to 4: every
  order of proposal, dispute, verdict and expiry of two markets whose windows overlap, and every stage at
  which one of them can be created again. One unit of USDC may be sent to the oracle without a call.
- Gateway: three orders, two requests under way at once, a queue of one (so that it is full), two
  unexpected events (cancel, failing statement, caller that hangs up, indexer update, crash). Three orders are what time
  priority takes: two that rest and one that meets them. `MaxOrders`, `MaxUnderWay` and `MaxEvents` are
  bounds of the model and not of the code, and so are `MaxTime`, `MaxNonce` and `MaxEpoch`; the gateway run
  ends where they are used up, which is why it does not check for deadlock. The other runs do.
- Indexer and shared database: three blocks, finality after one, ranges of two blocks, one reorganization,
  one failure or crash, up to two transactions in a block, one order, expiries up to 1, and eight small sets of
  transactions in turn, one of them with an expiry that does not fit. Three blocks are what it takes to find a replaced
  block, roll it back and finalize the next in one round; ranges of two make a round end before the head. In
  the largest set two contracts with cursors of their own are polled, so that a rollback made for one hits the
  other, and a deposit and a market make an order possible. There the market is created after the deposit,
  which halves the states; either order (911 917 states in all) passes as well, in three minutes. `Finality` is 12 and `Batch` is 50 in the code: the comparisons are the same. The
  order's collateral is the whole deposit, so that a second reservation, or a release that is not due, shows.

### Fairness

- `Tick` is weakly fair: blocks keep coming.
- Custody, `Exit(a)`: a user who can leave through the hatch, and keeps being able to, does. The claim is
  about the contract: nothing the operator does can keep disabling the call. Silences for which the time
  bound leaves no room are excluded by name in `SilenceFreesFunds`.
- Oracle, `Finalize(m)`: a proposal whose window has passed is finalized by someone; anyone may call it, and
  the proposer gets a bond back. `ProposalsSettle` excuses pauses, during which the call is refused.
- Indexer, `Work`, alone and in the shared database: the timer ticks for ever and every call returns. Failures are not fair, and
  there are at most `MaxFaults` of them in a behaviour: one for TLC, any number in the proofs. `CursorsCatchUp`
  lets a cursor stop only below a replaced block with a market that an order refers to, whose rollback is
  refused for as long as that is so.
  Nothing is asked of the gateway's requests there, which may stop anywhere.
- Gateway, `Work`: the handlers' tasks, the matcher thread and the result processor are scheduled, and every
  statement returns, well or not. One weak fairness for all of them together is enough, because each request,
  command and fill takes finitely many steps. New requests, cancels, the indexer and crashes are not fair.
  `OrdersSettle` does not promise that a fill is stored: a failed update is not retried, and is in `lost`.

### Where code and documents disagree

- `exchange_sides`: "mismatched fills cannot drain or strand inventory", says `SettlementExchange.sol:107`.
  A maker may sign an order whose side is 2: sold for the money, bought for the count, and no share moves.
- `exchange_collateral`: "worst-case USDC collateral", says `shared/src/domain.rs:421`. The fee of the taker
  and the rounding of each fill come on top.
- `gateway_remainder`: "the remainder rests in the book", says `gateway.md:70`. `engine.rs:71` swaps what was
  filled with what was not.
- `gateway_cancelled`: a cancelled row is reopened by a result that is stored late.
- `indexer_idempotent`: "idempotent reprocessing", says `fund-safety.md:40`. A deposit that is mined again in
  another place of its block has another key and is credited a second time, and the new hash is written over
  the old one, so no rollback follows.
- `shared_release`: matching and settlement "never create or destroy value", says `fund-safety.md:5`. A request
  reserves; the deposit's block is replaced, and the rollback deletes the balance row with its hold; the
  deposit is indexed again into a new row; the request fails, because its market went too or is not indexed yet, and
  gives back (`infra.rs:153`) what the new row never set aside. 2 deposited are now 4 available.

More, without a run of their own. `Custody.sol:15-16` has tokens equal balances "at all times"; a forced
withdrawal to the contract's own address leaves more tokens than balances, and what holds is the inequality
(`Solvency`). `Oracle.t.sol:127-132` has a second creation of a market revert; it does not if the first gave an
expiry of 0, the creation mark. The model has such a spec, `replaced` remembers the markets it happened to
while under way, and the properties say which of them it voids: a larger bond is then paid out of the other
markets' bonds. `service.rs:23` says that `validate_signed_order` checks the nonce, which it does not, so an
order below the user's epoch is accepted and stays open, although `schema.md:111` has such orders
mass-cancelled; the exchange refuses to settle it. `fund-safety.md:11` has deposits credited only after
finality, while `handlers/custody.rs:48` credits them when they are first seen, and has collateral reserved on
accept, while a rollback deletes the reservation with the row (`ReservationsHeld` ends there).
`fund-safety.md:33` says that the cursor is not advanced after a rollback; the loop goes on
(`finalization.rs:62`) and the next final block moves it past the one that was taken back, which is why
`AccountedFor` counts what a rollback took back as accounted for and not as indexed. A withdrawal by a user
without a balance row creates one with the amount instead of against it (`handlers/custody.rs:100`), which
`BalancesAreSums` (`FundsTraced` in the shared database) excepts by name.

The gateway's properties are stated for the code as it is. After a restart the books hold what the database
calls open, which can include bids that meet asks, so `Uncrossed` holds until a restart; and orders without a
hold, which `RestingIsHeld` confines to requests that were given up before they were accepted.

## Proofs

All theorems hold for every value of the constants that satisfies the named assumptions of the module.

`LedgerLemmas` establishes what the models need of sums and of folds over delta arrays. `Total` is a
cardinality, so `TotalUpdate` (changing one entry changes the sum by the difference) is proved from the
library's cardinality facts. `Running` is a recursive function over a prefix; that it is well defined
(`RunningDef`) is proved by extending it one index at a time and taking a least index at which that could
fail (`LeastNatural`), since the induction theorems of the library cannot be instantiated. From it:
`RunningType`, `RunningTotal` and `ConservingOutcome`, that deltas summing to zero preserve the sum. `TotalMonotone`: smaller entries have no
larger sum.

`VaultProofs`: solvency and the surplus property of the abstract vault, by one step per action.

`CustodyProofs`: type correctness, and the refinement. `Step` says that a step of Custody from a
type-correct state preserves types and is a step of Vault, action by action; the invariant is the types,
which contain what is needed (balances are natural numbers, which is what `InsufficientBalance` guards).
`Solvency` and `SurplusNeverShrinks` are then not proved again: they are theorems of the vault, carried
over by the refinement. `PauseStopsTheClock` follows from the guards of the two calls that refresh the clock,
`CreditsAreFresh` from what each call does to balances, and for `applyNetDeltas` from `usedBatchIds`.

`ExchangeProofs`: the exchange composed with Custody is shown to be a Custody whose settler is the exchange
and whose delta arrays are any arrays, so that Custody's theorems apply (`ImplementsCustody`). Its own
invariant is `IInv`: types, no overfill, and agreement of the batch ids. `NeverOverfilled` is not inductive
over `settleBatch` by itself, for an order may occur in several legs: `LoopFills` shows for every prefix of
the legs that what has been filled so far stays within the amount. `BooksAgree` needs Custody to have no
other settler; `DeadOrdersStayDead` uses that fills only come from accepted legs. Three more are about what
the loop and the sorting of its deltas make of a batch:

- `NoTransientOverdraft`: the deltas name each account once, so a table below zero on the way stays below zero
  at that account to the end (`RunningApart`).
- `MatchesFundTheirRebate`: with crossing prices the buyer's volume is no less than the seller's, and rounding
  up the fee and down the rebate favours the protocol (`RebateFunded`).
- `TradesAreSigned` and `PassThrough`: the share transfers are summed leg by leg; a leg takes from its maker what
  another gives, and the exchange's own changes add up to the net that the code compares with zero.
  `PassThrough` has a hypothesis, that the side of every order is 0 or 1. Without it the property is false,
  which is what the run `exchange_sides` shows.

`FeesNeverSpent`: the exchange gets the net of a settlement, which must not be negative, and no leg is its own.

`OracleProofs`: the types say more than `TypeOK`, namely that a market under way has its proposer, and a
disputed one its disputer, since a payment to nobody would be lost. `CallIsLocal` says that a call changes one
market; `OwedRow` and `StakeRow`, that a sum over the markets then changes by that market's entry. What
remains is to compare, call by call, what that entry changes by with what the pot (`CallPays`) or a purse
(`CallGains`) does, and gives `BondsBacked` and `OnlyVerdictsMoveMoney`. `ResolvedIsReported` is not inductive:
a report could be of the condition of another market. `Own` rules that out: a created market has a condition of
its own, because a condition is prepared once, and the payouts proposed for it have the length the condition
was prepared for. With `BondsBacked` it gives `NothingLocksABond`: what finalizing a proposal asks of the two
other contracts, a condition to report to and a bond to pay out, is always there. That and `WindowEnds`, that a
dispute comes up to the last instant of the window and a finalization after it, are what can be proved of
`WindowHasAnEnd` and `ProposalsSettle`. That an uncreated market cannot be proposed for is not a check in the code; it follows
because valid payouts are neither empty nor all zero, and an uncreated market has no outcomes. All but the
types and the window end where a market is replaced under way, as the properties say.

`GatewayProofs`, the balances: a request has a claim on the hold of its account from the reservation until
the hold is released, or for good once its row of holds is written. The invariant `IInv` is the types, that a
claim has its order and its row where its stage says so (`Stored`), `FundsConserved`, and that the claims on an
account never add up to more than its hold (`Covered`). `Covered` is what the refinement needs:
`release_collateral` takes `GREATEST(hold_amount - n, 0)`, so a release that did not find n in the hold would
create money, and by `Covered` it finds it (`ClaimIsHeld`). A restart drops the claims of the requests that were
under way, and what they reserved stays held for nobody. `HoldsCovered` is weaker than `Covered`, since every
hold on record is a claim.

`GatewayProofs`, the books: `PlaceFacts` is about `place` alone, for any well-formed book. By induction on the
orders that the loop has looked at: the fills are the taker's, with the resting orders from the front, each
given all it has left but the last; what is put back and what rests in the end is sorted, named once and not
filled past its amount; a book without a bid that meets an ask gets none. The invariant around it,
`MatcherInv`, turns on one notion: an order is `Fresh` until the matcher has taken it from the queue.

- `FreshUntraded`, `RowsMatch`, `QueueFits`: a fresh order has not traded, is in no book and in no pending result,
  its row is not filled, and it is queued at most once. So what `place` adds is new to the book, and the amounts
  traded can be told apart.
- `TakersFirst`: an order takes once, when it is fresh, and makes only afterwards. So no pending result names an
  order as taker after one that names it as maker; storing a maker's part, which marks the row filled whatever
  is left of it, is never followed by a taker's part that would open the row again.
- `RowsFillable`: what is stored of an open row and what is still to be stored of it as a taker do not exceed
  the amount. It is needed because a restart makes resting orders of the open rows (`restingRow`), and
  `remaining()` subtracts unsigned numbers: without it `TypeOK`, that nothing in a book is filled past its amount,
  does not survive a restart.
- `Held`: whatever rests has its hold, or is of a request given up that a restart has put there. An accepted
  request has its hold (`Stored`), so a restart puts no other into the books without one.
- `BooksParted`, until a restart: every bid is below every ask.

`FillsCountOnce` is inductive with these; `RestingIsHeld` and `Uncrossed` are the last two. `FillsFollowPriority`
is about one step: only placing an order trades (`OnlyPlacingTrades`), the orders it trades with are a prefix
of the other side, and all of that prefix but the last are gone (`AheadIsOut`). It holds of rebuilt books too.

`IndexerProofs` is about steps of the indexer next to any changes of the tables users, balances and orders, so
that its lemmas serve the module by itself and inside the shared database. `IndexerInv` is `FinalizedIsFinal` and
`AccountedFor`, strengthened by what the process has in hand:

- `RangeOK`: the blocks a contract in hand has still to check were final when they were read, and its logs lie
  at or after the block it is at.
- `InHand`: what the final blocks say of the contract in hand is accounted for or still among its logs. So the
  cursor may pass a block when no logs are left.
- `LogsAgree`: a transaction whose log is in hand is in no other place that counts as final. It is what makes it
  safe to take a transaction out of `unapplied` when it is indexed, after a reorganization has moved it.

`FinalLogsStay` needs `StayInv`: unless a check has failed, the checkpoints below a cursor have the right hashes, so
a rollback starts above every cursor. `RowsFollowChain` needs `FollowInv`: while the chain has one branch and no
transaction has failed for want of the database, every hash is the same, so nothing is rolled back and only
withdrawals, and creations that do not fit the table, are refused; and no log of a contract is indexed, or in hand, with an earlier one of the same
contract unseen to (`InOrder`), although ranges are read again after crashes and cursors lag behind. An event
that is new to the index is then the last of its contract (`NewestIsLast`), and the creation of a market has
been indexed before what becomes of it (`CreatedBefore`).

`SharedProofs`: a step of a request leaves alone what the indexer's invariants are about (`RequestsAreQuiet`), so they
hold of the two processes. `ReservationsHeld` and `FundsTraced` are proved for any finite set of orders: what a user
has reserved is a set of units, one more order's worth when it reserves (`Cardinality` facts), and the indexed
amounts of a user likewise, since a log is indexed once under its key. `FundsTraced` needs that amounts were
typed (`EventsTyped`) and that the rows of `inverted` are where a withdrawal came first. `ImplementsIndexer` is step
by step: an indexer's step leaves `Whole` as it leaves `balances` in `Indexer`, a request's is a step of the gateway
that `Indexer` already has, or a stutter, but for a release after a rollback, which the property excepts.

The assumptions on constants are the named ones of the modules. Most are types and bounds. Those that say
something of the world: `EventsHaveSources` (one exchange and one oracle are polled, `cursor.rs:7`, and the oracle
tells of an outcome only of a market it created and whose expiry has come, so that it fits the table), `ScenariosClosed` (a transaction depends on transactions of
the same chain), `OrdersAreFinite` and `OrdersFinite` (orders are made of machine words), `RatesBelowOne`
(the contract's bound on fees). TLC evaluates all of them.

Only model-checked: liveness under fairness (`SilenceFreesFunds`, `ProposalsSettle`, `OrdersSettle`,
`CursorsCatchUp`) and ENABLED (`WindowHasAnEnd`), which this prover does not reach. All other properties of the passing runs are theorems.

## Not modelled

- The administration of roles: who holds a role is a constant. The exchange is Custody's only settler, as
  `docs/fund-safety.md` describes the deployment.
- Calls back into the system from receivers of ERC-1155 transfers inside `settleBatch`. A maker is an account
  that `ECDSA.recover` returns, so it has a key and as a rule no code to call back with; a receiver that
  refuses reverts the batch, which is a batch that does not happen, and `settleBatch` is `nonReentrant`.
- Hashing, signature recovery, ABI decoding, HTTP and WebSocket transport, configuration, tracing.
- `CancelAll` in the matcher (no code sends it). Release of collateral on cancel or fill (`gateway.md:151`
  describes it; no code does it, so holds only grow).
- Arithmetic overflow: the contracts run checked 256-bit arithmetic.
- A statement that the database has carried out and that fails for the process all the same, because the
  acknowledgement is lost. A failing statement has had no effect here, except that a dropped handler may have
  been dropped after it.
- The conversion of a new nonce to an i64 (`handlers/settlement.rs:33`): epochs count by one
  (`SettlementExchange.sol:97-99`), so none comes near.
- An RPC node that lags behind, or that answers two calls from two branches at once.
- The matcher and the result processor next to the indexer: what they write, the rows of orders, the indexer
  changes in one handler only (`handle_nonce_invalidated`), and `Gateway` has its writes to balances as
  `indexedBalance`. `/internal/reconcile` as a caller with the right body would use it: the only caller's
  body is refused.

## Plan

Done, in this order: the ledger operators and Custody with its vault, the exchange on top of it, the oracle,
the order book and the gateway, the proofs about the contracts, the indexer, the gateway as an escrow and its
liveness, the shared database, the oracle's markets without an expiry, the proofs about the gateway's balances
and the oracle, those about fees, rebates and share transfers, the indexer alone and in the shared database,
and the matcher with its books and results.

Next:

1. What a fill may be worth: the price of a fill is the maker's, so a taker never trades at worse than its limit;
   as a property of the gateway's runs and a corollary of `PlaceFacts`.
2. The parts of liveness that are safety: that the matcher's queue, the results and a round of the indexer shrink
   with every step of their own (`OrdersSettle`, `CursorsCatchUp`), as step properties with a measure.
3. The windows of `ProposalsSettle` and `SilenceFreesFunds` likewise: that nothing but time and a pause stands
   between a passed window and the call that it permits.
