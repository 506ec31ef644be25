------------------------ MODULE SettlementExchange --------------------------
(***************************************************************************)
(* contracts/src/SettlementExchange.sol with the custody contract it       *)
(* drives.  The operator submits batches of fills of signed orders; the    *)
(* exchange derives the USDC deltas and the share transfers from the       *)
(* orders, hands the deltas to Custody and moves the shares, all in one    *)
(* transaction.                                                            *)
(*                                                                         *)
(* The custody state is Custody.tla's, under the same names; its balances  *)
(* are those of the users and of the exchange, and the exchange is the     *)
(* only holder of SETTLEMENT_ROLE (docs/fund-safety.md).  Shares are the   *)
(* ERC-1155 balances of the conditional-tokens contract (external).        *)
(***************************************************************************)
EXTENDS Ledger

CONSTANTS
    Users,              \* the accounts other than the exchange's
    Exchange,           \* the exchange's own address
    Vault,              \* the custody contract's address
    Positions,          \* outcome-share ids
    Orders,             \* the order contents that may be submitted
    Signed,             \* the orders their makers have signed
    BatchIds,
    Batches,            \* the sequences of legs that may be submitted
    InitialShares,      \* who holds which shares to begin with
    PriceUnit,          \* the price of a whole dollar (1e6)
    FeeUnit,            \* basis points in one (10000)
    MaxFeeRate,         \* the largest rate setFeeRates accepts (1000)
    MinThreshold, MaxThreshold, Amounts, Supply, MaxTransferFee, MaxTime, MaxNonce,
    MaxEpoch            \* bound: cancellations per user

Accounts == Users \cup {Exchange}
Holdings == Accounts \X Positions

Order == [salt : Nat, maker : Users, positionId : Positions, price : Nat, amount : Nat,
          side : Nat, nonce : Nat, deadline : Nat]
Leg   == [order : Orders, fill : Nat, isMaker : BOOLEAN]

ASSUME UsersAreFinite == IsFiniteSet(Users)
ASSUME PositionsAreFinite == IsFiniteSet(Positions)
ASSUME ExchangeIsNoUser == Exchange \notin Users
ASSUME VaultIsNoAccount == Vault \notin Accounts
ASSUME OrdersTyped == Orders \subseteq Order /\ Signed \subseteq Orders
ASSUME OrdersAreFinite == IsFiniteSet(Orders)      \* their fields are machine words
ASSUME BatchesTyped == Batches \subseteq Seq(Leg)
ASSUME SharesTyped == InitialShares \in [Holdings -> Nat]
ASSUME UnitsPositive == PriceUnit \in Nat \ {0} /\ FeeUnit \in Nat \ {0}
ASSUME RatesBelowOne == MaxFeeRate \in 0..FeeUnit
ASSUME CustodyConstants == /\ MinThreshold \in Nat /\ MaxThreshold \in Nat /\ MinThreshold <= MaxThreshold
                           /\ Amounts \subseteq Nat /\ Supply \in Nat /\ MaxTransferFee \in Nat
                           /\ MaxTime \in Nat /\ MaxNonce \in Nat /\ MaxEpoch \in Nat

VARIABLES
    held, now, paused, lastOperatorActivity, operatorInactivityThreshold,
    balances, withdrawalNonce, appliedBatches,              \* Custody's
    exchangePaused,                                         \* Pausable._paused
    takerFeeBps, makerRebateBps,
    filledAmount,
    nonces,
    settledBatches,                                         \* the batch ids mapped to true
    shares                                                  \* ctf.balanceOf (external)

C == INSTANCE Custody WITH This <- Vault, SettlementRole <- {Exchange}, DeltaLists <- Seq(Delta(Accounts))

custodyVars == <<held, now, paused, lastOperatorActivity, operatorInactivityThreshold,
                 balances, withdrawalNonce, appliedBatches>>
rates == <<takerFeeBps, makerRebateBps>>
exchangeVars == <<exchangePaused, rates, filledAmount, nonces, settledBatches>>
vars == <<custodyVars, exchangeVars, shares>>

-----------------------------------------------------------------------------
(***************************************************************************)
(* What one leg is worth.  Every comparison of the side is as written: the *)
(* deltas take any side but 0 for a sale, the share count takes any side   *)
(* but 1 for a purchase, and only sides 0 and 1 move shares.               *)
(***************************************************************************)
CeilDiv(n, d) == (n + (d - 1)) \div d

volume(leg) == IF leg.order.side = 0 THEN CeilDiv(leg.fill * leg.order.price, PriceUnit)
                                     ELSE (leg.fill * leg.order.price) \div PriceUnit

\* Faulty: the fee is rounded down and the rebate up.
feeRoundedTheOtherWay(leg) ==
    IF leg.isMaker THEN -CeilDiv(volume(leg) * makerRebateBps, FeeUnit)
                   ELSE (volume(leg) * takerFeeBps) \div FeeUnit

fee(leg) == IF leg.isMaker THEN -((volume(leg) * makerRebateBps) \div FeeUnit)
                           ELSE CeilDiv(volume(leg) * takerFeeBps, FeeUnit)

\* The change of the maker's balance.
credit(leg) == IF leg.order.side = 0 THEN -(volume(leg) + fee(leg))
                                     ELSE volume(leg) - fee(leg)

\* Faulty: an account with several legs gets several entries.
accrueApart(deltas, account, amount) == Append(deltas, [account |-> account, amount |-> amount])

\* _accrue: one entry per account, so the entry that matches is the only one.
accrue(deltas, account, amount) ==
    IF \E i \in DOMAIN deltas : deltas[i].account = account
      THEN [i \in DOMAIN deltas |->
              IF deltas[i].account = account THEN [deltas[i] EXCEPT !.amount = @ + amount]
                                             ELSE deltas[i]]
      ELSE Append(deltas, [account |-> account, amount |-> amount])

(***************************************************************************)
(* settleBatch's loop.  Loop(legs)[i] is what the first i legs have made   *)
(* of filledAmount, deltas and exchangeUsdcNet.                            *)
(***************************************************************************)
afterLeg(s, leg) ==
    IF leg.fill = 0 THEN s
    ELSE [filled |-> [s.filled EXCEPT ![leg.order] = @ + leg.fill],
          deltas |-> accrue(s.deltas, leg.order.maker, credit(leg)),
          net    |-> s.net - credit(leg)]

Loop(legs) ==
    LET r[i \in 0..Len(legs)] ==
          IF i = 0 THEN [filled |-> filledAmount, deltas |-> << >>, net |-> 0]
                   ELSE afterLeg(r[i-1], legs[i])
    IN  r

\* Faulty: the fill is held against the order's whole amount, not against what is left of it.
acceptedAfresh(s, leg) ==
    \/ leg.fill = 0
    \/ /\ now <= leg.order.deadline
       /\ leg.order.nonce = nonces[leg.order.maker]
       /\ leg.order \in Signed
       /\ leg.fill <= leg.order.amount

\* Faulty: an order is good while its epoch has not been reached or passed.
acceptedUpToNonce(s, leg) ==
    \/ leg.fill = 0
    \/ /\ now <= leg.order.deadline
       /\ leg.order.nonce <= nonces[leg.order.maker]
       /\ leg.order \in Signed
       /\ s.filled[leg.order] + leg.fill <= leg.order.amount

\* Faulty: the signature is recovered but not compared with the maker.
acceptedUnsigned(s, leg) ==
    \/ leg.fill = 0
    \/ /\ now <= leg.order.deadline
       /\ leg.order.nonce = nonces[leg.order.maker]
       /\ s.filled[leg.order] + leg.fill <= leg.order.amount

\* The loop's checks of one leg.
accepted(s, leg) ==
    \/ leg.fill = 0
    \/ /\ now <= leg.order.deadline
       /\ leg.order.nonce = nonces[leg.order.maker]
       /\ leg.order \in Signed
       /\ s.filled[leg.order] + leg.fill <= leg.order.amount

\* The batch's deltas as Custody gets them, the exchange's balancing leg last.
netDeltas(legs) ==
    LET end == Loop(legs)[Len(legs)]
    IN  Append(end.deltas, [account |-> Exchange, amount |-> end.net])

-----------------------------------------------------------------------------
(***************************************************************************)
(* _settleCtf.  The shares that flow into the exchange must equal those    *)
(* that flow out, position by position; then all sales are pulled in and   *)
(* all purchases pushed out, one ERC-1155 transfer each.                   *)
(***************************************************************************)
\* Faulty: positions are not told apart.
flowAnyPosition(legs) ==
    [i \in DOMAIN legs |->
       [account |-> CHOOSE p \in Positions : TRUE,
        amount  |-> IF legs[i].order.side = 1 THEN legs[i].fill ELSE -legs[i].fill]]

flow(legs) ==
    [i \in DOMAIN legs |->
       [account |-> legs[i].order.positionId,
        amount  |-> IF legs[i].order.side = 1 THEN legs[i].fill ELSE -legs[i].fill]]

positionNets(legs) == Outcome([p \in Positions |-> 0], flow(legs)).table

fillOf(leg, side) == IF leg.order.side = side THEN leg.fill ELSE 0

makerEntries(legs, side, sign) ==
    [i \in DOMAIN legs |-> [account |-> <<legs[i].order.maker, legs[i].order.positionId>>,
                            amount  |-> sign * fillOf(legs[i], side)]]

exchangeEntries(legs, side, sign) ==
    [i \in DOMAIN legs |-> [account |-> <<Exchange, legs[i].order.positionId>>,
                            amount  |-> sign * fillOf(legs[i], side)]]

transfers(legs) ==
    makerEntries(legs, 1, -1) \o exchangeEntries(legs, 1, 1)
      \o exchangeEntries(legs, 0, -1) \o makerEntries(legs, 0, 1)

settleCtf(legs) ==
    /\ \A p \in Positions : positionNets(legs)[p] = 0
    /\ ~ Overdraws(shares, transfers(legs))
    /\ shares' = Outcome(shares, transfers(legs)).table

-----------------------------------------------------------------------------
Init ==
    /\ C!Init
    /\ exchangePaused = FALSE
    /\ takerFeeBps = 0 /\ makerRebateBps = 0
    /\ filledAmount = [o \in Orders |-> 0]
    /\ nonces = [a \in Users |-> 0]
    /\ settledBatches = {}
    /\ shares = InitialShares

\* Faulty: the protocol's net is not checked.
settleAtALoss(batchId, legs) ==
    /\ ~exchangePaused
    /\ batchId \notin settledBatches
    /\ settledBatches' = settledBatches \cup {batchId}
    /\ \A i \in 1..Len(legs) : accepted(Loop(legs)[i-1], legs[i])
    /\ filledAmount' = Loop(legs)[Len(legs)].filled
    /\ C!applyNetDeltas(Exchange, batchId, netDeltas(legs))
    /\ settleCtf(legs)
    /\ UNCHANGED <<exchangePaused, rates, nonces>>

\* Faulty: an empty settlement is not sent on to Custody.
settleQuietly(batchId, legs) ==
    /\ ~exchangePaused
    /\ batchId \notin settledBatches
    /\ settledBatches' = settledBatches \cup {batchId}
    /\ \A i \in 1..Len(legs) : accepted(Loop(legs)[i-1], legs[i])
    /\ filledAmount' = Loop(legs)[Len(legs)].filled
    /\ Loop(legs)[Len(legs)].net >= 0
    /\ IF Loop(legs)[Len(legs)].deltas = << >> THEN UNCHANGED custodyVars
                                              ELSE C!applyNetDeltas(Exchange, batchId, netDeltas(legs))
    /\ settleCtf(legs)
    /\ UNCHANGED <<exchangePaused, rates, nonces>>

\* The whole transaction: the checks of every leg, the protocol's net, Custody's checks, the shares.
settleBatch(batchId, legs) ==
    /\ ~exchangePaused
    /\ batchId \notin settledBatches
    /\ settledBatches' = settledBatches \cup {batchId}
    /\ \A i \in 1..Len(legs) : accepted(Loop(legs)[i-1], legs[i])
    /\ filledAmount' = Loop(legs)[Len(legs)].filled
    /\ Loop(legs)[Len(legs)].net >= 0
    /\ C!applyNetDeltas(Exchange, batchId, netDeltas(legs))
    /\ settleCtf(legs)
    /\ UNCHANGED <<exchangePaused, rates, nonces>>

cancelAllOrders(a) ==
    /\ nonces[a] < MaxEpoch
    /\ nonces' = [nonces EXCEPT ![a] = @ + 1]
    /\ UNCHANGED <<custodyVars, exchangePaused, rates, filledAmount, settledBatches, shares>>

\* Faulty: the sum of the rates is held against twice the limit, not each rate against the limit.
setFeeRatesBySum(taker, maker) ==
    /\ taker + maker <= 2 * MaxFeeRate
    /\ takerFeeBps' = taker
    /\ makerRebateBps' = maker
    /\ UNCHANGED <<custodyVars, exchangePaused, filledAmount, nonces, settledBatches, shares>>

setFeeRates(taker, maker) ==
    /\ taker <= MaxFeeRate
    /\ maker <= MaxFeeRate
    /\ takerFeeBps' = taker
    /\ makerRebateBps' = maker
    /\ UNCHANGED <<custodyVars, exchangePaused, filledAmount, nonces, settledBatches, shares>>

\* The fees leave through Custody's fast path and go on to an address outside the system.
withdrawFees(auth) ==
    /\ C!withdraw(Exchange, auth)
    /\ UNCHANGED <<exchangeVars, shares>>

pauseExchange ==
    /\ ~exchangePaused
    /\ exchangePaused' = TRUE
    /\ UNCHANGED <<custodyVars, rates, filledAmount, nonces, settledBatches, shares>>

unpauseExchange ==
    /\ exchangePaused
    /\ exchangePaused' = FALSE
    /\ UNCHANGED <<custodyVars, rates, filledAmount, nonces, settledBatches, shares>>

-----------------------------------------------------------------------------
\* Custody's other callers: its users and admin, time, and gifts of tokens.
CustodyStep ==
    /\ \/ \E a \in Users : C!UserCall(a)
       \/ C!AdminCall
       \/ C!Tick
       \/ \E amount \in Amounts : C!Donate(amount)
    /\ UNCHANGED <<exchangeVars, shares>>

\* A user sends a share to the exchange outside any settlement (onERC1155Received takes it).
GiftShare(a, p) ==
    /\ shares[<<a, p>>] > 0
    /\ shares' = [shares EXCEPT ![<<a, p>>] = @ - 1, ![<<Exchange, p>>] = @ + 1]
    /\ UNCHANGED <<custodyVars, exchangeVars>>

Settle == \E b \in BatchIds, legs \in Batches : settleBatch(b, legs)

ExchangeAdmin == \/ pauseExchange
                 \/ unpauseExchange
                 \/ \E t, m \in 0..(MaxFeeRate + 1) : setFeeRates(t, m)
                 \/ \E auth \in C!Authorization : withdrawFees(auth)

Next == \/ Settle
        \/ \E a \in Users : cancelAllOrders(a)
        \/ ExchangeAdmin
        \/ CustodyStep
        \/ \E a \in Users, p \in Positions : GiftShare(a, p)

Spec == Init /\ [][Next]_vars

-----------------------------------------------------------------------------
TypeOK ==
    /\ C!TypeOK
    /\ exchangePaused \in BOOLEAN
    /\ takerFeeBps \in 0..MaxFeeRate
    /\ makerRebateBps \in 0..MaxFeeRate
    /\ filledAmount \in [Orders -> Nat]
    /\ nonces \in [Users -> Nat]
    /\ settledBatches \subseteq BatchIds
    /\ shares \in [Holdings -> Nat]

\* However its fills are spread over batches, retries and fee changes, an order is never filled beyond
\* the amount its maker signed.
NeverOverfilled == \A o \in Orders : filledAmount[o] <= o.amount

\* The exchange and Custody agree on which batches have happened: a batch one of them refuses has no
\* effect in the other (docs/fund-safety.md:13).
BooksAgree == settledBatches = appliedBatches

\* Custody still holds the tokens for every balance, with the exchange moving balances.
Solvency == C!Solvency

\* Custody applies the deltas in order.  Whatever the order of the legs, a batch whose accounts all end
\* with enough is not refused for an overdraft on the way (SettlementExchange.sol:174-176).
NoTransientOverdraft ==
    \A legs \in Batches :
        Overdraws(balances, netDeltas(legs))
          => \E a \in Accounts : Outcome(balances, netDeltas(legs)).table[a] < 0

\* While the rebate is no larger than the fee, filling two orders that cross, either of them the maker's,
\* never costs the protocol anything, whatever the rounding (docs/fund-safety.md:7).
Crossing(buy, sell) == /\ buy.side = 0 /\ sell.side = 1
                       /\ buy.positionId = sell.positionId
                       /\ buy.price >= sell.price

MatchesFundTheirRebate ==
    makerRebateBps <= takerFeeBps =>
        \A buy, sell \in Orders, m \in BOOLEAN : \A f \in 1..buy.amount :
            Crossing(buy, sell) /\ f <= sell.amount =>
                Loop(<<[order |-> buy, fill |-> f, isMaker |-> m],
                       [order |-> sell, fill |-> f, isMaker |-> ~m]>>)[2].net >= 0

Settled == settledBatches' # settledBatches

\* What a step fills of a user's orders on one side of one position.
FilledOf(a, p, side) ==
    Total([o \in {o \in Orders : o.maker = a /\ o.positionId = p /\ o.side = side} |->
             filledAmount'[o] - filledAmount[o]])

\* A settlement moves a user's shares exactly as the fills of orders that user signed say, and takes
\* money only from users who bought: no sale is ever charged more than it brings
\* (docs/fund-safety.md:9).
TradesAreSigned ==
    [][Settled =>
         /\ \A o \in Orders : filledAmount'[o] # filledAmount[o] => o \in Signed
         /\ \A a \in Users, p \in Positions :
               shares'[<<a, p>>] - shares[<<a, p>>] = FilledOf(a, p, 0) - FilledOf(a, p, 1)
         /\ \A a \in Users : balances'[a] < balances[a]
                               => \E p \in Positions : FilledOf(a, p, 0) > 0]_vars

\* The exchange passes shares through: a settlement neither strands any of a position in the exchange
\* nor pays out any that were there before (SettlementExchange.sol:104-107).
PassThrough == [][Settled => \A p \in Positions : shares'[<<Exchange, p>>] = shares[<<Exchange, p>>]]_vars

\* An order whose epoch was cancelled or whose deadline has passed is never filled again.
DeadOrdersStayDead ==
    [][\A o \in Orders : (o.nonce < nonces[o.maker] \/ o.deadline < now)
                           => filledAmount'[o] = filledAmount[o]]_vars

\* The fees collected leave the exchange's balance only through withdrawFees, never in a settlement.
FeesNeverSpent ==
    [][balances'[Exchange] < balances[Exchange]
         => withdrawalNonce'[Exchange] = withdrawalNonce[Exchange] + 1]_vars

\* What the gateway reserves for a purchase (shared/src/domain.rs, required_collateral).
RequiredCollateral(o) == CeilDiv(o.amount * o.price, PriceUnit)

\* domain.rs:421 calls it the worst case: a settlement never takes more from a user than the collateral
\* of the purchases it fills.
CollateralIsWorstCase ==
    [][\A a \in Users : Settled =>
         balances[a] - balances'[a]
           <= Total([o \in {o \in Orders : o.maker = a /\ o.side = 0
                                           /\ filledAmount'[o] # filledAmount[o]} |->
                       RequiredCollateral(o)])]_vars

=============================================================================
