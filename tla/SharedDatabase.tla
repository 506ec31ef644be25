--------------------------- MODULE SharedDatabase ---------------------------
(***************************************************************************)
(* The indexer and the gateway around their one database.  The indexer is  *)
(* Indexer.tla's, step by step; next to it requests of the gateway reserve *)
(* collateral in the same balance rows and store orders that refer to the  *)
(* same markets.                                                           *)
(*                                                                         *)
(* Of a request (service.rs, accept_order) this module has the statements  *)
(* on tables that both processes write, and the one failure that comes     *)
(* from the other process: the market of an order is not there.  Gateway   *)
(* has all the others, and what becomes of an order that is stored.  A     *)
(* request may stop for good between two statements, as in a crash.        *)
(*                                                                         *)
(* The indexer's reconcile posts change nothing here: the gateway refuses  *)
(* their body.                                                             *)
(***************************************************************************)
EXTENDS Indexer

VARIABLES
    hold,       \* balances.hold_amount, of the users that have a row
    at          \* where each order's accept_order is

requests == <<hold, at>>
sharedVars == <<vars, requests>>

ASSUME OrdersCollateralized == \A o \in Orders : o.user \in Users /\ o.collateral \in Nat \ {0}
ASSUME OrdersFinite == IsFiniteSet(Orders)

\* Faulty: a row that the indexer writes is written whole.
ResetHolds ==
    hold' = [u \in DOMAIN balances' |->
               IF u \in DOMAIN hold /\ balances'[u] = balances[u] THEN hold[u] ELSE 0]

\* A row that the indexer writes keeps its hold; a new one has none.
KeepHolds == hold' = [u \in DOMAIN balances' |-> IF u \in DOMAIN hold THEN hold[u] ELSE 0]

step(o, from, to) == at[o] = from /\ at' = [at EXCEPT ![o] = to]

\* n moves from the available amount of a row to its hold; its block stays.
Shift(u, n) == balances' = [balances EXCEPT ![u].amount = @ - n]

Untouched == UNCHANGED <<world, cursors, checkpoints, indexed_logs, users, nonces, markets, orders,
                         process, history>>

-----------------------------------------------------------------------------
makeKnown(o) == step(o, "idle", "known") /\ ensure_user(o.user) /\ UNCHANGED hold

\* Faulty: the hold is noted and stays available.
reserve_unsubtracted(o) ==
    /\ step(o, "known", "reserved")
    /\ o.user \in DOMAIN balances /\ balances[o.user].amount >= o.collateral
    /\ hold' = [hold EXCEPT ![o.user] = @ + o.collateral]
    /\ UNCHANGED balances
    /\ Untouched

reserve_collateral(o) ==
    /\ step(o, "known", "reserved")
    /\ o.user \in DOMAIN balances /\ balances[o.user].amount >= o.collateral
    /\ Shift(o.user, o.collateral)
    /\ hold' = [hold EXCEPT ![o.user] = @ + o.collateral]
    /\ Untouched

\* No row, or not enough in it.
reserve_refused(o) ==
    /\ step(o, "known", "rejected")
    /\ o.user \in DOMAIN balances => balances[o.user].amount < o.collateral
    /\ UNCHANGED <<vars, hold>>

storeOrder(o) == step(o, "reserved", "stored") /\ insert_order(o) /\ UNCHANGED hold

\* The market is not indexed yet, or not any more: the reservation is to be released.
orderRefused(o) ==
    /\ step(o, "reserved", "releasing")
    /\ o.market \notin DOMAIN markets
    /\ UNCHANGED <<vars, hold>>

\* The row may have gone meanwhile, and then no row is updated; or there is a new one.
release_collateral(o) ==
    /\ step(o, "releasing", "rejected")
    /\ IF o.user \in DOMAIN balances
         THEN /\ Shift(o.user, -o.collateral)
              /\ hold' = [hold EXCEPT ![o.user] = IF @ >= o.collateral THEN @ - o.collateral ELSE 0]
         ELSE UNCHANGED <<balances, hold>>
    /\ Untouched

AcceptOrder(o) ==
    \/ makeKnown(o)
    \/ reserve_collateral(o) \/ reserve_refused(o)
    \/ storeOrder(o) \/ orderRefused(o)
    \/ release_collateral(o)

-----------------------------------------------------------------------------
Beside(A) == A /\ KeepHolds /\ UNCHANGED at

SharedInit == Init /\ hold = << >> /\ at = [o \in Orders |-> "idle"]

SharedNext ==
    \/ Beside(Mine) \/ Beside(Reorg) \/ Beside(Work) \/ Beside(Failure)
    \/ \E o \in Orders : AcceptOrder(o)

\* The indexer's fairness; nothing is asked of the gateway.
SharedSpec == SharedInit /\ [][SharedNext]_sharedVars /\ WF_sharedVars(Beside(Work))

-----------------------------------------------------------------------------
\* The types, with a hold for every row.
SharedTypeOK ==
    /\ TypeOK
    /\ at \in [Orders -> {"idle", "known", "reserved", "stored", "releasing", "rejected"}]
    /\ DOMAIN hold = DOMAIN balances /\ \A u \in DOMAIN hold : hold[u] \in Nat

\* The rows with what is held counted in.
Whole == [u \in DOMAIN balances |-> [balances[u] EXCEPT !.amount = @ + hold[u]]]

Alone == INSTANCE Indexer WITH balances <- Whole

\* Until a rollback, what the gateway has reserved and stored changes nothing in what the indexer counts:
\* free and held together are the user's indexed deposits less the indexed withdrawals.
FundsTraced == Alone!BalancesAreSums

\* What the requests of a user have reserved and not given back.
Reserved(u) == UNION {{o} \X (1..o.collateral) :
                        o \in {x \in Orders : x.user = u /\ at[x] \in {"reserved", "stored", "releasing"}}}

\* Until a rollback every reservation is in the hold amount of its user's row, whichever process wrote
\* that row last.
ReservationsHeld ==
    "rolled_back" \notin past =>
        \A u \in Users : Cardinality(Reserved(u)) = IF u \in DOMAIN hold THEN hold[u] ELSE 0

\* Seen through its tables the indexer is not disturbed: as long as nothing is released after a rollback,
\* every step of the two processes is one that the indexer could make next to a gateway that only
\* stores users and orders.
ImplementsIndexer ==
    [][Alone!Next \/ ("rolled_back" \in past /\ \E o \in Orders : release_collateral(o))]_Alone!vars

-----------------------------------------------------------------------------
\* docs/fund-safety.md:5, matching and settlement "never create or destroy value": a user's row never
\* shows more, free and held, than has been indexed.  Rows with the wrong sign are excepted, as above.
FundsAreIndexed == \A u \in DOMAIN balances \ inverted : Whole[u].amount <= Indexed(u)

=============================================================================
