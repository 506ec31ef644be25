------------------------------- MODULE Indexer -------------------------------
(***************************************************************************)
(* backend/indexer: one process polls the contracts' logs and copies what  *)
(* they say into the database the gateway reads.  A block is final once    *)
(* Finality blocks follow it; then its hash is compared with the one that  *)
(* came with its logs, and the cursor of the contract moves on.  If the    *)
(* hashes differ, everything from that block on is taken back.             *)
(*                                                                         *)
(* The chain is external.  It grows, and it may replace blocks that are    *)
(* not final; a transaction of a replaced block may be mined again, in     *)
(* another place.  A transaction is taken to log one event, and its        *)
(* index is its place in the block, as log_index is.  A hash is the        *)
(* number of the branch that mined the block.                              *)
(*                                                                         *)
(* A step is an RPC call or a database transaction.  Any may fail, and the *)
(* process may stop between any two.  The events say what a transaction    *)
(* did; their layout is always as the handlers expect it.                  *)
(***************************************************************************)
EXTENDS Integers, FiniteSets, Sequences

CONSTANTS
    Users, Markets,
    Orders,         \* the orders the gateway may accept
    Scenarios,      \* each has the polled addresses, and the transactions sent to the chain
    Finality,       \* FINALITY_BLOCKS
    Batch,          \* a range has up to Batch + 1 blocks
    MaxHeight,      \* bound: blocks of the chain
    MaxPerBlock,    \* bound: transactions of a block
    MaxReorgs,      \* bound: times the chain replaces blocks
    MaxTimestamp,   \* the last time that an i64 and a TIMESTAMPTZ have room for
    MaxFaults       \* bound: failures in one behaviour

Transactions == UNION {s.events : s \in Scenarios}
Contracts    == UNION {s.contracts : s \in Scenarios}
None         == "none"
MaxAmount    == 10
Faults       == {"get_logs_fails", "log_fails", "check_fails", "crash"}
Past         == Faults \cup {"rolled_back", "rollback_refused"}

ASSUME FinalityIsPositive == Finality \in Nat \ {0}
ASSUME BoundsAreNat == /\ Batch \in Nat /\ MaxHeight \in Nat /\ MaxPerBlock \in Nat
                       /\ MaxReorgs \in Nat /\ MaxFaults \in Nat /\ MaxTimestamp \in Nat
ASSUME ScenariosClosed == \A s \in Scenarios :
    /\ None \notin s.contracts
    /\ \A e \in s.events : e.contract \in s.contracts /\ e.after \subseteq s.events

\* The kinds of events that take from a balance, and those that set the state of a market.
Withdrawals == {"Withdrawn", "ForcedWithdrawalExecuted"}
StateAfter  == [OutcomeProposed |-> "proposed", OutcomeDisputed |-> "disputed",
                OutcomeResolved |-> "resolved", DisputeResolved |-> "resolved"]

\* Unsigned amounts and epochs of users, and expiries and states of markets.
ASSUME EventsTyped == \A e \in Transactions :
    /\ e.kind \in {"Deposited", "NonceInvalidated"} \cup Withdrawals => e.key \in Users /\ e.n \in Nat
    /\ e.kind = "MarketCreated" => e.key \in Markets /\ e.n \in Nat
    /\ e.kind \in DOMAIN StateAfter => e.key \in Markets

\* One exchange tells of epochs and one oracle of markets (cursor.rs polls one of each).  The oracle has
\* created a market, and its expiry has come, before it tells what becomes of it.
ASSUME EventsHaveSources == \A s \in Scenarios : \A e \in s.events :
    /\ \A kinds \in {{"NonceInvalidated"}, {"MarketCreated"} \cup DOMAIN StateAfter} : e.kind \in kinds =>
         \A d \in s.events : d.kind \in kinds /\ d.key = e.key => d.contract = e.contract
    /\ e.kind \in DOMAIN StateAfter =>
         \E d \in e.after : d.kind = "MarketCreated" /\ d.key = e.key /\ d.n <= MaxTimestamp

VARIABLES
    sent,           \* the transactions that may be mined (external)
    chain, branch,  \* the blocks, and the number of the current branch (external)
    \* the database
    cursors, checkpoints, indexed_logs, users, balances, nonces, markets, orders,
    \* the process: head and cursors still to do in this round, the contract in hand, its logs
    \* still to do, the next block to check and the last final one of its range
    current_block, todo, contract, logs, block, last,
    \* history: events whose transaction failed or was taken back and has not been redone,
    \* users whose row a withdrawal has created, what has happened so far, and the number of failures
    unapplied, inverted, past, faults

world    == <<sent, chain, branch>>
rows     == <<users, balances, nonces, markets, orders>>
database == <<cursors, checkpoints, indexed_logs, rows>>
process  == <<current_block, todo, contract, logs, block, last>>
history  == <<unapplied, inverted, past, faults>>
vars     == <<world, database, process, history>>

Least(a, b) == IF a <= b THEN a ELSE b

-----------------------------------------------------------------------------
\* What the blocks from one to another say about a contract.  index is the place in the block.
LogsOf(ch, c, from, to) ==
    {l \in UNION {{[block |-> b, index |-> i, hash |-> ch[b].hash, tx |-> ch[b].txs[i]]
                     : i \in DOMAIN ch[b].txs} : b \in from..to} : l.tx.contract = c}

OnChain(ch) == UNION {LogsOf(ch, c, 1, Len(ch)) : c \in DOMAIN cursors}

Before(l, m) == l.block < m.block \/ (l.block = m.block /\ l.index < m.index)

\* A transaction is mined once, after those it depends on.
Valid(ch) ==
    \A l \in OnChain(ch) :
        /\ \A m \in OnChain(ch) : m.tx = l.tx => m = l
        /\ \A e \in l.tx.after : \E m \in OnChain(ch) : m.tx = e /\ Before(m, l)

Blocks == {[hash |-> branch, txs |-> txs] : txs \in UNION {[1..k -> sent] : k \in 0..MaxPerBlock}}

Mine ==
    /\ Len(chain) < MaxHeight
    /\ \E new \in Blocks : chain' = Append(chain, new)
    /\ Valid(chain')
    /\ UNCHANGED <<sent, branch, database, process, history>>

\* Other blocks take the place of those after the first `keep`.  Final blocks stay.
Reorg ==
    /\ branch < MaxReorgs
    /\ branch' = branch + 1
    /\ \E keep \in 0..(Len(chain) - 1) :
         /\ keep >= Len(chain) - Finality
         /\ \E new \in [1..(Len(chain) - keep) -> Blocks] :
              chain' = SubSeq(chain, 1, keep) \o [i \in DOMAIN new |-> [new[i] EXCEPT !.hash = branch']]
    /\ Valid(chain')
    /\ UNCHANGED <<sent, database, process, history>>

\* The gateway writes to the same tables: it makes a user known, and stores an order, whose user and
\* market must be.  (SharedDatabase has the rest of what it does.)
ensure_user(u) ==
    /\ users' = users \cup {u}
    /\ UNCHANGED <<world, cursors, checkpoints, indexed_logs, balances, nonces, markets, orders,
                   process, history>>

insert_order(o) ==
    /\ o \notin DOMAIN orders /\ o.user \in users /\ o.market \in DOMAIN markets
    /\ orders' = [x \in DOMAIN orders \cup {o} |-> IF x = o THEN "open" ELSE orders[x]]
    /\ UNCHANGED <<world, cursors, checkpoints, indexed_logs, users, balances, nonces, markets,
                   process, history>>

-----------------------------------------------------------------------------
Init ==
    /\ chain = << >> /\ branch = 0
    \* ensure_cursors: a row for every polled address
    /\ \E s \in Scenarios : sent = s.events /\ cursors = [c \in s.contracts |-> 0]
    /\ checkpoints = << >> /\ indexed_logs = {}
    /\ users = {} /\ balances = << >> /\ nonces = [u \in Users |-> 0]
    /\ markets = << >> /\ orders = << >>
    /\ current_block = 0 /\ todo = {} /\ contract = None
    /\ logs = {} /\ block = 1 /\ last = 0
    /\ unapplied = {} /\ inverted = {} /\ past = {} /\ faults = 0

\* A failure of some kind.
Fails(kind) ==
    /\ faults < MaxFaults /\ faults' = faults + 1
    /\ past' = past \cup {kind}

\* On with the logs ls and the blocks from b to end; nothing is left of a contract that is done.
proceed(c, ls, b, end) ==
    IF ls = {} /\ b > end
    THEN contract' = None /\ logs' = {} /\ block' = 1 /\ last' = 0
    ELSE contract' = c /\ logs' = ls /\ block' = b /\ last' = end

\* A round: get_block_number, then the cursors.
poll ==
    /\ contract = None /\ todo = {}
    /\ current_block' = Len(chain) /\ todo' = DOMAIN cursors
    /\ UNCHANGED <<world, database, contract, logs, block, last, history>>

\* Faulty: one block too early.
LastFinal_early(end) == Least(end, current_block - Finality + 1)

\* The last block of start..end with Finality blocks after it.
LastFinal(end) == Least(end, current_block - Finality)

\* The range of a contract and its logs.
get_logs(c) ==
    LET start == cursors[c] + 1
        end   == Least(start + Batch, current_block)
    IN  /\ contract = None /\ c \in todo
        /\ todo' = todo \ {c}
        /\ IF start > current_block
             THEN UNCHANGED <<contract, logs, block, last>>
             ELSE proceed(c, LogsOf(chain, c, start, end), start, LastFinal(end))
        /\ UNCHANGED <<world, database, current_block, history>>

\* Faulty: it goes on as if there had been no logs.
get_logs_fails_is_empty(c) ==
    /\ contract = None /\ c \in todo /\ cursors[c] < current_block
    /\ Fails("get_logs_fails")
    /\ todo' = todo \ {c}
    /\ proceed(c, {}, cursors[c] + 1, LastFinal(Least(cursors[c] + 1 + Batch, current_block)))
    /\ UNCHANGED <<world, database, current_block, unapplied, inverted>>

\* The call fails: the contract waits for the next round.
get_logs_fails(c) ==
    /\ contract = None /\ c \in todo /\ cursors[c] < current_block
    /\ Fails("get_logs_fails")
    /\ todo' = todo \ {c}
    /\ UNCHANGED <<world, database, current_block, contract, logs, block, last, unapplied, inverted>>

-----------------------------------------------------------------------------
\* The table f with the row k set to v, and without the rows of K.
Put(f, k, v) == [x \in DOMAIN f \cup {k} |-> IF x = k THEN v ELSE f[x]]
Drop(f, K)   == [x \in DOMAIN f \ K |-> f[x]]

\* INSERT INTO balances: a new row has the amount, one that is there changes by the delta.
Upsert(u, amount, delta, b) ==
    balances' = Put(balances, u,
        [amount |-> IF u \in DOMAIN balances THEN balances[u].amount + delta ELSE amount, block |-> b])

\* Faulty: a balance for a user there is no row for.
handle_deposited_alone(l) ==
    /\ l.tx.kind = "Deposited"
    /\ Upsert(l.tx.key, l.tx.n, l.tx.n, l.block)
    /\ UNCHANGED <<users, nonces, markets, orders, inverted>>

handle_deposited(l) ==
    /\ l.tx.kind = "Deposited"
    /\ users' = users \cup {l.tx.key}
    /\ Upsert(l.tx.key, l.tx.n, l.tx.n, l.block)
    /\ UNCHANGED <<nonces, markets, orders, inverted>>

\* handle_withdrawn and handle_forced_withdrawal_executed: a user without a row GETS the amount.
handle_withdrawn(l) ==
    /\ l.tx.kind \in Withdrawals
    /\ l.tx.key \in users
    /\ Upsert(l.tx.key, l.tx.n, -l.tx.n, l.block)
    /\ inverted' = IF l.tx.key \in DOMAIN balances THEN inverted ELSE inverted \cup {l.tx.key}
    /\ UNCHANGED <<users, nonces, markets, orders>>

handle_nonce_invalidated(l) ==
    /\ l.tx.kind = "NonceInvalidated"
    /\ users' = users \cup {l.tx.key}
    /\ nonces' = [nonces EXCEPT ![l.tx.key] = l.tx.n]
    /\ orders' = [o \in DOMAIN orders |-> IF o.user = l.tx.key /\ o.nonce < l.tx.n THEN "cancelled"
                                          ELSE orders[o]]
    /\ UNCHANGED <<balances, markets, inverted>>

\* A market that expires later than any time there is room for, which its creator may ask for.
Endless(l) == l.tx.kind = "MarketCreated" /\ l.tx.n > MaxTimestamp

handle_market_created(l) ==
    /\ l.tx.kind = "MarketCreated" /\ ~Endless(l)
    /\ markets' = IF l.tx.key \in DOMAIN markets THEN markets
                  ELSE Put(markets, l.tx.key, [state |-> "open", block |-> l.block])
    /\ UNCHANGED <<users, balances, nonces, orders, inverted>>

\* The four handlers that set the state of a market, if there is such a row.
handle_outcome(l) ==
    /\ l.tx.kind \in DOMAIN StateAfter
    /\ markets' = IF l.tx.key \in DOMAIN markets
                  THEN [markets EXCEPT ![l.tx.key].state = StateAfter[l.tx.kind]] ELSE markets
    /\ UNCHANGED <<users, balances, nonces, orders, inverted>>

\* Heartbeats, thresholds and fee rates are only logged.
Notices == {"OperatorHeartbeat", "OperatorInactivityThresholdUpdated", "FeeRatesUpdated"}

handle_notice(l) == l.tx.kind \in Notices /\ UNCHANGED <<rows, inverted>>

handle(l) ==
    \/ handle_deposited(l) \/ handle_withdrawn(l) \/ handle_nonce_invalidated(l)
    \/ handle_market_created(l) \/ handle_outcome(l) \/ handle_notice(l)

\* The events no handler is for, such as NetDeltasApplied.
Unknown(l) == l.tx.kind = "NetDeltasApplied"

-----------------------------------------------------------------------------
\* Faulty: they are worked off from the end.
Next_log_backwards == CHOOSE l \in logs : \A m \in logs : m = l \/ Before(m, l)

\* The logs come in the order of the chain.
Next_log == CHOOSE l \in logs : \A m \in logs : m = l \/ Before(l, m)

\* Faulty: nothing is looked up.
never_processed(l) == FALSE

\* The row of indexed_logs for a log; its key is the transaction and the index in the block.
Row(l) == [block |-> l.block, index |-> l.index, tx |-> l.tx]

already_processed(l) == \E m \in indexed_logs : m.tx = l.tx /\ m.index = l.index

\* The hash of the block is noted, over one that came before unless that is final.
save_checkpoint(l) ==
    checkpoints' = IF l.block \in DOMAIN checkpoints /\ checkpoints[l.block].final THEN checkpoints
                   ELSE Put(checkpoints, l.block, [hash |-> l.hash, final |-> FALSE])

\* A log that was indexed before is passed over.
skip_log ==
    /\ logs # {} /\ already_processed(Next_log)
    /\ proceed(contract, logs \ {Next_log}, block, last)
    /\ UNCHANGED <<world, database, current_block, todo, history>>

\* Otherwise one transaction notes the block, handles the event and, if there was a handler,
\* remembers the log.
index_log ==
    LET l == Next_log IN
    /\ logs # {} /\ ~already_processed(l)
    /\ save_checkpoint(l)
    /\ \/ /\ handle(l)
          /\ indexed_logs' = indexed_logs \cup {Row(l)}
          /\ unapplied' = unapplied \ {l.tx}
       \/ /\ Unknown(l)
          /\ UNCHANGED <<indexed_logs, rows, unapplied, inverted>>
    /\ proceed(contract, logs \ {l}, block, last)
    /\ UNCHANGED <<world, cursors, current_block, todo, past, faults>>

\* The transaction is rolled back and the loop goes on with the next log: a statement fails, ...
log_fails ==
    LET l == Next_log IN
    /\ logs # {} /\ ~already_processed(l)
    /\ Fails("log_fails")
    /\ proceed(contract, logs \ {l}, block, last)
    /\ unapplied' = unapplied \cup {l.tx}
    /\ UNCHANGED <<world, database, current_block, todo, inverted>>

\* ... or a balance would belong to nobody, as its user is not known, or an expiry has no room.  This
\* transaction fails whenever it is tried.
log_refused ==
    LET l == Next_log IN
    /\ logs # {} /\ ~already_processed(l)
    /\ (l.tx.kind \in Withdrawals /\ l.tx.key \notin users) \/ Endless(l)
    /\ proceed(contract, logs \ {l}, block, last)
    /\ unapplied' = unapplied \cup {l.tx}
    /\ UNCHANGED <<world, database, current_block, todo, inverted, past, faults>>

-----------------------------------------------------------------------------
\* rollback_unfinalized(from_block), one transaction.
From(f, b) == {k \in DOMAIN f : f[k].block >= b}

\* Faulty: the hash that was compared stays.
forget_later_blocks(b) ==
    checkpoints' = Drop(checkpoints, {k \in DOMAIN checkpoints : k > b /\ ~checkpoints[k].final})

forget_blocks(b) ==
    checkpoints' = Drop(checkpoints, {k \in DOMAIN checkpoints : k >= b /\ ~checkpoints[k].final})

\* Faulty: one block too many.
forget_more_logs(b) ==
    /\ indexed_logs' = {l \in indexed_logs : l.block < b - 1}
    /\ unapplied' = unapplied \cup {l.tx : l \in indexed_logs \ indexed_logs'}

forget_logs(b) ==
    /\ indexed_logs' = {l \in indexed_logs : l.block < b}
    /\ unapplied' = unapplied \cup {l.tx : l \in indexed_logs \ indexed_logs'}

rollback_unfinalized(b) ==
    /\ forget_blocks(b) /\ forget_logs(b)
    /\ balances' = Drop(balances, From(balances, b))
    /\ markets' = Drop(markets, From(markets, b))
    /\ inverted' = inverted \ From(balances, b)
    /\ past' = past \cup {"rolled_back"}
    /\ UNCHANGED <<cursors, users, nonces, orders, faults>>

\* The database refuses to delete a market that an order refers to, and with it all the rest.
Referenced(b) == \E o \in DOMAIN orders : o.market \in From(markets, b)

rollback_refused ==
    /\ past' = past \cup {"rollback_refused"}
    /\ UNCHANGED <<database, unapplied, inverted, faults>>

\* The hash that came with the logs of the block is not that of the block.
Mismatch(b) == b \in DOMAIN checkpoints /\ checkpoints[b].hash # chain[b].hash

\* The block is marked final and the cursor moved there, in one transaction.
finalize_block(b) ==
    /\ checkpoints' = IF b \in DOMAIN checkpoints THEN [checkpoints EXCEPT ![b].final = TRUE]
                      ELSE checkpoints
    /\ cursors' = [cursors EXCEPT ![contract] = b]
    /\ UNCHANGED <<indexed_logs, rows, history>>

\* finalize_blocks, one block of its loop.  After a rollback it goes on with the next.
check_block ==
    /\ contract # None /\ logs = {} /\ block <= last
    /\ \/ Mismatch(block) /\ ~Referenced(block) /\ rollback_unfinalized(block)
       \/ Mismatch(block) /\ Referenced(block) /\ rollback_refused
       \/ ~Mismatch(block) /\ finalize_block(block)
    /\ proceed(contract, {}, block + 1, last)
    /\ UNCHANGED <<world, current_block, todo>>

\* The block cannot be fetched, or a statement fails: on to the next.
check_fails ==
    /\ contract # None /\ logs = {} /\ block <= last
    /\ Fails("check_fails")
    /\ proceed(contract, {}, block + 1, last)
    /\ UNCHANGED <<world, database, current_block, todo, unapplied, inverted>>

\* The process stops and is started again.
crash ==
    /\ Fails("crash")
    /\ current_block' = 0 /\ todo' = {} /\ proceed(None, {}, 1, 0)
    /\ UNCHANGED <<world, database, unapplied, inverted>>

-----------------------------------------------------------------------------
Work ==
    \/ poll
    \/ \E c \in todo : get_logs(c)
    \/ skip_log \/ index_log \/ log_refused
    \/ check_block

Failure ==
    \/ \E c \in todo : get_logs_fails(c)
    \/ log_fails \/ check_fails \/ crash

Next ==
    \/ Mine \/ Reorg
    \/ \E o \in Orders : ensure_user(o.user) \/ insert_order(o)
    \/ Work \/ Failure

\* The timer ticks for ever and every call is answered or fails.
Spec == Init /\ [][Next]_vars /\ WF_vars(Work)

-----------------------------------------------------------------------------
Heights   == 0..MaxHeight
BalanceRow == [amount : Int, block : Heights]
MarketRow == [state : {"open", "proposed", "disputed", "resolved"}, block : Heights]
RowRecord == [block : Heights, index : 1..MaxPerBlock, tx : Transactions]
LogRecord == [block : Heights, index : 1..MaxPerBlock, hash : 0..MaxReorgs, tx : Transactions]

\* Types.  A cursor and a range of final blocks end within the chain.
TypeOK ==
    /\ sent \subseteq Transactions /\ branch \in 0..MaxReorgs
    /\ \A b \in DOMAIN chain : chain[b].hash \in 0..branch /\ chain[b].txs \in Seq(sent)
    /\ DOMAIN cursors \subseteq Contracts /\ \A c \in DOMAIN cursors : cursors[c] \in 0..Len(chain)
    /\ \A b \in DOMAIN checkpoints : /\ b \in DOMAIN chain
                                     /\ checkpoints[b] \in [hash : 0..branch, final : BOOLEAN]
    /\ indexed_logs \subseteq RowRecord /\ logs \subseteq LogRecord
    /\ users \subseteq Users /\ DOMAIN balances \subseteq users
    /\ \A u \in DOMAIN balances : balances[u] \in BalanceRow
    /\ nonces \in [Users -> Nat] /\ inverted \subseteq DOMAIN balances
    /\ DOMAIN markets \subseteq Markets
    /\ \A m \in DOMAIN markets : markets[m] \in MarketRow
    /\ DOMAIN orders \subseteq Orders /\ \A o \in DOMAIN orders : orders[o] \in {"open", "cancelled"}
    /\ current_block \in 0..Len(chain) /\ todo \subseteq DOMAIN cursors /\ contract \in DOMAIN cursors \cup {None}
    /\ block \in 1..(Len(chain) + 1) /\ last <= Len(chain)
    /\ unapplied \subseteq Transactions /\ past \subseteq Past /\ faults \in 0..MaxFaults

\* What is marked final stays on the chain: the checkpoint of a finalized block has the hash of a
\* block that can no longer be replaced, whatever failed, crashed or was reorganized before.
FinalizedIsFinal ==
    \A b \in DOMAIN checkpoints : checkpoints[b].final =>
        b <= Len(chain) - Finality /\ checkpoints[b].hash = chain[b].hash

\* The cursor of a contract passes no event unseen: each event of a block it has passed has been
\* indexed, or its transaction failed, or it was taken back by a rollback.
AccountedFor ==
    \A c \in DOMAIN cursors : \A l \in LogsOf(chain, c, 1, cursors[c]) :
        already_processed(l) \/ l.tx \in unapplied \/ Unknown(l)

\* The indexed deposits less the indexed withdrawals of a user.
Amounts(u, kinds) ==
    UNION {{l} \X (1..l.tx.n) : l \in {x \in indexed_logs : x.tx.kind \in kinds /\ x.tx.key = u}}
Indexed(u) == Cardinality(Amounts(u, {"Deposited"})) - Cardinality(Amounts(u, Withdrawals))

\* Every indexed event counts once: until something is rolled back a balance is the sum of the
\* user's indexed events, through failures, crashes, repeated ranges and reorganizations.  A row
\* that a withdrawal has created is excepted, its amount has the wrong sign.
BalancesAreSums ==
    "rolled_back" \notin past => \A u \in Users \ inverted :
        Indexed(u) = IF u \in DOMAIN balances THEN balances[u].amount ELSE 0

\* Of the indexed events of some kinds about a user or market, the last on the chain.
Latest(kinds, k) ==
    LET about == {l \in indexed_logs : l.tx.kind \in kinds /\ l.tx.key = k}
    IN  {l \in about : \A m \in about : m = l \/ Before(m, l)}

\* On a chain without reorganizations, and with no failed transaction, epochs and markets are
\* what the last indexed event says, however often a range is read again.
RowsFollowChain ==
    (branch = 0 /\ "log_fails" \notin past) =>
        /\ \A u \in Users : \A l \in Latest({"NonceInvalidated"}, u) : nonces[u] = l.tx.n
        /\ \A m \in DOMAIN markets : \A l \in Latest(DOMAIN StateAfter, m) :
              markets[m].state = StateAfter[l.tx.kind]

\* A rollback spares what is final: as long as no block went unchecked, no log at or below the
\* cursor of its contract is ever deleted.
FinalLogsStay ==
    [][ past' \cap {"check_fails", "rollback_refused"} = {} =>
          \A l \in indexed_logs : l.block <= cursors[l.tx.contract] => l \in indexed_logs' ]_vars

\* The indexer keeps up: again and again every cursor gets to the last final block, or stands before a
\* block whose rollback the database refuses now.  Nothing else holds it up: no failure, no event that
\* cannot be handled, no rollback, and none that was refused before.
CursorsCatchUp ==
    []<>(\A c \in DOMAIN cursors :
           \/ cursors[c] >= Len(chain) - Finality
           \/ \E b \in (cursors[c] + 1)..(Len(chain) - Finality) : Mismatch(b) /\ Referenced(b))

-----------------------------------------------------------------------------
\* docs/fund-safety.md:40 has the cursors and the indexed logs provide idempotent reprocessing: a
\* transaction is indexed once.  Mined again, in another place of its block, it has another key.
IdempotentReprocessing == \A l, m \in indexed_logs : l.tx = m.tx => l = m

=============================================================================
