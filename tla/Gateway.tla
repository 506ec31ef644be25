------------------------------ MODULE Gateway ------------------------------
(***************************************************************************)
(* backend/gateway: the HTTP handlers (service.rs, infra.rs), the matcher  *)
(* thread (engine.rs) and the result processor, around one database and    *)
(* two channels.                                                           *)
(*                                                                         *)
(* A step is what runs without another task in between: one SQL statement, *)
(* one message taken from a channel, or one event published.  Each SQL     *)
(* statement is taken by what it says and may fail.  A crash loses the     *)
(* memory of the process: books, channels, requests under way.             *)
(*                                                                         *)
(* The signed orders are valid ones (validate_signed_order): a request     *)
(* refused there changes nothing.  Time is left out, and so are deadlines, *)
(* which nothing looks at once an order is accepted.                       *)
(***************************************************************************)
EXTENDS OrderBook

CONSTANTS
    Users, Positions,
    SignedOrders,       \* the orders users sign: records maker, side, position, price, amount
    Scale,              \* PRICE_SCALE
    QueueCapacity,      \* of the channel to the matcher
    Wealth,             \* what each account starts with
    Indexed,            \* whose balance the indexer moves, and by how much
    MaxOrders,          \* bound: orders submitted
    MaxUnderWay,        \* bound: requests accept_order is working on at a time
    MaxEvents           \* bound: cancels, failures, callers that hang up, indexer updates and crashes, together

Ids      == 1..MaxOrders
Accounts == Users \X (Positions \cup {"usdc"})

ASSUME SignedOrdersTyped ==
    \A o \in SignedOrders : /\ o.maker \in Users /\ o.side \in {"buy", "sell"}
                            /\ o.position \in Positions
                            /\ o.price \in 1..Scale /\ o.amount \in Nat \ {0}
ASSUME BoundsTyped == /\ Scale \in Nat \ {0} /\ QueueCapacity \in Nat \ {0} /\ Wealth \in Nat
                      /\ Indexed \subseteq Users \X Int
                      /\ MaxOrders \in Nat /\ MaxUnderWay \in Nat /\ MaxEvents \in Nat

VARIABLES
    available, hold,    \* the balances table
    orders,             \* the orders table, in the order of created_at
    holds,              \* the orders that have a row in the holds table
    at,                 \* where each order's accept_order is
    sent,               \* the signed order of each request
    cancelling,         \* the cancel requests between the command and the database
    queue,              \* the bounded channel to the matcher
    books,              \* the matcher's order books
    results,            \* the unbounded channel to the result processor: the fills in it
    persisting,         \* the result processor's next statement for the first fill
    published,          \* the topic orders.matched (external)
    traded,             \* history: what the matcher has filled of each order
    indexed,            \* history: what the indexer has added to each balance
    restarted,          \* history: has the process been restarted?
    lost,               \* history: orders of which a fill could not be stored, or was lost in a crash
    events              \* what MaxEvents counts

database == <<available, hold, orders, holds>>
requests == <<at, sent, cancelling>>
matcher  == <<queue, books, traded>>
outcome  == <<results, persisting, published>>
world    == <<indexed, restarted, lost, events>>
vars     == <<database, requests, matcher, outcome, world>>

-----------------------------------------------------------------------------
\* Order::required_collateral and asset_type.
required_collateral(o) ==
    IF o.side = "buy" THEN (o.amount * o.price + Scale - 1) \div Scale ELSE o.amount

account(o) == <<o.maker, IF o.side = "buy" THEN "usdc" ELSE o.position>>

NoOrder == [maker |-> "none"]

Init ==
    /\ available = [a \in Accounts |-> Wealth]
    /\ hold = [a \in Accounts |-> 0]
    /\ orders = << >>
    /\ holds = {}
    /\ at = [i \in Ids |-> "idle"]
    /\ sent = [i \in Ids |-> NoOrder]
    /\ cancelling = {}
    /\ queue = << >>
    /\ books = [p \in Positions |-> EmptyBook]
    /\ results = << >>
    /\ persisting = "publish"
    /\ published = << >>
    /\ traded = [i \in Ids |-> 0]
    /\ indexed = [a \in Accounts |-> 0]
    /\ restarted = FALSE
    /\ lost = {}
    /\ events = 0

UnderWay == {"reserved", "inserted", "held", "releasing"}

step(i, from, to) == at[i] = from /\ at' = [at EXCEPT ![i] = to]

anEvent == events < MaxEvents /\ events' = events + 1

\* A statement fails, or does not.
failure(ok) == IF ok THEN UNCHANGED world ELSE anEvent /\ UNCHANGED <<indexed, restarted, lost>>

-----------------------------------------------------------------------------
(* accept_order, a database statement at a time.                           *)

\* Faulty: the balance was looked at in an earlier statement.
reserveUnchecked(i, o) ==
    LET a == account(o)
        n == required_collateral(o)
    IN  /\ \A j \in 1..(i - 1) : at[j] # "idle"
        /\ Cardinality({j \in Ids : at[j] \in UnderWay}) < MaxUnderWay
        /\ step(i, "idle", "reserved")
        /\ sent' = [sent EXCEPT ![i] = o]
        /\ available' = [available EXCEPT ![a] = @ - n]
        /\ hold' = [hold EXCEPT ![a] = @ + n]
        /\ UNCHANGED <<orders, holds, cancelling, matcher, outcome, world>>

reserve_collateral(i, o) ==
    LET a == account(o)
        n == required_collateral(o)
    IN  /\ \A j \in 1..(i - 1) : at[j] # "idle"
        /\ Cardinality({j \in Ids : at[j] \in UnderWay}) < MaxUnderWay
        /\ step(i, "idle", "reserved")
        /\ sent' = [sent EXCEPT ![i] = o]
        /\ available[a] >= n
        /\ available' = [available EXCEPT ![a] = @ - n]
        /\ hold' = [hold EXCEPT ![a] = @ + n]
        /\ UNCHANGED <<orders, holds, cancelling, matcher, outcome, world>>

insert_order(i) ==
    /\ step(i, "reserved", "inserted")
    /\ orders' = Append(orders, [id |-> i, order |-> sent[i], status |-> "open", filled |-> 0])
    /\ UNCHANGED <<available, hold, holds, sent, cancelling, matcher, outcome, world>>

insert_hold(i) ==
    /\ step(i, "inserted", "held")
    /\ holds' = holds \cup {i}
    /\ UNCHANGED <<available, hold, orders, sent, cancelling, matcher, outcome, world>>

\* Either insert fails: what was reserved is to be released, the row of the order stays.
insertFails(i) ==
    /\ step(i, "reserved", "releasing") \/ step(i, "inserted", "releasing")
    /\ UNCHANGED <<database, sent, cancelling, matcher, outcome>>
    /\ failure(FALSE)

\* Faulty: the hold is lifted and the funds are not given back.
releaseHoldOnly(i) ==
    LET a == account(sent[i])
        n == required_collateral(sent[i])
    IN  /\ step(i, "releasing", "rejected")
        /\ hold' = [hold EXCEPT ![a] = Max({@ - n, 0})]
        /\ UNCHANGED <<available, orders, holds, sent, cancelling, matcher, outcome, world>>

release_collateral(i) ==
    LET a == account(sent[i])
        n == required_collateral(sent[i])
    IN  /\ step(i, "releasing", "rejected")
        /\ hold' = [hold EXCEPT ![a] = Max({@ - n, 0})]
        /\ available' = [available EXCEPT ![a] = @ + n]
        /\ UNCHANGED <<orders, holds, sent, cancelling, matcher, outcome, world>>

releaseFails(i) ==
    /\ step(i, "releasing", "rejected")
    /\ UNCHANGED <<database, sent, cancelling, matcher, outcome>>
    /\ failure(FALSE)

\* Faulty: the order is sent to the matcher before its hold is on record.
enqueueEarly(i) ==
    /\ Len(queue) < QueueCapacity
    /\ step(i, "held", "accepted") \/ step(i, "inserted", "accepted")
    /\ queue' = Append(queue, [do |-> "place", id |-> i, order |-> sent[i]])
    /\ UNCHANGED <<database, sent, cancelling, books, traded, outcome, world>>

\* try_send: the caller gets the order's id.
enqueue(i) ==
    /\ Len(queue) < QueueCapacity
    /\ step(i, "held", "accepted")
    /\ queue' = Append(queue, [do |-> "place", id |-> i, order |-> sent[i]])
    /\ UNCHANGED <<database, sent, cancelling, books, traded, outcome, world>>

\* Faulty: a full queue gives the collateral back and leaves the hold on record.
enqueueReleasing(i) ==
    /\ Len(queue) >= QueueCapacity
    /\ step(i, "held", "releasing")
    /\ UNCHANGED <<database, sent, cancelling, matcher, outcome, world>>

\* The queue is full: the caller gets an error, and the order stays open with its hold.
enqueueFails(i) ==
    /\ Len(queue) >= QueueCapacity
    /\ step(i, "held", "rejected")
    /\ UNCHANGED <<database, sent, cancelling, matcher, outcome, world>>

\* The caller hangs up: the handler is dropped where it waits, and what it has stored stays.
disconnected(i) ==
    /\ at[i] \in UnderWay
    /\ at' = [at EXCEPT ![i] = "rejected"]
    /\ UNCHANGED <<database, sent, cancelling, matcher, outcome>>
    /\ failure(FALSE)

AcceptOrder(i) ==
    \/ \E o \in SignedOrders : reserve_collateral(i, o)
    \/ insert_order(i) \/ insert_hold(i) \/ insertFails(i)
    \/ release_collateral(i) \/ releaseFails(i)
    \/ enqueue(i) \/ enqueueFails(i)
    \/ disconnected(i)

-----------------------------------------------------------------------------
(* cancel_order: the command first, then the database.  The caller names   *)
(* the position, and nobody compares it with the order's.                  *)

cancel_order(i, p) ==
    /\ at[i] = "accepted"
    /\ i \notin cancelling
    /\ anEvent
    /\ Len(queue) < QueueCapacity
    /\ queue' = Append(queue, [do |-> "cancel", id |-> i, position |-> p])
    /\ cancelling' = cancelling \cup {i}
    /\ UNCHANGED <<database, at, sent, books, traded, outcome, indexed, restarted, lost>>

cancel_order_db(i) ==
    /\ i \in cancelling
    /\ cancelling' = cancelling \ {i}
    /\ orders' = [k \in DOMAIN orders |->
                    IF orders[k].id = i /\ orders[k].status = "open"
                      THEN [orders[k] EXCEPT !.status = "cancelled"] ELSE orders[k]]
    /\ UNCHANGED <<available, hold, holds, at, sent, matcher, outcome, world>>

cancelFails(i) ==
    /\ i \in cancelling
    /\ cancelling' = cancelling \ {i}
    /\ UNCHANGED <<database, at, sent, matcher, outcome>>
    /\ failure(FALSE)

CancelOrder(i) == (\E p \in Positions : cancel_order(i, p)) \/ cancel_order_db(i) \/ cancelFails(i)

-----------------------------------------------------------------------------
(* The matcher thread takes one command.                                   *)

PlaceOrder ==
    /\ queue # << >> /\ Head(queue).do = "place"
    /\ \E c \in {Head(queue)} : \E m \in {place(books[c.order.position], c.id, c.order)} :
           /\ books' = [books EXCEPT ![c.order.position] = m.book]
           /\ results' = results \o m.fills
           /\ traded' = [i \in Ids |-> traded[i] + filledOf(i, m.fills)]
    /\ queue' = Tail(queue)
    /\ UNCHANGED <<database, requests, persisting, published, world>>

\* Faulty: an order that is not in the book is waited for.
CancelResting ==
    /\ queue # << >> /\ Head(queue).do = "cancel"
    /\ rests(books[Head(queue).position], Head(queue).id)
    /\ books' = [books EXCEPT ![Head(queue).position] = cancel(@, Head(queue).id)]
    /\ queue' = Tail(queue)
    /\ UNCHANGED <<database, requests, traded, outcome, world>>

CancelInBook ==
    /\ queue # << >> /\ Head(queue).do = "cancel"
    /\ books' = [books EXCEPT ![Head(queue).position] = cancel(@, Head(queue).id)]
    /\ queue' = Tail(queue)
    /\ UNCHANGED <<database, requests, traded, outcome, world>>

-----------------------------------------------------------------------------
(* process_match_result: publish the fill, then the maker's row, then the  *)
(* taker's.  A statement that fails (ok is FALSE) is logged and passed by. *)

\* update_order_filled
update_order_filled(i, n, status) ==
    [k \in DOMAIN orders |->
        IF orders[k].id = i THEN [orders[k] EXCEPT !.filled = @ + n, !.status = status] ELSE orders[k]]

publish_match(ok) ==
    /\ results # << >> /\ persisting = "publish"
    /\ published' = IF ok THEN Append(published, Head(results)) ELSE published
    /\ persisting' = "maker"
    /\ UNCHANGED <<database, requests, matcher, results>>
    /\ failure(ok)

\* The update of an order's row is done, or the fill is lost to it.
storing(i, ok) ==
    /\ lost' = IF ok THEN lost ELSE lost \cup {i}
    /\ IF ok THEN UNCHANGED <<indexed, restarted, events>> ELSE anEvent /\ UNCHANGED <<indexed, restarted>>

updateMaker(ok) ==
    /\ results # << >> /\ persisting = "maker"
    /\ orders' = IF ok THEN update_order_filled(Head(results).maker, Head(results).amount, "filled")
                       ELSE orders
    /\ persisting' = "taker"
    /\ UNCHANGED <<available, hold, holds, requests, matcher, results, published>>
    /\ storing(Head(results).maker, ok)

\* Faulty: a result that cannot be stored whole is taken up again.
updateTakerRetrying(ok) ==
    /\ results # << >> /\ persisting = "taker"
    /\ orders' = IF ok THEN update_order_filled(Head(results).taker, Head(results).amount, "open")
                       ELSE orders
    /\ persisting' = "publish"
    /\ results' = IF ok THEN Tail(results) ELSE results
    /\ UNCHANGED <<available, hold, holds, requests, matcher, published>>
    /\ storing(Head(results).taker, ok)

updateTaker(ok) ==
    /\ results # << >> /\ persisting = "taker"
    /\ orders' = IF ok THEN update_order_filled(Head(results).taker, Head(results).amount, "open")
                       ELSE orders
    /\ persisting' = "publish"
    /\ results' = Tail(results)
    /\ UNCHANGED <<available, hold, holds, requests, matcher, published>>
    /\ storing(Head(results).taker, ok)

ProcessMatchResult == \E ok \in BOOLEAN : publish_match(ok) \/ updateMaker(ok) \/ updateTaker(ok)

-----------------------------------------------------------------------------
\* The indexer's handlers and post_reconcile move an available balance, either way.
indexedBalance(u, n) ==
    /\ anEvent
    /\ available' = [available EXCEPT ![<<u, "usdc">>] = @ + n]
    /\ indexed' = [indexed EXCEPT ![<<u, "usdc">>] = @ + n]
    /\ UNCHANGED <<hold, orders, holds, requests, matcher, outcome, restarted, lost>>

\* The open rows of a position.
load_open_orders(p) == {k \in DOMAIN orders : orders[k].order.position = p /\ orders[k].status = "open"}

restingRow(row) == [id |-> row.id, order |-> row.order, filled |-> row.filled, seq |-> 0]

\* Every open row is inserted, the oldest first.
rebuild_books ==
    [p \in Positions |->
        LET book[k \in 0..Len(orders)] ==
              IF k = 0 THEN EmptyBook
              ELSE IF k \in load_open_orders(p) THEN insert(book[k-1], restingRow(orders[k]))
              ELSE book[k-1]
        IN  book[Len(orders)]]

\* What the result processor has still to store of an order.
pending(i) ==
    filledOf(i, results)
      - (IF persisting = "taker" /\ Head(results).maker = i THEN Head(results).amount ELSE 0)

\* The process stops anywhere and starts again.  A request under way is never answered.
Restart ==
    /\ anEvent
    /\ restarted' = TRUE
    /\ lost' = lost \cup {i \in Ids : pending(i) > 0}
    /\ at' = [i \in Ids |-> IF at[i] \in UnderWay THEN "rejected" ELSE at[i]]
    /\ cancelling' = {}
    /\ queue' = << >>
    /\ results' = << >>
    /\ persisting' = "publish"
    /\ books' = rebuild_books
    /\ UNCHANGED <<database, sent, published, traded, indexed>>

Next ==
    \/ \E i \in Ids : AcceptOrder(i) \/ CancelOrder(i)
    \/ PlaceOrder \/ CancelInBook
    \/ ProcessMatchResult
    \/ \E c \in Indexed : indexedBalance(c[1], c[2])
    \/ Restart

\* What goes on by itself: requests under way, the matcher and the result processor.
Work ==
    \/ \E i \in Ids : \/ insert_order(i) \/ insert_hold(i) \/ release_collateral(i)
                      \/ enqueue(i) \/ enqueueFails(i) \/ cancel_order_db(i)
    \/ PlaceOrder \/ CancelInBook
    \/ ProcessMatchResult

\* Tasks and threads are scheduled, and every statement returns, well or not.
Spec == Init /\ [][Next]_vars /\ WF_vars(Work)

-----------------------------------------------------------------------------
Resting(p) == {books[p].buy[k] : k \in DOMAIN books[p].buy}
                \cup {books[p].sell[k] : k \in DOMAIN books[p].sell}

\* The types, and that no order, in a book or in the database of open orders, is filled past its amount,
\* where remaining() would wrap.
TypeOK ==
    /\ available \in [Accounts -> Int]
    /\ hold \in [Accounts -> Nat]
    /\ holds \subseteq Ids
    /\ at \in [Ids -> {"idle", "accepted", "rejected"} \cup UnderWay]
    /\ \A k \in DOMAIN orders : orders[k].status \in {"open", "filled", "cancelled"}
    /\ Len(queue) <= QueueCapacity
    /\ \A p \in Positions : \A r \in Resting(p) : r.filled \in 0..r.order.amount
    /\ persisting \in {"publish", "maker", "taker"}

\* Whatever requests, failures and crashes do, what an account has, free and held together, is what it
\* started with and what the indexer added.
FundsConserved ==
    \A a \in Accounts : available[a] + hold[a] = Wealth + indexed[a]

\* The balances table is an escrow: concurrent requests never reserve more than is free, and what is given
\* back was held and is given back once.
Collateral == INSTANCE Escrow WITH free <- available, held <- hold, credited <- indexed
ImplementsEscrow == Collateral!Spec

\* The holds on record never add up to more than the hold amount of their account, whichever statement
\* of accept_order was the last to succeed.
HoldsCovered ==
    \A a \in Accounts :
        Total([i \in Ids |-> IF i \in holds /\ account(sent[i]) = a
                               THEN required_collateral(sent[i]) ELSE 0]) <= hold[a]

\* fund-safety.md:11, collateral is reserved before the book sees the order: what rests has a hold on
\* record.  Only a restart makes exceptions, which puts every open row into the book: rows of requests
\* that failed, or were dropped, before their hold was there.  No order its caller was told is accepted
\* is one of them.
RestingIsHeld ==
    \A p \in Positions : \A r \in Resting(p) : r.id \in holds \/ (restarted /\ at[r.id] = "rejected")

\* Until a restart fills a book with what it finds, no bid ever meets an ask.
Uncrossed ==
    ~restarted => \A p \in Positions : \A j \in DOMAIN books[p].buy, k \in DOMAIN books[p].sell :
                       books[p].buy[j].order.price < books[p].sell[k].order.price

\* gateway.md:68, price-time priority: an order trades only once everything that was ahead of it, at a
\* better price or earlier at the same one, is out of the book.
FillsFollowPriority ==
    [][\A p \in Positions, side \in {"buy", "sell"} : \A j, k \in DOMAIN books[p][side] :
          LET first  == books[p][side][j]
              second == books[p][side][k]
          IN  /\ \/ better(side, first.order.price, second.order.price)
                 \/ first.order.price = second.order.price /\ first.seq < second.seq
              /\ traded'[second.id] > traded[second.id]
              => ~rests(books'[p], first.id)]_vars

\* Whatever fails in between, what is stored of an order and what is still to be stored are never more
\* than the matcher has traded of it, and less only if a statement failed or a crash took the fill.
FillsCountOnce ==
    \A k \in DOMAIN orders :
        LET row == orders[k] IN
        /\ row.filled + pending(row.id) <= traded[row.id]
        /\ row.id \notin lost => row.filled + pending(row.id) = traded[row.id]

\* Every request is answered, every command carried out and every fill stored in the end: an order does
\* not stay for ever with its request under way, in the queue, or with fills its row does not have.
Settled(i) ==
    /\ at[i] \notin UnderWay
    /\ \A k \in DOMAIN queue : queue[k].id # i
    /\ \A k \in DOMAIN orders : orders[k].id = i /\ i \notin lost => orders[k].filled = traded[i]

OrdersSettle == []<>(\A i \in Ids : Settled(i))

\* gateway.md:70, "the remainder rests in the book": what rests of an order is its amount less what it
\* has traded.
RemainderRests ==
    ~restarted => \A p \in Positions : \A r \in Resting(p) : remaining(r) = r.order.amount - traded[r.id]

\* gateway.md:128, the cancelled status: a cancelled order is never open again.
CancelledStaysCancelled ==
    [][\A k \in DOMAIN orders : orders[k].status = "cancelled" => orders'[k].status # "open"]_vars

=============================================================================
