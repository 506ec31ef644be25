----------------------------- MODULE OrderBook -----------------------------
(***************************************************************************)
(* backend/gateway/src/domain.rs: the order book of one position, and what *)
(* engine.rs makes of an order that arrives.                               *)
(*                                                                         *)
(* A side of the book, a BTreeMap of prices to queues, is the sequence of  *)
(* its orders in the order in which they are matched: best price first,    *)
(* first come first within a price.  Empty price levels, which prune()     *)
(* removes, leave no trace in it.                                          *)
(***************************************************************************)
EXTENDS Ledger, SequencesExt

EmptyBook == [buy |-> << >>, sell |-> << >>, next_seq |-> 0]

opposite(side) == IF side = "buy" THEN "sell" ELSE "buy"

\* RestingOrder.remaining
remaining(resting) == resting.order.amount - resting.filled

\* Is price p strictly better than q for who rests on this side?
better(side, p, q) == IF side = "buy" THEN p > q ELSE p < q

\* Faulty: a price at the limit itself is refused.
acceptsInside(side, limit, p) == IF side = "buy" THEN p < limit ELSE p > limit

\* Does a taker on this side with this limit accept price p?
accepts(side, limit, p) == IF side = "buy" THEN p <= limit ELSE p >= limit

\* Faulty: the newcomer goes to the front of its price level.
insertInFront(book, resting) ==
    LET side  == resting.order.side
        ahead == {k \in DOMAIN book[side] : better(side, book[side][k].order.price, resting.order.price)}
    IN  [book EXCEPT ![side] = InsertAt(@, Max({0} \cup ahead) + 1, [resting EXCEPT !.seq = book.next_seq]),
                     !.next_seq = @ + 1]

\* Behind the last order whose price is as good.
insert(book, resting) ==
    LET side  == resting.order.side
        ahead == {k \in DOMAIN book[side] : ~better(side, resting.order.price, book[side][k].order.price)}
    IN  [book EXCEPT ![side] = InsertAt(@, Max({0} \cup ahead) + 1, [resting EXCEPT !.seq = book.next_seq]),
                     !.next_seq = @ + 1]

fillOf(maker, id, amount) ==
    [maker |-> maker.id, taker |-> id, price |-> maker.order.price, amount |-> amount]

\* Faulty: a maker gives all the taker asks for.
giveAll(wanted, maker) == wanted

fill_amount(wanted, maker) == IF wanted < remaining(maker) THEN wanted ELSE remaining(maker)

\* The loops of match_buy and match_sell at one resting order: it is out of the taker's reach, or the
\* taker's own and dropped from the book, or filled in part or in whole.
matchOne(progress, maker, id, order) ==
    LET amount == fill_amount(progress.remaining, maker)
        after  == [maker EXCEPT !.filled = @ + amount]
    IN  IF progress.remaining = 0 \/ ~accepts(order.side, order.price, maker.order.price)
          THEN [progress EXCEPT !.left = Append(@, maker)]
        ELSE IF maker.order.maker = order.maker
          THEN progress
          ELSE [remaining |-> progress.remaining - amount,
                fills     |-> Append(progress.fills, fillOf(maker, id, amount)),
                left      |-> progress.left \o (IF remaining(after) = 0 THEN << >> ELSE <<after>>)]

\* The taker's progress past each order of the opposite side, from nothing to the end.
match(book, id, order) ==
    LET side == book[opposite(order.side)]
        progress[k \in 0..Len(side)] ==
            IF k = 0 THEN [remaining |-> order.amount, fills |-> << >>, left |-> << >>]
                     ELSE matchOne(progress[k-1], side[k], id, order)
    IN  progress[Len(side)]

fillsTotal(fills) == Total([k \in DOMAIN fills |-> fills[k].amount])

\* What the fills trade of order i.
filledOf(i, fills) ==
    Total([k \in DOMAIN fills |-> IF i \in {fills[k].maker, fills[k].taker} THEN fills[k].amount ELSE 0])

\* MatchCommand::PlaceOrder: match, then rest what the taker did not get.  What is recorded as filled
\* of a resting order is its amount less its fills (engine.rs:71).
place(book, id, order) ==
    LET m       == match(book, id, order)
        matched == [book EXCEPT ![opposite(order.side)] = m.left]
        resting == [id |-> id, order |-> order, filled |-> order.amount - fillsTotal(m.fills), seq |-> 0]
    IN  [fills |-> m.fills,
         book  |-> IF m.remaining = 0 THEN matched ELSE insert(matched, resting)]

\* OrderBook::cancel
cancel(book, id) ==
    LET found(s)  == {k \in DOMAIN s : s[k].id = id}
        others(s) == IF found(s) = {} THEN s ELSE RemoveAt(s, Min(found(s)))
    IN  [book EXCEPT !.buy = others(@), !.sell = IF found(book.buy) = {} THEN others(@) ELSE @]

\* Is anything resting under this id?
rests(book, id) == \E side \in {"buy", "sell"} : \E k \in DOMAIN book[side] : book[side][k].id = id

=============================================================================
