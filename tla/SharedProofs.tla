---------------------------- MODULE SharedProofs ----------------------------
(***************************************************************************)
(* The indexer and the gateway around one database, for every finite set   *)
(* of orders: the indexer's invariants hold next to the gateway, what the  *)
(* gateway has reserved is in the holds, and free and held together are    *)
(* what has been indexed.                                                  *)
(***************************************************************************)
EXTENDS SharedDatabase, IndexerProofs

\* A step of an order's request leaves the indexer's own tables and its process alone.
LEMMA RequestsAreQuiet ==
  ASSUME NEW o \in Orders, AcceptOrder(o)
  PROVE  Quiet
<1>1. CASE makeKnown(o) \/ storeOrder(o)
  BY <1>1 DEF makeKnown, storeOrder, ensure_user, insert_order, Quiet
<1>2. CASE reserve_collateral(o) \/ release_collateral(o)
  BY <1>2 DEF reserve_collateral, release_collateral, Untouched, Quiet
<1>3. CASE reserve_refused(o) \/ orderRefused(o)
  BY <1>3 DEF reserve_refused, orderRefused, vars, database, Quiet
<1> QED
  BY <1>1, <1>2, <1>3 DEF AcceptOrder

\* What a step of the two processes is to the indexer.
LEMMA StepsOfIndexer ==
  ASSUME [SharedNext]_sharedVars
  PROVE  ChainMoves \/ Work \/ Failure \/ Quiet
<1>1. CASE SharedNext
  BY <1>1, RequestsAreQuiet DEF SharedNext, Beside, ChainMoves
<1>2. CASE UNCHANGED sharedVars
  BY <1>2 DEF sharedVars, vars, database, Quiet
<1> QED
  BY <1>1, <1>2

\* The invariant of the indexer, next to the gateway.
LEMMA SharedInvariant == SharedSpec => []IndexerInv
<1>1. SharedInit => IndexerInv
  BY InitInv DEF SharedInit
<1>2. IndexerInv /\ [SharedNext]_sharedVars => IndexerInv'
  BY StepsOfIndexer, IndexerStep
<1> QED
  BY <1>1, <1>2, PTL DEF SharedSpec

\* A finalized checkpoint has the hash of a block that the chain can no longer replace, whatever the
\* gateway writes meanwhile.
THEOREM SharedFinality == SharedSpec => []FinalizedIsFinal
<1>1. IndexerInv => FinalizedIsFinal
  BY DEF IndexerInv
<1> QED
  BY <1>1, SharedInvariant, PTL

\* No cursor passes an event that is not indexed, not refused, not taken back and not one to ignore.
THEOREM NothingIsMissed == SharedSpec => []AccountedFor
<1>1. IndexerInv => AccountedFor
  BY DEF IndexerInv
<1> QED
  BY <1>1, SharedInvariant, PTL

\* No request touches epochs or the states of markets.
LEMMA RequestsKeepRows ==
  ASSUME NEW o \in Orders, AcceptOrder(o)
  PROVE  UNCHANGED <<nonces, markets>>
BY DEF AcceptOrder, makeKnown, storeOrder, ensure_user, insert_order, reserve_collateral, release_collateral,
       reserve_refused, orderRefused, Untouched, vars, database, rows

\* On a chain that has replaced no block, and unless a transaction has failed for want of the database,
\* epochs and markets are what the last indexed event says, with the gateway next to the indexer.
THEOREM SharedRowsFollowChain == SharedSpec => []RowsFollowChain
<1>1. SharedInit => FollowInv
  BY FollowInit DEF SharedInit
<1>2. IndexerInv /\ FollowInv /\ [SharedNext]_sharedVars => FollowInv'
  <2> SUFFICES ASSUME IndexerInv, FollowInv, [SharedNext]_sharedVars PROVE FollowInv'
    OBVIOUS
  <2>1. ASSUME NEW o \in Orders, AcceptOrder(o) PROVE Quiet /\ UNCHANGED <<nonces, markets>>
    BY <2>1, RequestsAreQuiet, RequestsKeepRows
  <2>2. CASE UNCHANGED sharedVars
    BY <2>2, FollowStep DEF sharedVars, vars, database, rows, Quiet
  <2> QED BY <2>1, <2>2, FollowStep DEF SharedNext, Beside, ChainMoves
<1> QED
  BY <1>1, <1>2, SharedInvariant, FollowedRows, PTL DEF SharedSpec

\* A rollback spares what is final: no log at or below the cursor of its contract is ever deleted, as
\* long as no check of a block has failed.
THEOREM SharedFinalLogsStay == SharedSpec => FinalLogsStay
<1> DEFINE I == IndexerInv /\ StayInv
<1>1. SharedInit => I
  BY InitInv, InitStay DEF SharedInit
<1>2. I /\ [SharedNext]_sharedVars => I'
  BY StepsOfIndexer, IndexerStep, StayStep
<1>3. I /\ [SharedNext]_sharedVars =>
        [past' \cap {"check_fails", "rollback_refused"} = {} =>
           \A l \in indexed_logs : l.block <= cursors[l.tx.contract] => l \in indexed_logs']_vars
  <2> SUFFICES ASSUME I, [SharedNext]_sharedVars PROVE Spares
    BY DEF Spares, Unchecked
  <2> QED BY StepsOfIndexer, StepSpares
<1> HIDE DEF I
<1> QED
  BY <1>1, <1>2, <1>3, PTL DEF SharedSpec, FinalLogsStay

-----------------------------------------------------------------------------
Stages == {"idle", "known", "reserved", "stored", "releasing", "rejected"}

RequestsTyped ==
    /\ at \in [Orders -> Stages]
    /\ DOMAIN hold = DOMAIN balances /\ \A u \in DOMAIN hold : hold[u] \in Nat

\* A step of the indexer or of the chain next to the requests.
Aside == (ChainMoves \/ Work \/ Failure) /\ KeepHolds /\ UNCHANGED at

\* A step is one of the indexer or of the chain, one of a request, or none.
LEMMA SharedSteps ==
  ASSUME [SharedNext]_sharedVars
  PROVE  Aside \/ (\E o \in Orders : AcceptOrder(o)) \/ UNCHANGED sharedVars
BY DEF SharedNext, Beside, ChainMoves, Aside

\* The holds a step of the indexer leaves.
LEMMA HoldsKept ==
  ASSUME RequestsTyped, KeepHolds
  PROVE  /\ DOMAIN hold' = DOMAIN balances'
         /\ \A u \in DOMAIN hold' : /\ hold'[u] \in Nat
                                    /\ hold'[u] = IF u \in DOMAIN balances THEN hold[u] ELSE 0
BY DEF RequestsTyped, KeepHolds

\* A request changes the amount of one row by a whole number.
LEMMA ShiftedRows ==
  ASSUME RowsTyped, NEW u \in DOMAIN balances, NEW n \in Int, Shift(u, n)
  PROVE  /\ DOMAIN balances' = DOMAIN balances
         /\ \A x \in DOMAIN balances : /\ balances'[x] \in BalanceRow
                                       /\ balances'[x].block = balances[x].block
                                       /\ x # u => balances'[x] = balances[x]
         /\ balances'[u].amount = balances[u].amount - n
<1>0. balances' = [balances EXCEPT ![u].amount = balances[u].amount - n]
  BY DEF Shift
<1> DEFINE row == [balances[u] EXCEPT !.amount = balances[u].amount - n]
<1>1. balances' = [balances EXCEPT ![u] = row]
  BY <1>0
<1>2. /\ row.amount = balances[u].amount - n /\ row.block = balances[u].block /\ row \in BalanceRow
      /\ \A x \in DOMAIN balances : balances[x] \in BalanceRow
  BY DEF RowsTyped, BalanceRow
<1> HIDE DEF row
<1> QED
  BY <1>1, <1>2

\* The types next to the requests.
LEMMA RequestsStep ==
  ASSUME RowsTyped, RequestsTyped, NEW o \in Orders, AcceptOrder(o)
  PROVE  RowsTyped' /\ RequestsTyped'
<1> DEFINE u == o.user
           n == o.collateral
<1>0. u \in Users /\ n \in Nat /\ n \in Int /\ -n \in Int
  BY OrdersCollateralized
<1>1. at' \in [Orders -> Stages]
  BY DEF AcceptOrder, makeKnown, reserve_collateral, reserve_refused, storeOrder, orderRefused,
         release_collateral, step, RequestsTyped, Stages
<1>2. ASSUME UNCHANGED <<balances, hold>>
      PROVE  RequestsTyped'
  BY <1>1, <1>2 DEF RequestsTyped
<1>3. ASSUME u \in DOMAIN balances, NEW d \in Int, Shift(u, d), Untouched,
             NEW h \in Nat, hold' = [hold EXCEPT ![u] = h]
      PROVE  RowsTyped' /\ RequestsTyped'
  <2>1. /\ DOMAIN balances' = DOMAIN balances /\ \A x \in DOMAIN balances : balances'[x] \in BalanceRow
    BY <1>3, ShiftedRows
  <2>2. UNCHANGED <<users, nonces, markets, orders, inverted>>
    BY <1>3 DEF Untouched, history
  <2> QED BY <1>1, <1>3, <2>1, <2>2 DEF RowsTyped, RequestsTyped
<1>4. CASE makeKnown(o)
  <2>1. /\ users' = users \cup {u}
        /\ UNCHANGED <<balances, nonces, inverted, markets, orders, hold>>
    BY <1>4 DEF makeKnown, ensure_user, history
  <2>2. RequestsTyped'
    BY <1>2, <2>1
  <2>3. RowsTyped'
    BY <1>0, <2>1 DEF RowsTyped
  <2> QED BY <2>2, <2>3
<1>5. CASE reserve_collateral(o)
  <2>1. u \in DOMAIN balances /\ Shift(u, n) /\ Untouched /\ hold' = [hold EXCEPT ![u] = hold[u] + n]
        /\ hold[u] + n \in Nat
    BY <1>0, <1>5 DEF reserve_collateral, RequestsTyped
  <2> HIDE DEF u, n
  <2> QED BY <1>0, <1>3, <2>1
<1>6. CASE release_collateral(o)
  <2>1. CASE u \in DOMAIN balances
    <3> DEFINE h == IF hold[u] >= n THEN hold[u] - n ELSE 0
    <3>1. Shift(u, -n) /\ Untouched /\ hold' = [hold EXCEPT ![u] = h]
      BY <1>6, <2>1 DEF release_collateral
    <3>2. h \in Nat
      BY <1>0, <2>1 DEF RequestsTyped
    <3> HIDE DEF u, n, h
    <3> QED BY <1>0, <1>3, <2>1, <3>1, <3>2
  <2>2. CASE u \notin DOMAIN balances
    BY <1>2, <1>6, <2>2 DEF release_collateral, Untouched, history, RowsTyped
  <2> QED BY <2>1, <2>2
<1>7. CASE storeOrder(o)
  BY <1>2, <1>7 DEF storeOrder, insert_order, history, RowsTyped
<1>8. CASE reserve_refused(o) \/ orderRefused(o)
  BY <1>2, <1>8 DEF reserve_refused, orderRefused, vars, database, rows, history, RowsTyped
<1> QED
  BY <1>4, <1>5, <1>6, <1>7, <1>8 DEF AcceptOrder

SharedTypes == IndexerInv /\ Typed /\ RowsTyped /\ RequestsTyped

\* Nothing is held at first.
LEMMA SharedInitTypes == SharedInit => SharedTypes
<1> SUFFICES ASSUME SharedInit PROVE SharedTypes
  OBVIOUS
<1>1. Init /\ hold = << >> /\ balances = << >> /\ at = [o \in Orders |-> "idle"]
  BY DEF SharedInit, Init
<1>2. RequestsTyped
  BY <1>1 DEF RequestsTyped, Stages
<1> QED
  BY <1>1, <1>2, InitInv, InitTyped DEF SharedTypes

\* No step of the two processes disturbs the types.
LEMMA SharedTypesStep == SharedTypes /\ [SharedNext]_sharedVars => SharedTypes'
<1> SUFFICES ASSUME SharedTypes, [SharedNext]_sharedVars PROVE SharedTypes'
  OBVIOUS
<1>1. IndexerInv' /\ Typed'
  BY StepsOfIndexer, IndexerStep, TypedStep DEF SharedTypes
<1>2. RowsTyped' /\ RequestsTyped'
  <2>1. CASE Aside
    <3>1. RowsTyped'
      BY <2>1, RowsStep DEF Aside, SharedTypes
    <3>2. RequestsTyped'
      BY <2>1, HoldsKept DEF Aside, SharedTypes, RequestsTyped
    <3> QED BY <3>1, <3>2
  <2>2. CASE \E o \in Orders : AcceptOrder(o)
    BY <2>2, RequestsStep DEF SharedTypes
  <2>3. CASE UNCHANGED sharedVars
    BY <2>3 DEF sharedVars, vars, database, rows, history, requests, SharedTypes, RowsTyped, RequestsTyped
  <2> QED BY <2>1, <2>2, <2>3, SharedSteps
<1> QED
  BY <1>1, <1>2 DEF SharedTypes

\* The types of both processes' variables, and a hold for every row.
THEOREM SharedTypeCorrect == SharedSpec => []SharedTypeOK
<1>1. SharedTypes => SharedTypeOK
  BY TypesTogether DEF SharedTypes, SharedTypeOK, RequestsTyped, Stages
<1> QED
  BY SharedInitTypes, SharedTypesStep, <1>1, PTL DEF SharedSpec

-----------------------------------------------------------------------------
\* What each order holds of a user's collateral.
Holding == {"reserved", "stored", "releasing"}
Reserves(u) == [o \in Orders |-> IF o.user = u /\ at[o] \in Holding THEN o.collateral ELSE 0]

\* Reserved counts the units of that table.
LEMMA ReservedIsTotal ==
  at \in [Orders -> Stages] =>
      \A u : /\ Reserves(u) \in [Orders -> Nat]
             /\ Reserved(u) = Units(Reserves(u))
<1> SUFFICES ASSUME NEW u
             PROVE  Reserves(u) \in [Orders -> Nat] /\ Reserved(u) = Units(Reserves(u))
  OBVIOUS
<1>1. Reserves(u) \in [Orders -> Nat]
  BY OrdersCollateralized DEF Reserves
<1>2. \A c : c \in Reserved(u) <=>
         \E o \in Orders : o.user = u /\ at[o] \in Holding /\ \E k \in 1..o.collateral : c = <<o, k>>
  BY DEF Reserved, Holding
<1>3. \A c : c \in Units(Reserves(u)) <=> \E o \in Orders : \E k \in 1..Reserves(u)[o] : c = <<o, k>>
  BY <1>1, UnitsMember
<1>4. \A o \in Orders : \A k : k \in 1..Reserves(u)[o] <=> o.user = u /\ at[o] \in Holding /\ k \in 1..o.collateral
  BY OrdersCollateralized DEF Reserves
<1>5. \A c : c \in Reserved(u) <=> c \in Units(Reserves(u))
  BY <1>2, <1>3, <1>4
<1> QED
  BY <1>1, <1>5

\* The same after a step.
LEMMA ReservedIsTotalPrimed ==
  (at \in [Orders -> Stages] =>
      \A u : /\ Reserves(u) \in [Orders -> Nat]
             /\ Reserved(u) = Units(Reserves(u)))'
BY ReservedIsTotal, PTL

\* An order that gets further takes its collateral into what is reserved, leaves it there or takes it out.
Share(o, u, s) == IF o.user = u /\ s \in Holding THEN o.collateral ELSE 0

\* What is reserved of a user changes by the share of the order that gets further.
LEMMA ReservedUpdate ==
  ASSUME RequestsTyped, NEW o \in Orders, NEW s \in Stages, at' = [at EXCEPT ![o] = s], NEW u
  PROVE  /\ Cardinality(Reserved(u)) \in Nat
         /\ Share(o, u, at[o]) <= Cardinality(Reserved(u))
         /\ Cardinality(Reserved(u)') = Cardinality(Reserved(u)) - Share(o, u, at[o]) + Share(o, u, s)
<1> DEFINE f == Reserves(u)
           n == Share(o, u, s)
<1>1. at \in [Orders -> Stages] /\ at' \in [Orders -> Stages]
  BY DEF RequestsTyped
<1>2. /\ Reserves(u) \in [Orders -> Nat] /\ Reserved(u) = Units(Reserves(u))
      /\ Reserved(u)' = Units(Reserves(u)')
  BY <1>1, ReservedIsTotal, ReservedIsTotalPrimed
<1>3. Reserves(u)' = [f EXCEPT ![o] = n]
  <2>1. Reserves(u)' = [x \in Orders |-> IF x.user = u /\ at'[x] \in Holding THEN x.collateral ELSE 0]
    BY DEF Reserves
  <2>2. \A x \in Orders : at'[x] = IF x = o THEN s ELSE at[x]
    BY <1>1
  <2> QED BY <2>1, <2>2 DEF Reserves, Share
<1>4. f[o] = Share(o, u, at[o]) /\ n \in Nat
  BY OrdersCollateralized DEF Reserves, Share
<1> HIDE DEF f, n
<1>5. f \in [Orders -> Nat]
  BY <1>2 DEF f
<1>6. Total([f EXCEPT ![o] = n]) = Total(f) - f[o] + n
  BY <1>4, <1>5, OrdersFinite, TotalUpdate
<1>7. Total(f) \in Nat /\ f[o] <= Total(f)
  BY <1>5, OrdersFinite, UnitsFinite, AmountWithinTotal
<1> QED
  BY <1>2, <1>3, <1>4, <1>6, <1>7 DEF Total, f, n

\* Balance rows go only in a rollback.
LEMMA RowsStay ==
  ASSUME ChainMoves \/ Work \/ Failure
  PROVE  /\ "rolled_back" \in past => "rolled_back" \in past'
         /\ "rolled_back" \notin past' => DOMAIN balances \subseteq DOMAIN balances'
<1>1. CASE UNCHANGED balances /\ past \subseteq past'
  BY <1>1
<1>2. CASE index_log
  BY <1>2 DEF index_log, handle, handle_deposited, handle_withdrawn, handle_nonce_invalidated,
              handle_market_created, handle_outcome, handle_notice, rows, Upsert, Put
<1>3. CASE check_block
  BY <1>3 DEF check_block, rollback_unfinalized, rollback_refused, finalize_block, database, rows, history
<1>4. CASE ChainMoves
  BY <1>1, <1>4 DEF ChainMoves, Mine, Reorg, database, rows, history
<1>5. CASE poll \/ skip_log \/ log_refused \/ \E c \in todo : get_logs(c)
  BY <1>1, <1>5 DEF poll, skip_log, log_refused, get_logs, database, rows, history
<1>6. CASE Failure
  BY <1>1, <1>6 DEF Failure, get_logs_fails, log_fails, check_fails, crash, Fails, database, rows
<1> QED
  BY <1>2, <1>3, <1>4, <1>5, <1>6 DEF Work

\* A row the indexer writes keeps what is held in it.
LEMMA AsideReservations ==
  ASSUME RequestsTyped, ReservationsHeld, Aside
  PROVE  ReservationsHeld'
<1>1. UNCHANGED at
  BY DEF Aside
<1>2. \A u : Reserved(u)' = Reserved(u)
  BY <1>1 DEF Reserved
<1>3. /\ DOMAIN hold' = DOMAIN balances'
      /\ \A u \in DOMAIN hold' : hold'[u] = IF u \in DOMAIN balances THEN hold[u] ELSE 0
  BY HoldsKept DEF Aside
<1>4. "rolled_back" \notin past' => "rolled_back" \notin past /\ DOMAIN balances \subseteq DOMAIN balances'
  BY RowsStay DEF Aside
<1> SUFFICES ASSUME "rolled_back" \notin past', NEW u \in Users
             PROVE  Cardinality(Reserved(u)) = IF u \in DOMAIN hold' THEN hold'[u] ELSE 0
  BY <1>2 DEF ReservationsHeld
<1>5. Cardinality(Reserved(u)) = IF u \in DOMAIN hold THEN hold[u] ELSE 0
  BY <1>4 DEF ReservationsHeld
<1>6. DOMAIN hold = DOMAIN balances
  BY DEF RequestsTyped
<1> QED
  BY <1>3, <1>4, <1>5, <1>6

\* A request reserves what it moves to the hold, and gives back no more than it reserved.
LEMMA RequestReservations ==
  ASSUME RowsTyped, RequestsTyped, ReservationsHeld, NEW o \in Orders, AcceptOrder(o)
  PROVE  /\ ReservationsHeld'
         /\ release_collateral(o) /\ "rolled_back" \notin past =>
              /\ o.user \in DOMAIN hold /\ hold[o.user] >= o.collateral
<1> DEFINE u == o.user
           n == o.collateral
<1>0. /\ u \in Users /\ n \in Nat \ {0} /\ at \in [Orders -> Stages]
      /\ \A x \in DOMAIN hold : hold[x] \in Nat
  BY OrdersCollateralized DEF RequestsTyped
<1>1. "rolled_back" \notin past =>
         \A x \in Users : Cardinality(Reserved(x)) = IF x \in DOMAIN hold THEN hold[x] ELSE 0
  BY DEF ReservationsHeld
<1>2. past' = past
  BY RequestsAreQuiet DEF Quiet, history
<1>3. ASSUME NEW s \in Stages, at' = [at EXCEPT ![o] = s], s \in Holding <=> at[o] \in Holding, UNCHANGED hold
      PROVE  ReservationsHeld'
  <2> SUFFICES ASSUME "rolled_back" \notin past, NEW x \in Users
               PROVE  Cardinality(Reserved(x)') = IF x \in DOMAIN hold THEN hold[x] ELSE 0
    BY <1>2, <1>3 DEF ReservationsHeld
  <2>1. Share(o, x, at[o]) = Share(o, x, s) /\ Share(o, x, s) \in Nat
    BY <1>0, <1>3 DEF Share
  <2>2. Cardinality(Reserved(x)') = Cardinality(Reserved(x))
    <3>1. /\ Cardinality(Reserved(x)) \in Nat
          /\ Cardinality(Reserved(x)') = Cardinality(Reserved(x)) - Share(o, x, s) + Share(o, x, s)
      BY <1>3, <2>1, ReservedUpdate
    <3> QED BY <2>1, <3>1
  <2> QED BY <1>1, <2>2
<1>4. CASE makeKnown(o) \/ reserve_refused(o) \/ storeOrder(o) \/ orderRefused(o)
  <2>1. PICK s \in Stages : at' = [at EXCEPT ![o] = s] /\ (s \in Holding <=> at[o] \in Holding)
    BY <1>4 DEF makeKnown, reserve_refused, storeOrder, orderRefused, step, Stages, Holding
  <2>2. UNCHANGED hold
    BY <1>4 DEF makeKnown, reserve_refused, storeOrder, orderRefused
  <2>3. ~ release_collateral(o)
    BY <1>4 DEF makeKnown, reserve_refused, storeOrder, orderRefused, release_collateral, step
  <2> QED BY <1>3, <2>1, <2>2, <2>3
<1>5. CASE reserve_collateral(o)
  <2>1. /\ at[o] = "known" /\ at' = [at EXCEPT ![o] = "reserved"] /\ u \in DOMAIN hold
        /\ hold' = [hold EXCEPT ![u] = hold[u] + n]
    BY <1>5 DEF reserve_collateral, step, RequestsTyped
  <2>2. "reserved" \in Stages /\ "reserved" \in Holding /\ "known" \notin Holding
    BY DEF Stages, Holding
  <2>3. ASSUME "rolled_back" \notin past, NEW x \in Users
        PROVE  Cardinality(Reserved(x)') = IF x \in DOMAIN hold' THEN hold'[x] ELSE 0
    <3>1. /\ Cardinality(Reserved(x)) \in Nat
          /\ Cardinality(Reserved(x)') = Cardinality(Reserved(x)) - 0 + (IF x = u THEN n ELSE 0)
      BY <2>1, <2>2, ReservedUpdate DEF Share
    <3>2. Cardinality(Reserved(x)) = IF x \in DOMAIN hold THEN hold[x] ELSE 0
      BY <1>1, <2>3
    <3>3. /\ DOMAIN hold' = DOMAIN hold
          /\ x \in DOMAIN hold => hold'[x] = hold[x] + IF x = u THEN n ELSE 0
      BY <1>0, <2>1
    <3> QED BY <1>0, <2>1, <3>1, <3>2, <3>3
  <2>4. ~ release_collateral(o)
    BY <2>1 DEF release_collateral, step
  <2> QED BY <1>2, <2>3, <2>4 DEF ReservationsHeld
<1>6. CASE release_collateral(o)
  <2>1. at[o] = "releasing" /\ at' = [at EXCEPT ![o] = "rejected"]
    BY <1>6 DEF release_collateral, step
  <2>2. "rejected" \in Stages /\ "rejected" \notin Holding /\ "releasing" \in Holding
    BY DEF Stages, Holding
  <2>3. ASSUME NEW x
        PROVE  /\ Cardinality(Reserved(x)) \in Nat
               /\ x = u => n <= Cardinality(Reserved(x))
               /\ Cardinality(Reserved(x)') = Cardinality(Reserved(x)) - (IF x = u THEN n ELSE 0)
    <3>1. /\ Cardinality(Reserved(x)) \in Nat
          /\ Share(o, x, "releasing") <= Cardinality(Reserved(x))
          /\ Cardinality(Reserved(x)') = Cardinality(Reserved(x)) - Share(o, x, "releasing") + Share(o, x, "rejected")
      BY <2>1, <2>2, ReservedUpdate
    <3>2. Share(o, x, "releasing") = (IF x = u THEN n ELSE 0) /\ Share(o, x, "rejected") = 0
      BY <2>2 DEF Share
    <3> QED BY <1>0, <3>1, <3>2
  <2>4. ASSUME "rolled_back" \notin past
        PROVE  u \in DOMAIN hold /\ hold[u] >= n
    <3>1. Cardinality(Reserved(u)) = IF u \in DOMAIN hold THEN hold[u] ELSE 0
      BY <1>0, <1>1, <2>4
    <3>2. Cardinality(Reserved(u)) \in Nat /\ n <= Cardinality(Reserved(u))
      BY <2>3
    <3> QED BY <1>0, <3>1, <3>2
  <2>5. ASSUME "rolled_back" \notin past
        PROVE  hold' = [hold EXCEPT ![u] = hold[u] - n]
    BY <1>6, <2>4, <2>5 DEF release_collateral, RequestsTyped
  <2>6. ASSUME "rolled_back" \notin past, NEW x \in Users
        PROVE  Cardinality(Reserved(x)') = IF x \in DOMAIN hold' THEN hold'[x] ELSE 0
    <3>1. Cardinality(Reserved(x)) = IF x \in DOMAIN hold THEN hold[x] ELSE 0
      BY <1>1, <2>6
    <3>2. /\ DOMAIN hold' = DOMAIN hold /\ u \in DOMAIN hold
          /\ x \in DOMAIN hold => hold'[x] = hold[x] - IF x = u THEN n ELSE 0
      <4>1. hold' = [hold EXCEPT ![u] = hold[u] - n] /\ u \in DOMAIN hold
        BY <2>4, <2>5, <2>6
      <4> HIDE DEF u, n
      <4> QED BY <1>0, <4>1
    <3>3. Cardinality(Reserved(x)') = Cardinality(Reserved(x)) - (IF x = u THEN n ELSE 0)
      BY <2>3
    <3> QED BY <1>0, <3>1, <3>2, <3>3
  <2> QED BY <1>2, <2>4, <2>6 DEF ReservationsHeld
<1> QED
  BY <1>4, <1>5, <1>6 DEF AcceptOrder

\* No step of the two processes parts the reservations from the holds.
LEMMA ReservationsStep == SharedTypes /\ ReservationsHeld /\ [SharedNext]_sharedVars => ReservationsHeld'
<1> SUFFICES ASSUME SharedTypes, ReservationsHeld, [SharedNext]_sharedVars PROVE ReservationsHeld'
  OBVIOUS
<1>1. CASE Aside
  BY <1>1, AsideReservations DEF SharedTypes
<1>2. CASE \E o \in Orders : AcceptOrder(o)
  BY <1>2, RequestReservations DEF SharedTypes
<1>3. CASE UNCHANGED sharedVars
  BY <1>3 DEF sharedVars, vars, history, requests, ReservationsHeld, Reserved
<1> QED
  BY <1>1, <1>2, <1>3, SharedSteps

\* Nothing is reserved at first.
LEMMA InitReservations == SharedInit => ReservationsHeld
<1> SUFFICES ASSUME SharedInit, NEW u \in Users
             PROVE  Cardinality(Reserved(u)) = IF u \in DOMAIN hold THEN hold[u] ELSE 0
  BY DEF ReservationsHeld
<1>1. DOMAIN hold = {}
  BY DEF SharedInit
<1>2. Reserved(u) = {}
  BY DEF SharedInit, Reserved
<1> QED
  BY <1>1, <1>2, FS_EmptySet

\* Until a rollback every reservation is in the hold of its user's row, whichever process wrote that row
\* last.
THEOREM ReservationsAreHeld == SharedSpec => []ReservationsHeld
<1> DEFINE I == SharedTypes /\ ReservationsHeld
<1>1. SharedInit => I
  BY SharedInitTypes, InitReservations
<1>2. I /\ [SharedNext]_sharedVars => I'
  BY SharedTypesStep, ReservationsStep
<1>3. I => ReservationsHeld
  OBVIOUS
<1> HIDE DEF I
<1> QED
  BY <1>1, <1>2, <1>3, PTL DEF SharedSpec

-----------------------------------------------------------------------------
\* The indexed events.  There are finitely many, and one more with the amount n adds n units.
Counted == {"Deposited"} \cup Withdrawals
About(u, kinds) == {x \in indexed_logs : x.tx.kind \in kinds /\ x.tx.key = u}

\* Finitely many events have a finite sum.
LEMMA AmountsFinite ==
  ASSUME IsFiniteSet(indexed_logs), indexed_logs \subseteq RowRecord, NEW kinds \in SUBSET Counted, NEW u
  PROVE  IsFiniteSet(Amounts(u, kinds)) /\ Cardinality(Amounts(u, kinds)) \in Nat
<1> DEFINE S == About(u, kinds)
           f == [x \in S |-> x.tx.n]
<1>1. IsFiniteSet(S)
  BY FS_Subset DEF About
<1>2. \A x \in S : x.tx.n \in Nat
  BY EventsTyped DEF About, RowRecord, Counted
<1>3. f \in [S -> Nat]
  BY <1>2
<1>4. Amounts(u, kinds) = Units(f)
  BY DEF Amounts, Units, About
<1> HIDE DEF f, S
<1>5. IsFiniteSet(Units(f))
  BY <1>1, <1>3, UnitsFinite
<1> QED
  BY <1>4, <1>5, FS_CardinalityType

\* The amount of one row, if it counts.
Worth(r, u, kinds) == IF r.tx.kind \in kinds /\ r.tx.key = u THEN r.tx.n ELSE 0

\* A new row of indexed_logs adds its amount to the sum of its kind, for its user.
LEMMA AmountsGrow ==
  ASSUME IsFiniteSet(indexed_logs), indexed_logs \subseteq RowRecord, NEW kinds \in SUBSET Counted, NEW u,
         NEW r \in RowRecord, r \notin indexed_logs, indexed_logs' = indexed_logs \cup {r}
  PROVE  /\ Worth(r, u, kinds) \in Nat /\ Cardinality(Amounts(u, kinds)) \in Nat
         /\ Cardinality(Amounts(u, kinds)') = Cardinality(Amounts(u, kinds)) + Worth(r, u, kinds)
<1> DEFINE A == Amounts(u, kinds)
           n == r.tx.n
           C == {r} \X (1..n)
<1>1. IsFiniteSet(A) /\ Cardinality(A) \in Nat
  BY AmountsFinite
<1>2. CASE r.tx.kind \in kinds /\ r.tx.key = u
  <2>1. n \in Nat
    BY <1>2, EventsTyped DEF RowRecord, Counted
  <2>2. Amounts(u, kinds)' = A \cup C
    BY <1>2 DEF Amounts
  <2>3. IsFiniteSet(C) /\ Cardinality(C) = n
    <3> HIDE DEF n
    <3> QED BY <2>1, Column
  <2>4. A \cap C = {}
    BY DEF Amounts
  <2> HIDE DEF A, C
  <2>5. Cardinality(A \cup C) = Cardinality(A) + Cardinality(C) - Cardinality(A \cap C)
    BY <1>1, <2>3, FS_Union
  <2>6. Cardinality(A \cap C) = 0
    BY <2>4, FS_EmptySet
  <2>7. Worth(r, u, kinds) = n
    BY <1>2 DEF Worth
  <2>8. Cardinality(A \cup C) = Cardinality(A) + n
    BY <1>1, <2>1, <2>3, <2>5, <2>6
  <2> QED BY <1>1, <2>1, <2>2, <2>7, <2>8 DEF A
<1>3. CASE ~(r.tx.kind \in kinds /\ r.tx.key = u)
  <2>1. Amounts(u, kinds)' = A
    BY <1>3 DEF Amounts
  <2>2. Worth(r, u, kinds) = 0
    BY <1>3 DEF Worth
  <2> QED BY <1>1, <2>1, <2>2
<1> QED
  BY <1>2, <1>3

\* What one more row does to a user's count.
Signed(r, u) == Worth(r, u, {"Deposited"}) - Worth(r, u, Withdrawals)

\* A new row of indexed_logs changes what is indexed of its user, and of no other.
LEMMA IndexedGrows ==
  ASSUME IsFiniteSet(indexed_logs), indexed_logs \subseteq RowRecord, NEW u,
         NEW r \in RowRecord, r \notin indexed_logs, indexed_logs' = indexed_logs \cup {r}
  PROVE  /\ Indexed(u) \in Int /\ Signed(r, u) \in Int
         /\ Indexed(u)' = Indexed(u) + Signed(r, u)
<1> DEFINE D == {"Deposited"}
<1>1. D \in SUBSET Counted /\ Withdrawals \in SUBSET Counted
  BY DEF Counted
<1> HIDE DEF D
<1>2. /\ Worth(r, u, D) \in Nat /\ Cardinality(Amounts(u, D)) \in Nat
      /\ Cardinality(Amounts(u, D)') = Cardinality(Amounts(u, D)) + Worth(r, u, D)
  BY <1>1, AmountsGrow
<1>3. /\ Worth(r, u, Withdrawals) \in Nat /\ Cardinality(Amounts(u, Withdrawals)) \in Nat
      /\ Cardinality(Amounts(u, Withdrawals)') = Cardinality(Amounts(u, Withdrawals)) + Worth(r, u, Withdrawals)
  BY <1>1, AmountsGrow
<1>4. /\ Indexed(u) = Cardinality(Amounts(u, D)) - Cardinality(Amounts(u, Withdrawals))
      /\ Indexed(u)' = Cardinality(Amounts(u, D)') - Cardinality(Amounts(u, Withdrawals)')
      /\ Signed(r, u) = Worth(r, u, D) - Worth(r, u, Withdrawals)
  BY DEF Indexed, Signed, D
<1> QED
  BY <1>2, <1>3, <1>4

\* Free and held together, and what they are to be until a rollback.
Value(u) == IF u \in DOMAIN balances THEN balances[u].amount + hold[u] ELSE 0
Sums == "rolled_back" \notin past => \A u \in Users \ inverted : Indexed(u) = Value(u)

\* A value is a number.
LEMMA ValueType ==
  ASSUME SharedTypes, NEW u
  PROVE  Value(u) \in Int
BY DEF SharedTypes, RowsTyped, RequestsTyped, BalanceRow, Value

\* Holds that are kept change no value where the rows stay.
LEMMA ValueKept ==
  ASSUME SharedTypes, KeepHolds, UNCHANGED balances, NEW u
  PROVE  Value(u)' = Value(u)
BY HoldsKept DEF SharedTypes, RequestsTyped, Value

\* A deposit or a withdrawal changes the value of its user by the amount, and no other.
LEMMA UpsertValue ==
  ASSUME SharedTypes, KeepHolds, NEW k, NEW n \in Nat, NEW d \in Int, NEW b, Upsert(k, n, d, b), NEW u
  PROVE  /\ u # k => Value(u)' = Value(u)
         /\ k \in DOMAIN balances => Value(k)' = Value(k) + d
         /\ k \notin DOMAIN balances => Value(k)' = n /\ Value(k) = 0
<1> DEFINE row == [amount |-> IF k \in DOMAIN balances THEN balances[k].amount + d ELSE n, block |-> b]
<1>1. balances' = [x \in DOMAIN balances \cup {k} |-> IF x = k THEN row ELSE balances[x]]
  BY DEF Upsert, Put
<1>2. row.amount = IF k \in DOMAIN balances THEN balances[k].amount + d ELSE n
  OBVIOUS
<1> HIDE DEF row
<1>3. /\ DOMAIN hold' = DOMAIN balances'
      /\ \A x \in DOMAIN hold' : hold'[x] = IF x \in DOMAIN balances THEN hold[x] ELSE 0
  BY HoldsKept DEF SharedTypes
<1>4. \A x \in DOMAIN balances : balances[x].amount \in Int /\ hold[x] \in Nat
  BY DEF SharedTypes, RowsTyped, RequestsTyped, BalanceRow
<1>5. /\ k \in DOMAIN balances' /\ k \in DOMAIN hold' /\ balances'[k] = row
      /\ u # k => (u \in DOMAIN balances' <=> u \in DOMAIN balances)
      /\ u # k /\ u \in DOMAIN balances => balances'[u] = balances[u] /\ hold'[u] = hold[u]
  BY <1>1, <1>3
<1>6. u # k => Value(u)' = Value(u)
  BY <1>5 DEF Value
<1>7. Value(k)' = row.amount + hold'[k]
  BY <1>5 DEF Value
<1>8. ASSUME k \in DOMAIN balances PROVE Value(k)' = Value(k) + d
  <2>1. hold'[k] = hold[k] /\ row.amount = balances[k].amount + d /\ Value(k) = balances[k].amount + hold[k]
    BY <1>2, <1>3, <1>5, <1>8 DEF Value
  <2>2. balances[k].amount \in Int /\ hold[k] \in Nat
    BY <1>4, <1>8
  <2> QED BY <1>7, <2>1, <2>2
<1>9. ASSUME k \notin DOMAIN balances PROVE Value(k)' = n /\ Value(k) = 0
  <2>1. hold'[k] = 0 /\ row.amount = n /\ Value(k) = 0
    BY <1>2, <1>3, <1>5, <1>9 DEF Value
  <2> QED BY <1>7, <2>1
<1> QED
  BY <1>6, <1>8, <1>9

\* An event changes the value of each user by what its row counts, but for a user whose row a
\* withdrawal creates.
LEMMA HandleValue ==
  ASSUME SharedTypes, KeepHolds, NEW l \in LogRecord, handle(l), NEW u \in Users
  PROVE  /\ inverted \subseteq inverted'
         /\ u \notin inverted' => Value(u)' = Value(u) + Signed(Row(l), u)
<1> DEFINE k == l.tx.key
           n == l.tx.n
<1>1. l.tx.kind \in {"Deposited"} \cup Withdrawals => n \in Nat
  BY EventsTyped DEF LogRecord
<1>2. Row(l).tx = l.tx /\ Value(u) \in Int
  BY ValueType DEF Row
<1>3. CASE handle_deposited(l)
  <2>1. Upsert(k, n, n, l.block) /\ UNCHANGED inverted /\ l.tx.kind = "Deposited" /\ n \in Nat
    BY <1>1, <1>3 DEF handle_deposited
  <2>2. Signed(Row(l), u) = IF u = k THEN n ELSE 0
    BY <1>2, <2>1 DEF Signed, Worth, Withdrawals
  <2>3. Value(u)' = Value(u) + IF u = k THEN n ELSE 0
    <3> HIDE DEF k, n
    <3>1. /\ u # k => Value(u)' = Value(u)
          /\ k \in DOMAIN balances => Value(k)' = Value(k) + n
          /\ k \notin DOMAIN balances => Value(k)' = n /\ Value(k) = 0
      BY <2>1, UpsertValue
    <3> QED BY <1>2, <2>1, <3>1
  <2> QED BY <2>1, <2>2, <2>3
<1>4. CASE handle_withdrawn(l)
  <2>1. /\ Upsert(k, n, -n, l.block) /\ l.tx.kind \in Withdrawals /\ n \in Nat
        /\ inverted' = IF k \in DOMAIN balances THEN inverted ELSE inverted \cup {k}
    BY <1>1, <1>4 DEF handle_withdrawn
  <2>2. Signed(Row(l), u) = IF u = k THEN -n ELSE 0
    BY <1>2, <2>1 DEF Signed, Worth, Withdrawals
  <2>3. u \notin inverted' => Value(u)' = Value(u) + IF u = k THEN -n ELSE 0
    <3> HIDE DEF k, n
    <3>1. /\ u # k => Value(u)' = Value(u)
          /\ k \in DOMAIN balances => Value(k)' = Value(k) + (-n)
      <4>1. -n \in Int
        BY <2>1
      <4> QED BY <2>1, <4>1, UpsertValue
    <3> QED BY <1>2, <2>1, <3>1
  <2> QED BY <2>1, <2>2, <2>3
<1>5. CASE \/ handle_nonce_invalidated(l) \/ handle_market_created(l)
           \/ handle_outcome(l) \/ handle_notice(l)
  <2>1. UNCHANGED <<balances, inverted>>
    BY <1>5 DEF handle_nonce_invalidated, handle_market_created, handle_outcome, handle_notice, rows
  <2>2. l.tx.kind # "Deposited" /\ l.tx.kind \notin Withdrawals
    BY <1>5 DEF handle_nonce_invalidated, handle_market_created, handle_outcome, handle_notice,
                StateAfter, Notices, Withdrawals
  <2>3. Signed(Row(l), u) = 0
    BY <1>2, <2>2 DEF Signed, Worth
  <2>4. Value(u)' = Value(u)
    BY <2>1, ValueKept
  <2> QED BY <1>2, <2>1, <2>3, <2>4
<1> QED
  BY <1>3, <1>4, <1>5 DEF handle

\* How indexed_logs, balances and the list of inverted rows may change.
LEMMA IndexerMoves ==
  ASSUME SharedTypes, ChainMoves \/ Work \/ Failure
  PROVE  \/ UNCHANGED <<indexed_logs, balances, inverted>>
         \/ \E l \in logs : /\ handle(l) /\ ~already_processed(l)
                            /\ indexed_logs' = indexed_logs \cup {Row(l)}
         \/ indexed_logs' \subseteq indexed_logs /\ "rolled_back" \in past'
<1>1. CASE index_log
  <2>1. PICK l \in logs : l = Next_log
    BY <1>1, NextLogIsFirst DEF index_log, SharedTypes, IndexerInv
  <2> QED BY <1>1, <2>1 DEF index_log, rows
<1>2. CASE check_block
  BY <1>2 DEF check_block, rollback_unfinalized, forget_logs, rollback_refused, finalize_block, database, rows,
              history
<1>3. CASE ChainMoves
  BY <1>3 DEF ChainMoves, Mine, Reorg, database, rows, history
<1>4. CASE poll \/ skip_log \/ log_refused \/ \E c \in todo : get_logs(c)
  BY <1>4 DEF poll, skip_log, log_refused, get_logs, database, rows, history
<1>5. CASE Failure
  BY <1>5 DEF Failure, get_logs_fails, log_fails, check_fails, crash, Fails, database, rows
<1> QED
  BY <1>1, <1>2, <1>3, <1>4, <1>5 DEF Work

\* A request moves an amount within its user's row: until a rollback, free and held together stay.
LEMMA RequestRows ==
  ASSUME SharedTypes, ReservationsHeld, NEW o \in Orders, AcceptOrder(o),
         ~ (release_collateral(o) /\ "rolled_back" \in past)
  PROVE  /\ DOMAIN balances' = DOMAIN balances
         /\ \A x \in DOMAIN balances :
              /\ balances'[x].block = balances[x].block
              /\ balances'[x].amount + hold'[x] = balances[x].amount + hold[x]
<1> DEFINE u == o.user
           n == o.collateral
<1>1. /\ n \in Nat /\ n \in Int /\ -n \in Int /\ DOMAIN hold = DOMAIN balances
      /\ \A x \in DOMAIN balances : balances[x].amount \in Int /\ hold[x] \in Nat
  BY OrdersCollateralized DEF SharedTypes, RowsTyped, RequestsTyped, BalanceRow
<1>2. ASSUME NEW d \in Int, u \in DOMAIN balances, Shift(u, d), hold' = [hold EXCEPT ![u] = hold[u] + d]
      PROVE  /\ DOMAIN balances' = DOMAIN balances
             /\ \A x \in DOMAIN balances :
                  /\ balances'[x].block = balances[x].block
                  /\ balances'[x].amount + hold'[x] = balances[x].amount + hold[x]
  <2> HIDE DEF u, n
  <2>1. /\ DOMAIN balances' = DOMAIN balances
        /\ \A x \in DOMAIN balances : /\ balances'[x].block = balances[x].block
                                      /\ x # u => balances'[x] = balances[x]
        /\ balances'[u].amount = balances[u].amount - d
    BY <1>2, ShiftedRows DEF SharedTypes
  <2>2. hold'[u] = hold[u] + d /\ \A x \in DOMAIN balances : x # u => hold'[x] = hold[x]
    BY <1>1, <1>2
  <2>3. balances'[u].amount + hold'[u] = balances[u].amount + hold[u]
    <3>1. balances[u].amount \in Int /\ hold[u] \in Nat
      BY <1>1, <1>2
    <3> QED BY <1>2, <2>1, <2>2, <3>1
  <2>4. ASSUME NEW x \in DOMAIN balances, x # u
        PROVE  balances'[x].amount + hold'[x] = balances[x].amount + hold[x]
    BY <2>1, <2>2, <2>4
  <2> QED BY <2>1, <2>3, <2>4
<1>3. CASE reserve_collateral(o)
  <2>1. u \in DOMAIN balances /\ Shift(u, n) /\ hold' = [hold EXCEPT ![u] = hold[u] + n]
    BY <1>3 DEF reserve_collateral
  <2> HIDE DEF u, n
  <2> QED BY <1>1, <1>2, <2>1
<1>4. CASE release_collateral(o)
  <2>1. u \in DOMAIN hold /\ hold[u] >= n
    BY <1>4, RequestReservations DEF SharedTypes
  <2>2. u \in DOMAIN balances /\ Shift(u, -n) /\ hold' = [hold EXCEPT ![u] = hold[u] - n]
    BY <1>1, <1>4, <2>1 DEF release_collateral
  <2>3. hold[u] - n = hold[u] + (-n)
    BY <1>1, <2>1
  <2> HIDE DEF u, n
  <2> QED BY <1>1, <1>2, <2>2, <2>3
<1>5. CASE makeKnown(o) \/ reserve_refused(o) \/ storeOrder(o) \/ orderRefused(o)
  BY <1>5 DEF makeKnown, ensure_user, reserve_refused, storeOrder, insert_order, orderRefused, vars, database, rows
<1> QED
  BY <1>3, <1>4, <1>5 DEF AcceptOrder

\* A step adds one row to indexed_logs at most.
LEMMA FiniteStep ==
  SharedTypes /\ IsFiniteSet(indexed_logs) /\ [SharedNext]_sharedVars => IsFiniteSet(indexed_logs)'
<1> SUFFICES ASSUME SharedTypes, IsFiniteSet(indexed_logs), [SharedNext]_sharedVars
             PROVE  IsFiniteSet(indexed_logs')
  OBVIOUS
<1>1. CASE ChainMoves \/ Work \/ Failure
  <2>1. CASE indexed_logs' \subseteq indexed_logs
    BY <2>1, FS_Subset
  <2>2. CASE \E l : indexed_logs' = indexed_logs \cup {Row(l)}
    BY <2>2, FS_AddElement
  <2> QED BY <1>1, <2>1, <2>2, IndexerMoves
<1>2. CASE Quiet
  BY <1>2 DEF Quiet
<1> QED
  BY <1>1, <1>2, StepsOfIndexer

\* Every step changes what is indexed and the value of a user alike, until a rollback.
LEMMA SumsStep ==
  SharedTypes /\ ReservationsHeld /\ IsFiniteSet(indexed_logs) /\ Sums /\ [SharedNext]_sharedVars => Sums'
<1> SUFFICES ASSUME SharedTypes, ReservationsHeld, IsFiniteSet(indexed_logs), Sums, [SharedNext]_sharedVars,
                    "rolled_back" \notin past', NEW u \in Users \ inverted'
             PROVE  Indexed(u)' = Value(u)'
  BY DEF Sums
<1>1. ASSUME "rolled_back" \notin past, u \notin inverted
      PROVE  Indexed(u) = Value(u)
  BY <1>1 DEF Sums
<1>2. ASSUME UNCHANGED indexed_logs PROVE Indexed(u)' = Indexed(u)
  BY <1>2 DEF Indexed, Amounts
<1>3. CASE Aside
  <2>1. "rolled_back" \notin past
    BY <1>3, RowsStay DEF Aside
  <2>2. CASE UNCHANGED <<indexed_logs, balances, inverted>>
    BY <1>1, <1>2, <1>3, <2>1, <2>2, ValueKept DEF Aside
  <2>3. CASE \E l \in logs : /\ handle(l) /\ ~already_processed(l)
                             /\ indexed_logs' = indexed_logs \cup {Row(l)}
    <3>1. PICK l \in logs : handle(l) /\ ~already_processed(l) /\ indexed_logs' = indexed_logs \cup {Row(l)}
      BY <2>3
    <3>2. l \in LogRecord /\ indexed_logs \subseteq RowRecord
      BY DEF SharedTypes, Typed
    <3>3. Row(l) \in RowRecord /\ Row(l) \notin indexed_logs
      BY <3>1, <3>2 DEF Row, RowRecord, LogRecord, already_processed
    <3>4. Indexed(u)' = Indexed(u) + Signed(Row(l), u)
      BY <3>1, <3>2, <3>3, IndexedGrows
    <3>5. u \notin inverted /\ Value(u)' = Value(u) + Signed(Row(l), u)
      BY <1>3, <3>1, <3>2, HandleValue DEF Aside
    <3> QED BY <1>1, <2>1, <3>4, <3>5
  <2> QED BY <1>3, <2>2, <2>3, IndexerMoves DEF Aside
<1>4. CASE \E o \in Orders : AcceptOrder(o)
  <2>1. PICK o \in Orders : AcceptOrder(o)
    BY <1>4
  <2>2. UNCHANGED <<indexed_logs, past, inverted>>
    BY <2>1, RequestsAreQuiet DEF Quiet, history
  <2>3. /\ DOMAIN balances' = DOMAIN balances
        /\ \A x \in DOMAIN balances : balances'[x].amount + hold'[x] = balances[x].amount + hold[x]
    BY <2>1, <2>2, RequestRows
  <2>4. Value(u)' = Value(u)
    BY <2>3 DEF Value
  <2> QED BY <1>1, <1>2, <2>2, <2>4
<1>5. CASE UNCHANGED sharedVars
  <2>1. UNCHANGED <<indexed_logs, past, inverted, balances, hold>>
    BY <1>5 DEF sharedVars, vars, database, rows, history, requests
  <2> QED BY <1>1, <1>2, <2>1 DEF Value
<1> QED
  BY <1>3, <1>4, <1>5, SharedSteps

\* Both are nothing at first.
LEMMA InitSums == SharedInit => IsFiniteSet(indexed_logs) /\ Sums
<1> SUFFICES ASSUME SharedInit PROVE IsFiniteSet(indexed_logs) /\ Sums
  OBVIOUS
<1>1. indexed_logs = {} /\ DOMAIN balances = {}
  BY DEF SharedInit, Init
<1>2. ASSUME NEW u PROVE Indexed(u) = Value(u)
  <2>1. Amounts(u, {"Deposited"}) = {} /\ Amounts(u, Withdrawals) = {}
    BY <1>1 DEF Amounts
  <2> QED BY <1>1, <2>1, FS_EmptySet DEF Indexed, Value
<1> QED
  BY <1>1, <1>2, FS_EmptySet DEF Sums

\* Free and held together, seen through the rows of the indexer alone.
LEMMA WholeRows ==
  SharedTypes => Whole = [u \in DOMAIN balances |-> [amount |-> balances[u].amount + hold[u],
                                                     block  |-> balances[u].block]]
<1> SUFFICES ASSUME SharedTypes, NEW u \in DOMAIN balances
             PROVE  [balances[u] EXCEPT !.amount = balances[u].amount + hold[u]]
                      = [amount |-> balances[u].amount + hold[u], block |-> balances[u].block]
  BY DEF Whole
<1>1. balances[u] \in BalanceRow
  BY DEF SharedTypes, RowsTyped
<1> QED
  BY <1>1 DEF BalanceRow

\* The sums say of the whole rows what BalancesAreSums says of the rows.
LEMMA SumsAreTraced == SharedTypes /\ Sums => FundsTraced
<1> SUFFICES ASSUME SharedTypes, Sums, "rolled_back" \notin past, NEW u \in Users \ inverted
             PROVE  Alone!Indexed(u) = IF u \in DOMAIN Whole THEN Whole[u].amount ELSE 0
  BY DEF FundsTraced, Alone!BalancesAreSums
<1>1. Alone!Indexed(u) = Indexed(u)
  <2>1. \A kinds : Alone!Amounts(u, kinds) = Amounts(u, kinds)
    BY DEF Alone!Amounts, Amounts
  <2>2. Alone!Withdrawals = Withdrawals
    BY DEF Alone!Withdrawals, Withdrawals
  <2>3. \A S : Alone!Cardinality(S) = Cardinality(S)
    BY DEF Alone!Cardinality, Cardinality
  <2> QED BY <2>1, <2>2, <2>3 DEF Alone!Indexed, Indexed
<1>2. Indexed(u) = Value(u)
  BY DEF Sums
<1>3. Value(u) = IF u \in DOMAIN Whole THEN Whole[u].amount ELSE 0
  BY WholeRows DEF Value
<1> QED
  BY <1>1, <1>2, <1>3

\* Until a rollback, what the gateway has reserved and stored changes nothing in what the indexer counts.
THEOREM FundsAreTraced == SharedSpec => []FundsTraced
<1> DEFINE I == SharedTypes /\ ReservationsHeld /\ IsFiniteSet(indexed_logs) /\ Sums
<1>1. SharedInit => I
  BY SharedInitTypes, InitReservations, InitSums
<1>2. I /\ [SharedNext]_sharedVars => I'
  BY SharedTypesStep, ReservationsStep, FiniteStep, SumsStep
<1>3. I => FundsTraced
  BY SumsAreTraced
<1> HIDE DEF I
<1> QED
  BY <1>1, <1>2, <1>3, PTL DEF SharedSpec

-----------------------------------------------------------------------------
\* An instance of the indexer has the same operators, and the same logs at hand.
LEMMA SameOperators ==
  /\ \A ch, c, from, to : Alone!LogsOf(ch, c, from, to) = LogsOf(ch, c, from, to)
  /\ \A ch : Alone!OnChain(ch) = OnChain(ch)
  /\ \A l, m : Alone!Before(l, m) <=> Before(l, m)
  /\ \A ch : Alone!Valid(ch) <=> Valid(ch)
  /\ Alone!Blocks = Blocks
  /\ \A f, k, v : Alone!Put(f, k, v) = Put(f, k, v)
  /\ \A f, K : Alone!Drop(f, K) = Drop(f, K)
  /\ \A a, b : Alone!Least(a, b) = Least(a, b)
  /\ Alone!Withdrawals = Withdrawals /\ Alone!StateAfter = StateAfter
  /\ Alone!Notices = Notices /\ Alone!Faults = Faults /\ Alone!None = None
  /\ \A S : Alone!Cardinality(S) = Cardinality(S)
<1>1. \A ch, c, from, to : Alone!LogsOf(ch, c, from, to) = LogsOf(ch, c, from, to)
  BY DEF Alone!LogsOf, LogsOf
<1>2. \A ch : Alone!OnChain(ch) = OnChain(ch)
  BY <1>1 DEF Alone!OnChain, OnChain
<1>3. \A l, m : Alone!Before(l, m) <=> Before(l, m)
  BY DEF Alone!Before, Before
<1>4. \A ch : Alone!Valid(ch) <=> Valid(ch)
  BY <1>2, <1>3 DEF Alone!Valid, Valid
<1>5. Alone!Blocks = Blocks
  BY DEF Alone!Blocks, Blocks
<1>6. \A f, k, v : Alone!Put(f, k, v) = Put(f, k, v)
  BY DEF Alone!Put, Put
<1>7. \A f, K : Alone!Drop(f, K) = Drop(f, K)
  BY DEF Alone!Drop, Drop
<1>8. \A a, b : Alone!Least(a, b) = Least(a, b)
  BY DEF Alone!Least, Least
<1>9. /\ Alone!Withdrawals = Withdrawals /\ Alone!StateAfter = StateAfter
      /\ Alone!Notices = Notices /\ Alone!Faults = Faults /\ Alone!None = None
  BY DEF Alone!Withdrawals, Withdrawals, Alone!StateAfter, StateAfter, Alone!Notices, Notices,
         Alone!Faults, Faults, Alone!None, None
<1>10. \A S : Alone!Cardinality(S) = Cardinality(S)
  BY DEF Alone!Cardinality, Cardinality
<1> QED
  BY <1>1, <1>2, <1>3, <1>4, <1>5, <1>6, <1>7, <1>8, <1>9, <1>10

\* It sees the same logs in the same order, and its process is the same.
LEMMA SameLogs ==
  /\ Alone!Next_log = Next_log
  /\ \A l : Alone!already_processed(l) <=> already_processed(l)
  /\ \A l : Alone!Unknown(l) <=> Unknown(l)
  /\ \A l : Alone!Endless(l) <=> Endless(l)
  /\ \A l : Alone!Row(l) = Row(l)
  /\ \A l : Alone!save_checkpoint(l) <=> save_checkpoint(l)
  /\ \A c, ls, b, end : Alone!proceed(c, ls, b, end) <=> proceed(c, ls, b, end)
  /\ \A kind : Alone!Fails(kind) <=> Fails(kind)
  /\ \A end : Alone!LastFinal(end) = LastFinal(end)
  /\ \A b : Alone!Mismatch(b) <=> Mismatch(b)
  /\ \A f, b : Alone!From(f, b) = From(f, b)
<1>1. Alone!Next_log = Next_log
  BY SameOperators DEF Alone!Next_log, Next_log
<1>2. /\ \A l : Alone!already_processed(l) <=> already_processed(l)
      /\ \A l : Alone!Unknown(l) <=> Unknown(l)
      /\ \A l : Alone!Endless(l) <=> Endless(l)
      /\ \A l : Alone!Row(l) = Row(l)
  BY DEF Alone!already_processed, already_processed, Alone!Unknown, Unknown, Alone!Endless, Endless,
         Alone!Row, Row
<1>3. \A l : Alone!save_checkpoint(l) <=> save_checkpoint(l)
  BY SameOperators DEF Alone!save_checkpoint, save_checkpoint
<1>4. \A c, ls, b, end : Alone!proceed(c, ls, b, end) <=> proceed(c, ls, b, end)
  BY SameOperators DEF Alone!proceed, proceed
<1>5. \A kind : Alone!Fails(kind) <=> Fails(kind)
  BY SameOperators DEF Alone!Fails, Fails
<1>6. \A end : Alone!LastFinal(end) = LastFinal(end)
  BY SameOperators DEF Alone!LastFinal, LastFinal
<1>7. \A b : Alone!Mismatch(b) <=> Mismatch(b)
  BY DEF Alone!Mismatch, Mismatch
<1>8. \A f, b : Alone!From(f, b) = From(f, b)
  BY DEF Alone!From, From
<1> QED
  BY <1>1, <1>2, <1>3, <1>4, <1>5, <1>6, <1>7, <1>8

\* The same after a step.
LEMMA WholeRowsPrimed ==
  (SharedTypes => Whole = [u \in DOMAIN balances |-> [amount |-> balances[u].amount + hold[u],
                                                      block  |-> balances[u].block]])'
BY WholeRows, PTL

\* Where the rows stay, or keep what they hold, the whole rows stay.
LEMMA WholeStays ==
  ASSUME SharedTypes, SharedTypes',
         DOMAIN balances' = DOMAIN balances,
         \A x \in DOMAIN balances : /\ balances'[x].block = balances[x].block
                                    /\ balances'[x].amount + hold'[x] = balances[x].amount + hold[x]
  PROVE  Whole' = Whole
BY WholeRows, WholeRowsPrimed

\* A step that keeps the rows and the holds.
LEMMA WholeBeside ==
  ASSUME SharedTypes, SharedTypes', KeepHolds, UNCHANGED balances
  PROVE  Whole' = Whole
<1>1. \A x \in DOMAIN balances : balances'[x] = balances[x] /\ hold'[x] = hold[x]
  BY HoldsKept DEF SharedTypes, RequestsTyped
<1> QED
  BY <1>1, WholeStays

\* Steps of the indexer that leave the rows alone.
LEMMA StillSteps ==
  ASSUME SharedTypes, SharedTypes', KeepHolds,
         \/ Mine \/ Reorg \/ poll \/ (\E c \in todo : get_logs(c)) \/ skip_log \/ log_refused \/ Failure
  PROVE  Alone!Next
<1>1. UNCHANGED balances
  BY DEF Mine, Reorg, poll, get_logs, skip_log, log_refused, Failure, get_logs_fails, log_fails, check_fails,
         crash, Fails, database, rows
<1>2. Whole' = Whole
  BY <1>1, WholeBeside
<1>3. UNCHANGED database => UNCHANGED Alone!database
  BY <1>2 DEF database, rows, Alone!database, Alone!rows
<1>4. /\ UNCHANGED process <=> UNCHANGED Alone!process
      /\ UNCHANGED history <=> UNCHANGED Alone!history
      /\ UNCHANGED world <=> UNCHANGED Alone!world
  BY DEF process, Alone!process, history, Alone!history, world, Alone!world
<1>5. CASE Mine
  BY <1>3, <1>4, <1>5, SameOperators DEF Mine, Alone!Mine, Alone!Next
<1>6. CASE Reorg
  BY <1>3, <1>4, <1>6, SameOperators DEF Reorg, Alone!Reorg, Alone!Next
<1>7. CASE poll
  BY <1>3, <1>4, <1>7, SameOperators DEF poll, Alone!poll, Alone!Next, Alone!Work
<1>8. CASE \E c \in todo : get_logs(c)
  <2>1. PICK c \in todo : get_logs(c)
    BY <1>8
  <2>2. Alone!get_logs(c)
    BY <1>3, <1>4, <2>1, SameOperators, SameLogs DEF get_logs, Alone!get_logs
  <2> QED BY <2>1, <2>2 DEF Alone!Next, Alone!Work
<1>9. CASE skip_log
  BY <1>3, <1>4, <1>9, SameLogs DEF skip_log, Alone!skip_log, Alone!Next, Alone!Work
<1>10. CASE log_refused
  <2>1. Alone!log_refused
    BY <1>3, <1>4, <1>10, SameLogs, SameOperators DEF log_refused, Alone!log_refused
  <2> QED BY <2>1 DEF Alone!Next, Alone!Work
<1>11. CASE Failure
  <2>1. CASE \E c \in todo : get_logs_fails(c)
    <3>1. PICK c \in todo : get_logs_fails(c)
      BY <2>1
    <3>2. Alone!get_logs_fails(c)
      BY <1>3, <1>4, <3>1, SameOperators, SameLogs DEF get_logs_fails, Alone!get_logs_fails
    <3> QED BY <3>1, <3>2 DEF Alone!Next, Alone!Failure
  <2>2. CASE log_fails
    <3>1. Alone!log_fails
      BY <1>3, <1>4, <2>2, SameOperators, SameLogs DEF log_fails, Alone!log_fails
    <3> QED BY <3>1 DEF Alone!Next, Alone!Failure
  <2>3. CASE check_fails
    <3>1. Alone!check_fails
      BY <1>3, <1>4, <2>3, SameOperators, SameLogs DEF check_fails, Alone!check_fails
    <3> QED BY <3>1 DEF Alone!Next, Alone!Failure
  <2>4. CASE crash
    <3>1. Alone!crash
      BY <1>3, <1>4, <2>4, SameOperators, SameLogs DEF crash, Alone!crash
    <3> QED BY <3>1 DEF Alone!Next, Alone!Failure
  <2> QED BY <1>11, <2>1, <2>2, <2>3, <2>4 DEF Failure
<1> QED
  BY <1>5, <1>6, <1>7, <1>8, <1>9, <1>10, <1>11

\* A deposit or a withdrawal does to the whole rows what it does to the rows.
LEMMA WholeUpsert ==
  ASSUME SharedTypes, SharedTypes', KeepHolds, NEW k, NEW n \in Nat, NEW d \in Int, NEW b, Upsert(k, n, d, b)
  PROVE  Alone!Upsert(k, n, d, b)
<1> DEFINE row == [amount |-> IF k \in DOMAIN balances THEN balances[k].amount + d ELSE n, block |-> b]
           whole == [amount |-> IF k \in DOMAIN Whole THEN Whole[k].amount + d ELSE n, block |-> b]
           sum(u) == [amount |-> balances[u].amount + hold[u], block |-> balances[u].block]
<1>1. balances' = [x \in DOMAIN balances \cup {k} |-> IF x = k THEN row ELSE balances[x]]
  BY DEF Upsert, Put
<1>2. /\ DOMAIN hold = DOMAIN balances
      /\ \A x \in DOMAIN balances : balances[x].amount \in Int /\ hold[x] \in Nat
  BY DEF SharedTypes, RowsTyped, RequestsTyped, BalanceRow
<1>3. \A x \in DOMAIN balances' : hold'[x] = IF x \in DOMAIN balances THEN hold[x] ELSE 0
  BY HoldsKept DEF SharedTypes
<1>4. Whole = [x \in DOMAIN balances |-> sum(x)]
  BY WholeRows
<1>5. Whole' = [x \in DOMAIN balances' |-> [amount |-> balances'[x].amount + hold'[x], block |-> balances'[x].block]]
  BY WholeRowsPrimed
<1>6. /\ DOMAIN Whole = DOMAIN balances
      /\ \A x \in DOMAIN balances : Whole[x] = sum(x)
  BY <1>4
<1>7. [amount |-> row.amount + hold'[k], block |-> row.block] = whole
  <2>1. k \in DOMAIN balances'
    BY <1>1
  <2>2. CASE k \in DOMAIN balances
    <3>1. row.amount + hold'[k] = whole.amount
      <4>1. /\ row.amount = balances[k].amount + d /\ hold'[k] = hold[k]
            /\ whole.amount = (balances[k].amount + hold[k]) + d
        BY <1>3, <1>6, <2>1, <2>2
      <4>2. balances[k].amount \in Int /\ hold[k] \in Nat
        BY <1>2, <2>2
      <4> HIDE DEF row, whole
      <4> QED BY <4>1, <4>2
    <3> QED BY <3>1
  <2>3. CASE k \notin DOMAIN balances
    BY <1>3, <1>6, <2>1, <2>3
  <2> QED BY <2>2, <2>3
<1>8. Whole' = [x \in DOMAIN Whole \cup {k} |-> IF x = k THEN whole ELSE Whole[x]]
  <2>1. DOMAIN balances' = DOMAIN balances \cup {k} /\ balances'[k] = row
        /\ \A x \in DOMAIN balances : x # k => balances'[x] = balances[x] /\ hold'[x] = hold[x]
    BY <1>1, <1>3
  <2>2. ASSUME NEW x \in DOMAIN balances \cup {k}
        PROVE  [amount |-> balances'[x].amount + hold'[x], block |-> balances'[x].block]
                 = IF x = k THEN whole ELSE Whole[x]
    <3>1. CASE x = k
      BY <1>7, <2>1, <3>1
    <3>2. CASE x # k
      <4>1. x \in DOMAIN balances /\ balances'[x] = balances[x] /\ hold'[x] = hold[x] /\ Whole[x] = sum(x)
        BY <1>6, <2>1, <3>2
      <4> QED BY <3>2, <4>1
    <3> QED BY <3>1, <3>2
  <2> HIDE DEF whole, row, sum
  <2> QED BY <1>5, <1>6, <2>1, <2>2
<1> QED
  BY <1>8 DEF Alone!Upsert, Alone!Put

\* A handler does to the whole rows what it does to the rows.
LEMMA WholeHandle ==
  ASSUME SharedTypes, SharedTypes', KeepHolds, NEW l \in LogRecord, handle(l)
  PROVE  Alone!handle(l)
<1>1. l.tx.kind \in {"Deposited"} \cup Withdrawals => l.tx.n \in Nat
  BY EventsTyped DEF LogRecord
<1>2. DOMAIN Whole = DOMAIN balances
  BY WholeRows
<1>3. CASE handle_deposited(l)
  <2>1. Alone!Upsert(l.tx.key, l.tx.n, l.tx.n, l.block)
    BY <1>1, <1>3, WholeUpsert DEF handle_deposited
  <2> QED BY <1>3, <2>1 DEF handle_deposited, Alone!handle, Alone!handle_deposited
<1>4. CASE handle_withdrawn(l)
  <2>1. l.tx.n \in Nat /\ -l.tx.n \in Int
    BY <1>1, <1>4 DEF handle_withdrawn
  <2>2. Alone!Upsert(l.tx.key, l.tx.n, -l.tx.n, l.block)
    BY <1>4, <2>1, WholeUpsert DEF handle_withdrawn
  <2> QED BY <1>2, <1>4, <2>2, SameOperators DEF handle_withdrawn, Alone!handle, Alone!handle_withdrawn
<1>5. CASE \/ handle_nonce_invalidated(l) \/ handle_market_created(l)
           \/ handle_outcome(l) \/ handle_notice(l)
  <2>1. UNCHANGED balances
    BY <1>5 DEF handle_nonce_invalidated, handle_market_created, handle_outcome, handle_notice, rows
  <2>2. Whole' = Whole
    BY <2>1, WholeBeside
  <2>3. CASE handle_nonce_invalidated(l)
    BY <2>2, <2>3 DEF handle_nonce_invalidated, Alone!handle_nonce_invalidated, Alone!handle
  <2>4. CASE handle_market_created(l)
    BY <2>2, <2>4, SameOperators, SameLogs DEF handle_market_created, Alone!handle_market_created, Alone!handle
  <2>5. CASE handle_outcome(l)
    BY <2>2, <2>5, SameOperators DEF handle_outcome, Alone!handle_outcome, Alone!handle
  <2>6. CASE handle_notice(l)
    BY <2>2, <2>6, SameOperators DEF handle_notice, Alone!handle_notice, Alone!handle, rows, Alone!rows
  <2> QED BY <1>5, <2>3, <2>4, <2>5, <2>6
<1> QED
  BY <1>3, <1>4, <1>5 DEF handle

\* The transaction of a log, seen through the whole rows.
LEMMA WholeIndexLog ==
  ASSUME SharedTypes, SharedTypes', KeepHolds, index_log
  PROVE  Alone!index_log
<1>1. PICK l \in logs : l = Next_log
  BY NextLogIsFirst DEF index_log, SharedTypes, IndexerInv
<1>2. l \in LogRecord
  BY DEF SharedTypes, Typed
<1>3. Alone!Next_log = l
  BY <1>1, SameLogs
<1>4. /\ logs # {} /\ ~already_processed(l) /\ save_checkpoint(l)
      /\ \/ handle(l) /\ indexed_logs' = indexed_logs \cup {Row(l)} /\ unapplied' = unapplied \ {l.tx}
         \/ Unknown(l) /\ UNCHANGED <<indexed_logs, rows, unapplied, inverted>>
      /\ proceed(contract, logs \ {l}, block, last)
      /\ UNCHANGED <<world, cursors, current_block, todo, past, faults>>
  BY <1>1 DEF index_log
<1>5. /\ ~Alone!already_processed(l) /\ Alone!save_checkpoint(l)
      /\ Alone!proceed(contract, logs \ {l}, block, last) /\ UNCHANGED Alone!world
  BY <1>4, SameLogs DEF world, Alone!world
<1>6. \/ Alone!handle(l) /\ indexed_logs' = indexed_logs \cup {Alone!Row(l)} /\ unapplied' = unapplied \ {l.tx}
      \/ Alone!Unknown(l) /\ UNCHANGED <<indexed_logs, Alone!rows, unapplied, inverted>>
  <2>1. CASE handle(l) /\ indexed_logs' = indexed_logs \cup {Row(l)} /\ unapplied' = unapplied \ {l.tx}
    BY <1>2, <2>1, WholeHandle, SameLogs
  <2>2. CASE Unknown(l) /\ UNCHANGED <<indexed_logs, rows, unapplied, inverted>>
    <3>1. Whole' = Whole
      BY <2>2, WholeBeside DEF rows
    <3> QED BY <2>2, <3>1, SameLogs DEF rows, Alone!rows
  <2> QED BY <1>4, <2>1, <2>2
<1> QED
  BY <1>3, <1>4, <1>5, <1>6 DEF Alone!index_log

\* The check of a block, seen through the whole rows.
LEMMA WholeCheckBlock ==
  ASSUME SharedTypes, SharedTypes', KeepHolds, check_block
  PROVE  Alone!check_block
<1>1. /\ DOMAIN Whole = DOMAIN balances
      /\ \A u \in DOMAIN balances : Whole[u].block = balances[u].block
  BY WholeRows
<1>2. /\ Alone!proceed(contract, {}, block + 1, last) /\ contract # Alone!None /\ logs = {} /\ block <= last
      /\ UNCHANGED <<Alone!world, current_block, todo>>
  BY SameLogs, SameOperators DEF check_block, world, Alone!world
<1>3. /\ Alone!Mismatch(block) <=> Mismatch(block)
      /\ Alone!Referenced(block) <=> Referenced(block)
  BY SameLogs DEF Referenced, Alone!Referenced
<1>4. CASE Mismatch(block) /\ ~Referenced(block) /\ rollback_unfinalized(block)
  <2>1. From(Whole, block) = From(balances, block)
    BY <1>1 DEF From
  <2>2. Whole' = Drop(Whole, From(Whole, block))
    <3> DEFINE K == From(balances, block)
    <3>1. balances' = [x \in DOMAIN balances \ K |-> balances[x]]
      BY <1>4 DEF rollback_unfinalized, Drop
    <3>2. \A x \in DOMAIN balances \ K : hold'[x] = hold[x]
      BY <3>1, HoldsKept DEF SharedTypes
    <3> HIDE DEF K
    <3>3. Whole' = [x \in DOMAIN balances \ K |-> [amount |-> balances[x].amount + hold[x], block |-> balances[x].block]]
      BY <3>1, <3>2, WholeRowsPrimed
    <3>4. Whole' = [x \in DOMAIN Whole \ K |-> Whole[x]]
      BY <3>3, WholeRows
    <3> QED BY <2>1, <3>4 DEF Drop, K
  <2>3. Alone!forget_blocks(block) /\ Alone!forget_logs(block)
    BY <1>4, SameOperators DEF rollback_unfinalized, forget_blocks, Alone!forget_blocks,
                               forget_logs, Alone!forget_logs
  <2>4. Alone!rollback_unfinalized(block)
    BY <1>4, <2>1, <2>2, <2>3, SameOperators, SameLogs DEF rollback_unfinalized, Alone!rollback_unfinalized
  <2> QED BY <1>2, <1>3, <1>4, <2>4 DEF Alone!check_block
<1>5. CASE \/ Mismatch(block) /\ Referenced(block) /\ rollback_refused
           \/ ~Mismatch(block) /\ finalize_block(block)
  <2>1. UNCHANGED balances
    BY <1>5 DEF rollback_refused, finalize_block, database, rows
  <2>2. Whole' = Whole
    BY <2>1, WholeBeside
  <2>3. \/ Mismatch(block) /\ Referenced(block) /\ Alone!rollback_refused
        \/ ~Mismatch(block) /\ Alone!finalize_block(block)
    BY <1>5, <2>2 DEF rollback_refused, Alone!rollback_refused, finalize_block, Alone!finalize_block,
                      database, Alone!database, rows, Alone!rows, history, Alone!history
  <2> QED BY <1>2, <1>3, <2>3 DEF Alone!check_block
<1> QED
  BY <1>4, <1>5 DEF check_block

\* Of a request the indexer sees that a user becomes known and an order is stored, and nothing else
\* but a release after a rollback.
LEMMA WholeRequests ==
  ASSUME SharedTypes, SharedTypes', ReservationsHeld, NEW o \in Orders, AcceptOrder(o),
         ~ (release_collateral(o) /\ "rolled_back" \in past)
  PROVE  Alone!Next \/ UNCHANGED Alone!vars
<1>1. Whole' = Whole
  BY RequestRows, WholeStays
<1>2. CASE makeKnown(o)
  <2>1. Alone!ensure_user(o.user)
    BY <1>1, <1>2 DEF makeKnown, ensure_user, Alone!ensure_user, world, Alone!world,
                      process, Alone!process, history, Alone!history
  <2> QED BY <2>1 DEF Alone!Next
<1>3. CASE storeOrder(o)
  <2>1. Alone!insert_order(o)
    BY <1>1, <1>3 DEF storeOrder, insert_order, Alone!insert_order, world, Alone!world,
                      process, Alone!process, history, Alone!history
  <2> QED BY <2>1 DEF Alone!Next
<1>4. CASE reserve_collateral(o) \/ release_collateral(o)
  BY <1>1, <1>4 DEF reserve_collateral, release_collateral, Untouched, world, process, history,
                    Alone!vars, Alone!world, Alone!database, Alone!rows, Alone!process, Alone!history
<1>5. CASE reserve_refused(o) \/ orderRefused(o)
  BY <1>1, <1>5 DEF reserve_refused, orderRefused, vars, world, database, rows, process, history,
                    Alone!vars, Alone!world, Alone!database, Alone!rows, Alone!process, Alone!history
<1> QED
  BY <1>2, <1>3, <1>4, <1>5 DEF AcceptOrder

\* What every step of the two processes is to an indexer that sees the whole rows.
WholeStep == \/ Alone!Next \/ UNCHANGED Alone!vars
             \/ "rolled_back" \in past /\ \E o \in Orders : release_collateral(o)

\* That is so for every step.
LEMMA WholeSteps ==
  ASSUME SharedTypes, SharedTypes', ReservationsHeld, [SharedNext]_sharedVars
  PROVE  WholeStep
<1>1. CASE Aside
  <2>1. CASE index_log
    BY <1>1, <2>1, WholeIndexLog DEF Aside, WholeStep, Alone!Next, Alone!Work
  <2>2. CASE check_block
    BY <1>1, <2>2, WholeCheckBlock DEF Aside, WholeStep, Alone!Next, Alone!Work
  <2>3. CASE \/ Mine \/ Reorg \/ poll \/ (\E c \in todo : get_logs(c)) \/ skip_log \/ log_refused
             \/ Failure
    BY <1>1, <2>3, StillSteps DEF Aside, WholeStep
  <2> QED BY <1>1, <2>1, <2>2, <2>3 DEF Aside, ChainMoves, Work
<1>2. CASE \E o \in Orders : AcceptOrder(o)
  BY <1>2, WholeRequests DEF WholeStep
<1>3. CASE UNCHANGED sharedVars
  BY <1>3 DEF sharedVars, requests, vars, world, database, rows, process, history, Whole, WholeStep,
              Alone!vars, Alone!world, Alone!database, Alone!rows, Alone!process, Alone!history
<1> QED
  BY <1>1, <1>2, <1>3, SharedSteps

\* Seen through its tables the indexer is not disturbed: as long as nothing is released after a
\* rollback, every step of the two processes is one that the indexer could make next to a gateway
\* that only stores users and orders.
THEOREM IndexerImplemented == SharedSpec => ImplementsIndexer
<1> DEFINE I == SharedTypes /\ ReservationsHeld
<1>1. SharedInit => I
  BY SharedInitTypes, InitReservations
<1>2. I /\ [SharedNext]_sharedVars => I'
  BY SharedTypesStep, ReservationsStep
<1>3. I /\ I' /\ [SharedNext]_sharedVars =>
        [Alone!Next \/ ("rolled_back" \in past /\ \E o \in Orders : release_collateral(o))]_Alone!vars
  BY WholeSteps DEF WholeStep
<1> HIDE DEF I
<1> QED
  BY <1>1, <1>2, <1>3, PTL DEF SharedSpec, ImplementsIndexer

==============================================================================
