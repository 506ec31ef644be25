--------------------------- MODULE ExchangeProofs ---------------------------
(***************************************************************************)
(* What holds of the exchange for every set of orders, every batch of legs *)
(* and every rounding unit.                                                *)
(*                                                                         *)
(* Order of the argument: the loop of settleBatch produces well-typed      *)
(* deltas and never fills an order beyond its amount (by induction on the  *)
(* legs); so a settlement is one of Custody's settlements, the exchange    *)
(* implements Custody, and Custody's solvency carries over; the exchange's *)
(* own invariants are inductive with the types.                            *)
(***************************************************************************)
EXTENDS SettlementExchange, LedgerLemmas

CP == INSTANCE CustodyProofs WITH This <- Vault, SettlementRole <- {Exchange},
                                  DeltaLists <- Seq(Delta(Accounts))

-----------------------------------------------------------------------------
\* r holds what each of the first n legs leaves.
IsLoop(r, legs, n) ==
    /\ DOMAIN r = 0..n
    /\ r = [i \in 0..n |-> r[i]]
    /\ r[0] = [filled |-> filledAmount, deltas |-> << >>, net |-> 0]
    /\ \A i \in 1..n : r[i] = afterLeg(r[i-1], legs[i])

\* One more leg extends the loop by one.
LEMMA LoopExtends ==
  ASSUME NEW legs, NEW m \in Nat \ {0}, NEW r, IsLoop(r, legs, m - 1)
  PROVE  \E q : IsLoop(q, legs, m)
<1> DEFINE q == [i \in 0..m |-> IF i = m THEN afterLeg(r[m-1], legs[m]) ELSE r[i]]
<1>1. q[0] = [filled |-> filledAmount, deltas |-> << >>, net |-> 0]
  BY DEF IsLoop
<1>2. ASSUME NEW i \in 1..m
      PROVE  q[i] = afterLeg(q[i-1], legs[i])
  <2>1. q[i-1] = r[i-1]
    OBVIOUS
  <2>2. CASE i = m
    BY <2>1, <2>2
  <2>3. CASE i # m
    <3>1. q[i] = r[i] /\ i \in 1..(m-1)
      BY <2>3
    <3> HIDE DEF q
    <3> QED BY <3>1, <2>1 DEF IsLoop
  <2> QED BY <2>2, <2>3
<1>3. DOMAIN q = 0..m /\ q = [i \in 0..m |-> q[i]]
  OBVIOUS
<1> QED
  <2> HIDE DEF q
  <2> QED BY <1>1, <1>2, <1>3 DEF IsLoop

\* The loop's states exist for every number n of legs.
LEMMA LoopExists ==
  ASSUME NEW legs, NEW n \in Nat
  PROVE  \E r : IsLoop(r, legs, n)
<1> DEFINE Exists(k) == \E r : IsLoop(r, legs, k)
           Bad == {k \in Nat : ~ Exists(k)}
<1>1. ASSUME NEW m \in Bad, \A k \in Bad : m <= k PROVE FALSE
  <2>1. m \in Nat /\ ~ Exists(m)
    OBVIOUS
  <2>2. m # 0
    <3>1. IsLoop([i \in 0..0 |-> [filled |-> filledAmount, deltas |-> << >>, net |-> 0]], legs, 0)
      BY DEF IsLoop
    <3> QED BY <3>1, <2>1
  <2>3. m - 1 \in Nat /\ ~ (m <= m - 1)
    BY <2>1, <2>2
  <2>4. m - 1 \notin Bad
    <3> HIDE DEF Bad
    <3> QED BY <1>1, <2>3
  <2>5. Exists(m - 1)
    <3> HIDE DEF Exists
    <3> QED BY <2>3, <2>4
  <2> QED
    BY <2>1, <2>2, <2>5, LoopExtends
<1>2. Bad = {}
  <2> HIDE DEF Exists
  <2>1. Bad \in SUBSET Nat
    OBVIOUS
  <2> HIDE DEF Bad
  <2> QED BY <1>1, <2>1, LeastNatural
<1>3. Exists(n)
  <2> HIDE DEF Exists
  <2> QED BY <1>2
<1> QED
  BY <1>3

\* Loop is the function its definition describes.
LEMMA LoopDef ==
  ASSUME NEW legs, Len(legs) \in Nat
  PROVE  IsLoop(Loop(legs), legs, Len(legs))
<1> DEFINE Start == [filled |-> filledAmount, deltas |-> << >>, net |-> 0]
           Body(f) == [i \in 0..Len(legs) |-> IF i = 0 THEN Start ELSE afterLeg(f[i-1], legs[i])]
           r == Loop(legs)
<1>1. PICK q : IsLoop(q, legs, Len(legs))
  BY LoopExists
<1>2. q = Body(q)
  <2>1. q = [i \in 0..Len(legs) |-> q[i]]
    BY <1>1 DEF IsLoop
  <2>2. ASSUME NEW i \in 0..Len(legs)
        PROVE  q[i] = IF i = 0 THEN Start ELSE afterLeg(q[i-1], legs[i])
    <3>1. q[0] = Start /\ \A j \in 1..Len(legs) : q[j] = afterLeg(q[j-1], legs[j])
      BY <1>1 DEF IsLoop
    <3>2. CASE i = 0
      BY <3>1, <3>2
    <3>3. CASE i # 0
      <4>1. i \in 1..Len(legs)
        BY <3>3
      <4> QED BY <3>1, <3>3, <4>1
    <3> QED BY <3>2, <3>3
  <2> QED BY <2>1, <2>2
<1>3. r = CHOOSE f : f = Body(f)
  BY DEF Loop
<1>4. r = Body(r)
  <2> HIDE DEF Body, r
  <2> QED BY <1>2, <1>3
<1> HIDE DEF r
<1>5. DOMAIN r = 0..Len(legs) /\ r = [i \in 0..Len(legs) |-> r[i]]
  BY <1>4
<1>6. \A i \in 0..Len(legs) : r[i] = IF i = 0 THEN Start ELSE afterLeg(r[i-1], legs[i])
  BY <1>4
<1>7. r[0] = Start /\ \A i \in 1..Len(legs) : r[i] = afterLeg(r[i-1], legs[i])
  BY <1>6
<1> QED
  BY <1>5, <1>7 DEF IsLoop, r

-----------------------------------------------------------------------------
\* What the first legs of a batch leave.
LoopStates == [filled : [Orders -> Nat], deltas : Seq(Delta(Accounts)), net : Int]

Rates == takerFeeBps \in Nat /\ makerRebateBps \in Nat

\* A leg changes its maker's balance by an integer.
LEMMA CreditType ==
  ASSUME Rates, NEW leg \in Leg
  PROVE  credit(leg) \in Int
<1>1. /\ leg.fill \in Nat /\ leg.isMaker \in BOOLEAN /\ leg.order.price \in Nat
      /\ PriceUnit \in Nat \ {0} /\ FeeUnit \in Nat \ {0}
  BY OrdersTyped, UnitsPositive DEF Leg, Order
<1>2. leg.fill * leg.order.price \in Nat
  BY <1>1
<1>3. volume(leg) \in Int
  BY <1>1, <1>2 DEF volume, CeilDiv
<1>4. volume(leg) * makerRebateBps \in Int /\ volume(leg) * takerFeeBps \in Int
  BY <1>3 DEF Rates
<1>5. fee(leg) \in Int
  BY <1>1, <1>4 DEF fee, CeilDiv
<1> QED
  BY <1>3, <1>5 DEF credit

\* Accruing keeps a sequence of deltas one.
LEMMA AccrueType ==
  ASSUME NEW A, NEW deltas \in Seq(Delta(A)), NEW account \in A, NEW amount \in Int
  PROVE  accrue(deltas, account, amount) \in Seq(Delta(A))
<1>1. [account |-> account, amount |-> amount] \in Delta(A)
  BY DEF Delta
<1>2. DOMAIN deltas = 1..Len(deltas) /\ Len(deltas) \in Nat
  OBVIOUS
<1> DEFINE d(i) == IF deltas[i].account = account THEN [deltas[i] EXCEPT !.amount = @ + amount]
                                                  ELSE deltas[i]
<1>3. ASSUME NEW i \in DOMAIN deltas PROVE d(i) \in Delta(A)
  <2>1. deltas[i] \in Delta(A)
    BY <1>2
  <2> QED BY <2>1 DEF Delta
<1>4. [i \in DOMAIN deltas |-> d(i)] \in Seq(Delta(A))
  <2> DEFINE q == [i \in 1..Len(deltas) |-> d(i)]
  <2> HIDE DEF d
  <2>1. q \in [1..Len(deltas) -> Delta(A)]
    BY <1>2, <1>3
  <2>2. q \in Seq(Delta(A))
    <3> HIDE DEF q
    <3> QED BY <1>2, <2>1
  <2> QED BY <1>2, <2>2
<1> QED
  BY <1>1, <1>4 DEF accrue

\* A leg leaves a well-typed state, and fills at most its own order.
LEMMA AfterLegType ==
  ASSUME Rates, NEW s \in LoopStates, NEW leg \in Leg
  PROVE  /\ afterLeg(s, leg) \in LoopStates
         /\ \A o \in Orders : afterLeg(s, leg).filled[o]
                                = IF leg.fill # 0 /\ o = leg.order THEN s.filled[o] + leg.fill
                                                                   ELSE s.filled[o]
<1>1. leg.order \in Orders /\ leg.fill \in Nat /\ leg.order.maker \in Accounts
  BY OrdersTyped DEF Leg, Order, Accounts
<1>2. s.filled \in [Orders -> Nat] /\ s.deltas \in Seq(Delta(Accounts)) /\ s.net \in Int
  BY DEF LoopStates
<1>3. CASE leg.fill = 0
  BY <1>2, <1>3 DEF afterLeg
<1>4. CASE leg.fill # 0
  <2> DEFINE f == [s.filled EXCEPT ![leg.order] = @ + leg.fill]
             d == accrue(s.deltas, leg.order.maker, credit(leg))
             n == s.net - credit(leg)
  <2>1. afterLeg(s, leg) = [filled |-> f, deltas |-> d, net |-> n]
    BY <1>4 DEF afterLeg
  <2>2. credit(leg) \in Int
    BY CreditType
  <2>3. n \in Int
    BY <1>2, <2>2
  <2>4. d \in Seq(Delta(Accounts))
    BY <1>1, <1>2, <2>2, AccrueType
  <2>5. f \in [Orders -> Nat]
    BY <1>1, <1>2
  <2>6. \A o \in Orders : f[o] = IF o = leg.order THEN s.filled[o] + leg.fill ELSE s.filled[o]
    BY <1>1, <1>2
  <2> HIDE DEF f, d, n
  <2>7. afterLeg(s, leg) \in LoopStates
    BY <2>1, <2>3, <2>4, <2>5 DEF LoopStates
  <2>8. afterLeg(s, leg).filled = f
    BY <2>1
  <2> QED BY <1>4, <2>6, <2>7, <2>8
<1> QED
  BY <1>3, <1>4

\* Every prefix of a batch leaves a well-typed state.
LEMMA LoopType ==
  ASSUME Rates, filledAmount \in [Orders -> Nat], NEW legs \in Seq(Leg), NEW n \in 0..Len(legs)
  PROVE  Loop(legs)[n] \in LoopStates
<1> DEFINE r == Loop(legs)
           Bad == {k \in 0..Len(legs) : r[k] \notin LoopStates}
<1>0. Len(legs) \in Nat
  OBVIOUS
<1>1. IsLoop(r, legs, Len(legs))
  BY <1>0, LoopDef
<1> HIDE DEF r
<1>2. ASSUME NEW m \in Bad, \A k \in Bad : m <= k PROVE FALSE
  <2>1. m \in 0..Len(legs) /\ r[m] \notin LoopStates
    OBVIOUS
  <2>2. m # 0
    <3>1. r[0] = [filled |-> filledAmount, deltas |-> << >>, net |-> 0]
      BY <1>1 DEF IsLoop
    <3>2. << >> \in Seq(Delta(Accounts)) /\ 0 \in Int
      OBVIOUS
    <3>3. r[0] \in LoopStates
      BY <3>1, <3>2 DEF LoopStates
    <3> QED BY <2>1, <3>3
  <2>3. m - 1 \in 0..Len(legs) /\ m \in 1..Len(legs) /\ ~ (m <= m - 1)
    BY <1>0, <2>1, <2>2
  <2>4. m - 1 \notin Bad
    <3> HIDE DEF Bad
    <3> QED BY <1>2, <2>3
  <2>5. r[m-1] \in LoopStates
    BY <2>3, <2>4
  <2>6. legs[m] \in Leg
    BY <2>3
  <2>7. r[m] = afterLeg(r[m-1], legs[m])
    BY <1>1, <2>3 DEF IsLoop
  <2>8. afterLeg(r[m-1], legs[m]) \in LoopStates
    BY <2>5, <2>6, AfterLegType
  <2> QED BY <2>1, <2>7, <2>8
<1>3. Bad = {}
  <2>1. Bad \in SUBSET Nat
    BY <1>0
  <2> HIDE DEF Bad
  <2> QED BY <1>2, <2>1, LeastNatural
<1>4. r[n] \in LoopStates
  BY <1>3
<1> QED
  BY <1>4 DEF r

\* An order the exchange takes a leg of.
Live(o) == /\ o \in Signed
           /\ o.nonce = nonces[o.maker]
           /\ now <= o.deadline

\* If the legs were accepted one after the other, none of their orders ends beyond its amount, and only
\* live orders are filled.
LEMMA LoopFills ==
  ASSUME Rates, filledAmount \in [Orders -> Nat], NeverOverfilled,
         NEW legs \in Seq(Leg),
         \A i \in 1..Len(legs) : accepted(Loop(legs)[i-1], legs[i]),
         NEW n \in 0..Len(legs), NEW o \in Orders
  PROVE  /\ Loop(legs)[n].filled[o] <= o.amount
         /\ Loop(legs)[n].filled[o] = filledAmount[o] \/ Live(o)
<1> DEFINE r == Loop(legs)
           Holds(k) == /\ r[k].filled[o] <= o.amount
                       /\ r[k].filled[o] = filledAmount[o] \/ Live(o)
           Bad == {k \in 0..Len(legs) : ~ Holds(k)}
<1>0. Len(legs) \in Nat /\ o.amount \in Nat /\ filledAmount[o] \in Nat /\ filledAmount[o] <= o.amount
  BY OrdersTyped DEF Order, NeverOverfilled
<1>1. IsLoop(r, legs, Len(legs)) /\ \A k \in 0..Len(legs) : r[k] \in LoopStates
  BY <1>0, LoopDef, LoopType
<1>2. \A i \in 1..Len(legs) : accepted(r[i-1], legs[i])
  OBVIOUS
<1> HIDE DEF r
<1>3. ASSUME NEW m \in Bad, \A k \in Bad : m <= k PROVE FALSE
  <2>1. m \in 0..Len(legs) /\ ~ Holds(m)
    OBVIOUS
  <2>2. m # 0
    <3>1. r[0] = [filled |-> filledAmount, deltas |-> << >>, net |-> 0]
      BY <1>1 DEF IsLoop
    <3>2. Holds(0)
      BY <1>0, <3>1
    <3> HIDE DEF Holds
    <3> QED BY <3>2, <2>1
  <2>3. m - 1 \in 0..Len(legs) /\ m \in 1..Len(legs) /\ ~ (m <= m - 1)
    BY <1>0, <2>1, <2>2
  <2>4. m - 1 \notin Bad
    <3> HIDE DEF Bad
    <3> QED BY <1>3, <2>3
  <2>5. Holds(m - 1)
    <3> HIDE DEF Holds
    <3> QED BY <2>3, <2>4
  <2>6. legs[m] \in Leg /\ r[m-1] \in LoopStates /\ accepted(r[m-1], legs[m])
    BY <1>1, <1>2, <2>3
  <2>7. r[m] = afterLeg(r[m-1], legs[m])
    BY <1>1, <2>3 DEF IsLoop
  <2>8. r[m].filled[o] = IF legs[m].fill # 0 /\ o = legs[m].order THEN r[m-1].filled[o] + legs[m].fill
                                                                  ELSE r[m-1].filled[o]
    BY <2>6, <2>7, AfterLegType, SMTT(30)
  <2>9. legs[m].fill # 0 /\ o = legs[m].order
          => Live(o) /\ r[m-1].filled[o] + legs[m].fill <= o.amount
    BY <2>6 DEF accepted, Live
  <2>10. Holds(m)
    BY <2>5, <2>8, <2>9
  <2> HIDE DEF Holds
  <2> QED BY <2>1, <2>10
<1>4. Bad = {}
  <2>1. Bad \in SUBSET Nat
    BY <1>0
  <2> HIDE DEF Bad
  <2> QED BY <1>3, <2>1, LeastNatural
<1>5. Holds(n)
  <2> HIDE DEF Holds
  <2> QED BY <1>4
<1> QED
  BY <1>5 DEF r

-----------------------------------------------------------------------------
\* Custody is instantiated twice, by the specification and with its proofs: what the specification's
\* instance does, the other does.
LEMMA SameCalls ==
  ASSUME NEW a \in Users, C!UserCall(a)
  PROVE  CP!UserCall(a)
<1>1. ASSUME NEW amount \in Amounts, C!deposit(a, amount) PROVE CP!deposit(a, amount)
  BY <1>1 DEF C!deposit, CP!deposit, C!TransferIn, CP!TransferIn, C!Delivered, CP!Delivered,
              C!liveness, CP!liveness
<1>2. ASSUME NEW auth \in C!Authorization, C!withdraw(a, auth) PROVE CP!withdraw(a, auth)
  BY <1>2 DEF C!withdraw, CP!withdraw, C!debitAndPay, CP!debitAndPay, C!TransferOut, CP!TransferOut,
              C!Delivered, CP!Delivered, C!liveness, CP!liveness
<1>3. ASSUME NEW to \in Accounts \cup {Vault}, C!executeForcedWithdrawal(a, to)
      PROVE  CP!executeForcedWithdrawal(a, to)
  BY <1>3 DEF C!executeForcedWithdrawal, CP!executeForcedWithdrawal, C!operatorAbsent, CP!operatorAbsent,
              C!debitAndPay, CP!debitAndPay, C!TransferOut, CP!TransferOut,
              C!Delivered, CP!Delivered, C!liveness, CP!liveness
<1>4. C!Authorization = CP!Authorization
  BY DEF C!Authorization, CP!Authorization
<1> QED
  BY <1>1, <1>2, <1>3, <1>4 DEF C!UserCall, CP!UserCall

\* A withdrawal does the same in the custody contract of the exchange as alone.
LEMMA SameWithdraw ==
  ASSUME NEW auth \in C!Authorization, C!withdraw(Exchange, auth)
  PROVE  auth \in CP!Authorization /\ CP!withdraw(Exchange, auth)
BY DEF C!withdraw, CP!withdraw, C!debitAndPay, CP!debitAndPay, C!TransferOut, CP!TransferOut,
       C!Delivered, CP!Delivered, C!liveness, CP!liveness, C!Authorization, CP!Authorization

\* So does a settlement.
LEMMA SameSettlement ==
  ASSUME NEW b, NEW deltas, C!applyNetDeltas(Exchange, b, deltas)
  PROVE  CP!applyNetDeltas(Exchange, b, deltas)
BY DEF C!applyNetDeltas, CP!applyNetDeltas, C!recordOperatorActivity, CP!recordOperatorActivity,
       C!Outcome, CP!Outcome, C!Overdraws, CP!Overdraws, C!Running, CP!Running, C!Applied, CP!Applied

\* And every other call.
LEMMA SameRest ==
  ASSUME C!AdminCall \/ C!Tick \/ \E amount \in Amounts : C!Donate(amount)
  PROVE  CP!AdminCall \/ CP!Tick \/ \E amount \in Amounts : CP!Donate(amount)
BY DEF C!AdminCall, CP!AdminCall, C!pause, CP!pause, C!unpause, CP!unpause,
       C!setOperatorInactivityThreshold, CP!setOperatorInactivityThreshold, C!Tick, CP!Tick,
       C!Donate, CP!Donate, C!TransferIn, CP!TransferIn, C!Delivered, CP!Delivered,
       C!funds, CP!funds, C!liveness, CP!liveness

-----------------------------------------------------------------------------
\* The exchange's own types; Custody's come with the refinement.
OwnTypes ==
    /\ exchangePaused \in BOOLEAN
    /\ takerFeeBps \in 0..MaxFeeRate
    /\ makerRebateBps \in 0..MaxFeeRate
    /\ filledAmount \in [Orders -> Nat]
    /\ nonces \in [Users -> Nat]
    /\ settledBatches \subseteq BatchIds
    /\ shares \in [Holdings -> Nat]

\* The fills are only well typed because the loop's states are, and only bounded because the types are:
\* the two are proved together, with the agreement of the two contracts.
IInv == OwnTypes /\ NeverOverfilled /\ BooksAgree

\* Fee rates are within their unit.
LEMMA RatesTyped == OwnTypes => Rates
BY RatesBelowOne, UnitsPositive DEF OwnTypes, Rates

\* The net deltas are a list of amounts, each of an account.
LEMMA NetDeltasType ==
  ASSUME OwnTypes, NEW legs \in Seq(Leg)
  PROVE  netDeltas(legs) \in Seq(Delta(Accounts))
<1> DEFINE end == Loop(legs)[Len(legs)]
<1>1. end \in LoopStates
  <2>1. Len(legs) \in 0..Len(legs)
    OBVIOUS
  <2> QED BY <2>1, RatesTyped, LoopType DEF OwnTypes
<1> HIDE DEF end
<1>2. end.deltas \in Seq(Delta(Accounts)) /\ [account |-> Exchange, amount |-> end.net] \in Delta(Accounts)
  BY <1>1 DEF LoopStates, Delta, Accounts
<1>3. Append(end.deltas, [account |-> Exchange, amount |-> end.net]) \in Seq(Delta(Accounts))
  BY <1>2
<1> QED
  BY <1>3 DEF netDeltas, end

\* Each round of transfers moves shares between holdings.
LEMMA EntriesType ==
  ASSUME NEW legs \in Seq(Leg)
  PROVE  /\ makerEntries(legs, 1, -1) \in Seq(Delta(Holdings))
         /\ exchangeEntries(legs, 1, 1) \in Seq(Delta(Holdings))
         /\ exchangeEntries(legs, 0, -1) \in Seq(Delta(Holdings))
         /\ makerEntries(legs, 0, 1) \in Seq(Delta(Holdings))
<1>1. ASSUME NEW side \in {0, 1}, NEW sign \in {-1, 1}
      PROVE  /\ makerEntries(legs, side, sign) \in Seq(Delta(Holdings))
             /\ exchangeEntries(legs, side, sign) \in Seq(Delta(Holdings))
  <2>1. ASSUME NEW i \in DOMAIN legs
        PROVE  /\ <<legs[i].order.maker, legs[i].order.positionId>> \in Holdings
               /\ <<Exchange, legs[i].order.positionId>> \in Holdings
               /\ sign * fillOf(legs[i], side) \in Int
    <3>1. legs[i] \in Leg
      OBVIOUS
    <3>2. legs[i].order \in Order /\ legs[i].fill \in Nat
      BY <3>1, OrdersTyped DEF Leg
    <3>3. fillOf(legs[i], side) \in Int
      BY <3>2 DEF fillOf
    <3>4. sign * fillOf(legs[i], side) \in Int
      BY <3>3
    <3> QED BY <3>2, <3>4 DEF Order, Holdings, Accounts
  <2>2. DOMAIN legs = 1..Len(legs) /\ Len(legs) \in Nat
    OBVIOUS
  <2>3. makerEntries(legs, side, sign) \in Seq(Delta(Holdings))
    <3> DEFINE e(i) == [account |-> <<legs[i].order.maker, legs[i].order.positionId>>,
                        amount  |-> sign * fillOf(legs[i], side)]
    <3>1. \A i \in DOMAIN legs : e(i) \in Delta(Holdings)
      BY <2>1 DEF Delta
    <3>2. [i \in DOMAIN legs |-> e(i)] \in Seq(Delta(Holdings))
      <4> HIDE DEF e
      <4> QED BY <2>2, <3>1
    <3> QED BY <3>2 DEF makerEntries
  <2>4. exchangeEntries(legs, side, sign) \in Seq(Delta(Holdings))
    <3> DEFINE e(i) == [account |-> <<Exchange, legs[i].order.positionId>>,
                        amount  |-> sign * fillOf(legs[i], side)]
    <3>1. \A i \in DOMAIN legs : e(i) \in Delta(Holdings)
      BY <2>1 DEF Delta
    <3>2. [i \in DOMAIN legs |-> e(i)] \in Seq(Delta(Holdings))
      <4> HIDE DEF e
      <4> QED BY <2>2, <3>1
    <3> QED BY <3>2 DEF exchangeEntries
  <2> QED BY <2>3, <2>4
<1> QED
  BY <1>1

\* So do all four.
LEMMA TransfersType ==
  ASSUME NEW legs \in Seq(Leg)
  PROVE  transfers(legs) \in Seq(Delta(Holdings))
BY EntriesType DEF transfers

\* A settlement leaves every holding of outcome tokens a natural number.
LEMMA SharesType ==
  ASSUME OwnTypes, NEW legs \in Seq(Leg), settleCtf(legs)
  PROVE  shares' \in [Holdings -> Nat]
<1>1. IsFiniteSet(Holdings)
  <2>1. IsFiniteSet(Accounts)
    BY UsersAreFinite, FS_AddElement DEF Accounts
  <2> QED BY <2>1, PositionsAreFinite, FS_Product DEF Holdings
<1>2. shares \in [Holdings -> Nat] /\ transfers(legs) \in Seq(Delta(Holdings))
  BY TransfersType DEF OwnTypes
<1>3. ~ Overdraws(shares, transfers(legs)) /\ shares' = Outcome(shares, transfers(legs)).table
  BY DEF settleCtf
<1>4. Len(transfers(legs)) \in 0..Len(transfers(legs))
  BY <1>2
<1> QED
  BY <1>1, <1>2, <1>3, <1>4, RunningTotal DEF Outcome

-----------------------------------------------------------------------------
\* A settlement, as the exchange and as Custody see it.
LEMMA SettleStep ==
  ASSUME IInv, NEW b \in BatchIds, NEW legs \in Batches, settleBatch(b, legs)
  PROVE  /\ IInv'
         /\ CP!Next
         /\ \A o \in Orders : filledAmount'[o] = filledAmount[o] \/ Live(o)
<1>1. legs \in Seq(Leg) /\ Len(legs) \in 0..Len(legs) /\ OwnTypes /\ Rates
  BY BatchesTyped, RatesTyped DEF IInv
<1> DEFINE end == Loop(legs)[Len(legs)]
<1>2. /\ settledBatches' = settledBatches \cup {b}
      /\ filledAmount' = end.filled
      /\ C!applyNetDeltas(Exchange, b, netDeltas(legs))
      /\ settleCtf(legs)
      /\ UNCHANGED <<exchangePaused, takerFeeBps, makerRebateBps, nonces>>
  BY DEF settleBatch, rates
<1>3. end \in LoopStates
  BY <1>1, LoopType DEF OwnTypes
<1>4. \A o \in Orders : end.filled[o] <= o.amount /\ (end.filled[o] = filledAmount[o] \/ Live(o))
  BY <1>1, LoopFills DEF IInv, OwnTypes, settleBatch
<1> HIDE DEF end
<1>5. OwnTypes'
  <2>1. shares' \in [Holdings -> Nat]
    BY <1>1, <1>2, SharesType
  <2>2. filledAmount' \in [Orders -> Nat]
    BY <1>2, <1>3 DEF LoopStates
  <2> QED BY <1>1, <1>2, <2>1, <2>2 DEF OwnTypes
<1>6. NeverOverfilled'
  BY <1>2, <1>4 DEF NeverOverfilled
<1>7. BooksAgree'
  <2>1. appliedBatches' = appliedBatches \cup {b}
    BY <1>2 DEF C!applyNetDeltas
  <2> QED BY <1>2, <2>1 DEF IInv, BooksAgree
<1>8. CP!Next
  <2>1. CP!applyNetDeltas(Exchange, b, netDeltas(legs))
    BY <1>2, SameSettlement
  <2>2. netDeltas(legs) \in Seq(Delta(Accounts)) /\ Exchange \in Accounts
    BY <1>1, NetDeltasType DEF Accounts
  <2>3. CP!SettlementCall(Exchange)
    BY <2>1, <2>2 DEF CP!SettlementCall
  <2> QED BY <2>2, <2>3 DEF CP!Next
<1> QED
  BY <1>2, <1>4, <1>5, <1>6, <1>7, <1>8 DEF IInv

\* No call of Custody but a settlement touches its books of batches.
LEMMA CustodyKeepsBooks ==
  ASSUME CustodyStep \/ \E auth \in C!Authorization : withdrawFees(auth)
  PROVE  UNCHANGED <<appliedBatches, exchangeVars, shares>>
BY DEF CustodyStep, withdrawFees, C!UserCall, C!AdminCall, C!deposit, C!withdraw,
       C!executeForcedWithdrawal, C!pause, C!unpause, C!setOperatorInactivityThreshold, C!Tick, C!Donate

\* Every step keeps the invariant, is a step of Custody or leaves it alone, and fills only live orders.
LEMMA Step ==
  ASSUME IInv, [Next]_vars
  PROVE  /\ IInv'
         /\ [CP!Next]_CP!custodyVars
         /\ \A o \in Orders : filledAmount'[o] = filledAmount[o] \/ Live(o)
<1> DEFINE Goal == /\ IInv'
                   /\ [CP!Next]_CP!custodyVars
                   /\ \A o \in Orders : filledAmount'[o] = filledAmount[o] \/ Live(o)
<1> USE DEF exchangeVars, rates
<1>1. CASE Settle
  BY <1>1, SettleStep DEF Settle
<1>2. ASSUME NEW a \in Users, cancelAllOrders(a) PROVE Goal
  BY <1>2 DEF cancelAllOrders, custodyVars, CP!custodyVars, IInv, OwnTypes, NeverOverfilled, BooksAgree
<1>3. ASSUME NEW t \in 0..(MaxFeeRate + 1), NEW m \in 0..(MaxFeeRate + 1), setFeeRates(t, m) PROVE Goal
  <2>1. takerFeeBps' \in 0..MaxFeeRate /\ makerRebateBps' \in 0..MaxFeeRate
    BY <1>3, RatesBelowOne DEF setFeeRates
  <2> QED BY <1>3, <2>1 DEF setFeeRates, custodyVars, CP!custodyVars, IInv, OwnTypes, NeverOverfilled,
                            BooksAgree
<1>4. ASSUME NEW auth \in C!Authorization, withdrawFees(auth) PROVE Goal
  <2>1. UNCHANGED <<appliedBatches, exchangeVars, shares>>
    BY <1>4, CustodyKeepsBooks
  <2>2. CP!Next
    <3>1. auth \in CP!Authorization /\ CP!withdraw(Exchange, auth) /\ Exchange \in Accounts
      BY <1>4, SameWithdraw DEF withdrawFees, Accounts
    <3> QED BY <3>1 DEF CP!Next, CP!UserCall
  <2> QED BY <2>1, <2>2 DEF IInv, OwnTypes, NeverOverfilled, BooksAgree
<1>5. CASE pauseExchange \/ unpauseExchange
  BY <1>5 DEF pauseExchange, unpauseExchange, custodyVars, CP!custodyVars, IInv, OwnTypes,
              NeverOverfilled, BooksAgree
<1>6. CASE CustodyStep
  <2>1. UNCHANGED <<appliedBatches, exchangeVars, shares>>
    BY <1>6, CustodyKeepsBooks
  <2>2. CP!Next
    <3>1. CASE \E a \in Users : C!UserCall(a)
      BY <3>1, SameCalls DEF CP!Next, Accounts
    <3>2. CASE C!AdminCall \/ C!Tick \/ \E amount \in Amounts : C!Donate(amount)
      BY <3>2, SameRest DEF CP!Next
    <3> QED BY <1>6, <3>1, <3>2 DEF CustodyStep
  <2> QED BY <2>1, <2>2 DEF IInv, OwnTypes, NeverOverfilled, BooksAgree
<1>7. ASSUME NEW a \in Users, NEW p \in Positions, GiftShare(a, p) PROVE Goal
  <2>1. shares' \in [Holdings -> Nat]
    <3>1. <<a, p>> \in Holdings /\ <<Exchange, p>> \in Holdings /\ <<a, p>> # <<Exchange, p>>
      BY ExchangeIsNoUser DEF Holdings, Accounts
    <3>2. shares \in [Holdings -> Nat] /\ shares[<<a, p>>] > 0
      BY <1>7 DEF GiftShare, IInv, OwnTypes
    <3>3. shares[<<a, p>>] - 1 \in Nat /\ shares[<<Exchange, p>>] + 1 \in Nat
      BY <3>1, <3>2
    <3> QED BY <1>7, <3>1, <3>2, <3>3 DEF GiftShare
  <2> QED BY <1>7, <2>1 DEF GiftShare, custodyVars, CP!custodyVars, IInv, OwnTypes, NeverOverfilled,
                            BooksAgree
<1>8. CASE UNCHANGED vars
  BY <1>8 DEF vars, custodyVars, CP!custodyVars, IInv, OwnTypes, NeverOverfilled, BooksAgree
<1> QED
  BY <1>1, <1>2, <1>3, <1>4, <1>5, <1>6, <1>7, <1>8 DEF Next, ExchangeAdmin

\* The invariant holds before the first call.
LEMMA Initially == Init => IInv /\ CP!Init
<1> SUFFICES ASSUME Init PROVE IInv /\ CP!Init
  OBVIOUS
<1>1. CP!Init
  BY DEF Init, C!Init, CP!Init
<1>2. appliedBatches = {} /\ settledBatches = {}
  BY DEF Init, C!Init
<1>3. OwnTypes
  <2>1. shares \in [Holdings -> Nat] /\ 0 \in 0..MaxFeeRate
    BY SharesTyped, RatesBelowOne, UnitsPositive DEF Init
  <2>2. filledAmount \in [Orders -> Nat] /\ nonces \in [Users -> Nat]
    BY DEF Init
  <2> QED BY <1>2, <2>1, <2>2 DEF Init, OwnTypes
<1>4. NeverOverfilled
  BY OrdersTyped DEF Init, NeverOverfilled, Order
<1> QED
  BY <1>1, <1>2, <1>3, <1>4 DEF IInv, BooksAgree

\* The invariant holds always.
LEMMA Invariance == Spec => []IInv
<1>1. IInv /\ [Next]_vars => IInv'
  BY Step
<1> QED
  BY <1>1, Initially, PTL DEF Spec

\* The exchange together with Custody behaves, as far as Custody's state is concerned, as Custody does
\* with the exchange as the one account that settles.
LEMMA ImplementsCustody == Spec => CP!Spec
<1>1. IInv /\ [Next]_vars => [CP!Next]_CP!custodyVars
  BY Step
<1> QED
  BY <1>1, Invariance, Initially, PTL DEF Spec, CP!Spec

\* What CustodyProofs assumes of its constants holds of the exchange's Custody.
LEMMA CustodyAssumptions ==
    /\ CP!FiniteAccounts /\ CP!ThisIsNoAccount /\ CP!RolesAreAccounts /\ CP!DeltasTyped
    /\ CP!ThresholdBounds /\ CP!AmountsTyped /\ CP!BoundsAreNat
<1>1. IsFiniteSet(Accounts)
  BY UsersAreFinite, FS_AddElement DEF Accounts
<1>2. CP!FiniteAccounts
  BY <1>1 DEF CP!FiniteAccounts, CP!IsFiniteSet, IsFiniteSet
<1>3. CP!ThisIsNoAccount /\ CP!RolesAreAccounts
  BY VaultIsNoAccount DEF CP!ThisIsNoAccount, CP!RolesAreAccounts, Accounts
<1>4. CP!DeltasTyped
  BY DEF CP!DeltasTyped, CP!Delta, Delta
<1>5. CP!ThresholdBounds /\ CP!AmountsTyped /\ CP!BoundsAreNat
  BY CustodyConstants DEF CP!ThresholdBounds, CP!AmountsTyped, CP!BoundsAreNat
<1> QED
  BY <1>2, <1>3, <1>4, <1>5

\* Every reachable state of the two contracts is well typed: no settlement leaves a negative balance or
\* a negative holding of shares.
THEOREM TypeCorrect == Spec => []TypeOK
<1>1. CP!Spec => []CP!TypeOK
  BY CustodyAssumptions, CP!TypeCorrect, PTL
<1>2. CP!TypeOK /\ IInv => TypeOK
  BY DEF CP!TypeOK, C!TypeOK, TypeOK, IInv, OwnTypes
<1> QED
  BY <1>1, <1>2, ImplementsCustody, Invariance, PTL

\* Custody stays solvent however the exchange settles.
THEOREM SolvencyHolds == Spec => []Solvency
<1>1. CP!Spec => []CP!Solvency
  BY CustodyAssumptions, CP!SolvencyHolds, PTL
<1>2. CP!Solvency => Solvency
  BY DEF CP!Solvency, Solvency, C!Solvency, CP!Total, C!Total, CP!Units, C!Units,
         CP!Cardinality, C!Cardinality, CP!IsFiniteSet, C!IsFiniteSet
<1> QED
  BY <1>1, <1>2, ImplementsCustody, PTL

\* No order is ever filled beyond its amount, however its fills are spread over legs and batches.
THEOREM NeverOverfilledHolds == Spec => []NeverOverfilled
BY Invariance, PTL DEF IInv

\* The two contracts always agree on the batches that have happened.
THEOREM BooksAgreeHolds == Spec => []BooksAgree
BY Invariance, PTL DEF IInv

\* An order whose epoch was cancelled or whose deadline has passed is never filled again.
THEOREM DeadOrdersStayDeadHolds == Spec => DeadOrdersStayDead
<1>1. CP!TypeOK /\ IInv /\ [Next]_vars
        => [\A o \in Orders : (o.nonce < nonces[o.maker] \/ o.deadline < now)
                                => filledAmount'[o] = filledAmount[o]]_vars
  <2> SUFFICES ASSUME CP!TypeOK, IInv, [Next]_vars, NEW o \in Orders,
                      o.nonce < nonces[o.maker] \/ o.deadline < now
               PROVE  filledAmount'[o] = filledAmount[o]
    OBVIOUS
  <2>1. filledAmount'[o] = filledAmount[o] \/ Live(o)
    BY Step
  <2>2. o.deadline \in Nat /\ now \in Nat /\ nonces[o.maker] \in Nat
    BY OrdersTyped DEF Order, CP!TypeOK, IInv, OwnTypes
  <2>3. ~ Live(o)
    BY <2>2 DEF Live
  <2> QED BY <2>1, <2>3
<1>2. CP!Spec => []CP!TypeOK
  BY CustodyAssumptions, CP!TypeCorrect, PTL
<1> QED
  BY <1>1, <1>2, ImplementsCustody, Invariance, PTL DEF Spec, DeadOrdersStayDead

-----------------------------------------------------------------------------
\* Accruing gives no account a second entry.
LEMMA AccrueApart ==
  ASSUME NEW A, NEW deltas \in Seq(Delta(A)), Apart(deltas), NEW account \in A, NEW amount \in Int
  PROVE  Apart(accrue(deltas, account, amount))
<1> DEFINE q == accrue(deltas, account, amount)
           new == [account |-> account, amount |-> amount]
<1>0. DOMAIN deltas = 1..Len(deltas) /\ Len(deltas) \in Nat /\ \A i \in DOMAIN deltas : deltas[i] \in Delta(A)
  OBVIOUS
<1>1. CASE \E i \in DOMAIN deltas : deltas[i].account = account
  <2>1. q = [i \in DOMAIN deltas |-> IF deltas[i].account = account
                                     THEN [deltas[i] EXCEPT !.amount = deltas[i].amount + amount] ELSE deltas[i]]
    BY <1>1 DEF accrue
  <2>2. DOMAIN q = DOMAIN deltas
    BY <2>1
  <2>3. ASSUME NEW i \in DOMAIN deltas PROVE q[i].account = deltas[i].account
    BY <1>0, <2>1 DEF Delta
  <2> HIDE DEF q
  <2> QED BY <2>2, <2>3 DEF Apart, q
<1>2. CASE ~ \E i \in DOMAIN deltas : deltas[i].account = account
  <2>1. q = Append(deltas, new)
    BY <1>2 DEF accrue
  <2>2. /\ DOMAIN q = 1..(Len(deltas) + 1)
        /\ \A i \in DOMAIN deltas : q[i] = deltas[i]
        /\ q[Len(deltas) + 1] = new
    <3>1. new \in Delta(A)
      BY DEF Delta
    <3> HIDE DEF new
    <3> QED BY <1>0, <2>1, <3>1
  <2>3. new.account = account
    OBVIOUS
  <2> HIDE DEF q, new
  <2> QED BY <1>0, <1>2, <2>2, <2>3 DEF Apart, q
<1> QED
  BY <1>1, <1>2

\* The legs leave at most one entry per user, and none for the exchange.
LEMMA LoopApart ==
  ASSUME Rates, filledAmount \in [Orders -> Nat], NEW legs \in Seq(Leg), NEW n \in 0..Len(legs)
  PROVE  Loop(legs)[n].deltas \in Seq(Delta(Users)) /\ Apart(Loop(legs)[n].deltas)
<1> DEFINE r == Loop(legs)
           Holds(k) == r[k].deltas \in Seq(Delta(Users)) /\ Apart(r[k].deltas)
           S == {k \in 0..Len(legs) : Holds(k)}
<1>0. Len(legs) \in Nat
  OBVIOUS
<1>1. IsLoop(r, legs, Len(legs)) /\ \A k \in 0..Len(legs) : r[k] \in LoopStates
  BY <1>0, LoopDef, LoopType
<1> HIDE DEF r
<1>2. 0 \in S
  <2>1. r[0].deltas = << >>
    BY <1>1 DEF IsLoop
  <2>2. << >> \in Seq(Delta(Users)) /\ Apart(<< >>)
    BY DEF Apart
  <2>3. Holds(0) /\ 0 \in 0..Len(legs)
    BY <1>0, <2>1, <2>2
  <2> HIDE DEF Holds
  <2> QED BY <2>3
<1>3. ASSUME NEW k \in 1..Len(legs), k - 1 \in S PROVE k \in S
  <2>1. k \in 0..Len(legs) /\ Holds(k-1) /\ r[k] = afterLeg(r[k-1], legs[k]) /\ legs[k] \in Leg
    <3>1. r[k] = afterLeg(r[k-1], legs[k])
      BY <1>1 DEF IsLoop
    <3>2. k \in 0..Len(legs) /\ legs[k] \in Leg
      BY <1>0
    <3>3. Holds(k-1)
      BY <1>3
    <3> HIDE DEF Holds
    <3> QED BY <3>1, <3>2, <3>3
  <2>2. legs[k].order.maker \in Users /\ credit(legs[k]) \in Int
    BY <2>1, CreditType, OrdersTyped DEF Leg, Order
  <2>3. CASE legs[k].fill = 0
    BY <2>1, <2>3 DEF afterLeg
  <2>4. CASE legs[k].fill # 0
    <3>1. r[k].deltas = accrue(r[k-1].deltas, legs[k].order.maker, credit(legs[k]))
      BY <2>1, <2>4 DEF afterLeg
    <3> QED BY <2>1, <2>2, <3>1, AccrueType, AccrueApart
  <2> QED BY <2>3, <2>4
<1>4. \A k \in 0..Len(legs) : k \in S
  <2> HIDE DEF S
  <2> QED BY <1>0, <1>2, <1>3, UpTo
<1> QED
  BY <1>4 DEF r

\* So do the deltas of the batch, the last of which is the exchange's.
LEMMA NetDeltasApart ==
  ASSUME Rates, filledAmount \in [Orders -> Nat], NEW legs \in Seq(Leg)
  PROVE  /\ netDeltas(legs) \in Seq(Delta(Accounts))
         /\ Apart(netDeltas(legs))
         /\ Len(netDeltas(legs)) \in 1..Len(netDeltas(legs))
         /\ netDeltas(legs)[Len(netDeltas(legs))] = [account |-> Exchange, amount |-> Loop(legs)[Len(legs)].net]
         /\ Loop(legs)[Len(legs)].net \in Int
         /\ Loop(legs)[Len(legs)].deltas \in Seq(Delta(Users))
<1> DEFINE d == Loop(legs)[Len(legs)].deltas
           x == [account |-> Exchange, amount |-> Loop(legs)[Len(legs)].net]
           q == netDeltas(legs)
<1>0. Len(legs) \in 0..Len(legs)
  OBVIOUS
<1>1. d \in Seq(Delta(Users)) /\ Apart(d)
  BY <1>0, LoopApart
<1>2. d \in Seq(Delta(Accounts)) /\ Loop(legs)[Len(legs)].net \in Int
  BY <1>0, LoopType DEF LoopStates
<1>3. x \in Delta(Accounts) /\ x.account = Exchange
  BY <1>2 DEF Delta, Accounts
<1>4. q = Append(d, x)
  BY DEF netDeltas
<1> HIDE DEF d, x, q
<1>5. /\ q \in Seq(Delta(Accounts)) /\ Len(d) \in Nat /\ Len(q) = Len(d) + 1
      /\ DOMAIN q = 1..Len(q) /\ DOMAIN d = 1..Len(d)
      /\ q[Len(q)] = x /\ \A i \in DOMAIN d : q[i] = d[i]
  BY <1>1, <1>2, <1>3, <1>4
<1>6. \A i \in DOMAIN d : d[i].account # Exchange
  <2>1. \A i \in DOMAIN d : d[i] \in Delta(Users)
    BY <1>1, <1>5
  <2> QED BY <2>1, ExchangeIsNoUser DEF Delta
<1>7. Apart(q)
  <2> SUFFICES ASSUME NEW i \in DOMAIN q, NEW j \in DOMAIN q, q[i].account = q[j].account PROVE i = j
    BY DEF Apart
  <2>1. (i \in DOMAIN d \/ i = Len(q)) /\ (j \in DOMAIN d \/ j = Len(q))
    BY <1>5
  <2> QED BY <1>1, <1>3, <1>5, <1>6, <2>1 DEF Apart
<1>8. Len(q) \in 1..Len(q)
  BY <1>5
<1> QED
  BY <1>1, <1>2, <1>5, <1>7, <1>8 DEF q, x, d

\* Every balance after a batch is the balance before and the account's delta.
LEMMA Overdrafts ==
  ASSUME Rates, filledAmount \in [Orders -> Nat], balances \in [Accounts -> Nat], NEW legs \in Seq(Leg),
         Overdraws(balances, netDeltas(legs))
  PROVE  \E a \in Accounts : Outcome(balances, netDeltas(legs)).table[a] < 0
<1> DEFINE q == netDeltas(legs)
<1>1. q \in Seq(Delta(Accounts)) /\ Apart(q)
  BY NetDeltasApart
<1>2. PICK i \in 1..Len(q) : Running(balances, q)[i].table[q[i].account] < 0
  BY DEF Overdraws
<1> DEFINE k == q[i].account
<1> HIDE DEF q
<1>3. Len(q) \in Nat /\ q[i] \in Delta(Accounts) /\ i \in i..Len(q) /\ Len(q) \in i..Len(q)
  BY <1>1
<1>4. k \in Accounts /\ balances \in [Accounts -> Int] /\ q[i].account = k
  BY <1>3 DEF Delta
<1>5. Running(balances, q)[i].table[k] < 0
  BY <1>2
<1> HIDE DEF k
<1>6. \A n \in i..Len(q) : Running(balances, q)[n].table[k] = balances[k] + q[i].amount
  <2>1. i \in 1..Len(q)
    BY <1>2
  <2>2. \A j \in 1..Len(q) : q[j].account = k =>
           \A n \in j..Len(q) : Running(balances, q)[n].table[k] = balances[k] + q[j].amount
    BY <1>1, <1>4, RunningApart
  <2> QED BY <1>4, <2>1, <2>2
<1>7. Outcome(balances, q).table[k] < 0
  BY <1>3, <1>5, <1>6 DEF Outcome
<1> QED
  BY <1>4, <1>7 DEF q

\* Custody applies the deltas in order.  Whatever the order of the legs, a batch whose accounts all end
\* with enough is not refused for an overdraft on the way.
THEOREM NoTransientOverdraftHolds == Spec => []NoTransientOverdraft
<1>1. TypeOK => NoTransientOverdraft
  BY RatesTyped, Overdrafts, BatchesTyped DEF TypeOK, C!TypeOK, OwnTypes, NoTransientOverdraft
<1> QED
  BY <1>1, TypeCorrect, PTL

-----------------------------------------------------------------------------
\* The instance of Custody applies deltas as the ledger does.
LEMMA SameOutcome ==
  /\ \A bal, deltas : C!Outcome(bal, deltas) = Outcome(bal, deltas)
  /\ \A bal, deltas : C!Overdraws(bal, deltas) <=> Overdraws(bal, deltas)
BY DEF C!Outcome, Outcome, C!Overdraws, Overdraws, C!Running, Running, C!Applied, Applied

\* A settlement changes the exchange's balance by the net of its legs.
LEMMA SettledNet ==
  ASSUME TypeOK, NEW b, NEW legs \in Batches, settleBatch(b, legs)
  PROVE  \E n \in Nat : balances'[Exchange] = balances[Exchange] + n
<1> DEFINE q == netDeltas(legs)
           net == Loop(legs)[Len(legs)].net
<1>1. balances \in [Accounts -> Nat] /\ Rates /\ filledAmount \in [Orders -> Nat] /\ legs \in Seq(Leg)
  BY RatesTyped, BatchesTyped DEF TypeOK, C!TypeOK, OwnTypes
<1>2. net >= 0 /\ balances' = Outcome(balances, q).table
  BY SameOutcome DEF settleBatch, C!applyNetDeltas
<1>3. /\ q \in Seq(Delta(Accounts)) /\ Apart(q) /\ Len(q) \in 1..Len(q) /\ net \in Int
      /\ q[Len(q)] = [account |-> Exchange, amount |-> net]
  BY <1>1, NetDeltasApart
<1> HIDE DEF q, net
<1>4. /\ q[Len(q)].account = Exchange /\ q[Len(q)].amount = net /\ Len(q) \in Len(q)..Len(q)
      /\ Exchange \in Accounts /\ balances \in [Accounts -> Int] /\ balances[Exchange] \in Nat
  BY <1>1, <1>3 DEF Accounts
<1>5. Running(balances, q)[Len(q)].table[Exchange] = balances[Exchange] + net
  BY <1>3, <1>4, RunningApart, SMTT(30)
<1> QED
  BY <1>2, <1>3, <1>4, <1>5 DEF Outcome

\* The fees collected leave the exchange's balance only through withdrawFees, never in a settlement.
THEOREM FeesNeverSpentHolds == Spec => FeesNeverSpent
<1> DEFINE Paid == withdrawalNonce'[Exchange] = withdrawalNonce[Exchange] + 1
<1>1. TypeOK /\ [Next]_vars => [balances'[Exchange] < balances[Exchange] => Paid]_vars
  <2> SUFFICES ASSUME TypeOK, Next, balances'[Exchange] < balances[Exchange] PROVE Paid
    BY DEF vars
  <2>0. /\ balances \in [Accounts -> Nat] /\ withdrawalNonce \in [Accounts -> Nat]
        /\ Exchange \in Accounts /\ balances[Exchange] \in Nat
    BY DEF TypeOK, C!TypeOK, Accounts
  <2>1. ASSUME NEW b \in BatchIds, NEW legs \in Batches, settleBatch(b, legs)
        PROVE  FALSE
    <3>1. PICK n \in Nat : balances'[Exchange] = balances[Exchange] + n
      BY <2>1, SettledNet
    <3> QED BY <2>0, <3>1
  <2>2. ASSUME NEW auth \in C!Authorization, withdrawFees(auth)
        PROVE  Paid
    BY <2>0, <2>2 DEF withdrawFees, C!withdraw
  <2>3. ASSUME NEW a \in Users, C!UserCall(a)
        PROVE  FALSE
    <3>1. a # Exchange
      BY ExchangeIsNoUser
    <3>2. balances'[Exchange] = balances[Exchange]
      BY <2>0, <2>3, <3>1 DEF C!UserCall, C!deposit, C!withdraw, C!executeForcedWithdrawal, C!debitAndPay
    <3> QED BY <2>0, <3>2
  <2>4. CASE UNCHANGED balances
    BY <2>0, <2>4
  <2>5. CASE \/ \E a \in Users : cancelAllOrders(a)
             \/ pauseExchange \/ unpauseExchange \/ \E t, m \in 0..(MaxFeeRate + 1) : setFeeRates(t, m)
             \/ \E a \in Users, p \in Positions : GiftShare(a, p)
    BY <2>4, <2>5 DEF cancelAllOrders, pauseExchange, unpauseExchange, setFeeRates, GiftShare, custodyVars
  <2>6. CASE C!AdminCall \/ C!Tick \/ \E amount \in Amounts : C!Donate(amount)
    BY <2>4, <2>6 DEF C!AdminCall, C!pause, C!unpause, C!setOperatorInactivityThreshold, C!Tick, C!Donate, C!funds
  <2> QED
    BY <2>1, <2>2, <2>3, <2>5, <2>6 DEF Next, Settle, ExchangeAdmin, CustodyStep
<1> QED
  BY <1>1, TypeCorrect, PTL DEF Spec, FeesNeverSpent

-----------------------------------------------------------------------------
\* A product of natural numbers is one, and grows with its factors.
LEMMA Times ==
  ASSUME NEW a \in Nat, NEW b \in Nat, NEW c \in Nat, a <= b
  PROVE  a * c \in Nat /\ a * c <= b * c
OBVIOUS

\* A product with a positive factor d is below d only if the other factor is not positive.
LEMMA BelowOne ==
  ASSUME NEW d \in Nat \ {0}, NEW k \in Int, d * k < d
  PROVE  k <= 0
<1> SUFFICES ASSUME k >= 1 PROVE d * k >= d
  OBVIOUS
<1> QED OBVIOUS

\* What a quotient is.
LEMMA Quotient ==
  ASSUME NEW n \in Nat, NEW d \in Nat \ {0}
  PROVE  /\ n \div d \in Nat
         /\ d * (n \div d) <= n
         /\ n < d * (n \div d) + d
OBVIOUS

\* Of two numbers the one whose product with d is smaller is smaller.
LEMMA Cancel ==
  ASSUME NEW d \in Nat \ {0}, NEW x \in Int, NEW y \in Int, d * x <= d * y
  PROVE  x <= y
<1>1. x - y \in Int /\ d * (x - y) = d * x - d * y /\ d * x \in Int /\ d * y \in Int
  OBVIOUS
<1>2. d * (x - y) < d
  BY <1>1
<1>3. x - y <= 0
  BY <1>1, <1>2, BelowOne
<1> QED
  BY <1>3

\* A rounded-up quotient is not below what it rounds.
LEMMA CeilCovers ==
  ASSUME NEW n \in Nat, NEW d \in Nat \ {0}
  PROVE  CeilDiv(n, d) \in Nat /\ n <= d * CeilDiv(n, d)
<1> DEFINE e == (n + (d - 1)) \div d
<1>1. n + (d - 1) \in Nat
  OBVIOUS
<1>2. e \in Nat /\ n + (d - 1) < d * e + d
  BY <1>1, Quotient
<1> HIDE DEF e
<1>3. d * e \in Int
  BY <1>2
<1>4. n <= d * e
  BY <1>2, <1>3
<1> QED
  BY <1>2, <1>4 DEF CeilDiv, e

\* The purchase pays at least what the sale of the same shares brings, whatever is rounded.
LEMMA VolumesCross ==
  ASSUME NEW p \in Nat, NEW s \in Nat, s <= p, NEW f \in Nat
  PROVE  /\ CeilDiv(f * p, PriceUnit) \in Nat /\ (f * s) \div PriceUnit \in Nat
         /\ (f * s) \div PriceUnit <= CeilDiv(f * p, PriceUnit)
<1> DEFINE x == (f * s) \div PriceUnit
           y == CeilDiv(f * p, PriceUnit)
<1>0. PriceUnit \in Nat \ {0}
  BY UnitsPositive
<1>1. f * s \in Nat /\ f * p \in Nat /\ f * s <= f * p
  <2>1. s * f \in Nat /\ p * f \in Nat /\ s * f <= p * f
    BY Times
  <2> QED BY <2>1
<1>2. x \in Nat /\ y \in Nat /\ PriceUnit * x <= f * s /\ f * p <= PriceUnit * y
  BY <1>0, <1>1, Quotient, CeilCovers
<1> HIDE DEF x, y
<1>3. PriceUnit * x \in Int /\ PriceUnit * y \in Int
  BY <1>0, <1>2
<1>4. PriceUnit * x <= PriceUnit * y
  BY <1>1, <1>2, <1>3
<1>5. x <= y
  BY <1>0, <1>2, <1>4, Cancel
<1> QED
  BY <1>2, <1>5 DEF x, y

\* What the rebate on one side may exceed the fee on the other by, when the rebate's rate is no larger.
LEMMA RebateFunded ==
  ASSUME NEW u \in Nat, NEW v \in Nat, NEW rebate \in Nat, NEW rate \in Nat,
         rebate <= rate, rebate <= FeeUnit
  PROVE  /\ (u * rebate) \div FeeUnit \in Nat /\ CeilDiv(v * rate, FeeUnit) \in Nat
         /\ u <= v => (u * rebate) \div FeeUnit <= CeilDiv(v * rate, FeeUnit)
         /\ v <= u => (u * rebate) \div FeeUnit <= CeilDiv(v * rate, FeeUnit) + (u - v)
<1> DEFINE x == (u * rebate) \div FeeUnit
           y == CeilDiv(v * rate, FeeUnit)
<1>0. FeeUnit \in Nat \ {0}
  BY UnitsPositive
<1>1. u * rebate \in Nat /\ v * rate \in Nat /\ v * rebate \in Nat
  OBVIOUS
<1>2. x \in Nat /\ y \in Nat /\ FeeUnit * x <= u * rebate /\ v * rate <= FeeUnit * y
  BY <1>0, <1>1, Quotient, CeilCovers
<1>3. v * rebate <= v * rate
  <2>1. rebate * v <= rate * v
    BY Times
  <2> QED BY <2>1
<1> HIDE DEF x, y
<1>4. FeeUnit * x \in Int /\ FeeUnit * y \in Int
  BY <1>0, <1>2
<1>5. ASSUME u <= v PROVE x <= y
  <2>1. u * rebate <= v * rebate
    BY <1>5, Times
  <2>2. FeeUnit * x <= FeeUnit * y
    BY <1>1, <1>2, <1>3, <1>4, <2>1
  <2> QED BY <1>0, <1>2, <2>2, Cancel
<1>6. ASSUME v <= u PROVE x <= y + (u - v)
  <2>1. u - v \in Nat /\ u * rebate = v * rebate + (u - v) * rebate
    BY <1>6
  <2>2. (u - v) * rebate \in Nat /\ FeeUnit * (u - v) \in Nat /\ (u - v) * rebate <= FeeUnit * (u - v)
    <3> DEFINE k == u - v
    <3>1. k \in Nat
      BY <2>1
    <3> HIDE DEF k
    <3>2. rebate * k \in Nat /\ FeeUnit * k \in Nat /\ rebate * k <= FeeUnit * k
      BY <1>0, <3>1, Times
    <3>3. k * rebate = rebate * k
      BY <3>1
    <3> QED BY <3>2, <3>3 DEF k
  <2>3. FeeUnit * (y + (u - v)) = FeeUnit * y + FeeUnit * (u - v)
    BY <1>0, <1>2, <2>1
  <2>4. FeeUnit * x <= FeeUnit * (y + (u - v))
    BY <1>1, <1>2, <1>3, <1>4, <2>1, <2>2, <2>3
  <2>5. y + (u - v) \in Int
    BY <1>2, <2>1
  <2> QED BY <1>0, <1>2, <2>4, <2>5, Cancel
<1> QED
  BY <1>2, <1>5, <1>6 DEF x, y

\* The net of two legs that are both filled.
LEMMA NetOfTwo ==
  ASSUME OwnTypes, NEW x \in Leg, NEW y \in Leg, x.fill # 0, y.fill # 0
  PROVE  Loop(<<x, y>>)[2].net = 0 - credit(x) - credit(y)
<1> DEFINE legs == <<x, y>>
           r == Loop(legs)
<1>1. legs \in Seq(Leg) /\ Len(legs) = 2 /\ legs[1] = x /\ legs[2] = y
  OBVIOUS
<1> HIDE DEF legs
<1>2. IsLoop(r, legs, 2)
  <2>1. Len(legs) \in Nat
    BY <1>1
  <2>2. IsLoop(Loop(legs), legs, Len(legs))
    BY <2>1, LoopDef
  <2> QED BY <1>1, <2>2
<1> HIDE DEF r
<1>3. r[0].net = 0 /\ r[1] = afterLeg(r[0], x) /\ r[2] = afterLeg(r[1], y)
  <2>1. \A i \in 1..2 : r[i] = afterLeg(r[i-1], legs[i])
    BY <1>2 DEF IsLoop
  <2>2. r[1] = afterLeg(r[0], legs[1]) /\ r[2] = afterLeg(r[1], legs[2])
    BY <2>1
  <2>3. r[0].net = 0
    BY <1>2 DEF IsLoop
  <2> QED BY <1>1, <2>2, <2>3
<1>4. r[1].net = 0 - credit(x) /\ r[2].net = r[1].net - credit(y)
  BY <1>3 DEF afterLeg
<1> QED
  BY <1>4 DEF r, legs

\* Filling two orders that cross never costs the protocol anything while the rebate is no larger than
\* the fee, for every rounding unit and either of them the maker's.
LEMMA MatchFunds ==
  ASSUME OwnTypes, makerRebateBps <= takerFeeBps, NEW buy \in Orders, NEW sell \in Orders,
         NEW m \in BOOLEAN, NEW f \in 1..buy.amount, Crossing(buy, sell)
  PROVE  Loop(<<[order |-> buy, fill |-> f, isMaker |-> m],
                [order |-> sell, fill |-> f, isMaker |-> ~m]>>)[2].net >= 0
<1> DEFINE x == [order |-> buy, fill |-> f, isMaker |-> m]
           y == [order |-> sell, fill |-> f, isMaker |-> ~m]
           u == CeilDiv(f * buy.price, PriceUnit)
           v == (f * sell.price) \div PriceUnit
<1>1. /\ buy.amount \in Nat /\ buy.price \in Nat /\ sell.price \in Nat /\ f \in Nat \ {0}
      /\ buy.side = 0 /\ sell.side = 1 /\ sell.price <= buy.price
  BY OrdersTyped DEF Order, Crossing
<1>2. x \in Leg /\ y \in Leg
  BY <1>1 DEF Leg
<1>3. u \in Nat /\ v \in Nat /\ v <= u
  BY <1>1, VolumesCross
<1>4. volume(x) = u /\ volume(y) = v
  BY <1>1 DEF volume
<1>5. /\ takerFeeBps \in Nat /\ makerRebateBps \in Nat /\ makerRebateBps <= FeeUnit /\ FeeUnit \in Nat
  BY RatesBelowOne, UnitsPositive DEF OwnTypes
<1>6. credit(x) = -(u + fee(x)) /\ credit(y) = v - fee(y)
  BY <1>1, <1>4 DEF credit
<1>7. Loop(<<x, y>>)[2].net = 0 - credit(x) - credit(y)
  <2>1. x.fill # 0 /\ y.fill # 0
    BY <1>1
  <2> HIDE DEF x, y
  <2> QED BY <1>2, <2>1, NetOfTwo
<1>8. CASE m
  <2>1. fee(x) = -((u * makerRebateBps) \div FeeUnit) /\ fee(y) = CeilDiv(v * takerFeeBps, FeeUnit)
    BY <1>4, <1>8 DEF fee
  <2>2. /\ (u * makerRebateBps) \div FeeUnit \in Nat /\ CeilDiv(v * takerFeeBps, FeeUnit) \in Nat
        /\ (u * makerRebateBps) \div FeeUnit <= CeilDiv(v * takerFeeBps, FeeUnit) + (u - v)
    BY <1>3, <1>5, RebateFunded
  <2> HIDE DEF x, y, u, v
  <2>3. Loop(<<x, y>>)[2].net >= 0
    BY <1>3, <1>6, <1>7, <2>1, <2>2
  <2> QED BY <2>3 DEF x, y
<1>9. CASE ~m
  <2>1. fee(y) = -((v * makerRebateBps) \div FeeUnit) /\ fee(x) = CeilDiv(u * takerFeeBps, FeeUnit)
    BY <1>4, <1>9 DEF fee
  <2>2. /\ (v * makerRebateBps) \div FeeUnit \in Nat /\ CeilDiv(u * takerFeeBps, FeeUnit) \in Nat
        /\ (v * makerRebateBps) \div FeeUnit <= CeilDiv(u * takerFeeBps, FeeUnit)
    BY <1>3, <1>5, RebateFunded
  <2> HIDE DEF x, y, u, v
  <2>3. Loop(<<x, y>>)[2].net >= 0
    BY <1>3, <1>6, <1>7, <2>1, <2>2
  <2> QED BY <2>3 DEF x, y
<1> QED
  BY <1>8, <1>9

\* While the rebate is no larger than the fee, filling two orders that cross, either of them the maker's,
\* never costs the protocol anything, whatever the rounding.
THEOREM MatchesFundTheirRebateHolds == Spec => []MatchesFundTheirRebate
<1>1. IInv => MatchesFundTheirRebate
  BY MatchFunds DEF IInv, MatchesFundTheirRebate
<1> QED
  BY <1>1, Invariance, PTL

-----------------------------------------------------------------------------
\* The orders of a user on one side of one position, and what the first k legs fill of them.
OrdersOf(a, p, side) == {o \in Orders : o.maker = a /\ o.positionId = p /\ o.side = side}
Gained(legs, k, a, p, side) ==
    Total([o \in OrdersOf(a, p, side) |-> Loop(legs)[k].filled[o] - filledAmount[o]])

\* No leg takes anything back from what has been filled.
LEMMA LoopGrows ==
  ASSUME OwnTypes, NEW legs \in Seq(Leg), NEW n \in 0..Len(legs), NEW o \in Orders
  PROVE  Loop(legs)[n].filled[o] - filledAmount[o] \in Nat
<1> DEFINE r == Loop(legs)
           S == {k \in 0..Len(legs) : r[k].filled[o] - filledAmount[o] \in Nat}
<1>0. Len(legs) \in Nat /\ filledAmount[o] \in Nat /\ filledAmount \in [Orders -> Nat] /\ Rates
  BY RatesTyped DEF OwnTypes
<1>1. IsLoop(r, legs, Len(legs)) /\ \A k \in 0..Len(legs) : r[k] \in LoopStates
  BY <1>0, LoopDef, LoopType
<1> HIDE DEF r
<1>2. 0 \in S
  <2>1. r[0].filled = filledAmount
    BY <1>1 DEF IsLoop
  <2> QED BY <1>0, <2>1
<1>3. ASSUME NEW k \in 1..Len(legs), k - 1 \in S PROVE k \in S
  <2>1. k \in 0..Len(legs) /\ k - 1 \in 0..Len(legs) /\ legs[k] \in Leg
    BY <1>0
  <2>2. r[k] = afterLeg(r[k-1], legs[k]) /\ r[k-1] \in LoopStates
    BY <1>1, <2>1 DEF IsLoop
  <2>3. r[k].filled[o] = IF legs[k].fill # 0 /\ o = legs[k].order THEN r[k-1].filled[o] + legs[k].fill
                                                                  ELSE r[k-1].filled[o]
    BY <1>0, <2>1, <2>2, AfterLegType, SMTT(30)
  <2>4. legs[k].fill \in Nat /\ r[k-1].filled[o] \in Nat /\ r[k-1].filled[o] - filledAmount[o] \in Nat
    BY <1>3, <2>1, <2>2 DEF Leg, LoopStates
  <2> DEFINE x == r[k].filled[o]
             y == r[k-1].filled[o]
             z == filledAmount[o]
             w == legs[k].fill
  <2>5. (x = y + w \/ x = y) /\ y \in Nat /\ y - z \in Nat /\ w \in Nat /\ z \in Nat
    BY <1>0, <2>3, <2>4
  <2> HIDE DEF x, y, z, w
  <2>6. x - z \in Nat
    BY <2>5
  <2> QED BY <2>1, <2>6 DEF x, z
<1>4. \A k \in 0..Len(legs) : k \in S
  <2> HIDE DEF S
  <2> QED BY <1>0, <1>2, <1>3, UpTo
<1> QED
  BY <1>4 DEF r

\* What a batch fills of a user's orders on one side of one position grows leg by leg.
Tally(legs, a, p, side) ==
    /\ Gained(legs, 0, a, p, side) = 0
    /\ \A k \in 0..Len(legs) : Gained(legs, k, a, p, side) \in Nat
    /\ \A k \in 1..Len(legs) :
         Gained(legs, k, a, p, side)
           = Gained(legs, k-1, a, p, side)
               + IF <<legs[k].order.maker, legs[k].order.positionId>> = <<a, p>>
                 THEN fillOf(legs[k], side) ELSE 0

\* A leg adds its fill to what its maker gains on its side of its position, and to nothing else.
LEMMA GainedSteps ==
  ASSUME OwnTypes, NEW legs \in Seq(Leg), NEW a, NEW p, NEW side \in Nat
  PROVE  Tally(legs, a, p, side)
<1> DEFINE r == Loop(legs)
           A == OrdersOf(a, p, side)
           f(k) == [o \in A |-> r[k].filled[o] - filledAmount[o]]
<1>0. Len(legs) \in Nat /\ filledAmount \in [Orders -> Nat] /\ Rates
  BY RatesTyped DEF OwnTypes
<1>1. IsLoop(r, legs, Len(legs)) /\ \A k \in 0..Len(legs) : r[k] \in LoopStates
  BY <1>0, LoopDef, LoopType
<1>2. \A k \in 0..Len(legs), o \in Orders : r[k].filled[o] - filledAmount[o] \in Nat
  BY LoopGrows
<1>3. IsFiniteSet(A) /\ A \subseteq Orders
  BY OrdersAreFinite, FS_Subset DEF OrdersOf
<1>4. \A k : Gained(legs, k, a, p, side) = Total(f(k))
  BY DEF Gained
<1> HIDE DEF r
<1>5. \A k \in 0..Len(legs) : f(k) \in [A -> Nat]
  BY <1>2, <1>3
<1>6. Total(f(0)) = 0
  <2>1. \A o \in A : r[0].filled[o] - filledAmount[o] = 0
    BY <1>0, <1>1, <1>3 DEF IsLoop
  <2>2. f(0) = [o \in A |-> 0]
    BY <2>1
  <2> QED BY <2>2, TotalOfZeros
<1>7. ASSUME NEW k \in 0..Len(legs) PROVE Total(f(k)) \in Nat
  <2>1. f(k) \in [A -> Nat]
    BY <1>5
  <2> HIDE DEF f, A
  <2> QED BY <1>3, <2>1, UnitsFinite
<1>8. ASSUME NEW k \in 1..Len(legs)
      PROVE  Total(f(k)) = Total(f(k-1)) + IF <<legs[k].order.maker, legs[k].order.positionId>> = <<a, p>>
                                           THEN fillOf(legs[k], side) ELSE 0
  <2> DEFINE x == legs[k].order
             n == f(k-1)[x] + legs[k].fill
  <2>1. k \in 0..Len(legs) /\ k - 1 \in 0..Len(legs) /\ legs[k] \in Leg /\ x \in Orders /\ legs[k].fill \in Nat
    <3>1. k \in 0..Len(legs) /\ k - 1 \in 0..Len(legs) /\ legs[k] \in Leg
      BY <1>0
    <3> QED BY <3>1 DEF Leg
  <2>2. r[k] = afterLeg(r[k-1], legs[k]) /\ r[k-1] \in LoopStates
    BY <1>1, <2>1 DEF IsLoop
  <2>3. ASSUME NEW o \in Orders
        PROVE  r[k].filled[o] - filledAmount[o] = (r[k-1].filled[o] - filledAmount[o]) +
                 IF o = x THEN legs[k].fill ELSE 0
    <3>1. r[k].filled[o] = IF legs[k].fill # 0 /\ o = x THEN r[k-1].filled[o] + legs[k].fill
                                                        ELSE r[k-1].filled[o]
      BY <1>0, <2>1, <2>2, AfterLegType, SMTT(30)
    <3>2. r[k-1].filled[o] \in Nat /\ filledAmount[o] \in Nat
      BY <1>0, <2>2 DEF LoopStates
    <3> DEFINE y == r[k-1].filled[o]
               z == filledAmount[o]
               w == legs[k].fill
    <3>3. y \in Nat /\ z \in Nat /\ w \in Nat
      BY <2>1, <3>2
    <3>4. CASE o = x
      <4>1. r[k].filled[o] = y + w
        BY <2>1, <3>1, <3>2, <3>4
      <4>2. (y + w) - z = (y - z) + w
        <5> HIDE DEF y, z, w
        <5> QED BY <3>3
      <4> QED BY <3>4, <4>1, <4>2
    <3>5. CASE o # x
      <4>1. r[k].filled[o] = y
        BY <3>1, <3>5
      <4>2. y - z = (y - z) + 0
        <5> HIDE DEF y, z
        <5> QED BY <3>3
      <4> QED BY <3>5, <4>1, <4>2
    <3> QED BY <3>4, <3>5
  <2>4. x \in A <=> <<x.maker, x.positionId>> = <<a, p>> /\ x.side = side
    BY <2>1 DEF OrdersOf
  <2>5. f(k-1) \in [A -> Nat] /\ Total(f(k-1)) \in Nat
    BY <1>5, <1>7, <2>1
  <2>6. CASE x \in A
    <3>1. n \in Nat /\ f(k-1)[x] \in Nat
      BY <2>1, <2>5, <2>6
    <3>2. f(k) = [f(k-1) EXCEPT ![x] = n]
      <4>1. ASSUME NEW o \in A PROVE f(k)[o] = IF o = x THEN n ELSE f(k-1)[o]
        <5>1. /\ f(k)[o] = f(k-1)[o] + IF o = x THEN legs[k].fill ELSE 0
              /\ f(k-1)[o] \in Nat
          BY <1>2, <1>3, <2>1, <2>3 DEF r
        <5> HIDE DEF f
        <5> QED BY <5>1
      <4>2. f(k) \in [A -> Nat]
        BY <1>5, <2>1
      <4> HIDE DEF f, A, n
      <4> QED BY <2>5, <2>6, <4>1, <4>2
    <3>3. Total([f(k-1) EXCEPT ![x] = n]) = Total(f(k-1)) - f(k-1)[x] + n
      <4> DEFINE h == f(k-1)
      <4>1. h \in [A -> Nat]
        BY <2>5
      <4> HIDE DEF h, n, A
      <4>2. Total([h EXCEPT ![x] = n]) = Total(h) - h[x] + n
        BY <1>3, <2>6, <3>1, <4>1, TotalUpdate
      <4> QED BY <4>2 DEF h
    <3>4. Total(f(k)) = Total(f(k-1)) + legs[k].fill
      <4>1. Total(f(k)) = Total(f(k-1)) - f(k-1)[x] + (f(k-1)[x] + legs[k].fill)
        BY <3>2, <3>3
      <4> HIDE DEF f
      <4> QED BY <2>1, <2>5, <3>1, <4>1
    <3> QED BY <2>4, <2>6, <3>4 DEF fillOf
  <2>7. CASE x \notin A
    <3>1. \A o \in A : r[k].filled[o] - filledAmount[o] = r[k-1].filled[o] - filledAmount[o]
      <4> SUFFICES ASSUME NEW o \in A PROVE r[k].filled[o] - filledAmount[o] = r[k-1].filled[o] - filledAmount[o]
        OBVIOUS
      <4>1. o \in Orders /\ o # x /\ r[k-1].filled[o] - filledAmount[o] \in Nat
        BY <1>2, <1>3, <2>1, <2>7 DEF r
      <4> QED BY <2>3, <4>1
    <3>2. f(k) = f(k-1)
      BY <3>1
    <3>3. IF <<x.maker, x.positionId>> = <<a, p>> THEN fillOf(legs[k], side) = 0 ELSE TRUE
      BY <2>4, <2>7 DEF fillOf
    <3> HIDE DEF f
    <3> QED BY <2>5, <3>2, <3>3
  <2> QED BY <2>6, <2>7
<1> HIDE DEF f
<1> QED
  BY <1>4, <1>6, <1>7, <1>8 DEF Tally

\* The transfers of a batch: what each maker sells, what the exchange gets and gives, what each maker buys.
LEMMA TransfersParts ==
  ASSUME NEW legs \in Seq(Leg)
  PROVE  /\ Len(transfers(legs)) = 4 * Len(legs)
         /\ \A k \in 1..Len(legs) :
              /\ transfers(legs)[k]                  = makerEntries(legs, 1, -1)[k]
              /\ transfers(legs)[Len(legs) + k]      = exchangeEntries(legs, 1, 1)[k]
              /\ transfers(legs)[2 * Len(legs) + k]  = exchangeEntries(legs, 0, -1)[k]
              /\ transfers(legs)[3 * Len(legs) + k]  = makerEntries(legs, 0, 1)[k]
<1> DEFINE s1 == makerEntries(legs, 1, -1)
           s2 == exchangeEntries(legs, 1, 1)
           s3 == exchangeEntries(legs, 0, -1)
           s4 == makerEntries(legs, 0, 1)
           N == Len(legs)
<1>1. /\ s1 \in Seq(Delta(Holdings)) /\ s2 \in Seq(Delta(Holdings))
      /\ s3 \in Seq(Delta(Holdings)) /\ s4 \in Seq(Delta(Holdings))
  BY EntriesType
<1>2. N \in Nat /\ Len(s1) = N /\ Len(s2) = N /\ Len(s3) = N /\ Len(s4) = N
  BY DEF makerEntries, exchangeEntries
<1>3. transfers(legs) = ((s1 \o s2) \o s3) \o s4
  BY DEF transfers
<1> HIDE DEF s1, s2, s3, s4, N
<1>4. /\ s1 \o s2 \in Seq(Delta(Holdings)) /\ Len(s1 \o s2) = 2 * N
      /\ \A k \in 1..N : (s1 \o s2)[k] = s1[k] /\ (s1 \o s2)[N + k] = s2[k]
  <2>1. Len(s1 \o s2) = Len(s1) + Len(s2)
    BY <1>1, Joined
  <2> QED BY <1>1, <1>2, <2>1, Joined
<1>5. /\ (s1 \o s2) \o s3 \in Seq(Delta(Holdings)) /\ Len((s1 \o s2) \o s3) = 3 * N
      /\ \A k \in 1..(2 * N) : ((s1 \o s2) \o s3)[k] = (s1 \o s2)[k]
      /\ \A k \in 1..N : ((s1 \o s2) \o s3)[2 * N + k] = s3[k]
  <2> DEFINE s == s1 \o s2
  <2>1. s \in Seq(Delta(Holdings)) /\ Len(s) = 2 * N
    BY <1>4
  <2> HIDE DEF s
  <2>2. s \o s3 \in Seq(Delta(Holdings)) /\ Len(s \o s3) = Len(s) + Len(s3)
    BY <1>1, <2>1, Joined
  <2>3. \A k \in 1..Len(s) : (s \o s3)[k] = s[k]
    BY <1>1, <2>1, Joined
  <2>4. \A k \in 1..Len(s3) : (s \o s3)[Len(s) + k] = s3[k]
    BY <1>1, <2>1, Joined
  <2>5. /\ s \o s3 \in Seq(Delta(Holdings)) /\ Len(s \o s3) = 3 * N
        /\ \A k \in 1..(2 * N) : (s \o s3)[k] = s[k]
        /\ \A k \in 1..N : (s \o s3)[2 * N + k] = s3[k]
    BY <1>2, <2>1, <2>2, <2>3, <2>4
  <2> QED BY <2>5 DEF s
<1>6. /\ Len(((s1 \o s2) \o s3) \o s4) = 4 * N
      /\ \A k \in 1..(3 * N) : (((s1 \o s2) \o s3) \o s4)[k] = ((s1 \o s2) \o s3)[k]
      /\ \A k \in 1..N : (((s1 \o s2) \o s3) \o s4)[3 * N + k] = s4[k]
  <2> DEFINE s == (s1 \o s2) \o s3
  <2>1. s \in Seq(Delta(Holdings)) /\ Len(s) = 3 * N
    BY <1>5
  <2> HIDE DEF s
  <2>2. Len(s \o s4) = Len(s) + Len(s4)
    BY <1>1, <2>1, Joined
  <2>3. \A k \in 1..Len(s) : (s \o s4)[k] = s[k]
    BY <1>1, <2>1, Joined
  <2>4. \A k \in 1..Len(s4) : (s \o s4)[Len(s) + k] = s4[k]
    BY <1>1, <2>1, Joined
  <2>5. /\ Len(s \o s4) = 4 * N
        /\ \A k \in 1..(3 * N) : (s \o s4)[k] = s[k]
        /\ \A k \in 1..N : (s \o s4)[3 * N + k] = s4[k]
    BY <1>2, <2>1, <2>2, <2>3, <2>4
  <2> QED BY <2>5 DEF s
<1>7. \A k \in 1..N : /\ k \in 1..(2 * N) /\ N + k \in 1..(2 * N)
                      /\ k \in 1..(3 * N) /\ N + k \in 1..(3 * N) /\ 2 * N + k \in 1..(3 * N)
  BY <1>2
<1>8. /\ Len(transfers(legs)) = 4 * N
      /\ \A k \in 1..N : /\ transfers(legs)[k] = s1[k] /\ transfers(legs)[N + k] = s2[k]
                         /\ transfers(legs)[2 * N + k] = s3[k] /\ transfers(legs)[3 * N + k] = s4[k]
  <2> DEFINE t2 == s1 \o s2
             t3 == t2 \o s3
             t4 == t3 \o s4
  <2>1. /\ transfers(legs) = t4 /\ Len(t4) = 4 * N
        /\ \A k \in 1..(3 * N) : t4[k] = t3[k]
        /\ \A k \in 1..N : t4[3 * N + k] = s4[k]
    BY <1>3, <1>6
  <2>2. /\ \A k \in 1..(2 * N) : t3[k] = t2[k]
        /\ \A k \in 1..N : t3[2 * N + k] = s3[k]
    BY <1>5
  <2>3. \A k \in 1..N : t2[k] = s1[k] /\ t2[N + k] = s2[k]
    BY <1>4
  <2> HIDE DEF t2, t3, t4
  <2>4. ASSUME NEW k \in 1..N
        PROVE  t4[k] = s1[k] /\ t4[N + k] = s2[k] /\ t4[2 * N + k] = s3[k] /\ t4[3 * N + k] = s4[k]
    <3>1. /\ k \in 1..(2 * N) /\ N + k \in 1..(2 * N)
          /\ k \in 1..(3 * N) /\ N + k \in 1..(3 * N) /\ 2 * N + k \in 1..(3 * N)
      BY <1>7
    <3>2. t4[k] = s1[k] /\ t4[N + k] = s2[k]
      BY <2>1, <2>2, <2>3, <3>1
    <3> QED BY <2>1, <2>2, <3>1, <3>2
  <2> QED BY <2>1, <2>4
<1> QED
  BY <1>8 DEF s1, s2, s3, s4, N

\* What each transfer of a batch moves.
LEMMA TransferValues ==
  ASSUME NEW legs \in Seq(Leg), NEW k \in 1..Len(legs)
  PROVE  LET N == Len(legs)
             maker == <<legs[k].order.maker, legs[k].order.positionId>>
             exchange == <<Exchange, legs[k].order.positionId>>
             q == transfers(legs)
         IN  /\ fillOf(legs[k], 0) \in Nat /\ fillOf(legs[k], 1) \in Nat
             /\ legs[k].order.maker \in Users /\ legs[k].order.side \in Nat /\ legs[k].fill \in Nat
             /\ q[k].account = maker             /\ q[k].amount = -fillOf(legs[k], 1)
             /\ q[N + k].account = exchange      /\ q[N + k].amount = fillOf(legs[k], 1)
             /\ q[2 * N + k].account = exchange  /\ q[2 * N + k].amount = -fillOf(legs[k], 0)
             /\ q[3 * N + k].account = maker     /\ q[3 * N + k].amount = fillOf(legs[k], 0)
<1> DEFINE N == Len(legs)
           x == fillOf(legs[k], 1)
           y == fillOf(legs[k], 0)
<1>1. legs[k] \in Leg /\ DOMAIN legs = 1..Len(legs)
  OBVIOUS
<1>2. /\ x \in Nat /\ y \in Nat
      /\ legs[k].order.maker \in Users /\ legs[k].order.side \in Nat /\ legs[k].fill \in Nat
  <2>1. legs[k].fill \in Nat /\ legs[k].order \in Order
    BY <1>1, OrdersTyped DEF Leg
  <2> QED BY <2>1 DEF fillOf, Order
<1> DEFINE minus == -1
<1> HIDE DEF minus
<1>3. /\ makerEntries(legs, 1, minus)[k].account = <<legs[k].order.maker, legs[k].order.positionId>>
      /\ makerEntries(legs, 1, minus)[k].amount = minus * x
  BY <1>1 DEF makerEntries
<1>5. /\ makerEntries(legs, 0, 1)[k].account = <<legs[k].order.maker, legs[k].order.positionId>>
      /\ makerEntries(legs, 0, 1)[k].amount = 1 * y
  BY <1>1 DEF makerEntries
<1>6. /\ exchangeEntries(legs, 1, 1)[k].account = <<Exchange, legs[k].order.positionId>>
      /\ exchangeEntries(legs, 1, 1)[k].amount = 1 * x
  BY <1>1 DEF exchangeEntries
<1>7. /\ exchangeEntries(legs, 0, minus)[k].account = <<Exchange, legs[k].order.positionId>>
      /\ exchangeEntries(legs, 0, minus)[k].amount = minus * y
  BY <1>1 DEF exchangeEntries
<1> HIDE DEF x, y
<1>4. minus * x = -x /\ 1 * x = x /\ minus * y = -y /\ 1 * y = y
  BY <1>2 DEF minus
<1>8. /\ transfers(legs)[k]         = makerEntries(legs, 1, minus)[k]
      /\ transfers(legs)[N + k]     = exchangeEntries(legs, 1, 1)[k]
      /\ transfers(legs)[2 * N + k] = exchangeEntries(legs, 0, minus)[k]
      /\ transfers(legs)[3 * N + k] = makerEntries(legs, 0, 1)[k]
  BY TransfersParts DEF minus
<1> QED
  BY <1>2, <1>3, <1>4, <1>5, <1>6, <1>7, <1>8 DEF x, y

\* A batch moves a user's shares of a position by what it fills of that user's orders on its two sides.
LEMMA UserColumn ==
  ASSUME OwnTypes, NEW legs \in Seq(Leg), NEW a \in Users, NEW p \in Positions
  PROVE  Outcome(shares, transfers(legs)).table[<<a, p>>]
           = shares[<<a, p>>] + (Gained(legs, Len(legs), a, p, 0) - Gained(legs, Len(legs), a, p, 1))
<1> DEFINE q == transfers(legs)
           N == Len(legs)
           h == <<a, p>>
           t(n) == Running(shares, q)[n].table[h]
           sold == [k \in 0..N |-> -Gained(legs, k, a, p, 1)]
           bought == [k \in 0..N |-> Gained(legs, k, a, p, 0)]
           none == [k \in 0..N |-> 0]
<1>1. /\ q \in Seq(Delta(Holdings)) /\ N \in Nat /\ Len(q) = 4 * N
      /\ shares \in [Holdings -> Int] /\ h \in Holdings /\ shares[h] \in Int
  <2>1. shares \in [Holdings -> Nat] /\ h \in Holdings
    BY DEF OwnTypes, Holdings, Accounts
  <2> QED BY <2>1, TransfersType, TransfersParts
<1>0. ASSUME NEW side \in Nat
      PROVE  /\ Gained(legs, 0, a, p, side) = 0
             /\ \A k \in 0..N : Gained(legs, k, a, p, side) \in Nat
             /\ \A k \in 1..N :
                  Gained(legs, k, a, p, side) = Gained(legs, k-1, a, p, side)
                    + IF <<legs[k].order.maker, legs[k].order.positionId>> = h THEN fillOf(legs[k], side) ELSE 0
  <2>1. Tally(legs, a, p, side)
    BY GainedSteps
  <2> QED BY <2>1 DEF Tally
<1>2. /\ \A k \in 0..N : Gained(legs, k, a, p, 0) \in Nat /\ Gained(legs, k, a, p, 1) \in Nat
      /\ Gained(legs, 0, a, p, 0) = 0 /\ Gained(legs, 0, a, p, 1) = 0
  BY <1>0
<1>3. ASSUME NEW k \in 1..N
      PROVE  /\ k \in 0..N /\ k - 1 \in 0..N /\ 0 + k = k
             /\ legs[k].order.maker # Exchange
  <2>1. k \in 1..Len(legs)
    OBVIOUS
  <2>2. legs[k].order.maker \in Users
    BY <2>1, TransferValues
  <2>3. k \in 0..N /\ k - 1 \in 0..N /\ 0 + k = k
    BY <1>1
  <2> QED BY <2>2, <2>3, ExchangeIsNoUser
<1>4. \A k \in 1..N :
         /\ Gained(legs, k, a, p, 1) = Gained(legs, k-1, a, p, 1)
              + IF <<legs[k].order.maker, legs[k].order.positionId>> = h THEN fillOf(legs[k], 1) ELSE 0
         /\ Gained(legs, k, a, p, 0) = Gained(legs, k-1, a, p, 0)
              + IF <<legs[k].order.maker, legs[k].order.positionId>> = h THEN fillOf(legs[k], 0) ELSE 0
  BY <1>0
<1>5. ASSUME NEW k \in 1..N
      PROVE  /\ sold[k] = sold[k-1] + IF q[0+k].account = h THEN q[0+k].amount ELSE 0
             /\ none[k] = none[k-1] + IF q[N+k].account = h THEN q[N+k].amount ELSE 0
             /\ none[k] = none[k-1] + IF q[2*N+k].account = h THEN q[2*N+k].amount ELSE 0
             /\ bought[k] = bought[k-1] + IF q[3*N+k].account = h THEN q[3*N+k].amount ELSE 0
  <2>1. /\ q[k].account = <<legs[k].order.maker, legs[k].order.positionId>> /\ q[k].amount = -fillOf(legs[k], 1)
        /\ q[N+k].account = <<Exchange, legs[k].order.positionId>>
        /\ q[2*N+k].account = <<Exchange, legs[k].order.positionId>>
        /\ q[3*N+k].account = <<legs[k].order.maker, legs[k].order.positionId>>
        /\ q[3*N+k].amount = fillOf(legs[k], 0)
        /\ fillOf(legs[k], 0) \in Nat /\ fillOf(legs[k], 1) \in Nat
    BY TransferValues
  <2>2. q[N+k].account # h /\ q[2*N+k].account # h
    BY <2>1, ExchangeIsNoUser
  <2>3. none[k] = 0 /\ none[k-1] = 0
    BY <1>3
  <2>4. sold[k] = -Gained(legs, k, a, p, 1) /\ sold[k-1] = -Gained(legs, k-1, a, p, 1)
    BY <1>3
  <2>5. bought[k] = Gained(legs, k, a, p, 0) /\ bought[k-1] = Gained(legs, k-1, a, p, 0)
    BY <1>3
  <2>6. Gained(legs, k-1, a, p, 0) \in Nat /\ Gained(legs, k-1, a, p, 1) \in Nat
    BY <1>2, <1>3
  <2> HIDE DEF sold, bought, none, q, h
  <2>7. CASE <<legs[k].order.maker, legs[k].order.positionId>> = h
    <3>1. /\ Gained(legs, k, a, p, 1) = Gained(legs, k-1, a, p, 1) + fillOf(legs[k], 1)
          /\ Gained(legs, k, a, p, 0) = Gained(legs, k-1, a, p, 0) + fillOf(legs[k], 0)
      BY <1>4, <2>7
    <3>2. q[k].account = h /\ q[3*N+k].account = h /\ 0 + k = k
      BY <1>3, <2>1, <2>7
    <3>3. /\ sold[k] = sold[k-1] + -fillOf(legs[k], 1)
          /\ bought[k] = bought[k-1] + fillOf(legs[k], 0)
      BY <2>1, <2>4, <2>5, <2>6, <3>1
    <3>4. none[k] = none[k-1] + 0
      BY <2>3
    <3> QED BY <2>1, <2>2, <3>2, <3>3, <3>4
  <2>8. CASE <<legs[k].order.maker, legs[k].order.positionId>> # h
    <3>1. /\ Gained(legs, k, a, p, 1) = Gained(legs, k-1, a, p, 1)
          /\ Gained(legs, k, a, p, 0) = Gained(legs, k-1, a, p, 0)
      BY <1>4, <2>6, <2>8
    <3>2. q[k].account # h /\ q[3*N+k].account # h /\ 0 + k = k
      BY <1>3, <2>1, <2>8
    <3>3. sold[k] = sold[k-1] + 0 /\ bought[k] = bought[k-1] + 0
      BY <2>4, <2>5, <2>6, <3>1
    <3>4. none[k] = none[k-1] + 0
      BY <2>3
    <3> QED BY <2>2, <3>2, <3>3, <3>4
  <2> QED BY <2>7, <2>8
<1>6. sold \in [0..N -> Int] /\ bought \in [0..N -> Int] /\ none \in [0..N -> Int]
  BY <1>2
<1>7. /\ sold[0] = 0 /\ sold[N] = -Gained(legs, N, a, p, 1)
      /\ bought[0] = 0 /\ bought[N] = Gained(legs, N, a, p, 0)
      /\ none[0] = 0 /\ none[N] = 0
      /\ Gained(legs, N, a, p, 0) \in Nat /\ Gained(legs, N, a, p, 1) \in Nat
  BY <1>1, <1>2
<1>8. /\ 0 + N <= Len(q) /\ N + N <= Len(q) /\ 2 * N + N <= Len(q) /\ 3 * N + N <= Len(q)
      /\ 2 * N \in Nat /\ 3 * N \in Nat /\ 0 \in Nat
      /\ 0 + N = N /\ N + N = 2 * N /\ 2 * N + N = 3 * N /\ 3 * N + N = 4 * N
  BY <1>1
<1>9. Running(shares, q)[0].table[h] = shares[h]
  BY <1>1, RunningStep
<1>10. Outcome(shares, q).table[h] = t(4 * N)
  BY <1>1 DEF Outcome
<1> HIDE DEF sold, bought, none, q, h
<1>11. t(0 + N) = t(0) + sold[N] - sold[0]
  <2>1. \A k \in 1..N : sold[k] = sold[k-1] + IF q[0+k].account = h THEN q[0+k].amount ELSE 0
    BY <1>5
  <2> HIDE DEF N, t
  <2>2. Follows(sold, Holdings, shares, q, h, 0, N)
    BY <1>1, <1>6, <1>8, <2>1 DEF Follows
  <2>3. Running(shares, q)[0 + N].table[h] = Running(shares, q)[0].table[h] + sold[N] - sold[0]
    BY <2>2, RunningStretch
  <2> QED BY <2>3 DEF t
<1>12. t(N + N) = t(N) + none[N] - none[0]
  <2>1. \A k \in 1..N : none[k] = none[k-1] + IF q[N+k].account = h THEN q[N+k].amount ELSE 0
    BY <1>5
  <2> HIDE DEF N, t
  <2>2. Follows(none, Holdings, shares, q, h, N, N)
    BY <1>1, <1>6, <1>8, <2>1 DEF Follows
  <2>3. Running(shares, q)[N + N].table[h] = Running(shares, q)[N].table[h] + none[N] - none[0]
    BY <2>2, RunningStretch
  <2> QED BY <2>3 DEF t
<1>13. t(2 * N + N) = t(2 * N) + none[N] - none[0]
  <2>1. \A k \in 1..N : none[k] = none[k-1] + IF q[2*N+k].account = h THEN q[2*N+k].amount ELSE 0
    BY <1>5
  <2> HIDE DEF N, t
  <2>2. Follows(none, Holdings, shares, q, h, 2 * N, N)
    BY <1>1, <1>6, <1>8, <2>1 DEF Follows
  <2>3. Running(shares, q)[2 * N + N].table[h] = Running(shares, q)[2 * N].table[h] + none[N] - none[0]
    BY <2>2, RunningStretch
  <2> QED BY <2>3 DEF t
<1>14. t(3 * N + N) = t(3 * N) + bought[N] - bought[0]
  <2>1. \A k \in 1..N : bought[k] = bought[k-1] + IF q[3*N+k].account = h THEN q[3*N+k].amount ELSE 0
    BY <1>5
  <2> HIDE DEF N, t
  <2>2. Follows(bought, Holdings, shares, q, h, 3 * N, N)
    BY <1>1, <1>6, <1>8, <2>1 DEF Follows
  <2>3. Running(shares, q)[3 * N + N].table[h] = Running(shares, q)[3 * N].table[h] + bought[N] - bought[0]
    BY <2>2, RunningStretch
  <2> QED BY <2>3 DEF t
<1>15. t(0) = shares[h]
  BY <1>9
<1> HIDE DEF t, N
<1>16. t(4 * N) = shares[h] + (Gained(legs, N, a, p, 0) - Gained(legs, N, a, p, 1))
  BY <1>1, <1>7, <1>8, <1>11, <1>12, <1>13, <1>14, <1>15
<1> QED
  BY <1>10, <1>16 DEF q, h, N

\* Only a settlement adds to the batches settled.
LEMMA SettlementsSettle ==
  ASSUME [Next]_vars, Settled
  PROVE  \E b \in BatchIds, legs \in Batches : settleBatch(b, legs)
BY DEF Next, Settle, vars, exchangeVars, Settled, cancelAllOrders, ExchangeAdmin, pauseExchange, unpauseExchange,
       setFeeRates, withdrawFees, CustodyStep, GiftShare

\* What a batch must let flow into the exchange, position by position.
LEMMA FlowType ==
  ASSUME NEW legs \in Seq(Leg)
  PROVE  /\ flow(legs) \in Seq(Delta(Positions)) /\ Len(flow(legs)) = Len(legs)
         /\ \A k \in 1..Len(legs) :
              /\ flow(legs)[k].account = legs[k].order.positionId
              /\ legs[k].order.side = 1 => flow(legs)[k].amount = fillOf(legs[k], 1)
              /\ legs[k].order.side = 0 => flow(legs)[k].amount = -fillOf(legs[k], 0)
<1>1. DOMAIN legs = 1..Len(legs) /\ Len(legs) \in Nat /\ \A k \in DOMAIN legs : legs[k] \in Leg
  OBVIOUS
<1>2. ASSUME NEW k \in 1..Len(legs)
      PROVE  /\ flow(legs)[k] = [account |-> legs[k].order.positionId,
                                 amount |-> IF legs[k].order.side = 1 THEN legs[k].fill ELSE -legs[k].fill]
             /\ flow(legs)[k] \in Delta(Positions)
  <2>1. /\ flow(legs)[k] = [account |-> legs[k].order.positionId,
                            amount |-> IF legs[k].order.side = 1 THEN legs[k].fill ELSE -legs[k].fill]
    BY <1>1 DEF flow
  <2>2. legs[k].order.positionId \in Positions /\ legs[k].fill \in Nat
    <3>1. legs[k] \in Leg
      BY <1>1
    <3>2. legs[k].order \in Order /\ legs[k].fill \in Nat
      BY <3>1, OrdersTyped DEF Leg
    <3> QED BY <3>2 DEF Order
  <2> QED BY <2>1, <2>2 DEF Delta
<1>3. DOMAIN flow(legs) = 1..Len(legs) /\ flow(legs) = [k \in 1..Len(legs) |-> flow(legs)[k]]
  BY <1>1 DEF flow
<1>4. flow(legs) \in [1..Len(legs) -> Delta(Positions)]
  BY <1>2, <1>3
<1>5. flow(legs) \in Seq(Delta(Positions)) /\ Len(flow(legs)) = Len(legs)
  BY <1>1, <1>3, <1>4
<1>6. ASSUME NEW k \in 1..Len(legs)
      PROVE  /\ flow(legs)[k].account = legs[k].order.positionId
             /\ legs[k].order.side = 1 => flow(legs)[k].amount = fillOf(legs[k], 1)
             /\ legs[k].order.side = 0 => flow(legs)[k].amount = -fillOf(legs[k], 0)
  <2>1. /\ flow(legs)[k].account = legs[k].order.positionId
        /\ flow(legs)[k].amount = IF legs[k].order.side = 1 THEN legs[k].fill ELSE -legs[k].fill
    BY <1>1 DEF flow
  <2>2. legs[k].order.side = 1 => fillOf(legs[k], 1) = legs[k].fill
    BY DEF fillOf
  <2>3. legs[k].order.side = 0 => fillOf(legs[k], 0) = legs[k].fill /\ legs[k].order.side # 1
    BY DEF fillOf
  <2> QED BY <2>1, <2>2, <2>3
<1> QED
  BY <1>5, <1>6

\* A batch whose flows into the exchange balance leaves the exchange's shares as they were.
LEMMA ExchangeColumn ==
  ASSUME OwnTypes, NEW legs \in Seq(Leg), NEW p \in Positions, positionNets(legs)[p] = 0,
         \A k \in 1..Len(legs) : legs[k].order.side \in {0, 1}
  PROVE  Outcome(shares, transfers(legs)).table[<<Exchange, p>>] = shares[<<Exchange, p>>]
<1> DEFINE q == transfers(legs)
           f == flow(legs)
           N == Len(legs)
           h == <<Exchange, p>>
           t(n) == Running(shares, q)[n].table[h]
           zeros == [x \in Positions |-> 0]
           none == [k \in 0..N |-> 0]
<1>1. /\ q \in Seq(Delta(Holdings)) /\ N \in Nat /\ Len(q) = 4 * N
      /\ shares \in [Holdings -> Int] /\ h \in Holdings /\ shares[h] \in Int
  <2>1. shares \in [Holdings -> Nat] /\ h \in Holdings
    BY DEF OwnTypes, Holdings, Accounts
  <2> QED BY <2>1, TransfersType, TransfersParts
<1>2. /\ f \in Seq(Delta(Positions)) /\ Len(f) = N /\ zeros \in [Positions -> Int]
      /\ \A k \in 1..N : /\ f[k].account = legs[k].order.positionId
                         /\ legs[k].order.side = 1 => f[k].amount = fillOf(legs[k], 1)
                         /\ legs[k].order.side = 0 => f[k].amount = -fillOf(legs[k], 0)
  BY FlowType
<1>3. Running(zeros, f)[0].table[p] = 0 /\ Running(zeros, f)[N].table[p] = 0
  <2>1. Running(zeros, f)[N].table[p] = 0
    BY <1>2 DEF positionNets, Outcome
  <2>2. zeros[p] = 0
    OBVIOUS
  <2> HIDE DEF f, zeros, N, q, t, none
  <2>3. Running(zeros, f)[0].table[p] = zeros[p]
    BY <1>2, RunningStep
  <2> QED BY <2>1, <2>2, <2>3
<1>4. PICK c \in [0..Len(f) -> Int] : IsColumn(c, zeros, f, p)
  <2> HIDE DEF f, zeros, N, q, t, none
  <2> QED BY <1>2, RunningColumn
<1>5. PICK u \in [0..Len(q) -> Int] : IsColumn(u, shares, q, h)
  <2> HIDE DEF q, t, h
  <2> QED BY <1>1, RunningColumn
<1>6. /\ c[0] = 0 /\ c[N] = 0
      /\ \A k \in 1..N : c[k] = c[k-1] + IF legs[k].order.positionId = p THEN f[k].amount ELSE 0
  <2>1. \A n \in 0..N : c[n] = Running(zeros, f)[n].table[p]
    BY <1>2, <1>4 DEF IsColumn
  <2>2. 0 \in 0..N /\ N \in 0..N
    BY <1>1
  <2>3. ASSUME NEW k \in 1..N
        PROVE  c[k] = c[k-1] + IF legs[k].order.positionId = p THEN f[k].amount ELSE 0
    <3>1. /\ f[k].amount \in Int /\ f[k].account = legs[k].order.positionId
          /\ c[k] = IF p = f[k].account THEN c[k-1] + f[k].amount ELSE c[k-1]
      BY <1>2, <1>4 DEF IsColumn
    <3>2. c[k-1] \in Int
      BY <1>1, <1>2, <1>4
    <3> HIDE DEF f, N
    <3> QED BY <3>1, <3>2
  <2> HIDE DEF f, zeros
  <2> QED BY <1>3, <2>1, <2>2, <2>3
<1>7. \A n \in 0..(4 * N) : u[n] = t(n)
  BY <1>1, <1>5 DEF IsColumn
<1> DEFINE g == [k \in 0..N |-> c[k] - (u[2*N+k] - u[2*N])]
<1>8. ASSUME NEW k \in 1..N
      PROVE  /\ none[k] = none[k-1] + IF q[0+k].account = h THEN q[0+k].amount ELSE 0
             /\ g[k] = g[k-1] + IF q[N+k].account = h THEN q[N+k].amount ELSE 0
             /\ none[k] = none[k-1] + IF q[3*N+k].account = h THEN q[3*N+k].amount ELSE 0
  <2>1. /\ q[k].account = <<legs[k].order.maker, legs[k].order.positionId>>
        /\ q[N+k].account = <<Exchange, legs[k].order.positionId>> /\ q[N+k].amount = fillOf(legs[k], 1)
        /\ q[2*N+k].account = <<Exchange, legs[k].order.positionId>> /\ q[2*N+k].amount = -fillOf(legs[k], 0)
        /\ q[3*N+k].account = <<legs[k].order.maker, legs[k].order.positionId>>
        /\ fillOf(legs[k], 0) \in Nat /\ fillOf(legs[k], 1) \in Nat
    BY TransferValues
  <2>10. legs[k].order.maker # Exchange
    <3>1. legs[k].order.maker \in Users
      BY TransferValues
    <3> QED BY <3>1, ExchangeIsNoUser
  <2>2. /\ k \in 0..N /\ k - 1 \in 0..N /\ 0 + k = k
        /\ 2*N + k \in 1..Len(q) /\ 2*N + (k-1) \in 0..Len(q) /\ 2*N \in 0..Len(q)
        /\ (2*N + k) - 1 = 2*N + (k-1)
    BY <1>1
  <2>3. none[k] = 0 /\ none[k-1] = 0 /\ q[0+k].account # h /\ q[3*N+k].account # h
    BY <2>1, <2>2, <2>10, SMTT(30)
  <2>4. g[k] = c[k] - (u[2*N+k] - u[2*N]) /\ g[k-1] = c[k-1] - (u[2*N+(k-1)] - u[2*N])
    BY <2>2
  <2>5. /\ c[k] \in Int /\ c[k-1] \in Int /\ u[2*N+k] \in Int /\ u[2*N+(k-1)] \in Int /\ u[2*N] \in Int
    <3>1. k \in 0..Len(f) /\ k - 1 \in 0..Len(f)
      BY <1>2, <2>2
    <3>2. 2*N + k \in 0..Len(q)
      BY <1>1, <2>2
    <3> HIDE DEF q, f, N
    <3> QED BY <1>4, <1>5, <2>2, <3>1, <3>2
  <2>6. u[2*N+k] = IF h = q[2*N+k].account THEN u[2*N+(k-1)] + q[2*N+k].amount ELSE u[2*N+(k-1)]
    <3>1. u[2*N+k] = IF h = q[2*N+k].account THEN u[(2*N+k)-1] + q[2*N+k].amount ELSE u[(2*N+k)-1]
      BY <1>5, <2>2 DEF IsColumn
    <3> QED BY <2>2, <3>1
  <2>7. c[k] = c[k-1] + IF legs[k].order.positionId = p THEN f[k].amount ELSE 0
    BY <1>6
  <2>8. g[k] = g[k-1] + IF q[N+k].account = h THEN q[N+k].amount ELSE 0
    <3>1. CASE legs[k].order.positionId # p
      <4>1. q[N+k].account # h /\ q[2*N+k].account # h
        BY <2>1, <3>1
      <4>2. u[2*N+k] = u[2*N+(k-1)] /\ c[k] = c[k-1] + 0
        BY <2>6, <2>7, <3>1, <4>1
      <4> HIDE DEF g, q, h, N
      <4> QED BY <2>4, <2>5, <4>1, <4>2, SMTT(30)
    <3>2. CASE legs[k].order.positionId = p
      <4>1. q[N+k].account = h /\ q[2*N+k].account = h
        BY <2>1, <3>2
      <4> DEFINE x == fillOf(legs[k], 1)
                 y == fillOf(legs[k], 0)
                 v == f[k].amount
      <4>2. u[2*N+k] = u[2*N+(k-1)] + -y /\ c[k] = c[k-1] + v /\ q[N+k].amount = x /\ x \in Nat /\ y \in Nat
        BY <2>1, <2>6, <2>7, <3>2, <4>1
      <4>3. v = x + -y
        <5>1. legs[k].order.side = 1 => v = x /\ y = 0
          BY <1>2 DEF fillOf
        <5>2. legs[k].order.side = 0 => v = -y /\ x = 0
          BY <1>2 DEF fillOf
        <5>3. legs[k].order.side = 0 \/ legs[k].order.side = 1
          OBVIOUS
        <5> HIDE DEF v, x, y
        <5> QED BY <4>2, <5>1, <5>2, <5>3
      <4> DEFINE ck == c[k]
                 cl == c[k-1]
                 uk == u[2*N+k]
                 ul == u[2*N+(k-1)]
                 um == u[2*N]
                 gk == g[k]
                 gl == g[k-1]
      <4>4. ck = cl + v /\ uk = ul + -y /\ cl \in Int /\ ul \in Int /\ um \in Int
        BY <2>5, <4>2
      <4>5. gk = ck - (uk - um) /\ gl = cl - (ul - um)
        BY <2>4
      <4>7. x \in Nat /\ y \in Nat
        BY <4>2
      <4> HIDE DEF x, y, v, ck, cl, uk, ul, um, gk, gl
      <4>6. gk = gl + x
        BY <4>3, <4>4, <4>5, <4>7
      <4>8. g[k] = g[k-1] + q[N+k].amount
        BY <4>2, <4>6 DEF gk, gl
      <4> HIDE DEF g, q, h, N
      <4> QED BY <4>1, <4>8
    <3> QED BY <3>1, <3>2
  <2> HIDE DEF g, none, q, h, N
  <2> QED BY <2>3, <2>8
<1>9. /\ none \in [0..N -> Int] /\ g \in [0..N -> Int]
  <2>1. none \in [0..N -> Int]
    OBVIOUS
  <2>2. ASSUME NEW k \in 0..N PROVE c[k] - (u[2*N+k] - u[2*N]) \in Int
    <3>1. k \in 0..Len(f) /\ 2*N + k \in 0..Len(q) /\ 2*N \in 0..Len(q)
      BY <1>1, <1>2
    <3> HIDE DEF f, q, N
    <3> QED BY <1>4, <1>5, <3>1
  <2> QED BY <2>1, <2>2
<1>10. none[0] = 0 /\ none[N] = 0
  BY <1>1
<1>11. /\ 0 + N <= Len(q) /\ N + N <= Len(q) /\ 3 * N + N <= Len(q)
       /\ 3 * N \in Nat /\ 0 \in Nat
       /\ 0 + N = N /\ N + N = 2 * N /\ 2 * N + N = 3 * N /\ 3 * N + N = 4 * N
       /\ 2 * N \in 0..(4 * N) /\ 3 * N \in 0..(4 * N) /\ 0 \in 0..N /\ N \in 0..N /\ 2 * N + 0 = 2 * N
  BY <1>1
<1>12. g[0] = 0 /\ g[N] = 0 - (t(3 * N) - t(2 * N)) /\ t(3 * N) \in Int /\ t(2 * N) \in Int
  <2>1. g[0] = c[0] - (u[2*N+0] - u[2*N]) /\ g[N] = c[N] - (u[2*N+N] - u[2*N])
    BY <1>11
  <2>2. u[2*N] = t(2*N) /\ u[3*N] = t(3*N) /\ u[2*N] \in Int /\ u[3*N] \in Int
    BY <1>1, <1>5, <1>7, <1>11
  <2>3. g[0] = 0 - (t(2*N) - t(2*N)) /\ g[N] = 0 - (t(3*N) - t(2*N)) /\ t(3*N) \in Int /\ t(2*N) \in Int
    <3> HIDE DEF g, t, N
    <3> QED BY <1>6, <1>11, <2>1, <2>2
  <2> DEFINE y == t(2*N)
  <2>4. y \in Int /\ g[0] = 0 - (y - y)
    BY <2>3
  <2> HIDE DEF y, g
  <2>5. g[0] = 0
    BY <2>4
  <2> QED BY <2>3, <2>5
<1>13. Running(shares, q)[0].table[h] = shares[h]
  BY <1>1, RunningStep
<1>14. Outcome(shares, q).table[h] = t(4 * N)
  BY <1>1 DEF Outcome
<1> HIDE DEF g, none, q, h
<1>15. t(0 + N) = t(0) + none[N] - none[0]
  <2>1. \A k \in 1..N : none[k] = none[k-1] + IF q[0+k].account = h THEN q[0+k].amount ELSE 0
    BY <1>8
  <2> HIDE DEF N, t
  <2>2. Follows(none, Holdings, shares, q, h, 0, N)
    BY <1>1, <1>9, <1>11, <2>1 DEF Follows
  <2>3. Running(shares, q)[0 + N].table[h] = Running(shares, q)[0].table[h] + none[N] - none[0]
    BY <2>2, RunningStretch
  <2> QED BY <2>3 DEF t
<1>16. t(N + N) = t(N) + g[N] - g[0]
  <2>1. \A k \in 1..N : g[k] = g[k-1] + IF q[N+k].account = h THEN q[N+k].amount ELSE 0
    BY <1>8
  <2> HIDE DEF N, t
  <2>2. Follows(g, Holdings, shares, q, h, N, N)
    BY <1>1, <1>9, <1>11, <2>1 DEF Follows
  <2>3. Running(shares, q)[N + N].table[h] = Running(shares, q)[N].table[h] + g[N] - g[0]
    BY <2>2, RunningStretch
  <2> QED BY <2>3 DEF t
<1>17. t(3 * N + N) = t(3 * N) + none[N] - none[0]
  <2>1. \A k \in 1..N : none[k] = none[k-1] + IF q[3*N+k].account = h THEN q[3*N+k].amount ELSE 0
    BY <1>8
  <2> HIDE DEF N, t
  <2>2. Follows(none, Holdings, shares, q, h, 3 * N, N)
    BY <1>1, <1>9, <1>11, <2>1 DEF Follows
  <2>3. Running(shares, q)[3 * N + N].table[h] = Running(shares, q)[3 * N].table[h] + none[N] - none[0]
    BY <2>2, RunningStretch
  <2> QED BY <2>3 DEF t
<1>18. t(0) = shares[h]
  BY <1>13
<1>20. t(N) \in Int
  <2>1. N \in 0..Len(q) /\ N \in 0..(4 * N)
    BY <1>1
  <2>2. u[N] = t(N) /\ u[N] \in Int
    BY <1>5, <1>7, <2>1
  <2> QED BY <2>2
<1> HIDE DEF t, N
<1>19. t(4 * N) = shares[h]
  <2>1. t(N) = shares[h] + 0 - 0
    BY <1>10, <1>11, <1>15, <1>18
  <2>2. t(N) = shares[h]
    <3> DEFINE x == t(N)
    <3>1. x = shares[h] + 0 - 0
      BY <2>1
    <3> HIDE DEF x
    <3>2. x = shares[h]
      BY <1>1, <3>1
    <3> QED BY <3>2 DEF x
  <2>3. t(2 * N) = t(N) + (0 - (t(3 * N) - t(2 * N))) - 0
    BY <1>11, <1>12, <1>16
  <2>4. t(3 * N) = t(N)
    <3> DEFINE x == t(N)
               y == t(2 * N)
               z == t(3 * N)
    <3>1. x \in Int /\ y \in Int /\ z \in Int /\ y = x + (0 - (z - y)) - 0
      BY <1>12, <1>20, <2>3
    <3> HIDE DEF x, y, z
    <3>2. z = x
      BY <3>1
    <3> QED BY <3>2 DEF x, z
  <2>5. t(4 * N) = t(3 * N) + 0 - 0
    BY <1>10, <1>11, <1>17
  <2>6. t(4 * N) = t(3 * N)
    <3> DEFINE x == t(3 * N)
               y == t(4 * N)
    <3>1. x \in Int /\ y = x + 0 - 0
      BY <1>12, <2>5
    <3> HIDE DEF x, y
    <3>2. y = x
      BY <3>1
    <3> QED BY <3>2 DEF x, y
  <2> QED BY <2>2, <2>4, <2>6
<1> QED
  BY <1>14, <1>19 DEF q, h

\* The exchange passes shares through, as long as every order names one of the two sides: a settlement
\* neither strands any of a position in the exchange nor pays out any that were there before.
THEOREM PassThroughHolds ==
  ASSUME \A o \in Orders : o.side \in {0, 1}
  PROVE  Spec => PassThrough
<1>1. IInv /\ [Next]_vars =>
        [Settled => \A p \in Positions : shares'[<<Exchange, p>>] = shares[<<Exchange, p>>]]_vars
  <2> SUFFICES ASSUME IInv, [Next]_vars, Settled, NEW p \in Positions
               PROVE  shares'[<<Exchange, p>>] = shares[<<Exchange, p>>]
    OBVIOUS
  <2>1. PICK b \in BatchIds, legs \in Batches : settleBatch(b, legs)
    BY SettlementsSettle
  <2>2. legs \in Seq(Leg) /\ OwnTypes
    BY BatchesTyped DEF IInv
  <2>3. positionNets(legs)[p] = 0 /\ shares' = Outcome(shares, transfers(legs)).table
    BY <2>1 DEF settleBatch, settleCtf
  <2>4. \A k \in 1..Len(legs) : legs[k].order.side \in {0, 1}
    <3> SUFFICES ASSUME NEW k \in 1..Len(legs) PROVE legs[k].order.side \in {0, 1}
      OBVIOUS
    <3>1. legs[k] \in Leg
      BY <2>2
    <3>2. legs[k].order \in Orders
      BY <3>1 DEF Leg
    <3> QED BY <3>2
  <2> QED BY <2>2, <2>3, <2>4, ExchangeColumn
<1> QED
  BY <1>1, Invariance, PTL DEF Spec, PassThrough

-----------------------------------------------------------------------------
\* A quotient rounded up is no larger than a whole number whose product reaches what it rounds.
LEMMA CeilWithin ==
  ASSUME NEW n \in Nat, NEW d \in Nat \ {0}, NEW v \in Nat, n <= d * v
  PROVE  CeilDiv(n, d) \in Nat /\ CeilDiv(n, d) <= v
<1> DEFINE e == (n + (d - 1)) \div d
<1>1. n + (d - 1) \in Nat
  OBVIOUS
<1>2. e \in Nat /\ d * e <= n + (d - 1)
  BY <1>1, Quotient
<1> HIDE DEF e
<1>3. d * e \in Int /\ d * v \in Int /\ e - v \in Int /\ d * (e - v) = d * e - d * v
  BY <1>2
<1>4. d * (e - v) < d
  BY <1>2, <1>3
<1>5. e - v <= 0
  BY <1>3, <1>4, BelowOne
<1>6. e <= v
  BY <1>2, <1>5
<1> QED
  BY <1>2, <1>6 DEF CeilDiv, e

\* No sale is charged more than it brings: the fee's rate is at most one.
LEMMA SalePays ==
  ASSUME OwnTypes, NEW leg \in Leg, leg.order.side # 0
  PROVE  credit(leg) \in Nat
<1> DEFINE v == (leg.fill * leg.order.price) \div PriceUnit
<1>1. PriceUnit \in Nat \ {0} /\ FeeUnit \in Nat \ {0} /\ makerRebateBps \in Nat /\ takerFeeBps \in 0..FeeUnit
  BY UnitsPositive, RatesBelowOne DEF OwnTypes
<1>2. v \in Nat
  <2>1. leg.fill \in Nat /\ leg.order \in Order
    BY OrdersTyped DEF Leg
  <2>2. leg.order.price \in Nat
    BY <2>1 DEF Order
  <2>3. leg.fill * leg.order.price \in Nat
    BY <2>1, <2>2
  <2> QED BY <1>1, <2>3, Quotient
<1>3. volume(leg) = v /\ credit(leg) = v - fee(leg)
  BY DEF volume, credit
<1> HIDE DEF v
<1>4. CASE leg.isMaker
  <2>1. v * makerRebateBps \in Nat
    BY <1>1, <1>2
  <2>2. (v * makerRebateBps) \div FeeUnit \in Nat
    BY <1>1, <2>1, Quotient
  <2>3. fee(leg) = -((v * makerRebateBps) \div FeeUnit)
    BY <1>3, <1>4 DEF fee
  <2> DEFINE x == (v * makerRebateBps) \div FeeUnit
  <2>4. x \in Nat /\ credit(leg) = v - (-x)
    BY <1>3, <2>2, <2>3
  <2> HIDE DEF x
  <2> QED BY <1>2, <2>4
<1>5. CASE ~leg.isMaker
  <2>1. v * takerFeeBps \in Nat /\ v * takerFeeBps <= FeeUnit * v
    <3>1. takerFeeBps \in Nat /\ FeeUnit \in Nat /\ takerFeeBps <= FeeUnit
      BY <1>1
    <3>2. takerFeeBps * v \in Nat /\ takerFeeBps * v <= FeeUnit * v
      BY <1>2, <3>1, Times
    <3>3. v * takerFeeBps = takerFeeBps * v
      BY <1>2, <3>1
    <3> QED BY <3>2, <3>3
  <2>2. CeilDiv(v * takerFeeBps, FeeUnit) \in Nat /\ CeilDiv(v * takerFeeBps, FeeUnit) <= v
    BY <1>1, <1>2, <2>1, CeilWithin
  <2>3. fee(leg) = CeilDiv(v * takerFeeBps, FeeUnit)
    BY <1>3, <1>5 DEF fee
  <2> DEFINE x == CeilDiv(v * takerFeeBps, FeeUnit)
  <2>4. x \in Nat /\ x <= v /\ credit(leg) = v - x
    BY <1>3, <2>2, <2>3
  <2> HIDE DEF x
  <2> QED BY <1>2, <2>4
<1> QED
  BY <1>4, <1>5

\* None of an account's entries takes anything from it.
NeverCharged(deltas, a) == \A i \in 1..Len(deltas) : deltas[i].account = a => deltas[i].amount \in Nat

\* Accruing a credit, or another account's amount, leaves it so.
LEMMA AccrueCredit ==
  ASSUME NEW A, NEW deltas \in Seq(Delta(A)), NEW account \in A, NEW amount \in Int, NEW a \in A,
         NeverCharged(deltas, a), account # a \/ amount \in Nat
  PROVE  NeverCharged(accrue(deltas, account, amount), a)
<1> DEFINE q == accrue(deltas, account, amount)
           new == [account |-> account, amount |-> amount]
<1>0. DOMAIN deltas = 1..Len(deltas) /\ Len(deltas) \in Nat /\ \A i \in DOMAIN deltas : deltas[i] \in Delta(A)
  OBVIOUS
<1>1. CASE \E i \in DOMAIN deltas : deltas[i].account = account
  <2>1. q = [i \in DOMAIN deltas |-> IF deltas[i].account = account
                                     THEN [deltas[i] EXCEPT !.amount = deltas[i].amount + amount] ELSE deltas[i]]
    BY <1>1 DEF accrue
  <2>2. Len(q) = Len(deltas)
    BY <1>0, <2>1
  <2>3. ASSUME NEW i \in 1..Len(deltas), q[i].account = a PROVE q[i].amount \in Nat
    <3>1. deltas[i] \in Delta(A)
      BY <1>0
    <3>2. CASE deltas[i].account = account
      <4>1. q[i] = [deltas[i] EXCEPT !.amount = deltas[i].amount + amount]
        BY <1>0, <2>1, <3>2
      <4>2. q[i].account = account /\ q[i].amount = deltas[i].amount + amount
        BY <3>1, <3>2, <4>1 DEF Delta
      <4>3. deltas[i].amount \in Nat /\ amount \in Nat
        BY <2>3, <3>2, <4>2 DEF NeverCharged
      <4> HIDE DEF q
      <4> QED BY <4>2, <4>3
    <3>3. CASE deltas[i].account # account
      <4>1. q[i] = deltas[i]
        BY <1>0, <2>1, <3>3
      <4> HIDE DEF q
      <4> QED BY <2>3, <4>1 DEF NeverCharged
    <3> QED BY <3>2, <3>3
  <2> HIDE DEF q
  <2>4. NeverCharged(q, a)
    BY <2>2, <2>3 DEF NeverCharged
  <2> QED BY <2>4 DEF q
<1>2. CASE ~ \E i \in DOMAIN deltas : deltas[i].account = account
  <2>1. q = Append(deltas, new)
    BY <1>2 DEF accrue
  <2>2. /\ Len(q) = Len(deltas) + 1
        /\ \A i \in 1..Len(deltas) : q[i] = deltas[i]
        /\ q[Len(deltas) + 1] = new
    <3>1. new \in Delta(A)
      BY DEF Delta
    <3> HIDE DEF new
    <3> QED BY <1>0, <2>1, <3>1
  <2>3. new.account = account /\ new.amount = amount
    OBVIOUS
  <2> HIDE DEF q, new
  <2>4. ASSUME NEW i \in 1..Len(q), q[i].account = a PROVE q[i].amount \in Nat
    <3>1. i \in 1..Len(deltas) \/ i = Len(deltas) + 1
      BY <1>0, <2>2
    <3> QED BY <2>2, <2>3, <2>4, <3>1 DEF NeverCharged
  <2>5. NeverCharged(q, a)
    BY <2>4 DEF NeverCharged
  <2> QED BY <2>5 DEF q
<1> QED
  BY <1>1, <1>2

\* Only a user one of whose purchases has been filled is charged by a batch.
LEMMA OnlyBuyersCharged ==
  ASSUME OwnTypes, NEW legs \in Seq(Leg), NEW a \in Users, NEW n \in 0..Len(legs)
  PROVE  \/ \E p \in Positions : Gained(legs, n, a, p, 0) > 0
         \/ NeverCharged(Loop(legs)[n].deltas, a)
<1> DEFINE r == Loop(legs)
           Bought(k) == \E p \in Positions : Gained(legs, k, a, p, 0) > 0
           S == {k \in 0..Len(legs) : Bought(k) \/ NeverCharged(r[k].deltas, a)}
<1>0. Len(legs) \in Nat /\ Rates /\ filledAmount \in [Orders -> Nat]
  BY RatesTyped DEF OwnTypes
<1>1. /\ IsLoop(r, legs, Len(legs))
      /\ \A k \in 0..Len(legs) : r[k].deltas \in Seq(Delta(Users))
  BY <1>0, LoopDef, LoopApart
<1>2. \A p : Tally(legs, a, p, 0)
  <2>1. 0 \in Nat
    OBVIOUS
  <2> QED BY <2>1, GainedSteps
<1> HIDE DEF r
<1>3. 0 \in S
  <2>1. r[0].deltas = << >>
    BY <1>1 DEF IsLoop
  <2>2. NeverCharged(r[0].deltas, a)
    BY <2>1 DEF NeverCharged
  <2> QED BY <1>0, <2>2
<1>4. ASSUME NEW k \in 1..Len(legs), k - 1 \in S PROVE k \in S
  <2>1. k \in 0..Len(legs) /\ k - 1 \in 0..Len(legs) /\ legs[k] \in Leg
    BY <1>0
  <2>2. r[k] = afterLeg(r[k-1], legs[k])
    BY <1>1 DEF IsLoop
  <2> DEFINE x == legs[k].order
             pos == x.positionId
  <2>3. /\ x.maker \in Users /\ pos \in Positions /\ legs[k].fill \in Nat
        /\ fillOf(legs[k], 0) \in Nat
    <3>1. legs[k].fill \in Nat /\ x \in Order
      BY <2>1, OrdersTyped DEF Leg
    <3> QED BY <3>1 DEF Order, fillOf
  <2>4. ASSUME Bought(k-1) PROVE Bought(k)
    <3>1. PICK p \in Positions : Gained(legs, k-1, a, p, 0) > 0
      BY <2>4
    <3>2. /\ Gained(legs, k-1, a, p, 0) \in Nat
          /\ Gained(legs, k, a, p, 0) = Gained(legs, k-1, a, p, 0)
               + IF <<x.maker, x.positionId>> = <<a, p>> THEN fillOf(legs[k], 0) ELSE 0
      BY <1>2, <2>1 DEF Tally
    <3>3. Gained(legs, k, a, p, 0) > 0
      <4> HIDE DEF x
      <4> QED BY <2>3, <3>1, <3>2
    <3> QED BY <3>3
  <2>5. ASSUME NeverCharged(r[k-1].deltas, a) PROVE Bought(k) \/ NeverCharged(r[k].deltas, a)
    <3>1. CASE legs[k].fill = 0
      BY <2>2, <2>5, <3>1 DEF afterLeg
    <3>2. CASE legs[k].fill # 0 /\ x.maker = a /\ x.side = 0
      <4>1. /\ Gained(legs, k-1, a, pos, 0) \in Nat
            /\ Gained(legs, k, a, pos, 0) = Gained(legs, k-1, a, pos, 0)
               + IF <<x.maker, x.positionId>> = <<a, pos>> THEN fillOf(legs[k], 0) ELSE 0
        BY <1>2, <2>1 DEF Tally
      <4>2. fillOf(legs[k], 0) = legs[k].fill /\ <<x.maker, x.positionId>> = <<a, pos>>
        BY <3>2 DEF fillOf
      <4>3. Gained(legs, k, a, pos, 0) = Gained(legs, k-1, a, pos, 0) + legs[k].fill
        BY <4>1, <4>2
      <4>4. Gained(legs, k, a, pos, 0) > 0
        <5> HIDE DEF x, pos
        <5> QED BY <2>3, <3>2, <4>1, <4>3
      <4> QED BY <2>3, <4>4
    <3>3. CASE legs[k].fill # 0 /\ (x.maker # a \/ x.side # 0)
      <4>1. r[k].deltas = accrue(r[k-1].deltas, x.maker, credit(legs[k]))
        BY <2>2, <3>3 DEF afterLeg
      <4>2. credit(legs[k]) \in Int
        BY <1>0, <2>1, CreditType
      <4>3. x.maker # a \/ credit(legs[k]) \in Nat
        BY <2>1, <3>3, SalePays
      <4>4. r[k-1].deltas \in Seq(Delta(Users))
        BY <1>1, <2>1
      <4> HIDE DEF x
      <4>5. NeverCharged(accrue(r[k-1].deltas, x.maker, credit(legs[k])), a)
        BY <2>3, <2>5, <4>2, <4>3, <4>4, AccrueCredit
      <4> QED BY <4>1, <4>5
    <3> QED BY <3>1, <3>2, <3>3
  <2>6. Bought(k-1) \/ NeverCharged(r[k-1].deltas, a)
    BY <1>4
  <2> HIDE DEF Bought
  <2> QED BY <2>1, <2>4, <2>5, <2>6
<1>5. \A k \in 0..Len(legs) : k \in S
  <2> HIDE DEF S
  <2> QED BY <1>0, <1>3, <1>4, UpTo
<1> QED
  BY <1>5 DEF r

\* A user none of whose entries is a charge keeps at least the balance it had.
LEMMA UnchargedKeep ==
  ASSUME Rates, filledAmount \in [Orders -> Nat], balances \in [Accounts -> Nat], NEW legs \in Seq(Leg),
         NEW a \in Users, NeverCharged(Loop(legs)[Len(legs)].deltas, a)
  PROVE  Outcome(balances, netDeltas(legs)).table[a] >= balances[a]
<1> DEFINE d == Loop(legs)[Len(legs)].deltas
           x == [account |-> Exchange, amount |-> Loop(legs)[Len(legs)].net]
           q == netDeltas(legs)
<1>1. q \in Seq(Delta(Accounts)) /\ Apart(q) /\ d \in Seq(Delta(Users))
  BY NetDeltasApart
<1>2. /\ Len(d) \in Nat /\ Len(q) = Len(d) + 1 /\ DOMAIN d = 1..Len(d)
      /\ q[Len(d) + 1].account = Exchange /\ \A i \in 1..Len(d) : q[i] = d[i]
  <2>1. q = Append(d, x) /\ x.account = Exchange
    BY DEF netDeltas
  <2>2. x \in Delta(Accounts) /\ d \in Seq(Delta(Accounts))
    <3>1. Len(legs) \in 0..Len(legs)
      OBVIOUS
    <3>2. Loop(legs)[Len(legs)] \in LoopStates
      BY <3>1, LoopType
    <3> QED BY <3>2 DEF LoopStates, Delta, Accounts
  <2> HIDE DEF q, d, x
  <2> QED BY <2>1, <2>2
<1>3. a \in Accounts /\ a # Exchange /\ balances[a] \in Nat /\ balances \in [Accounts -> Int]
  BY ExchangeIsNoUser DEF Accounts
<1>4. NeverCharged(d, a)
  OBVIOUS
<1> HIDE DEF d, q, x
<1>9. Shifted(balances, q, a)
  BY <1>1, <1>3, RunningShift
<1>5. \A i \in 1..Len(q) : q[i].account = a =>
         \A n \in i..Len(q) : Running(balances, q)[n].table[a] = balances[a] + q[i].amount
  BY <1>9 DEF Shifted
<1>8. (\A i \in 1..Len(q) : q[i].account # a) =>
         \A n \in 0..Len(q) : Running(balances, q)[n].table[a] = balances[a]
  BY <1>9 DEF Shifted
<1>6. CASE \A i \in 1..Len(q) : q[i].account # a
  <2>1. Len(q) \in 0..Len(q)
    BY <1>2
  <2>2. Running(balances, q)[Len(q)].table[a] = balances[a]
    BY <1>6, <1>8, <2>1
  <2> QED BY <1>3, <2>2 DEF Outcome, q
<1>7. ASSUME NEW i \in 1..Len(q), q[i].account = a
      PROVE  Outcome(balances, q).table[a] >= balances[a]
  <2>1. i \in 1..Len(d)
    BY <1>2, <1>3, <1>7
  <2>2. q[i].amount \in Nat
    BY <1>2, <1>4, <1>7, <2>1 DEF NeverCharged
  <2>3. Len(q) \in i..Len(q)
    BY <1>2
  <2>4. Running(balances, q)[Len(q)].table[a] = balances[a] + q[i].amount
    BY <1>5, <1>7, <2>3
  <2> QED BY <1>3, <2>2, <2>4 DEF Outcome
<1> QED
  BY <1>6, <1>7 DEF q

\* The balances after a batch's deltas are integers.
LEMMA BalancesAfter ==
  ASSUME Rates, filledAmount \in [Orders -> Nat], balances \in [Accounts -> Nat], NEW legs \in Seq(Leg)
  PROVE  Outcome(balances, netDeltas(legs)).table \in [Accounts -> Int]
<1> DEFINE q == netDeltas(legs)
<1>1. q \in Seq(Delta(Accounts))
  BY NetDeltasApart
<1> HIDE DEF q
<1>2. Running(balances, q) \in [0..Len(q) -> Tables(Accounts)]
  BY <1>1, RunningType
<1>3. Len(q) \in 0..Len(q)
  BY <1>1
<1>4. Running(balances, q)[Len(q)] \in Tables(Accounts)
  BY <1>2, <1>3
<1> QED
  BY <1>4 DEF Outcome, Tables, q

\* A settlement moves a user's shares exactly as the fills of orders that user signed say, and takes
\* money only from users who bought: no sale is ever charged more than it brings.
THEOREM TradesAreSignedHolds == Spec => TradesAreSigned
<1> DEFINE FillsSigned == \A o \in Orders : filledAmount'[o] # filledAmount[o] => o \in Signed
           SharesFollow == \A a \in Users, p \in Positions :
                             shares'[<<a, p>>] - shares[<<a, p>>] = FilledOf(a, p, 0) - FilledOf(a, p, 1)
           BuyersPay == \A a \in Users : balances'[a] < balances[a]
                                           => \E p \in Positions : FilledOf(a, p, 0) > 0
<1>1. TypeOK /\ IInv /\ [Next]_vars => [Settled => FillsSigned /\ SharesFollow /\ BuyersPay]_vars
  <2> SUFFICES ASSUME TypeOK, IInv, [Next]_vars, Settled
               PROVE  FillsSigned /\ SharesFollow /\ BuyersPay
    OBVIOUS
  <2>1. PICK b \in BatchIds, legs \in Batches : settleBatch(b, legs)
    BY SettlementsSettle
  <2>2. legs \in Seq(Leg) /\ OwnTypes /\ Rates /\ filledAmount \in [Orders -> Nat] /\ balances \in [Accounts -> Nat]
    BY BatchesTyped, RatesTyped DEF IInv, TypeOK, C!TypeOK, OwnTypes
  <2>3. /\ shares' = Outcome(shares, transfers(legs)).table
        /\ filledAmount' = Loop(legs)[Len(legs)].filled
        /\ balances' = Outcome(balances, netDeltas(legs)).table
    BY <2>1, SameOutcome DEF settleBatch, settleCtf, C!applyNetDeltas
  <2>4. FillsSigned
    BY Step DEF Live
  <2>5. ASSUME NEW a, NEW p, NEW side
        PROVE  FilledOf(a, p, side) = Gained(legs, Len(legs), a, p, side)
    BY <2>3 DEF FilledOf, Gained, OrdersOf
  <2>6. ASSUME NEW a \in Users, NEW p \in Positions
        PROVE  shares'[<<a, p>>] - shares[<<a, p>>] = FilledOf(a, p, 0) - FilledOf(a, p, 1)
    <3> DEFINE x == shares[<<a, p>>]
               y == shares'[<<a, p>>]
               u == Gained(legs, Len(legs), a, p, 0)
               v == Gained(legs, Len(legs), a, p, 1)
    <3>1. y = x + (u - v)
      BY <2>2, <2>3, UserColumn
    <3>2. x \in Nat
      BY <2>2 DEF OwnTypes, Holdings, Accounts
    <3>3. u \in Nat /\ v \in Nat
      <4>1. 0 \in Nat /\ 1 \in Nat /\ Len(legs) \in 0..Len(legs)
        BY <2>2
      <4>2. Tally(legs, a, p, 0) /\ Tally(legs, a, p, 1)
        BY <2>2, <4>1, GainedSteps
      <4> QED BY <4>1, <4>2 DEF Tally
    <3> HIDE DEF x, y, u, v
    <3>4. y - x = u - v
      BY <3>1, <3>2, <3>3
    <3> QED BY <2>5, <3>4 DEF x, y, u, v
  <2>7. ASSUME NEW a \in Users, balances'[a] < balances[a]
        PROVE  \E p \in Positions : FilledOf(a, p, 0) > 0
    <3>1. Len(legs) \in 0..Len(legs)
      BY <2>2
    <3>2. ~ NeverCharged(Loop(legs)[Len(legs)].deltas, a)
      <4> SUFFICES ASSUME NeverCharged(Loop(legs)[Len(legs)].deltas, a) PROVE FALSE
        OBVIOUS
      <4>1. balances'[a] >= balances[a]
        BY <2>2, <2>3, UnchargedKeep
      <4>2. balances[a] \in Nat
        BY <2>2 DEF Accounts
      <4>3. balances' \in [Accounts -> Int]
        BY <2>2, <2>3, BalancesAfter
      <4>4. balances'[a] \in Int
        BY <4>3 DEF Accounts
      <4> QED BY <2>7, <4>1, <4>2, <4>4
    <3>3. \E p \in Positions : Gained(legs, Len(legs), a, p, 0) > 0
      BY <2>2, <3>1, <3>2, OnlyBuyersCharged
    <3> QED BY <2>5, <3>3
  <2> QED BY <2>4, <2>6, <2>7
<1> QED
  BY <1>1, TypeCorrect, Invariance, PTL DEF Spec, TradesAreSigned

==============================================================================
