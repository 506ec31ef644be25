--------------------------- MODULE GatewayProofs ---------------------------
(***************************************************************************)
(* What holds of the gateway for every set of signed orders, any number of *)
(* requests under way, and however often statements fail, the indexer      *)
(* writes, or the process restarts.                                        *)
(*                                                                         *)
(* The balances: a request has a claim on the hold of its account from the *)
(* reservation until the hold is released, or for good once its row of     *)
(* holds is there.  The claims never add up to more than the hold, so that *)
(* a release finds what it gives back (IInv).                              *)
(*                                                                         *)
(* The books: an order is fresh until the matcher has taken it, and until  *)
(* then nothing trades it, rests it or names it in a fill.  So what place  *)
(* puts in a book is new to it, makers are never fresh, and every order    *)
(* takes before it makes: its row, which is marked filled when it makes,   *)
(* is not opened again by a later fill, and never has more than its amount *)
(* while it is open (MatcherInv).                                          *)
(***************************************************************************)
EXTENDS Gateway, LedgerLemmas

\* Is the hold of the account still owed to this request?
Claiming(i) == at[i] \in UnderWay \/ i \in holds

Claims(a) == [i \in Ids |-> IF Claiming(i) /\ account(sent[i]) = a
                              THEN required_collateral(sent[i]) ELSE 0]

Stages == {"idle", "accepted", "rejected"} \cup UnderWay

Types ==
    /\ available \in [Accounts -> Int]
    /\ hold \in [Accounts -> Nat]
    /\ indexed \in [Accounts -> Int]
    /\ at \in [Ids -> Stages]
    /\ holds \subseteq Ids
    /\ sent \in [Ids -> SignedOrders \cup {NoOrder}]

\* A request that has begun has its order; one that got as far as the queue has a row of holds.
Stored ==
    \A i \in Ids : /\ at[i] # "idle" => sent[i] \in SignedOrders
                   /\ at[i] \in {"held", "accepted"} => i \in holds
                   /\ i \in holds => at[i] \in {"held", "accepted", "rejected"}

Covered == \A a \in Accounts : Total(Claims(a)) <= hold[a]

IInv == Types /\ Stored /\ FundsConserved /\ Covered

-----------------------------------------------------------------------------
\* What a signed order requires is a positive amount, of an account of the table.
LEMMA RequiredType ==
  ASSUME NEW o \in SignedOrders
  PROVE  required_collateral(o) \in Nat \ {0} /\ account(o) \in Accounts
<1>1. /\ o.maker \in Users /\ o.position \in Positions
      /\ o.price \in Nat \ {0} /\ o.amount \in Nat \ {0} /\ Scale \in Nat \ {0}
  BY SignedOrdersTyped, BoundsTyped
<1>2. o.amount * o.price \in Nat \ {0}
  BY <1>1
<1>3. ASSUME NEW x \in Nat \ {0}, NEW d \in Nat \ {0} PROVE (x + d - 1) \div d \in Nat \ {0}
  BY <1>3
<1>4. (o.amount * o.price + Scale - 1) \div Scale \in Nat \ {0}
  BY <1>1, <1>2, <1>3
<1> QED
  BY <1>1, <1>4 DEF required_collateral, account, Accounts

\* A table of claims, and its sum.
LEMMA ClaimsType ==
  ASSUME Types, Stored, NEW a \in Accounts
  PROVE  /\ Claims(a) \in [Ids -> Nat]
         /\ IsFiniteSet(Ids)
         /\ Total(Claims(a)) \in Nat
<1>1. IsFiniteSet(Ids)
  BY BoundsTyped, FS_Interval DEF Ids
<1>2. ASSUME NEW i \in Ids, Claiming(i) PROVE required_collateral(sent[i]) \in Nat
  <2>1. sent[i] \in SignedOrders
    BY <1>2 DEF Types, Stored, Claiming, UnderWay
  <2> QED
    BY <2>1, RequiredType
<1>3. Claims(a) \in [Ids -> Nat]
  BY <1>2 DEF Claims
<1> QED
  BY <1>1, <1>3, UnitsFinite

\* While a request claims n, its account's hold has n.
LEMMA ClaimIsHeld ==
  ASSUME IInv, NEW i \in Ids, Claiming(i)
  PROVE  /\ account(sent[i]) \in Accounts
         /\ required_collateral(sent[i]) \in Nat \ {0}
         /\ required_collateral(sent[i]) <= hold[account(sent[i])]
<1>1. sent[i] \in SignedOrders
  BY DEF IInv, Types, Stored, Claiming, UnderWay
<1>2. account(sent[i]) \in Accounts /\ required_collateral(sent[i]) \in Nat \ {0}
  BY <1>1, RequiredType
<1> DEFINE a == account(sent[i])
           C == Claims(a)
<1>3. C \in [Ids -> Nat] /\ IsFiniteSet(Ids) /\ Total(C) \in Nat
  BY <1>2, ClaimsType DEF IInv
<1>4. C[i] = required_collateral(sent[i])
  BY DEF Claims
<1>5. C[i] <= Total(C)
  BY <1>3, AmountWithinTotal
<1>6. Total(C) <= hold[a] /\ hold[a] \in Nat
  BY <1>2 DEF IInv, Covered, Types
<1> QED
  BY <1>2, <1>3, <1>4, <1>5, <1>6

\* GREATEST(hold - n, 0)
LEMMA MaxIsGreatest ==
  ASSUME NEW x \in Nat, NEW n \in Nat, n <= x
  PROVE  Max({x - n, 0}) = x - n
<1>1. \A y \in {x - n, 0} : x - n >= y
  OBVIOUS
<1>2. PICK m \in {x - n, 0} : m = Max({x - n, 0}) /\ \A y \in {x - n, 0} : m >= y
  BY <1>1 DEF Max
<1> QED
  BY <1>1, <1>2

-----------------------------------------------------------------------------
(***************************************************************************)
(* Four ways in which the claims change: not at all, one more, one less,   *)
(* and down to those on record.                                            *)
(***************************************************************************)
LEMMA SameClaims ==
  ASSUME IInv, Types', Stored', UNCHANGED <<hold, sent>>,
         \A i \in Ids : Claiming(i)' <=> Claiming(i)
  PROVE  Covered'
<1>1. ASSUME NEW a \in Accounts PROVE Claims(a)' = Claims(a)
  BY DEF Claims, Types, account, required_collateral
<1> QED
  BY <1>1 DEF IInv, Covered

\* An order that begins to claim: its collateral has been added to the hold of its account.
LEMMA ClaimAdded ==
  ASSUME IInv, Types', Stored', NEW i \in Ids, ~Claiming(i), Claiming(i)',
         \A j \in Ids \ {i} : (Claiming(j)' <=> Claiming(j)) /\ sent'[j] = sent[j],
         NEW n \in Nat, n = required_collateral(sent'[i]),
         \A a \in Accounts : hold'[a] = IF a = account(sent'[i]) THEN hold[a] + n ELSE hold[a]
  PROVE  Covered'
<1> SUFFICES ASSUME NEW a \in Accounts PROVE Total(Claims(a)') <= hold'[a]
  BY DEF Covered
<1> DEFINE C == Claims(a)
           m == IF a = account(sent'[i]) THEN n ELSE 0
<1>1. C \in [Ids -> Nat] /\ IsFiniteSet(Ids) /\ Total(C) \in Nat /\ Total(C) <= hold[a] /\ hold[a] \in Nat
  BY ClaimsType DEF IInv, Covered, Types
<1>2. Claims(a)' = [C EXCEPT ![i] = m]
  <2>1. Claims(a)' = [j \in Ids |-> IF Claiming(j)' /\ account(sent'[j]) = a
                                      THEN required_collateral(sent'[j]) ELSE 0]
    BY DEF Claims, account, required_collateral
  <2>2. ASSUME NEW j \in Ids
        PROVE  (IF Claiming(j)' /\ account(sent'[j]) = a THEN required_collateral(sent'[j]) ELSE 0)
                 = IF j = i THEN m ELSE C[j]
    BY DEF Claims
  <2>3. C \in [Ids -> Nat]
    BY <1>1
  <2> HIDE DEF C, m
  <2> QED BY <2>1, <2>2, <2>3
<1>3. C[i] = 0
  BY DEF Claims
<1>5. hold'[a] = hold[a] + m /\ m \in Nat
  BY <1>1
<1> HIDE DEF C, m
<1>6. PICK k \in Nat : k = m
  BY <1>5
<1>4. Total([C EXCEPT ![i] = k]) = Total(C) - C[i] + k
  <2>1. k \in Nat /\ i \in Ids /\ C \in [Ids -> Nat] /\ IsFiniteSet(Ids)
    BY <1>1
  <2> QED
    BY ONLY <2>1, TotalUpdate, Zenon
<1> QED
  BY <1>1, <1>2, <1>3, <1>4, <1>5, <1>6

\* An order that claims no collateral any more, its hold released with it or not, leaves every account covered.
LEMMA ClaimDropped ==
  ASSUME IInv, Types', Stored', NEW i \in Ids, Claiming(i), ~Claiming(i)', UNCHANGED sent,
         \A j \in Ids \ {i} : Claiming(j)' <=> Claiming(j),
         \/ UNCHANGED hold
         \/ \A a \in Accounts : hold'[a] = IF a = account(sent[i])
                                             THEN hold[a] - required_collateral(sent[i]) ELSE hold[a]
  PROVE  Covered'
<1> SUFFICES ASSUME NEW a \in Accounts PROVE Total(Claims(a)') <= hold'[a]
  BY DEF Covered
<1> DEFINE C == Claims(a)
           n == IF a = account(sent[i]) THEN required_collateral(sent[i]) ELSE 0
<1>1. C \in [Ids -> Nat] /\ IsFiniteSet(Ids) /\ Total(C) \in Nat /\ Total(C) <= hold[a] /\ hold[a] \in Nat
  BY ClaimsType DEF IInv, Covered, Types
<1>2. Claims(a)' = [C EXCEPT ![i] = 0]
  BY DEF Claims, account, required_collateral
<1>3. C[i] = n /\ n \in Nat
  BY ClaimIsHeld DEF Claims
<1>5. hold'[a] = hold[a] \/ hold'[a] = hold[a] - n
  BY <1>1
<1> HIDE DEF C, n
<1>4. Total([C EXCEPT ![i] = 0]) = Total(C) - C[i] + 0
  <2>1. 0 \in Nat /\ i \in Ids /\ C \in [Ids -> Nat] /\ IsFiniteSet(Ids)
    BY <1>1
  <2> QED
    BY ONLY <2>1, TotalUpdate, Zenon
<1> QED
  BY <1>1, <1>2, <1>3, <1>4, <1>5

-----------------------------------------------------------------------------
\* What a step has to keep, and that it is a step of an escrow.
Kept == IInv' /\ [Collateral!Next]_(Collateral!vars)

\* Steps that touch neither balances, nor holds, nor the stage of a request.
LEMMA AsideStep ==
  ASSUME IInv, UNCHANGED <<available, hold, indexed, at, sent, holds>>
  PROVE  Kept
<1>1. Types' /\ Stored' /\ FundsConserved'
  BY DEF IInv, Types, Stored, FundsConserved
<1>2. Covered'
  BY <1>1, SameClaims DEF Claiming
<1> QED
  BY <1>1, <1>2 DEF Kept, IInv, Collateral!vars

\* Steps that only move a request on, with its claim as it was.
LEMMA MovingStep ==
  ASSUME IInv, NEW i \in Ids, UNCHANGED <<available, hold, indexed, sent>>,
         NEW from, NEW to, step(i, from, to),
         \/ holds' = holds /\ from \in {"reserved", "inserted"} /\ to \in {"inserted", "releasing"}
         \/ holds' = holds \cup {i} /\ from = "inserted" /\ to = "held"
         \/ holds' = holds /\ from = "held" /\ to \in {"accepted", "rejected"}
  PROVE  Kept
<1>1. Types' /\ FundsConserved'
  BY DEF IInv, Types, FundsConserved, step, Stages, UnderWay
<1>2. Stored'
  BY DEF IInv, Types, Stored, step
<1>3. \A j \in Ids : Claiming(j)' <=> Claiming(j)
  BY DEF IInv, Types, Stored, Claiming, step, UnderWay
<1>4. Covered'
  BY <1>1, <1>2, <1>3, SameClaims
<1> QED
  BY <1>1, <1>2, <1>4 DEF Kept, IInv, Collateral!vars

\* A reservation takes what is free and adds a claim to the hold.
LEMMA ReserveStep ==
  ASSUME IInv, NEW i \in Ids, NEW o \in SignedOrders, reserve_collateral(i, o)
  PROVE  Kept
<1> DEFINE a == account(o)
           n == required_collateral(o)
<1>1. a \in Accounts /\ n \in Nat \ {0}
  BY RequiredType
<1>2. /\ at[i] = "idle" /\ at' = [at EXCEPT ![i] = "reserved"] /\ sent' = [sent EXCEPT ![i] = o]
      /\ available[a] >= n
      /\ available' = [available EXCEPT ![a] = available[a] - n]
      /\ hold' = [hold EXCEPT ![a] = hold[a] + n]
      /\ holds' = holds /\ indexed' = indexed
  BY DEF reserve_collateral, step, world
<1> HIDE DEF a, n
<1>3. Types' /\ FundsConserved'
  BY <1>1, <1>2 DEF IInv, Types, FundsConserved, Stages, UnderWay
<1>4. Stored'
  BY <1>2 DEF IInv, Types, Stored
<1>5. Covered'
  <2>1. ~Claiming(i) /\ Claiming(i)'
    BY <1>2 DEF IInv, Types, Stored, Claiming, UnderWay
  <2>2. \A j \in Ids \ {i} : (Claiming(j)' <=> Claiming(j)) /\ sent'[j] = sent[j]
    BY <1>2 DEF IInv, Types, Claiming
  <2>3. sent'[i] = o
    BY <1>2 DEF IInv, Types
  <2>4. \A b \in Accounts : hold'[b] = IF b = account(sent'[i]) THEN hold[b] + n ELSE hold[b]
    BY <1>1, <1>2, <2>3 DEF IInv, Types, a
  <2>5. n = required_collateral(sent'[i]) /\ n \in Nat
    BY <1>1, <2>3 DEF n
  <2> QED
    BY <1>3, <1>4, <2>1, <2>2, <2>4, <2>5, ClaimAdded
<1>6. Collateral!Reserve(a)
  <2>1. n \in 1..available[a]
    BY <1>1, <1>2 DEF IInv, Types
  <2> QED
    BY <1>2, <2>1 DEF Collateral!Reserve, Collateral!Shift
<1> QED
  BY <1>1, <1>3, <1>4, <1>5, <1>6 DEF Kept, IInv, Collateral!Next

\* A release gives back one claim, and finds it in the hold.
LEMMA ReleaseStep ==
  ASSUME IInv, NEW i \in Ids, release_collateral(i)
  PROVE  Kept
<1> DEFINE a == account(sent[i])
           n == required_collateral(sent[i])
<1>1. at[i] = "releasing" /\ Claiming(i) /\ i \notin holds
  BY DEF release_collateral, step, Claiming, UnderWay, IInv, Stored
<1>2. a \in Accounts /\ n \in Nat \ {0} /\ n <= hold[a]
  BY <1>1, ClaimIsHeld
<1>3. Max({hold[a] - n, 0}) = hold[a] - n
  BY <1>2, MaxIsGreatest DEF IInv, Types
<1>4. /\ at' = [at EXCEPT ![i] = "rejected"] /\ sent' = sent
      /\ available' = [available EXCEPT ![a] = available[a] + n]
      /\ hold' = [hold EXCEPT ![a] = hold[a] - n]
      /\ holds' = holds /\ indexed' = indexed
  BY <1>3 DEF release_collateral, step, world
<1>5. ~Claiming(i)' /\ \A j \in Ids \ {i} : Claiming(j)' <=> Claiming(j)
  BY <1>1, <1>4 DEF IInv, Types, Claiming, UnderWay
<1>6. \A b \in Accounts : hold'[b] = IF b = account(sent[i])
                                     THEN hold[b] - required_collateral(sent[i]) ELSE hold[b]
  BY <1>2, <1>4 DEF IInv, Types
<1> HIDE DEF a, n
<1>7. Types' /\ FundsConserved'
  BY <1>2, <1>4 DEF IInv, Types, FundsConserved, Stages, UnderWay
<1>8. Stored'
  BY <1>1, <1>4 DEF IInv, Types, Stored
<1>9. Covered'
  BY <1>1, <1>4, <1>5, <1>6, <1>7, <1>8, ClaimDropped
<1>10. Collateral!Release(a)
  <2>1. n \in 1..hold[a] /\ available[a] - (-n) = available[a] + n /\ hold[a] + (-n) = hold[a] - n
    BY <1>2 DEF IInv, Types
  <2> QED
    BY <1>4, <2>1 DEF Collateral!Release, Collateral!Shift
<1> QED
  BY <1>2, <1>7, <1>8, <1>9, <1>10 DEF Kept, IInv, Collateral!Next

\* A release that fails leaves its claim in the hold, for nobody.
LEMMA ReleaseFailsStep ==
  ASSUME IInv, NEW i \in Ids, releaseFails(i)
  PROVE  Kept
<1>1. /\ at[i] = "releasing" /\ at' = [at EXCEPT ![i] = "rejected"]
      /\ UNCHANGED <<available, hold, holds, sent, indexed>>
  BY DEF releaseFails, step, database, failure
<1>2. Claiming(i) /\ ~Claiming(i)' /\ \A j \in Ids \ {i} : Claiming(j)' <=> Claiming(j)
  BY <1>1 DEF IInv, Types, Stored, Claiming, UnderWay
<1>3. Types' /\ FundsConserved'
  BY <1>1 DEF IInv, Types, FundsConserved, Stages, UnderWay
<1>4. Stored'
  BY <1>1 DEF IInv, Types, Stored
<1>5. Covered'
  BY <1>1, <1>2, <1>3, <1>4, ClaimDropped
<1> QED
  BY <1>1, <1>3, <1>4, <1>5 DEF Kept, IInv, Collateral!vars

\* A request that is dropped keeps its claim if its hold is on record; if not, the claim stays in the
\* hold, for nobody.
LEMMA DisconnectedStep ==
  ASSUME IInv, NEW i \in Ids, disconnected(i)
  PROVE  Kept
<1>1. /\ at[i] \in UnderWay /\ at' = [at EXCEPT ![i] = "rejected"]
      /\ UNCHANGED <<available, hold, holds, sent, indexed>>
  BY DEF disconnected, database, failure
<1>2. Types' /\ FundsConserved'
  BY <1>1 DEF IInv, Types, FundsConserved, Stages, UnderWay
<1>3. Stored'
  BY <1>1 DEF IInv, Types, Stored, UnderWay
<1>4. Claiming(i) /\ (Claiming(i)' <=> i \in holds) /\ \A j \in Ids \ {i} : Claiming(j)' <=> Claiming(j)
  BY <1>1 DEF IInv, Types, Claiming, UnderWay
<1>5. CASE i \in holds
  BY <1>1, <1>2, <1>3, <1>4, <1>5, SameClaims DEF Kept, IInv, Collateral!vars
<1>6. CASE i \notin holds
  <2>1. Covered'
    BY <1>1, <1>2, <1>3, <1>4, <1>6, ClaimDropped
  <2> QED BY <1>1, <1>2, <1>3, <2>1 DEF Kept, IInv, Collateral!vars
<1> QED
  BY <1>5, <1>6

\* The holds on record are claims.
LEMMA OnRecord ==
  ASSUME IInv
  PROVE  HoldsCovered
<1> SUFFICES ASSUME NEW a \in Accounts
             PROVE  Total([i \in Ids |-> IF i \in holds /\ account(sent[i]) = a
                                          THEN required_collateral(sent[i]) ELSE 0]) <= hold[a]
  BY DEF HoldsCovered
<1> DEFINE C == Claims(a)
           D == [i \in Ids |-> IF i \in holds /\ account(sent[i]) = a
                                 THEN required_collateral(sent[i]) ELSE 0]
<1>1. C \in [Ids -> Nat] /\ IsFiniteSet(Ids) /\ Total(C) <= hold[a] /\ hold[a] \in Nat
  BY ClaimsType DEF IInv, Covered, Types
<1>2. D \in [Ids -> Nat] /\ \A i \in Ids : D[i] <= C[i]
  BY <1>1 DEF Claims, Claiming
<1> HIDE DEF C, D
<1>3. Total(D) <= Total(C) /\ Total(D) \in Nat /\ Total(C) \in Nat
  BY <1>1, <1>2, TotalMonotone, UnitsFinite
<1>4. Total(D) <= hold[a]
  BY <1>1, <1>3
<1> QED
  BY <1>4 DEF D

\* After a restart the claims are those on record.
LEMMA RestartStep ==
  ASSUME IInv, Restart
  PROVE  Kept
<1>1. /\ at' = [i \in Ids |-> IF at[i] \in UnderWay THEN "rejected" ELSE at[i]]
      /\ UNCHANGED <<available, hold, holds, sent, indexed>>
  BY DEF Restart, database
<1>2. Types' /\ FundsConserved'
  BY <1>1 DEF IInv, Types, FundsConserved, Stages, UnderWay
<1>3. Stored'
  BY <1>1 DEF IInv, Types, Stored, UnderWay
<1>4. ASSUME NEW a \in Accounts PROVE Total(Claims(a))' <= hold'[a]
  <2> DEFINE D == [i \in Ids |-> IF i \in holds /\ account(sent[i]) = a
                                   THEN required_collateral(sent[i]) ELSE 0]
  <2>1. Claims(a)' = D
    BY <1>1 DEF Claims, Claiming, account, required_collateral, UnderWay
  <2>2. Total(D) <= hold[a]
    BY OnRecord DEF HoldsCovered
  <2>3. Total(Claims(a))' = Total(D)
    BY <2>1 DEF Total, Units
  <2> QED
    BY <1>1, <2>2, <2>3
<1> QED
  BY <1>1, <1>2, <1>3, <1>4 DEF Kept, IInv, Covered, Collateral!vars

\* A deposit or withdrawal the indexer adds is a credit or a debit of what is free, and moves no hold.
LEMMA IndexedStep ==
  ASSUME IInv, NEW c \in Indexed, indexedBalance(c[1], c[2])
  PROVE  Kept
<1> DEFINE a == <<c[1], "usdc">>
           n == c[2]
<1>1. a \in Accounts /\ n \in Int
  BY BoundsTyped DEF Accounts
<1>2. /\ available' = [available EXCEPT ![a] = available[a] + n]
      /\ indexed' = [indexed EXCEPT ![a] = indexed[a] + n]
      /\ UNCHANGED <<hold, holds, at, sent>>
  BY DEF indexedBalance, requests
<1> HIDE DEF a, n
<1>3. Types' /\ Stored' /\ FundsConserved'
  <2>1. Types'
    BY <1>1, <1>2 DEF IInv, Types
  <2>2. Stored'
    BY <1>2 DEF IInv, Stored
  <2>3. ASSUME NEW b \in Accounts PROVE available'[b] + hold'[b] = Wealth + indexed'[b]
    <3>1. /\ available'[b] = IF b = a THEN available[b] + n ELSE available[b]
          /\ indexed'[b] = IF b = a THEN indexed[b] + n ELSE indexed[b]
      BY <1>1, <1>2 DEF IInv, Types
    <3>2. /\ available[b] \in Int /\ indexed[b] \in Int /\ hold[b] \in Int /\ Wealth \in Int
          /\ available[b] + hold[b] = Wealth + indexed[b]
      BY BoundsTyped DEF IInv, Types, FundsConserved
    <3> QED
      BY <1>1, <1>2, <3>1, <3>2
  <2> QED
    BY <2>1, <2>2, <2>3 DEF FundsConserved
<1>4. Covered'
  BY <1>2, <1>3, SameClaims DEF Claiming
<1>5. Collateral!Credit(a)
  <2>1. available'[a] = available[a] + n /\ indexed[a] + available'[a] - available[a] = indexed[a] + n
    BY <1>1, <1>2 DEF IInv, Types
  <2> QED
    BY <1>1, <1>2, <2>1 DEF Collateral!Credit
<1> QED
  BY <1>1, <1>3, <1>4, <1>5 DEF Kept, IInv, Collateral!Next

-----------------------------------------------------------------------------
\* The invariant and the start of the escrow, at first.
LEMMA Initially == Init => IInv /\ Collateral!Init
<1> SUFFICES ASSUME Init PROVE IInv /\ Collateral!Init
  OBVIOUS
<1>1. Types /\ FundsConserved
  BY BoundsTyped DEF Init, Types, FundsConserved, Stages
<1>2. Stored
  BY DEF Init, Stored
<1>3. ASSUME NEW a \in Accounts PROVE Total(Claims(a)) <= hold[a]
  <2>1. Claims(a) = [i \in Ids |-> 0]
    BY DEF Init, Claims, Claiming, UnderWay
  <2>2. Total(Claims(a)) = 0
    BY <2>1, TotalOfZeros
  <2> QED
    BY <2>2 DEF Init
<1>4. Collateral!Init
  BY BoundsTyped DEF Init, Collateral!Init
<1> QED
  BY <1>1, <1>2, <1>3, <1>4 DEF IInv, Covered

\* The statements of accept_order: each keeps the invariant and is a step of the escrow or a stutter.
LEMMA AcceptStep ==
  ASSUME IInv, NEW i \in Ids, AcceptOrder(i)
  PROVE  Kept
<1>1. CASE \E o \in SignedOrders : reserve_collateral(i, o)
  BY <1>1, ReserveStep
<1>2. CASE insert_order(i)
  BY <1>2, MovingStep DEF insert_order, world
<1>3. CASE insert_hold(i)
  BY <1>3, MovingStep DEF insert_hold, world
<1>4. CASE insertFails(i)
  BY <1>4, MovingStep DEF insertFails, failure, database
<1>5. CASE release_collateral(i)
  BY <1>5, ReleaseStep
<1>6. CASE releaseFails(i)
  BY <1>6, ReleaseFailsStep
<1>7. CASE enqueue(i)
  BY <1>7, MovingStep DEF enqueue, database, world
<1>8. CASE enqueueFails(i)
  BY <1>8, MovingStep DEF enqueueFails, database, world
<1>9. CASE disconnected(i)
  BY <1>9, DisconnectedStep
<1> QED
  BY <1>1, <1>2, <1>3, <1>4, <1>5, <1>6, <1>7, <1>8, <1>9 DEF AcceptOrder

\* Every step of the gateway keeps the invariant and is a step of an escrow.
LEMMA Step == IInv /\ [Next]_vars => Kept
<1> SUFFICES ASSUME IInv, [Next]_vars PROVE Kept
  OBVIOUS
<1>1. CASE \E i \in Ids : AcceptOrder(i)
  BY <1>1, AcceptStep
<1>2. CASE \E i \in Ids : CancelOrder(i)
  BY <1>2, AsideStep DEF CancelOrder, cancel_order, cancel_order_db, cancelFails, failure, database, world
<1>3. CASE PlaceOrder
  BY <1>3, AsideStep DEF PlaceOrder, database, requests, world
<1>4. CASE CancelInBook
  BY <1>4, AsideStep DEF CancelInBook, database, requests, world
<1>5. CASE ProcessMatchResult
  BY <1>5, AsideStep DEF ProcessMatchResult, publish_match, updateMaker, updateTaker, storing, failure,
                         database, requests, world
<1>6. CASE \E c \in Indexed : indexedBalance(c[1], c[2])
  BY <1>6, IndexedStep
<1>7. CASE Restart
  BY <1>7, RestartStep
<1>8. CASE UNCHANGED vars
  BY <1>8, AsideStep DEF vars, database, requests, world
<1> QED
  BY <1>1, <1>2, <1>3, <1>4, <1>5, <1>6, <1>7, <1>8 DEF Next

\* The inductive invariant holds throughout.
LEMMA Invariance == Spec => []IInv
<1>1. IInv /\ [Next]_vars => IInv'
  BY Step DEF Kept
<1> QED
  BY <1>1, Initially, PTL DEF Spec

-----------------------------------------------------------------------------
\* The balances table is an escrow: however requests interleave and statements fail, nothing is reserved
\* beyond what is free, and what is given back was held and is given back once.
THEOREM GatewayImplementsEscrow == Spec => ImplementsEscrow
<1>1. IInv /\ [Next]_vars => [Collateral!Next]_(Collateral!vars)
  BY Step DEF Kept
<1> QED
  BY <1>1, Initially, Invariance, PTL DEF Spec, ImplementsEscrow, Collateral!Spec

\* What an account has, free and held, is what it started with and what the indexer added.
THEOREM FundsConservedHolds == Spec => []FundsConserved
<1>1. IInv => FundsConserved
  BY DEF IInv
<1> QED
  BY <1>1, Invariance, PTL

\* The holds on record never add up to more than the hold amount of their account.
THEOREM HoldsCoveredHolds == Spec => []HoldsCovered
<1>1. IInv => HoldsCovered
  BY OnRecord
<1> QED
  BY <1>1, Invariance, PTL

-----------------------------------------------------------------------------
(* Sums over fills.                                                        *)

Fills == [maker : Ids, taker : Ids, price : Nat, amount : Nat]

\* What the fills of a sequence that are in T amount to.
Part(s, T) == Total([k \in DOMAIN s |-> IF s[k] \in T THEN s[k].amount ELSE 0])

Involving(i) == {f \in Fills : i \in {f.maker, f.taker}}
TakenBy(i)   == {f \in Fills : f.taker = i}

\* A part of a sequence of fills is the sum of a row of amounts.
LEMMA PartType ==
  ASSUME NEW T, NEW s \in Seq(Fills)
  PROVE  /\ [k \in DOMAIN s |-> IF s[k] \in T THEN s[k].amount ELSE 0] \in [1..Len(s) -> Nat]
         /\ IsFiniteSet(1..Len(s)) /\ Len(s) \in Nat
         /\ Part(s, T) \in Nat
<1>1. DOMAIN s = 1..Len(s) /\ Len(s) \in Nat /\ 1 \in Int
  OBVIOUS
<1>2. IsFiniteSet(1..Len(s))
  BY <1>1, FS_Interval
<1>3. ASSUME NEW k \in 1..Len(s) PROVE s[k].amount \in Nat
  <2>1. s[k] \in Fills
    OBVIOUS
  <2> QED BY <2>1 DEF Fills
<1> DEFINE f == [k \in DOMAIN s |-> IF s[k] \in T THEN s[k].amount ELSE 0]
<1>4. f \in [1..Len(s) -> Nat]
  BY <1>1, <1>3
<1> HIDE DEF f
<1>5. Total(f) \in Nat
  BY <1>2, <1>4, UnitsFinite
<1> QED
  BY <1>1, <1>2, <1>4, <1>5 DEF Part, f

\* Of two sequences, one after the other, it is the sum of the parts.
LEMMA PartJoin ==
  ASSUME NEW T, NEW s \in Seq(Fills), NEW t \in Seq(Fills)
  PROVE  s \o t \in Seq(Fills) /\ Part(s \o t, T) = Part(s, T) + Part(t, T)
<1> DEFINE f == [k \in DOMAIN s |-> IF s[k] \in T THEN s[k].amount ELSE 0]
           g == [k \in DOMAIN t |-> IF t[k] \in T THEN t[k].amount ELSE 0]
           u == s \o t
           h == [k \in DOMAIN u |-> IF u[k] \in T THEN u[k].amount ELSE 0]
<1>1. /\ u \in Seq(Fills) /\ Len(u) = Len(s) + Len(t)
      /\ \A k \in 1..Len(s) : u[k] = s[k]
      /\ \A k \in 1..Len(t) : u[Len(s) + k] = t[k]
  BY Joined
<1> HIDE DEF u
<1>2. /\ f \in [1..Len(s) -> Nat] /\ g \in [1..Len(t) -> Nat] /\ h \in [1..(Len(s) + Len(t)) -> Nat]
      /\ Len(s) \in Nat /\ Len(t) \in Nat
  BY <1>1, PartType
<1>3. \A k \in 1..Len(s) : h[k] = f[k]
  <2>1. ASSUME NEW k \in 1..Len(s) PROVE k \in DOMAIN s /\ k \in DOMAIN u
    BY <1>1, <1>2
  <2> QED BY <1>1, <2>1
<1>4. \A k \in 1..Len(t) : h[Len(s) + k] = g[k]
  <2>1. ASSUME NEW k \in 1..Len(t) PROVE k \in DOMAIN t /\ Len(s) + k \in DOMAIN u
    BY <1>1, <1>2
  <2> QED BY <1>1, <2>1
<1> HIDE DEF f, g, h
<1>5. Total(h) = Total(f) + Total(g)
  BY ONLY <1>2, <1>3, <1>4, TotalJoin, ZenonT(60)
<1> QED
  BY <1>1, <1>5 DEF f, g, h, Part, u

\* Of no fill, and of one.
LEMMA PartSingle ==
  ASSUME NEW T, NEW f \in Fills
  PROVE  /\ Part(<< >>, T) = 0
         /\ Part(<<f>>, T) = IF f \in T THEN f.amount ELSE 0
<1>1. Part(<< >>, T) = 0
  <2>1. << >> \in Seq(Fills) /\ Len(<< >>) = 0
    OBVIOUS
  <2>2. DOMAIN << >> = {}
    OBVIOUS
  <2>3. Units([k \in DOMAIN << >> |-> IF << >>[k] \in T THEN << >>[k].amount ELSE 0]) = {}
    BY <2>2 DEF Units
  <2> QED BY <2>3, FS_EmptySet DEF Part, Total
<1>2. Part(<<f>>, T) = IF f \in T THEN f.amount ELSE 0
  <2> DEFINE s == <<f>>
             n == IF f \in T THEN f.amount ELSE 0
             g == [k \in DOMAIN s |-> IF s[k] \in T THEN s[k].amount ELSE 0]
             z == [g EXCEPT ![1] = 0]
  <2>1. s \in Seq(Fills) /\ Len(s) = 1 /\ s[1] = f /\ DOMAIN s = 1..1
    OBVIOUS
  <2> HIDE DEF s
  <2>2. g \in [1..1 -> Nat] /\ IsFiniteSet(1..1) /\ 1 \in 1..1
    <3>1. g \in [1..Len(s) -> Nat] /\ IsFiniteSet(1..Len(s))
      BY <2>1, PartType
    <3> HIDE DEF g
    <3> QED BY <2>1, <3>1
  <2>3. g[1] = n /\ n \in Nat
    <3>1. 1 \in 1..1
      OBVIOUS
    <3>2. f.amount \in Nat
      BY DEF Fills
    <3> QED BY <2>1, <3>1, <3>2
  <2> HIDE DEF g, n
  <2>4. Total(z) \in Nat /\ Total(g) = Total(z) + g[1]
    BY <2>2, TotalSplit
  <2>5. z \in [1..1 -> Nat] /\ \A k \in 1..1 : z[k] = 0
    BY <2>2
  <2> HIDE DEF z
  <2>6. Total(z) = 0
    BY <2>2, <2>5, TotalZero
  <2>7. Total(g) = n
    BY <2>3, <2>4, <2>6
  <2> QED BY <2>7 DEF Part, g, n, s
<1> QED
  BY <1>1, <1>2

\* Of a queue of fills, the first and the rest.
LEMMA PartHead ==
  ASSUME NEW T, NEW s \in Seq(Fills), s # << >>
  PROVE  /\ Head(s) \in Fills /\ Tail(s) \in Seq(Fills)
         /\ Part(s, T) = Part(Tail(s), T) + (IF Head(s) \in T THEN Head(s).amount ELSE 0)
<1>1. Head(s) \in Fills /\ Tail(s) \in Seq(Fills) /\ s = <<Head(s)>> \o Tail(s)
  <2>1. /\ Head(s) = s[1] /\ Head(s) \in Fills /\ Tail(s) \in Seq(Fills)
        /\ Len(s) \in Nat \ {0} /\ Len(Tail(s)) = Len(s) - 1
        /\ \A k \in 1..(Len(s) - 1) : Tail(s)[k] = s[k+1]
    OBVIOUS
  <2> DEFINE t == Tail(s)
             u == <<Head(s)>> \o t
  <2>2. t \in Seq(Fills) /\ <<Head(s)>> \in Seq(Fills) /\ Len(<<Head(s)>>) = 1 /\ <<Head(s)>>[1] = s[1]
    BY <2>1
  <2> HIDE DEF t
  <2>3. /\ u \in Seq(Fills) /\ Len(u) = 1 + Len(t)
        /\ \A k \in 1..1 : u[k] = <<Head(s)>>[k]
        /\ \A k \in 1..Len(t) : u[1 + k] = t[k]
    BY <2>2, Joined
  <2> HIDE DEF u
  <2>4. Len(u) = Len(s)
    BY <2>1, <2>3 DEF t
  <2>5. ASSUME NEW k \in 1..Len(s) PROVE u[k] = s[k]
    <3>1. CASE k = 1
      BY <2>2, <2>3, <3>1
    <3>2. CASE k # 1
      <4>1. k - 1 \in 1..Len(t) /\ 1 + (k - 1) = k /\ k - 1 \in 1..(Len(s) - 1) /\ (k - 1) + 1 = k
        BY <2>1, <3>2 DEF t
      <4> QED BY <2>1, <2>3, <4>1 DEF t
    <3> QED BY <3>1, <3>2
  <2>6. u = s
    BY <2>3, <2>4, <2>5
  <2> QED BY <2>1, <2>6 DEF u, t
<1> DEFINE h == Head(s)
           t == Tail(s)
<1>2. h \in Fills /\ t \in Seq(Fills) /\ s = <<h>> \o t
  BY <1>1
<1> HIDE DEF h, t
<1>3. <<h>> \in Seq(Fills)
  BY <1>2
<1>4. Part(<<h>> \o t, T) = Part(<<h>>, T) + Part(t, T)
  BY <1>2, <1>3, PartJoin
<1>5. Part(<<h>>, T) = IF h \in T THEN h.amount ELSE 0
  BY <1>2, PartSingle
<1>6. Part(<<h>>, T) \in Nat /\ Part(t, T) \in Nat
  BY <1>2, <1>3, PartType
<1>7. Part(s, T) = Part(<<h>> \o t, T)
  BY ONLY <1>2, Zenon
<1>8. Part(s, T) = Part(t, T) + IF h \in T THEN h.amount ELSE 0
  BY ONLY <1>4, <1>5, <1>6, <1>7
<1> QED
  BY <1>2, <1>8 DEF h, t

\* It is nothing exactly when each of its fills is.
LEMMA PartZero ==
  ASSUME NEW T, NEW s \in Seq(Fills)
  PROVE  Part(s, T) = 0 <=> \A k \in 1..Len(s) : s[k] \in T => s[k].amount = 0
<1> DEFINE f == [k \in DOMAIN s |-> IF s[k] \in T THEN s[k].amount ELSE 0]
<1>1. f \in [1..Len(s) -> Nat] /\ IsFiniteSet(1..Len(s)) /\ DOMAIN s = 1..Len(s)
  BY PartType
<1>2. \A k \in 1..Len(s) : f[k] = IF s[k] \in T THEN s[k].amount ELSE 0
  BY <1>1
<1> HIDE DEF f
<1>3. Total(f) = 0 <=> \A k \in 1..Len(s) : f[k] = 0
  BY <1>1, TotalZero
<1> QED
  BY <1>2, <1>3 DEF Part, f

\* The sums of the order book and of the gateway are such parts.
LEMMA SumsAreParts ==
  ASSUME NEW s \in Seq(Fills)
  PROVE  /\ fillsTotal(s) = Part(s, Fills)
         /\ \A i : filledOf(i, s) = Part(s, Involving(i))
<1>1. \A k \in DOMAIN s : s[k] \in Fills
  OBVIOUS
<1>2. [k \in DOMAIN s |-> s[k].amount] = [k \in DOMAIN s |-> IF s[k] \in Fills THEN s[k].amount ELSE 0]
  BY <1>1
<1>3. ASSUME NEW i
      PROVE  [k \in DOMAIN s |-> IF i \in {s[k].maker, s[k].taker} THEN s[k].amount ELSE 0]
               = [k \in DOMAIN s |-> IF s[k] \in Involving(i) THEN s[k].amount ELSE 0]
  BY <1>1 DEF Involving
<1> QED
  BY <1>2, <1>3 DEF fillsTotal, filledOf, Part

-----------------------------------------------------------------------------
(* Sequences: a place inserted, a place removed.                           *)

\* InsertAt puts e between the first n and the others.
LEMMA InsertAtFacts ==
  ASSUME NEW S, NEW s \in Seq(S), NEW e \in S, NEW n \in 0..Len(s)
  PROVE  /\ InsertAt(s, n + 1, e) \in Seq(S)
         /\ Len(InsertAt(s, n + 1, e)) = Len(s) + 1
         /\ \A k \in 1..(Len(s) + 1) :
              InsertAt(s, n + 1, e)[k] = IF k <= n THEN s[k] ELSE IF k = n + 1 THEN e ELSE s[k-1]
<1> DEFINE a == SubSeq(s, 1, n)
           b == <<e>>
           c == SubSeq(s, n + 1, Len(s))
           ab == a \o b
<1>1. /\ a \in Seq(S) /\ Len(a) = n /\ \A k \in 1..n : a[k] = s[k]
      /\ n \in Nat /\ Len(s) \in Nat /\ n <= Len(s)
  OBVIOUS
<1>2. c \in Seq(S) /\ Len(c) = Len(s) - n /\ \A k \in 1..(Len(s) - n) : c[k] = s[n + k]
  OBVIOUS
<1>3. b \in Seq(S) /\ Len(b) = 1 /\ b[1] = e
  OBVIOUS
<1>4. InsertAt(s, n + 1, e) = ab \o c
  <2>1. (n + 1) - 1 = n
    BY <1>1
  <2> QED BY <2>1 DEF InsertAt
<1> HIDE DEF a, b, c
<1>5. /\ ab \in Seq(S) /\ Len(ab) = Len(a) + Len(b)
      /\ \A k \in 1..Len(a) : ab[k] = a[k]
      /\ \A k \in 1..Len(b) : ab[Len(a) + k] = b[k]
  BY ONLY <1>1, <1>3, Joined, SMTT(30)
<1> HIDE DEF ab
<1> DEFINE u == ab \o c
<1>6. /\ u \in Seq(S) /\ Len(u) = Len(ab) + Len(c)
      /\ \A k \in 1..Len(ab) : u[k] = ab[k]
      /\ \A k \in 1..Len(c) : u[Len(ab) + k] = c[k]
  <2>1. ab \in Seq(S) /\ c \in Seq(S)
    BY <1>2, <1>5
  <2> QED BY ONLY <2>1, Joined DEF u
<1> HIDE DEF u
<1>7. Len(ab) = n + 1 /\ Len(u) = Len(s) + 1
  BY <1>1, <1>2, <1>3, <1>5, <1>6
<1>8. ASSUME NEW k \in 1..(Len(s) + 1)
      PROVE  u[k] = IF k <= n THEN s[k] ELSE IF k = n + 1 THEN e ELSE s[k-1]
  <2>1. CASE k <= n
    <3>1. k \in 1..n /\ k \in 1..Len(ab)
      BY <1>1, <1>7, <2>1
    <3> QED BY <1>1, <1>5, <1>6, <2>1, <3>1
  <2>2. CASE k = n + 1
    <3>1. k \in 1..Len(ab) /\ 1 \in 1..Len(b) /\ ~(k <= n) /\ Len(a) + 1 = k
      BY <1>1, <1>3, <1>7, <2>2
    <3> QED BY <1>3, <1>5, <1>6, <2>2, <3>1
  <2>3. CASE k > n + 1
    <3> DEFINE j == k - (n + 1)
    <3>1. j \in 1..Len(c) /\ j \in 1..(Len(s) - n) /\ Len(ab) + j = k /\ n + j = k - 1 /\ ~(k <= n) /\ k # n + 1
      BY <1>1, <1>2, <1>7, <2>3
    <3> HIDE DEF j
    <3>2. u[Len(ab) + j] = c[j] /\ c[j] = s[n + j]
      BY <1>2, <1>6, <3>1
    <3> QED BY <3>1, <3>2
  <2> QED BY <1>1, <2>1, <2>2, <2>3
<1> QED
  BY <1>4, <1>6, <1>7, <1>8 DEF u

\* RemoveAt closes up over the place n.
LEMMA RemoveAtFacts ==
  ASSUME NEW S, NEW s \in Seq(S), NEW n \in 1..Len(s)
  PROVE  /\ RemoveAt(s, n) \in Seq(S)
         /\ Len(RemoveAt(s, n)) = Len(s) - 1
         /\ \A k \in 1..(Len(s) - 1) : RemoveAt(s, n)[k] = IF k < n THEN s[k] ELSE s[k+1]
<1> DEFINE a == SubSeq(s, 1, n - 1)
           c == SubSeq(s, n + 1, Len(s))
           u == a \o c
<1>1. /\ a \in Seq(S) /\ Len(a) = n - 1 /\ \A k \in 1..(n - 1) : a[k] = s[k]
      /\ n \in Nat /\ Len(s) \in Nat /\ n <= Len(s) /\ 1 <= n
  OBVIOUS
<1>2. c \in Seq(S) /\ Len(c) = Len(s) - n /\ \A k \in 1..(Len(s) - n) : c[k] = s[n + k]
  OBVIOUS
<1>3. RemoveAt(s, n) = u
  BY DEF RemoveAt
<1> HIDE DEF a, c
<1>4. /\ u \in Seq(S) /\ Len(u) = Len(a) + Len(c)
      /\ \A k \in 1..Len(a) : u[k] = a[k]
      /\ \A k \in 1..Len(c) : u[Len(a) + k] = c[k]
  <2>1. a \in Seq(S) /\ c \in Seq(S)
    BY <1>1, <1>2
  <2> QED BY ONLY <2>1, Joined DEF u
<1> HIDE DEF u
<1>5. ASSUME NEW k \in 1..(Len(s) - 1) PROVE u[k] = IF k < n THEN s[k] ELSE s[k+1]
  <2>1. CASE k < n
    <3>1. k \in 1..(n - 1)
      BY <1>1, <2>1
    <3> QED BY <1>1, <1>4, <2>1, <3>1
  <2>2. CASE ~(k < n)
    <3> DEFINE j == k - (n - 1)
    <3>1. j \in 1..Len(c) /\ j \in 1..(Len(s) - n) /\ Len(a) + j = k /\ n + j = k + 1
      BY <1>1, <1>2, <2>2
    <3> HIDE DEF j
    <3>2. u[Len(a) + j] = c[j] /\ c[j] = s[n + j]
      BY <1>2, <1>4, <3>1
    <3> QED BY <2>2, <3>1, <3>2
  <2> QED BY <2>1, <2>2
<1> QED
  BY <1>1, <1>2, <1>3, <1>4, <1>5

\* The greatest of finitely many places, or 0 if there is none.
LEMMA LastPlace ==
  ASSUME NEW N \in Nat, NEW T \in SUBSET (1..N)
  PROVE  /\ Max({0} \cup T) \in 0..N
         /\ Max({0} \cup T) # 0 => Max({0} \cup T) \in T
         /\ \A k \in T : k <= Max({0} \cup T)
<1> DEFINE U == {0} \cup T
           D == {N - k : k \in U}
<1>1. D \in SUBSET Nat /\ D # {}
  OBVIOUS
<1>2. PICK d \in D : \A k \in D : d <= k
  <2> HIDE DEF D
  <2> QED BY <1>1, LeastNatural
<1>3. PICK m \in U : d = N - m
  OBVIOUS
<1>4. ASSUME NEW k \in U PROVE m >= k
  <2>1. N - k \in D /\ k \in Int /\ m \in Int
    OBVIOUS
  <2>2. d <= N - k
    BY <1>2, <2>1
  <2> QED BY <1>3, <2>1, <2>2
<1>5. PICK n \in U : n = Max(U) /\ \A k \in U : n >= k
  <2> HIDE DEF U
  <2>1. \E x \in U : \A y \in U : x >= y
    BY <1>4
  <2> QED BY <2>1 DEF Max
<1>6. n \in 0..N /\ (n # 0 => n \in T) /\ \A k \in T : k <= n
  <2>1. n \in 0..N /\ (n # 0 => n \in T)
    OBVIOUS
  <2>2. ASSUME NEW k \in T PROVE k <= n
    <3>1. n >= k /\ k \in Int
      BY <1>5
    <3> QED BY <2>1, <3>1
  <2> QED BY <2>1, <2>2
<1> HIDE DEF U
<1>7. Max(U) = n
  BY <1>5
<1> QED
  BY <1>6, <1>7 DEF U

\* The least of a non-empty set of places is one of them.
LEMMA FirstPlace ==
  ASSUME NEW T \in SUBSET Nat, T # {}
  PROVE  Min(T) \in T
<1>1. PICK m \in T : \A k \in T : m <= k
  BY LeastNatural
<1>2. \A k \in T : m =< k
  BY <1>1
<1> QED
  BY <1>2 DEF Min

-----------------------------------------------------------------------------
(* The order book: what may rest, in which order, and one step of match.   *)

Sides == {"buy", "sell"}

\* What may rest in a book.
Resters == {r \in [id : Ids, order : SignedOrders, filled : Nat, seq : Nat] : r.filled <= r.order.amount}

\* Is the first matched before the second on this side?
Ahead(side, first, second) ==
    \/ better(side, first.order.price, second.order.price)
    \/ first.order.price = second.order.price /\ first.seq < second.seq

Sorted(side, s) == \A j, k \in DOMAIN s : j < k => Ahead(side, s[j], s[k])
Distinct(s)     == \A j, k \in DOMAIN s : s[j].id = s[k].id => j = k

\* A side of a book with n as its next sequence number.
SideOK(side, s, n) ==
    /\ s \in Seq(Resters) /\ n \in Nat
    /\ Sorted(side, s) /\ Distinct(s)
    /\ \A k \in DOMAIN s : s[k].order.side = side /\ s[k].seq < n

BookTypes == [buy : Seq(Resters), sell : Seq(Resters), next_seq : Nat]

BookOK(b) == b \in BookTypes /\ \A side \in Sides : SideOK(side, b[side], b.next_seq)

\* The same order, filled further perhaps.
Grown(r, q) == r.id = q.id /\ r.order = q.order /\ r.seq = q.seq

\* The fields of what rests.
LEMMA ResterFields ==
  ASSUME NEW r \in Resters
  PROVE  /\ r.id \in Ids /\ r.order \in SignedOrders /\ r.filled \in Nat /\ r.seq \in Nat
         /\ r.filled <= r.order.amount
         /\ r.order.amount \in Nat \ {0} /\ r.order.price \in Nat /\ r.order.side \in Sides
         /\ remaining(r) \in Nat /\ remaining(r) = r.order.amount - r.filled
<1>1. /\ r.id \in Ids /\ r.order \in SignedOrders /\ r.filled \in Nat /\ r.seq \in Nat
      /\ r.filled <= r.order.amount
  BY DEF Resters
<1>2. r.order.amount \in Nat \ {0} /\ r.order.price \in Nat /\ r.order.side \in Sides
  BY <1>1, SignedOrdersTyped, BoundsTyped DEF Sides
<1>3. r.order.amount - r.filled \in Nat
  BY <1>1, <1>2
<1> QED
  BY <1>1, <1>2, <1>3 DEF remaining

\* Being ahead is a strict order.
LEMMA AheadOrder ==
  ASSUME NEW side \in Sides, NEW p \in Resters, NEW q \in Resters
  PROVE  /\ Ahead(side, p, q) => ~Ahead(side, q, p)
         /\ \A p2, q2 : Grown(p2, p) /\ Grown(q2, q) => (Ahead(side, p2, q2) <=> Ahead(side, p, q))
<1>1. p.order.price \in Nat /\ q.order.price \in Nat /\ p.seq \in Nat /\ q.seq \in Nat
  BY ResterFields
<1>2. Ahead(side, p, q) => ~Ahead(side, q, p)
  BY <1>1 DEF Ahead, better, Sides
<1>3. \A p2, q2 : Grown(p2, p) /\ Grown(q2, q) => (Ahead(side, p2, q2) <=> Ahead(side, p, q))
  BY DEF Ahead, Grown
<1> QED
  BY <1>2, <1>3

-----------------------------------------------------------------------------
Progress == [remaining : Nat, fills : Seq(Fills), left : Seq(Resters)]

Start(order) == [remaining |-> order.amount, fills |-> << >>, left |-> << >>]

\* One resting order stays, is dropped, or is filled by n.
Passed(t, u, maker) == u = [t EXCEPT !.left = Append(t.left, maker)]
Filled(t, u, maker, id, n) ==
    /\ n \in Nat /\ n <= t.remaining /\ n <= remaining(maker)
    /\ fillOf(maker, id, n) \in Fills
    /\ u.remaining = t.remaining - n /\ u.fills = Append(t.fills, fillOf(maker, id, n))
    /\ \/ u.left = t.left
       \/ u.remaining = 0 /\ \E r \in Resters : Grown(r, maker) /\ u.left = Append(t.left, r)

\* matchOne does one of the three.
LEMMA MatchOneFacts ==
  ASSUME NEW t \in Progress, NEW maker \in Resters, NEW id \in Ids, NEW o \in SignedOrders
  PROVE  /\ matchOne(t, maker, id, o) \in Progress
         /\ \/ /\ t.remaining = 0 \/ ~accepts(o.side, o.price, maker.order.price)
               /\ Passed(t, matchOne(t, maker, id, o), maker)
            \/ /\ t.remaining # 0 /\ accepts(o.side, o.price, maker.order.price)
               /\ \/ matchOne(t, maker, id, o) = t
                  \/ \E n \in Nat : Filled(t, matchOne(t, maker, id, o), maker, id, n)
<1> DEFINE u == matchOne(t, maker, id, o)
           n == fill_amount(t.remaining, maker)
           after == [maker EXCEPT !.filled = @ + n]
<1>1. /\ t.remaining \in Nat /\ t.fills \in Seq(Fills) /\ t.left \in Seq(Resters)
      /\ t = [remaining |-> t.remaining, fills |-> t.fills, left |-> t.left]
  BY DEF Progress
<1>2. CASE t.remaining = 0 \/ ~accepts(o.side, o.price, maker.order.price)
  <2>1. u = [t EXCEPT !.left = Append(t.left, maker)]
    BY <1>2 DEF matchOne
  <2>2. Append(t.left, maker) \in Seq(Resters)
    BY <1>1
  <2> HIDE DEF u
  <2>3. u \in Progress
    BY <2>1, <2>2 DEF Progress
  <2> QED BY <1>2, <2>1, <2>3 DEF Passed, u
<1>3. CASE ~(t.remaining = 0 \/ ~accepts(o.side, o.price, maker.order.price)) /\ maker.order.maker = o.maker
  <2>1. u = t
    BY <1>3 DEF matchOne
  <2> QED BY <1>3, <2>1
<1>4. CASE ~(t.remaining = 0 \/ ~accepts(o.side, o.price, maker.order.price)) /\ maker.order.maker # o.maker
  <2>1. u = [remaining |-> t.remaining - n, fills |-> Append(t.fills, fillOf(maker, id, n)),
             left |-> t.left \o (IF remaining(after) = 0 THEN << >> ELSE <<after>>)]
    BY <1>4 DEF matchOne
  <2>2. /\ n \in Nat /\ n <= t.remaining /\ n <= remaining(maker)
        /\ n = t.remaining \/ n = remaining(maker)
    BY <1>1, ResterFields DEF fill_amount
  <2> HIDE DEF n, u
  <2>3. /\ after \in Resters /\ Grown(after, maker) /\ remaining(after) = remaining(maker) - n
        /\ remaining(maker) \in Nat
    <3>1. /\ maker.filled \in Nat /\ maker.filled <= maker.order.amount /\ maker.order.amount \in Nat
          /\ remaining(maker) = maker.order.amount - maker.filled
          /\ remaining(maker) \in Nat
      BY ResterFields
    <3>2. /\ after \in [id : Ids, order : SignedOrders, filled : Nat, seq : Nat]
          /\ after.filled = maker.filled + n /\ Grown(after, maker)
      BY <2>2, <3>1 DEF Resters, Grown
    <3>3. after.filled <= after.order.amount
      BY <2>2, <3>1, <3>2 DEF Grown
    <3>4. remaining(after) = maker.order.amount - (maker.filled + n)
      BY <3>2 DEF remaining, Grown
    <3> QED BY <2>2, <3>1, <3>2, <3>3, <3>4 DEF Resters
  <2>4. fillOf(maker, id, n) \in Fills
    BY <2>2, ResterFields DEF fillOf, Fills
  <2> HIDE DEF after
  <2>5. \/ u.left = t.left
        \/ u.remaining = 0 /\ u.left = Append(t.left, after)
    <3>1. CASE remaining(after) = 0
      <4>1. u.left = t.left \o << >>
        BY <2>1, <3>1
      <4> QED BY <1>1, <4>1
    <3>2. CASE remaining(after) # 0
      <4>1. u.left = t.left \o <<after>>
        BY <2>1, <3>2
      <4>2. n = t.remaining
        BY <2>2, <2>3, <3>2
      <4>3. u.remaining = 0
        BY <1>1, <2>1, <4>2
      <4>4. t.left \o <<after>> = Append(t.left, after)
        BY <1>1, <2>3
      <4> QED BY <4>1, <4>3, <4>4
    <3> QED BY <3>1, <3>2
  <2>6. u.left \in Seq(Resters) /\ Append(t.fills, fillOf(maker, id, n)) \in Seq(Fills) /\ t.remaining - n \in Nat
    <3>0. t.left \in Seq(Resters) /\ after \in Resters
      BY <1>1, <2>3
    <3>3. Append(t.left, after) \in Seq(Resters)
      BY ONLY <3>0
    <3>1. u.left \in Seq(Resters)
      BY ONLY <2>5, <3>0, <3>3
    <3>2. Append(t.fills, fillOf(maker, id, n)) \in Seq(Fills)
      BY <1>1, <2>4
    <3> QED BY <1>1, <2>2, <3>1, <3>2
  <2>7. u \in Progress
    BY <2>1, <2>6 DEF Progress
  <2>8. Filled(t, u, maker, id, n)
    <3>1. u.remaining = t.remaining - n /\ u.fills = Append(t.fills, fillOf(maker, id, n))
      BY <2>1
    <3> QED BY <2>2, <2>3, <2>4, <2>5, <3>1 DEF Filled
  <2> QED BY <1>4, <2>2, <2>7, <2>8 DEF u
<1> QED
  BY <1>2, <1>3, <1>4

\* The matching of a taker goes through the opposite side one order at a time.
LEMMA MatchRun ==
  ASSUME NEW book, NEW id \in Ids, NEW o \in SignedOrders,
         book[opposite(o.side)] \in Seq(Resters)
  PROVE  \E r \in [0..Len(book[opposite(o.side)]) -> Progress] :
            /\ r[0] = Start(o)
            /\ \A k \in 1..Len(book[opposite(o.side)]) :
                 r[k] = matchOne(r[k-1], book[opposite(o.side)][k], id, o)
            /\ match(book, id, o) = r[Len(book[opposite(o.side)])]
<1> DEFINE s == book[opposite(o.side)]
           N == Len(s)
           f == [c \in Progress \X (1..N) |-> matchOne(c[1], s[c[2]], id, o)]
           Body(g) == [k \in 0..N |-> IF k = 0 THEN Start(o) ELSE matchOne(g[k-1], s[k], id, o)]
           q == CHOOSE g : g = Body(g)
<1>1. s \in Seq(Resters) /\ N \in Nat
  OBVIOUS
<1>2. match(book, id, o) = q[N]
  BY DEF match, Start
<1> HIDE DEF s
<1>3. f \in [Progress \X (1..N) -> Progress]
  <2>1. ASSUME NEW c \in Progress \X (1..N) PROVE matchOne(c[1], s[c[2]], id, o) \in Progress
    <3>1. c[1] \in Progress /\ s[c[2]] \in Resters
      BY <1>1
    <3> QED BY <3>1, MatchOneFacts
  <2> QED BY <2>1
<1>4. Start(o) \in Progress
  <2>1. o.amount \in Nat
    BY SignedOrdersTyped
  <2> QED BY <2>1 DEF Start, Progress
<1>5. PICK r \in [0..N -> Progress] : r[0] = Start(o) /\ \A k \in 1..N : r[k] = f[<<r[k-1], k>>]
  <2> HIDE DEF f, N
  <2>1. N \in Nat
    BY <1>1
  <2>2. \E r : Iterates(r, f, Progress, Start(o), N)
    BY ONLY <1>3, <1>4, <2>1, IterationExists
  <2> QED BY <2>2 DEF Iterates
<1>6. ASSUME NEW k \in 1..N PROVE r[k] = matchOne(r[k-1], s[k], id, o)
  <2>1. k - 1 \in 0..N
    BY <1>1
  <2>2. r[k-1] \in Progress
    BY <2>1
  <2> QED BY <1>5, <2>2
<1> HIDE DEF f, N
<1>7. r = Body(r)
  <2>1. ASSUME NEW k \in 0..N PROVE r[k] = IF k = 0 THEN Start(o) ELSE matchOne(r[k-1], s[k], id, o)
    <3>1. CASE k = 0
      BY <1>5, <3>1
    <3>2. CASE k # 0
      <4>1. k \in 1..N
        BY <1>1, <3>2
      <4> QED BY <1>6, <3>2, <4>1
    <3> QED BY <3>1, <3>2
  <2> QED BY <2>1
<1>8. q = Body(q)
  <2> HIDE DEF Body
  <2> QED BY <1>7
<1> HIDE DEF q
<1>9. ASSUME NEW k \in 0..N PROVE q[k] = r[k]
  <2> DEFINE T == {j \in 0..N : q[j] = r[j]}
  <2>1. 0 \in T
    BY <1>1, <1>7, <1>8
  <2>2. ASSUME NEW j \in 1..N, j - 1 \in T PROVE j \in T
    <3>1. j \in 0..N /\ j # 0 /\ q[j-1] = r[j-1]
      BY <2>2
    <3>2. q[j] = matchOne(q[j-1], s[j], id, o)
      BY <1>8, <3>1
    <3> QED BY <1>6, <3>1, <3>2
  <2>3. \A j \in 0..N : j \in T
    <3> HIDE DEF T
    <3> QED BY <1>1, <2>1, <2>2, UpTo
  <2> QED BY <2>3
<1>10. N \in 0..N
  BY <1>1
<1>11. match(book, id, o) = r[N]
  BY <1>2, <1>9, <1>10
<1> QED
  BY <1>5, <1>6, <1>11 DEF N, s

-----------------------------------------------------------------------------
(* match as a whole.                                                       *)

\* The entries of a sequence with one more at its end.
LEMMA Appended ==
  ASSUME NEW S, NEW s \in Seq(S), NEW e \in S
  PROVE  /\ Append(s, e) \in Seq(S) /\ Len(Append(s, e)) = Len(s) + 1
         /\ DOMAIN s = 1..Len(s) /\ Len(s) \in Nat
         /\ \A j \in DOMAIN Append(s, e) : \/ j \in DOMAIN s /\ Append(s, e)[j] = s[j] /\ j <= Len(s)
                                           \/ j = Len(s) + 1 /\ Append(s, e)[j] = e
<1>1. /\ Append(s, e) \in Seq(S) /\ Len(Append(s, e)) = Len(s) + 1
      /\ DOMAIN s = 1..Len(s) /\ Len(s) \in Nat /\ DOMAIN Append(s, e) = 1..(Len(s) + 1)
  OBVIOUS
<1>2. ASSUME NEW j \in 1..Len(s) PROVE Append(s, e)[j] = s[j]
  OBVIOUS
<1>3. Append(s, e)[Len(s) + 1] = e
  OBVIOUS
<1>4. \A j \in 1..(Len(s) + 1) : j \in 1..Len(s) \/ j = Len(s) + 1
  BY <1>1
<1> QED
  BY <1>1, <1>2, <1>3, <1>4

\* One more fill.
LEMMA PartAppend ==
  ASSUME NEW T, NEW s \in Seq(Fills), NEW f \in Fills
  PROVE  Part(Append(s, f), T) = Part(s, T) + (IF f \in T THEN f.amount ELSE 0)
<1>1. Append(s, f) = s \o <<f>> /\ <<f>> \in Seq(Fills)
  OBVIOUS
<1>2. Part(s \o <<f>>, T) = Part(s, T) + Part(<<f>>, T)
  BY <1>1, PartJoin
<1> QED
  BY <1>1, <1>2, PartSingle

\* How far a taker has come after k orders of the opposite side s.
Reached(t, s, k, id, o) ==
    /\ t \in Progress
    /\ t.remaining + fillsTotal(t.fills) = o.amount
    /\ Sorted(opposite(o.side), t.left) /\ Distinct(t.left)
    /\ \A j \in DOMAIN t.left : \E i \in 1..k : Grown(t.left[j], s[i])
    /\ t.remaining # 0 => \A j \in DOMAIN t.left : ~accepts(o.side, o.price, t.left[j].order.price)
    /\ \A j \in DOMAIN t.fills :
          /\ t.fills[j].taker = id
          /\ \E i \in 1..k : /\ t.fills[j].maker = s[i].id
                             /\ \A h \in 1..(i-1), l \in DOMAIN t.left : t.left[l].id # s[h].id

\* A resting order stays behind those before it.
LEMMA LeftGrows ==
  ASSUME NEW side \in Sides, NEW s \in Seq(Resters), Sorted(side, s), Distinct(s), NEW k \in 1..Len(s),
         NEW left \in Seq(Resters), Sorted(side, left), Distinct(left),
         \A j \in DOMAIN left : \E i \in 1..(k-1) : Grown(left[j], s[i]),
         NEW e \in Resters, Grown(e, s[k])
  PROVE  /\ Sorted(side, Append(left, e)) /\ Distinct(Append(left, e))
         /\ \A j \in DOMAIN Append(left, e) : \E i \in 1..k : Grown(Append(left, e)[j], s[i])
<1> DEFINE new == Append(left, e)
<1>1. /\ DOMAIN left = 1..Len(left) /\ Len(left) \in Nat
      /\ \A j \in DOMAIN new : \/ j \in DOMAIN left /\ new[j] = left[j] /\ j <= Len(left)
                               \/ j = Len(left) + 1 /\ new[j] = e
  BY Appended
<1> HIDE DEF new
<1>2. ASSUME NEW j \in DOMAIN left PROVE Ahead(side, left[j], e) /\ left[j].id # e.id
  <2>1. PICK i \in 1..(k-1) : Grown(left[j], s[i])
    OBVIOUS
  <2>2. i \in DOMAIN s /\ k \in DOMAIN s /\ i < k /\ s[i] \in Resters /\ s[k] \in Resters
    OBVIOUS
  <2>3. Ahead(side, s[i], s[k]) /\ s[i].id # s[k].id
    BY <2>2 DEF Sorted, Distinct
  <2>4. Ahead(side, left[j], e)
    BY <2>1, <2>2, <2>3, AheadOrder
  <2>5. left[j].id = s[i].id /\ e.id = s[k].id
    BY <2>1 DEF Grown
  <2> QED BY <2>3, <2>4, <2>5
<1>3. Sorted(side, new)
  <2> SUFFICES ASSUME NEW j \in DOMAIN new, NEW l \in DOMAIN new, j < l PROVE Ahead(side, new[j], new[l])
    BY DEF Sorted
  <2>1. j \in DOMAIN left /\ new[j] = left[j]
    BY <1>1
  <2>2. CASE l \in DOMAIN left /\ new[l] = left[l]
    BY <2>1, <2>2 DEF Sorted
  <2>3. CASE new[l] = e
    BY <1>2, <2>1, <2>3
  <2> QED BY <1>1, <2>2, <2>3
<1>4. Distinct(new)
  <2> SUFFICES ASSUME NEW j \in DOMAIN new, NEW l \in DOMAIN new, new[j].id = new[l].id PROVE j = l
    BY DEF Distinct
  <2> QED BY <1>1, <1>2 DEF Distinct
<1>5. ASSUME NEW j \in DOMAIN new PROVE \E i \in 1..k : Grown(new[j], s[i])
  <2>1. CASE j \in DOMAIN left /\ new[j] = left[j]
    <3>1. PICK i \in 1..(k-1) : Grown(left[j], s[i])
      BY <2>1
    <3>2. i \in 1..k
      OBVIOUS
    <3> QED BY <2>1, <3>1, <3>2
  <2>2. CASE new[j] = e
    <3>1. k \in 1..k
      OBVIOUS
    <3> QED BY <2>2, <3>1
  <2> QED BY <1>1, <2>1, <2>2
<1> QED
  BY <1>3, <1>4, <1>5 DEF new

\* Who accepts a price accepts those ahead of it.
LEMMA AcceptsAhead ==
  ASSUME NEW o \in SignedOrders, NEW p \in Resters, NEW q \in Resters, Ahead(opposite(o.side), p, q),
         accepts(o.side, o.price, q.order.price)
  PROVE  accepts(o.side, o.price, p.order.price)
<1>1. p.order.price \in Nat /\ q.order.price \in Nat
  BY ResterFields
<1>2. o.price \in Nat /\ o.side \in {"buy", "sell"}
  BY SignedOrdersTyped, BoundsTyped
<1> QED
  BY <1>1, <1>2 DEF Ahead, better, accepts, opposite

\* Past the next order.
LEMMA ReachedNext ==
  ASSUME NEW o \in SignedOrders, NEW id \in Ids, NEW s \in Seq(Resters),
         Sorted(opposite(o.side), s), Distinct(s), NEW k \in 1..Len(s),
         NEW t, Reached(t, s, k-1, id, o)
  PROVE  Reached(matchOne(t, s[k], id, o), s, k, id, o)
<1> DEFINE u == matchOne(t, s[k], id, o)
           side == opposite(o.side)
<1>1. side \in Sides /\ s[k] \in Resters /\ t \in Progress /\ o.amount \in Nat
  BY SignedOrdersTyped DEF opposite, Sides, Reached
<1>2. t.remaining \in Nat /\ t.fills \in Seq(Fills) /\ t.left \in Seq(Resters)
  BY <1>1 DEF Progress
<1>3. /\ u \in Progress
      /\ \/ /\ t.remaining = 0 \/ ~accepts(o.side, o.price, s[k].order.price)
            /\ Passed(t, u, s[k])
         \/ /\ t.remaining # 0 /\ accepts(o.side, o.price, s[k].order.price)
            /\ u = t \/ \E n \in Nat : Filled(t, u, s[k], id, n)
  BY <1>1, MatchOneFacts
<1> HIDE DEF u
<1>4. /\ Sorted(side, t.left) /\ Distinct(t.left)
      /\ \A j \in DOMAIN t.left : \E i \in 1..(k-1) : Grown(t.left[j], s[i])
      /\ t.remaining # 0 => \A j \in DOMAIN t.left : ~accepts(o.side, o.price, t.left[j].order.price)
      /\ t.remaining + fillsTotal(t.fills) = o.amount
      /\ \A j \in DOMAIN t.fills :
          /\ t.fills[j].taker = id
          /\ \E i \in 1..(k-1) : /\ t.fills[j].maker = s[i].id
                                 /\ \A h \in 1..(i-1), l \in DOMAIN t.left : t.left[l].id # s[h].id
  BY DEF Reached
<1>5. \A i \in 1..(k-1) : i \in 1..k /\ i \in DOMAIN s /\ i < k
  OBVIOUS
<1> HIDE DEF side
<1>6. ASSUME NEW e \in Resters, Grown(e, s[k])
      PROVE  /\ Append(t.left, e) \in Seq(Resters)
             /\ Sorted(side, Append(t.left, e)) /\ Distinct(Append(t.left, e))
             /\ \A j \in DOMAIN Append(t.left, e) : \E i \in 1..k : Grown(Append(t.left, e)[j], s[i])
             /\ \A j \in DOMAIN Append(t.left, e) : \/ j \in DOMAIN t.left /\ Append(t.left, e)[j] = t.left[j]
                                                    \/ Append(t.left, e)[j] = e
  <2>1. Sorted(side, s)
    BY DEF side
  <2>2. /\ Sorted(side, Append(t.left, e)) /\ Distinct(Append(t.left, e))
        /\ \A j \in DOMAIN Append(t.left, e) : \E i \in 1..k : Grown(Append(t.left, e)[j], s[i])
    BY <1>1, <1>2, <1>4, <1>6, <2>1, LeftGrows
  <2> QED BY <1>2, <2>2, Appended
\* The fills so far, when the left ones are old ones or the k-th.
<1>7. ASSUME \A l \in DOMAIN u.left : \/ l \in DOMAIN t.left /\ u.left[l] = t.left[l]
                                      \/ Grown(u.left[l], s[k])
      PROVE  \A j \in DOMAIN t.fills :
          /\ t.fills[j].taker = id
          /\ \E i \in 1..k : /\ t.fills[j].maker = s[i].id
                             /\ \A h \in 1..(i-1), l \in DOMAIN u.left : u.left[l].id # s[h].id
  <2> SUFFICES ASSUME NEW j \in DOMAIN t.fills
               PROVE  \E i \in 1..k : /\ t.fills[j].maker = s[i].id
                                      /\ \A h \in 1..(i-1), l \in DOMAIN u.left : u.left[l].id # s[h].id
    BY <1>4
  <2>1. PICK i \in 1..(k-1) : /\ t.fills[j].maker = s[i].id
                              /\ \A h \in 1..(i-1), l \in DOMAIN t.left : t.left[l].id # s[h].id
    BY <1>4
  <2>2. ASSUME NEW h \in 1..(i-1), NEW l \in DOMAIN u.left PROVE u.left[l].id # s[h].id
    <3>1. CASE l \in DOMAIN t.left /\ u.left[l] = t.left[l]
      BY <2>1, <3>1
    <3>2. CASE Grown(u.left[l], s[k])
      <4>1. h \in DOMAIN s /\ k \in DOMAIN s /\ h # k
        OBVIOUS
      <4>2. s[h].id # s[k].id
        BY <4>1 DEF Distinct
      <4> QED BY <3>2, <4>2 DEF Grown
    <3> QED BY <1>7, <3>1, <3>2
  <2> QED BY <1>5, <2>1, <2>2
<1>8. ASSUME t.remaining = 0 \/ ~accepts(o.side, o.price, s[k].order.price), Passed(t, u, s[k])
      PROVE  Reached(u, s, k, id, o)
  <2>1. u.remaining = t.remaining /\ u.fills = t.fills /\ u.left = Append(t.left, s[k])
    BY <1>1, <1>8 DEF Passed, Progress
  <2>2. Grown(s[k], s[k])
    BY DEF Grown
  <2>3. /\ Sorted(side, u.left) /\ Distinct(u.left)
        /\ \A j \in DOMAIN u.left : \E i \in 1..k : Grown(u.left[j], s[i])
        /\ \A j \in DOMAIN u.left : \/ j \in DOMAIN t.left /\ u.left[j] = t.left[j]
                                    \/ u.left[j] = s[k]
    BY <1>1, <1>6, <2>1, <2>2
  <2>4. u.remaining # 0 => \A j \in DOMAIN u.left : ~accepts(o.side, o.price, u.left[j].order.price)
    BY <1>4, <1>8, <2>1, <2>3
  <2>5. \A l \in DOMAIN u.left : \/ l \in DOMAIN t.left /\ u.left[l] = t.left[l]
                                 \/ Grown(u.left[l], s[k])
    BY <2>2, <2>3
  <2>6. \A j \in DOMAIN u.fills :
          /\ u.fills[j].taker = id
          /\ \E i \in 1..k : /\ u.fills[j].maker = s[i].id
                             /\ \A h \in 1..(i-1), l \in DOMAIN u.left : u.left[l].id # s[h].id
    BY <1>7, <2>1, <2>5
  <2>7. u.remaining + fillsTotal(u.fills) = o.amount
    BY <1>4, <2>1
  <2> QED BY <1>3, <2>3, <2>4, <2>6, <2>7 DEF Reached, side
<1>9. ASSUME t.remaining # 0, u = t
      PROVE  Reached(u, s, k, id, o)
  <2>1. \A j \in DOMAIN u.left : \E i \in 1..k : Grown(u.left[j], s[i])
    BY <1>4, <1>5, <1>9
  <2>2. \A l \in DOMAIN u.left : \/ l \in DOMAIN t.left /\ u.left[l] = t.left[l]
                                 \/ Grown(u.left[l], s[k])
    BY <1>9
  <2>3. \A j \in DOMAIN u.fills :
          /\ u.fills[j].taker = id
          /\ \E i \in 1..k : /\ u.fills[j].maker = s[i].id
                             /\ \A h \in 1..(i-1), l \in DOMAIN u.left : u.left[l].id # s[h].id
    BY <1>7, <1>9, <2>2
  <2> QED BY <1>3, <1>4, <1>9, <2>1, <2>3 DEF Reached, side
<1>10. ASSUME t.remaining # 0, accepts(o.side, o.price, s[k].order.price),
              \E n \in Nat : Filled(t, u, s[k], id, n)
       PROVE  Reached(u, s, k, id, o)
  <2>1. PICK n \in Nat : Filled(t, u, s[k], id, n)
    BY <1>10
  <2> DEFINE f == fillOf(s[k], id, n)
  <2>2. /\ n <= t.remaining /\ f \in Fills
        /\ u.remaining = t.remaining - n /\ u.fills = Append(t.fills, f)
        /\ \/ u.left = t.left
           \/ u.remaining = 0 /\ \E r \in Resters : Grown(r, s[k]) /\ u.left = Append(t.left, r)
    BY <2>1 DEF Filled
  <2>3. f.maker = s[k].id /\ f.taker = id /\ f.amount = n
    BY DEF fillOf
  <2> HIDE DEF f
  <2>4. /\ Sorted(side, u.left) /\ Distinct(u.left)
        /\ \A j \in DOMAIN u.left : \E i \in 1..k : Grown(u.left[j], s[i])
        /\ \A l \in DOMAIN u.left : \/ l \in DOMAIN t.left /\ u.left[l] = t.left[l]
                                    \/ Grown(u.left[l], s[k])
        /\ u.remaining # 0 => \A j \in DOMAIN u.left : ~accepts(o.side, o.price, u.left[j].order.price)
    <3>1. CASE u.left = t.left
      <4>1. \A j \in DOMAIN u.left : \E i \in 1..k : Grown(u.left[j], s[i])
        BY <1>4, <1>5, <3>1
      <4> QED BY <1>4, <1>10, <3>1, <4>1
    <3>2. CASE u.remaining = 0 /\ \E r \in Resters : Grown(r, s[k]) /\ u.left = Append(t.left, r)
      <4>1. PICK r \in Resters : Grown(r, s[k]) /\ u.left = Append(t.left, r)
        BY <3>2
      <4>2. /\ Sorted(side, u.left) /\ Distinct(u.left)
            /\ \A j \in DOMAIN u.left : \E i \in 1..k : Grown(u.left[j], s[i])
            /\ \A j \in DOMAIN u.left : \/ j \in DOMAIN t.left /\ u.left[j] = t.left[j]
                                        \/ u.left[j] = r
        BY <1>6, <4>1
      <4> QED BY <3>2, <4>1, <4>2
    <3> QED BY <2>2, <3>1, <3>2
  <2>5. t.left = << >>
    <3>1. ASSUME NEW j \in DOMAIN t.left PROVE FALSE
      <4>1. PICK i \in 1..(k-1) : Grown(t.left[j], s[i])
        BY <1>4
      <4>2. i \in DOMAIN s /\ k \in DOMAIN s /\ i < k /\ s[i] \in Resters
        OBVIOUS
      <4>3. Ahead(side, s[i], s[k])
        BY <4>2 DEF Sorted, side
      <4>4. accepts(o.side, o.price, s[i].order.price)
        BY <1>1, <1>10, <4>2, <4>3, AcceptsAhead DEF side
      <4>5. t.left[j].order = s[i].order
        BY <4>1 DEF Grown
      <4> QED BY <1>4, <1>10, <4>4, <4>5
    <3>2. Len(t.left) \in Nat /\ DOMAIN t.left = 1..Len(t.left)
      BY <1>2
    <3>3. Len(t.left) = 0
      <4>1. \A j : j \notin DOMAIN t.left
        BY <3>1
      <4>2. 1 \notin 1..Len(t.left)
        BY <3>2, <4>1
      <4> QED BY ONLY <3>2, <4>2
    <3> QED BY <1>2, <3>3
  <2>6. \A j \in DOMAIN u.fills :
          /\ u.fills[j].taker = id
          /\ \E i \in 1..k : /\ u.fills[j].maker = s[i].id
                             /\ \A h \in 1..(i-1), l \in DOMAIN u.left : u.left[l].id # s[h].id
    <3> SUFFICES ASSUME NEW j \in DOMAIN u.fills
                 PROVE  /\ u.fills[j].taker = id
                        /\ \E i \in 1..k : /\ u.fills[j].maker = s[i].id
                             /\ \A h \in 1..(i-1), l \in DOMAIN u.left : u.left[l].id # s[h].id
      OBVIOUS
    <3>1. (j \in DOMAIN t.fills /\ u.fills[j] = t.fills[j]) \/ u.fills[j] = f
      BY <1>2, <2>2, Appended
    <3>2. CASE j \in DOMAIN t.fills /\ u.fills[j] = t.fills[j]
      BY <1>7, <2>4, <3>2
    <3>3. CASE u.fills[j] = f
      <4>1. ASSUME NEW h \in 1..(k-1), NEW l \in DOMAIN u.left PROVE u.left[l].id # s[h].id
        <5>1. Grown(u.left[l], s[k])
          BY <2>4, <2>5
        <5>2. h \in DOMAIN s /\ k \in DOMAIN s /\ h # k
          OBVIOUS
        <5>3. s[h].id # s[k].id
          BY <5>2 DEF Distinct
        <5> QED BY <5>1, <5>3 DEF Grown
      <4>2. k \in 1..k
        OBVIOUS
      <4> QED BY <2>3, <3>3, <4>1, <4>2
    <3> QED BY <3>1, <3>2, <3>3
  <2>7. u.remaining + fillsTotal(u.fills) = o.amount
    <3>1. fillsTotal(t.fills) = Part(t.fills, Fills) /\ fillsTotal(u.fills) = Part(u.fills, Fills)
      <4>1. u.fills \in Seq(Fills)
        BY <1>3 DEF Progress
      <4> QED BY <1>2, <4>1, SumsAreParts
    <3>2. Part(u.fills, Fills) = Part(t.fills, Fills) + n
      <4>1. Part(Append(t.fills, f), Fills) = Part(t.fills, Fills) + (IF f \in Fills THEN f.amount ELSE 0)
        BY <1>2, <2>2, PartAppend
      <4> QED BY <2>2, <2>3, <4>1
    <3>3. Part(t.fills, Fills) \in Nat
      BY <1>2, PartType
    <3> QED BY <1>2, <1>4, <2>2, <3>1, <3>2, <3>3
  <2> QED BY <1>3, <2>4, <2>6, <2>7 DEF Reached, side
<1> QED
  BY <1>3, <1>8, <1>9, <1>10 DEF u

\* Before the first order.
LEMMA ReachedStart ==
  ASSUME NEW o \in SignedOrders, NEW id \in Ids, NEW s
  PROVE  Reached(Start(o), s, 0, id, o)
<1>1. o.amount \in Nat
  BY SignedOrdersTyped
<1>2. /\ Start(o).remaining = o.amount /\ Start(o).fills = << >> /\ Start(o).left = << >>
      /\ Start(o) \in Progress
  BY <1>1 DEF Start, Progress
<1>3. << >> \in Seq(Fills) /\ DOMAIN << >> = {}
  OBVIOUS
<1>4. fillsTotal(<< >>) = Part(<< >>, Fills)
  BY <1>3, SumsAreParts
<1>5. Part(<< >>, Fills) = 0
  <2>1. /\ \A f \in Fills : Part(<< >>, Fills) = 0
        /\ (\A f : f \notin Fills) => Part(<< >>, Fills) = 0
    <3>1. ASSUME NEW f \in Fills PROVE Part(<< >>, Fills) = 0
      BY PartSingle
    <3>2. [maker |-> id, taker |-> id, price |-> 0, amount |-> 0] \in Fills
      BY DEF Fills
    <3> QED BY <3>1, <3>2
  <2> QED BY <2>1
<1> QED
  BY <1>1, <1>2, <1>3, <1>4, <1>5 DEF Reached, Sorted, Distinct

\* What matching a taker with the opposite side comes to.
LEMMA Matched ==
  ASSUME NEW book, NEW id \in Ids, NEW o \in SignedOrders,
         book[opposite(o.side)] \in Seq(Resters),
         Sorted(opposite(o.side), book[opposite(o.side)]), Distinct(book[opposite(o.side)])
  PROVE  Reached(match(book, id, o), book[opposite(o.side)], Len(book[opposite(o.side)]), id, o)
<1> DEFINE s == book[opposite(o.side)]
           N == Len(s)
<1>1. PICK r \in [0..N -> Progress] :
            /\ r[0] = Start(o)
            /\ \A k \in 1..N : r[k] = matchOne(r[k-1], s[k], id, o)
            /\ match(book, id, o) = r[N]
  BY MatchRun
<1>2. s \in Seq(Resters) /\ Sorted(opposite(o.side), s) /\ Distinct(s) /\ N \in Nat
  OBVIOUS
<1> HIDE DEF s
<1> DEFINE T == {k \in 0..N : Reached(r[k], s, k, id, o)}
<1>3. 0 \in T
  BY <1>1, <1>2, ReachedStart
<1>4. ASSUME NEW k \in 1..N, k - 1 \in T PROVE k \in T
  <2>1. Reached(r[k-1], s, k - 1, id, o) /\ k \in 0..N
    BY <1>2, <1>4
  <2>2. Reached(matchOne(r[k-1], s[k], id, o), s, k, id, o)
    BY <1>2, <2>1, ReachedNext
  <2> QED BY <1>1, <2>1, <2>2
<1>5. \A k \in 0..N : k \in T
  <2> HIDE DEF T
  <2> QED BY <1>2, <1>3, <1>4, UpTo
<1>6. Reached(r[N], s, N, id, o)
  <2>1. N \in 0..N
    BY <1>2
  <2> QED BY <1>5, <2>1
<1> QED
  BY <1>1, <1>6 DEF s

-----------------------------------------------------------------------------
(* insert and cancel.                                                      *)

\* The sides of a book.
LEMMA BookSides ==
  ASSUME NEW b \in BookTypes
  PROVE  /\ \A side \in Sides : b[side] \in Seq(Resters)
         /\ b["buy"] = b.buy /\ b["sell"] = b.sell /\ b.next_seq \in Nat
<1>1. b.buy \in Seq(Resters) /\ b.sell \in Seq(Resters) /\ b.next_seq \in Nat
  BY DEF BookTypes
<1>2. b["buy"] = b.buy /\ b["sell"] = b.sell
  OBVIOUS
<1> QED
  BY <1>1, <1>2 DEF Sides

\* c is b with s on one side and n as its next sequence number.
Replaced(c, b, side, s, n) ==
    /\ c \in BookTypes /\ c[side] = s /\ c.next_seq = n
    /\ \A other \in Sides \ {side} : c[other] = b[other]

\* One side replaced.
LEMMA BookReplaced ==
  ASSUME NEW b \in BookTypes, NEW side \in Sides, NEW s \in Seq(Resters), NEW n \in Nat
  PROVE  /\ Replaced([b EXCEPT ![side] = s, !.next_seq = n], b, side, s, n)
         /\ Replaced([b EXCEPT ![side] = s], b, side, s, b.next_seq)
<1> DEFINE c == [b EXCEPT ![side] = s, !.next_seq = n]
           d == [b EXCEPT ![side] = s]
<1>1. c \in BookTypes /\ d \in BookTypes
  <2>1. CASE side = "buy"
    BY <2>1 DEF BookTypes
  <2>2. CASE side = "sell"
    BY <2>2 DEF BookTypes
  <2> QED BY <2>1, <2>2 DEF Sides
<1>2. c[side] = s /\ c.next_seq = n /\ d[side] = s /\ d.next_seq = b.next_seq
  BY DEF Sides, BookTypes
<1>3. ASSUME NEW other \in Sides \ {side} PROVE c[other] = b[other] /\ d[other] = b[other]
  BY DEF Sides, BookTypes
<1> QED
  BY <1>1, <1>2, <1>3 DEF Replaced

\* Where a newcomer goes, and what the side is then.
Newcomer(side, s, e) ==
    InsertAt(s, Max({0} \cup {k \in DOMAIN s : ~better(side, e.order.price, s[k].order.price)}) + 1, e)

\* A newcomer goes behind those whose price is as good, and before the others.
LEMMA SideGrows ==
  ASSUME NEW side \in Sides, NEW s, NEW n, SideOK(side, s, n),
         NEW e \in Resters, e.order.side = side, e.seq = n, \A k \in DOMAIN s : s[k].id # e.id
  PROVE  /\ SideOK(side, Newcomer(side, s, e), n + 1)
         /\ \A j \in DOMAIN Newcomer(side, s, e) :
              Newcomer(side, s, e)[j] = e \/ \E i \in DOMAIN s : Newcomer(side, s, e)[j] = s[i]
<1> DEFINE ahead == {k \in DOMAIN s : ~better(side, e.order.price, s[k].order.price)}
           m == Max({0} \cup ahead)
           t == Newcomer(side, s, e)
<1>1. /\ s \in Seq(Resters) /\ n \in Nat /\ Sorted(side, s) /\ Distinct(s) /\ Len(s) \in Nat
      /\ DOMAIN s = 1..Len(s) /\ \A k \in DOMAIN s : s[k].order.side = side /\ s[k].seq < n
  BY DEF SideOK
<1>2. m \in 0..Len(s) /\ (m # 0 => m \in ahead) /\ \A k \in ahead : k <= m
  <2>1. ahead \in SUBSET (1..Len(s)) /\ Len(s) \in Nat
    BY <1>1
  <2> HIDE DEF ahead
  <2> QED BY <2>1, LastPlace
<1>3. t = InsertAt(s, m + 1, e)
  BY DEF Newcomer
<1> HIDE DEF m, t
<1>4. /\ t \in Seq(Resters) /\ Len(t) = Len(s) + 1
      /\ \A k \in 1..(Len(s) + 1) :
           t[k] = IF k <= m THEN s[k] ELSE IF k = m + 1 THEN e ELSE s[k-1]
  <2>1. s \in Seq(Resters) /\ e \in Resters /\ m \in 0..Len(s)
    BY <1>1, <1>2
  <2>2. /\ InsertAt(s, m + 1, e) \in Seq(Resters) /\ Len(InsertAt(s, m + 1, e)) = Len(s) + 1
        /\ \A k \in 1..(Len(s) + 1) :
             InsertAt(s, m + 1, e)[k] = IF k <= m THEN s[k] ELSE IF k = m + 1 THEN e ELSE s[k-1]
    BY ONLY <2>1, InsertAtFacts
  <2> QED BY <1>3, <2>2
<1>5. DOMAIN t = 1..(Len(s) + 1) /\ m \in Nat
  BY <1>1, <1>2, <1>4
<1>6. ASSUME NEW j \in DOMAIN t
      PROVE  \/ j <= m /\ j \in DOMAIN s /\ t[j] = s[j]
             \/ j = m + 1 /\ t[j] = e
             \/ j > m + 1 /\ j - 1 \in DOMAIN s /\ j - 1 > m /\ t[j] = s[j-1]
  <2>1. CASE j <= m
    BY <1>1, <1>2, <1>4, <1>5, <2>1
  <2>2. CASE j = m + 1
    <3>1. ~(j <= m)
      BY <1>5, <2>2
    <3> QED BY <1>4, <1>5, <2>2, <3>1
  <2>3. CASE j > m + 1
    <3>1. ~(j <= m) /\ j # m + 1 /\ j - 1 \in DOMAIN s /\ j - 1 > m
      BY <1>1, <1>5, <2>3
    <3> QED BY <1>4, <1>5, <2>3, <3>1
  <2> QED BY <1>5, <2>1, <2>2, <2>3
<1>7. e.order.price \in Nat /\ e.seq \in Nat /\ \A k \in DOMAIN s : s[k].order.price \in Nat /\ s[k].seq \in Nat
  <2>1. \A k \in DOMAIN s : s[k] \in Resters
    BY <1>1
  <2> QED BY <2>1, ResterFields
<1>8. ASSUME NEW k \in DOMAIN s PROVE /\ k <= m => Ahead(side, s[k], e)
                                      /\ k > m => Ahead(side, e, s[k])
  <2>1. ASSUME k <= m PROVE Ahead(side, s[k], e)
    <3>1. m \in DOMAIN s /\ ~better(side, e.order.price, s[m].order.price) /\ s[m].seq < n
      BY <1>1, <1>2, <2>1
    <3>2. k = m \/ Ahead(side, s[k], s[m])
      BY <1>1, <1>5, <2>1, <3>1 DEF Sorted
    <3> QED BY <1>1, <1>7, <3>1, <3>2 DEF Ahead, better, Sides
  <2>2. ASSUME k > m PROVE Ahead(side, e, s[k])
    <3>1. k \notin ahead
      BY <1>1, <1>2, <2>2
    <3> QED BY <3>1 DEF Ahead
  <2> QED BY <2>1, <2>2
<1> HIDE DEF ahead
<1>9. Sorted(side, t)
  <2> SUFFICES ASSUME NEW j \in DOMAIN t, NEW k \in DOMAIN t, j < k PROVE Ahead(side, t[j], t[k])
    BY DEF Sorted
  <2>0. j \in Nat /\ k \in Nat
    BY <1>1, <1>5
  <2>1. CASE j <= m /\ j \in DOMAIN s /\ t[j] = s[j]
    <3>1. CASE k \in DOMAIN s /\ t[k] = s[k]
      BY <1>1, <2>1, <3>1 DEF Sorted
    <3>2. CASE t[k] = e
      BY <1>8, <2>1, <3>2
    <3>3. CASE k - 1 \in DOMAIN s /\ k - 1 > m /\ t[k] = s[k-1]
      <4>1. j < k - 1
        BY <1>5, <2>0, <2>1, <3>3
      <4> QED BY <1>1, <2>1, <3>3, <4>1 DEF Sorted
    <3> QED BY <1>6, <3>1, <3>2, <3>3
  <2>2. CASE j = m + 1 /\ t[j] = e
    <3>1. k > m + 1 /\ ~(k <= m) /\ k # m + 1
      BY <1>5, <2>0, <2>2
    <3>2. k - 1 \in DOMAIN s /\ k - 1 > m /\ t[k] = s[k-1]
      BY <1>6, <3>1
    <3> QED BY <1>8, <2>2, <3>2
  <2>3. CASE j > m + 1 /\ j - 1 \in DOMAIN s /\ t[j] = s[j-1]
    <3>1. k > m + 1 /\ ~(k <= m) /\ k # m + 1
      BY <1>5, <2>0, <2>3
    <3>2. k - 1 \in DOMAIN s /\ t[k] = s[k-1]
      BY <1>6, <3>1
    <3>3. j - 1 < k - 1
      BY <2>0
    <3> QED BY <1>1, <2>3, <3>2, <3>3 DEF Sorted
  <2> QED BY <1>6, <2>1, <2>2, <2>3
<1>10. Distinct(t)
  <2> SUFFICES ASSUME NEW j \in DOMAIN t, NEW k \in DOMAIN t, t[j].id = t[k].id PROVE j = k
    BY DEF Distinct
  <2>0. j \in Nat /\ k \in Nat
    BY <1>1, <1>5
  <2> DEFINE At(u, v) == (u <= m /\ u = v) \/ (u > m + 1 /\ u - 1 = v)
  <2>9. ASSUME NEW x \in DOMAIN t PROVE t[x] = e \/ \E y \in DOMAIN s : At(x, y) /\ t[x] = s[y]
    <3>1. CASE x <= m /\ x \in DOMAIN s /\ t[x] = s[x]
      <4>1. At(x, x)
        BY <3>1
      <4> HIDE DEF At
      <4> QED BY <3>1, <4>1
    <3>2. CASE x > m + 1 /\ x - 1 \in DOMAIN s /\ t[x] = s[x-1]
      <4>1. At(x, x - 1)
        BY <3>2
      <4> HIDE DEF At
      <4> QED BY <3>2, <4>1
    <3> QED BY <1>6, <3>1, <3>2
  <2>1. t[j] = e \/ \E y \in DOMAIN s : At(j, y) /\ t[j] = s[y]
    <3> HIDE DEF At
    <3> QED BY <2>9
  <2>2. t[k] = e \/ \E y \in DOMAIN s : At(k, y) /\ t[k] = s[y]
    <3> HIDE DEF At
    <3> QED BY <2>9
  <2>3. CASE t[j] = e /\ t[k] = e
    <3>1. ASSUME NEW x \in DOMAIN t, t[x] = e PROVE x = m + 1
      <4>1. \A y \in DOMAIN s : s[y] # e
        OBVIOUS
      <4> QED BY <1>6, <3>1, <4>1
    <3> QED BY <2>3, <3>1
  <2>4. CASE t[j] = e /\ \E y \in DOMAIN s : t[k] = s[y]
    BY <2>4
  <2>5. CASE t[k] = e /\ \E y \in DOMAIN s : t[j] = s[y]
    BY <2>5
  <2>6. CASE /\ \E y \in DOMAIN s : At(j, y) /\ t[j] = s[y]
             /\ \E y \in DOMAIN s : At(k, y) /\ t[k] = s[y]
    <3>1. PICK x \in DOMAIN s : At(j, x) /\ t[j] = s[x]
      BY <2>6
    <3>2. PICK y \in DOMAIN s : At(k, y) /\ t[k] = s[y]
      BY <2>6
    <3>3. x = y
      BY <1>1, <3>1, <3>2 DEF Distinct
    <3>4. x \in Nat
      BY <1>1
    <3> QED BY <1>5, <2>0, <3>1, <3>2, <3>3, <3>4
  <2> QED BY <2>1, <2>2, <2>3, <2>4, <2>5, <2>6
<1>11. ASSUME NEW j \in DOMAIN t PROVE t[j] = e \/ \E i \in DOMAIN s : t[j] = s[i]
  BY <1>6
<1>12. \A j \in DOMAIN t : t[j].order.side = side /\ t[j].seq < n + 1
  <2>1. n < n + 1 /\ \A k \in DOMAIN s : s[k].seq < n + 1
    BY <1>1, <1>7
  <2> QED BY <1>1, <1>11, <2>1
<1>13. SideOK(side, t, n + 1)
  <2>1. n + 1 \in Nat
    BY <1>1
  <2> QED BY <1>4, <1>9, <1>10, <1>12, <2>1 DEF SideOK
<1> QED
  BY <1>11, <1>13 DEF t

\* What rests in c is x, or rested in b.
Holds(c, b, x) ==
    \A side \in Sides : \A j \in DOMAIN c[side] :
        \/ side = x.order.side /\ c[side][j] = x
        \/ \E i \in DOMAIN b[side] : c[side][j] = b[side][i]

Stamped(b, e) == [e EXCEPT !.seq = b.next_seq]

\* What insert does to a book in which nothing has the newcomer's id.
LEMMA Inserted ==
  ASSUME NEW b, BookOK(b), NEW e \in Resters,
         \A k \in DOMAIN b[e.order.side] : b[e.order.side][k].id # e.id
  PROVE  /\ Stamped(b, e) \in Resters /\ Grown(Stamped(b, e), [e EXCEPT !.seq = b.next_seq])
         /\ Stamped(b, e).id = e.id /\ Stamped(b, e).order = e.order /\ Stamped(b, e).filled = e.filled
         /\ BookOK(insert(b, e)) /\ Holds(insert(b, e), b, Stamped(b, e))
         /\ \A side \in Sides \ {e.order.side} : insert(b, e)[side] = b[side]
<1> DEFINE side == e.order.side
           s == b[side]
           n == b.next_seq
           x == Stamped(b, e)
           t == Newcomer(side, s, x)
           c == insert(b, e)
<1>1. side \in Sides /\ b \in BookTypes /\ SideOK(side, s, n)
  BY ResterFields DEF BookOK
<1>2. n \in Nat /\ s \in Seq(Resters)
  BY <1>1 DEF SideOK
<1>3. /\ x \in Resters /\ x.seq = n /\ x.id = e.id /\ x.order = e.order /\ x.filled = e.filled
  BY <1>2 DEF Stamped, Resters
<1>4. c = [b EXCEPT ![side] = t, !.next_seq = n + 1]
  BY <1>3 DEF insert, Newcomer, Stamped
<1>5. /\ SideOK(side, t, n + 1)
      /\ \A j \in DOMAIN t : t[j] = x \/ \E i \in DOMAIN s : t[j] = s[i]
  <2>1. x.order.side = side /\ \A k \in DOMAIN s : s[k].id # x.id
    BY <1>3
  <2> HIDE DEF x, s, side, n
  <2> QED BY <1>1, <1>3, <2>1, SideGrows
<1> HIDE DEF t, c, x, s, n
<1>6. t \in Seq(Resters) /\ n + 1 \in Nat
  BY <1>5 DEF SideOK
<1>7. /\ c \in BookTypes /\ c[side] = t /\ c.next_seq = n + 1
      /\ \A other \in Sides \ {side} : c[other] = b[other]
  <2> HIDE DEF side
  <2>1. Replaced(c, b, side, t, n + 1)
    BY <1>1, <1>4, <1>6, BookReplaced
  <2> QED BY <2>1 DEF Replaced
<1>8. ASSUME NEW other \in Sides \ {side} PROVE SideOK(other, c[other], n + 1)
  <2>1. SideOK(other, b[other], n)
    BY <1>1 DEF BookOK, n
  <2>2. n + 1 \in Nat /\ \A k \in DOMAIN b[other] : b[other][k].seq \in Nat /\ b[other][k].seq < n
    <3>1. b[other] \in Seq(Resters)
      BY <2>1 DEF SideOK
    <3>2. \A k \in DOMAIN b[other] : b[other][k] \in Resters
      BY <3>1
    <3> QED BY <1>6, <2>1, <3>2, ResterFields DEF SideOK
  <2>3. \A k \in DOMAIN b[other] : b[other][k].seq < n + 1
    BY <1>2, <2>2
  <2> QED BY <1>7, <2>1, <2>2, <2>3 DEF SideOK
<1>9. BookOK(c)
  <2>1. \A o \in Sides : SideOK(o, c[o], c.next_seq)
    BY <1>1, <1>5, <1>7, <1>8
  <2> QED BY <1>7, <2>1 DEF BookOK
<1>10. Holds(c, b, x)
  <2> SUFFICES ASSUME NEW o \in Sides, NEW j \in DOMAIN c[o]
               PROVE  \/ o = x.order.side /\ c[o][j] = x
                      \/ \E i \in DOMAIN b[o] : c[o][j] = b[o][i]
    BY DEF Holds
  <2>1. CASE o = side
    BY <1>3, <1>5, <1>7, <2>1 DEF s
  <2>2. CASE o # side
    BY <1>7, <2>2
  <2> QED BY <2>1, <2>2
<1> QED
  BY <1>3, <1>7, <1>9, <1>10 DEF c, x, Grown, Stamped

\* What cancel leaves of a side keeps its order.
LEMMA SideShrinks ==
  ASSUME NEW side \in Sides, NEW s, NEW n, SideOK(side, s, n), NEW m \in 1..Len(s)
  PROVE  /\ SideOK(side, RemoveAt(s, m), n)
         /\ \A j \in DOMAIN RemoveAt(s, m) : \E i \in DOMAIN s : RemoveAt(s, m)[j] = s[i]
<1> DEFINE t == RemoveAt(s, m)
           from(j) == IF j < m THEN j ELSE j + 1
<1>1. /\ s \in Seq(Resters) /\ n \in Nat /\ Sorted(side, s) /\ Distinct(s) /\ Len(s) \in Nat
      /\ DOMAIN s = 1..Len(s) /\ \A k \in DOMAIN s : s[k].order.side = side /\ s[k].seq < n
  BY DEF SideOK
<1>2. /\ t \in Seq(Resters) /\ Len(t) = Len(s) - 1
      /\ \A k \in 1..(Len(s) - 1) : t[k] = IF k < m THEN s[k] ELSE s[k+1]
  BY <1>1, RemoveAtFacts
<1> HIDE DEF t
<1>3. DOMAIN t = 1..(Len(s) - 1) /\ m \in Nat
  BY <1>1, <1>2
<1>4. ASSUME NEW j \in DOMAIN t PROVE from(j) \in DOMAIN s /\ t[j] = s[from(j)]
  <2>1. CASE j < m
    BY <1>1, <1>2, <1>3, <2>1
  <2>2. CASE ~(j < m)
    BY <1>1, <1>2, <1>3, <2>2
  <2> QED BY <2>1, <2>2
<1>5. ASSUME NEW j \in DOMAIN t, NEW k \in DOMAIN t
      PROVE  (j < k => from(j) < from(k)) /\ (from(j) = from(k) => j = k)
  BY <1>1, <1>3
<1> HIDE DEF from
<1>6. Sorted(side, t)
  <2> SUFFICES ASSUME NEW j \in DOMAIN t, NEW k \in DOMAIN t, j < k PROVE Ahead(side, t[j], t[k])
    BY DEF Sorted
  <2>1. from(j) \in DOMAIN s /\ from(k) \in DOMAIN s /\ from(j) < from(k) /\ t[j] = s[from(j)] /\ t[k] = s[from(k)]
    BY <1>4, <1>5
  <2> QED BY <1>1, <2>1 DEF Sorted
<1>7. Distinct(t)
  <2> SUFFICES ASSUME NEW j \in DOMAIN t, NEW k \in DOMAIN t, t[j].id = t[k].id PROVE j = k
    BY DEF Distinct
  <2>1. from(j) \in DOMAIN s /\ from(k) \in DOMAIN s /\ t[j] = s[from(j)] /\ t[k] = s[from(k)]
    BY <1>4
  <2>2. from(j) = from(k)
    BY <1>1, <2>1 DEF Distinct
  <2> QED BY <1>5, <2>2
<1>8. \A k \in DOMAIN t : t[k].order.side = side /\ t[k].seq < n
  BY <1>1, <1>4
<1> QED
  BY <1>1, <1>2, <1>4, <1>6, <1>7, <1>8 DEF SideOK, t

\* Everything in c was in b.
OnlyFrom(c, b) == \A side \in Sides : \A j \in DOMAIN c[side] : \E i \in DOMAIN b[side] : c[side][j] = b[side][i]

\* cancel takes out one order at most.
LEMMA Cancelled ==
  ASSUME NEW b, BookOK(b), NEW id
  PROVE  BookOK(cancel(b, id)) /\ OnlyFrom(cancel(b, id), b)
<1> DEFINE found(s) == {k \in DOMAIN s : s[k].id = id}
           others(s) == IF found(s) = {} THEN s ELSE RemoveAt(s, Min(found(s)))
           c == cancel(b, id)
           SideKept(side, t) == /\ SideOK(side, t, b.next_seq)
                             /\ \A j \in DOMAIN t : \E i \in DOMAIN b[side] : t[j] = b[side][i]
<1>1. /\ b \in BookTypes /\ b["buy"] = b.buy /\ b["sell"] = b.sell
      /\ \A side \in Sides : SideOK(side, b[side], b.next_seq)
  BY BookSides DEF BookOK
<1>2. ASSUME NEW side \in Sides PROVE SideKept(side, b[side]) /\ SideKept(side, others(b[side]))
  <2> DEFINE s == b[side]
  <2>1. SideOK(side, s, b.next_seq) /\ s \in Seq(Resters) /\ DOMAIN s = 1..Len(s)
    BY <1>1 DEF SideOK
  <2>2. SideKept(side, s)
    BY <2>1
  <2>3. ASSUME found(s) # {} PROVE SideKept(side, RemoveAt(s, Min(found(s))))
    <3>1. found(s) \in SUBSET Nat /\ found(s) # {} /\ \A k \in found(s) : k \in 1..Len(s)
      BY <2>1, <2>3
    <3>2. Min(found(s)) \in found(s)
      <4> HIDE DEF found
      <4> QED BY <3>1, FirstPlace
    <3>3. Min(found(s)) \in 1..Len(s)
      BY <3>1, <3>2
    <3> HIDE DEF found, s
    <3>4. /\ SideOK(side, RemoveAt(s, Min(found(s))), b.next_seq)
          /\ \A j \in DOMAIN RemoveAt(s, Min(found(s))) : \E i \in DOMAIN s : RemoveAt(s, Min(found(s)))[j] = s[i]
      BY <2>1, <3>3, SideShrinks
    <3> QED BY <3>4 DEF s
  <2> HIDE DEF SideKept, found
  <2>4. CASE found(s) = {}
    BY <2>2, <2>4
  <2>5. CASE found(s) # {}
    BY <2>2, <2>3, <2>5
  <2> QED BY <2>4, <2>5
<1>3. c = [b EXCEPT !.buy = others(b.buy), !.sell = IF found(b.buy) = {} THEN others(b.sell) ELSE b.sell]
  BY DEF cancel
<1> HIDE DEF others, found, c
<1>4. PICK x, y : /\ c = [b EXCEPT !.buy = x, !.sell = y]
                  /\ x = others(b["buy"]) /\ (y = others(b["sell"]) \/ y = b["sell"])
  <2>1. CASE found(b.buy) = {}
    BY <1>1, <1>3, <2>1
  <2>2. CASE found(b.buy) # {}
    BY <1>1, <1>3, <2>2
  <2> QED BY <2>1, <2>2
<1>5. SideKept("buy", x) /\ SideKept("sell", y)
  <2> HIDE DEF SideKept
  <2> QED BY <1>2, <1>4 DEF Sides
<1>6. x \in Seq(Resters) /\ y \in Seq(Resters)
  BY <1>5 DEF SideOK
<1>7. /\ c \in BookTypes /\ c["buy"] = x /\ c["sell"] = y /\ c.next_seq = b.next_seq
  BY <1>1, <1>4, <1>6 DEF BookTypes
<1>8. ASSUME NEW side \in Sides PROVE SideKept(side, c[side])
  <2> HIDE DEF SideKept
  <2> QED BY <1>5, <1>7 DEF Sides
<1> QED
  BY <1>7, <1>8 DEF BookOK, OnlyFrom, c

-----------------------------------------------------------------------------
(* place.                                                                  *)

\* No bid meets an ask.
Parted(b) ==
    \A j \in DOMAIN b.buy, k \in DOMAIN b.sell : b.buy[j].order.price < b.sell[k].order.price

\* What r, the outcome of placing order o, makes of the book b.
Placed(r, b, id, o) ==
    /\ r.fills \in Seq(Fills) /\ fillsTotal(r.fills) \in Nat /\ fillsTotal(r.fills) <= o.amount
    /\ BookOK(r.book)
    /\ \A side \in Sides : \A j \in DOMAIN r.book[side] :
          \/ side = o.side /\ r.book[side][j].id = id /\ r.book[side][j].order = o
          \/ \E i \in DOMAIN b[side] : Grown(r.book[side][j], b[side][i])
    /\ \A j \in DOMAIN r.fills :
          /\ r.fills[j].taker = id
          /\ \E i \in DOMAIN b[opposite(o.side)] :
                /\ r.fills[j].maker = b[opposite(o.side)][i].id
                /\ \A h \in 1..(i-1), l \in DOMAIN r.book[opposite(o.side)] :
                      r.book[opposite(o.side)][l].id # b[opposite(o.side)][h].id
    /\ Parted(b) => Parted(r.book)

\* Bids and asks by their sides.
LEMMA PartedSides ==
  ASSUME NEW b \in BookTypes, NEW side \in Sides
  PROVE  Parted(b) <=> \A j \in DOMAIN b[side], k \in DOMAIN b[opposite(side)] :
                          better(opposite(side), b[side][j].order.price, b[opposite(side)][k].order.price)
<1>1. b["buy"] = b.buy /\ b["sell"] = b.sell
  BY BookSides
<1>2. ASSUME NEW s \in Sides, NEW k \in DOMAIN b[s] PROVE b[s][k].order.price \in Nat
  <2>1. b[s] \in Seq(Resters)
    BY BookSides
  <2>2. b[s][k] \in Resters
    BY <2>1
  <2> QED BY <2>2, ResterFields
<1>3. CASE side = "buy"
  BY <1>1, <1>2, <1>3 DEF Parted, better, opposite, Sides
<1>4. CASE side = "sell"
  BY <1>1, <1>2, <1>4 DEF Parted, better, opposite, Sides
<1> QED
  BY <1>3, <1>4 DEF Sides

\* Placing an order in a book that does not have it.
THEOREM PlaceFacts ==
  ASSUME NEW b, BookOK(b), NEW id \in Ids, NEW o \in SignedOrders,
         \A side \in Sides : \A k \in DOMAIN b[side] : b[side][k].id # id
  PROVE  Placed(place(b, id, o), b, id, o)
<1> DEFINE opp == opposite(o.side)
           s == b[opp]
           m == match(b, id, o)
           matched == [b EXCEPT ![opp] = m.left]
           e == [id |-> id, order |-> o, filled |-> o.amount - fillsTotal(m.fills), seq |-> 0]
           r == place(b, id, o)
<1>1. /\ b \in BookTypes /\ opp \in Sides /\ o.side \in Sides /\ opp # o.side
      /\ \A side \in Sides : side = opp \/ side = o.side
      /\ o.amount \in Nat /\ o.price \in Nat
  BY SignedOrdersTyped, BoundsTyped DEF opposite, Sides, BookOK
<1>2. SideOK(opp, s, b.next_seq) /\ s \in Seq(Resters) /\ Sorted(opp, s) /\ Distinct(s)
  BY <1>1 DEF BookOK, SideOK
<1>3. Reached(m, s, Len(s), id, o)
  BY <1>2, Matched
<1>4. /\ r.fills = m.fills
      /\ m.remaining = 0 => r.book = matched
      /\ m.remaining # 0 => r.book = insert(matched, e)
  BY DEF place
<1> HIDE DEF m, r
<1>5. /\ m.remaining \in Nat /\ m.fills \in Seq(Fills) /\ m.left \in Seq(Resters)
      /\ m.remaining + fillsTotal(m.fills) = o.amount
      /\ Sorted(opp, m.left) /\ Distinct(m.left)
      /\ \A j \in DOMAIN m.left : \E i \in 1..Len(s) : Grown(m.left[j], s[i])
      /\ m.remaining # 0 => \A j \in DOMAIN m.left : ~accepts(o.side, o.price, m.left[j].order.price)
      /\ \A j \in DOMAIN m.fills :
          /\ m.fills[j].taker = id
          /\ \E i \in 1..Len(s) : /\ m.fills[j].maker = s[i].id
                             /\ \A h \in 1..(i-1), l \in DOMAIN m.left : m.left[l].id # s[h].id
  BY <1>3 DEF Reached, Progress
<1>6. fillsTotal(m.fills) \in Nat
  BY <1>5, SumsAreParts, PartType
<1>7. /\ fillsTotal(m.fills) <= o.amount
      /\ o.amount - fillsTotal(m.fills) \in Nat /\ o.amount - fillsTotal(m.fills) <= o.amount
  BY <1>1, <1>5, <1>6
<1>8. DOMAIN s = 1..Len(s)
  BY <1>2
<1>9. /\ matched \in BookTypes /\ matched[opp] = m.left /\ matched.next_seq = b.next_seq
      /\ matched[o.side] = b[o.side]
  <2>1. Replaced(matched, b, opp, m.left, b.next_seq)
    <3>1. b.next_seq \in Nat
      BY <1>2 DEF SideOK
    <3> QED BY <1>1, <1>5, <3>1, BookReplaced
  <2> QED BY <1>1, <2>1 DEF Replaced
<1> HIDE DEF matched
<1>10. SideOK(opp, m.left, b.next_seq)
  <2>1. b.next_seq \in Nat /\ \A k \in DOMAIN s : s[k].order.side = opp /\ s[k].seq < b.next_seq
    BY <1>2 DEF SideOK
  <2>2. ASSUME NEW k \in DOMAIN m.left PROVE m.left[k].order.side = opp /\ m.left[k].seq < b.next_seq
    <3>1. PICK i \in 1..Len(s) : Grown(m.left[k], s[i])
      BY <1>5
    <3> QED BY <1>8, <2>1, <3>1 DEF Grown
  <2> QED BY <1>5, <2>1, <2>2 DEF SideOK
<1>11. BookOK(matched)
  <2>1. SideOK(o.side, b[o.side], b.next_seq)
    BY <1>1 DEF BookOK
  <2> QED BY <1>1, <1>9, <1>10, <2>1 DEF BookOK
<1>12. ASSUME NEW side \in Sides, NEW j \in DOMAIN matched[side]
       PROVE  \E i \in DOMAIN b[side] : Grown(matched[side][j], b[side][i])
  <2>1. CASE side = opp
    BY <1>5, <1>8, <1>9, <2>1
  <2>2. CASE side = o.side
    <3>1. Grown(b[side][j], b[side][j])
      BY DEF Grown
    <3> QED BY <1>9, <2>2, <3>1
  <2> QED BY <1>1, <2>1, <2>2
<1>13. Parted(b) => Parted(matched)
  <2> SUFFICES ASSUME Parted(b) PROVE Parted(matched)
    OBVIOUS
  <2>1. \A j \in DOMAIN b[o.side], k \in DOMAIN s : better(opp, b[o.side][j].order.price, s[k].order.price)
    BY <1>1, PartedSides
  <2>2. ASSUME NEW j \in DOMAIN matched[o.side], NEW k \in DOMAIN matched[opp]
        PROVE  better(opp, matched[o.side][j].order.price, matched[opp][k].order.price)
    <3>1. PICK i \in DOMAIN s : Grown(m.left[k], s[i])
      BY <1>5, <1>8, <1>9
    <3>2. better(opp, b[o.side][j].order.price, s[i].order.price)
      BY <1>9, <2>1
    <3> QED BY <1>9, <3>1, <3>2 DEF Grown
  <2> QED BY <1>1, <1>9, <2>2, PartedSides
<1>16. ASSUME NEW c, c[opp] = m.left
       PROVE  \A j \in DOMAIN m.fills :
          /\ m.fills[j].taker = id
          /\ \E i \in DOMAIN s : /\ m.fills[j].maker = s[i].id
                /\ \A h \in 1..(i-1), l \in DOMAIN c[opp] : c[opp][l].id # s[h].id
  <2> SUFFICES ASSUME NEW j \in DOMAIN m.fills
               PROVE  /\ m.fills[j].taker = id
                      /\ \E i \in DOMAIN s : /\ m.fills[j].maker = s[i].id
                            /\ \A h \in 1..(i-1), l \in DOMAIN c[opp] : c[opp][l].id # s[h].id
    OBVIOUS
  <2> HIDE DEF s, opp
  <2>1. PICK i \in 1..Len(s) : /\ m.fills[j].maker = s[i].id
                               /\ \A h \in 1..(i-1), l \in DOMAIN m.left : m.left[l].id # s[h].id
    BY <1>5
  <2>2. i \in DOMAIN s
    BY <1>8
  <2> QED BY <1>5, <1>16, <2>1, <2>2
\* The taker is done.
<1>14. CASE m.remaining = 0
  <2>1. r.book = matched /\ r.fills = m.fills
    BY <1>4, <1>14
  <2>2. \A j \in DOMAIN r.fills :
          /\ r.fills[j].taker = id
          /\ \E i \in DOMAIN s : /\ r.fills[j].maker = s[i].id
                /\ \A h \in 1..(i-1), l \in DOMAIN r.book[opp] : r.book[opp][l].id # s[h].id
    BY <1>9, <1>16, <2>1
  <2> QED BY <1>5, <1>6, <1>7, <1>11, <1>12, <1>13, <2>1, <2>2 DEF Placed, r
\* The taker rests.
<1>15. CASE m.remaining # 0
  <2>1. r.book = insert(matched, e) /\ r.fills = m.fills
    BY <1>4, <1>15
  <2>2. /\ e \in Resters /\ e.id = id /\ e.order = o
    BY <1>7 DEF Resters
  <2>3. \A k \in DOMAIN matched[o.side] : matched[o.side][k].id # id
    BY <1>1, <1>9
  <2> DEFINE x == Stamped(matched, e)
             c == insert(matched, e)
  <2>4. /\ x.id = id /\ x.order = o
        /\ BookOK(c) /\ Holds(c, matched, x)
        /\ c[opp] = m.left
    <3>1. \A k \in DOMAIN matched[e.order.side] : matched[e.order.side][k].id # e.id
      BY <2>2, <2>3
    <3> HIDE DEF e
    <3>2. /\ Stamped(matched, e).id = e.id /\ Stamped(matched, e).order = e.order
          /\ BookOK(insert(matched, e)) /\ Holds(insert(matched, e), matched, Stamped(matched, e))
          /\ \A side \in Sides \ {e.order.side} : insert(matched, e)[side] = matched[side]
      BY <1>11, <2>2, <3>1, Inserted
    <3> QED BY <1>1, <1>9, <2>2, <3>2
  <2> HIDE DEF e, x, c
  <2>5. ASSUME NEW side \in Sides, NEW j \in DOMAIN c[side]
        PROVE  \/ side = o.side /\ c[side][j].id = id /\ c[side][j].order = o
               \/ \E i \in DOMAIN b[side] : Grown(c[side][j], b[side][i])
    <3>1. \/ side = o.side /\ c[side][j] = x
          \/ \E i \in DOMAIN matched[side] : c[side][j] = matched[side][i]
      BY <2>4 DEF Holds
    <3> QED BY <1>12, <2>4, <3>1
  <2>6. \A j \in DOMAIN m.fills :
          /\ m.fills[j].taker = id
          /\ \E i \in DOMAIN s : /\ m.fills[j].maker = s[i].id
                /\ \A h \in 1..(i-1), l \in DOMAIN c[opp] : c[opp][l].id # s[h].id
    BY <1>16, <2>4
  <2>7. Parted(b) => Parted(c)
    <3> SUFFICES ASSUME Parted(b) PROVE Parted(c)
      OBVIOUS
    <3>1. \A j \in DOMAIN matched[o.side], k \in DOMAIN m.left :
             better(opp, matched[o.side][j].order.price, m.left[k].order.price)
      BY <1>1, <1>9, <1>13, PartedSides
    <3>2. \A k \in DOMAIN m.left : better(opp, o.price, m.left[k].order.price)
      <4>1. \A k \in DOMAIN m.left : ~accepts(o.side, o.price, m.left[k].order.price)
        BY <1>5, <1>15
      <4>2. \A k \in DOMAIN m.left : m.left[k] \in Resters
        BY <1>5
      <4>3. \A k \in DOMAIN m.left : m.left[k].order.price \in Nat
        BY <4>2, ResterFields
      <4> QED BY <1>1, <4>1, <4>3 DEF accepts, better, opposite, Sides
    <3>3. ASSUME NEW j \in DOMAIN c[o.side], NEW k \in DOMAIN c[opp]
          PROVE  better(opp, c[o.side][j].order.price, c[opp][k].order.price)
      <4>1. \/ c[o.side][j] = x
            \/ \E i \in DOMAIN matched[o.side] : c[o.side][j] = matched[o.side][i]
        BY <1>1, <2>4 DEF Holds
      <4> QED BY <2>4, <3>1, <3>2, <4>1
    <3>4. c \in BookTypes
      BY <2>4 DEF BookOK
    <3> QED BY <1>1, <3>3, <3>4, PartedSides
  <2>8. r.book = c
    BY <2>1 DEF c
  <2>9. /\ r.fills \in Seq(Fills) /\ fillsTotal(r.fills) \in Nat /\ fillsTotal(r.fills) <= o.amount
        /\ BookOK(r.book) /\ (Parted(b) => Parted(r.book))
    BY <1>5, <1>6, <1>7, <2>1, <2>4, <2>7, <2>8
  <2>10. \A side \in Sides : \A j \in DOMAIN r.book[side] :
          \/ side = o.side /\ r.book[side][j].id = id /\ r.book[side][j].order = o
          \/ \E i \in DOMAIN b[side] : Grown(r.book[side][j], b[side][i])
    BY <2>5, <2>8
  <2>11. \A j \in DOMAIN r.fills :
          /\ r.fills[j].taker = id
          /\ \E i \in DOMAIN s : /\ r.fills[j].maker = s[i].id
                /\ \A h \in 1..(i-1), l \in DOMAIN r.book[opp] : r.book[opp][l].id # s[h].id
    BY <2>1, <2>6, <2>8
  <2>12. Placed(r, b, id, o)
    BY <2>9, <2>10, <2>11 DEF Placed
  <2> QED BY <2>12 DEF r
<1> QED
  BY <1>5, <1>14, <1>15

-----------------------------------------------------------------------------
(* rebuild_books.                                                          *)

\* insert makes a book of any book.
LEMMA InsertType ==
  ASSUME NEW b \in BookTypes, NEW e \in Resters
  PROVE  insert(b, e) \in BookTypes
<1> DEFINE side == e.order.side
           s == b[side]
           ahead == {k \in DOMAIN s : ~better(side, e.order.price, s[k].order.price)}
           m == Max({0} \cup ahead)
           x == Stamped(b, e)
<1>1. side \in Sides /\ s \in Seq(Resters) /\ b.next_seq \in Nat
  BY ResterFields, BookSides
<1>2. x \in Resters
  BY <1>1 DEF Stamped, Resters
<1>3. insert(b, e) = [b EXCEPT ![side] = InsertAt(s, m + 1, x), !.next_seq = b.next_seq + 1]
  BY DEF insert, Stamped
<1>4. m \in 0..Len(s)
  <2>1. ahead \in SUBSET (1..Len(s)) /\ Len(s) \in Nat
    BY <1>1
  <2> HIDE DEF ahead
  <2> QED BY <2>1, LastPlace
<1> HIDE DEF m, x, s
<1>5. InsertAt(s, m + 1, x) \in Seq(Resters)
  BY ONLY <1>1, <1>2, <1>4, InsertAtFacts
<1>6. Replaced([b EXCEPT ![side] = InsertAt(s, m + 1, x), !.next_seq = b.next_seq + 1],
               b, side, InsertAt(s, m + 1, x), b.next_seq + 1)
  <2>1. b.next_seq + 1 \in Nat
    BY <1>1
  <2> HIDE DEF side
  <2> QED BY <1>1, <1>5, <2>1, BookReplaced
<1> QED
  BY <1>3, <1>6 DEF Replaced

Row == [id : Ids, order : SignedOrders, status : {"open", "filled", "cancelled"}, filled : Nat]

\* What may be rebuilt: one row per order, and none open with more filled than ordered.
RowsFit ==
    /\ orders \in Seq(Row) /\ Distinct(orders)
    /\ \A k \in DOMAIN orders : orders[k].status = "open" => orders[k].filled <= orders[k].order.amount

\* A book of the open ones of the first k rows.
FromRows(b, p, k) ==
    /\ BookOK(b)
    /\ \A side \in Sides : \A j \in DOMAIN b[side] :
          \E i \in 1..k : /\ orders[i].status = "open" /\ orders[i].order.position = p
                          /\ b[side][j].id = orders[i].id /\ b[side][j].order = orders[i].order

\* The next row.
LEMMA RowInserted ==
  ASSUME RowsFit, NEW p, NEW k \in 1..Len(orders), NEW b, FromRows(b, p, k-1)
  PROVE  FromRows(IF k \in load_open_orders(p) THEN insert(b, restingRow(orders[k])) ELSE b, p, k)
<1> DEFINE e == restingRow(orders[k])
           c == insert(b, e)
<1>1. /\ orders \in Seq(Row) /\ Distinct(orders) /\ DOMAIN orders = 1..Len(orders) /\ Len(orders) \in Nat
      /\ k \in DOMAIN orders /\ orders[k] \in Row
  BY DEF RowsFit
<1>2. \A i \in 1..(k-1) : i \in 1..k /\ i \in DOMAIN orders /\ i # k
  BY <1>1
<1>3. CASE k \notin load_open_orders(p)
  <2>1. FromRows(b, p, k)
    BY <1>2 DEF FromRows
  <2> QED BY <1>3, <2>1
<1>4. CASE k \in load_open_orders(p)
  <2>1. orders[k].status = "open" /\ orders[k].order.position = p /\ orders[k].filled <= orders[k].order.amount
    BY <1>1, <1>4 DEF load_open_orders, RowsFit
  <2>2. e \in Resters /\ e.id = orders[k].id /\ e.order = orders[k].order
    BY <1>1, <2>1 DEF restingRow, Resters, Row
  <2> HIDE DEF e
  <2>3. \A j \in DOMAIN b[e.order.side] : b[e.order.side][j].id # e.id
    <3> SUFFICES ASSUME NEW j \in DOMAIN b[e.order.side], b[e.order.side][j].id = e.id PROVE FALSE
      OBVIOUS
    <3>1. e.order.side \in Sides
      BY <2>2, ResterFields
    <3>2. PICK i \in 1..(k-1) : b[e.order.side][j].id = orders[i].id
      BY <3>1 DEF FromRows
    <3> QED BY <1>1, <1>2, <2>2, <3>2 DEF Distinct
  <2>4. /\ Stamped(b, e).id = e.id /\ Stamped(b, e).order = e.order
        /\ BookOK(c) /\ Holds(c, b, Stamped(b, e))
    <3>1. BookOK(b)
      BY DEF FromRows
    <3> QED BY <2>2, <2>3, <3>1, Inserted
  <2> HIDE DEF c
  <2>5. ASSUME NEW side \in Sides, NEW j \in DOMAIN c[side]
        PROVE  \E i \in 1..k : /\ orders[i].status = "open" /\ orders[i].order.position = p
                               /\ c[side][j].id = orders[i].id /\ c[side][j].order = orders[i].order
    <3>1. c[side][j] = Stamped(b, e) \/ \E i \in DOMAIN b[side] : c[side][j] = b[side][i]
      BY <2>4 DEF Holds
    <3>2. CASE c[side][j] = Stamped(b, e)
      <4>1. k \in 1..k
        BY <1>1
      <4> QED BY <2>1, <2>2, <2>4, <3>2, <4>1
    <3>3. CASE \E i \in DOMAIN b[side] : c[side][j] = b[side][i]
      <4>1. PICK l \in DOMAIN b[side] : c[side][j] = b[side][l]
        BY <3>3
      <4>2. PICK i \in 1..(k-1) : /\ orders[i].status = "open" /\ orders[i].order.position = p
                               /\ b[side][l].id = orders[i].id /\ b[side][l].order = orders[i].order
        BY DEF FromRows
      <4> QED BY <1>2, <4>1, <4>2
    <3> QED BY <3>1, <3>2, <3>3
  <2>6. FromRows(c, p, k)
    BY <2>4, <2>5 DEF FromRows
  <2> QED BY <1>4, <2>6 DEF c, e
<1> QED
  BY <1>3, <1>4

\* The empty book.
LEMMA EmptyIsOK == BookOK(EmptyBook) /\ \A side \in Sides : EmptyBook[side] = << >>
<1>1. EmptyBook["buy"] = << >> /\ EmptyBook["sell"] = << >> /\ EmptyBook.next_seq = 0
  BY DEF EmptyBook
<1>2. EmptyBook \in BookTypes
  BY DEF EmptyBook, BookTypes
<1>3. \A side \in Sides : EmptyBook[side] = << >>
  BY <1>1 DEF Sides
<1>4. \A side \in Sides : SideOK(side, << >>, 0)
  BY DEF SideOK, Sorted, Distinct
<1> QED
  BY <1>1, <1>2, <1>3, <1>4 DEF BookOK

\* The books rebuilt from the rows.
LEMMA Rebuilt ==
  ASSUME RowsFit, NEW p \in Positions
  PROVE  FromRows(rebuild_books[p], p, Len(orders))
<1> DEFINE N == Len(orders)
           next(b, k) == IF k \in load_open_orders(p) THEN insert(b, restingRow(orders[k])) ELSE b
           f == [c \in BookTypes \X (1..N) |-> next(c[1], c[2])]
           Body(g) == [k \in 0..N |-> IF k = 0 THEN EmptyBook ELSE next(g[k-1], k)]
           q == CHOOSE g : g = Body(g)
<1>1. orders \in Seq(Row) /\ N \in Nat /\ DOMAIN orders = 1..N
  BY DEF RowsFit
<1>2. rebuild_books[p] = q[N]
  <2> DEFINE built == CHOOSE g : g = [k \in 0..Len(orders) |->
                      IF k = 0 THEN EmptyBook
                      ELSE IF k \in load_open_orders(p) THEN insert(g[k-1], restingRow(orders[k]))
                      ELSE g[k-1]]
  <2>1. rebuild_books[p] = built[Len(orders)]
    BY DEF rebuild_books
  <2> QED BY <2>1
<1> HIDE DEF N
<1>3. f \in [BookTypes \X (1..N) -> BookTypes]
  <2>1. ASSUME NEW b \in BookTypes, NEW k \in 1..N PROVE next(b, k) \in BookTypes
    <3>1. CASE k \in load_open_orders(p)
      <4>1. orders[k] \in Row /\ orders[k].filled <= orders[k].order.amount
        BY <1>1, <3>1 DEF load_open_orders, RowsFit
      <4>2. restingRow(orders[k]) \in Resters
        BY <4>1 DEF restingRow, Resters, Row
      <4> QED BY <3>1, <4>2, InsertType
    <3>2. CASE k \notin load_open_orders(p)
      BY <3>2
    <3> QED BY <3>1, <3>2
  <2> HIDE DEF next
  <2> QED BY <2>1
<1> HIDE DEF next
<1>4. EmptyBook \in BookTypes
  BY EmptyIsOK DEF BookOK
<1>5. PICK r \in [0..N -> BookTypes] : r[0] = EmptyBook /\ \A k \in 1..N : r[k] = f[<<r[k-1], k>>]
  <2> HIDE DEF f
  <2>1. \E r : Iterates(r, f, BookTypes, EmptyBook, N)
    BY ONLY <1>1, <1>3, <1>4, IterationExists
  <2> QED BY <2>1 DEF Iterates
<1>6. ASSUME NEW k \in 1..N PROVE r[k] = next(r[k-1], k)
  <2>1. k - 1 \in 0..N
    BY <1>1
  <2>2. r[k-1] \in BookTypes
    BY <2>1
  <2> QED BY <1>5, <2>2
<1> HIDE DEF f
<1>7. r = Body(r)
  <2>1. ASSUME NEW k \in 0..N PROVE r[k] = IF k = 0 THEN EmptyBook ELSE next(r[k-1], k)
    <3>1. CASE k = 0
      BY <1>5, <3>1
    <3>2. CASE k # 0
      <4>1. k \in 1..N
        BY <1>1, <3>2
      <4> QED BY <1>6, <3>2, <4>1
    <3> QED BY <3>1, <3>2
  <2> QED BY <2>1
<1>8. q = Body(q)
  <2> HIDE DEF Body
  <2> QED BY <1>7
<1> HIDE DEF q
<1>9. ASSUME NEW k \in 0..N PROVE q[k] = r[k]
  <2> DEFINE T == {j \in 0..N : q[j] = r[j]}
  <2>1. 0 \in T
    BY <1>1, <1>7, <1>8
  <2>2. ASSUME NEW j \in 1..N, j - 1 \in T PROVE j \in T
    <3>1. j \in 0..N /\ j # 0 /\ q[j-1] = r[j-1]
      BY <2>2
    <3>2. q[j] = next(q[j-1], j)
      BY <1>8, <3>1
    <3> QED BY <1>6, <3>1, <3>2
  <2>3. \A j \in 0..N : j \in T
    <3> HIDE DEF T
    <3> QED BY <1>1, <2>1, <2>2, UpTo
  <2> QED BY <2>3
<1> DEFINE T == {k \in 0..N : FromRows(r[k], p, k)}
<1>10. 0 \in T
  <2>1. FromRows(EmptyBook, p, 0)
    BY EmptyIsOK DEF FromRows
  <2> QED BY <1>1, <1>5, <2>1
<1>11. ASSUME NEW k \in 1..N, k - 1 \in T PROVE k \in T
  <2>1. FromRows(r[k-1], p, k-1) /\ k \in 0..N
    BY <1>1, <1>11
  <2>2. FromRows(next(r[k-1], k), p, k)
    <3>1. k \in 1..Len(orders)
      BY DEF N
    <3> QED BY <2>1, <3>1, RowInserted DEF next
  <2> QED BY <1>6, <2>1, <2>2
<1>12. \A k \in 0..N : k \in T
  <2> HIDE DEF T
  <2> QED BY <1>1, <1>10, <1>11, UpTo
<1>13. FromRows(r[N], p, N) /\ q[N] = r[N]
  <2>1. N \in 0..N
    BY <1>1
  <2> QED BY <1>9, <1>12, <2>1
<1> QED
  BY <1>2, <1>13 DEF N

-----------------------------------------------------------------------------
(* The invariant of the matcher, its queue and the rows it leaves behind.  *)

Commands == [do : {"place"}, id : Ids, order : SignedOrders] \cup [do : {"cancel"}, id : Ids, position : Positions]

\* Is the order on its way to the matcher?
Placing(i) == \E k \in DOMAIN queue : queue[k].do = "place" /\ queue[k].id = i

\* The matcher has not seen the order yet, and may.
Fresh(i) == at[i] \in {"idle", "reserved", "inserted", "held"} \/ Placing(i)

\* Is the order in a fill on its way to the database?
Named(i) == \E k \in DOMAIN results : i \in {results[k].maker, results[k].taker}

Shapes ==
    /\ queue \in Seq(Commands) /\ Len(queue) <= QueueCapacity
    /\ results \in Seq(Fills)
    /\ orders \in Seq(Row)
    /\ books \in [Positions -> BookTypes]
    /\ traded \in [Ids -> Nat]
    /\ persisting \in {"publish", "maker", "taker"}

\* What rests is what was sent, in its place, and was taken from the queue.
BooksFit ==
    \A p \in Positions :
        /\ BookOK(books[p])
        /\ \A side \in Sides : \A k \in DOMAIN books[p][side] :
              LET r == books[p][side][k] IN
              r.order = sent[r.id] /\ r.order.position = p /\ ~Fresh(r.id)

\* One row per order, as it was sent; a row is filled only once the matcher has had the order.
RowsMatch ==
    /\ Distinct(orders)
    /\ \A k \in DOMAIN orders :
          /\ orders[k].order = sent[orders[k].id] /\ at[orders[k].id] \notin {"idle", "reserved"}
          /\ Fresh(orders[k].id) => orders[k].status # "filled"

\* What the queue places is what was sent, once, and held.
QueueFits ==
    /\ \A k \in DOMAIN queue : queue[k].do = "place" =>
          queue[k].order = sent[queue[k].id] /\ queue[k].id \in holds /\ at[queue[k].id] = "accepted"
    /\ \A j, k \in DOMAIN queue :
          queue[j].do = "place" /\ queue[k].do = "place" /\ queue[j].id = queue[k].id => j = k

FreshUntraded == \A i \in Ids : Fresh(i) => traded[i] = 0 /\ ~Named(i)

\* Who makes a fill never takes a later one.
TakersFirst ==
    /\ \A j, k \in DOMAIN results : j <= k => results[j].maker # results[k].taker
    /\ results = << >> => persisting = "publish"

\* What is stored of a row and what it still takes fit its amount; nothing that is filled takes any more.
RowsFillable ==
    \A k \in DOMAIN orders :
        IF orders[k].status = "filled" THEN \A j \in DOMAIN results : results[j].taker # orders[k].id
        ELSE orders[k].filled + Part(results, TakenBy(orders[k].id)) <= orders[k].order.amount

Held ==
    \A p \in Positions, side \in Sides : \A k \in DOMAIN books[p][side] :
        LET i == books[p][side][k].id IN i \in holds \/ (restarted /\ at[i] = "rejected")

BooksParted == ~restarted => \A p \in Positions : Parted(books[p])

MatcherInv ==
    /\ Shapes /\ BooksFit /\ RowsMatch /\ QueueFits /\ FreshUntraded /\ TakersFirst /\ RowsFillable
    /\ FillsCountOnce /\ Held /\ BooksParted

\* At first.
LEMMA MatcherInitially == Init => MatcherInv
<1> SUFFICES ASSUME Init PROVE MatcherInv
  OBVIOUS
<1>1. /\ queue = << >> /\ results = << >> /\ orders = << >> /\ persisting = "publish"
      /\ books = [p \in Positions |-> EmptyBook] /\ traded = [i \in Ids |-> 0]
      /\ restarted = FALSE
  BY DEF Init
<1>2. BookOK(EmptyBook) /\ EmptyBook \in BookTypes /\ \A side \in Sides : DOMAIN EmptyBook[side] = {}
  <2>1. DOMAIN << >> = {}
    OBVIOUS
  <2> QED BY <2>1, EmptyIsOK DEF BookOK
<1>3. Shapes
  BY <1>1, <1>2, BoundsTyped DEF Shapes
<1>4. BooksFit /\ Held
  BY <1>1, <1>2 DEF BooksFit, Held
<1>5. RowsMatch /\ QueueFits /\ TakersFirst /\ RowsFillable /\ FillsCountOnce
  BY <1>1 DEF RowsMatch, QueueFits, TakersFirst, RowsFillable, FillsCountOnce, Distinct
<1>6. FreshUntraded
  BY <1>1 DEF FreshUntraded, Named
<1>7. BooksParted
  <2>1. EmptyBook.buy = << >>
    BY DEF EmptyBook
  <2>2. Parted(EmptyBook)
    BY <2>1 DEF Parted
  <2> QED BY <1>1, <2>2 DEF BooksParted
<1> QED
  BY <1>3, <1>4, <1>5, <1>6, <1>7 DEF MatcherInv

\* What rests has an id of its own among all the books, and none is fresh.
LEMMA RestingFacts ==
  ASSUME MatcherInv, NEW p \in Positions, NEW side \in Sides, NEW k \in DOMAIN books[p][side]
  PROVE  /\ books[p][side][k] \in Resters /\ books[p][side][k].id \in Ids
         /\ books[p][side][k].order = sent[books[p][side][k].id]
         /\ books[p][side][k].order.position = p /\ books[p][side][k].order.side = side
         /\ ~Fresh(books[p][side][k].id)
<1>1. BookOK(books[p]) /\ SideOK(side, books[p][side], books[p].next_seq)
  BY DEF MatcherInv, BooksFit, BookOK
<1>2. books[p][side] \in Seq(Resters) /\ books[p][side][k].order.side = side
  BY <1>1 DEF SideOK
<1>3. books[p][side][k] \in Resters
  BY <1>2
<1> QED
  BY <1>2, <1>3, ResterFields DEF MatcherInv, BooksFit

\* What pending stands for: the fills of the queue, without what the maker of the first already has.
LEMMA PendingFacts ==
  ASSUME Shapes, NEW i
  PROVE  /\ Part(results, Involving(i)) \in Nat
         /\ persisting # "taker" => pending(i) = Part(results, Involving(i))
         /\ results # << >> =>
              LET f    == Head(results)
                  rest == Part(Tail(results), Involving(i))
              IN  /\ f \in Fills /\ rest \in Nat
                  /\ i \notin {f.maker, f.taker} => pending(i) = rest
                  /\ i \in {f.maker, f.taker} /\ persisting # "taker" => pending(i) = rest + f.amount
                  /\ i = f.maker /\ persisting = "taker" => pending(i) = rest
                  /\ i = f.taker /\ i # f.maker /\ persisting = "taker" => pending(i) = rest + f.amount
<1> DEFINE f == Head(results)
           rest == Part(Tail(results), Involving(i))
           all == Part(results, Involving(i))
           gone == IF persisting = "taker" /\ f.maker = i THEN f.amount ELSE 0
<1>1. results \in Seq(Fills)
  BY DEF Shapes
<1>2. all \in Nat /\ filledOf(i, results) = all
  BY <1>1, PartType, SumsAreParts
<1>3. pending(i) = all - gone
  BY <1>2 DEF pending
<1>4. persisting # "taker" => pending(i) = all
  BY <1>2, <1>3
<1>5. ASSUME results # << >>
      PROVE  /\ f \in Fills /\ f.amount \in Nat /\ rest \in Nat
             /\ f \in Involving(i) <=> i \in {f.maker, f.taker}
             /\ all = rest + (IF f \in Involving(i) THEN f.amount ELSE 0)
  <2>1. f \in Fills /\ Tail(results) \in Seq(Fills) /\ all = rest + (IF f \in Involving(i) THEN f.amount ELSE 0)
    BY <1>1, <1>5, PartHead
  <2>2. rest \in Nat
    BY <2>1, PartType
  <2>3. f.amount \in Nat /\ (f \in Involving(i) <=> i \in {f.maker, f.taker})
    BY <2>1 DEF Fills, Involving
  <2> QED BY <2>1, <2>2, <2>3
<1> HIDE DEF f, rest, all
<1>6. ASSUME results # << >>
      PROVE  /\ i \notin {f.maker, f.taker} => pending(i) = rest
             /\ i \in {f.maker, f.taker} /\ persisting # "taker" => pending(i) = rest + f.amount
             /\ i = f.maker /\ persisting = "taker" => pending(i) = rest
             /\ i = f.taker /\ i # f.maker /\ persisting = "taker" => pending(i) = rest + f.amount
  <2>1. CASE i \in {f.maker, f.taker}
    <3>1. all = rest + f.amount
      BY <1>5, <1>6, <2>1
    <3> QED BY <1>3, <1>5, <1>6, <2>1, <3>1
  <2>2. CASE i \notin {f.maker, f.taker}
    <3>1. all = rest + 0 /\ gone = 0
      BY <1>5, <1>6, <2>2
    <3> QED BY <1>3, <1>5, <1>6, <2>2, <3>1
  <2> QED BY <2>1, <2>2
<1> QED
  BY <1>2, <1>4, <1>5, <1>6 DEF f, rest, all

\* It is never negative.
LEMMA PendingIsNat ==
  ASSUME Shapes, TakersFirst, NEW i
  PROVE  pending(i) \in Nat
<1>1. CASE persisting # "taker"
  BY <1>1, PendingFacts
<1>2. CASE persisting = "taker"
  <2>1. results # << >>
    BY <1>2 DEF TakersFirst
  <2> DEFINE f == Head(results)
             rest == Part(Tail(results), Involving(i))
  <2>2. /\ f \in Fills /\ rest \in Nat
        /\ i \notin {f.maker, f.taker} => pending(i) = rest
        /\ i = f.maker /\ persisting = "taker" => pending(i) = rest
        /\ i = f.taker /\ i # f.maker /\ persisting = "taker" => pending(i) = rest + f.amount
    BY <2>1, PendingFacts
  <2>3. f.amount \in Nat
    BY <2>2 DEF Fills
  <2> HIDE DEF f, rest
  <2> QED BY <1>2, <2>2, <2>3
<1> QED
  BY <1>1, <1>2

\* No fill of the queue names a fresh order.
LEMMA UnnamedFacts ==
  ASSUME Shapes, NEW i, ~Named(i)
  PROVE  Part(results, Involving(i)) = 0 /\ Part(results, TakenBy(i)) = 0
<1>1. results \in Seq(Fills) /\ DOMAIN results = 1..Len(results)
  BY DEF Shapes
<1>2. \A k \in 1..Len(results) : results[k] \notin Involving(i) /\ results[k] \notin TakenBy(i)
  BY <1>1 DEF Named, Involving, TakenBy
<1> QED
  BY <1>1, <1>2, PartZero

-----------------------------------------------------------------------------
(* The steps of accept_order.                                              *)

\* The fields of a row.
LEMMA RowFacts ==
  ASSUME Shapes, NEW k \in DOMAIN orders
  PROVE  /\ orders[k] \in Row /\ orders[k].id \in Ids /\ orders[k].filled \in Nat
         /\ orders[k].order \in SignedOrders /\ orders[k].order.amount \in Nat
         /\ orders[k].status \in {"open", "filled", "cancelled"}
<1>1. orders \in Seq(Row)
  BY DEF Shapes
<1>2. orders[k] \in Row
  BY <1>1
<1>3. orders[k].order \in SignedOrders
  BY <1>2 DEF Row
<1> QED
  BY <1>2, <1>3, SignedOrdersTyped DEF Row

\* Steps that leave the books, the rows and the fills alone, and make no order fresh.
LEMMA QuietStep ==
  ASSUME IInv, MatcherInv, Shapes', QueueFits', TakersFirst',
         UNCHANGED <<books, orders, results, traded, restarted>>, lost \subseteq lost', holds \subseteq holds',
         \A i \in Ids : Fresh(i)' => Fresh(i),
         \A i \in Ids : at[i] # "idle" => sent'[i] = sent[i],
         \A i \in Ids : at'[i] \in {"idle", "reserved"} => at[i] \in {"idle", "reserved"},
         \A i \in Ids : at[i] = "rejected" => at'[i] = "rejected",
         \A i \in Ids : pending(i)' = pending(i)
  PROVE  MatcherInv'
<1>1. BooksFit'
  <2>1. ASSUME NEW p \in Positions, NEW side \in Sides, NEW k \in DOMAIN books[p][side]
        PROVE  LET r == books[p][side][k] IN
               r.order = sent'[r.id] /\ r.order.position = p /\ ~Fresh(r.id)'
    <3> DEFINE r == books[p][side][k]
    <3>1. r.id \in Ids /\ r.order = sent[r.id] /\ r.order.position = p /\ ~Fresh(r.id)
      BY RestingFacts
    <3>2. at[r.id] # "idle"
      BY <3>1 DEF Fresh
    <3> QED BY <3>1, <3>2
  <2>2. \A p \in Positions : BookOK(books[p])
    BY DEF MatcherInv, BooksFit
  <2>3. books' = books
    OBVIOUS
  <2> QED BY <2>1, <2>2, <2>3 DEF BooksFit
<1>2. RowsMatch'
  <2>1. ASSUME NEW k \in DOMAIN orders
        PROVE  /\ orders[k].order = sent'[orders[k].id] /\ at'[orders[k].id] \notin {"idle", "reserved"}
               /\ Fresh(orders[k].id)' => orders[k].status # "filled"
    <3>1. orders[k].id \in Ids
      BY RowFacts DEF MatcherInv
    <3>2. /\ orders[k].order = sent[orders[k].id] /\ at[orders[k].id] \notin {"idle", "reserved"}
          /\ Fresh(orders[k].id) => orders[k].status # "filled"
      BY DEF MatcherInv, RowsMatch
    <3> QED BY <3>1, <3>2
  <2>2. Distinct(orders) /\ orders' = orders
    BY DEF MatcherInv, RowsMatch
  <2> QED BY <2>1, <2>2 DEF RowsMatch
<1>3. FreshUntraded'
  BY DEF MatcherInv, FreshUntraded, Named
<1>4. RowsFillable'
  BY DEF MatcherInv, RowsFillable
<1>5. FillsCountOnce'
  <2>1. ASSUME NEW k \in DOMAIN orders
        PROVE  /\ orders[k].filled + pending(orders[k].id)' <= traded'[orders[k].id]
               /\ orders[k].id \notin lost' => orders[k].filled + pending(orders[k].id)' = traded'[orders[k].id]
    <3>1. orders[k].id \in Ids
      BY RowFacts DEF MatcherInv
    <3>2. /\ orders[k].filled + pending(orders[k].id) <= traded[orders[k].id]
          /\ orders[k].id \notin lost => orders[k].filled + pending(orders[k].id) = traded[orders[k].id]
      BY DEF MatcherInv, FillsCountOnce
    <3> QED BY <3>1, <3>2
  <2> QED BY <2>1 DEF FillsCountOnce
<1>6. Held' /\ BooksParted'
  <2>1. ASSUME NEW p \in Positions, NEW side \in Sides, NEW k \in DOMAIN books[p][side], NEW i, i = books[p][side][k].id
        PROVE  i \in holds' \/ (restarted' /\ at'[i] = "rejected")
    <3>1. i \in Ids
      BY <2>1, RestingFacts
    <3>2. i \in holds \/ (restarted /\ at[i] = "rejected")
      BY <2>1 DEF MatcherInv, Held
    <3> QED BY <3>1, <3>2
  <2>2. books' = books /\ BooksParted'
    BY DEF MatcherInv, BooksParted
  <2> QED BY <2>1, <2>2 DEF Held
<1> QED
  BY <1>1, <1>2, <1>3, <1>4, <1>5, <1>6 DEF MatcherInv

\* Nothing that pending looks at has changed.
LEMMA SamePending ==
  ASSUME UNCHANGED <<results, persisting>>
  PROVE  \A i : pending(i)' = pending(i)
BY DEF pending

\* Steps of accept_order up to the hold, and those that give up.
LEMMA RequestStep ==
  ASSUME IInv, MatcherInv, NEW i \in Ids, NEW from, NEW to, step(i, from, to),
         UNCHANGED <<queue, books, orders, results, persisting, traded, restarted>>,
         lost \subseteq lost', holds \subseteq holds',
         \A j \in Ids : at[j] # "idle" => sent'[j] = sent[j],
         from # "accepted", from = "idle" => to = "reserved", to \in {"idle", "reserved"} => from = "idle",
         from \in {"releasing", "rejected"} => to = "rejected"
  PROVE  MatcherInv'
<1>1. at[i] = from /\ at' = [at EXCEPT ![i] = to] /\ at \in [Ids -> Stages]
  BY DEF step, IInv, Types
<1>2. \A j \in Ids : at'[j] = IF j = i THEN to ELSE at[j]
  BY <1>1
<1>3. ASSUME NEW j \in Ids, Fresh(j)' PROVE Fresh(j)
  <2>1. Placing(j)' <=> Placing(j)
    BY DEF Placing
  <2>2. CASE Placing(j)
    BY <2>2 DEF Fresh
  <2>3. CASE at'[j] \in {"idle", "reserved", "inserted", "held"}
    <3>1. CASE j = i
      <4>1. from \in {"idle", "reserved", "inserted", "held"}
        BY <1>1, <1>2, <2>3, <3>1 DEF Stages, UnderWay
      <4> QED BY <1>1, <3>1, <4>1 DEF Fresh
    <3>2. CASE j # i
      BY <1>2, <2>3, <3>2 DEF Fresh
    <3> QED BY <3>1, <3>2
  <2> QED BY <1>3, <2>1, <2>2, <2>3 DEF Fresh
<1>4. QueueFits'
  <2>1. ASSUME NEW k \in DOMAIN queue, queue[k].do = "place"
        PROVE  queue[k].order = sent'[queue[k].id] /\ queue[k].id \in holds' /\ at'[queue[k].id] = "accepted"
    <3>1. queue[k].id \in Ids
      BY DEF MatcherInv, Shapes, Commands
    <3>2. queue[k].order = sent[queue[k].id] /\ queue[k].id \in holds /\ at[queue[k].id] = "accepted"
      BY <2>1 DEF MatcherInv, QueueFits
    <3>3. queue[k].id # i
      BY <1>1, <3>2
    <3> QED BY <1>2, <3>1, <3>2, <3>3
  <2> QED BY <2>1 DEF MatcherInv, QueueFits
<1>5. Shapes' /\ TakersFirst'
  BY DEF MatcherInv, Shapes, TakersFirst
<1>6. \A j \in Ids : /\ at'[j] \in {"idle", "reserved"} => at[j] \in {"idle", "reserved"}
                     /\ at[j] = "rejected" => at'[j] = "rejected"
  BY <1>1, <1>2
<1> QED
  BY <1>3, <1>4, <1>5, <1>6, SamePending, QuietStep

\* Nothing is pending of an order that no fill names.
LEMMA UnnamedPending ==
  ASSUME Shapes, TakersFirst, NEW i, ~Named(i)
  PROVE  pending(i) = 0
<1>1. filledOf(i, results) = 0
  BY UnnamedFacts, SumsAreParts DEF Shapes
<1>2. ASSUME persisting = "taker" PROVE Head(results).maker # i
  <2>1. results \in Seq(Fills) /\ results # << >>
    BY <1>2 DEF Shapes, TakersFirst
  <2>2. 1 \in DOMAIN results /\ Head(results) = results[1]
    BY <2>1
  <2> QED BY <2>2 DEF Named
<1> QED
  BY <1>1, <1>2 DEF pending

\* The row of an order is inserted.
LEMMA InsertOrderStep ==
  ASSUME IInv, MatcherInv, NEW i \in Ids, insert_order(i)
  PROVE  MatcherInv'
<1> DEFINE row == [id |-> i, order |-> sent[i], status |-> "open", filled |-> 0]
<1>1. /\ at[i] = "reserved" /\ at' = [at EXCEPT ![i] = "inserted"]
      /\ orders' = Append(orders, row)
      /\ UNCHANGED <<holds, sent, queue, books, traded, results, persisting, restarted, lost>>
  BY DEF insert_order, step, matcher, outcome, world
<1>2. \A j \in Ids : at'[j] = IF j = i THEN "inserted" ELSE at[j]
  BY <1>1 DEF IInv, Types
<1>3. sent[i] \in SignedOrders /\ sent[i].amount \in Nat
  BY <1>1, SignedOrdersTyped DEF IInv, Stored
<1>4. /\ row \in Row /\ row.id = i /\ row.order = sent[i] /\ row.status = "open" /\ row.filled = 0
  BY <1>3 DEF Row
<1> HIDE DEF row
<1>5. /\ orders' \in Seq(Row)
      /\ \A k \in DOMAIN orders' : \/ k \in DOMAIN orders /\ orders'[k] = orders[k] /\ k <= Len(orders)
                                   \/ k = Len(orders) + 1 /\ orders'[k] = row
  <2>1. orders \in Seq(Row)
    BY DEF MatcherInv, Shapes
  <2> QED BY <1>1, <1>4, <2>1, Appended
<1>6. ASSUME NEW j \in Ids PROVE Fresh(j)' <=> Fresh(j)
  <2>1. Placing(j)' <=> Placing(j)
    BY <1>1 DEF Placing
  <2> QED BY <1>1, <1>2, <2>1 DEF Fresh
<1>7. Fresh(i) /\ traded[i] = 0 /\ ~Named(i)
  <2>1. Fresh(i)
    BY <1>1 DEF Fresh
  <2> QED BY <2>1 DEF MatcherInv, FreshUntraded
<1>8. pending(i) = 0 /\ Part(results, TakenBy(i)) = 0
  BY <1>7, UnnamedPending, UnnamedFacts DEF MatcherInv
<1>9. Shapes'
  BY <1>1, <1>5 DEF MatcherInv, Shapes
<1>10. BooksFit'
  <2>1. ASSUME NEW p \in Positions, NEW side \in Sides, NEW k \in DOMAIN books[p][side]
        PROVE  LET r == books[p][side][k] IN
               r.order = sent'[r.id] /\ r.order.position = p /\ ~Fresh(r.id)'
    BY <1>1, <1>6, RestingFacts
  <2>2. \A p \in Positions : BookOK(books[p])
    BY DEF MatcherInv, BooksFit
  <2> QED BY <1>1, <2>1, <2>2 DEF BooksFit
<1>11. ASSUME NEW k \in DOMAIN orders, NEW j, j = orders[k].id
       PROVE  /\ j \in Ids /\ j # i
              /\ orders[k].order = sent'[j] /\ at'[j] \notin {"idle", "reserved"}
              /\ Fresh(j)' => orders[k].status # "filled"
  <2>1. orders[k].id \in Ids
    BY RowFacts DEF MatcherInv
  <2>2. /\ orders[k].order = sent[orders[k].id] /\ at[orders[k].id] \notin {"idle", "reserved"}
        /\ Fresh(orders[k].id) => orders[k].status # "filled"
    BY DEF MatcherInv, RowsMatch
  <2> QED BY <1>1, <1>2, <1>6, <1>11, <2>1, <2>2
<1>12. RowsMatch'
  <2>1. Distinct(orders')
    <3> SUFFICES ASSUME NEW j \in DOMAIN orders', NEW k \in DOMAIN orders', orders'[j].id = orders'[k].id PROVE j = k
      BY DEF Distinct
    <3>1. Distinct(orders)
      BY DEF MatcherInv, RowsMatch
    <3> QED BY <1>4, <1>5, <1>11, <3>1 DEF Distinct
  <2>2. ASSUME NEW k \in DOMAIN orders', NEW j, j = orders'[k].id
        PROVE  /\ orders'[k].order = sent'[j] /\ at'[j] \notin {"idle", "reserved"}
               /\ Fresh(j)' => orders'[k].status # "filled"
    <3>1. CASE k \in DOMAIN orders /\ orders'[k] = orders[k]
      BY <1>11, <2>2, <3>1
    <3>2. CASE orders'[k] = row
      BY <1>1, <1>2, <1>4, <2>2, <3>2
    <3> QED BY <1>5, <3>1, <3>2
  <2> QED BY <2>1, <2>2 DEF RowsMatch
<1>13. QueueFits'
  <2>1. ASSUME NEW k \in DOMAIN queue, queue[k].do = "place"
        PROVE  queue[k].order = sent'[queue[k].id] /\ queue[k].id \in holds' /\ at'[queue[k].id] = "accepted"
    <3>1. queue[k].order = sent[queue[k].id] /\ queue[k].id \in holds /\ at[queue[k].id] = "accepted"
      BY <2>1 DEF MatcherInv, QueueFits
    <3>2. queue[k].id # i /\ queue[k].id \in Ids
      BY <1>1, <3>1 DEF IInv, Types
    <3> QED BY <1>1, <1>2, <3>1, <3>2
  <2> QED BY <1>1, <2>1 DEF MatcherInv, QueueFits
<1>14. FreshUntraded' /\ TakersFirst' /\ Held' /\ BooksParted'
  BY <1>1, <1>6 DEF MatcherInv, FreshUntraded, Named, TakersFirst, Held, BooksParted
<1>15. RowsFillable'
  <2>1. ASSUME NEW k \in DOMAIN orders'
        PROVE  IF orders'[k].status = "filled" THEN \A j \in DOMAIN results : results[j].taker # orders'[k].id
               ELSE orders'[k].filled + Part(results, TakenBy(orders'[k].id)) <= orders'[k].order.amount
    <3>1. CASE k \in DOMAIN orders /\ orders'[k] = orders[k]
      BY <3>1 DEF MatcherInv, RowsFillable
    <3>2. CASE orders'[k] = row
      <4>1. 0 + 0 <= sent[i].amount
        BY <1>3
      <4> QED BY <1>4, <1>8, <3>2, <4>1
    <3> QED BY <1>5, <3>1, <3>2
  <2> QED BY <1>1, <2>1 DEF RowsFillable
<1>16. FillsCountOnce'
  <2>1. \A j : pending(j)' = pending(j)
    BY <1>1, SamePending
  <2>2. ASSUME NEW k \in DOMAIN orders', NEW j, j = orders'[k].id
        PROVE  /\ orders'[k].filled + pending(j)' <= traded'[j]
               /\ j \notin lost' => orders'[k].filled + pending(j)' = traded'[j]
    <3>1. CASE k \in DOMAIN orders /\ orders'[k] = orders[k]
      BY <1>1, <2>1, <2>2, <3>1 DEF MatcherInv, FillsCountOnce
    <3>2. CASE orders'[k] = row
      BY <1>1, <1>4, <1>7, <1>8, <2>1, <2>2, <3>2
    <3> QED BY <1>5, <3>1, <3>2
  <2> QED BY <2>2 DEF FillsCountOnce
<1> QED
  BY <1>9, <1>10, <1>12, <1>13, <1>14, <1>15, <1>16 DEF MatcherInv

\* The order goes to the matcher.
LEMMA EnqueueStep ==
  ASSUME IInv, MatcherInv, NEW i \in Ids, enqueue(i)
  PROVE  MatcherInv'
<1> DEFINE c == [do |-> "place", id |-> i, order |-> sent[i]]
<1>1. /\ at[i] = "held" /\ at' = [at EXCEPT ![i] = "accepted"] /\ Len(queue) < QueueCapacity
      /\ queue' = Append(queue, c)
      /\ UNCHANGED <<orders, holds, sent, books, traded, results, persisting, restarted, lost>>
  BY DEF enqueue, step, database, outcome, world
<1>2. \A j \in Ids : at'[j] = IF j = i THEN "accepted" ELSE at[j]
  BY <1>1 DEF IInv, Types
<1>3. sent[i] \in SignedOrders /\ i \in holds
  BY <1>1 DEF IInv, Stored
<1>4. c \in Commands /\ c.do = "place" /\ c.id = i /\ c.order = sent[i]
  BY <1>3 DEF Commands
<1> HIDE DEF c
<1>5. /\ queue' \in Seq(Commands) /\ Len(queue') = Len(queue) + 1
      /\ Len(queue) \in Nat
      /\ \A k \in DOMAIN queue' : \/ k \in DOMAIN queue /\ queue'[k] = queue[k] /\ k <= Len(queue)
                                  \/ k = Len(queue) + 1 /\ queue'[k] = c
  <2>1. queue \in Seq(Commands)
    BY DEF MatcherInv, Shapes
  <2> QED BY <1>1, <1>4, <2>1, Appended
<1>6. Shapes'
  <2>1. Len(queue') <= QueueCapacity
    BY <1>1, <1>5, BoundsTyped
  <2> QED BY <1>1, <1>5, <2>1 DEF MatcherInv, Shapes
<1>7. ASSUME NEW k \in DOMAIN queue, queue[k].do = "place"
      PROVE  /\ queue[k].order = sent[queue[k].id] /\ queue[k].id \in holds
             /\ at'[queue[k].id] = "accepted" /\ queue[k].id # i
  <2>1. queue[k].order = sent[queue[k].id] /\ queue[k].id \in holds /\ at[queue[k].id] = "accepted"
    BY <1>7 DEF MatcherInv, QueueFits
  <2>2. queue[k].id \in Ids /\ queue[k].id # i
    BY <1>1, <2>1 DEF IInv, Types
  <2> QED BY <1>2, <2>1, <2>2
<1>8. QueueFits'
  <2>1. ASSUME NEW k \in DOMAIN queue', queue'[k].do = "place"
        PROVE  queue'[k].order = sent'[queue'[k].id] /\ queue'[k].id \in holds' /\ at'[queue'[k].id] = "accepted"
    BY <1>1, <1>2, <1>3, <1>4, <1>5, <1>7, <2>1
  <2>2. ASSUME NEW j \in DOMAIN queue', NEW k \in DOMAIN queue',
               queue'[j].do = "place", queue'[k].do = "place", queue'[j].id = queue'[k].id
        PROVE  j = k
    <3>1. CASE queue'[j] = c /\ j = Len(queue) + 1
      BY <1>4, <1>5, <1>7, <2>2, <3>1
    <3>2. CASE j \in DOMAIN queue /\ queue'[j] = queue[j]
      <4>1. k \in DOMAIN queue /\ queue'[k] = queue[k]
        BY <1>4, <1>5, <1>7, <2>2, <3>2
      <4> QED BY <2>2, <3>2, <4>1 DEF MatcherInv, QueueFits
    <3> QED BY <1>5, <3>1, <3>2
  <2> QED BY <2>1, <2>2 DEF QueueFits
<1>9. ASSUME NEW j \in Ids, Fresh(j)' PROVE Fresh(j)
  <2>1. CASE j = i
    BY <1>1, <2>1 DEF Fresh
  <2>2. CASE j # i
    <3>1. CASE at'[j] \in {"idle", "reserved", "inserted", "held"}
      BY <1>2, <2>2, <3>1 DEF Fresh
    <3>2. CASE Placing(j)'
      <4>1. PICK k \in DOMAIN queue' : queue'[k].do = "place" /\ queue'[k].id = j
        BY <3>2 DEF Placing
      <4>2. k \in DOMAIN queue /\ queue'[k] = queue[k]
        BY <1>4, <1>5, <2>2, <4>1
      <4> QED BY <4>1, <4>2 DEF Fresh, Placing
    <3> QED BY <1>9, <3>1, <3>2 DEF Fresh
  <2> QED BY <2>1, <2>2
<1>10. \A j \in Ids : /\ at'[j] \in {"idle", "reserved"} => at[j] \in {"idle", "reserved"}
                      /\ at[j] = "rejected" => at'[j] = "rejected"
  BY <1>1, <1>2
<1>11. TakersFirst' /\ \A j \in Ids : pending(j)' = pending(j)
  BY <1>1, SamePending DEF MatcherInv, TakersFirst
<1> QED
  BY <1>1, <1>6, <1>8, <1>9, <1>10, <1>11, QuietStep

\* The statements of accept_order.
LEMMA AcceptMatcherStep ==
  ASSUME IInv, MatcherInv, NEW i \in Ids, AcceptOrder(i)
  PROVE  MatcherInv'
<1>1. CASE \E o \in SignedOrders : reserve_collateral(i, o)
  <2>1. PICK o \in SignedOrders : reserve_collateral(i, o)
    BY <1>1
  <2>2. /\ step(i, "idle", "reserved") /\ sent' = [sent EXCEPT ![i] = o]
        /\ UNCHANGED <<orders, holds, queue, books, traded, results, persisting, restarted, lost>>
    BY <2>1 DEF reserve_collateral, matcher, outcome, world
  <2>3. \A j \in Ids : at[j] # "idle" => sent'[j] = sent[j]
    BY <2>2 DEF step, IInv, Types
  <2> QED BY <2>2, <2>3, RequestStep
<1>2. CASE insert_order(i)
  BY <1>2, InsertOrderStep
<1>3. CASE insert_hold(i)
  <2>1. /\ step(i, "inserted", "held") /\ holds \subseteq holds'
        /\ UNCHANGED <<orders, sent, queue, books, traded, results, persisting, restarted, lost>>
    BY <1>3 DEF insert_hold, matcher, outcome, world
  <2> QED BY <2>1, RequestStep
<1>4. CASE insertFails(i)
  <2>1. /\ step(i, "reserved", "releasing") \/ step(i, "inserted", "releasing")
        /\ UNCHANGED <<orders, holds, sent, queue, books, traded, results, persisting, restarted, lost>>
    BY <1>4 DEF insertFails, database, matcher, outcome, failure
  <2>2. CASE step(i, "reserved", "releasing")
    BY <2>1, <2>2, RequestStep
  <2>3. CASE step(i, "inserted", "releasing")
    BY <2>1, <2>3, RequestStep
  <2> QED BY <2>1, <2>2, <2>3
<1>5. CASE release_collateral(i) \/ releaseFails(i)
  <2>1. /\ step(i, "releasing", "rejected")
        /\ UNCHANGED <<orders, holds, sent, queue, books, traded, results, persisting, restarted, lost>>
    BY <1>5 DEF release_collateral, releaseFails, database, matcher, outcome, world, failure
  <2> QED BY <2>1, RequestStep
<1>6. CASE enqueue(i)
  BY <1>6, EnqueueStep
<1>7. CASE enqueueFails(i)
  <2>1. /\ step(i, "held", "rejected")
        /\ UNCHANGED <<orders, holds, sent, queue, books, traded, results, persisting, restarted, lost>>
    BY <1>7 DEF enqueueFails, database, matcher, outcome, world
  <2> QED BY <2>1, RequestStep
<1>8. CASE disconnected(i)
  <2> DEFINE from == at[i]
  <2>1. /\ step(i, from, "rejected") /\ from \in UnderWay
        /\ UNCHANGED <<orders, holds, sent, queue, books, traded, results, persisting, restarted, lost>>
    BY <1>8 DEF disconnected, step, database, matcher, outcome, failure
  <2> HIDE DEF from
  <2> QED BY <2>1, RequestStep DEF UnderWay
<1> QED
  BY <1>1, <1>2, <1>3, <1>4, <1>5, <1>6, <1>7, <1>8 DEF AcceptOrder

-----------------------------------------------------------------------------
(* The steps of cancel_order, and those aside.                             *)

\* Steps that write rows that are there, and take fills off the queue.
LEMMA RowStep ==
  ASSUME IInv, MatcherInv, UNCHANGED <<at, sent, queue, holds, books, traded, restarted>>,
         DOMAIN orders' = DOMAIN orders,
         \A k \in DOMAIN orders : /\ orders'[k] \in Row
                                  /\ orders'[k].id = orders[k].id /\ orders'[k].order = orders[k].order
                                  /\ orders'[k].status = "filled" => ~Fresh(orders[k].id),
         results' \in Seq(Fills), persisting' \in {"publish", "maker", "taker"},
         \A i : Named(i)' => Named(i),
         TakersFirst', RowsFillable', FillsCountOnce',
         \E f : orders' = [k \in DOMAIN orders |-> f[k]]
  PROVE  MatcherInv'
<1>1. orders \in Seq(Row)
  BY DEF MatcherInv, Shapes
<1>2. orders' \in Seq(Row)
  <2>1. PICK f : orders' = [k \in DOMAIN orders |-> f[k]]
    OBVIOUS
  <2>2. DOMAIN orders = 1..Len(orders) /\ Len(orders) \in Nat
    BY <1>1
  <2>3. orders' = [k \in 1..Len(orders) |-> f[k]] /\ \A k \in 1..Len(orders) : f[k] \in Row
    <3>1. \A k \in DOMAIN orders : orders'[k] = f[k]
      BY <2>1
    <3> QED BY <2>1, <2>2, <3>1
  <2> QED BY ONLY <2>2, <2>3
<1>3. Shapes'
  BY <1>2 DEF MatcherInv, Shapes
<1>4. \A i : Fresh(i)' <=> Fresh(i)
  BY DEF Fresh, Placing
<1>5. BooksFit'
  <2>1. ASSUME NEW p \in Positions, NEW side \in Sides, NEW k \in DOMAIN books[p][side]
        PROVE  LET r == books[p][side][k] IN
               r.order = sent'[r.id] /\ r.order.position = p /\ ~Fresh(r.id)'
    BY <1>4, RestingFacts
  <2>2. \A p \in Positions : BookOK(books[p])
    BY DEF MatcherInv, BooksFit
  <2> QED BY <2>1, <2>2 DEF BooksFit
<1>6. RowsMatch'
  <2>1. Distinct(orders')
    BY DEF MatcherInv, RowsMatch, Distinct
  <2>2. ASSUME NEW k \in DOMAIN orders', NEW j, j = orders'[k].id
        PROVE  /\ orders'[k].order = sent'[j] /\ at'[j] \notin {"idle", "reserved"}
               /\ Fresh(j)' => orders'[k].status # "filled"
    BY <1>4, <2>2 DEF MatcherInv, RowsMatch
  <2> QED BY <2>1, <2>2 DEF RowsMatch
<1>7. QueueFits' /\ Held' /\ BooksParted'
  BY DEF MatcherInv, QueueFits, Held, BooksParted
<1>8. FreshUntraded'
  BY <1>4 DEF MatcherInv, FreshUntraded
<1> QED
  BY <1>3, <1>5, <1>6, <1>7, <1>8 DEF MatcherInv

\* cancel_order puts a command into the queue.
LEMMA CancelOrderStep ==
  ASSUME IInv, MatcherInv, NEW i \in Ids, NEW p \in Positions, cancel_order(i, p)
  PROVE  MatcherInv'
<1> DEFINE c == [do |-> "cancel", id |-> i, position |-> p]
<1>1. /\ Len(queue) < QueueCapacity /\ queue' = Append(queue, c)
      /\ UNCHANGED <<at, orders, holds, sent, books, traded, results, persisting, restarted, lost>>
  BY DEF cancel_order, database, outcome
<1>2. c \in Commands /\ c.do # "place"
  BY DEF Commands
<1> HIDE DEF c
<1>3. /\ queue' \in Seq(Commands) /\ Len(queue') = Len(queue) + 1
      /\ Len(queue) \in Nat
      /\ \A k \in DOMAIN queue' : \/ k \in DOMAIN queue /\ queue'[k] = queue[k] /\ k <= Len(queue)
                                  \/ k = Len(queue) + 1 /\ queue'[k] = c
  <2>1. queue \in Seq(Commands)
    BY DEF MatcherInv, Shapes
  <2> QED BY <1>1, <1>2, <2>1, Appended
<1>4. Shapes'
  <2>1. Len(queue') <= QueueCapacity
    BY <1>1, <1>3, BoundsTyped
  <2> QED BY <1>1, <1>3, <2>1 DEF MatcherInv, Shapes
<1>5. QueueFits'
  BY <1>1, <1>2, <1>3 DEF MatcherInv, QueueFits
<1>6. \A j \in Ids : Fresh(j)' => Fresh(j)
  BY <1>1, <1>2, <1>3 DEF Fresh, Placing
<1>7. TakersFirst' /\ \A j \in Ids : pending(j)' = pending(j)
  BY <1>1, SamePending DEF MatcherInv, TakersFirst
<1>8. \A j \in Ids : /\ at'[j] \in {"idle", "reserved"} => at[j] \in {"idle", "reserved"}
                     /\ at[j] = "rejected" => at'[j] = "rejected"
  BY <1>1
<1> QED
  BY <1>1, <1>4, <1>5, <1>6, <1>7, <1>8, QuietStep

\* cancel_order then writes the row, if it is open.
LEMMA CancelRowStep ==
  ASSUME IInv, MatcherInv, NEW i \in Ids, cancel_order_db(i)
  PROVE  MatcherInv'
<1> DEFINE f == [k \in DOMAIN orders |->
                    IF orders[k].id = i /\ orders[k].status = "open"
                      THEN [orders[k] EXCEPT !.status = "cancelled"] ELSE orders[k]]
<1>1. /\ orders' = f
      /\ UNCHANGED <<at, sent, holds, queue, books, traded, results, persisting, restarted, lost>>
  BY DEF cancel_order_db, matcher, outcome, world
<1>2. ASSUME NEW k \in DOMAIN orders
      PROVE  /\ orders'[k] \in Row /\ orders'[k].filled = orders[k].filled
             /\ orders'[k].id = orders[k].id /\ orders'[k].order = orders[k].order
             /\ orders'[k].status = "filled" <=> orders[k].status = "filled"
  <2>1. orders[k] \in Row
    BY RowFacts DEF MatcherInv
  <2>2. orders'[k] = IF orders[k].id = i /\ orders[k].status = "open"
                       THEN [orders[k] EXCEPT !.status = "cancelled"] ELSE orders[k]
    BY <1>1
  <2>3. CASE orders[k].id = i /\ orders[k].status = "open"
    BY <2>1, <2>2, <2>3 DEF Row
  <2>4. CASE ~(orders[k].id = i /\ orders[k].status = "open")
    BY <2>1, <2>2, <2>4
  <2> QED BY <2>3, <2>4
<1>3. DOMAIN orders' = DOMAIN orders /\ \E g : orders' = [k \in DOMAIN orders |-> g[k]]
  <2>1. f = [k \in DOMAIN orders |-> f[k]]
    OBVIOUS
  <2> HIDE DEF f
  <2> QED BY <1>1, <2>1
<1> HIDE DEF f
<1>4. \A k \in DOMAIN orders : orders'[k].status = "filled" => ~Fresh(orders[k].id)
  BY <1>2 DEF MatcherInv, RowsMatch
<1>5. TakersFirst' /\ \A j : Named(j)' => Named(j)
  BY <1>1 DEF MatcherInv, TakersFirst, Named
<1>6. RowsFillable'
  BY <1>1, <1>2, <1>3 DEF MatcherInv, RowsFillable
<1>7. FillsCountOnce'
  <2>1. ASSUME NEW k \in DOMAIN orders', NEW j, j = orders'[k].id
        PROVE  /\ orders'[k].filled + pending(j)' <= traded'[j]
               /\ j \notin lost' => orders'[k].filled + pending(j)' = traded'[j]
    BY <1>1, <1>2, <1>3, <2>1, SamePending DEF MatcherInv, FillsCountOnce
  <2> QED BY <2>1 DEF FillsCountOnce
<1>8. results' \in Seq(Fills) /\ persisting' \in {"publish", "maker", "taker"}
  BY <1>1 DEF MatcherInv, Shapes
<1> QED
  BY <1>1, <1>2, <1>3, <1>4, <1>5, <1>6, <1>7, <1>8, RowStep

\* Steps aside of all this: a cancel that fails, the indexer, a stutter.
LEMMA AsideMatcherStep ==
  ASSUME IInv, MatcherInv,
         UNCHANGED <<at, sent, orders, holds, queue, books, traded, results, persisting, restarted, lost>>
  PROVE  MatcherInv'
<1>1. Shapes' /\ QueueFits' /\ TakersFirst'
  BY DEF MatcherInv, Shapes, QueueFits, TakersFirst
<1>2. \A j \in Ids : Fresh(j)' => Fresh(j)
  BY DEF Fresh, Placing
<1> QED
  BY <1>1, <1>2, SamePending, QuietStep

\* A fill is published, or not.
LEMMA PublishStep ==
  ASSUME IInv, MatcherInv, NEW ok, publish_match(ok)
  PROVE  MatcherInv'
<1>1. /\ results # << >> /\ persisting = "publish" /\ persisting' = "maker"
      /\ UNCHANGED <<at, sent, orders, holds, queue, books, traded, results, restarted, lost>>
  BY DEF publish_match, database, requests, matcher, failure, world
<1>2. Shapes' /\ QueueFits' /\ TakersFirst'
  BY <1>1 DEF MatcherInv, Shapes, QueueFits, TakersFirst
<1>3. \A j \in Ids : Fresh(j)' => Fresh(j)
  BY <1>1 DEF Fresh, Placing
<1>4. \A j \in Ids : pending(j)' = pending(j)
  BY <1>1 DEF pending
<1> QED
  BY <1>1, <1>2, <1>3, <1>4, QuietStep

-----------------------------------------------------------------------------
(* The steps of the result processor.                                      *)

\* What update_order_filled makes of the rows.
LEMMA UpdateFacts ==
  ASSUME Shapes, NEW i, NEW n \in Nat, NEW status \in {"open", "filled", "cancelled"}
  PROVE  /\ DOMAIN update_order_filled(i, n, status) = DOMAIN orders
         /\ \E g : update_order_filled(i, n, status) = [k \in DOMAIN orders |-> g[k]]
         /\ \A k \in DOMAIN orders :
              LET row == update_order_filled(i, n, status)[k] IN
              /\ row \in Row /\ row.id = orders[k].id /\ row.order = orders[k].order
              /\ orders[k].id = i => row.filled = orders[k].filled + n /\ row.status = status
              /\ orders[k].id # i => row = orders[k]
<1> DEFINE f == [k \in DOMAIN orders |->
                  IF orders[k].id = i THEN [orders[k] EXCEPT !.filled = @ + n, !.status = status] ELSE orders[k]]
<1>1. update_order_filled(i, n, status) = f
  BY DEF update_order_filled
<1>2. f = [k \in DOMAIN orders |-> f[k]]
  OBVIOUS
<1>3. ASSUME NEW k \in DOMAIN orders
      PROVE  /\ f[k] \in Row /\ f[k].id = orders[k].id /\ f[k].order = orders[k].order
             /\ orders[k].id = i => f[k].filled = orders[k].filled + n /\ f[k].status = status
             /\ orders[k].id # i => f[k] = orders[k]
  <2>1. orders[k] \in Row /\ orders[k].filled \in Nat
    BY RowFacts
  <2>2. CASE orders[k].id = i
    <3>1. f[k] = [orders[k] EXCEPT !.filled = @ + n, !.status = status]
      BY <2>2
    <3>2. orders[k].filled + n \in Nat
      BY <2>1
    <3> QED BY <2>1, <2>2, <3>1, <3>2 DEF Row
  <2>3. CASE orders[k].id # i
    BY <2>1, <2>3
  <2> QED BY <2>2, <2>3
<1>4. DOMAIN f = DOMAIN orders
  OBVIOUS
<1> HIDE DEF f
<1> QED
  BY <1>1, <1>2, <1>3, <1>4

\* The rows are a table.
LEMMA RowsTable ==
  ASSUME Shapes
  PROVE  \E g : orders = [k \in DOMAIN orders |-> g[k]]
<1>1. orders \in Seq(Row)
  BY DEF Shapes
<1>2. orders = [k \in DOMAIN orders |-> orders[k]]
  BY <1>1
<1> QED
  BY <1>2

\* The first fill of the queue.
LEMMA FirstFill ==
  ASSUME MatcherInv, results # << >>
  PROVE  /\ Head(results) \in Fills /\ Head(results).amount \in Nat
         /\ Head(results).maker # Head(results).taker
         /\ Named(Head(results).maker) /\ Named(Head(results).taker)
         /\ \A k \in DOMAIN results : results[k].taker # Head(results).maker
         /\ Tail(results) \in Seq(Fills)
         /\ \A k \in DOMAIN Tail(results) : k \in Nat /\ k + 1 \in DOMAIN results /\ Tail(results)[k] = results[k+1]
<1>1. results \in Seq(Fills)
  BY DEF MatcherInv, Shapes
<1>2. /\ Head(results) \in Fills /\ Head(results) = results[1] /\ 1 \in DOMAIN results
      /\ DOMAIN results = 1..Len(results) /\ Tail(results) \in Seq(Fills)
  BY <1>1
<1>3. ASSUME NEW k \in DOMAIN Tail(results)
      PROVE k \in Nat /\ k + 1 \in DOMAIN results /\ Tail(results)[k] = results[k+1]
  BY <1>1
<1>4. \A k \in DOMAIN results : results[1].maker # results[k].taker
  BY <1>2 DEF MatcherInv, TakersFirst
<1>5. Named(Head(results).maker) /\ Named(Head(results).taker)
  BY <1>2 DEF Named
<1>6. Head(results).amount \in Nat
  BY <1>2 DEF Fills
<1> QED
  BY <1>2, <1>3, <1>4, <1>5, <1>6

\* The maker's row of the first fill is written, or the fill is lost to it.
LEMMA MakerStep ==
  ASSUME IInv, MatcherInv, NEW ok, updateMaker(ok)
  PROVE  MatcherInv'
<1> DEFINE i == Head(results).maker
           n == Head(results).amount
           g == update_order_filled(i, n, "filled")
<1>1. /\ results # << >> /\ persisting = "maker" /\ persisting' = "taker"
      /\ orders' = IF ok THEN g ELSE orders
      /\ lost' = IF ok THEN lost ELSE lost \cup {i}
      /\ UNCHANGED <<at, sent, holds, queue, books, traded, results, restarted>>
  BY DEF updateMaker, storing, requests, matcher
<1>2. /\ n \in Nat /\ Named(i) /\ i \in Ids /\ \A k \in DOMAIN results : results[k].taker # i
  BY <1>1, FirstFill DEF Fills
<1>3. ASSUME NEW j
      PROVE  /\ pending(j) \in Int /\ n <= pending(i)
             /\ j = i => pending(j)' = pending(j) - n
             /\ j # i => pending(j)' = pending(j)
  <2>1. filledOf(j, results) \in Nat /\ n <= filledOf(i, results) /\ filledOf(i, results) \in Nat
    <3>1. results \in Seq(Fills)
      BY DEF MatcherInv, Shapes
    <3>2. Head(results) \in Involving(i)
      BY <1>1, FirstFill DEF Involving
    <3>3. Tail(results) \in Seq(Fills)
      BY <3>1, <1>1
    <3>4. Part(results, Involving(i)) = Part(Tail(results), Involving(i)) + n
      BY <1>1, <3>1, <3>2, PartHead
    <3>5. Part(Tail(results), Involving(i)) \in Nat /\ Part(results, Involving(j)) \in Nat
      BY <3>1, <3>3, PartType
    <3> QED BY <1>2, <3>1, <3>4, <3>5, SumsAreParts
  <2>2. pending(j) = filledOf(j, results) /\ pending(i) = filledOf(i, results)
    BY <1>1, <2>1 DEF pending
  <2>3. pending(j)' = filledOf(j, results) - (IF i = j THEN n ELSE 0)
    BY <1>1 DEF pending
  <2> QED BY <1>2, <2>1, <2>2, <2>3
<1>4. /\ DOMAIN orders' = DOMAIN orders /\ \E f : orders' = [k \in DOMAIN orders |-> f[k]]
      /\ \A k \in DOMAIN orders :
           /\ orders'[k] \in Row /\ orders'[k].id = orders[k].id /\ orders'[k].order = orders[k].order
           /\ orders[k].id = i /\ ok => orders'[k].filled = orders[k].filled + n /\ orders'[k].status = "filled"
           /\ orders[k].id # i \/ ~ok => orders'[k] = orders[k]
  <2>1. CASE ok
    <3>1. "filled" \in {"open", "filled", "cancelled"} /\ orders' = g
      BY <1>1, <2>1
    <3> HIDE DEF i, n
    <3> QED BY <1>2, <2>1, <3>1, UpdateFacts DEF MatcherInv
  <2>2. CASE ~ok
    <3>1. orders' = orders
      BY <1>1, <2>2
    <3>2. \A k \in DOMAIN orders : orders[k] \in Row
      BY RowFacts DEF MatcherInv
    <3>3. \E f : orders = [k \in DOMAIN orders |-> f[k]]
      BY RowsTable DEF MatcherInv
    <3> HIDE DEF g
    <3> QED BY <2>2, <3>1, <3>2, <3>3
  <2> QED BY <2>1, <2>2
<1> HIDE DEF i, n, g
<1>5. \A k \in DOMAIN orders : orders'[k].status = "filled" => ~Fresh(orders[k].id)
  BY <1>2, <1>4 DEF MatcherInv, FreshUntraded, RowsMatch
<1>6. TakersFirst' /\ \A j : Named(j)' => Named(j)
  BY <1>1 DEF MatcherInv, TakersFirst, Named
<1>7. RowsFillable'
  <2>1. ASSUME NEW k \in DOMAIN orders
        PROVE  IF orders'[k].status = "filled" THEN \A l \in DOMAIN results : results[l].taker # orders[k].id
               ELSE orders'[k].filled + Part(results, TakenBy(orders[k].id)) <= orders[k].order.amount
    <3>1. CASE orders[k].id = i /\ ok
      BY <1>2, <1>4, <3>1
    <3>2. CASE orders[k].id # i \/ ~ok
      BY <1>4, <3>2 DEF MatcherInv, RowsFillable
    <3> QED BY <3>1, <3>2
  <2> QED BY <1>1, <1>4, <2>1 DEF RowsFillable
<1>8. FillsCountOnce'
  <2>1. ASSUME NEW k \in DOMAIN orders', NEW j, j = orders'[k].id
        PROVE  /\ orders'[k].filled + pending(j)' <= traded'[j]
               /\ j \notin lost' => orders'[k].filled + pending(j)' = traded'[j]
    <3>1. /\ k \in DOMAIN orders /\ j = orders[k].id /\ orders[k].filled \in Nat /\ j \in Ids
          /\ traded[j] \in Nat
      BY <1>4, <2>1, RowFacts DEF MatcherInv, Shapes
    <3>2. /\ orders[k].filled + pending(j) <= traded[j]
          /\ j \notin lost => orders[k].filled + pending(j) = traded[j]
      BY <3>1 DEF MatcherInv, FillsCountOnce
    <3>3. CASE j = i /\ ok
      <4>1. orders'[k].filled = orders[k].filled + n /\ pending(j)' = pending(j) - n /\ pending(j) \in Int
        BY <1>3, <1>4, <3>1, <3>3
      <4>2. orders'[k].filled + pending(j)' = orders[k].filled + pending(j)
        BY <1>2, <3>1, <4>1
      <4> QED BY <1>1, <3>2, <3>3, <4>2
    <3>4. CASE j = i /\ ~ok
      <4>1. orders'[k].filled = orders[k].filled /\ pending(j)' = pending(j) - n /\ pending(j) \in Int
        BY <1>3, <1>4, <3>1, <3>4
      <4>2. orders'[k].filled + pending(j)' <= orders[k].filled + pending(j)
        BY <1>2, <3>1, <4>1
      <4>3. j \in lost'
        BY <1>1, <3>4
      <4>4. orders'[k].filled + pending(j)' \in Int /\ orders[k].filled + pending(j) \in Int
        BY <1>2, <3>1, <4>1
      <4> QED BY <1>1, <3>1, <3>2, <4>2, <4>3, <4>4
    <3>5. CASE j # i
      <4>1. orders'[k].filled = orders[k].filled /\ pending(j)' = pending(j)
        BY <1>3, <1>4, <3>1, <3>5
      <4> QED BY <1>1, <3>2, <3>5, <4>1
    <3> QED BY <3>3, <3>4, <3>5
  <2> QED BY <2>1 DEF FillsCountOnce
<1>9. results' \in Seq(Fills) /\ persisting' \in {"publish", "maker", "taker"}
  BY <1>1 DEF MatcherInv, Shapes
<1> QED
  BY <1>1, <1>4, <1>5, <1>6, <1>7, <1>8, <1>9, RowStep

\* The taker's row is written, or the fill is lost to it, and the fill leaves the queue.
LEMMA TakerStep ==
  ASSUME IInv, MatcherInv, NEW ok, updateTaker(ok)
  PROVE  MatcherInv'
<1> DEFINE i == Head(results).taker
           m == Head(results).maker
           n == Head(results).amount
           t == Tail(results)
           g == update_order_filled(i, n, "open")
<1>1. /\ results # << >> /\ persisting = "taker" /\ persisting' = "publish"
      /\ orders' = IF ok THEN g ELSE orders
      /\ lost' = IF ok THEN lost ELSE lost \cup {i}
      /\ results' = t
      /\ UNCHANGED <<at, sent, holds, queue, books, traded, restarted>>
  BY DEF updateTaker, storing, requests, matcher
<1>2. /\ n \in Nat /\ Named(i) /\ i \in Ids /\ i # m /\ t \in Seq(Fills)
      /\ \A k \in DOMAIN t : k \in Nat /\ k + 1 \in DOMAIN results /\ t[k] = results[k+1]
      /\ Head(results) \in Fills
  BY <1>1, FirstFill DEF Fills
<1>3. ASSUME NEW j
      PROVE  /\ pending(j)' \in Nat
             /\ j = i => pending(j) = pending(j)' + n
             /\ j # i => pending(j)' = pending(j)
  <2> DEFINE rest == Part(t, Involving(j))
  <2>1. /\ rest \in Nat
        /\ j \notin {m, i} => pending(j) = rest
        /\ j = m /\ persisting = "taker" => pending(j) = rest
        /\ j = i /\ j # m /\ persisting = "taker" => pending(j) = rest + n
    BY <1>1, PendingFacts DEF MatcherInv
  <2>2. pending(j)' = rest
    <3>1. pending(j)' = filledOf(j, t) - 0
      BY <1>1 DEF pending
    <3>2. filledOf(j, t) = rest
      BY <1>2, SumsAreParts
    <3> QED BY <2>1, <3>1, <3>2
  <2> HIDE DEF rest
  <2> QED BY <1>1, <1>2, <2>1, <2>2
<1>4. /\ DOMAIN orders' = DOMAIN orders /\ \E f : orders' = [k \in DOMAIN orders |-> f[k]]
      /\ \A k \in DOMAIN orders :
           /\ orders'[k] \in Row /\ orders'[k].id = orders[k].id /\ orders'[k].order = orders[k].order
           /\ orders[k].id = i /\ ok => orders'[k].filled = orders[k].filled + n /\ orders'[k].status = "open"
           /\ orders[k].id # i \/ ~ok => orders'[k] = orders[k]
  <2>1. CASE ok
    <3>1. "open" \in {"open", "filled", "cancelled"} /\ orders' = g
      BY <1>1, <2>1
    <3> HIDE DEF i, n
    <3> QED BY <1>2, <2>1, <3>1, UpdateFacts DEF MatcherInv
  <2>2. CASE ~ok
    <3>1. orders' = orders
      BY <1>1, <2>2
    <3>2. \A k \in DOMAIN orders : orders[k] \in Row
      BY RowFacts DEF MatcherInv
    <3>3. \E f : orders = [k \in DOMAIN orders |-> f[k]]
      BY RowsTable DEF MatcherInv
    <3> HIDE DEF g
    <3> QED BY <2>2, <3>1, <3>2, <3>3
  <2> QED BY <2>1, <2>2
<1>5. \A k \in DOMAIN orders : orders'[k].status = "filled" => ~Fresh(orders[k].id)
  <2> HIDE DEF i, n, g
  <2> QED BY <1>4 DEF MatcherInv, RowsMatch
<1>6. TakersFirst' /\ \A j : Named(j)' => Named(j)
  <2>1. ASSUME NEW j \in DOMAIN t, NEW k \in DOMAIN t, j <= k PROVE t[j].maker # t[k].taker
    <3>1. /\ j + 1 \in DOMAIN results /\ k + 1 \in DOMAIN results /\ j + 1 <= k + 1
          /\ t[j] = results[j+1] /\ t[k] = results[k+1]
      BY <1>2, <2>1
    <3> HIDE DEF t
    <3> QED BY <3>1 DEF MatcherInv, TakersFirst
  <2>2. ASSUME NEW j, NEW k \in DOMAIN t, j \in {t[k].maker, t[k].taker} PROVE Named(j)
    BY <1>2, <2>2 DEF Named
  <2> HIDE DEF t
  <2> QED BY <1>1, <2>1, <2>2 DEF TakersFirst, Named
<1>7. RowsFillable'
  <2>1. ASSUME NEW k \in DOMAIN orders
        PROVE  IF orders'[k].status = "filled" THEN \A l \in DOMAIN t : t[l].taker # orders[k].id
               ELSE orders'[k].filled + Part(t, TakenBy(orders[k].id)) <= orders[k].order.amount
    <3> DEFINE j == orders[k].id
               rest == Part(t, TakenBy(j))
               all == Part(results, TakenBy(j))
    <3>1. orders[k].filled \in Nat /\ orders[k].order.amount \in Nat
      BY RowFacts DEF MatcherInv
    <3>2. IF orders[k].status = "filled" THEN \A l \in DOMAIN results : results[l].taker # j
          ELSE orders[k].filled + all <= orders[k].order.amount
      BY DEF MatcherInv, RowsFillable
    <3>3. all = rest + (IF i = j THEN n ELSE 0) /\ rest \in Nat
      <4>1. Head(results) \in TakenBy(j) <=> i = j
        BY <1>2 DEF TakenBy
      <4>2. all = rest + (IF Head(results) \in TakenBy(j) THEN n ELSE 0)
        BY <1>1, PartHead DEF MatcherInv, Shapes
      <4>3. rest \in Nat
        BY <1>2, PartType
      <4> QED BY <4>1, <4>2, <4>3
    <3>4. CASE j = i
      <4>1. orders[k].status # "filled"
        <5>1. 1 \in DOMAIN results /\ results[1].taker = j
          <6>1. results \in Seq(Fills)
            BY DEF MatcherInv, Shapes
          <6> QED BY <1>1, <3>4, <6>1
        <5> QED BY <3>2, <5>1
      <4>2. orders[k].filled + (rest + n) <= orders[k].order.amount
        BY <3>2, <3>3, <3>4, <4>1
      <4>3. CASE ok
        <5>1. orders'[k].status = "open" /\ orders'[k].filled = orders[k].filled + n
          BY <1>4, <3>4, <4>3
        <5> HIDE DEF j, rest, all, i, n
        <5> QED BY <1>2, <3>1, <3>3, <4>2, <5>1 DEF rest, j
      <4>4. CASE ~ok
        <5>1. orders'[k] = orders[k]
          BY <1>4, <4>4
        <5> HIDE DEF j, rest, all, i, n
        <5> QED BY <1>2, <3>1, <3>3, <4>1, <4>2, <5>1 DEF rest, j
      <4> QED BY <4>3, <4>4
    <3>5. CASE j # i
      <4>1. orders'[k] = orders[k] /\ all = rest
        BY <1>4, <3>3, <3>5
      <4>2. ASSUME \A l \in DOMAIN results : results[l].taker # j PROVE \A l \in DOMAIN t : t[l].taker # j
        BY <1>2, <4>2
      <4> HIDE DEF rest, all, j
      <4> QED BY <3>2, <4>1, <4>2 DEF rest, j
    <3> QED BY <3>4, <3>5
  <2> HIDE DEF t
  <2> QED BY <1>1, <1>4, <2>1 DEF RowsFillable
<1> HIDE DEF i, m, n, t, g
<1>8. FillsCountOnce'
  <2>1. ASSUME NEW k \in DOMAIN orders', NEW j, j = orders'[k].id
        PROVE  /\ orders'[k].filled + pending(j)' <= traded'[j]
               /\ j \notin lost' => orders'[k].filled + pending(j)' = traded'[j]
    <3>1. /\ k \in DOMAIN orders /\ j = orders[k].id /\ orders[k].filled \in Nat /\ j \in Ids
          /\ traded[j] \in Nat
      BY <1>4, <2>1, RowFacts DEF MatcherInv, Shapes
    <3>2. /\ orders[k].filled + pending(j) <= traded[j]
          /\ j \notin lost => orders[k].filled + pending(j) = traded[j]
      BY <3>1 DEF MatcherInv, FillsCountOnce
    <3>3. CASE j = i /\ ok
      <4>1. orders'[k].filled = orders[k].filled + n /\ pending(j) = pending(j)' + n /\ pending(j)' \in Nat
        BY <1>3, <1>4, <3>1, <3>3
      <4>2. orders'[k].filled + pending(j)' = orders[k].filled + pending(j)
        BY <1>2, <3>1, <4>1
      <4> QED BY <1>1, <3>2, <3>3, <4>2
    <3>4. CASE j = i /\ ~ok
      <4>1. orders'[k].filled = orders[k].filled /\ pending(j) = pending(j)' + n /\ pending(j)' \in Nat
        BY <1>3, <1>4, <3>1, <3>4
      <4>2. orders'[k].filled + pending(j)' <= orders[k].filled + pending(j)
        BY <1>2, <3>1, <4>1
      <4>3. j \in lost'
        BY <1>1, <3>4
      <4>4. orders'[k].filled + pending(j)' \in Int /\ orders[k].filled + pending(j) \in Int
        BY <1>2, <3>1, <4>1
      <4> QED BY <1>1, <3>1, <3>2, <4>2, <4>3, <4>4
    <3>5. CASE j # i
      <4>1. orders'[k].filled = orders[k].filled /\ pending(j)' = pending(j)
        BY <1>3, <1>4, <3>1, <3>5
      <4> QED BY <1>1, <3>2, <3>5, <4>1
    <3> QED BY <3>3, <3>4, <3>5
  <2> QED BY <2>1 DEF FillsCountOnce
<1>9. results' \in Seq(Fills) /\ persisting' \in {"publish", "maker", "taker"}
  BY <1>1, <1>2
<1> QED
  BY <1>1, <1>4, <1>5, <1>6, <1>7, <1>8, <1>9, RowStep

-----------------------------------------------------------------------------
(* The steps of the matcher, and a restart.                                *)

\* The first command leaves the queue.
LEMMA TakeStep ==
  ASSUME IInv, MatcherInv, queue # << >>, queue' = Tail(queue), UNCHANGED <<at, sent, holds>>
  PROVE  /\ Head(queue) \in Commands
         /\ queue' \in Seq(Commands) /\ Len(queue') <= QueueCapacity
         /\ QueueFits'
         /\ \A i : Fresh(i)' => Fresh(i)
         /\ Head(queue).do = "place" =>
              /\ Head(queue).order \in SignedOrders
              /\ \A i : i = Head(queue).id =>
                    i \in Ids /\ Head(queue).order = sent[i] /\ i \in holds /\ Fresh(i) /\ ~Fresh(i)'
<1> DEFINE c == Head(queue)
           t == Tail(queue)
<1>1. /\ queue \in Seq(Commands) /\ c \in Commands /\ c = queue[1] /\ 1 \in DOMAIN queue
      /\ t \in Seq(Commands) /\ Len(t) <= QueueCapacity
  <2>1. queue \in Seq(Commands) /\ Len(queue) <= QueueCapacity /\ QueueCapacity \in Nat
    BY BoundsTyped DEF MatcherInv, Shapes
  <2>2. Len(t) = Len(queue) - 1 /\ Len(queue) \in Nat
    BY <2>1
  <2> QED BY <2>1, <2>2
<1>2. ASSUME NEW k \in DOMAIN t PROVE k \in Nat /\ k + 1 \in DOMAIN queue /\ t[k] = queue[k+1]
  BY <1>1
<1>3. queue' = t
  OBVIOUS
<1> HIDE DEF t
<1>4. QueueFits'
  <2>1. ASSUME NEW j \in DOMAIN t, NEW k \in DOMAIN t, t[j].do = "place", t[k].do = "place", t[j].id = t[k].id
        PROVE  j = k
    <3>1. /\ j + 1 \in DOMAIN queue /\ k + 1 \in DOMAIN queue /\ t[j] = queue[j+1] /\ t[k] = queue[k+1]
          /\ j \in Nat /\ k \in Nat
      BY <1>2
    <3>2. j + 1 = k + 1
      BY <2>1, <3>1 DEF MatcherInv, QueueFits
    <3> QED BY <3>1, <3>2
  <2>2. ASSUME NEW k \in DOMAIN t, t[k].do = "place"
        PROVE  t[k].order = sent[t[k].id] /\ t[k].id \in holds /\ at[t[k].id] = "accepted"
    BY <1>2, <2>2 DEF MatcherInv, QueueFits
  <2> QED BY <1>3, <2>1, <2>2 DEF QueueFits
<1>5. ASSUME NEW i, Placing(i)' PROVE Placing(i)
  <2>1. PICK k \in DOMAIN t : t[k].do = "place" /\ t[k].id = i
    BY <1>3, <1>5 DEF Placing
  <2> QED BY <1>2, <2>1 DEF Placing
<1>6. ASSUME NEW i, Fresh(i)' PROVE Fresh(i)
  BY <1>5, <1>6 DEF Fresh
<1>7. ASSUME c.do = "place", NEW id, id = c.id
      PROVE  /\ id \in Ids /\ c.order \in SignedOrders
             /\ c.order = sent[id] /\ id \in holds /\ Fresh(id) /\ ~Placing(id)' /\ at[id] = "accepted"
  <2>1. id \in Ids /\ c.order \in SignedOrders
    BY <1>1, <1>7 DEF Commands
  <2>2. c.order = sent[id] /\ id \in holds /\ at[id] = "accepted"
    BY <1>1, <1>7 DEF MatcherInv, QueueFits
  <2>3. Fresh(id)
    BY <1>1, <1>7 DEF Fresh, Placing
  <2> HIDE DEF c
  <2>4. ASSUME Placing(id)' PROVE FALSE
    <3>1. PICK k \in DOMAIN t : t[k].do = "place" /\ t[k].id = id
      BY <1>3, <2>4 DEF Placing
    <3>2. k \in Nat /\ k + 1 \in DOMAIN queue /\ queue[k+1].do = "place" /\ queue[k+1].id = queue[1].id
      BY <1>1, <1>2, <1>7, <3>1
    <3>3. k + 1 = 1
      BY <1>1, <1>7, <3>2 DEF MatcherInv, QueueFits
    <3>4. 1 \in DOMAIN t /\ k # 0
      <4>1. k \in 1..Len(t)
        BY <1>1, <3>1
      <4> QED BY <3>2, <3>3, <4>1
    <3> QED BY <3>2, <3>3, <3>4
  <2> QED BY <2>1, <2>2, <2>3, <2>4
<1>8. ASSUME c.do = "place"
      PROVE  /\ c.order \in SignedOrders
             /\ \A i : i = c.id => i \in Ids /\ c.order = sent[i] /\ i \in holds /\ Fresh(i) /\ ~Fresh(i)'
  <2>1. c.order \in SignedOrders
    BY <1>7, <1>8
  <2>2. ASSUME NEW i, i = c.id
        PROVE  i \in Ids /\ c.order = sent[i] /\ i \in holds /\ Fresh(i) /\ ~Fresh(i)'
    <3>1. i \in Ids /\ c.order = sent[i] /\ i \in holds /\ Fresh(i) /\ ~Placing(i)' /\ at[i] = "accepted"
      BY <1>7, <1>8, <2>2
    <3> QED BY <3>1 DEF Fresh
  <2> QED BY <2>1, <2>2
<1> QED
  BY <1>1, <1>3, <1>4, <1>6, <1>8

\* The matcher places order o under id, with the outcome m.
Taken(id, o, m) ==
    /\ o = sent[id] /\ o.position \in Positions /\ id \in holds
    /\ Fresh(id) /\ ~Fresh(id)' /\ \A i : Fresh(i)' => Fresh(i)
    /\ Placed(m, books[o.position], id, o)
    /\ books' = [books EXCEPT ![o.position] = m.book]
    /\ results' = results \o m.fills
    /\ traded' = [i \in Ids |-> traded[i] + filledOf(i, m.fills)]
    /\ queue' \in Seq(Commands) /\ Len(queue') <= QueueCapacity /\ QueueFits'
    /\ UNCHANGED <<at, sent, orders, holds, persisting, restarted, lost>>

\* What the matcher places is a fresh order, as it was sent.
LEMMA PlaceView ==
  ASSUME IInv, MatcherInv, PlaceOrder
  PROVE  \E id \in Ids, o \in SignedOrders : \E m : Taken(id, o, m)
<1> DEFINE c == Head(queue)
<1>1. /\ queue # << >> /\ c.do = "place" /\ queue' = Tail(queue)
      /\ UNCHANGED <<at, sent, orders, holds, persisting, restarted, lost>>
  BY DEF PlaceOrder, database, requests, world
<1>2. PICK m : /\ m = place(books[c.order.position], c.id, c.order)
               /\ books' = [books EXCEPT ![c.order.position] = m.book]
               /\ results' = results \o m.fills
               /\ traded' = [i \in Ids |-> traded[i] + filledOf(i, m.fills)]
  BY DEF PlaceOrder
<1>3. /\ queue' \in Seq(Commands) /\ Len(queue') <= QueueCapacity /\ QueueFits'
      /\ \A i : Fresh(i)' => Fresh(i)
      /\ c.order \in SignedOrders
      /\ \A i : i = c.id => i \in Ids /\ c.order = sent[i] /\ i \in holds /\ Fresh(i) /\ ~Fresh(i)'
  BY <1>1, TakeStep
<1>4. PICK id, o : id = c.id /\ o = c.order
  OBVIOUS
<1>5. /\ id \in Ids /\ o \in SignedOrders /\ o = sent[id] /\ id \in holds /\ Fresh(id) /\ ~Fresh(id)'
  BY <1>3, <1>4
<1>6. o.position \in Positions
  BY <1>5, SignedOrdersTyped
<1>7. Placed(m, books[o.position], id, o)
  <2>1. BookOK(books[o.position])
    BY <1>6 DEF MatcherInv, BooksFit
  <2>2. \A side \in Sides : \A k \in DOMAIN books[o.position][side] : books[o.position][side][k].id # id
    BY <1>5, <1>6, RestingFacts
  <2>3. m = place(books[o.position], id, o)
    BY <1>2, <1>4
  <2> QED BY <1>5, <2>1, <2>2, <2>3, PlaceFacts
<1>8. Taken(id, o, m)
  <2>1. books' = [books EXCEPT ![o.position] = m.book]
    BY <1>2, <1>4
  <2> HIDE DEF c
  <2> QED BY <1>1, <1>2, <1>3, <1>5, <1>6, <1>7, <2>1 DEF Taken
<1> QED
  BY <1>5, <1>8

\* Who makes the fills rested, and so was no longer fresh; the taker is the order placed.
LEMMA NewFills ==
  ASSUME MatcherInv, NEW id \in Ids, NEW o \in SignedOrders, NEW m, Taken(id, o, m), NEW j \in DOMAIN m.fills
  PROVE  /\ m.fills[j] \in Fills /\ m.fills[j].taker = id
         /\ m.fills[j].maker # id
         /\ \A i : i = m.fills[j].maker => ~Fresh(i)
<1> DEFINE b == books[o.position]
           opp == opposite(o.side)
<1>1. opp \in Sides /\ o.position \in Positions
  BY SignedOrdersTyped DEF opposite, Sides, Taken
<1>2. m.fills \in Seq(Fills) /\ m.fills[j].taker = id
  BY DEF Taken, Placed
<1>3. PICK i \in DOMAIN b[opp] : m.fills[j].maker = b[opp][i].id
  BY DEF Taken, Placed
<1>4. m.fills[j] \in Fills
  BY <1>2
<1>5. ~Fresh(b[opp][i].id)
  BY <1>1, RestingFacts
<1>6. Fresh(id)
  BY DEF Taken
<1> QED
  BY <1>2, <1>3, <1>4, <1>5, <1>6

\* What rests after it is the order placed, or rested before.
LEMMA NewResters ==
  ASSUME MatcherInv, NEW id \in Ids, NEW o \in SignedOrders, NEW m, Taken(id, o, m),
         NEW p \in Positions, NEW side \in Sides, NEW k \in DOMAIN books'[p][side]
  PROVE  \/ /\ p = o.position /\ side = o.side
            /\ books'[p][side][k].id = id /\ books'[p][side][k].order = o
         \/ \E i \in DOMAIN books[p][side] : Grown(books'[p][side][k], books[p][side][i])
<1>1. books' = [books EXCEPT ![o.position] = m.book] /\ Placed(m, books[o.position], id, o)
  BY DEF Taken
<1>2. books \in [Positions -> BookTypes]
  BY DEF MatcherInv, Shapes
<1>3. CASE p = o.position
  <2>1. books'[p] = m.book
    BY <1>1, <1>2, <1>3
  <2> QED BY <1>1, <1>3, <2>1 DEF Placed
<1>4. CASE p # o.position
  <2>1. books'[p] = books[p]
    BY <1>1, <1>2, <1>4
  <2> QED BY <2>1 DEF Grown
<1> QED
  BY <1>3, <1>4

\* What the fills add to what is traded, stored and pending.
LEMMA NewAmounts ==
  ASSUME MatcherInv, NEW id \in Ids, NEW o \in SignedOrders, NEW m, Taken(id, o, m), NEW i
  PROVE  /\ filledOf(i, m.fills) \in Nat
         /\ i \in Ids => traded'[i] = traded[i] + filledOf(i, m.fills)
         /\ pending(i)' = pending(i) + filledOf(i, m.fills)
         /\ Fresh(i) /\ i # id => filledOf(i, m.fills) = 0
<1> DEFINE n == filledOf(i, m.fills)
<1>1. m.fills \in Seq(Fills) /\ results \in Seq(Fills) /\ results' = results \o m.fills
  BY DEF Taken, Placed, MatcherInv, Shapes
<1>2. n = Part(m.fills, Involving(i)) /\ n \in Nat
  BY <1>1, SumsAreParts, PartType
<1>3. i \in Ids => traded'[i] = traded[i] + n
  BY DEF Taken
<1>4. filledOf(i, results)' = filledOf(i, results) + n /\ filledOf(i, results) \in Nat
  <2>1. results' \in Seq(Fills) /\ Part(results', Involving(i)) = Part(results, Involving(i)) + n
    BY <1>1, <1>2, PartJoin
  <2>2. filledOf(i, results') = Part(results', Involving(i)) /\ filledOf(i, results) = Part(results, Involving(i))
    BY <1>1, <2>1, SumsAreParts
  <2>3. Part(results, Involving(i)) \in Nat
    BY <1>1, PartType
  <2> QED BY <2>1, <2>2, <2>3
<1> HIDE DEF n
<1>5. pending(i)' = pending(i) + n
  <2> DEFINE f == Head(results)
             all == filledOf(i, results)
  <2>1. persisting' = persisting
    BY DEF Taken
  <2>2. CASE persisting = "taker"
    <3>1. results # << >>
      BY <2>2 DEF MatcherInv, TakersFirst
    <3>2. Head(results') = Head(results) /\ Head(results) \in Fills
      BY <1>1, <3>1
    <3>3. f.amount \in Nat
      BY <3>2 DEF Fills
    <3>4. pending(i) = all - (IF f.maker = i THEN f.amount ELSE 0)
      BY <2>2 DEF pending
    <3>5. pending(i)' = (all + n) - (IF f.maker = i THEN f.amount ELSE 0)
      BY <1>4, <2>1, <2>2, <3>2 DEF pending
    <3> HIDE DEF f, all
    <3>6. all \in Nat
      BY <1>4 DEF all
    <3> QED BY <1>2, <3>3, <3>4, <3>5, <3>6
  <2>3. CASE persisting # "taker"
    <3>1. pending(i) = all
      BY <1>4, <2>3 DEF pending
    <3>2. pending(i)' = all + n
      BY <1>2, <1>4, <2>1, <2>3 DEF pending
    <3> QED BY <3>1, <3>2
  <2> QED BY <2>2, <2>3
<1>6. ASSUME Fresh(i), i # id PROVE n = 0
  <2>1. ASSUME NEW k \in 1..Len(m.fills) PROVE m.fills[k] \notin Involving(i)
    <3>1. k \in DOMAIN m.fills
      BY <1>1
    <3>2. m.fills[k].taker = id /\ m.fills[k].maker # i
      BY <1>6, <3>1, NewFills
    <3> QED BY <1>6, <3>2 DEF Involving
  <2> QED BY <1>1, <1>2, <2>1, PartZero
<1> QED
  BY <1>2, <1>3, <1>5, <1>6 DEF n

\* What is filled of the order placed, in all, and as a part of the fills.
LEMMA TakerPart ==
  ASSUME MatcherInv, NEW id \in Ids, NEW o \in SignedOrders, NEW m, Taken(id, o, m), NEW i \in Ids
  PROVE  /\ i = id => Part(m.fills, TakenBy(i)) <= o.amount
         /\ i # id => Part(m.fills, TakenBy(i)) = 0
         /\ Part(m.fills, TakenBy(i)) \in Nat
         /\ Part(results', TakenBy(i)) = Part(results, TakenBy(i)) + Part(m.fills, TakenBy(i))
         /\ Part(results, TakenBy(i)) \in Nat
<1>1. /\ m.fills \in Seq(Fills) /\ results \in Seq(Fills) /\ results' = results \o m.fills
      /\ fillsTotal(m.fills) <= o.amount
  BY DEF Taken, Placed, MatcherInv, Shapes
<1>2. \A k \in DOMAIN m.fills : m.fills[k] \in Fills /\ m.fills[k].taker = id
  BY NewFills
<1>3. CASE i = id
  <2>1. \A k \in DOMAIN m.fills : m.fills[k] \in TakenBy(i) /\ m.fills[k] \in Fills
    BY <1>2, <1>3 DEF TakenBy
  <2>2. Part(m.fills, TakenBy(i)) = Part(m.fills, Fills)
    <3>1. [k \in DOMAIN m.fills |-> IF m.fills[k] \in TakenBy(i) THEN m.fills[k].amount ELSE 0]
            = [k \in DOMAIN m.fills |-> IF m.fills[k] \in Fills THEN m.fills[k].amount ELSE 0]
      BY <2>1
    <3> QED BY <3>1 DEF Part
  <2>3. fillsTotal(m.fills) = Part(m.fills, Fills)
    BY <1>1, SumsAreParts
  <2> QED BY <1>1, <1>3, <2>2, <2>3, PartType, PartJoin
<1>4. CASE i # id
  <2>1. \A k \in 1..Len(m.fills) : m.fills[k] \notin TakenBy(i)
    <3>1. DOMAIN m.fills = 1..Len(m.fills)
      BY <1>1
    <3> QED BY <1>2, <1>4, <3>1 DEF TakenBy
  <2>2. Part(m.fills, TakenBy(i)) = 0
    BY <1>1, <2>1, PartZero
  <2> QED BY <1>1, <1>4, <2>2, PartType, PartJoin
<1> QED
  BY <1>3, <1>4

\* The matcher places an order.
LEMMA PlaceStep ==
  ASSUME IInv, MatcherInv, PlaceOrder
  PROVE  MatcherInv'
<1>1. PICK id \in Ids, o \in SignedOrders : \E m : Taken(id, o, m)
  BY PlaceView
<1>2. PICK m : Taken(id, o, m)
  BY <1>1
<1>3. /\ o = sent[id] /\ o.position \in Positions /\ id \in holds
      /\ Fresh(id) /\ ~Fresh(id)' /\ \A i : Fresh(i)' => Fresh(i)
      /\ books' = [books EXCEPT ![o.position] = m.book]
      /\ results' = results \o m.fills /\ m.fills \in Seq(Fills)
      /\ BookOK(m.book) /\ (Parted(books[o.position]) => Parted(m.book))
      /\ traded' = [i \in Ids |-> traded[i] + filledOf(i, m.fills)]
      /\ queue' \in Seq(Commands) /\ Len(queue') <= QueueCapacity /\ QueueFits'
      /\ UNCHANGED <<at, sent, orders, holds, persisting, restarted, lost>>
  BY <1>2 DEF Taken, Placed
<1>4. traded[id] = 0 /\ ~Named(id) /\ pending(id) = 0
  BY <1>3, UnnamedPending DEF MatcherInv, FreshUntraded
<1>5. \A p \in Positions : books'[p] = IF p = o.position THEN m.book ELSE books[p]
  BY <1>3 DEF MatcherInv, Shapes
\* The fills of the queue, old and new.
<1>6. /\ results' \in Seq(Fills)
      /\ \A k \in DOMAIN results' : \/ k \in DOMAIN results /\ results'[k] = results[k]
                                    \/ \E j \in DOMAIN m.fills : k = Len(results) + j /\ results'[k] = m.fills[j]
  <2> DEFINE s == results
             t == m.fills
  <2>1. s \in Seq(Fills) /\ t \in Seq(Fills)
    BY <1>3 DEF MatcherInv, Shapes
  <2> HIDE DEF s, t
  <2>2. /\ s \o t \in Seq(Fills)
        /\ \A k \in DOMAIN (s \o t) : \/ k \in DOMAIN s /\ (s \o t)[k] = s[k]
                                    \/ \E j \in DOMAIN t : k = Len(s) + j /\ (s \o t)[k] = t[j]
    <3>1. s \o t \in Seq(Fills) /\ Len(s \o t) = Len(s) + Len(t) /\ Len(s) \in Nat /\ Len(t) \in Nat
          /\ DOMAIN s = 1..Len(s) /\ DOMAIN t = 1..Len(t) /\ DOMAIN (s \o t) = 1..(Len(s) + Len(t))
      BY <2>1
    <3>2. ASSUME NEW k \in DOMAIN (s \o t), k > Len(s)
          PROVE \E j \in DOMAIN t : k = Len(s) + j /\ (s \o t)[k] = t[j]
      <4>1. k - Len(s) \in DOMAIN t /\ k = Len(s) + (k - Len(s)) /\ (s \o t)[k] = t[k - Len(s)]
        BY <2>1, <3>1, <3>2
      <4> QED BY <4>1
    <3>3. ASSUME NEW k \in DOMAIN (s \o t), k <= Len(s) PROVE k \in DOMAIN s /\ (s \o t)[k] = s[k]
      BY <2>1, <3>1, <3>3
    <3>4. \A k \in DOMAIN (s \o t) : k > Len(s) \/ k <= Len(s)
      BY <3>1
    <3> QED BY <3>1, <3>2, <3>3, <3>4
  <2> QED BY <1>3, <2>2 DEF s, t
<1>7. Shapes'
  <2>1. traded' \in [Ids -> Nat]
    <3>1. ASSUME NEW i \in Ids PROVE traded[i] + filledOf(i, m.fills) \in Nat
      <4>1. traded[i] \in Nat /\ filledOf(i, m.fills) \in Nat
        BY <1>2, NewAmounts DEF MatcherInv, Shapes
      <4> QED BY <4>1
    <3> QED BY <1>3, <3>1
  <2>2. books' \in [Positions -> BookTypes]
    <3>1. m.book \in BookTypes
      BY <1>3 DEF BookOK
    <3> QED BY <1>3, <3>1 DEF MatcherInv, Shapes
  <2> QED BY <1>3, <1>6, <2>1, <2>2 DEF MatcherInv, Shapes
<1>8. BooksFit'
  <2>1. ASSUME NEW p \in Positions PROVE BookOK(books'[p])
    <3>1. BookOK(books[p])
      BY DEF MatcherInv, BooksFit
    <3> QED BY <1>3, <1>5, <3>1
  <2>2. ASSUME NEW p \in Positions, NEW side \in Sides, NEW k \in DOMAIN books'[p][side],
               NEW i, i = books'[p][side][k].id
        PROVE  books'[p][side][k].order = sent'[i] /\ books'[p][side][k].order.position = p /\ ~Fresh(i)'
    <3>1. CASE p = o.position /\ i = id /\ books'[p][side][k].order = o
      BY <1>3, <3>1
    <3>2. CASE \E l \in DOMAIN books[p][side] : Grown(books'[p][side][k], books[p][side][l])
      <4>1. PICK l \in DOMAIN books[p][side] : Grown(books'[p][side][k], books[p][side][l])
        BY <3>2
      <4>2. i = books[p][side][l].id /\ books'[p][side][k].order = books[p][side][l].order
        BY <2>2, <4>1 DEF Grown
      <4>3. /\ books[p][side][l].order = sent[books[p][side][l].id]
            /\ books[p][side][l].order.position = p /\ ~Fresh(books[p][side][l].id)
        BY RestingFacts
      <4> QED BY <1>3, <4>2, <4>3
    <3> QED BY <1>2, <2>2, <3>1, <3>2, NewResters
  <2> QED BY <2>1, <2>2 DEF BooksFit
<1>9. RowsMatch'
  <2>1. ASSUME NEW k \in DOMAIN orders, NEW i, i = orders[k].id
        PROVE  /\ orders[k].order = sent[i] /\ at[i] \notin {"idle", "reserved"}
               /\ Fresh(i)' => orders[k].status # "filled"
    BY <1>3, <2>1 DEF MatcherInv, RowsMatch
  <2> QED BY <1>3, <2>1 DEF MatcherInv, RowsMatch
<1>10. ASSUME NEW i \in Ids, Fresh(i)' PROVE traded'[i] = 0 /\ ~Named(i)'
  <2>1. Fresh(i) /\ i # id
    BY <1>3, <1>10
  <2>2. traded[i] = 0 /\ ~Named(i)
    BY <2>1 DEF MatcherInv, FreshUntraded
  <2>3. traded'[i] = 0
    BY <1>2, <2>1, <2>2, NewAmounts
  <2>4. ASSUME NEW k \in DOMAIN results', i \in {results'[k].maker, results'[k].taker} PROVE FALSE
    <3>1. CASE k \in DOMAIN results /\ results'[k] = results[k]
      BY <2>2, <2>4, <3>1 DEF Named
    <3>2. CASE \E j \in DOMAIN m.fills : results'[k] = m.fills[j]
      <4>1. PICK j \in DOMAIN m.fills : results'[k] = m.fills[j]
        BY <3>2
      <4>2. m.fills[j].taker = id /\ m.fills[j].maker # i
        BY <1>2, <2>1, NewFills
      <4> QED BY <2>1, <2>4, <4>1, <4>2
    <3> QED BY <1>6, <3>1, <3>2
  <2> QED BY <2>3, <2>4 DEF Named
<1>11. TakersFirst'
  <2>1. ASSUME NEW j \in DOMAIN results', NEW k \in DOMAIN results', j <= k
        PROVE  results'[j].maker # results'[k].taker
    <3>1. CASE k \in DOMAIN results /\ results'[k] = results[k]
      <4>1. j \in DOMAIN results /\ results'[j] = results[j]
        <5>1. DOMAIN results = 1..Len(results) /\ Len(results) \in Nat
          BY DEF MatcherInv, Shapes
        <5>2. \A l \in DOMAIN m.fills : l \in Nat \ {0}
          BY <1>3
        <5> QED BY <1>6, <2>1, <3>1, <5>1, <5>2
      <4> QED BY <2>1, <3>1, <4>1 DEF MatcherInv, TakersFirst
    <3>2. CASE \E l \in DOMAIN m.fills : results'[k] = m.fills[l]
      <4>1. results'[k].taker = id
        BY <1>2, <3>2, NewFills
      <4>2. CASE j \in DOMAIN results /\ results'[j] = results[j]
        BY <1>4, <4>1, <4>2 DEF Named
      <4>3. CASE \E l \in DOMAIN m.fills : results'[j] = m.fills[l]
        BY <1>2, <4>1, <4>3, NewFills
      <4> QED BY <1>6, <4>2, <4>3
    <3> QED BY <1>6, <3>1, <3>2
  <2>2. ASSUME results' = << >> PROVE persisting' = "publish"
    <3>1. results = << >>
      <4>1. results \in Seq(Fills) /\ m.fills \in Seq(Fills) /\ results \o m.fills = << >>
        BY <1>3, <2>2 DEF MatcherInv, Shapes
      <4>2. Len(results) + Len(m.fills) = 0 /\ Len(results) \in Nat /\ Len(m.fills) \in Nat
        <5>1. Len(results \o m.fills) = Len(results) + Len(m.fills)
          BY ONLY <4>1
        <5>2. Len(<< >>) = 0
          OBVIOUS
        <5> QED BY <4>1, <5>1, <5>2
      <4> QED BY <4>1, <4>2
    <3> QED BY <1>3, <3>1 DEF MatcherInv, TakersFirst
  <2> QED BY <2>1, <2>2 DEF TakersFirst
<1>12. FillsCountOnce'
  <2>1. ASSUME NEW k \in DOMAIN orders, NEW i, i = orders[k].id
        PROVE  /\ orders[k].filled + pending(i)' <= traded'[i]
               /\ i \notin lost => orders[k].filled + pending(i)' = traded'[i]
    <3>1. i \in Ids /\ orders[k].filled \in Nat /\ traded[i] \in Nat /\ pending(i) \in Nat
      BY <2>1, RowFacts, PendingIsNat DEF MatcherInv, Shapes
    <3>2. /\ orders[k].filled + pending(i) <= traded[i]
          /\ i \notin lost => orders[k].filled + pending(i) = traded[i]
      BY <2>1 DEF MatcherInv, FillsCountOnce
    <3>3. PICK n \in Nat : traded'[i] = traded[i] + n /\ pending(i)' = pending(i) + n
      BY <1>2, <3>1, NewAmounts
    <3> QED BY <3>1, <3>2, <3>3
  <2> QED BY <1>3, <2>1 DEF FillsCountOnce
<1>13. RowsFillable'
  <2>1. ASSUME NEW k \in DOMAIN orders, NEW i, i = orders[k].id, orders[k].status = "filled"
        PROVE  \A j \in DOMAIN results' : results'[j].taker # i
    <3>1. i # id
      BY <1>3, <2>1 DEF MatcherInv, RowsMatch
    <3>2. \A j \in DOMAIN results : results[j].taker # i
      BY <2>1 DEF MatcherInv, RowsFillable
    <3>3. \A j \in DOMAIN m.fills : m.fills[j].taker # i
      BY <1>2, <3>1, NewFills
    <3> QED BY <1>6, <3>2, <3>3
  <2>2. ASSUME NEW k \in DOMAIN orders, NEW i, i = orders[k].id, orders[k].status # "filled"
        PROVE  orders[k].filled + Part(results', TakenBy(i)) <= orders[k].order.amount
    <3> DEFINE q == Part(results, TakenBy(i))
               n == Part(m.fills, TakenBy(i))
    <3>1. i \in Ids /\ orders[k].filled \in Nat /\ orders[k].order.amount \in Nat /\ orders[k].order = sent[i]
      BY <2>2, RowFacts DEF MatcherInv, RowsMatch
    <3>2. /\ i = id => n <= o.amount
          /\ i # id => n = 0
          /\ n \in Nat /\ q \in Nat /\ Part(results', TakenBy(i)) = q + n
      BY <1>2, <3>1, TakerPart
    <3>3. orders[k].filled + q <= orders[k].order.amount
      BY <2>2 DEF MatcherInv, RowsFillable
    <3>4. ASSUME i = id PROVE orders[k].filled = 0 /\ q = 0
      <4>1. orders[k].filled + pending(id) <= traded[id]
        BY <2>2, <3>4 DEF MatcherInv, FillsCountOnce
      <4>2. q = 0
        BY <1>4, <3>4, UnnamedFacts DEF MatcherInv
      <4> QED BY <1>4, <3>1, <4>1, <4>2
    <3> HIDE DEF q, n
    <3>5. CASE i = id
      <4>1. orders[k].order.amount = o.amount
        BY <1>3, <3>1, <3>5
      <4> QED BY <3>1, <3>2, <3>4, <3>5, <4>1
    <3>6. CASE i # id
      BY <3>1, <3>2, <3>3, <3>6
    <3> QED BY <3>5, <3>6
  <2> QED BY <1>3, <2>1, <2>2 DEF RowsFillable
<1>14. Held'
  <2>1. ASSUME NEW p \in Positions, NEW side \in Sides, NEW k \in DOMAIN books'[p][side],
               NEW i, i = books'[p][side][k].id
        PROVE  i \in holds \/ (restarted /\ at[i] = "rejected")
    <3>1. CASE i = id
      BY <1>3, <3>1
    <3>2. CASE \E l \in DOMAIN books[p][side] : Grown(books'[p][side][k], books[p][side][l])
      BY <2>1, <3>2 DEF MatcherInv, Held, Grown
    <3> QED BY <1>2, <2>1, <3>1, <3>2, NewResters
  <2>2. UNCHANGED <<holds, restarted, at>>
    BY <1>3
  <2> QED BY <2>1, <2>2 DEF Held
<1>15. BooksParted'
  <2>1. ASSUME ~restarted', NEW p \in Positions PROVE Parted(books'[p])
    <3>1. Parted(books[p])
      BY <1>3, <2>1 DEF MatcherInv, BooksParted
    <3> QED BY <1>3, <1>5, <3>1
  <2> QED BY <2>1 DEF BooksParted
<1>16. FreshUntraded'
  BY <1>10 DEF FreshUntraded
<1> QED
  BY <1>3, <1>7, <1>8, <1>9, <1>11, <1>12, <1>13, <1>14, <1>15, <1>16 DEF MatcherInv

\* The matcher cancels.
LEMMA CancelBookStep ==
  ASSUME IInv, MatcherInv, CancelInBook
  PROVE  MatcherInv'
<1> DEFINE c == Head(queue)
<1>1. /\ queue # << >> /\ c.do = "cancel" /\ queue' = Tail(queue)
      /\ books' = [books EXCEPT ![c.position] = cancel(@, c.id)]
      /\ UNCHANGED <<at, sent, orders, holds, traded, results, persisting, restarted, lost>>
  BY DEF CancelInBook, database, requests, outcome, world
<1>2. /\ c \in Commands
      /\ queue' \in Seq(Commands) /\ Len(queue') <= QueueCapacity /\ QueueFits'
      /\ \A i : Fresh(i)' => Fresh(i)
  BY <1>1, TakeStep
<1>3. PICK p, id : p \in Positions /\ p = c.position /\ id = c.id
  BY <1>1, <1>2 DEF Commands
<1>4. \A q \in Positions : books'[q] = IF q = p THEN cancel(books[p], id) ELSE books[q]
  BY <1>1, <1>3 DEF MatcherInv, Shapes
<1> HIDE DEF c
<1>5. ASSUME NEW q \in Positions PROVE BookOK(books'[q]) /\ OnlyFrom(books'[q], books[q])
  <2>1. BookOK(books[q]) /\ BookOK(books[p])
    BY <1>3 DEF MatcherInv, BooksFit
  <2>2. CASE q = p
    <3>1. BookOK(cancel(books[p], id)) /\ OnlyFrom(cancel(books[p], id), books[p])
      BY <2>1, Cancelled
    <3> QED BY <1>4, <2>2, <3>1
  <2>3. CASE q # p
    <3>1. books'[q] = books[q]
      BY <1>4, <2>3
    <3> QED BY <2>1, <3>1 DEF OnlyFrom
  <2> QED BY <2>2, <2>3
<1>6. Shapes'
  <2>1. books' \in [Positions -> BookTypes]
    <3>1. books' = [q \in Positions |-> books'[q]]
      BY <1>1 DEF MatcherInv, Shapes
    <3>2. \A q \in Positions : books'[q] \in BookTypes
      BY <1>5 DEF BookOK
    <3> QED BY <3>1, <3>2
  <2> QED BY <1>1, <1>2, <2>1 DEF MatcherInv, Shapes
<1>7. BooksFit'
  <2>1. ASSUME NEW q \in Positions, NEW side \in Sides, NEW k \in DOMAIN books'[q][side],
               NEW i, i = books'[q][side][k].id
        PROVE  books'[q][side][k].order = sent'[i] /\ books'[q][side][k].order.position = q /\ ~Fresh(i)'
    <3>1. PICK l \in DOMAIN books[q][side] : books'[q][side][k] = books[q][side][l]
      BY <1>5 DEF OnlyFrom
    <3>2. /\ books[q][side][l].order = sent[books[q][side][l].id]
          /\ books[q][side][l].order.position = q /\ ~Fresh(books[q][side][l].id)
      BY RestingFacts
    <3> QED BY <1>1, <1>2, <2>1, <3>1, <3>2
  <2> QED BY <1>5, <2>1 DEF BooksFit
<1>8. RowsMatch'
  <2>1. ASSUME NEW k \in DOMAIN orders, NEW i, i = orders[k].id
        PROVE  /\ orders[k].order = sent[i] /\ at[i] \notin {"idle", "reserved"}
               /\ Fresh(i)' => orders[k].status # "filled"
    BY <1>2, <2>1 DEF MatcherInv, RowsMatch
  <2> QED BY <1>1, <2>1 DEF MatcherInv, RowsMatch
<1>9. FreshUntraded'
  BY <1>1, <1>2 DEF MatcherInv, FreshUntraded, Named
<1>10. TakersFirst' /\ RowsFillable'
  BY <1>1 DEF MatcherInv, TakersFirst, RowsFillable
<1>11. FillsCountOnce'
  <2>1. ASSUME NEW k \in DOMAIN orders, NEW i, i = orders[k].id
        PROVE  /\ orders[k].filled + pending(i)' <= traded[i]
               /\ i \notin lost => orders[k].filled + pending(i)' = traded[i]
    <3>1. pending(i)' = pending(i)
      BY <1>1, SamePending
    <3> QED BY <2>1, <3>1 DEF MatcherInv, FillsCountOnce
  <2> QED BY <1>1, <2>1 DEF FillsCountOnce
<1>12. Held'
  <2>1. ASSUME NEW q \in Positions, NEW side \in Sides, NEW k \in DOMAIN books'[q][side],
               NEW i, i = books'[q][side][k].id
        PROVE  i \in holds \/ (restarted /\ at[i] = "rejected")
    BY <1>5, <2>1 DEF MatcherInv, Held, OnlyFrom
  <2> QED BY <1>1, <2>1 DEF Held
<1>13. BooksParted'
  <2>1. ASSUME ~restarted', NEW q \in Positions PROVE Parted(books'[q])
    <3>1. Parted(books[q]) /\ books[q] \in BookTypes /\ books'[q] \in BookTypes
      BY <1>1, <1>5, <2>1 DEF MatcherInv, BooksParted, Shapes, BookOK
    <3>2. /\ books[q]["buy"] = books[q].buy /\ books[q]["sell"] = books[q].sell
          /\ books'[q]["buy"] = books'[q].buy /\ books'[q]["sell"] = books'[q].sell
      BY <3>1, BookSides
    <3>3. /\ \A j \in DOMAIN books'[q].buy : \E i \in DOMAIN books[q].buy : books'[q].buy[j] = books[q].buy[i]
          /\ \A j \in DOMAIN books'[q].sell : \E i \in DOMAIN books[q].sell : books'[q].sell[j] = books[q].sell[i]
      BY <1>5, <3>2 DEF OnlyFrom, Sides
    <3> QED BY <3>1, <3>3 DEF Parted
  <2> QED BY <2>1 DEF BooksParted
<1> QED
  BY <1>1, <1>2, <1>6, <1>7, <1>8, <1>9, <1>10, <1>11, <1>12, <1>13 DEF MatcherInv

\* The process stops and starts again, with the books rebuilt from the rows.
LEMMA RestartMatcherStep ==
  ASSUME IInv, MatcherInv, Restart
  PROVE  MatcherInv'
<1>1. /\ restarted' = TRUE /\ lost' = lost \cup {i \in Ids : pending(i) > 0}
      /\ at' = [i \in Ids |-> IF at[i] \in UnderWay THEN "rejected" ELSE at[i]]
      /\ queue' = << >> /\ results' = << >> /\ persisting' = "publish" /\ books' = rebuild_books
      /\ UNCHANGED <<orders, holds, sent, traded>>
  BY DEF Restart, database
<1>2. << >> \in Seq(Commands) /\ << >> \in Seq(Fills) /\ Len(<< >>) = 0 /\ DOMAIN << >> = {}
  OBVIOUS
<1>3. ASSUME NEW i \in Ids, Fresh(i)' PROVE at[i] = "idle" /\ Fresh(i)
  <2>1. ~Placing(i)'
    BY <1>1, <1>2 DEF Placing
  <2>2. at'[i] \in {"idle", "reserved", "inserted", "held"}
    BY <1>3, <2>1 DEF Fresh
  <2>3. at[i] = "idle"
    BY <1>1, <2>2 DEF UnderWay
  <2> QED BY <2>3 DEF Fresh
<1>4. ASSUME NEW k \in DOMAIN orders, NEW i, i = orders[k].id
      PROVE  i \in Ids /\ ~Fresh(i)' /\ at'[i] \notin {"idle", "reserved"} /\ orders[k].order = sent[i]
  <2>1. i \in Ids /\ at[i] \notin {"idle", "reserved"} /\ orders[k].order = sent[i]
    BY <1>4, RowFacts DEF MatcherInv, RowsMatch
  <2> QED BY <1>1, <1>3, <2>1
<1>5. ASSUME NEW T PROVE Part(<< >>, T) = 0
  <2> DEFINE s == << >>
  <2>1. s \in Seq(Fills) /\ \A k \in 1..Len(s) : FALSE
    BY <1>2
  <2> HIDE DEF s
  <2>2. Part(s, T) = 0
    BY <2>1, PartZero
  <2> QED BY <2>2 DEF s
<1>6. RowsFit
  <2>1. ASSUME NEW k \in DOMAIN orders, orders[k].status = "open"
        PROVE  orders[k].filled <= orders[k].order.amount
    <3>1. orders[k].filled \in Nat /\ orders[k].order.amount \in Nat
      BY RowFacts DEF MatcherInv
    <3>2. Part(results, TakenBy(orders[k].id)) \in Nat
      BY PartType DEF MatcherInv, Shapes
    <3>3. orders[k].filled + Part(results, TakenBy(orders[k].id)) <= orders[k].order.amount
      BY <2>1 DEF MatcherInv, RowsFillable
    <3> QED BY <3>1, <3>2, <3>3
  <2> QED BY <2>1 DEF RowsFit, MatcherInv, Shapes, RowsMatch
<1>7. \A p \in Positions : FromRows(books'[p], p, Len(orders))
  BY <1>1, <1>6, Rebuilt
<1>8. Shapes'
  <2>1. books' \in [Positions -> BookTypes]
    <3>1. books' = [p \in Positions |-> books'[p]]
      BY <1>1 DEF rebuild_books
    <3>2. \A p \in Positions : books'[p] \in BookTypes
      BY <1>7 DEF FromRows, BookOK
    <3> QED BY <3>1, <3>2
  <2>2. Len(<< >>) <= QueueCapacity
    BY <1>2, BoundsTyped
  <2> QED BY <1>1, <1>2, <2>1, <2>2 DEF MatcherInv, Shapes
<1>9. BooksFit'
  <2>1. ASSUME NEW p \in Positions PROVE BookOK(books'[p])
    BY <1>7 DEF FromRows
  <2>2. ASSUME NEW p \in Positions, NEW side \in Sides, NEW k \in DOMAIN books'[p][side],
               NEW i, i = books'[p][side][k].id
        PROVE  books'[p][side][k].order = sent'[i] /\ books'[p][side][k].order.position = p /\ ~Fresh(i)'
    <3>1. PICK l \in 1..Len(orders) : /\ orders[l].order.position = p
                                      /\ i = orders[l].id /\ books'[p][side][k].order = orders[l].order
      BY <1>7, <2>2 DEF FromRows
    <3>2. l \in DOMAIN orders
      BY DEF MatcherInv, Shapes
    <3> QED BY <1>1, <1>4, <3>1, <3>2
  <2> QED BY <2>1, <2>2 DEF BooksFit
<1>10. RowsMatch'
  BY <1>1, <1>4 DEF MatcherInv, RowsMatch
<1>11. QueueFits' /\ TakersFirst' /\ BooksParted'
  BY <1>1, <1>2 DEF QueueFits, TakersFirst, BooksParted
\* What rests now has a row, so it is accepted, with a hold, or it was given up before it was.
<1>15. Held'
  <2>1. ASSUME NEW p \in Positions, NEW side \in Sides, NEW k \in DOMAIN books'[p][side],
               NEW i, i = books'[p][side][k].id
        PROVE  i \in holds' \/ (restarted' /\ at'[i] = "rejected")
    <3>1. PICK l \in 1..Len(orders) : i = orders[l].id
      BY <1>7, <2>1 DEF FromRows
    <3>2. l \in DOMAIN orders
      BY DEF MatcherInv, Shapes
    <3>3. i \in Ids /\ at[i] # "idle" /\ at[i] \in Stages
      BY <3>1, <3>2, RowFacts DEF MatcherInv, RowsMatch, IInv, Types
    <3>4. CASE at[i] = "accepted"
      BY <1>1, <3>3, <3>4 DEF IInv, Stored
    <3>5. CASE at[i] # "accepted"
      BY <1>1, <3>3, <3>5 DEF Stages
    <3> QED BY <3>4, <3>5
  <2> QED BY <2>1 DEF Held
<1>12. FreshUntraded'
  <2>1. ASSUME NEW i \in Ids, Fresh(i)' PROVE traded'[i] = 0 /\ ~Named(i)'
    BY <1>1, <1>2, <1>3, <2>1 DEF MatcherInv, FreshUntraded, Named
  <2> QED BY <2>1 DEF FreshUntraded
<1>13. RowsFillable'
  <2>1. ASSUME NEW k \in DOMAIN orders, NEW i, i = orders[k].id, orders[k].status # "filled"
        PROVE  orders[k].filled + Part(<< >>, TakenBy(i)) <= orders[k].order.amount
    <3> DEFINE q == Part(results, TakenBy(i))
    <3>1. orders[k].filled \in Nat /\ orders[k].order.amount \in Nat
      BY RowFacts DEF MatcherInv
    <3>2. q \in Nat
      BY PartType DEF MatcherInv, Shapes
    <3>3. orders[k].filled + q <= orders[k].order.amount
      BY <2>1 DEF MatcherInv, RowsFillable
    <3>4. Part(<< >>, TakenBy(i)) = 0
      BY <1>5
    <3> HIDE DEF q
    <3> QED BY <3>1, <3>2, <3>3, <3>4
  <2> QED BY <1>1, <1>2, <2>1 DEF RowsFillable
<1>14. FillsCountOnce'
  <2>1. ASSUME NEW i PROVE pending(i)' = 0
    <3>1. filledOf(i, << >>) = Part(<< >>, Involving(i))
      BY <1>2, SumsAreParts
    <3>2. filledOf(i, << >>) = 0
      BY <1>5, <3>1
    <3> QED BY <1>1, <3>2 DEF pending
  <2>2. ASSUME NEW k \in DOMAIN orders, NEW i, i = orders[k].id
        PROVE  /\ orders[k].filled + pending(i)' <= traded[i]
               /\ i \notin lost' => orders[k].filled + pending(i)' = traded[i]
    <3>1. i \in Ids /\ orders[k].filled \in Nat /\ traded[i] \in Nat /\ pending(i) \in Nat
      BY <2>2, RowFacts, PendingIsNat DEF MatcherInv, Shapes
    <3>2. /\ orders[k].filled + pending(i) <= traded[i]
          /\ i \notin lost => orders[k].filled + pending(i) = traded[i]
      BY <2>2 DEF MatcherInv, FillsCountOnce
    <3>3. i \notin lost' => i \notin lost /\ pending(i) = 0
      BY <1>1, <3>1
    <3> QED BY <2>1, <3>1, <3>2, <3>3
  <2> QED BY <1>1, <2>2 DEF FillsCountOnce
<1> QED
  BY <1>8, <1>9, <1>10, <1>11, <1>12, <1>13, <1>14, <1>15 DEF MatcherInv

-----------------------------------------------------------------------------
(* The invariant, and what follows from it.                                *)

\* Every step of the gateway keeps the invariant of the matcher.
LEMMA MatcherStep == IInv /\ MatcherInv /\ [Next]_vars => MatcherInv'
<1> SUFFICES ASSUME IInv, MatcherInv, [Next]_vars PROVE MatcherInv'
  OBVIOUS
<1>1. CASE \E i \in Ids : AcceptOrder(i)
  BY <1>1, AcceptMatcherStep
<1>2. CASE \E i \in Ids : CancelOrder(i)
  <2>1. PICK i \in Ids : CancelOrder(i)
    BY <1>2
  <2>2. CASE \E p \in Positions : cancel_order(i, p)
    BY <2>2, CancelOrderStep
  <2>3. CASE cancel_order_db(i)
    BY <2>3, CancelRowStep
  <2>4. CASE cancelFails(i)
    <3>1. UNCHANGED <<at, sent, orders, holds, queue, books, traded, results, persisting, restarted, lost>>
      BY <2>4 DEF cancelFails, failure, database, matcher, outcome, world
    <3> QED BY <3>1, AsideMatcherStep
  <2> QED BY <2>1, <2>2, <2>3, <2>4 DEF CancelOrder
<1>3. CASE PlaceOrder
  BY <1>3, PlaceStep
<1>4. CASE CancelInBook
  BY <1>4, CancelBookStep
<1>5. CASE ProcessMatchResult
  <2>1. PICK ok \in BOOLEAN : publish_match(ok) \/ updateMaker(ok) \/ updateTaker(ok)
    BY <1>5 DEF ProcessMatchResult
  <2> QED BY <2>1, PublishStep, MakerStep, TakerStep
<1>6. CASE \E c \in Indexed : indexedBalance(c[1], c[2])
  <2>1. UNCHANGED <<at, sent, orders, holds, queue, books, traded, results, persisting, restarted, lost>>
    BY <1>6 DEF indexedBalance, requests, matcher, outcome
  <2> QED BY <2>1, AsideMatcherStep
<1>7. CASE Restart
  BY <1>7, RestartMatcherStep
<1>8. CASE UNCHANGED vars
  <2>1. UNCHANGED <<at, sent, orders, holds, queue, books, traded, results, persisting, restarted, lost>>
    BY <1>8 DEF vars, database, requests, matcher, outcome, world
  <2> QED BY <2>1, AsideMatcherStep
<1> QED
  BY <1>1, <1>2, <1>3, <1>4, <1>5, <1>6, <1>7, <1>8 DEF Next

\* It holds throughout.
THEOREM MatcherInvariance == Spec => [](IInv /\ MatcherInv)
<1>1. IInv /\ MatcherInv /\ [Next]_vars => MatcherInv'
  BY MatcherStep
<1> QED
  BY <1>1, MatcherInitially, Invariance, PTL DEF Spec

\* Only placing an order trades.
LEMMA OnlyPlacingTrades ==
  ASSUME [Next]_vars, ~PlaceOrder
  PROVE  traded' = traded
<1>1. CASE \E i \in Ids : AcceptOrder(i)
  BY <1>1 DEF AcceptOrder, reserve_collateral, insert_order, insert_hold, insertFails, release_collateral,
              releaseFails, enqueue, enqueueFails, disconnected, matcher
<1>2. CASE \E i \in Ids : CancelOrder(i)
  BY <1>2 DEF CancelOrder, cancel_order, cancel_order_db, cancelFails, matcher
<1>3. CASE CancelInBook
  BY <1>3 DEF CancelInBook
<1>4. CASE ProcessMatchResult
  BY <1>4 DEF ProcessMatchResult, publish_match, updateMaker, updateTaker, matcher
<1>5. CASE \E c \in Indexed : indexedBalance(c[1], c[2])
  BY <1>5 DEF indexedBalance, matcher
<1>6. CASE Restart
  BY <1>6 DEF Restart
<1>7. CASE UNCHANGED vars
  BY <1>7 DEF vars, matcher
<1> QED
  BY <1>1, <1>2, <1>3, <1>4, <1>5, <1>6, <1>7 DEF Next

\* An order trades in a step that places an order only through a fill of its own.
LEMMA TradesInAFill ==
  ASSUME MatcherInv, NEW id \in Ids, NEW o \in SignedOrders, NEW m, Taken(id, o, m),
         NEW i \in Ids, traded'[i] > traded[i]
  PROVE  \E f \in DOMAIN m.fills : i \in {m.fills[f].maker, m.fills[f].taker}
<1> SUFFICES ASSUME \A f \in DOMAIN m.fills : i \notin {m.fills[f].maker, m.fills[f].taker} PROVE FALSE
  OBVIOUS
<1>1. m.fills \in Seq(Fills)
  BY DEF Taken, Placed
<1>2. \A f \in 1..Len(m.fills) : m.fills[f] \notin Involving(i)
  BY <1>1 DEF Involving
<1>3. filledOf(i, m.fills) = 0
  BY <1>1, <1>2, PartZero, SumsAreParts
<1>4. traded'[i] = traded[i] + filledOf(i, m.fills)
  BY NewAmounts
<1>5. traded[i] \in Nat
  BY DEF MatcherInv, Shapes
<1> QED
  BY <1>3, <1>4, <1>5

\* When a resting order trades, nothing that was ahead of it rests any more.
LEMMA AheadIsOut ==
  ASSUME MatcherInv, NEW id \in Ids, NEW o \in SignedOrders, NEW m, Taken(id, o, m),
         NEW p \in Positions, NEW side \in Sides, NEW j \in DOMAIN books[p][side], NEW k \in DOMAIN books[p][side],
         Ahead(side, books[p][side][j], books[p][side][k]),
         NEW i, i = books[p][side][k].id, traded'[i] > traded[i]
  PROVE  ~rests(books'[p], books[p][side][j].id)
<1> DEFINE b == books[p]
           s == b[side]
           opp == opposite(o.side)
<1>1. /\ s[j] \in Resters /\ s[k] \in Resters /\ i \in Ids
      /\ s[j].order = sent[s[j].id] /\ s[j].order.side = side
      /\ s[k].order = sent[i] /\ s[k].order.position = p /\ s[k].order.side = side
      /\ ~Fresh(i) /\ ~Fresh(s[j].id)
  BY RestingFacts
<1>2. Fresh(id) /\ o.position \in Positions /\ opp \in Sides
  BY SignedOrdersTyped DEF Taken, opposite, Sides
<1>3. PICK f \in DOMAIN m.fills : i \in {m.fills[f].maker, m.fills[f].taker}
  BY <1>1, TradesInAFill
<1>4. m.fills[f].maker = i
  <2>1. m.fills[f].taker = id
    BY <1>3, NewFills
  <2>2. i # id
    BY <1>1, <1>2
  <2> QED BY ONLY <1>3, <2>1, <2>2
<1>5. PICK l \in DOMAIN books[o.position][opp] :
         /\ m.fills[f].maker = books[o.position][opp][l].id
         /\ \A h \in 1..(l-1), x \in DOMAIN m.book[opp] : m.book[opp][x].id # books[o.position][opp][h].id
  BY DEF Taken, Placed
\* The maker of the fill is the order that trades.
<1>6. o.position = p /\ opp = side
  <2> DEFINE r == books[o.position][opp][l]
  <2>1. o.position \in Positions /\ opp \in Sides /\ l \in DOMAIN books[o.position][opp]
    BY <1>2, <1>5
  <2> HIDE DEF opp
  <2>2. r.order = sent[r.id] /\ r.order.position = o.position /\ r.order.side = opp
    BY <2>1, RestingFacts
  <2>3. r.id = i
    BY <1>4, <1>5
  <2> HIDE DEF r, s
  <2> QED BY ONLY <1>1, <2>2, <2>3
<1>7. SideOK(side, s, b.next_seq) /\ s \in Seq(Resters) /\ Sorted(side, s) /\ Distinct(s)
  BY DEF MatcherInv, BooksFit, BookOK, SideOK
<1>8. l = k
  BY <1>4, <1>5, <1>6, <1>7 DEF Distinct
<1>9. j \in 1..(k-1)
  <2>1. j \in Nat /\ k \in Nat /\ j >= 1
    BY <1>7
  <2>2. ~Ahead(side, s[k], s[j])
    BY <1>1, AheadOrder
  <2>3. ASSUME j = k PROVE FALSE
    BY <2>2, <2>3
  <2>4. ASSUME k < j PROVE FALSE
    BY <1>7, <2>2, <2>4 DEF Sorted
  <2> QED BY <2>1, <2>3, <2>4
<1>10. books'[p] = m.book
  BY <1>2, <1>6 DEF Taken, MatcherInv, Shapes
<1>11. \A x \in DOMAIN books'[p][side] : books'[p][side][x].id # s[j].id
  <2>1. \A x \in DOMAIN m.book[opp] : m.book[opp][x].id # books[o.position][opp][j].id
    BY <1>5, <1>8, <1>9
  <2> QED BY <1>6, <1>10, <2>1
<1>12. ASSUME NEW t \in Sides, NEW x \in DOMAIN books'[p][t], books'[p][t][x].id = s[j].id PROVE t = side
  <2>1. s[j].id # id
    BY <1>1, <1>2
  <2>2. PICK y \in DOMAIN books[p][t] : Grown(books'[p][t][x], books[p][t][y])
    BY <1>12, <2>1, NewResters
  <2>3. books[p][t][y].order = sent[books[p][t][y].id] /\ books[p][t][y].order.side = t
    BY RestingFacts
  <2> QED BY <1>1, <1>12, <2>2, <2>3 DEF Grown
<1> QED
  BY <1>11, <1>12 DEF rests, Sides

-----------------------------------------------------------------------------
\* The types, and that nothing in a book is filled past its amount, where remaining() would wrap.
THEOREM TypeOKHolds == Spec => []TypeOK
<1>1. IInv /\ MatcherInv => TypeOK
  <2> SUFFICES ASSUME IInv, MatcherInv PROVE TypeOK
    OBVIOUS
  <2>1. ASSUME NEW p \in Positions, NEW r \in Resting(p) PROVE r.filled \in 0..r.order.amount
    <3>1. books[p].buy \in Seq(Resters) /\ books[p].sell \in Seq(Resters)
      <4>1. books[p] \in BookTypes
        BY DEF MatcherInv, Shapes
      <4> QED BY <4>1 DEF BookTypes
    <3>2. r \in Resters
      BY <3>1 DEF Resting
    <3>3. r.filled \in Nat /\ r.filled <= r.order.amount /\ r.order.amount \in Nat
      BY <3>2, ResterFields
    <3> QED BY <3>3
  <2>2. \A k \in DOMAIN orders : orders[k].status \in {"open", "filled", "cancelled"}
    BY RowFacts DEF MatcherInv
  <2> QED BY <2>1, <2>2 DEF TypeOK, IInv, Types, MatcherInv, Shapes, Stages
<1> QED
  BY <1>1, MatcherInvariance, PTL

\* What rests in a book has a row of holds, or was put there by a restart and is of a request given up.
THEOREM RestingIsHeldHolds == Spec => []RestingIsHeld
<1>1. MatcherInv => RestingIsHeld
  <2> SUFFICES ASSUME MatcherInv, NEW p \in Positions, NEW r \in Resting(p)
               PROVE  r.id \in holds \/ (restarted /\ at[r.id] = "rejected")
    BY DEF RestingIsHeld
  <2>1. books[p]["buy"] = books[p].buy /\ books[p]["sell"] = books[p].sell
    BY BookSides DEF MatcherInv, Shapes
  <2>2. \A side \in Sides : \A k \in DOMAIN books[p][side] :
           LET i == books[p][side][k].id IN i \in holds \/ (restarted /\ at[i] = "rejected")
    BY DEF MatcherInv, Held
  <2> QED BY <2>1, <2>2 DEF Resting, Sides
<1> QED
  BY <1>1, MatcherInvariance, PTL

\* Until a restart, every bid of a book is below every ask.
THEOREM UncrossedHolds == Spec => []Uncrossed
<1>1. MatcherInv => Uncrossed
  BY DEF MatcherInv, BooksParted, Parted, Uncrossed
<1> QED
  BY <1>1, MatcherInvariance, PTL

\* What is stored of an order and still pending is what the matcher traded of it, or less if some was lost.
THEOREM FillsCountOnceHolds == Spec => []FillsCountOnce
<1>1. MatcherInv => FillsCountOnce
  BY DEF MatcherInv
<1> QED
  BY <1>1, MatcherInvariance, PTL

\* An order trades only once everything that was ahead of it is out of the book.
THEOREM FillsFollowPriorityHolds == Spec => FillsFollowPriority
<1>1. IInv /\ MatcherInv /\ [Next]_vars =>
        [\A p \in Positions, side \in {"buy", "sell"} : \A j, k \in DOMAIN books[p][side] :
          LET first  == books[p][side][j]
              second == books[p][side][k]
          IN  /\ \/ better(side, first.order.price, second.order.price)
                 \/ first.order.price = second.order.price /\ first.seq < second.seq
              /\ traded'[second.id] > traded[second.id]
              => ~rests(books'[p], first.id)]_vars
  <2> SUFFICES ASSUME IInv, MatcherInv, [Next]_vars, NEW p \in Positions, NEW side \in Sides,
                      NEW j \in DOMAIN books[p][side], NEW k \in DOMAIN books[p][side],
                      Ahead(side, books[p][side][j], books[p][side][k]),
                      NEW i, i = books[p][side][k].id, traded'[i] > traded[i]
               PROVE  ~rests(books'[p], books[p][side][j].id)
    BY DEF Ahead, Sides
  <2>1. CASE PlaceOrder
    <3>1. PICK id \in Ids, o \in SignedOrders : \E m : Taken(id, o, m)
      BY <2>1, PlaceView
    <3>2. PICK m : Taken(id, o, m)
      BY <3>1
    <3> QED BY <3>2, AheadIsOut
  <2>2. CASE ~PlaceOrder
    <3>1. i \in Ids /\ traded'[i] = traded[i]
      BY <2>2, RestingFacts, OnlyPlacingTrades
    <3>2. traded[i] \in Nat
      BY <3>1 DEF MatcherInv, Shapes
    <3> QED BY <3>1, <3>2
  <2> QED BY <2>1, <2>2
<1> QED
  BY <1>1, MatcherInvariance, PTL DEF Spec, FillsFollowPriority

=============================================================================
