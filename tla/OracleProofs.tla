---------------------------- MODULE OracleProofs ----------------------------
(***************************************************************************)
(* What holds of the oracle for every set of markets, actors, specs and    *)
(* payout vectors, and for any length of time.                             *)
(*                                                                         *)
(* Order of the argument: the types say who is behind a market under way.  *)
(* A call changes what one market owes and moves as much money, so the     *)
(* sums follow market by market.  That a market is resolved exactly when   *)
(* its condition is reported needs more: created markets have conditions   *)
(* of their own, and the payouts of a proposal have the length its         *)
(* condition was prepared for.                                             *)
(***************************************************************************)
EXTENDS Oracle, LedgerLemmas

Claims == [proposedPayouts : PayoutVectors \cup {<< >>}, proposeTime : Nat,
           proposer : Actors \cup {None}, disputer : Actors \cup {None}]

MarketsTyped ==
    /\ now \in Nat /\ paused \in BOOLEAN
    /\ specs \in [Markets -> Specs \cup {ZeroSpec}]
    /\ states \in [Markets -> States]
    /\ replaced \subseteq Markets

MoneyTyped == pot \in Nat /\ gifts \in Nat /\ purse \in [Actors -> Nat]

\* A claim is typed, of the past, and complete for the state of its market.
ClaimsTyped ==
    /\ optimisticStates \in [Markets -> Claims]
    /\ \A m \in Markets :
         /\ optimisticStates[m].proposeTime <= now
         /\ states[m] \in {"PROPOSED", "DISPUTED"} => optimisticStates[m].proposer \in Actors
         /\ states[m] = "DISPUTED" => optimisticStates[m].disputer \in Actors

Types == MarketsTyped /\ MoneyTyped /\ ClaimsTyped /\ DOMAIN reported \subseteq prepared

\* The terms of a market are numbers, those of one that was never created zero.
LEMMA TermsTyped ==
  ASSUME MarketsTyped, NEW m \in Markets
  PROVE  /\ specs[m].outcomeSlotCount \in Nat /\ specs[m].expiry \in Nat
         /\ specs[m].disputeWindow \in Nat /\ specs[m].bondAmount \in Nat
<1>1. specs[m] \in Specs \/ specs[m] = ZeroSpec
  BY DEF MarketsTyped
<1> QED
  BY <1>1, SpecsTyped DEF ZeroSpec

\* A bond moves its amount from the caller's purse to the pot.
LEMMA BondMoves ==
  ASSUME MoneyTyped, NEW a \in Actors, NEW n \in Nat, bond(a, n), UNCHANGED gifts
  PROVE  MoneyTyped' /\ pot' = pot + n /\ purse' = [purse EXCEPT ![a] = purse[a] - n]
BY DEF MoneyTyped, bond

\* A payment moves its amount from the pot to a purse.
LEMMA PayMoves ==
  ASSUME MoneyTyped, NEW a \in Actors, NEW n \in Nat, pay(a, n), UNCHANGED gifts
  PROVE  MoneyTyped' /\ pot' = pot - n /\ purse' = [purse EXCEPT ![a] = purse[a] + n]
BY DEF MoneyTyped, pay

\* A report adds its condition, a prepared one, to those reported.
LEMMA ReportAdds ==
  ASSUME NEW spec, NEW p, reportPayouts(spec, p)
  PROVE  /\ <<spec.questionId, Len(p)>> \in prepared
         /\ <<spec.questionId, Len(p)>> \notin DOMAIN reported
         /\ DOMAIN reported' = DOMAIN reported \cup {<<spec.questionId, Len(p)>>}
BY DEF reportPayouts

\* The types hold before the first call.
LEMMA TypesInitially == Init => Types
<1> SUFFICES ASSUME Init PROVE Types
  OBVIOUS
<1>1. MarketsTyped /\ MoneyTyped
  BY BoundsAreNat DEF Init, MarketsTyped, MoneyTyped, States
<1>2. ZeroClaim \in Claims /\ ZeroClaim.proposeTime = 0
  BY DEF ZeroClaim, Claims
<1>3. ClaimsTyped
  BY <1>2 DEF Init, ClaimsTyped
<1>4. DOMAIN reported \subseteq prepared
  BY DEF Init
<1> QED
  BY <1>1, <1>3, <1>4 DEF Types

\* A call that does not touch the claims, or the states only to close a market, leaves them typed.
LEMMA ClaimsKept ==
  ASSUME MarketsTyped, ClaimsTyped, MarketsTyped', UNCHANGED optimisticStates, now' \in Nat, now <= now',
         \A m \in Markets : states'[m] \in {states[m], "RESOLVED"}
  PROVE  ClaimsTyped'
<1>1. ASSUME NEW m \in Markets
      PROVE  /\ optimisticStates'[m].proposeTime <= now'
             /\ states'[m] \in {"PROPOSED", "DISPUTED"} => optimisticStates'[m].proposer \in Actors
             /\ states'[m] = "DISPUTED" => optimisticStates'[m].disputer \in Actors
  <2>1. optimisticStates[m].proposeTime \in Nat /\ optimisticStates[m].proposeTime <= now
    BY DEF ClaimsTyped, Claims
  <2>2. now \in Nat /\ optimisticStates' = optimisticStates
    BY DEF MarketsTyped
  <2>3. optimisticStates'[m].proposeTime <= now'
    BY <2>1, <2>2
  <2> QED
    BY <2>2, <2>3 DEF ClaimsTyped
<1> QED
  BY <1>1 DEF ClaimsTyped

\* A proposal keeps the types.
LEMMA ProposeTyped ==
  ASSUME Types, NEW a \in Actors, NEW m \in Markets, NEW p \in PayoutVectors, proposeOutcome(a, m, p)
  PROVE  Types'
<1>1. MarketsTyped'
  BY DEF Types, MarketsTyped, proposeOutcome, rest, States
<1>2. MoneyTyped'
  BY BondMoves, TermsTyped DEF Types, proposeOutcome, rest
<1>3. ClaimsTyped'
  <2> DEFINE c == [optimisticStates[m] EXCEPT !.proposedPayouts = p, !.proposer = a, !.proposeTime = now]
  <2>1. optimisticStates[m] \in Claims /\ now \in Nat
    BY DEF Types, MarketsTyped, ClaimsTyped
  <2>2. optimisticStates' = [optimisticStates EXCEPT ![m] = c]
    BY <2>1 DEF Types, ClaimsTyped, proposeOutcome
  <2>3. c \in Claims /\ c.proposeTime = now /\ c.proposer = a
    BY <2>1 DEF Claims
  <2>4. now' = now /\ states' = [states EXCEPT ![m] = "PROPOSED"]
    BY DEF proposeOutcome
  <2> HIDE DEF c
  <2> QED
    BY <2>1, <2>2, <2>3, <2>4 DEF Types, MarketsTyped, ClaimsTyped
<1>4. (DOMAIN reported \subseteq prepared)'
  BY DEF Types, proposeOutcome, rest
<1> QED
  BY <1>1, <1>2, <1>3, <1>4 DEF Types

\* A dispute keeps the types.
LEMMA DisputeTyped ==
  ASSUME Types, NEW a \in Actors, NEW m \in Markets, disputeOutcome(a, m)
  PROVE  Types'
<1>1. MarketsTyped'
  BY DEF Types, MarketsTyped, disputeOutcome, rest, States
<1>2. MoneyTyped'
  BY BondMoves, TermsTyped DEF Types, disputeOutcome, rest
<1>3. ClaimsTyped'
  <2> DEFINE c == [optimisticStates[m] EXCEPT !.disputer = a]
  <2>1. optimisticStates[m] \in Claims /\ now \in Nat
    BY DEF Types, MarketsTyped, ClaimsTyped
  <2>2. optimisticStates' = [optimisticStates EXCEPT ![m] = c]
    BY <2>1 DEF disputeOutcome
  <2>3. /\ c \in Claims /\ c.proposeTime = optimisticStates[m].proposeTime
        /\ c.proposer = optimisticStates[m].proposer /\ c.disputer = a
    BY <2>1 DEF Claims
  <2>4. now' = now /\ states[m] = "PROPOSED" /\ states' = [states EXCEPT ![m] = "DISPUTED"]
    BY DEF disputeOutcome
  <2> HIDE DEF c
  <2> QED
    BY <2>1, <2>2, <2>3, <2>4 DEF Types, MarketsTyped, ClaimsTyped
<1>4. (DOMAIN reported \subseteq prepared)'
  BY DEF Types, disputeOutcome, rest
<1> QED
  BY <1>1, <1>2, <1>3, <1>4 DEF Types

\* Both ways to resolve a market pay somebody behind it.
LEMMA ResolveTyped ==
  ASSUME Types, NEW m \in Markets, NEW p \in PayoutVectors,
         resolveDispute(m, p) \/ \E a \in Actors : finalizeOutcome(a, m, p)
  PROVE  Types'
<1>1. /\ MarketsTyped' /\ UNCHANGED <<now, specs, optimisticStates, prepared, gifts, replaced>>
      /\ states' = [states EXCEPT ![m] = "RESOLVED"] /\ reportPayouts(specs[m], p)
  BY DEF Types, MarketsTyped, resolveDispute, finalizeOutcome, States
<1>2. MoneyTyped'
  <2>1. specs[m].bondAmount \in Nat /\ 2 * specs[m].bondAmount \in Nat
    BY TermsTyped DEF Types
  <2>2. CASE resolveDispute(m, p)
    <3>1. PICK a \in Actors : pay(a, 2 * specs[m].bondAmount)
      BY <2>2 DEF Types, ClaimsTyped, resolveDispute
    <3> QED
      BY <1>1, <2>1, <3>1, PayMoves DEF Types
  <2>3. CASE \E a \in Actors : finalizeOutcome(a, m, p)
    <3>1. PICK a \in Actors : pay(a, specs[m].bondAmount)
      BY <2>3 DEF Types, ClaimsTyped, finalizeOutcome
    <3> QED
      BY <1>1, <2>1, <3>1, PayMoves DEF Types
  <2> QED
    BY <2>2, <2>3
<1>3. ClaimsTyped'
  <2>1. \A k \in Markets : states'[k] \in {states[k], "RESOLVED"}
    BY <1>1 DEF Types, MarketsTyped
  <2>2. now' \in Nat /\ now <= now'
    BY <1>1 DEF Types, MarketsTyped
  <2> QED
    BY <1>1, <2>1, <2>2, ClaimsKept DEF Types
<1>4. (DOMAIN reported \subseteq prepared)'
  BY <1>1, ReportAdds DEF Types
<1> QED
  BY <1>1, <1>2, <1>3, <1>4 DEF Types

\* One step for each call.
LEMMA TypesStep ==
  ASSUME Types, [Next]_vars
  PROVE  Types'
<1>1. ASSUME NEW m \in Markets, NEW s \in Specs, createMarket(m, s) PROVE Types'
  <2>1. MarketsTyped' /\ UNCHANGED <<now, states, optimisticStates>>
    BY <1>1 DEF Types, MarketsTyped, createMarket, record
  <2>2. MoneyTyped' /\ (DOMAIN reported \subseteq prepared)'
    BY <1>1 DEF Types, MoneyTyped, createMarket, money
  <2> QED
    BY <2>1, <2>2, ClaimsKept DEF Types, MarketsTyped
<1>2. CASE pause \/ unpause \/ Tick
  <2>0. paused' \in BOOLEAN
    BY <1>2 DEF Types, MarketsTyped, pause, unpause, Tick
  <2>1. MarketsTyped' /\ now' \in Nat /\ now <= now' /\ UNCHANGED <<states, optimisticStates>>
    BY <1>2, <2>0 DEF Types, MarketsTyped, pause, unpause, Tick, market, rest
  <2>2. MoneyTyped' /\ (DOMAIN reported \subseteq prepared)'
    BY <1>2 DEF Types, MoneyTyped, pause, unpause, Tick, money, rest
  <2> QED
    BY <2>1, <2>2, ClaimsKept DEF Types, MarketsTyped
<1>3. CASE Gift
  <2>1. MarketsTyped' /\ UNCHANGED <<now, states, optimisticStates>>
    BY <1>3 DEF Types, MarketsTyped, Gift, market
  <2>2. MoneyTyped' /\ (DOMAIN reported \subseteq prepared)'
    BY <1>3 DEF Types, MoneyTyped, Gift
  <2> QED
    BY <2>1, <2>2, ClaimsKept DEF Types, MarketsTyped
<1>4. CASE UNCHANGED vars
  BY <1>4 DEF Types, MarketsTyped, MoneyTyped, ClaimsTyped, vars, market, money, rest
<1> QED
  BY <1>1, <1>2, <1>3, <1>4, ProposeTyped, DisputeTyped, ResolveTyped DEF Next

\* The oracle's types.
THEOREM TypesHold == Spec => []Types
BY TypesInitially, TypesStep, PTL DEF Spec

\* TypeOK, for every instance.
THEOREM TypeCorrect == Spec => []TypeOK
<1>1. Types => TypeOK
  BY DEF Types, TypeOK, MarketsTyped, MoneyTyped, ClaimsTyped, Claims
<1> QED
  BY <1>1, TypesHold, PTL

-----------------------------------------------------------------------------
\* Money.  What the markets owe, and what an actor has at stake in each, are tables of which a call
\* changes one row.

owedTable     == [m \in Markets |-> owed(m)]
stakeTable(a) == [m \in Markets |-> stake(a, m)]

\* Totals of two tables that differ in one row.
LEMMA RowChanged ==
  ASSUME NEW f \in [Markets -> Nat], NEW g \in [Markets -> Nat], NEW m \in Markets,
         \A k \in Markets \ {m} : g[k] = f[k]
  PROVE  Total(f) \in Nat /\ Total(g) = Total(f) - f[m] + g[m]
<1> DEFINE n == g[m]
<1>0. n \in Nat
  OBVIOUS
<1>1. g = [f EXCEPT ![m] = n]
  OBVIOUS
<1> HIDE DEF n
<1>2. Total([f EXCEPT ![m] = n]) = Total(f) - f[m] + n
  BY <1>0, FiniteMarkets, TotalUpdate
<1>3. Total(g) = Total(f) - f[m] + n
  BY <1>1, <1>2
<1> QED
  BY <1>3, FiniteMarkets, UnitsFinite DEF n

\* What the oracle owes, market by market, is a table of numbers.
LEMMA RowsTyped == MarketsTyped => /\ owedTable \in [Markets -> Nat]
                                   /\ \A b \in Actors : stakeTable(b) \in [Markets -> Nat]
<1> SUFFICES ASSUME MarketsTyped, NEW m \in Markets, NEW a
             PROVE  owed(m) \in Nat /\ stake(a, m) \in Nat
  BY DEF owedTable, stakeTable
<1>1. specs[m].bondAmount \in Nat
  BY TermsTyped
<1> QED
  BY <1>1 DEF owed, stake

\* A call about market m changes what is owed there and nowhere else.
LEMMA OwedRow ==
  ASSUME MarketsTyped, MarketsTyped', NEW m \in Markets,
         \A k \in Markets \ {m} : states'[k] = states[k] /\ specs'[k] = specs[k]
  PROVE  /\ owed(m) \in Nat /\ owed(m)' \in Nat /\ Total(owedTable) \in Nat
         /\ Total(owedTable)' = Total(owedTable) - owed(m) + owed(m)'
<1>1. (MarketsTyped => owedTable \in [Markets -> Nat])'
  BY RowsTyped, PTL
<1>2. owedTable \in [Markets -> Nat] /\ owedTable' \in [Markets -> Nat]
  BY <1>1, RowsTyped
<1>3. \A k \in Markets : owedTable[k] = owed(k) /\ owedTable'[k] = owed(k)'
  BY DEF owedTable
<1>4. \A k \in Markets \ {m} : owedTable'[k] = owedTable[k]
  BY <1>3 DEF owed
<1>5. Total(owedTable) \in Nat /\ Total(owedTable') = Total(owedTable) - owedTable[m] + owedTable'[m]
  BY <1>2, <1>4, RowChanged
<1>6. owed(m) \in Nat /\ owed(m)' \in Nat
  BY <1>2, <1>3
<1>7. Total(owedTable)' = Total(owedTable) - owed(m) + owed(m)'
  BY <1>3, <1>5
<1> QED
  BY <1>5, <1>6, <1>7

\* What an actor has staked changes with one market by that market alone.
LEMMA StakeRow ==
  ASSUME MarketsTyped, MarketsTyped', NEW a \in Actors, NEW m \in Markets,
         \A k \in Markets \ {m} : /\ states'[k] = states[k] /\ specs'[k] = specs[k]
                                  /\ optimisticStates'[k] = optimisticStates[k]
  PROVE  /\ stake(a, m) \in Nat /\ stake(a, m)' \in Nat /\ Total(stakeTable(a)) \in Nat
         /\ Total(stakeTable(a))' = Total(stakeTable(a)) - stake(a, m) + stake(a, m)'
<1>1. (MarketsTyped => /\ owedTable \in [Markets -> Nat]
                       /\ \A b \in Actors : stakeTable(b) \in [Markets -> Nat])'
  BY RowsTyped, PTL
<1>2. stakeTable(a) \in [Markets -> Nat] /\ stakeTable(a)' \in [Markets -> Nat]
  BY <1>1, RowsTyped
<1>3. \A k \in Markets : stakeTable(a)[k] = stake(a, k) /\ stakeTable(a)'[k] = stake(a, k)'
  BY DEF stakeTable
<1>4. \A k \in Markets \ {m} : stakeTable(a)'[k] = stakeTable(a)[k]
  BY <1>3 DEF stake
<1>5. /\ Total(stakeTable(a)) \in Nat
      /\ Total(stakeTable(a)') = Total(stakeTable(a)) - stakeTable(a)[m] + stakeTable(a)'[m]
  BY <1>2, <1>4, RowChanged
<1>6. stake(a, m) \in Nat /\ stake(a, m)' \in Nat
  BY <1>2, <1>3
<1>7. Total(stakeTable(a))' = Total(stakeTable(a)) - stake(a, m) + stake(a, m)'
  BY <1>3, <1>5
<1> QED
  BY <1>5, <1>6, <1>7

\* The calls about market m.
Call(m) ==
    \/ \E s \in Specs : createMarket(m, s)
    \/ \E a \in Actors, p \in PayoutVectors : proposeOutcome(a, m, p)
    \/ \E a \in Actors : disputeOutcome(a, m)
    \/ \E p \in PayoutVectors : resolveDispute(m, p)
    \/ \E a \in Actors, p \in PayoutVectors : finalizeOutcome(a, m, p)

\* A step is one call about one market, a gift, or leaves markets and money alone.
LEMMA CallOrNot == [Next]_vars => (\E m \in Markets : Call(m)) \/ Gift \/ UNCHANGED <<market, money, rest>>
<1> SUFFICES ASSUME [Next]_vars, ~ Gift, ~ UNCHANGED <<market, money, rest>>
             PROVE  \E m \in Markets : Call(m)
  OBVIOUS
<1>1. ~ (pause \/ unpause \/ Tick \/ UNCHANGED vars)
  BY DEF pause, unpause, Tick, vars
<1> QED
  BY <1>1 DEF Next, Call

\* A call about one market leaves the others alone.
LEMMA CallIsLocal ==
  ASSUME Types, NEW m \in Markets, Call(m)
  PROVE  \A k \in Markets \ {m} : /\ states'[k] = states[k] /\ specs'[k] = specs[k]
                                  /\ optimisticStates'[k] = optimisticStates[k]
<1> USE DEF Types, MarketsTyped, ClaimsTyped
<1>1. ASSUME NEW s \in Specs, createMarket(m, s)
      PROVE  \A k \in Markets \ {m} : /\ states'[k] = states[k] /\ specs'[k] = specs[k]
                                      /\ optimisticStates'[k] = optimisticStates[k]
  BY <1>1 DEF createMarket, record
<1>2. ASSUME NEW a \in Actors, NEW p \in PayoutVectors, proposeOutcome(a, m, p)
      PROVE  \A k \in Markets \ {m} : /\ states'[k] = states[k] /\ specs'[k] = specs[k]
                                      /\ optimisticStates'[k] = optimisticStates[k]
  BY <1>2 DEF proposeOutcome
<1>3. ASSUME NEW a \in Actors, disputeOutcome(a, m)
      PROVE  \A k \in Markets \ {m} : /\ states'[k] = states[k] /\ specs'[k] = specs[k]
                                      /\ optimisticStates'[k] = optimisticStates[k]
  BY <1>3 DEF disputeOutcome
<1>4. ASSUME NEW p \in PayoutVectors, resolveDispute(m, p) \/ \E a \in Actors : finalizeOutcome(a, m, p)
      PROVE  \A k \in Markets \ {m} : /\ states'[k] = states[k] /\ specs'[k] = specs[k]
                                      /\ optimisticStates'[k] = optimisticStates[k]
  BY <1>4 DEF resolveDispute, finalizeOutcome
<1> QED
  BY <1>1, <1>2, <1>3, <1>4 DEF Call

\* What m owes and what the pot holds move together, unless m is replaced under way.
LEMMA CallPays ==
  ASSUME Types, Types', NEW m \in Markets, Call(m), replaced' = {}
  PROVE  replaced = {} /\ gifts' = gifts /\ pot' - pot = owed(m)' - owed(m)
<1>0. states \in [Markets -> States] /\ specs[m].bondAmount \in Nat /\ pot \in Nat
  BY TermsTyped DEF Types, MarketsTyped, MoneyTyped
<1>1. ASSUME NEW s \in Specs, createMarket(m, s)
      PROVE  replaced = {} /\ gifts' = gifts /\ pot' - pot = owed(m)' - owed(m)
  <2>1. replaced = {} /\ states[m] = "OPEN" /\ states' = states /\ pot' = pot /\ gifts' = gifts
    BY <1>1 DEF createMarket, record, money
  <2> QED
    BY <1>0, <2>1 DEF owed
<1>2. ASSUME NEW a \in Actors, NEW p \in PayoutVectors, proposeOutcome(a, m, p)
      PROVE  replaced = {} /\ gifts' = gifts /\ pot' - pot = owed(m)' - owed(m)
  <2>1. pot' = pot + specs[m].bondAmount
    BY <1>0, <1>2, BondMoves DEF proposeOutcome, Types, rest
  <2> QED
    BY <1>0, <1>2, <2>1 DEF owed, proposeOutcome, rest
<1>3. ASSUME NEW a \in Actors, disputeOutcome(a, m)
      PROVE  replaced = {} /\ gifts' = gifts /\ pot' - pot = owed(m)' - owed(m)
  <2>1. pot' = pot + specs[m].bondAmount
    BY <1>0, <1>3, BondMoves DEF disputeOutcome, Types, rest
  <2> QED
    BY <1>0, <1>3, <2>1 DEF owed, disputeOutcome, rest
<1>4. ASSUME NEW p \in PayoutVectors, resolveDispute(m, p)
      PROVE  replaced = {} /\ gifts' = gifts /\ pot' - pot = owed(m)' - owed(m)
  <2>1. pot' = pot - 2 * specs[m].bondAmount
    BY <1>4 DEF resolveDispute, pay
  <2> QED
    BY <1>0, <1>4, <2>1 DEF owed, resolveDispute
<1>5. ASSUME NEW a \in Actors, NEW p \in PayoutVectors, finalizeOutcome(a, m, p)
      PROVE  replaced = {} /\ gifts' = gifts /\ pot' - pot = owed(m)' - owed(m)
  <2>1. pot' = pot - specs[m].bondAmount
    BY <1>5 DEF finalizeOutcome, pay
  <2> QED
    BY <1>0, <1>5, <2>1 DEF owed, finalizeOutcome
<1> QED
  BY <1>1, <1>2, <1>3, <1>4, <1>5 DEF Call

\* With no market there is no bond to hold.
LEMMA BackedInitially == Init => BondsBacked
<1> SUFFICES ASSUME Init PROVE pot = Total([m \in Markets |-> owed(m)]) + gifts
  BY DEF BondsBacked
<1>1. [m \in Markets |-> owed(m)] = [m \in Markets |-> 0]
  BY DEF Init, owed
<1> QED
  BY <1>1, TotalOfZeros DEF Init

\* What the pot (p) gains with one market (d, then e) the sum (t) gains, whatever else is in the pot (g).
LEMMA MovedTogether ==
  ASSUME NEW p \in Nat, NEW q \in Nat, NEW g \in Nat, NEW t \in Nat, NEW u \in Nat, NEW d \in Nat,
         NEW e \in Nat, p = t + g, q - p = e - d, u = t - d + e
  PROVE  q = u + g
OBVIOUS

\* No call parts the pot from the bonds it owes, unless it replaces a market under way; a gift is counted.
LEMMA BackedStep ==
  ASSUME Types, Types', [Next]_vars, BondsBacked
  PROVE  BondsBacked'
<1> SUFFICES ASSUME replaced' = {} PROVE pot' = Total(owedTable)' + gifts'
  BY DEF BondsBacked, owedTable
<1>0. pot \in Nat /\ pot' \in Nat /\ gifts \in Nat /\ Total(owedTable) \in Nat
  BY FiniteMarkets, UnitsFinite, RowsTyped DEF Types, MoneyTyped
<1>1. ASSUME NEW m \in Markets, Call(m) PROVE pot' = Total(owedTable)' + gifts'
  <2>1. replaced = {} /\ gifts' = gifts /\ pot' - pot = owed(m)' - owed(m)
    BY <1>1, CallPays
  <2>2. pot = Total(owedTable) + gifts
    BY <2>1 DEF BondsBacked, owedTable
  <2>3. /\ owed(m) \in Nat /\ owed(m)' \in Nat
        /\ Total(owedTable)' = Total(owedTable) - owed(m) + owed(m)'
    BY <1>1, CallIsLocal, OwedRow DEF Types
  <2>4. Total(owedTable)' \in Nat
    <3>1. (MarketsTyped => /\ owedTable \in [Markets -> Nat]
                           /\ \A b \in Actors : stakeTable(b) \in [Markets -> Nat])'
      BY RowsTyped, PTL
    <3>2. (owedTable \in [Markets -> Nat] => Total(owedTable) \in Nat)'
      BY FiniteMarkets, UnitsFinite
    <3> QED
      BY <3>1, <3>2 DEF Types
  <2> QED
    BY <1>0, <2>1, <2>2, <2>3, <2>4, MovedTogether
<1>2. CASE Gift \/ UNCHANGED <<market, money, rest>>
  <2>1. pot' - gifts' = pot - gifts /\ gifts' \in Nat /\ replaced = {} /\ owedTable' = owedTable
    BY <1>0, <1>2 DEF Gift, market, money, rest, owedTable, owed
  <2>2. pot = Total(owedTable) + gifts
    BY <2>1 DEF BondsBacked, owedTable
  <2> QED
    BY <1>0, <2>1, <2>2
<1> QED
  BY <1>1, <1>2, CallOrNot

\* The oracle holds exactly the bonds it owes and its gifts, until a market is replaced under way.
THEOREM BondsBackedHolds == Spec => []BondsBacked
<1>1. Types /\ BondsBacked /\ Types' /\ [Next]_vars => BondsBacked'
  BY BackedStep
<1> QED
  BY <1>1, BackedInitially, TypesHold, PTL DEF Spec

-----------------------------------------------------------------------------
\* Equity.  What leaves a purse as a bond is at stake in the market it was given for.

\* What a call about m gains an actor, the stakes in m counted.
gain(a, m) == purse'[a] - purse[a] + stake(a, m)' - stake(a, m)

\* The verdict on m moves one bond between its two sides.
Verdict(a, m) ==
    /\ states[m] = "DISPUTED" /\ states'[m] = "RESOLVED"
    /\ a \in {optimisticStates[m].proposer, optimisticStates[m].disputer}
    /\ gain(a, m) \in {specs[m].bondAmount, -specs[m].bondAmount}

\* What a call does to the equity of each actor: only a verdict moves any, by one bond, between its two sides.
LEMMA CallGains ==
  ASSUME Types, Types', NEW m \in Markets, Call(m), replaced' = {}, NEW a \in Actors
  PROVE  gain(a, m) = 0 \/ Verdict(a, m)
<1> DEFINE Goal == gain(a, m) = 0 \/ Verdict(a, m)
           n == specs[m].bondAmount
<1>0. /\ states \in [Markets -> States] /\ n \in Nat /\ purse \in [Actors -> Nat]
      /\ optimisticStates \in [Markets -> Claims]
  BY TermsTyped DEF Types, MarketsTyped, MoneyTyped, ClaimsTyped
<1>1. ASSUME NEW s \in Specs, createMarket(m, s) PROVE Goal
  <2>1. /\ states[m] = "OPEN" /\ states' = states /\ purse' = purse
        /\ stake(a, m) = 0 /\ stake(a, m)' = 0
    BY <1>1 DEF createMarket, record, money, stake
  <2> QED
    BY <1>0, <2>1 DEF gain
<1>2. ASSUME NEW b \in Actors, NEW p \in PayoutVectors, proposeOutcome(b, m, p) PROVE Goal
  <2>1. purse' = [purse EXCEPT ![b] = purse[b] - n]
    BY <1>0, <1>2, BondMoves DEF proposeOutcome, Types, rest
  <2>2. stake(a, m) = 0
    BY <1>2 DEF proposeOutcome, stake
  <2>3. optimisticStates'[m].proposer = b /\ states'[m] = "PROPOSED" /\ specs' = specs
    BY <1>0, <1>2 DEF proposeOutcome, Claims
  <2>4. stake(a, m)' = IF a = b THEN n ELSE 0
    BY <1>0, <2>3 DEF stake
  <2> QED
    BY <1>0, <2>1, <2>2, <2>4 DEF gain
<1>3. ASSUME NEW b \in Actors, disputeOutcome(b, m) PROVE Goal
  <2>1. purse' = [purse EXCEPT ![b] = purse[b] - n]
    BY <1>0, <1>3, BondMoves DEF disputeOutcome, Types, rest
  <2>2. stake(a, m) = IF optimisticStates[m].proposer = a THEN n ELSE 0
    BY <1>0, <1>3 DEF disputeOutcome, stake
  <2>3. /\ optimisticStates'[m].proposer = optimisticStates[m].proposer
        /\ optimisticStates'[m].disputer = b /\ states'[m] = "DISPUTED" /\ specs' = specs
    BY <1>0, <1>3 DEF disputeOutcome, Claims
  <2>4. stake(a, m)' = (IF optimisticStates[m].proposer = a THEN n ELSE 0) + (IF a = b THEN n ELSE 0)
    BY <1>0, <2>3 DEF stake
  <2> QED
    BY <1>0, <2>1, <2>2, <2>4 DEF gain
<1>4. ASSUME NEW p \in PayoutVectors, resolveDispute(m, p) PROVE Goal
  <2> DEFINE proposer == optimisticStates[m].proposer
             disputer == optimisticStates[m].disputer
  <2>1. /\ states[m] = "DISPUTED" /\ states'[m] = "RESOLVED"
        /\ proposer \in Actors /\ disputer \in Actors
    BY <1>0, <1>4 DEF resolveDispute, Types, ClaimsTyped
  <2>2. PICK w \in {proposer, disputer} : pay(w, 2 * n)
    BY <1>4 DEF resolveDispute
  <2>3. w \in Actors /\ purse' = [purse EXCEPT ![w] = purse[w] + 2 * n]
    BY <2>1, <2>2 DEF pay
  <2>4. /\ stake(a, m) = (IF proposer = a THEN n ELSE 0) + (IF disputer = a THEN n ELSE 0)
        /\ stake(a, m)' = 0
    BY <1>0, <2>1 DEF stake
  <2>5. purse'[a] - purse[a] = IF a = w THEN 2 * n ELSE 0
    BY <1>0, <2>3
  <2>6. gain(a, m) = purse'[a] - purse[a] - stake(a, m)
    BY <1>0, <2>3, <2>4 DEF gain
  <2>7. \/ gain(a, m) = 0
        \/ a \in {proposer, disputer} /\ gain(a, m) \in {n, -n}
    <3> HIDE DEF proposer, disputer, n
    <3> QED
      BY <1>0, <2>2, <2>4, <2>5, <2>6
  <2> QED
    BY <2>1, <2>7 DEF Verdict
<1>5. ASSUME NEW b \in Actors, NEW p \in PayoutVectors, finalizeOutcome(b, m, p) PROVE Goal
  <2> DEFINE proposer == optimisticStates[m].proposer
  <2>1. states[m] = "PROPOSED" /\ states'[m] = "RESOLVED" /\ proposer \in Actors
    BY <1>0, <1>5 DEF finalizeOutcome, Types, ClaimsTyped
  <2>2. purse' = [purse EXCEPT ![proposer] = purse[proposer] + n]
    BY <1>5 DEF finalizeOutcome, pay
  <2>3. stake(a, m) = (IF proposer = a THEN n ELSE 0) /\ stake(a, m)' = 0
    BY <1>0, <2>1 DEF stake
  <2> HIDE DEF proposer, n
  <2> QED
    BY <1>0, <2>1, <2>2, <2>3 DEF gain
<1> QED
  BY <1>1, <1>2, <1>3, <1>4, <1>5 DEF Call

\* The same of every step.
LEMMA EquityStep ==
  ASSUME Types, Types', [Next]_vars, NEW a \in Actors, replaced' = {}, equity(a)' # equity(a)
  PROVE  \E m \in Markets : /\ states[m] = "DISPUTED" /\ states'[m] = "RESOLVED"
                            /\ a \in {optimisticStates[m].proposer, optimisticStates[m].disputer}
                            /\ equity(a)' - equity(a) \in {specs[m].bondAmount, -specs[m].bondAmount}
<1>0. /\ equity(a) = purse[a] + Total(stakeTable(a)) /\ equity(a)' = purse'[a] + Total(stakeTable(a))'
      /\ purse[a] \in Nat /\ purse'[a] \in Nat
  BY DEF equity, stakeTable, Types, MoneyTyped
<1>1. PICK m \in Markets : Call(m)
  <2>1. ASSUME Gift \/ UNCHANGED <<market, money, rest>> PROVE FALSE
    <3>1. purse' = purse /\ stakeTable(a)' = stakeTable(a)
      BY <2>1 DEF Gift, market, money, stakeTable, stake
    <3> QED
      BY <1>0, <3>1
  <2> QED
    BY <2>1, CallOrNot
<1>2. /\ stake(a, m) \in Nat /\ stake(a, m)' \in Nat /\ Total(stakeTable(a)) \in Nat
      /\ Total(stakeTable(a))' = Total(stakeTable(a)) - stake(a, m) + stake(a, m)'
  BY <1>1, CallIsLocal, StakeRow DEF Types
<1>3. equity(a)' - equity(a) = gain(a, m) /\ equity(a)' = equity(a) + gain(a, m)
  BY <1>0, <1>2 DEF gain
<1>4. gain(a, m) = 0 \/ Verdict(a, m)
  BY <1>1, CallGains
<1>5. equity(a) + 0 = equity(a)
  BY <1>0, <1>2
<1>6. Verdict(a, m)
  BY <1>3, <1>4, <1>5
<1> QED
  BY <1>3, <1>6 DEF Verdict

\* Money moves only by a verdict, until a market is replaced under way.
THEOREM OnlyVerdictsMove == Spec => OnlyVerdictsMoveMoney
<1>1. ASSUME Types, Types', [Next]_vars
      PROVE  [\A a \in Actors : replaced' = {} /\ equity(a)' # equity(a) =>
                \E m \in Markets : /\ states[m] = "DISPUTED" /\ states'[m] = "RESOLVED"
                                   /\ a \in {optimisticStates[m].proposer, optimisticStates[m].disputer}
                                   /\ equity(a)' - equity(a) \in {specs[m].bondAmount, -specs[m].bondAmount}]_vars
  BY <1>1, EquityStep
<1> QED
  BY <1>1, TypesHold, PTL DEF Spec, OnlyVerdictsMoveMoney

-----------------------------------------------------------------------------
\* The window.

\* How a proposal may end, by the time it is.
EndsByTheClock(m) ==
    states[m] = "PROPOSED" /\ states'[m] # "PROPOSED" =>
        states'[m] = (IF now - optimisticStates[m].proposeTime <= specs[m].disputeWindow
                        THEN "DISPUTED" ELSE "RESOLVED")

\* A proposal ends as a dispute while its window is open and as a resolution once it has passed, in
\* whatever order dispute and finalization are called: the windows of the two do not overlap.
THEOREM WindowEnds == Spec => [][\A m \in Markets : EndsByTheClock(m)]_vars
<1>1. ASSUME Types, Types', [Next]_vars, NEW m \in Markets PROVE EndsByTheClock(m)
  <2> SUFFICES ASSUME states[m] = "PROPOSED", states'[m] # "PROPOSED"
               PROVE  states'[m] = (IF now - optimisticStates[m].proposeTime <= specs[m].disputeWindow
                                      THEN "DISPUTED" ELSE "RESOLVED")
    BY DEF EndsByTheClock
  <2>0. /\ states \in [Markets -> States] /\ now \in Nat /\ optimisticStates[m].proposeTime \in Nat
        /\ specs[m].disputeWindow \in Nat
    BY <1>1, TermsTyped DEF Types, MarketsTyped, ClaimsTyped, Claims
  <2>1. Call(m)
    <3>1. PICK k \in Markets : Call(k)
      BY <1>1, CallOrNot DEF Gift, market
    <3>2. k = m
      BY <1>1, <3>1, CallIsLocal
    <3> QED
      BY <3>1, <3>2
  <2>2. CASE \E a \in Actors : disputeOutcome(a, m)
    BY <2>0, <2>2 DEF disputeOutcome, windowEnd
  <2>3. CASE \E a \in Actors, p \in PayoutVectors : finalizeOutcome(a, m, p)
    BY <2>0, <2>3 DEF finalizeOutcome, windowEnd
  <2>4. ASSUME \/ \E s \in Specs : createMarket(m, s)
               \/ \E a \in Actors, p \in PayoutVectors : proposeOutcome(a, m, p)
               \/ \E p \in PayoutVectors : resolveDispute(m, p)
        PROVE  FALSE
    BY <2>4 DEF createMarket, proposeOutcome, resolveDispute
  <2> QED
    BY <2>1, <2>2, <2>3, <2>4 DEF Call
<1>2. ASSUME Types, Types', [Next]_vars PROVE [\A m \in Markets : EndsByTheClock(m)]_vars
  BY <1>1, <1>2
<1> QED
  BY <1>2, TypesHold, PTL DEF Spec

-----------------------------------------------------------------------------
\* Reports.

\* Until a market is replaced under way: the condition of a created market is prepared and its own, a
\* market that has left OPEN was created, and what was proposed for it has a payout for each outcome.
Own ==
    replaced = {} =>
        /\ \A m \in Markets : specs[m] # ZeroSpec => condition(specs[m]) \in prepared
        /\ \A m, k \in Markets : m # k /\ specs[m] # ZeroSpec /\ specs[k] # ZeroSpec =>
                                    condition(specs[m]) # condition(specs[k])
        /\ \A m \in Markets : states[m] # "OPEN" => specs[m] # ZeroSpec
        /\ \A m \in Markets : states[m] = "PROPOSED" =>
              Len(optimisticStates[m].proposedPayouts) = specs[m].outcomeSlotCount

Reports == Own /\ ResolvedIsReported

\* No market is resolved and no condition reported at first.
LEMMA ReportsInitially == Init => Reports
BY DEF Init, Reports, Own, ResolvedIsReported

\* A creation keeps resolved markets and reported conditions together: its condition is new, and was never reported.
LEMMA CreateReports ==
  ASSUME Types, Reports, replaced' = {}, NEW m \in Markets, NEW s \in Specs, createMarket(m, s)
  PROVE  Reports'
<1>1. /\ replaced = {} /\ states[m] = "OPEN" /\ UNCHANGED <<states, optimisticStates, reported>>
      /\ condition(s) \notin prepared /\ prepared' = prepared \cup {condition(s)}
      /\ specs' = [specs EXCEPT ![m] = s]
  BY DEF createMarket, record
<1>2. specs \in [Markets -> Specs \cup {ZeroSpec}] /\ DOMAIN reported \subseteq prepared
  BY DEF Types, MarketsTyped
<1>3. \A k \in Markets : specs'[k] = IF k = m THEN s ELSE specs[k]
  BY <1>1, <1>2
<1>4. Own'
  <2>1. \A k \in Markets : specs'[k] # ZeroSpec => condition(specs'[k]) \in prepared'
    BY <1>1, <1>3 DEF Reports, Own
  <2>2. \A j, k \in Markets : j # k /\ specs'[j] # ZeroSpec /\ specs'[k] # ZeroSpec =>
                                 condition(specs'[j]) # condition(specs'[k])
    BY <1>1, <1>3 DEF Reports, Own
  <2>3. \A k \in Markets : states'[k] # "OPEN" => specs'[k] # ZeroSpec
    BY <1>1, <1>3 DEF Reports, Own
  <2>4. \A k \in Markets : states'[k] = "PROPOSED" =>
           Len(optimisticStates'[k].proposedPayouts) = specs'[k].outcomeSlotCount
    BY <1>1, <1>3 DEF Reports, Own
  <2> QED
    BY <2>1, <2>2, <2>3, <2>4 DEF Own, condition
<1>5. ResolvedIsReported'
  <2>1. ASSUME NEW k \in Markets, specs'[k] # ZeroSpec
        PROVE  states'[k] = "RESOLVED" <=> condition(specs'[k]) \in DOMAIN reported'
    <3>1. CASE k = m
      BY <1>1, <1>2, <1>3, <3>1
    <3>2. CASE k # m
      BY <1>1, <1>3, <2>1, <3>2 DEF Reports, ResolvedIsReported
    <3> QED
      BY <3>1, <3>2
  <2> QED
    BY <2>1 DEF ResolvedIsReported, condition
<1> QED
  BY <1>4, <1>5 DEF Reports

\* A proposal keeps them together.
LEMMA ProposeReports ==
  ASSUME Types, Reports, replaced' = {}, NEW a \in Actors, NEW m \in Markets, NEW p \in PayoutVectors,
         proposeOutcome(a, m, p)
  PROVE  Reports'
<1>1. /\ replaced = {} /\ UNCHANGED <<specs, prepared, reported>> /\ states[m] = "OPEN"
      /\ states' = [states EXCEPT ![m] = "PROPOSED"]
      /\ Len(p) = specs[m].outcomeSlotCount /\ \E i \in DOMAIN p : p[i] # 0
  BY DEF proposeOutcome, rest, validPayouts
<1>2. states \in [Markets -> States] /\ optimisticStates \in [Markets -> Claims] /\ p \in Seq(Nat)
  BY PayoutsTyped DEF Types, MarketsTyped, ClaimsTyped
<1>3. specs[m] # ZeroSpec
  <2>1. Len(p) # 0
    BY <1>1, <1>2
  <2> QED
    BY <1>1, <2>1 DEF ZeroSpec
<1>4. optimisticStates'[m].proposedPayouts = p
  BY <1>2 DEF proposeOutcome, Claims
<1>5. \A k \in Markets : states'[k] = IF k = m THEN "PROPOSED" ELSE states[k]
  BY <1>1, <1>2
<1>6. \A k \in Markets \ {m} : optimisticStates'[k] = optimisticStates[k]
  BY <1>2 DEF proposeOutcome
<1>7. Own'
  <2>1. \A k \in Markets : states'[k] # "OPEN" => specs[k] # ZeroSpec
    BY <1>1, <1>3, <1>5 DEF Reports, Own
  <2>2. \A k \in Markets : states'[k] = "PROPOSED" =>
           Len(optimisticStates'[k].proposedPayouts) = specs[k].outcomeSlotCount
    BY <1>1, <1>4, <1>5, <1>6 DEF Reports, Own
  <2> QED
    BY <1>1, <2>1, <2>2 DEF Reports, Own, condition
<1>8. ResolvedIsReported'
  BY <1>1, <1>3, <1>5 DEF Reports, ResolvedIsReported, condition
<1> QED
  BY <1>7, <1>8 DEF Reports

\* A dispute keeps them together.
LEMMA DisputeReports ==
  ASSUME Types, Reports, replaced' = {}, NEW a \in Actors, NEW m \in Markets, disputeOutcome(a, m)
  PROVE  Reports'
<1>1. /\ replaced = {} /\ UNCHANGED <<specs, prepared, reported>> /\ states[m] = "PROPOSED"
      /\ states' = [states EXCEPT ![m] = "DISPUTED"]
  BY DEF disputeOutcome, rest
<1>2. states \in [Markets -> States] /\ optimisticStates \in [Markets -> Claims]
  BY DEF Types, MarketsTyped, ClaimsTyped
<1>3. \A k \in Markets : states'[k] = IF k = m THEN "DISPUTED" ELSE states[k]
  BY <1>1, <1>2
<1>4. \A k \in Markets \ {m} : optimisticStates'[k] = optimisticStates[k]
  BY <1>2 DEF disputeOutcome
<1>5. Own'
  <2>1. \A k \in Markets : states'[k] # "OPEN" => specs[k] # ZeroSpec
    BY <1>1, <1>3 DEF Reports, Own
  <2>2. \A k \in Markets : states'[k] = "PROPOSED" =>
           Len(optimisticStates'[k].proposedPayouts) = specs[k].outcomeSlotCount
    BY <1>1, <1>3, <1>4 DEF Reports, Own
  <2> QED
    BY <1>1, <2>1, <2>2 DEF Reports, Own, condition
<1>6. ResolvedIsReported'
  BY <1>1, <1>3 DEF Reports, ResolvedIsReported, condition
<1> QED
  BY <1>5, <1>6 DEF Reports

\* Either way a market is resolved its own condition is reported, and no other market's.
LEMMA ResolveReports ==
  ASSUME Types, Reports, replaced' = {}, NEW m \in Markets, NEW p \in PayoutVectors,
         resolveDispute(m, p) \/ \E a \in Actors : finalizeOutcome(a, m, p)
  PROVE  Reports'
<1>1. /\ replaced = {} /\ UNCHANGED <<specs, optimisticStates, prepared>> /\ states[m] # "OPEN"
      /\ states' = [states EXCEPT ![m] = "RESOLVED"] /\ reportPayouts(specs[m], p)
  BY DEF resolveDispute, finalizeOutcome
<1>2. states \in [Markets -> States]
  BY DEF Types, MarketsTyped
<1>3. Len(p) = specs[m].outcomeSlotCount
  <2>1. CASE resolveDispute(m, p)
    BY <2>1 DEF resolveDispute, validPayouts
  <2>2. CASE \E a \in Actors : finalizeOutcome(a, m, p)
    BY <1>1, <2>2 DEF finalizeOutcome, Reports, Own
  <2> QED
    BY <2>1, <2>2
<1>4. condition(specs[m]) = <<specs[m].questionId, Len(p)>>
  BY <1>3 DEF condition
<1>5. DOMAIN reported' = DOMAIN reported \cup {condition(specs[m])}
  BY <1>1, <1>4, ReportAdds
<1>6. \A k \in Markets : states'[k] = IF k = m THEN "RESOLVED" ELSE states[k]
  BY <1>1, <1>2
<1>7. specs[m] # ZeroSpec
  BY <1>1 DEF Reports, Own
<1>8. Own'
  <2>1. \A k \in Markets : states'[k] # "OPEN" => specs[k] # ZeroSpec
    BY <1>1, <1>6, <1>7 DEF Reports, Own
  <2>2. \A k \in Markets : states'[k] = "PROPOSED" =>
           Len(optimisticStates'[k].proposedPayouts) = specs[k].outcomeSlotCount
    BY <1>1, <1>6 DEF Reports, Own
  <2> QED
    BY <1>1, <2>1, <2>2 DEF Reports, Own, condition
<1>9. ResolvedIsReported'
  <2>1. ASSUME NEW k \in Markets, specs[k] # ZeroSpec
        PROVE  states'[k] = "RESOLVED" <=> condition(specs[k]) \in DOMAIN reported'
    <3>1. CASE k = m
      BY <1>5, <1>6, <3>1
    <3>2. CASE k # m
      <4>1. condition(specs[k]) # condition(specs[m])
        BY <1>1, <1>7, <2>1, <3>2 DEF Reports, Own
      <4>2. states[k] = "RESOLVED" <=> condition(specs[k]) \in DOMAIN reported
        BY <1>1, <2>1 DEF Reports, ResolvedIsReported
      <4> QED
        BY <1>5, <1>6, <3>2, <4>1, <4>2
    <3> QED
      BY <3>1, <3>2
  <2> QED
    BY <1>1, <2>1 DEF ResolvedIsReported, condition
<1> QED
  BY <1>8, <1>9 DEF Reports

\* No call parts resolved markets from reported conditions, unless it replaces a market under way.
LEMMA ReportsStep ==
  ASSUME Types, [Next]_vars, Reports
  PROVE  Reports'
<1>1. CASE replaced' # {}
  BY <1>1 DEF Reports, Own, ResolvedIsReported
<1>2. CASE replaced' = {}
  <2>1. CASE \E m \in Markets : Call(m)
    BY <1>2, <2>1, CreateReports, ProposeReports, DisputeReports, ResolveReports DEF Call
  <2>2. CASE Gift \/ UNCHANGED <<market, money, rest>>
    BY <2>2 DEF Gift, market, rest, Reports, Own, ResolvedIsReported, condition
  <2> QED
    BY <2>1, <2>2, CallOrNot
<1> QED
  BY <1>1, <1>2

\* The same of every state a behaviour reaches.
LEMMA ReportsHold == Spec => []Reports
<1>1. Types /\ Reports /\ [Next]_vars => Reports'
  BY ReportsStep
<1> QED
  BY <1>1, ReportsInitially, TypesHold, PTL DEF Spec

\* A market is resolved exactly when its condition is reported, until one is replaced under way.
THEOREM ResolvedIsReportedHolds == Spec => []ResolvedIsReported
<1>1. Reports => ResolvedIsReported
  BY DEF Reports
<1> QED
  BY <1>1, ReportsHold, PTL

\* What finalizing m asks for besides its window: the payouts proposed can still be reported, and the pot
\* has the bond to give back.
CanBeClosed(m) ==
    /\ <<specs[m].questionId, Len(optimisticStates[m].proposedPayouts)>> \in prepared \ DOMAIN reported
    /\ specs[m].bondAmount <= pot

\* Nothing locks a bond in: whatever was created, reported and paid in the other markets, the report and
\* the payment that finalizing a proposal makes (Oracle.sol:146-148) cannot be refused, until a market is
\* replaced under way.
THEOREM NothingLocksABond ==
  Spec => [](replaced = {} => \A m \in Markets : states[m] = "PROPOSED" => CanBeClosed(m))
<1>1. ASSUME Types, Reports, BondsBacked, replaced = {}, NEW m \in Markets, states[m] = "PROPOSED"
      PROVE  CanBeClosed(m)
  <2>1. /\ specs[m] # ZeroSpec /\ condition(specs[m]) \in prepared
        /\ Len(optimisticStates[m].proposedPayouts) = specs[m].outcomeSlotCount
    BY <1>1 DEF Reports, Own
  <2>2. condition(specs[m]) \notin DOMAIN reported
    BY <1>1, <2>1 DEF Reports, ResolvedIsReported
  <2>3. owedTable \in [Markets -> Nat] /\ owedTable[m] = specs[m].bondAmount
    BY <1>1, RowsTyped DEF Types, owedTable, owed
  <2>4. owedTable[m] <= Total(owedTable) /\ Total(owedTable) \in Nat
    BY <2>3, FiniteMarkets, AmountWithinTotal, UnitsFinite
  <2>5. pot = Total(owedTable) + gifts /\ gifts \in Nat
    BY <1>1 DEF BondsBacked, owedTable, Types, MoneyTyped
  <2>6. specs[m].bondAmount <= pot
    <3> DEFINE t == Total(owedTable)
               n == owedTable[m]
    <3>1. n \in Nat /\ t \in Nat /\ n <= t /\ pot = t + gifts
      BY <2>3, <2>4, <2>5
    <3> HIDE DEF t, n
    <3>2. n <= pot
      BY <2>5, <3>1
    <3> QED
      BY <2>3, <3>2 DEF n
  <2> QED
    BY <2>1, <2>2, <2>6 DEF CanBeClosed, condition
<1>2. Types /\ Reports /\ BondsBacked =>
        (replaced = {} => \A m \in Markets : states[m] = "PROPOSED" => CanBeClosed(m))
  BY <1>1
<1> QED
  BY <1>2, TypesHold, ReportsHold, BondsBackedHolds, PTL

=============================================================================
