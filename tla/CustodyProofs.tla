--------------------------- MODULE CustodyProofs ----------------------------
(***************************************************************************)
(* Custody.tla implements Vault.tla, so it inherits the vault's solvency,  *)
(* for every finite set of accounts, every set of delta arrays, every      *)
(* threshold range and every transfer fee.                                 *)
(*                                                                         *)
(* Order of the argument: the types are inductive, and what each           *)
(* transaction does to the balances and to the contract's tokens is a step *)
(* of the vault (both in Step); the rest follows from VaultProofs.         *)
(***************************************************************************)
EXTENDS Custody, LedgerLemmas

VP == INSTANCE VaultProofs WITH claims <- balances, pool <- held

-----------------------------------------------------------------------------
\* A transfer into the contract never lowers the tokens it holds.
LEMMA TransferInEffect ==
  ASSUME TypeOK, NEW amount \in Nat, TransferIn(amount)
  PROVE  held' \in Nat /\ held' >= held
BY DEF TransferIn, Delivered, TypeOK

\* A transfer out of the contract, to anyone or to itself, lowers its tokens by at most the amount.
LEMMA TransferOutEffect ==
  ASSUME TypeOK, NEW to, NEW amount \in Nat, TransferOut(to, amount)
  PROVE  held' \in Nat /\ held' \in (held - amount)..held
BY DEF TransferOut, Delivered, TypeOK

\* Paying an account out redeems its claim.
LEMMA DebitAndPay ==
  ASSUME TypeOK, NEW account \in Accounts, NEW to, NEW amount \in Nat \ {0},
         debitAndPay(account, to, amount)
  PROVE  /\ held' \in Nat
         /\ balances' \in [Accounts -> Nat]
         /\ VP!Redeem(account)
<1>1. balances \in [Accounts -> Nat] /\ balances[account] \in Nat /\ balances[account] >= amount
  BY DEF TypeOK, debitAndPay
<1>2. balances' = [balances EXCEPT ![account] = @ - amount]
  BY DEF debitAndPay
<1>3. TransferOut(to, amount)
  BY DEF debitAndPay
<1>4. held' \in Nat /\ held' \in (held - amount)..held
  BY <1>3, TransferOutEffect
<1>5. amount \in 1..balances[account]
  BY <1>1
<1>6. VP!Redeem(account)
  BY <1>2, <1>4, <1>5 DEF VP!Redeem
<1>7. balances[account] - amount \in Nat
  BY <1>1
<1> QED
  BY <1>1, <1>2, <1>4, <1>6, <1>7

\* A settlement redistributes claims.
LEMMA Settlement ==
  ASSUME TypeOK, NEW caller, NEW b, NEW deltas \in DeltaLists, applyNetDeltas(caller, b, deltas)
  PROVE  /\ balances' \in [Accounts -> Nat]
         /\ VP!Redistribute
<1>1. balances \in [Accounts -> Nat] /\ deltas \in Seq(Delta(Accounts))
  BY DeltasTyped DEF TypeOK
<1>2. /\ balances' = Outcome(balances, deltas).table
      /\ Outcome(balances, deltas).net = 0
      /\ ~ Overdraws(balances, deltas)
      /\ held' = held
  BY DEF applyNetDeltas
<1>3. balances' \in [Accounts -> Nat] /\ Total(balances') = Total(balances)
  BY <1>1, <1>2, FiniteAccounts, ConservingOutcome
<1>4. VP!Total(balances') = Total(balances') /\ VP!Total(balances) = Total(balances)
  BY DEF VP!Total, Total, VP!Units, Units, VP!Cardinality, Cardinality, VP!IsFiniteSet, IsFiniteSet
<1> QED
  BY <1>2, <1>3, <1>4 DEF VP!Redistribute

-----------------------------------------------------------------------------
\* The type invariant is inductive, and every transaction is a step of the vault or leaves it alone.
LEMMA Step ==
  ASSUME TypeOK, [Next]_custodyVars
  PROVE  TypeOK' /\ [VP!Next]_VP!vars
<1> DEFINE Goal == TypeOK' /\ [VP!Next]_VP!vars
<1>1. ASSUME NEW a \in Accounts, NEW amount \in Amounts, deposit(a, amount) PROVE Goal
  <2>1. /\ TransferIn(amount)
        /\ held' - held # 0
        /\ balances' = [balances EXCEPT ![a] = @ + (held' - held)]
    BY <1>1 DEF deposit
  <2>2. held' \in Nat /\ held' >= held
    BY <2>1, AmountsTyped, TransferInEffect
  <2>3. held \in Nat /\ balances \in [Accounts -> Nat]
    BY DEF TypeOK
  <2>4. VP!Fund(a)
    <3>1. held' # held
      BY <2>1, <2>3
    <3>2. held' > held
      BY <2>2, <2>3, <3>1
    <3> QED BY <2>1, <2>2, <3>2 DEF VP!Fund
  <2>5. balances' \in [Accounts -> Nat]
    BY <2>1, <2>2, <2>3
  <2>6. TypeOK'
    BY <1>1, <2>2, <2>5 DEF deposit, TypeOK, liveness
  <2> QED BY <2>4, <2>6 DEF VP!Next
<1>2. ASSUME NEW a \in Accounts, NEW auth \in Authorization, withdraw(a, auth) PROVE Goal
  <2>1. auth.amount \in Nat \ {0}
    BY <1>2, AmountsTyped DEF withdraw, Authorization
  <2>2. /\ held' \in Nat
        /\ balances' \in [Accounts -> Nat]
        /\ VP!Redeem(a)
    BY <1>2, <2>1, DebitAndPay DEF withdraw
  <2>3. TypeOK'
    <3>1. withdrawalNonce' \in [Accounts -> Nat]
      BY <1>2 DEF withdraw, TypeOK
    <3>2. UNCHANGED <<now, paused, lastOperatorActivity, operatorInactivityThreshold, appliedBatches>>
      BY <1>2 DEF withdraw, liveness
    <3> QED BY <2>2, <3>1, <3>2 DEF TypeOK
  <2> QED BY <2>2, <2>3 DEF VP!Next
<1>3. ASSUME NEW a \in Accounts, NEW to \in Accounts \cup {This}, executeForcedWithdrawal(a, to) PROVE Goal
  <2>1. balances[a] \in Nat \ {0} /\ debitAndPay(a, to, balances[a])
    BY <1>3 DEF executeForcedWithdrawal, TypeOK
  <2>2. /\ held' \in Nat
        /\ balances' \in [Accounts -> Nat]
        /\ VP!Redeem(a)
    BY <2>1, DebitAndPay
  <2>3. TypeOK'
    BY <1>3, <2>2 DEF executeForcedWithdrawal, TypeOK, liveness
  <2> QED BY <2>2, <2>3 DEF VP!Next
<1>4. ASSUME NEW a \in Accounts, NEW b \in BatchIds, NEW deltas \in DeltaLists,
             applyNetDeltas(a, b, deltas)
      PROVE  Goal
  <2>1. balances' \in [Accounts -> Nat] /\ VP!Redistribute
    BY <1>4, Settlement
  <2>2. TypeOK'
    BY <1>4, <2>1 DEF applyNetDeltas, recordOperatorActivity, TypeOK
  <2> QED BY <2>1, <2>2 DEF VP!Next
<1>5. ASSUME NEW amount \in Amounts, Donate(amount) PROVE Goal
  <2>1. held' \in Nat /\ held' >= held
    BY <1>5, AmountsTyped, TransferInEffect DEF Donate
  <2>2. VP!Gift
    BY <1>5, <2>1 DEF Donate, VP!Gift
  <2>3. TypeOK'
    BY <1>5, <2>1 DEF Donate, TypeOK, liveness
  <2> QED BY <2>2, <2>3 DEF VP!Next
<1>6. ASSUME NEW a \in Accounts, heartbeat(a) PROVE Goal
  BY <1>6 DEF heartbeat, recordOperatorActivity, funds, TypeOK, VP!vars
<1>7. CASE pause
  BY <1>7 DEF pause, funds, liveness, TypeOK, VP!vars
<1>8. CASE unpause
  BY <1>8 DEF unpause, funds, liveness, TypeOK, VP!vars
<1>9. ASSUME NEW t \in 0..(MaxThreshold + 1), setOperatorInactivityThreshold(t) PROVE Goal
  BY <1>9, ThresholdBounds DEF setOperatorInactivityThreshold, funds, TypeOK, VP!vars
<1>10. CASE Tick
  BY <1>10 DEF Tick, funds, liveness, TypeOK, VP!vars
<1>11. CASE UNCHANGED custodyVars
  BY <1>11 DEF custodyVars, TypeOK, VP!vars
<1> QED
  BY <1>1, <1>2, <1>3, <1>4, <1>5, <1>6, <1>7, <1>8, <1>9, <1>10, <1>11
     DEF Next, UserCall, SettlementCall, AdminCall

\* The contract starts as an empty vault.
LEMMA Initially == Init => TypeOK /\ VP!Init
<1> SUFFICES ASSUME Init PROVE TypeOK /\ VP!Init
  OBVIOUS
<1>1. held = 0
  BY DEF Init
<1>2. TypeOK
  <2>1. balances \in [Accounts -> Nat] /\ withdrawalNonce \in [Accounts -> Nat]
    BY DEF Init
  <2>2. now = 0 /\ paused = FALSE /\ lastOperatorActivity = 0 /\ appliedBatches = {}
    BY DEF Init
  <2>3. now \in Nat /\ lastOperatorActivity \in 0..now
    BY <2>2
  <2>4. paused \in BOOLEAN /\ appliedBatches \subseteq BatchIds
    BY <2>2
  <2>5. operatorInactivityThreshold \in MinThreshold..MaxThreshold
    BY DEF Init
  <2> QED BY <1>1, <2>1, <2>3, <2>4, <2>5 DEF TypeOK
<1>3. VP!Init
  BY <1>1 DEF Init, VP!Init
<1> QED
  BY <1>2, <1>3

\* Every reachable state is well typed: in particular no balance is ever negative, and the liveness
\* clock never runs ahead of block time.
THEOREM TypeCorrect == Spec => []TypeOK
<1>1. TypeOK /\ [Next]_custodyVars => TypeOK'
  BY Step
<1> QED
  BY <1>1, Initially, PTL DEF Spec

\* Custody implements the vault: the sequence of balances and token holdings of any behaviour of the
\* contract is a behaviour of Vault.tla.
LEMMA ImplementsVP == Spec => VP!Spec
<1>1. TypeOK /\ [Next]_custodyVars => [VP!Next]_VP!vars
  BY Step
<1> QED
  BY <1>1, TypeCorrect, Initially, PTL DEF Spec, VP!Spec

\* The contract always holds the tokens for every balance it has credited.
THEOREM SolvencyHolds == Spec => []Solvency
<1>1. VP!IInv => Solvency
  BY DEF VP!IInv, VP!Solvent, Solvency, VP!Total, Total, VP!Units, Units,
         VP!Cardinality, Cardinality, VP!IsFiniteSet, IsFiniteSet
<1>2. VP!IsFiniteSet(Accounts)
  BY FiniteAccounts DEF VP!IsFiniteSet, IsFiniteSet
<1>3. VP!Spec => []VP!IInv
  BY <1>2, VP!VaultSolvent, PTL
<1> QED
  BY <1>1, <1>3, ImplementsVP, PTL

\* The refinement that the runs check, as a theorem: it is VP!Spec under another instance's name.
THEOREM CustodyImplementsVault == Spec => ImplementsVault
<1> USE DEF V!Total, VP!Total, V!Units, VP!Units, V!Cardinality, VP!Cardinality,
            V!IsFiniteSet, VP!IsFiniteSet
<1>1. VP!Init => V!Init
  BY DEF VP!Init, V!Init
<1>2. [VP!Next]_VP!vars => [V!Next]_V!vars
  BY DEF VP!Next, V!Next, VP!vars, V!vars, VP!Fund, V!Fund, VP!Redeem, V!Redeem,
         VP!Redistribute, V!Redistribute, VP!Gift, V!Gift
<1>3. VP!Spec => V!Spec
  BY <1>1, <1>2, PTL DEF VP!Spec, V!Spec
<1> QED
  BY <1>3, ImplementsVP, PTL DEF ImplementsVault

\* No transaction pays out more than it debits.
THEOREM SurplusHolds == Spec => SurplusNeverShrinks
<1>1. VP!IsFiniteSet(Accounts)
  BY FiniteAccounts DEF VP!IsFiniteSet, IsFiniteSet
<1>2. VP!Spec => VP!SurplusNeverShrinks
  BY <1>1, VP!VaultSurplus, PTL
<1>3. [held' - VP!Total(balances') >= held - VP!Total(balances)]_VP!vars
        => [held' - V!Total(balances') >= held - V!Total(balances)]_V!vars
  BY DEF VP!vars, V!vars, V!Total, VP!Total, V!Units, VP!Units, V!Cardinality, VP!Cardinality,
         V!IsFiniteSet, VP!IsFiniteSet
<1>4. VP!SurplusNeverShrinks => V!SurplusNeverShrinks
  BY <1>3, PTL DEF VP!SurplusNeverShrinks, V!SurplusNeverShrinks
<1> QED
  BY <1>2, <1>4, ImplementsVP, PTL DEF SurplusNeverShrinks

\* A pause freezes the liveness clock: only a settlement and a heartbeat move it, and both are refused.
THEOREM PauseStopsTheClockHolds == Spec => PauseStopsTheClock
<1>1. [Next]_custodyVars => [paused => lastOperatorActivity' = lastOperatorActivity]_custodyVars
  <2> SUFFICES ASSUME Next, paused PROVE lastOperatorActivity' = lastOperatorActivity
    BY DEF custodyVars
  <2> QED BY DEF Next, UserCall, SettlementCall, AdminCall, deposit, withdraw, executeForcedWithdrawal,
                 applyNetDeltas, heartbeat, pause, unpause, setOperatorInactivityThreshold, Tick, Donate,
                 liveness
<1> QED
  BY <1>1, PTL DEF Spec, PauseStopsTheClock

\* Only a deposit and a settlement credit anyone: the one brings the tokens with it, the other applies a
\* batch that was not applied before.
THEOREM CreditsAreFreshHolds == Spec => CreditsAreFresh
<1> DEFINE Fresh == \/ held' - held = Total(balances') - Total(balances) /\ held' # held
                    \/ \E b \in BatchIds \ appliedBatches : b \in appliedBatches'
<1>1. TypeOK /\ [Next]_custodyVars => [(\E a \in Accounts : balances'[a] > balances[a]) => Fresh]_custodyVars
  <2> SUFFICES ASSUME TypeOK, Next, NEW a \in Accounts, balances'[a] > balances[a]
               PROVE  Fresh
    BY DEF custodyVars
  <2>0. held \in Nat /\ balances \in [Accounts -> Nat]
    BY DEF TypeOK
  <2>1. ASSUME NEW c \in Accounts, NEW amount \in Amounts, deposit(c, amount)
        PROVE  Fresh
    <3>1. PICK received \in Delivered(amount) : held' = held + received
      BY <2>1 DEF deposit, TransferIn
    <3>2. received \in Nat
      BY AmountsTyped DEF Delivered
    <3>3. held' # held /\ balances' = [balances EXCEPT ![c] = balances[c] + received]
      BY <2>0, <2>1, <3>1, <3>2 DEF deposit
    <3>4. Total(balances') = Total(balances) - balances[c] + (balances[c] + received)
      <4> DEFINE n == balances[c] + received
      <4>1. n \in Nat /\ balances' = [balances EXCEPT ![c] = n]
        BY <2>0, <3>2, <3>3
      <4> HIDE DEF n
      <4>2. Total([balances EXCEPT ![c] = n]) = Total(balances) - balances[c] + n
        BY <2>0, <4>1, FiniteAccounts, TotalUpdate
      <4> QED BY <4>1, <4>2 DEF n
    <3>5. Total(balances) \in Nat /\ balances[c] \in Nat
      BY <2>0, FiniteAccounts, UnitsFinite
    <3> QED BY <2>0, <3>1, <3>2, <3>3, <3>4, <3>5
  <2>2. ASSUME NEW c, NEW to, NEW amount \in Nat, debitAndPay(c, to, amount)
        PROVE  FALSE
    <3>1. balances' = [balances EXCEPT ![c] = balances[c] - amount]
      BY <2>2 DEF debitAndPay
    <3>2. balances'[a] = IF a = c THEN balances[a] - amount ELSE balances[a]
      BY <2>0, <3>1
    <3> QED BY <2>0, <3>2
  <2>3. ASSUME NEW c \in Accounts, NEW auth \in Authorization, withdraw(c, auth)
        PROVE  Fresh
    <3>1. auth.amount \in Nat
      BY AmountsTyped DEF Authorization
    <3> QED BY <2>2, <2>3, <3>1 DEF withdraw
  <2>4. ASSUME NEW c \in Accounts, NEW to, executeForcedWithdrawal(c, to)
        PROVE  Fresh
    <3>1. balances[c] \in Nat
      BY <2>0
    <3> QED BY <2>2, <2>4, <3>1 DEF executeForcedWithdrawal
  <2>5. ASSUME NEW c, NEW b \in BatchIds, NEW deltas, applyNetDeltas(c, b, deltas)
        PROVE  Fresh
    BY <2>5 DEF applyNetDeltas
  <2>6. CASE UNCHANGED balances
    BY <2>0, <2>6
  <2>7. CASE AdminCall \/ Tick \/ (\E amount \in Amounts : Donate(amount)) \/ \E c \in Accounts : heartbeat(c)
    BY <2>6, <2>7 DEF AdminCall, pause, unpause, setOperatorInactivityThreshold, Tick, Donate, heartbeat, funds
  <2> QED
    BY <2>1, <2>3, <2>4, <2>5, <2>7 DEF Next, UserCall, SettlementCall
<1> QED
  BY <1>1, TypeCorrect, PTL DEF Spec, CreditsAreFresh

==============================================================================
