---------------------------- MODULE VaultProofs -----------------------------
(***************************************************************************)
(* The vault keeps its promise: for every finite set of accounts, the      *)
(* tokens it holds cover the claims, and no step eats the surplus.         *)
(*                                                                         *)
(* TypeOK alone is not inductive: that a redemption leaves the pool a      *)
(* natural number needs Solvent, so the two are proved together.           *)
(***************************************************************************)
EXTENDS Vault, LedgerLemmas

\* What any step does to the surplus, from the types alone.
LEMMA SurplusStep ==
  ASSUME IsFiniteSet(Accounts), TypeOK, [Next]_vars
  PROVE  /\ claims' \in [Accounts -> Nat]
         /\ pool' \in Int
         /\ pool' - Total(claims') >= pool - Total(claims)
<1> USE DEF TypeOK
<1>0. Total(claims) \in Nat
  BY UnitsFinite
<1>1. ASSUME NEW a \in Accounts, Fund(a)
      PROVE  /\ claims' \in [Accounts -> Nat]
             /\ pool' \in Int
             /\ pool' - Total(claims') >= pool - Total(claims)
  <2> DEFINE n == claims[a] + (pool' - pool)
  <2>1. pool' \in Nat /\ pool' > pool /\ claims' = [claims EXCEPT ![a] = n]
    BY <1>1 DEF Fund
  <2>2. claims[a] \in Nat /\ n \in Nat
    BY <2>1
  <2>3. Total(claims') = Total(claims) - claims[a] + n
    <3> HIDE DEF n
    <3> QED BY <2>1, <2>2, TotalUpdate
  <2>4. claims' \in [Accounts -> Nat]
    <3> HIDE DEF n
    <3> QED BY <2>1, <2>2
  <2> QED BY <1>0, <2>1, <2>2, <2>3, <2>4
<1>2. ASSUME NEW a \in Accounts, Redeem(a)
      PROVE  /\ claims' \in [Accounts -> Nat]
             /\ pool' \in Int
             /\ pool' - Total(claims') >= pool - Total(claims)
  <2>1. PICK n \in 1..claims[a] :
          /\ claims' = [claims EXCEPT ![a] = @ - n]
          /\ pool' \in (pool - n)..pool
    BY <1>2 DEF Redeem
  <2> DEFINE m == claims[a] - n
  <2>2. claims[a] \in Nat /\ m \in Nat /\ n \in Nat
    OBVIOUS
  <2>3. claims' = [claims EXCEPT ![a] = m]
    BY <2>1
  <2>4. Total(claims') = Total(claims) - claims[a] + m
    <3> HIDE DEF m
    <3> QED BY <2>3, <2>2, TotalUpdate
  <2>5. claims' \in [Accounts -> Nat]
    <3> HIDE DEF m
    <3> QED BY <2>3, <2>2
  <2>6. pool' \in Int /\ pool' >= pool - n
    BY <2>1, <2>2
  <2> QED BY <1>0, <2>2, <2>4, <2>5, <2>6
<1>3. CASE Redistribute
  BY <1>0, <1>3 DEF Redistribute
<1>4. CASE Gift
  BY <1>0, <1>4 DEF Gift
<1>5. CASE UNCHANGED vars
  BY <1>0, <1>5 DEF vars
<1> QED
  BY <1>1, <1>2, <1>3, <1>4, <1>5 DEF Next

IInv == TypeOK /\ Solvent

\* A surplus that does not shrink keeps the vault solvent, and a solvent pool is a natural number.
LEMMA IInvStep ==
  ASSUME IsFiniteSet(Accounts), IInv, [Next]_vars
  PROVE  IInv'
<1>1. /\ claims' \in [Accounts -> Nat]
      /\ pool' \in Int
      /\ pool' - Total(claims') >= pool - Total(claims)
  BY SurplusStep DEF IInv
<1>2. Total(claims) \in Nat /\ pool \in Nat /\ pool >= Total(claims)
  BY UnitsFinite DEF IInv, TypeOK, Solvent
<1>3. Total(claims') \in Nat
  BY <1>1, UnitsFinite
<1> QED
  BY <1>1, <1>2, <1>3 DEF IInv, TypeOK, Solvent

\* A vault is solvent in every reachable state.
THEOREM VaultSolvent ==
  ASSUME IsFiniteSet(Accounts)
  PROVE  Spec => []IInv
<1>1. Init => IInv
  BY TotalOfZeros DEF Init, IInv, TypeOK, Solvent
<1>2. IInv /\ [Next]_vars => IInv'
  BY IInvStep
<1> QED
  BY <1>1, <1>2, PTL DEF Spec

\* No step of a vault pays out of the surplus.
THEOREM VaultSurplus ==
  ASSUME IsFiniteSet(Accounts)
  PROVE  Spec => SurplusNeverShrinks
<1>1. TypeOK /\ [Next]_vars => [pool' - Total(claims') >= pool - Total(claims)]_vars
  BY SurplusStep
<1>2. Spec => []TypeOK
  BY VaultSolvent, PTL DEF IInv
<1> QED
  BY <1>1, <1>2, PTL DEF Spec, SurplusNeverShrinks

=============================================================================
