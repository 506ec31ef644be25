------------------------------- MODULE Vault --------------------------------
(***************************************************************************)
(* What the custody contract promises its users, with none of its          *)
(* mechanism: a table of claims and a pool of tokens.  A claim is created  *)
(* only against tokens that have arrived, it is extinguished when it is    *)
(* paid, and anything else that happens to claims redistributes them.      *)
(* Custody.tla implements this specification.                              *)
(***************************************************************************)
EXTENDS Ledger

CONSTANT Accounts       \* the holders of claims, finitely many

VARIABLES
    claims,             \* what each account may redeem
    pool                \* the tokens held against the claims

vars == <<claims, pool>>

Init == /\ claims = [a \in Accounts |-> 0]
        /\ pool \in Nat

\* Tokens arrive and account a is credited with exactly what arrived.
Fund(a) ==
    /\ pool' \in Nat
    /\ pool' > pool
    /\ claims' = [claims EXCEPT ![a] = @ + (pool' - pool)]

\* Account a's claim shrinks by n and at most n tokens leave (fewer if the payee is the pool itself).
Redeem(a) ==
    \E n \in 1..claims[a] :
        /\ claims' = [claims EXCEPT ![a] = @ - n]
        /\ pool' \in (pool - n)..pool

\* Claims move between accounts; no token moves and none is created or destroyed.
Redistribute ==
    /\ claims' \in [Accounts -> Nat]
    /\ Total(claims') = Total(claims)
    /\ UNCHANGED pool

\* Tokens arrive that nobody is credited for.
Gift ==
    /\ pool' \in Nat
    /\ pool' >= pool
    /\ UNCHANGED claims

Next == \/ \E a \in Accounts : Fund(a) \/ Redeem(a)
        \/ Redistribute
        \/ Gift

Spec == Init /\ [][Next]_vars

-----------------------------------------------------------------------------
TypeOK == /\ claims \in [Accounts -> Nat]
          /\ pool \in Nat

\* Every claim can be redeemed, all of them together: the tokens held cover the sum of the claims.
Solvent == pool >= Total(claims)

\* No step takes tokens that are not some account's claim: what the pool holds beyond the claims never
\* shrinks.
SurplusNeverShrinks == [][pool' - Total(claims') >= pool - Total(claims)]_vars

=============================================================================
