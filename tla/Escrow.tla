------------------------------- MODULE Escrow -------------------------------
(***************************************************************************)
(* What the gateway promises about collateral: an account has free and     *)
(* held funds, a reservation takes no more than is free, a release gives   *)
(* back no more than is held, and only the chain adds or takes funds.      *)
(***************************************************************************)
EXTENDS Integers

CONSTANT Accounts

VARIABLES
    free, held,
    credited        \* what the chain has added to each account

vars == <<free, held, credited>>

Init ==
    /\ free \in [Accounts -> Nat]
    /\ held = [a \in Accounts |-> 0]
    /\ credited = [a \in Accounts |-> 0]

\* n moves from free to held, or back.
Shift(a, n) ==
    /\ free' = [free EXCEPT ![a] = @ - n]
    /\ held' = [held EXCEPT ![a] = @ + n]
    /\ UNCHANGED credited

Reserve(a) == \E n \in 1..free[a] : Shift(a, n)

Release(a) == \E n \in 1..held[a] : Shift(a, -n)

\* The chain may take more than is free: a withdrawal does not ask the gateway.
Credit(a) ==
    /\ credited' = [credited EXCEPT ![a] = @ + free'[a] - free[a]]
    /\ free' = [free EXCEPT ![a] = free'[a]]
    /\ UNCHANGED held

Next == \E a \in Accounts : Reserve(a) \/ Release(a) \/ Credit(a)

Spec == Init /\ [][Next]_vars

=============================================================================
