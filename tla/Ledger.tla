------------------------------- MODULE Ledger -------------------------------
(***************************************************************************)
(* Amounts held by accounts, and signed deltas applied to them in order.   *)
(* The contracts keep such tables as Solidity mappings and never compute   *)
(* their sum; the sum is what the conservation claims are about.           *)
(*                                                                         *)
(* Total(f) counts the single units in the table f instead of folding over *)
(* its domain: each unit of an account's amount is a pair, and the sum is  *)
(* the number of pairs.                                                    *)
(***************************************************************************)
EXTENDS Integers, FiniteSets, Sequences

\* The single units behind the amounts of the table f.
Units(f) == UNION {{a} \X (1..f[a]) : a \in DOMAIN f}

\* The sum of the amounts of the table f.
Total(f) == Cardinality(Units(f))

-----------------------------------------------------------------------------
(***************************************************************************)
(* A delta is what ICustody.BalanceDelta is: an account and a signed       *)
(* amount.  Running(bal, deltas)[i] describes the first i deltas: the      *)
(* table they turn bal into, and the sum of their amounts.                 *)
(***************************************************************************)
Delta(A) == [account : A, amount : Int]

Applied(t, d) == [table |-> [t.table EXCEPT ![d.account] = @ + d.amount],
                  net   |-> t.net + d.amount]

Running(bal, deltas) ==
    LET r[i \in 0..Len(deltas)] ==
          IF i = 0 THEN [table |-> bal, net |-> 0] ELSE Applied(r[i-1], deltas[i])
    IN  r

\* The outcome of all the deltas, and whether an account is overdrawn on the way.
Outcome(bal, deltas) == Running(bal, deltas)[Len(deltas)]

Overdraws(bal, deltas) ==
    \E i \in 1..Len(deltas) : Running(bal, deltas)[i].table[deltas[i].account] < 0

=============================================================================
