------------------------------ MODULE Custody -------------------------------
(***************************************************************************)
(* contracts/src/Custody.sol: the USDC vault.  Users deposit, withdraw     *)
(* with an operator's signature, or leave through the forced-withdrawal    *)
(* hatch once the operator has been silent for too long; the holder of     *)
(* SETTLEMENT_ROLE moves balances between accounts in batches.             *)
(*                                                                         *)
(* A transaction is one action.  A revert undoes the whole transaction, so *)
(* a call that reverts is a call that is not enabled.  ReentrancyGuard     *)
(* leaves no other interleaving.  block.timestamp advances between         *)
(* transactions (Tick).  The set of holders of each role is fixed, and an  *)
(* authorization is a message signed by a holder of WITHDRAWAL_SIGNER_ROLE,*)
(* which signs whatever it likes.                                          *)
(***************************************************************************)
EXTENDS Ledger

CONSTANTS
    Accounts,           \* the addresses that can hold a balance
    This,               \* the contract's own address
    SettlementRole,     \* the holders of SETTLEMENT_ROLE
    BatchIds,           \* batch identifiers
    DeltaLists,         \* the delta arrays a settlement may carry
    MinThreshold,       \* MIN_OPERATOR_INACTIVITY_THRESHOLD
    MaxThreshold,       \* MAX_OPERATOR_INACTIVITY_THRESHOLD
    Amounts,            \* the amounts callers name, 0 included
    Supply,             \* all the USDC there is
    MaxTransferFee,     \* what the token may withhold from a transfer (0 for USDC today)
    MaxTime,            \* bound: the last block timestamp
    MaxNonce            \* bound: fast withdrawals per account

ASSUME FiniteAccounts == IsFiniteSet(Accounts)
ASSUME ThisIsNoAccount == This \notin Accounts
ASSUME RolesAreAccounts == SettlementRole \subseteq Accounts
ASSUME DeltasTyped == DeltaLists \subseteq Seq(Delta(Accounts))
ASSUME ThresholdBounds == MinThreshold \in Nat /\ MaxThreshold \in Nat /\ MinThreshold <= MaxThreshold
ASSUME AmountsTyped == Amounts \subseteq Nat
ASSUME BoundsAreNat == /\ Supply \in Nat /\ MaxTransferFee \in Nat
                       /\ MaxTime \in Nat /\ MaxNonce \in Nat

VARIABLES
    held,                           \* USDC.balanceOf(address(this)) (external)
    now,                            \* block.timestamp (external)
    paused,                         \* Pausable._paused
    lastOperatorActivity,
    operatorInactivityThreshold,
    balances,                       \* _balances
    withdrawalNonce,                \* _withdrawalNonce
    appliedBatches                  \* the batch ids mapped to true

funds    == <<held, balances>>
liveness == <<lastOperatorActivity, operatorInactivityThreshold>>
custodyVars == <<held, now, paused, lastOperatorActivity, operatorInactivityThreshold,
                 balances, withdrawalNonce, appliedBatches>>

-----------------------------------------------------------------------------
(***************************************************************************)
(* The token.  A transfer delivers what the token does not withhold.  Of   *)
(* the other holders only their sum matters, Supply - held; a transfer to  *)
(* the contract succeeds when they have the amount, one from the contract  *)
(* to itself brings back what is delivered.                                *)
(***************************************************************************)
Delivered(amount) == {r \in 0..amount : r >= amount - MaxTransferFee}

TransferIn(amount) ==
    /\ amount <= Supply - held
    /\ \E received \in Delivered(amount) : held' = held + received

TransferOut(to, amount) ==
    /\ amount <= held
    /\ IF to = This THEN \E received \in Delivered(amount) : held' = held - amount + received
                    ELSE held' = held - amount

-----------------------------------------------------------------------------
Init ==
    /\ held = 0
    /\ now = 0
    /\ paused = FALSE
    /\ lastOperatorActivity = now
    /\ operatorInactivityThreshold \in MinThreshold..MaxThreshold
    /\ balances = [a \in Accounts |-> 0]
    /\ withdrawalNonce = [a \in Accounts |-> 0]
    /\ appliedBatches = {}

\* Faulty: credits what the caller asked to send.
depositNominal(caller, amount) ==
    /\ ~paused
    /\ amount # 0
    /\ TransferIn(amount)
    /\ balances' = [balances EXCEPT ![caller] = @ + amount]
    /\ UNCHANGED <<now, paused, liveness, withdrawalNonce, appliedBatches>>

\* Faulty: credits everything the contract holds beyond its balances, gifts to the contract included.
depositSweeping(caller, amount) ==
    /\ ~paused
    /\ amount # 0
    /\ TransferIn(amount)
    /\ balances' = [balances EXCEPT ![caller] = @ + (held' - Total(balances))]
    /\ UNCHANGED <<now, paused, liveness, withdrawalNonce, appliedBatches>>

\* The balance is credited with what the contract sees arrive, not with what the caller asked to send.
deposit(caller, amount) ==
    /\ ~paused
    /\ amount # 0
    /\ TransferIn(amount)
    /\ held' - held # 0
    /\ balances' = [balances EXCEPT ![caller] = @ + (held' - held)]
    /\ UNCHANGED <<now, paused, liveness, withdrawalNonce, appliedBatches>>

\* Faulty: no InsufficientBalance check.
debitUnchecked(account, to, amount) ==
    /\ balances' = [balances EXCEPT ![account] = @ - amount]
    /\ TransferOut(to, amount)

\* Faulty: the balance is never written back.
payWithoutDebit(account, to, amount) ==
    /\ balances[account] >= amount
    /\ UNCHANGED balances
    /\ TransferOut(to, amount)

\* _debitAndPay: the debited account, the payee and the amount.
debitAndPay(account, to, amount) ==
    /\ balances[account] >= amount
    /\ balances' = [balances EXCEPT ![account] = @ - amount]
    /\ TransferOut(to, amount)

\* The fast path.  A signature fits only the caller, nonce, amount and deadline it was made for.
Authorization == [account : Accounts, amount : Amounts, nonce : 0..MaxNonce, deadline : 0..MaxTime]

withdraw(caller, auth) ==
    /\ ~paused
    /\ auth.amount # 0
    /\ now <= auth.deadline
    /\ auth.account = caller
    /\ auth.nonce = withdrawalNonce[caller]
    /\ withdrawalNonce[caller] < MaxNonce
    /\ withdrawalNonce' = [withdrawalNonce EXCEPT ![caller] = @ + 1]
    /\ debitAndPay(caller, caller, auth.amount)
    /\ UNCHANGED <<now, paused, liveness, appliedBatches>>

operatorAbsent == now - lastOperatorActivity > operatorInactivityThreshold

\* Faulty: the hatch is closed by a pause like every other user call.
forcedWhenNotPaused(caller, to) ==
    /\ ~paused
    /\ operatorAbsent
    /\ balances[caller] # 0
    /\ debitAndPay(caller, to, balances[caller])
    /\ UNCHANGED <<now, paused, liveness, withdrawalNonce, appliedBatches>>

\* The hatch: the caller's whole balance, to an address of its choice, paused or not.
executeForcedWithdrawal(caller, to) ==
    /\ operatorAbsent
    /\ balances[caller] # 0
    /\ debitAndPay(caller, to, balances[caller])
    /\ UNCHANGED <<now, paused, liveness, withdrawalNonce, appliedBatches>>

recordOperatorActivity == lastOperatorActivity' = now

\* Faulty: the sum of the deltas is not checked.
applyUnbalanced(caller, batchId, deltas) ==
    /\ ~paused
    /\ caller \in SettlementRole
    /\ batchId \notin appliedBatches
    /\ appliedBatches' = appliedBatches \cup {batchId}
    /\ recordOperatorActivity
    /\ ~ Overdraws(balances, deltas)
    /\ balances' = Outcome(balances, deltas).table
    /\ UNCHANGED <<held, now, paused, operatorInactivityThreshold, withdrawalNonce>>

\* Faulty: a batch that was applied before is applied again.
applyAgain(caller, batchId, deltas) ==
    /\ ~paused
    /\ caller \in SettlementRole
    /\ appliedBatches' = appliedBatches \cup {batchId}
    /\ recordOperatorActivity
    /\ Outcome(balances, deltas).net = 0
    /\ ~ Overdraws(balances, deltas)
    /\ balances' = Outcome(balances, deltas).table
    /\ UNCHANGED <<held, now, paused, operatorInactivityThreshold, withdrawalNonce>>

\* Settlement: the deltas sum to zero and, taken in order, never overdraw an account.
applyNetDeltas(caller, batchId, deltas) ==
    /\ ~paused
    /\ caller \in SettlementRole
    /\ batchId \notin appliedBatches
    /\ appliedBatches' = appliedBatches \cup {batchId}
    /\ recordOperatorActivity
    /\ Outcome(balances, deltas).net = 0
    /\ ~ Overdraws(balances, deltas)
    /\ balances' = Outcome(balances, deltas).table
    /\ UNCHANGED <<held, now, paused, operatorInactivityThreshold, withdrawalNonce>>

heartbeat(caller) ==
    /\ ~paused
    /\ caller \in SettlementRole
    /\ recordOperatorActivity
    /\ UNCHANGED <<funds, now, paused, operatorInactivityThreshold, withdrawalNonce, appliedBatches>>

pause == /\ ~paused
         /\ paused' = TRUE
         /\ UNCHANGED <<funds, now, liveness, withdrawalNonce, appliedBatches>>

unpause == /\ paused
           /\ paused' = FALSE
           /\ UNCHANGED <<funds, now, liveness, withdrawalNonce, appliedBatches>>

setOperatorInactivityThreshold(newThreshold) ==
    /\ newThreshold >= MinThreshold
    /\ newThreshold <= MaxThreshold
    /\ operatorInactivityThreshold' = newThreshold
    /\ UNCHANGED <<funds, now, paused, lastOperatorActivity, withdrawalNonce, appliedBatches>>

-----------------------------------------------------------------------------
\* The environment: time passes, and anyone sends the contract tokens it did not ask for.
Tick == /\ now < MaxTime
        /\ now' = now + 1
        /\ UNCHANGED <<funds, paused, liveness, withdrawalNonce, appliedBatches>>

Donate(amount) ==
    /\ amount # 0
    /\ TransferIn(amount)
    /\ UNCHANGED <<now, paused, liveness, balances, withdrawalNonce, appliedBatches>>

-----------------------------------------------------------------------------
UserCall(a) == \/ \E amount \in Amounts : deposit(a, amount)
               \/ \E auth \in Authorization : withdraw(a, auth)
               \/ \E to \in Accounts \cup {This} : executeForcedWithdrawal(a, to)

AdminCall == \/ pause
             \/ unpause
             \/ \E t \in 0..(MaxThreshold + 1) : setOperatorInactivityThreshold(t)

SettlementCall(a) == \/ \E b \in BatchIds, deltas \in DeltaLists : applyNetDeltas(a, b, deltas)
                     \/ heartbeat(a)

Next == \/ \E a \in Accounts : UserCall(a) \/ SettlementCall(a)
        \/ AdminCall
        \/ Tick
        \/ \E amount \in Amounts : Donate(amount)

Spec == Init /\ [][Next]_custodyVars

\* Blocks keep coming, and an account that can leave through the hatch and keeps being able to, leaves.
Exit(a) == executeForcedWithdrawal(a, a)

Fairness == /\ WF_custodyVars(Tick)
            /\ \A a \in Accounts : WF_custodyVars(Exit(a))

FairSpec == Spec /\ Fairness

-----------------------------------------------------------------------------
TypeOK ==
    /\ held \in Nat
    /\ now \in Nat
    /\ paused \in BOOLEAN
    /\ lastOperatorActivity \in 0..now
    /\ operatorInactivityThreshold \in MinThreshold..MaxThreshold
    /\ balances \in [Accounts -> Nat]
    /\ withdrawalNonce \in [Accounts -> Nat]
    /\ appliedBatches \subseteq BatchIds

\* The contract holds the tokens for every balance it has credited, whatever order deposits, withdrawals,
\* hatch exits and settlements come in (Custody.sol:15-16, the part of its claim that holds).
Solvency == held >= Total(balances)

\* The contract is a vault in the sense of Vault.tla: each of its transactions funds a claim with tokens
\* that arrived, redeems one, redistributes claims, or receives a gift.
V == INSTANCE Vault WITH claims <- balances, pool <- held

ImplementsVault == V!Spec

\* No transaction pays out tokens that are not debited from a balance: what the contract holds beyond
\* its balances (donations, payouts to itself) never shrinks.
SurplusNeverShrinks == V!SurplusNeverShrinks

\* A balance grows only by tokens that arrived in the same transaction, or in a batch never applied
\* before: a retried settlement does not credit anyone twice (Custody.sol:129-130).
CreditsAreFresh ==
    [][(\E a \in Accounts : balances'[a] > balances[a])
         => \/ held' - held = Total(balances') - Total(balances) /\ held' # held
            \/ \E b \in BatchIds \ appliedBatches : b \in appliedBatches']_custodyVars

\* Nothing that happens during a pause refreshes the liveness clock (Custody.sol:197-199).
PauseStopsTheClock ==
    [][paused => lastOperatorActivity' = lastOperatorActivity]_custodyVars

\* While the operator stays silent, paused or not and however the threshold is moved, an account that
\* tries to leave leaves.  Silences that outlast the time bound are not asked about.
SilenceFreesFunds ==
    \A a \in Accounts : \A t \in 0..(MaxTime - MaxThreshold - 1) :
        (balances[a] > 0 /\ lastOperatorActivity = t)
            ~> (balances[a] = 0 \/ lastOperatorActivity # t)

=============================================================================
