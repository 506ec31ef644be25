------------------------------- MODULE Oracle -------------------------------
(***************************************************************************)
(* contracts/src/Oracle.sol: a market is created, its outcome is proposed  *)
(* under a bond once it has expired, and the proposal either survives the  *)
(* dispute window and is finalized, or is disputed under a second bond and *)
(* decided by the arbitrator, the loser paying the winner.                 *)
(*                                                                         *)
(* A transaction is one action and a revert a disabled action.  The        *)
(* conditional-tokens contract (external) prepares a condition once and    *)
(* takes one report for it.  USDC is taken to deliver what is sent: the    *)
(* oracle does not measure what arrives, as Custody does.                  *)
(***************************************************************************)
EXTENDS Ledger

CONSTANTS
    Markets,            \* market ids
    Actors,             \* who proposes, disputes and receives bonds
    Specs,              \* the resolution specs a creator may give
    PayoutVectors,      \* the payout vectors callers may give
    Wealth,             \* the USDC each actor starts with
    MaxTime,            \* bound: the last block timestamp
    MaxGifts            \* bound: USDC sent to the oracle without a call

States == {"OPEN", "PROPOSED", "DISPUTED", "RESOLVED"}

\* The zero values of the two mappings, and of an address.
None       == "none"
ZeroSpec   == [questionId |-> None, outcomeSlotCount |-> 0, expiry |-> 0, disputeWindow |-> 0,
               bondAmount |-> 0]
ZeroClaim  == [proposedPayouts |-> << >>, proposeTime |-> 0, proposer |-> None, disputer |-> None]

ASSUME FiniteMarkets == IsFiniteSet(Markets)
ASSUME ActorsAreAddresses == IsFiniteSet(Actors) /\ None \notin Actors
ASSUME SpecsTyped == \A s \in Specs : /\ s.outcomeSlotCount \in Nat /\ s.expiry \in Nat
                                      /\ s.disputeWindow \in Nat /\ s.bondAmount \in Nat
ASSUME PayoutsTyped == PayoutVectors \subseteq Seq(Nat)
ASSUME BoundsAreNat == Wealth \in Nat /\ MaxTime \in Nat /\ MaxGifts \in Nat

VARIABLES
    now,                \* block.timestamp (external)
    paused,
    specs,
    states,
    optimisticStates,   \* the payouts themselves stand for their hash
    pot,                \* USDC.balanceOf(oracle) (external)
    purse,              \* USDC.balanceOf of the actors (external)
    prepared,           \* the conditions the CTF has prepared (external)
    reported,           \* the payouts the CTF has been told (external)
    gifts,              \* history: what the oracle was sent without a call
    replaced            \* history: markets created again when they were no longer open

market == <<specs, states, optimisticStates>>
money  == <<pot, purse>>
rest   == <<prepared, reported, gifts, replaced>>
vars   == <<now, paused, market, money, rest>>

\* A condition is a question with a number of outcomes.
condition(spec) == <<spec.questionId, spec.outcomeSlotCount>>

-----------------------------------------------------------------------------
Init ==
    /\ now = 0
    /\ paused = FALSE
    /\ specs = [m \in Markets |-> ZeroSpec]
    /\ states = [m \in Markets |-> "OPEN"]
    /\ optimisticStates = [m \in Markets |-> ZeroClaim]
    /\ pot = 0
    /\ purse = [a \in Actors |-> Wealth]
    /\ prepared = {}
    /\ reported = << >>
    /\ gifts = 0
    /\ replaced = {}

\* _validatePayouts: one payout per outcome, not all of them zero.
validPayouts(spec, payouts) ==
    /\ Len(payouts) = spec.outcomeSlotCount
    /\ \E i \in DOMAIN payouts : payouts[i] # 0

\* ctf.reportPayouts: refused unless the condition is prepared and unreported.
reportPayouts(spec, payouts) ==
    LET c == <<spec.questionId, Len(payouts)>>
    IN  /\ c \in prepared \ DOMAIN reported
        /\ reported' = [d \in DOMAIN reported \cup {c} |-> IF d = c THEN payouts ELSE reported[d]]

\* The mark of a created market is its expiry.  One that was created with an expiry of 0 can be created
\* again at any stage, and its spec is replaced.
record(m, spec) ==
    /\ specs' = [specs EXCEPT ![m] = spec]
    /\ replaced' = IF states[m] = "OPEN" THEN replaced ELSE replaced \cup {m}

\* Faulty: the condition is not prepared, so two markets may share it.
createUnprepared(m, spec) ==
    /\ ~paused
    /\ specs[m].expiry = 0
    /\ prepared' = prepared \cup {condition(spec)}
    /\ record(m, spec)
    /\ UNCHANGED <<now, paused, states, optimisticStates, money, reported, gifts>>

createMarket(m, spec) ==
    /\ ~paused
    /\ specs[m].expiry = 0
    /\ condition(spec) \notin prepared
    /\ prepared' = prepared \cup {condition(spec)}
    /\ record(m, spec)
    /\ UNCHANGED <<now, paused, states, optimisticStates, money, reported, gifts>>

\* Faulty: the transfer's success is not asked for.
bondUnchecked(a, amount) ==
    /\ purse' = [purse EXCEPT ![a] = @ - amount]
    /\ pot' = pot + amount

\* USDC in from a caller who has it, and out.
bond(a, amount) ==
    /\ amount <= purse[a]
    /\ purse' = [purse EXCEPT ![a] = @ - amount]
    /\ pot' = pot + amount

pay(a, amount) ==
    /\ amount <= pot
    /\ pot' = pot - amount
    /\ purse' = [purse EXCEPT ![a] = @ + amount]

proposeOutcome(a, m, payouts) ==
    /\ ~paused
    /\ states[m] = "OPEN"
    /\ now >= specs[m].expiry
    /\ validPayouts(specs[m], payouts)
    /\ bond(a, specs[m].bondAmount)
    /\ states' = [states EXCEPT ![m] = "PROPOSED"]
    /\ optimisticStates' = [optimisticStates EXCEPT ![m].proposedPayouts = payouts,
                                                    ![m].proposer = a,
                                                    ![m].proposeTime = now]
    /\ UNCHANGED <<now, paused, specs, rest>>

windowEnd(m) == optimisticStates[m].proposeTime + specs[m].disputeWindow

\* Faulty: the dispute's bond is not collected.
disputeUnbonded(a, m) ==
    /\ ~paused
    /\ states[m] = "PROPOSED"
    /\ now <= windowEnd(m)
    /\ states' = [states EXCEPT ![m] = "DISPUTED"]
    /\ optimisticStates' = [optimisticStates EXCEPT ![m].disputer = a]
    /\ UNCHANGED <<now, paused, specs, money, rest>>

\* Faulty: the window counts as passed at its last instant.
disputeEarly(a, m) ==
    /\ ~paused
    /\ states[m] = "PROPOSED"
    /\ now < windowEnd(m)
    /\ bond(a, specs[m].bondAmount)
    /\ states' = [states EXCEPT ![m] = "DISPUTED"]
    /\ optimisticStates' = [optimisticStates EXCEPT ![m].disputer = a]
    /\ UNCHANGED <<now, paused, specs, rest>>

disputeOutcome(a, m) ==
    /\ ~paused
    /\ states[m] = "PROPOSED"
    /\ now <= windowEnd(m)
    /\ bond(a, specs[m].bondAmount)
    /\ states' = [states EXCEPT ![m] = "DISPUTED"]
    /\ optimisticStates' = [optimisticStates EXCEPT ![m].disputer = a]
    /\ UNCHANGED <<now, paused, specs, rest>>

\* The arbitrator decides, paused or not; a verdict that differs from the proposal is the disputer's.
resolveDispute(m, payouts) ==
    LET claim  == optimisticStates[m]
        winner == IF payouts # claim.proposedPayouts THEN claim.disputer ELSE claim.proposer
    IN  /\ states[m] = "DISPUTED"
        /\ validPayouts(specs[m], payouts)
        /\ states' = [states EXCEPT ![m] = "RESOLVED"]
        /\ reportPayouts(specs[m], payouts)
        /\ pay(winner, 2 * specs[m].bondAmount)
        /\ UNCHANGED <<now, paused, specs, optimisticStates, prepared, gifts, replaced>>

\* Faulty: whoever finalizes a proposal receives its bond.
finalizeForCaller(a, m, payouts) ==
    /\ ~paused
    /\ states[m] = "PROPOSED"
    /\ now > windowEnd(m)
    /\ payouts = optimisticStates[m].proposedPayouts
    /\ states' = [states EXCEPT ![m] = "RESOLVED"]
    /\ reportPayouts(specs[m], payouts)
    /\ pay(a, specs[m].bondAmount)
    /\ UNCHANGED <<now, paused, specs, optimisticStates, prepared, gifts, replaced>>

\* Anyone (a) may finalize; the bond goes back to the proposer.
finalizeOutcome(a, m, payouts) ==
    /\ ~paused
    /\ states[m] = "PROPOSED"
    /\ now > windowEnd(m)
    /\ payouts = optimisticStates[m].proposedPayouts
    /\ states' = [states EXCEPT ![m] = "RESOLVED"]
    /\ reportPayouts(specs[m], payouts)
    /\ pay(optimisticStates[m].proposer, specs[m].bondAmount)
    /\ UNCHANGED <<now, paused, specs, optimisticStates, prepared, gifts, replaced>>

pause   == ~paused /\ paused' = TRUE /\ UNCHANGED <<now, market, money, rest>>
unpause == paused /\ paused' = FALSE /\ UNCHANGED <<now, market, money, rest>>

\* A plain transfer of USDC to the contract, which nothing can refuse.
Gift == /\ gifts < MaxGifts
        /\ gifts' = gifts + 1
        /\ pot' = pot + 1
        /\ UNCHANGED <<now, paused, market, purse, prepared, reported, replaced>>

Tick == /\ now < MaxTime
        /\ now' = now + 1
        /\ UNCHANGED <<paused, market, money, rest>>

Next == \/ \E m \in Markets, s \in Specs : createMarket(m, s)
        \/ \E a \in Actors, m \in Markets, p \in PayoutVectors : proposeOutcome(a, m, p)
        \/ \E a \in Actors, m \in Markets : disputeOutcome(a, m)
        \/ \E m \in Markets, p \in PayoutVectors : resolveDispute(m, p)
        \/ \E a \in Actors, m \in Markets, p \in PayoutVectors : finalizeOutcome(a, m, p)
        \/ pause \/ unpause
        \/ Gift
        \/ Tick

Spec == Init /\ [][Next]_vars

\* Blocks keep coming, and the proposer of a market that can be finalized, who has a bond to get back,
\* finalizes it.
Finalize(m) == \E a \in Actors : finalizeOutcome(a, m, optimisticStates[m].proposedPayouts)
Dispute(m)  == \E a \in Actors : disputeOutcome(a, m)

FairSpec == Spec /\ WF_vars(Tick) /\ \A m \in Markets : WF_vars(Finalize(m))

-----------------------------------------------------------------------------
TypeOK ==
    /\ now \in Nat
    /\ paused \in BOOLEAN
    /\ \A m \in Markets : specs[m] \in Specs \cup {ZeroSpec}
    /\ states \in [Markets -> States]
    /\ \A m \in Markets :
         LET c == optimisticStates[m]
         IN  /\ c.proposedPayouts \in PayoutVectors \cup {<< >>}
             /\ c.proposeTime \in 0..now
             /\ c.proposer \in Actors \cup {None}
             /\ c.disputer \in Actors \cup {None}
    /\ pot \in Nat
    /\ purse \in [Actors -> Nat]
    /\ DOMAIN reported \subseteq prepared
    /\ gifts \in Nat /\ replaced \subseteq Markets

\* The bonds a market still owes.
owed(m) == CASE states[m] = "PROPOSED" -> specs[m].bondAmount
             [] states[m] = "DISPUTED" -> 2 * specs[m].bondAmount
             [] OTHER                  -> 0

\* The oracle holds exactly the bonds it owes, all markets together, and what it was given: no market's
\* bond is ever paid out of another's, and none stays behind.  Where a market under way has been replaced
\* its bond may be another one.
BondsBacked == replaced = {} => pot = Total([m \in Markets |-> owed(m)]) + gifts

\* What an actor has, with its bonds still out counted as its own.
stake(a, m) == (IF states[m] \in {"PROPOSED", "DISPUTED"} /\ optimisticStates[m].proposer = a
                  THEN specs[m].bondAmount ELSE 0)
             + (IF states[m] = "DISPUTED" /\ optimisticStates[m].disputer = a
                  THEN specs[m].bondAmount ELSE 0)

equity(a) == purse[a] + Total([m \in Markets |-> stake(a, m)])

\* Proposing, disputing and finalizing cost nobody anything.  Money moves only by a verdict, from one
\* side of that dispute to the other (docs/contracts.md:180, loser pays), or where a market under way
\* has been replaced.
OnlyVerdictsMoveMoney ==
    [][\A a \in Actors : replaced' = {} /\ equity(a)' # equity(a) =>
          \E m \in Markets : /\ states[m] = "DISPUTED" /\ states'[m] = "RESOLVED"
                             /\ a \in {optimisticStates[m].proposer, optimisticStates[m].disputer}
                             /\ equity(a)' - equity(a) \in {specs[m].bondAmount, -specs[m].bondAmount}]_vars

\* A market is resolved exactly when its condition has been reported: no market is decided by another
\* one's report, and none is left with a bond that a report made elsewhere locks in.  (A market that was
\* replaced under way may report the condition of another.)
ResolvedIsReported ==
    replaced = {} => \A m \in Markets : specs[m] # ZeroSpec =>
        (states[m] = "RESOLVED" <=> condition(specs[m]) \in DOMAIN reported)

\* At every instant a proposal can be disputed or finalized and never both.  Up to the last instant of
\* its window whoever has the bond can dispute it.  From the next one on it can be finalized: neither the
\* other markets' reports nor their bonds are in the way.
WindowHasAnEnd ==
    ~paused /\ replaced = {} => \A m \in Markets : states[m] = "PROPOSED" =>
        LET open == now - optimisticStates[m].proposeTime <= specs[m].disputeWindow
        IN  /\ ENABLED Dispute(m) <=> open /\ \E a \in Actors : specs[m].bondAmount <= purse[a]
            /\ ENABLED Finalize(m) <=> ~open

\* A proposal that nobody disputes is finalized once its window has passed, unless the contract is
\* paused, or a market under way has been replaced, whose larger bond may have taken what is due here.
\* Windows that outlast the time bound are not asked about.
ProposalsSettle ==
    \A m \in Markets :
        states[m] = "PROPOSED" /\ windowEnd(m) < MaxTime
            ~> (states[m] # "PROPOSED" \/ paused \/ replaced # {})

=============================================================================
