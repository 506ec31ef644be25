---------------------------- MODULE IndexerProofs ----------------------------
(***************************************************************************)
(* The indexer, for every set of transactions and contracts, every number  *)
(* of confirmations and every bound of Indexer.tla: what is final on the   *)
(* chain stays what the database says it is, and no cursor passes an event *)
(* unseen.                                                                 *)
(*                                                                         *)
(* The lemmas are about single steps and about whatever else may happen to *)
(* the tables users, balances and orders (Elsewhere), so that they hold of *)
(* the indexer alone and next to the gateway (SharedProofs).               *)
(***************************************************************************)
EXTENDS Indexer, LedgerLemmas, SequenceTheorems

BlockRecord == [hash : Nat, txs : Seq(Transactions)]

\* The chain is a sequence of blocks on which every transaction is mined once.
ChainOK ==
    /\ chain \in Seq(BlockRecord)
    /\ branch \in Nat
    /\ sent \subseteq Transactions
    /\ None \notin DOMAIN cursors
    /\ Valid(chain)

\* The contract in hand: its final blocks are final on the chain, and its logs are its own, lie after
\* the blocks that have been checked and are told apart by their places.
RangeOK ==
    /\ current_block \in 0..Len(chain) /\ todo \subseteq DOMAIN cursors
    /\ contract = None => logs = {} /\ block = 1 /\ last = 0
    /\ contract # None =>
         /\ contract \in DOMAIN cursors
         /\ block \in Nat \ {0} /\ last \in Int /\ last <= current_block - Finality
         /\ block = 1 \/ block - 1 <= Len(chain) - Finality
    /\ \A l \in logs : /\ l.block \in Nat /\ l.block >= block /\ l.block <= current_block
                       /\ l.index \in Nat \ {0} /\ l.hash \in Nat
                       /\ l.tx \in Transactions /\ l.tx.contract = contract
    /\ \A l, m \in logs : l.block = m.block /\ l.index = m.index => l = m

\* A cursor stands at a final block, or at none.
CursorsFinal ==
    \A c \in DOMAIN cursors :
        cursors[c] \in Nat /\ (cursors[c] = 0 \/ cursors[c] <= Len(chain) - Finality)

\* A checkpoint is about a block of the chain.
CheckpointsKnown == DOMAIN checkpoints \subseteq 1..Len(chain)

\* The blocks of the contract in hand that are final for it.
Settled(l) == l.block <= cursors[contract] \/ l.block <= last

\* A transaction whose log is in hand is in no other final place, though it may have moved among the
\* blocks that are not final.
LogsAgree ==
    \A l \in logs : \A m \in LogsOf(chain, contract, 1, Len(chain)) :
        Settled(m) /\ m.tx = l.tx => m.block = l.block /\ m.index = l.index

Accounted(l) == already_processed(l) \/ l.tx \in unapplied \/ Unknown(l)

\* What the final blocks say about the contract in hand is still in hand or accounted for.
InHand ==
    contract # None =>
        \A l \in LogsOf(chain, contract, 1, Len(chain)) :
            l.block <= last => Accounted(l) \/ l \in logs

IndexerInv ==
    /\ ChainOK /\ RangeOK /\ CursorsFinal /\ CheckpointsKnown /\ LogsAgree /\ InHand
    /\ FinalizedIsFinal /\ AccountedFor

\* As long as no check of a block has failed, the checkpoints a cursor has passed are right, and so
\* are those below the block that is to be checked.
Unchecked == {"check_fails", "rollback_refused"}
CheckedAreRight ==
    past \cap Unchecked = {} =>
        /\ \A c \in DOMAIN cursors : \A b \in DOMAIN checkpoints :
             b <= cursors[c] => checkpoints[b].hash = chain[b].hash
        /\ contract # None => \A b \in DOMAIN checkpoints :
             b < block => checkpoints[b].hash = chain[b].hash

\* A log in hand of a block some cursor has passed has the hash of that block.
LogsRight ==
    \A l \in logs : \A c \in DOMAIN cursors : l.block <= cursors[c] => l.hash = chain[l.block].hash

\* A row of indexed_logs is about a block and a polled contract.
RowsPolled == \A l \in indexed_logs : l.block \in Nat /\ l.tx.contract \in DOMAIN cursors

StayInv == CheckedAreRight /\ LogsRight /\ RowsPolled

-----------------------------------------------------------------------------
\* The log of a place of the chain.
Entry(ch, b, i) == [block |-> b, index |-> i, hash |-> ch[b].hash, tx |-> ch[b].txs[i]]

\* Membership in LogsOf, spelled out.
LEMMA LogsMember ==
  ASSUME NEW ch, NEW c, NEW from, NEW to
  PROVE  \A l : l \in LogsOf(ch, c, from, to)
                  <=> \E b \in from..to : \E i \in DOMAIN ch[b].txs :
                        l = Entry(ch, b, i) /\ l.tx.contract = c
BY DEF LogsOf, Entry

\* What a log of a chain is made of.
LEMMA LogParts ==
  ASSUME NEW ch \in Seq(BlockRecord), NEW c, NEW from \in Nat \ {0}, NEW to \in Int, to <= Len(ch),
         NEW l \in LogsOf(ch, c, from, to)
  PROVE  /\ l.block \in Nat /\ l.block >= from /\ l.block <= to
         /\ l.index \in Nat \ {0} /\ l.hash \in Nat /\ l.hash = ch[l.block].hash
         /\ l.tx \in Transactions /\ l.tx.contract = c
         /\ l.index \in DOMAIN ch[l.block].txs /\ l = Entry(ch, l.block, l.index)
<1>1. PICK b \in from..to : \E i \in DOMAIN ch[b].txs : l = Entry(ch, b, i) /\ l.tx.contract = c
  BY LogsMember
<1>2. PICK i \in DOMAIN ch[b].txs : l = Entry(ch, b, i) /\ l.tx.contract = c
  BY <1>1
<1>3. b \in Nat /\ b >= from /\ b <= to /\ b \in 1..Len(ch)
  OBVIOUS
<1>4. ch[b] \in BlockRecord
  BY <1>3
<1>5. ch[b].hash \in Nat /\ ch[b].txs \in Seq(Transactions)
  BY <1>4 DEF BlockRecord
<1>6. i \in Nat \ {0} /\ ch[b].txs[i] \in Transactions
  BY <1>5
<1>7. l.block = b /\ l.index = i /\ l.hash = ch[b].hash /\ l.tx = ch[b].txs[i]
  BY <1>2 DEF Entry
<1> QED
  BY <1>2, <1>3, <1>5, <1>6, <1>7

\* A log of some blocks is a log of any blocks its own is among.
LEMMA LogsNarrow ==
  ASSUME NEW ch \in Seq(BlockRecord), NEW c, NEW from \in Nat \ {0}, NEW to \in Int, to <= Len(ch),
         NEW l \in LogsOf(ch, c, from, to), NEW from2 \in Int, NEW to2 \in Int,
         from2 <= l.block, l.block <= to2
  PROVE  l \in LogsOf(ch, c, from2, to2)
<1>1. /\ l.block \in Nat /\ l.tx.contract = c
      /\ l.index \in DOMAIN ch[l.block].txs /\ l = Entry(ch, l.block, l.index)
  BY LogParts
<1>2. l.block \in from2..to2
  BY <1>1
<1> QED
  BY <1>1, <1>2, LogsMember

\* The logs of blocks that are the same in two chains are the same.
LEMMA LogsFrame ==
  ASSUME NEW ch, NEW ch2, NEW c, NEW from, NEW to, \A b \in from..to : ch2[b] = ch[b]
  PROVE  LogsOf(ch2, c, from, to) = LogsOf(ch, c, from, to)
<1>1. \A b \in from..to : \A i : Entry(ch2, b, i) = Entry(ch, b, i)
  BY DEF Entry
<1>2. \A l : l \in LogsOf(ch2, c, from, to) <=> l \in LogsOf(ch, c, from, to)
  BY <1>1, LogsMember
<1> QED
  BY <1>2

\* On the chain, logs in the same place or of the same transaction are the same.
LEMMA ChainLogsDiffer ==
  ASSUME ChainOK, NEW c \in DOMAIN cursors, NEW l \in LogsOf(chain, c, 1, Len(chain)),
         NEW d \in DOMAIN cursors, NEW m \in LogsOf(chain, d, 1, Len(chain))
  PROVE  /\ l.tx = m.tx => l = m
         /\ l.block = m.block /\ l.index = m.index => l = m
<1>1. chain \in Seq(BlockRecord) /\ Len(chain) \in Nat /\ 1 \in Nat \ {0}
  BY DEF ChainOK
<1>2. l = Entry(chain, l.block, l.index) /\ m = Entry(chain, m.block, m.index)
  BY <1>1, LogParts
<1>3. l \in OnChain(chain) /\ m \in OnChain(chain)
  BY DEF OnChain
<1>4. l.tx = m.tx => l = m
  BY <1>3 DEF ChainOK, Valid
<1> QED
  BY <1>2, <1>4

-----------------------------------------------------------------------------
\* A sequence with other elements after the first few.
LEMMA OtherTail ==
  ASSUME NEW S, NEW ch \in Seq(S), NEW keep \in Nat, keep <= Len(ch), NEW n \in Nat, NEW tail \in [1..n -> S]
  PROVE  /\ SubSeq(ch, 1, keep) \o tail \in Seq(S)
         /\ Len(SubSeq(ch, 1, keep) \o tail) = keep + n
         /\ \A b \in 1..keep : (SubSeq(ch, 1, keep) \o tail)[b] = ch[b]
<1> DEFINE head == SubSeq(ch, 1, keep)
<1>1. head \in Seq(S) /\ Len(head) = keep /\ \A b \in 1..keep : head[b] = ch[b]
  OBVIOUS
<1>2. tail \in Seq(S)
  BY SeqDef
<1>3. Len(tail) = n
  BY <1>2, LenProperties
<1> HIDE DEF head
<1>4. /\ head \o tail \in Seq(S)
      /\ Len(head \o tail) = Len(head) + Len(tail)
      /\ \A i \in 1 .. Len(head) + Len(tail) : (head \o tail)[i] =
           IF i <= Len(head) THEN head[i] ELSE tail[i - Len(head)]
  BY <1>1, <1>2, ConcatProperties
<1>5. head \o tail \in Seq(S) /\ Len(head \o tail) = keep + n /\ \A b \in 1..keep : (head \o tail)[b] = ch[b]
  BY <1>1, <1>3, <1>4
<1> QED
  BY <1>5 DEF head

-----------------------------------------------------------------------------
\* The chain grows, or other blocks take the place of some that are not final.
ChainMoves == Mine \/ Reorg

\* Either way the final blocks stay where they are.
LEMMA ChainStep ==
  ASSUME IndexerInv, ChainMoves
  PROVE  /\ chain' \in Seq(BlockRecord) /\ Len(chain') \in Nat /\ Len(chain') >= Len(chain)
         /\ \A b \in 1..(Len(chain) - Finality) : b \in 1..Len(chain) /\ chain'[b] = chain[b]
         /\ Valid(chain') /\ branch' \in Nat
         /\ UNCHANGED <<sent, database, process, history>>
<1> USE FinalityIsPositive, BoundsAreNat
<1>0. /\ chain \in Seq(BlockRecord) /\ Len(chain) \in Nat /\ branch \in Nat
      /\ sent \subseteq Transactions
  BY DEF IndexerInv, ChainOK
<1>1. Blocks \subseteq BlockRecord
  <2> SUFFICES ASSUME NEW k \in 0..MaxPerBlock, NEW txs \in [1..k -> sent]
               PROVE  [hash |-> branch, txs |-> txs] \in BlockRecord
    BY DEF Blocks
  <2>1. txs \in Seq(Transactions)
    <3>1. txs \in [1..k -> Transactions] /\ k \in Nat
      BY <1>0
    <3> QED BY <3>1, SeqDef
  <2> QED BY <1>0, <2>1 DEF BlockRecord
<1>2. CASE Mine
  <2>1. PICK new \in Blocks : chain' = Append(chain, new)
    BY <1>2 DEF Mine
  <2>2. new \in BlockRecord
    BY <1>1, <2>1
  <2>3. chain' \in Seq(BlockRecord) /\ Len(chain') = Len(chain) + 1
    BY <1>0, <2>1, <2>2
  <2>4. \A b \in 1..Len(chain) : chain'[b] = chain[b]
    BY <1>0, <2>1, <2>2
  <2>5. Valid(chain') /\ UNCHANGED <<sent, branch, database, process, history>>
    BY <1>2 DEF Mine
  <2> QED BY <1>0, <2>3, <2>4, <2>5
<1>3. CASE Reorg
  <2>1. branch' = branch + 1 /\ Valid(chain') /\ UNCHANGED <<sent, database, process, history>>
    BY <1>3 DEF Reorg
  <2>2. PICK keep \in 0..(Len(chain) - 1) :
          /\ keep >= Len(chain) - Finality
          /\ \E new \in [1..(Len(chain) - keep) -> Blocks] :
               chain' = SubSeq(chain, 1, keep) \o [i \in DOMAIN new |-> [new[i] EXCEPT !.hash = branch']]
    BY <1>3 DEF Reorg
  <2>3. PICK new \in [1..(Len(chain) - keep) -> Blocks] :
               chain' = SubSeq(chain, 1, keep) \o [i \in DOMAIN new |-> [new[i] EXCEPT !.hash = branch']]
    BY <2>2
  <2> DEFINE n    == Len(chain) - keep
             tail == [i \in 1..n |-> [new[i] EXCEPT !.hash = branch']]
  <2>4. keep \in Nat /\ keep <= Len(chain) /\ n \in Nat
    BY <1>0
  <2>5. ASSUME NEW i \in 1..n PROVE [new[i] EXCEPT !.hash = branch'] \in BlockRecord
    <3>1. new[i] \in BlockRecord
      BY <1>1, <2>3
    <3>2. branch' \in Nat
      BY <1>0, <2>1
    <3> QED BY <3>1, <3>2 DEF BlockRecord
  <2>6. tail \in [1..n -> BlockRecord]
    BY <2>5
  <2>7. chain' = SubSeq(chain, 1, keep) \o tail
    BY <2>3
  <2>8. chain' \in Seq(BlockRecord) /\ Len(chain') = keep + n /\ \A b \in 1..keep : chain'[b] = chain[b]
    <3> HIDE DEF tail, n
    <3>1. chain \in Seq(BlockRecord)
      BY <1>0
    <3>2. /\ SubSeq(chain, 1, keep) \o tail \in Seq(BlockRecord)
          /\ Len(SubSeq(chain, 1, keep) \o tail) = keep + n
          /\ \A b \in 1..keep : (SubSeq(chain, 1, keep) \o tail)[b] = chain[b]
      BY ONLY <3>1, <2>4, <2>6, OtherTail, SMTT(30)
    <3> QED BY <2>7, <3>2
  <2>9. \A b \in 1..(Len(chain) - Finality) : b \in 1..keep /\ b \in 1..Len(chain)
    BY <1>0, <2>2, <2>4
  <2> QED BY <1>0, <2>1, <2>4, <2>8, <2>9
<1> QED
  BY <1>2, <1>3 DEF ChainMoves

\* A log of a block that was final before is a log of the chain before.
LEMMA FinalLogsKept ==
  ASSUME IndexerInv, ChainMoves, NEW c, NEW l \in LogsOf(chain', c, 1, Len(chain')),
         l.block <= Len(chain) - Finality
  PROVE  l \in LogsOf(chain, c, 1, Len(chain))
<1> USE FinalityIsPositive
<1>1. /\ chain' \in Seq(BlockRecord) /\ Len(chain') \in Nat
      /\ \A b \in 1..(Len(chain) - Finality) : b \in 1..Len(chain) /\ chain'[b] = chain[b]
  BY ChainStep
<1>2. chain \in Seq(BlockRecord) /\ Len(chain) \in Nat
  BY DEF IndexerInv, ChainOK
<1>3. l.block \in Nat /\ l.block >= 1
  BY <1>1, LogParts
<1>4. l \in LogsOf(chain', c, 1, Len(chain) - Finality)
  BY <1>1, <1>2, <1>3, LogsNarrow
<1>5. l \in LogsOf(chain, c, 1, Len(chain) - Finality)
  BY <1>1, <1>4, LogsFrame
<1>6. Len(chain) - Finality \in Int /\ Len(chain) - Finality <= Len(chain)
  BY <1>2
<1>7. l.block <= Len(chain)
  BY <1>2, <1>3
<1> QED
  BY <1>2, <1>3, <1>5, <1>6, <1>7, LogsNarrow

\* What is said about final blocks survives a move of the chain.
LEMMA ChainMovesInv == IndexerInv /\ ChainMoves => IndexerInv'
<1> SUFFICES ASSUME IndexerInv, ChainMoves PROVE IndexerInv'
  OBVIOUS
<1> USE FinalityIsPositive
<1>1. /\ chain' \in Seq(BlockRecord) /\ Len(chain') \in Nat /\ Len(chain') >= Len(chain)
      /\ \A b \in 1..(Len(chain) - Finality) : b \in 1..Len(chain) /\ chain'[b] = chain[b]
      /\ Valid(chain') /\ branch' \in Nat
      /\ UNCHANGED <<sent, database, process, history>>
  BY ChainStep
<1>2. chain \in Seq(BlockRecord) /\ Len(chain) \in Nat
  BY DEF IndexerInv, ChainOK
<1>3. /\ UNCHANGED <<sent, cursors, checkpoints, indexed_logs>>
      /\ UNCHANGED <<current_block, todo, contract, logs, block, last, unapplied, past>>
  BY <1>1 DEF database, process, history
<1>4. ChainOK'
  <2>1. Valid(chain)'
    BY <1>1, <1>3 DEF Valid, OnChain
  <2> QED BY <1>1, <1>3, <2>1 DEF IndexerInv, ChainOK
<1>5. RangeOK'
  <2>1. current_block' \in 0..Len(chain')
    BY <1>1, <1>2, <1>3 DEF IndexerInv, RangeOK
  <2>3. contract # None => block = 1 \/ block - 1 <= Len(chain') - Finality
    <3> SUFFICES ASSUME contract # None, block # 1 PROVE block - 1 <= Len(chain') - Finality
      OBVIOUS
    <3>1. block \in Nat /\ block - 1 <= Len(chain) - Finality
      BY DEF IndexerInv, RangeOK
    <3> QED BY <1>1, <1>2, <3>1
  <2> QED BY <1>3, <2>1, <2>3 DEF IndexerInv, RangeOK
<1>6. CursorsFinal'
  <2> SUFFICES ASSUME NEW c \in DOMAIN cursors
               PROVE  cursors[c] \in Nat /\ (cursors[c] = 0 \/ cursors[c] <= Len(chain') - Finality)
    BY <1>3 DEF CursorsFinal
  <2> QED BY <1>1, <1>2 DEF IndexerInv, CursorsFinal
<1>7. CheckpointsKnown'
  BY <1>1, <1>2, <1>3 DEF IndexerInv, CheckpointsKnown
<1>8. ASSUME contract # None, NEW m \in LogsOf(chain', contract, 1, Len(chain')), Settled(m)
      PROVE  m \in LogsOf(chain, contract, 1, Len(chain))
  <2>1. m.block \in Nat /\ m.block >= 1
    BY <1>1, <1>8, LogParts
  <2>2. m.block <= Len(chain) - Finality
    <3>1. contract \in DOMAIN cursors /\ last \in Int /\ last <= current_block - Finality
          /\ current_block \in 0..Len(chain)
      BY <1>8 DEF IndexerInv, RangeOK
    <3>2. cursors[contract] \in Nat /\ (cursors[contract] = 0 \/ cursors[contract] <= Len(chain) - Finality)
      BY <3>1 DEF IndexerInv, CursorsFinal
    <3> QED BY <1>2, <1>8, <2>1, <3>1, <3>2 DEF Settled
  <2> QED BY <1>8, <2>2, FinalLogsKept
<1>9. LogsAgree'
  <2> SUFFICES ASSUME NEW l \in logs, NEW m \in LogsOf(chain', contract, 1, Len(chain')),
                      Settled(m), m.tx = l.tx
               PROVE  m.block = l.block /\ m.index = l.index
    BY <1>3 DEF LogsAgree, Settled
  <2>1. contract # None
    BY DEF IndexerInv, RangeOK
  <2> QED BY <1>8, <2>1 DEF IndexerInv, LogsAgree
<1>10. \A m : Accounted(m) => Accounted(m)'
  BY <1>3 DEF Accounted, already_processed, Unknown
<1>11. InHand'
  <2> SUFFICES ASSUME contract # None, NEW l \in LogsOf(chain', contract, 1, Len(chain')), l.block <= last
               PROVE  Accounted(l)' \/ l \in logs
    BY <1>3 DEF InHand
  <2>1. Settled(l)
    BY DEF Settled
  <2>2. l \in LogsOf(chain, contract, 1, Len(chain))
    BY <1>8, <2>1
  <2> QED BY <1>10, <2>2 DEF IndexerInv, InHand
<1>12. FinalizedIsFinal'
  <2> SUFFICES ASSUME NEW b \in DOMAIN checkpoints, checkpoints[b].final
               PROVE  b <= Len(chain') - Finality /\ checkpoints[b].hash = chain'[b].hash
    BY <1>3 DEF FinalizedIsFinal
  <2>1. b \in 1..Len(chain) /\ b <= Len(chain) - Finality /\ checkpoints[b].hash = chain[b].hash
    BY DEF IndexerInv, FinalizedIsFinal, CheckpointsKnown
  <2> QED BY <1>1, <1>2, <2>1, SMTT(30)
<1>13. AccountedFor'
  <2> SUFFICES ASSUME NEW c \in DOMAIN cursors, NEW l \in LogsOf(chain', c, 1, cursors[c])
               PROVE  Accounted(l)'
    BY <1>3 DEF AccountedFor, Accounted
  <2>1. cursors[c] \in Nat /\ (cursors[c] = 0 \/ cursors[c] <= Len(chain) - Finality)
    BY DEF IndexerInv, CursorsFinal
  <2>2. \A b \in 1..cursors[c] : chain'[b] = chain[b]
    BY <1>1, <1>2, <2>1
  <2>3. l \in LogsOf(chain, c, 1, cursors[c])
    BY <2>2, LogsFrame
  <2>4. Accounted(l)
    BY <2>3 DEF IndexerInv, AccountedFor, Accounted
  <2> QED BY <1>10, <2>4
<1> QED
  BY <1>4, <1>5, <1>6, <1>7, <1>9, <1>11, <1>12, <1>13 DEF IndexerInv

-----------------------------------------------------------------------------
\* Of the logs in hand there is a first one, in the order of the chain.
LEMMA NextLogIsFirst ==
  ASSUME RangeOK, logs # {}
  PROVE  Next_log \in logs /\ \A m \in logs : m = Next_log \/ Before(Next_log, m)
<1> DEFINE heights == {l.block : l \in logs}
<1>1. \A l \in logs : l.block \in Nat /\ l.index \in Nat
  BY DEF RangeOK
<1>2. heights \in SUBSET Nat /\ heights # {}
  BY <1>1
<1>3. PICK h \in heights : \A k \in heights : h <= k
  <2> HIDE DEF heights
  <2> QED BY <1>2, LeastNatural
<1> DEFINE places == {l.index : l \in {m \in logs : m.block = h}}
<1>4. places \in SUBSET Nat /\ places # {}
  BY <1>1, <1>3
<1>5. PICK p \in places : \A k \in places : p <= k
  <2> HIDE DEF places
  <2> QED BY <1>4, LeastNatural
<1>6. PICK l \in logs : l.block = h /\ l.index = p
  BY <1>5
<1>7. ASSUME NEW m \in logs PROVE m = l \/ Before(l, m)
  <2>1. m.block \in Nat /\ m.index \in Nat /\ l.block \in Nat /\ l.index \in Nat
    BY <1>1
  <2>2. l.block <= m.block
    BY <1>3, <1>6
  <2>3. m.block = l.block => l.index <= m.index
    BY <1>5, <1>6
  <2>4. m.block = l.block /\ m.index = l.index => m = l
    BY DEF RangeOK
  <2> QED BY <2>1, <2>2, <2>3, <2>4 DEF Before
<1> HIDE DEF heights, places
<1> QED
  BY <1>7 DEF Next_log

\* proceed, spelled out.
LEMMA Proceeds ==
  ASSUME NEW c, NEW ls, NEW b, NEW end, proceed(c, ls, b, end)
  PROVE  /\ logs' = ls
         /\ \/ contract' = None /\ ls = {} /\ block' = 1 /\ last' = 0
            \/ contract' = c /\ block' = b /\ last' = end
BY DEF proceed

\* What is accounted for stays so: for a log of a transaction that is dealt with in the same place.
LEMMA AccountedAlike ==
  ASSUME NEW l, NEW m, m.tx = l.tx, m.index = l.index, Accounted(l)
  PROVE  Accounted(m)
BY DEF Accounted, already_processed, Unknown

\* The same after a step.
LEMMA AccountedAlikePrimed ==
  ASSUME NEW l, NEW m, m.tx = l.tx, m.index = l.index, Accounted(l)'
  PROVE  Accounted(m)'
BY DEF Accounted, already_processed, Unknown

\* One log is taken from those in hand: what it takes to lose sight of no event.
TakesLog(l) ==
    /\ proceed(contract, logs \ {l}, block, last)
    /\ UNCHANGED <<world, cursors, current_block, todo>>
    /\ checkpoints' = checkpoints \/ save_checkpoint(l)
    /\ indexed_logs \subseteq indexed_logs' /\ indexed_logs' \subseteq indexed_logs \cup {Row(l)}
    /\ \A t \in unapplied : t \in unapplied' \/ t = l.tx
    /\ unapplied' \subseteq unapplied \cup {l.tx}
    /\ past \subseteq past'

\* A log may go when it is accounted for.  Its transaction may leave `unapplied`: no other place of
\* it counts as final.
LEMMA TakesLogInv ==
  ASSUME IndexerInv, NEW l \in logs, TakesLog(l), Accounted(l)'
  PROVE  IndexerInv'
<1> USE FinalityIsPositive
<1>1. UNCHANGED <<sent, chain, branch, cursors, current_block, todo>>
  BY DEF TakesLog, world
<1>2. /\ logs' = logs \ {l}
      /\ \/ contract' = None /\ logs' = {} /\ block' = 1 /\ last' = 0
         \/ contract' = contract /\ block' = block /\ last' = last
  BY Proceeds DEF TakesLog
<1>3. chain \in Seq(BlockRecord) /\ Len(chain) \in Nat
  BY DEF IndexerInv, ChainOK
<1>4. /\ contract # None /\ contract \in DOMAIN cursors
      /\ l.block \in Nat /\ l.block >= block /\ l.block <= current_block /\ l.tx.contract = contract
      /\ block \in Nat \ {0} /\ current_block \in 0..Len(chain)
  BY DEF IndexerInv, RangeOK
<1>5. l.block \in 1..Len(chain)
  BY <1>3, <1>4
<1>6. ASSUME NEW m, Accounted(m), m.tx = l.tx => m.index = l.index
      PROVE  Accounted(m)'
  <2>1. CASE m.tx = l.tx
    BY <1>6, <2>1, AccountedAlikePrimed
  <2>2. CASE m.tx # l.tx
    BY <1>6, <2>2 DEF TakesLog, Accounted, already_processed, Unknown
  <2> QED BY <2>1, <2>2
<1>7. ChainOK'
  <2>1. Valid(chain)'
    BY <1>1 DEF IndexerInv, ChainOK, Valid, OnChain
  <2> QED BY <1>1, <2>1 DEF IndexerInv, ChainOK
<1>8. RangeOK'
  BY <1>1, <1>2 DEF IndexerInv, RangeOK
<1>9. CursorsFinal'
  BY <1>1 DEF IndexerInv, CursorsFinal
<1>10. CheckpointsKnown'
  BY <1>1, <1>5 DEF IndexerInv, CheckpointsKnown, TakesLog, save_checkpoint, Put
<1>11. LogsAgree'
  <2> SUFFICES ASSUME contract' = contract, last' = last, logs' # {} PROVE LogsAgree'
    BY <1>2 DEF LogsAgree
  <2> QED BY <1>1, <1>2 DEF IndexerInv, LogsAgree, Settled
<1>12. InHand'
  <2> SUFFICES ASSUME contract' = contract, last' = last,
                      NEW m \in LogsOf(chain, contract, 1, Len(chain)), m.block <= last
               PROVE  Accounted(m)' \/ m \in logs'
    BY <1>1, <1>2 DEF InHand
  <2>1. Accounted(m) \/ m \in logs
    BY <1>4 DEF IndexerInv, InHand
  <2>2. m.tx = l.tx => m.index = l.index
    BY DEF IndexerInv, LogsAgree, Settled
  <2>3. CASE m = l
    BY <2>3
  <2> QED BY <1>2, <1>6, <2>1, <2>2, <2>3
<1>13. FinalizedIsFinal'
  <2> SUFFICES ASSUME NEW b \in DOMAIN checkpoints', checkpoints'[b].final
               PROVE  b <= Len(chain) - Finality /\ checkpoints'[b].hash = chain[b].hash
    BY <1>1 DEF FinalizedIsFinal
  <2>1. b \in DOMAIN checkpoints /\ checkpoints[b].final /\ checkpoints'[b] = checkpoints[b]
    BY DEF TakesLog, save_checkpoint, Put
  <2> QED BY <2>1 DEF IndexerInv, FinalizedIsFinal
<1>14. AccountedFor'
  <2> SUFFICES ASSUME NEW c \in DOMAIN cursors, NEW m \in LogsOf(chain, c, 1, cursors[c])
               PROVE  Accounted(m)'
    BY <1>1 DEF AccountedFor, Accounted
  <2>1. Accounted(m)
    BY DEF IndexerInv, AccountedFor, Accounted
  <2>2. ASSUME m.tx = l.tx PROVE m.index = l.index
    <3>0. cursors[c] \in Nat /\ cursors[c] <= Len(chain)
      BY <1>3 DEF IndexerInv, CursorsFinal
    <3>1. m.block \in Nat /\ m.block >= 1 /\ m.block <= cursors[c] /\ m.tx.contract = c
      BY <1>3, <3>0, LogParts
    <3>2. c = contract
      BY <1>4, <2>2, <3>1
    <3>3. m \in LogsOf(chain, c, 1, Len(chain))
      BY <1>3, <3>0, <3>1, LogsNarrow
    <3> QED BY <2>2, <3>1, <3>2, <3>3 DEF IndexerInv, LogsAgree, Settled
  <2> QED BY <1>6, <2>1, <2>2
<1> QED
  BY <1>7, <1>8, <1>9, <1>10, <1>11, <1>12, <1>13, <1>14 DEF IndexerInv

\* Each of the four things that can become of the next log takes it and accounts for it.
Takes == skip_log \/ index_log \/ log_fails \/ log_refused

\* Each of the four steps takes the first of the logs in hand, and it is accounted for then.
LEMMA TakesNextLog ==
  ASSUME IndexerInv, Takes
  PROVE  \E l \in logs : l = Next_log /\ TakesLog(l) /\ Accounted(l)'
<1>1. logs # {}
  BY DEF Takes, skip_log, index_log, log_fails, log_refused
<1>2. PICK l \in logs : l = Next_log
  BY <1>1, NextLogIsFirst DEF IndexerInv
<1>3. CASE skip_log
  <2>1. already_processed(l) /\ proceed(contract, logs \ {l}, block, last)
        /\ UNCHANGED <<world, database, current_block, todo, history>>
    BY <1>2, <1>3 DEF skip_log
  <2>2. UNCHANGED <<world, cursors, checkpoints, indexed_logs, current_block, todo, unapplied, past>>
    BY <2>1 DEF database, history
  <2> QED BY <1>2, <2>1, <2>2 DEF TakesLog, Accounted, already_processed
<1>4. CASE index_log
  <2>1. /\ save_checkpoint(l) /\ proceed(contract, logs \ {l}, block, last)
        /\ UNCHANGED <<world, cursors, current_block, todo, past>>
        /\ \/ /\ indexed_logs' = indexed_logs \cup {Row(l)}
              /\ unapplied' = unapplied \ {l.tx}
           \/ Unknown(l) /\ UNCHANGED <<indexed_logs, unapplied>>
    BY <1>2, <1>4 DEF index_log
  <2>2. TakesLog(l)
    BY <2>1 DEF TakesLog
  <2>3. Accounted(l)'
    <3>1. Row(l).tx = l.tx /\ Row(l).index = l.index
      BY DEF Row
    <3> QED BY <2>1, <3>1 DEF Accounted, already_processed, Unknown
  <2> QED BY <1>2, <2>2, <2>3
<1>5. CASE log_fails \/ log_refused
  <2>1. /\ proceed(contract, logs \ {l}, block, last)
        /\ unapplied' = unapplied \cup {l.tx}
        /\ UNCHANGED <<world, database, current_block, todo>> /\ past \subseteq past'
    BY <1>2, <1>5 DEF log_fails, log_refused, Fails
  <2> QED BY <1>2, <2>1 DEF TakesLog, Accounted, database
<1> QED
  BY <1>2, <1>3, <1>4, <1>5 DEF Takes

-----------------------------------------------------------------------------
\* A step that leaves all this alone, whatever it does to the other tables.
Quiet == UNCHANGED <<world, cursors, checkpoints, indexed_logs, process, history>>

\* A step next to the indexer disturbs nothing.
LEMMA QuietInv == IndexerInv /\ Quiet => IndexerInv'
<1> SUFFICES ASSUME IndexerInv, Quiet PROVE IndexerInv'
  OBVIOUS
<1>1. /\ UNCHANGED <<sent, chain, branch, cursors, checkpoints, indexed_logs>>
      /\ UNCHANGED <<current_block, todo, contract, logs, block, last, unapplied, past>>
  BY DEF Quiet, world, process, history
<1>2. ChainOK' /\ RangeOK' /\ CursorsFinal' /\ CheckpointsKnown'
  BY <1>1 DEF IndexerInv, ChainOK, Valid, OnChain, RangeOK, CursorsFinal, CheckpointsKnown
<1>3. LogsAgree' /\ InHand' /\ FinalizedIsFinal' /\ AccountedFor'
  BY <1>1 DEF IndexerInv, LogsAgree, Settled, InHand, Accounted, already_processed, FinalizedIsFinal,
              AccountedFor
<1> QED
  BY <1>2, <1>3 DEF IndexerInv

\* The contract in hand is dropped, or there was none: a round begins, a call fails, a crash.
Drops ==
    /\ UNCHANGED <<world, cursors, checkpoints, indexed_logs, unapplied>> /\ past \subseteq past'
    /\ current_block' \in 0..Len(chain) /\ todo' \subseteq DOMAIN cursors
    /\ contract' = None /\ logs' = {} /\ block' = 1 /\ last' = 0

\* With no logs in hand there is nothing to lose.
LEMMA DropsInv ==
  ASSUME IndexerInv, Drops
  PROVE  IndexerInv'
<1>1. /\ UNCHANGED <<sent, chain, branch, cursors, checkpoints, indexed_logs, unapplied>>
      /\ contract' = None /\ logs' = {} /\ block' = 1 /\ last' = 0
  BY DEF Drops, world
<1>2. ChainOK' /\ RangeOK' /\ CursorsFinal' /\ CheckpointsKnown'
  BY <1>1 DEF IndexerInv, ChainOK, Valid, OnChain, RangeOK, CursorsFinal, CheckpointsKnown, Drops
<1>3. LogsAgree' /\ InHand' /\ FinalizedIsFinal' /\ AccountedFor'
  BY <1>1 DEF IndexerInv, LogsAgree, InHand, Accounted, already_processed, FinalizedIsFinal, AccountedFor
<1> QED
  BY <1>2, <1>3 DEF IndexerInv

\* The start of a round, a call that fails and a crash leave no contract in hand.
LEMMA RoundDrops ==
  ASSUME IndexerInv, poll \/ (\E c \in todo : get_logs_fails(c)) \/ crash
  PROVE  Drops
<1>1. Len(chain) \in Nat /\ current_block \in 0..Len(chain) /\ todo \subseteq DOMAIN cursors
      /\ (contract = None => logs = {} /\ block = 1 /\ last = 0)
  BY DEF IndexerInv, ChainOK, RangeOK
<1>2. CASE poll
  BY <1>1, <1>2 DEF poll, Drops, database, history
<1>3. CASE \E c \in todo : get_logs_fails(c)
  BY <1>1, <1>3 DEF get_logs_fails, Fails, Drops, database
<1>4. CASE crash
  <2>1. proceed(None, {}, 1, 0) /\ UNCHANGED <<world, database, unapplied>>
        /\ current_block' = 0 /\ todo' = {} /\ past \subseteq past'
    BY <1>4 DEF crash, Fails
  <2>2. contract' = None /\ logs' = {} /\ block' = 1 /\ last' = 0
    BY <2>1, Proceeds
  <2> QED BY <1>1, <2>1, <2>2 DEF Drops, database
<1> QED
  BY <1>2, <1>3, <1>4

\* A contract is taken in hand: below the new range all is accounted for, the rest is in its logs.
LEMMA GetLogsInv ==
  ASSUME IndexerInv, NEW c \in todo, get_logs(c)
  PROVE  IndexerInv'
<1> USE FinalityIsPositive, BoundsAreNat
<1> DEFINE start == cursors[c] + 1
           end   == Least(start + Batch, current_block)
           fresh == LogsOf(chain, c, start, end)
<1>1. /\ chain \in Seq(BlockRecord) /\ Len(chain) \in Nat
      /\ current_block \in 0..Len(chain) /\ c \in DOMAIN cursors /\ todo \subseteq DOMAIN cursors
      /\ (contract = None => logs = {} /\ block = 1 /\ last = 0)
  BY DEF IndexerInv, ChainOK, RangeOK
<1>2. /\ contract = None /\ todo' = todo \ {c}
      /\ UNCHANGED <<world, database, current_block, history>>
      /\ IF start > current_block THEN UNCHANGED <<contract, logs, block, last>>
         ELSE proceed(c, fresh, start, LastFinal(end))
  BY DEF get_logs
<1>3. CASE contract' = None
  <2>1. logs' = {} /\ block' = 1 /\ last' = 0
    <3>1. CASE start > current_block
      BY <1>1, <1>2, <3>1
    <3>2. CASE ~(start > current_block)
      <4>1. proceed(c, fresh, start, LastFinal(end))
        BY <1>2, <3>2
      <4>2. c # None
        BY <1>1 DEF IndexerInv, ChainOK
      <4> HIDE DEF fresh, start, end
      <4> QED BY <1>3, <4>1, <4>2, Proceeds
    <3> QED BY <3>1, <3>2
  <2>2. Drops
    BY <1>1, <1>2, <1>3, <2>1 DEF Drops, database, history
  <2> QED BY <2>2, DropsInv
<1>4. CASE contract' # None
  <2>1. ~(start > current_block)
    BY <1>2, <1>4
  <2>2. /\ contract' = c /\ logs' = fresh /\ block' = start /\ last' = LastFinal(end)
    <3>1. proceed(c, fresh, start, LastFinal(end))
      BY <1>2, <2>1
    <3> HIDE DEF fresh, start, end
    <3> QED BY <1>4, <3>1, Proceeds
  <2>3. /\ cursors[c] \in Nat /\ (cursors[c] = 0 \/ cursors[c] <= Len(chain) - Finality)
        /\ c # None
    BY <1>1 DEF IndexerInv, CursorsFinal, ChainOK
  <2>4. /\ start \in Nat \ {0} /\ start <= current_block
        /\ end \in Nat /\ end <= current_block /\ end <= Len(chain)
        /\ LastFinal(end) \in Int /\ LastFinal(end) <= current_block - Finality
        /\ LastFinal(end) <= end
    BY <1>1, <2>1, <2>3 DEF Least, LastFinal
  <2>5. /\ UNCHANGED <<sent, chain, branch, cursors, checkpoints, indexed_logs>>
        /\ UNCHANGED <<current_block, unapplied, past>>
    BY <1>2 DEF world, database, history
  <2> HIDE DEF start, end
  <2>6. ASSUME NEW l \in fresh
        PROVE  /\ l.block \in Nat /\ l.block >= start /\ l.block <= end
               /\ l.index \in Nat \ {0} /\ l.hash \in Nat /\ l.tx \in Transactions /\ l.tx.contract = c
               /\ l \in LogsOf(chain, c, 1, Len(chain))
    <3>1. /\ l.block \in Nat /\ l.block >= start /\ l.block <= end
          /\ l.index \in Nat \ {0} /\ l.hash \in Nat /\ l.tx \in Transactions /\ l.tx.contract = c
      BY <1>1, <2>4, LogParts
    <3>2. 1 <= l.block /\ l.block <= Len(chain)
      BY <1>1, <2>4, <3>1
    <3>3. l \in LogsOf(chain, c, 1, Len(chain))
      BY <1>1, <2>4, <3>2, LogsNarrow
    <3> QED BY <3>1, <3>3
  <2>7. ChainOK'
    <3>1. Valid(chain)'
      BY <2>5 DEF IndexerInv, ChainOK, Valid, OnChain
    <3> QED BY <2>5, <3>1 DEF IndexerInv, ChainOK
  <2>8. RangeOK'
    <3>1. \A l \in fresh : /\ l.block \in Nat /\ l.block >= start /\ l.block <= current_block
                           /\ l.index \in Nat \ {0} /\ l.hash \in Nat
                           /\ l.tx \in Transactions /\ l.tx.contract = c
      BY <1>1, <2>4, <2>6
    <3>2. \A l, m \in fresh : l.block = m.block /\ l.index = m.index => l = m
      BY <1>1, <2>6, ChainLogsDiffer DEF IndexerInv
    <3>3. start = 1 \/ start - 1 <= Len(chain) - Finality
      BY <1>1, <2>3 DEF start
    <3> HIDE DEF fresh
    <3> QED BY <1>1, <1>2, <2>2, <2>3, <2>4, <2>5, <3>1, <3>2, <3>3 DEF RangeOK
  <2>9. CursorsFinal' /\ CheckpointsKnown' /\ FinalizedIsFinal' /\ AccountedFor'
    BY <2>5 DEF IndexerInv, CursorsFinal, CheckpointsKnown, FinalizedIsFinal, AccountedFor, Accounted,
                already_processed
  <2>10. LogsAgree'
    <3> SUFFICES ASSUME NEW l \in fresh, NEW m \in LogsOf(chain, c, 1, Len(chain)), m.tx = l.tx
                 PROVE  m.block = l.block /\ m.index = l.index
      BY <2>2, <2>5 DEF LogsAgree
    <3> QED BY <1>1, <2>6, ChainLogsDiffer DEF IndexerInv
  <2>11. InHand'
    <3> SUFFICES ASSUME NEW l \in LogsOf(chain, c, 1, Len(chain)), l.block <= LastFinal(end)
                 PROVE  Accounted(l) \/ l \in fresh
      BY <2>2, <2>5 DEF InHand, Accounted, already_processed
    <3>1. l.block \in Nat /\ l.block >= 1 /\ l.block <= Len(chain)
      BY <1>1, LogParts
    <3>2. CASE l.block <= cursors[c]
      <4>1. l \in LogsOf(chain, c, 1, cursors[c])
        BY <1>1, <2>3, <3>1, <3>2, LogsNarrow
      <4> QED BY <1>1, <4>1 DEF IndexerInv, AccountedFor, Accounted
    <3>3. CASE ~(l.block <= cursors[c])
      <4>1. start <= l.block /\ l.block <= end
        BY <2>3, <2>4, <3>1, <3>3 DEF start
      <4>2. l \in fresh
        BY <1>1, <2>4, <4>1, LogsNarrow
      <4> QED BY <4>2
    <3> QED BY <3>2, <3>3
  <2> QED
    BY <2>7, <2>8, <2>9, <2>10, <2>11 DEF IndexerInv
<1> QED
  BY <1>3, <1>4

\* A block is checked, or cannot be: the contract in hand goes on with the next block.
Checks ==
    /\ contract # None /\ logs = {} /\ block <= last
    /\ proceed(contract, {}, block + 1, last)
    /\ UNCHANGED <<world, current_block, todo>>

\* What is not about checkpoints, cursors or indexed logs.
LEMMA ChecksRange ==
  ASSUME IndexerInv, Checks, DOMAIN cursors' = DOMAIN cursors
  PROVE  /\ ChainOK' /\ RangeOK' /\ LogsAgree'
         /\ logs' = {} /\ UNCHANGED chain
         /\ contract' # None => contract' = contract /\ last' = last /\ block' = block + 1
         /\ block \in 1..Len(chain) /\ block <= Len(chain) - Finality /\ contract \in DOMAIN cursors
<1> USE FinalityIsPositive
<1>1. /\ chain \in Seq(BlockRecord) /\ Len(chain) \in Nat /\ contract \in DOMAIN cursors
      /\ block \in Nat \ {0} /\ last \in Int /\ last <= current_block - Finality
      /\ current_block \in 0..Len(chain) /\ todo \subseteq DOMAIN cursors
      /\ contract # None /\ logs = {} /\ block <= last
  BY DEF IndexerInv, ChainOK, RangeOK, Checks
<1>2. /\ logs' = {}
      /\ \/ contract' = None /\ block' = 1 /\ last' = 0
         \/ contract' = contract /\ block' = block + 1 /\ last' = last
  BY Proceeds DEF Checks
<1>3. UNCHANGED <<sent, chain, branch, current_block, todo>>
  BY DEF Checks, world
<1>4. ChainOK'
  <2>1. Valid(chain)'
    BY <1>3 DEF IndexerInv, ChainOK, Valid, OnChain
  <2> QED BY <1>3, <2>1 DEF IndexerInv, ChainOK
<1>5. block <= Len(chain) - Finality /\ block \in 1..Len(chain)
  BY <1>1
<1>6. RangeOK'
  BY <1>1, <1>2, <1>3, <1>5 DEF RangeOK
<1>7. LogsAgree'
  BY <1>2 DEF LogsAgree
<1> QED
  BY <1>1, <1>2, <1>3, <1>4, <1>5, <1>6, <1>7

\* Nothing is forgotten that is not noted as taken back, and cursors stay: a rollback, the refusal
\* of one, or a check that fails.
LEMMA ChecksWithoutCursor ==
  ASSUME IndexerInv, Checks, UNCHANGED cursors,
         \A b \in DOMAIN checkpoints' : b \in DOMAIN checkpoints /\ checkpoints'[b] = checkpoints[b],
         unapplied \subseteq unapplied',
         \A r \in indexed_logs : r \in indexed_logs' \/ r.tx \in unapplied'
  PROVE  IndexerInv'
<1>1. /\ ChainOK' /\ RangeOK' /\ LogsAgree' /\ logs' = {} /\ UNCHANGED chain
      /\ contract' # None => contract' = contract /\ last' = last
      /\ contract # None /\ logs = {}
  BY ChecksRange DEF Checks
<1>2. \A m : Accounted(m) => Accounted(m)'
  BY DEF Accounted, already_processed, Unknown
<1>3. CursorsFinal' /\ CheckpointsKnown' /\ FinalizedIsFinal'
  BY <1>1 DEF IndexerInv, CursorsFinal, CheckpointsKnown, FinalizedIsFinal
<1>4. InHand'
  <2> SUFFICES ASSUME contract' # None, NEW l \in LogsOf(chain, contract, 1, Len(chain)), l.block <= last
               PROVE  Accounted(l)'
    BY <1>1 DEF InHand
  <2> QED BY <1>1, <1>2 DEF IndexerInv, InHand
<1>5. AccountedFor'
  <2> SUFFICES ASSUME NEW c \in DOMAIN cursors, NEW l \in LogsOf(chain, c, 1, cursors[c])
               PROVE  Accounted(l)'
    BY <1>1 DEF AccountedFor, Accounted
  <2> QED BY <1>2 DEF IndexerInv, AccountedFor, Accounted
<1> QED
  BY <1>1, <1>3, <1>4, <1>5 DEF IndexerInv

\* The block is final and has the hash of its checkpoint; the cursor moves past logs that have all been
\* worked off.
LEMMA FinalizeInv ==
  ASSUME IndexerInv, Checks, ~Mismatch(block), finalize_block(block)
  PROVE  IndexerInv'
<1> USE FinalityIsPositive
<1>1. cursors' = [cursors EXCEPT ![contract] = block] /\ UNCHANGED <<indexed_logs, unapplied>>
  BY DEF finalize_block, history
<1>2. DOMAIN cursors' = DOMAIN cursors
  BY <1>1
<1>3. /\ ChainOK' /\ RangeOK' /\ LogsAgree' /\ logs' = {} /\ UNCHANGED chain
      /\ contract' # None => contract' = contract /\ last' = last
      /\ block \in 1..Len(chain) /\ block <= Len(chain) - Finality /\ contract \in DOMAIN cursors
      /\ contract # None /\ logs = {} /\ block <= last
  BY <1>2, ChecksRange DEF Checks
<1>4. chain \in Seq(BlockRecord) /\ Len(chain) \in Nat /\ last \in Int /\ last <= Len(chain)
  BY <1>3 DEF IndexerInv, ChainOK, RangeOK
<1>5. \A m : Accounted(m) => Accounted(m)'
  BY <1>1 DEF Accounted, already_processed, Unknown
<1>6. CursorsFinal'
  <2> SUFFICES ASSUME NEW c \in DOMAIN cursors
               PROVE  cursors'[c] \in Nat /\ (cursors'[c] = 0 \/ cursors'[c] <= Len(chain) - Finality)
    BY <1>2, <1>3 DEF CursorsFinal
  <2>1. CASE c = contract
    BY <1>1, <1>3, <2>1
  <2>2. CASE c # contract
    BY <1>1, <2>2 DEF IndexerInv, CursorsFinal
  <2> QED BY <2>1, <2>2
<1>7. /\ DOMAIN checkpoints' = DOMAIN checkpoints
      /\ \A b \in DOMAIN checkpoints : b # block => checkpoints'[b] = checkpoints[b]
      /\ block \in DOMAIN checkpoints => checkpoints'[block].hash = checkpoints[block].hash
  <2>1. checkpoints' = IF block \in DOMAIN checkpoints THEN [checkpoints EXCEPT ![block].final = TRUE]
                       ELSE checkpoints
    BY DEF finalize_block
  <2> QED BY <2>1
<1>8. CheckpointsKnown'
  BY <1>3, <1>7 DEF IndexerInv, CheckpointsKnown
<1>9. FinalizedIsFinal'
  <2> SUFFICES ASSUME NEW b \in DOMAIN checkpoints', checkpoints'[b].final
               PROVE  b <= Len(chain) - Finality /\ checkpoints'[b].hash = chain[b].hash
    BY <1>3 DEF FinalizedIsFinal
  <2>1. CASE b = block
    BY <1>3, <1>7, <2>1 DEF Mismatch
  <2>2. CASE b # block
    BY <1>7, <2>2 DEF IndexerInv, FinalizedIsFinal
  <2> QED BY <2>1, <2>2
<1>10. InHand'
  <2> SUFFICES ASSUME contract' # None, NEW l \in LogsOf(chain, contract, 1, Len(chain)), l.block <= last
               PROVE  Accounted(l)'
    BY <1>3 DEF InHand
  <2> QED BY <1>3, <1>5 DEF IndexerInv, InHand
<1>11. AccountedFor'
  <2> SUFFICES ASSUME NEW c \in DOMAIN cursors, NEW l \in LogsOf(chain, c, 1, cursors'[c])
               PROVE  Accounted(l)'
    BY <1>2, <1>3 DEF AccountedFor, Accounted
  <2>1. CASE c = contract
    <3>1. cursors'[c] = block
      BY <1>1, <1>3, <2>1
    <3>2. l.block \in Nat /\ l.block >= 1 /\ l.block <= block
      BY <1>3, <1>4, <3>1, LogParts
    <3>3. l \in LogsOf(chain, c, 1, Len(chain))
      BY <1>3, <1>4, <3>1, <3>2, LogsNarrow
    <3>4. l.block <= last
      BY <1>3, <1>4, <3>2
    <3> QED BY <1>3, <1>5, <2>1, <3>3, <3>4 DEF IndexerInv, InHand
  <2>2. CASE c # contract
    <3>1. cursors'[c] = cursors[c]
      BY <1>1, <2>2
    <3> QED BY <1>5, <3>1 DEF IndexerInv, AccountedFor, Accounted
  <2> QED BY <2>1, <2>2
<1> QED
  BY <1>3, <1>6, <1>8, <1>9, <1>10, <1>11 DEF IndexerInv

\* What a rollback leaves of the checkpoints and of the indexed logs.
LEMMA RollbackKeeps ==
  ASSUME NEW b, rollback_unfinalized(b)
  PROVE  /\ UNCHANGED cursors
         /\ \A k : k \in DOMAIN checkpoints' <=>
                     k \in DOMAIN checkpoints /\ ~(k >= b /\ ~checkpoints[k].final)
         /\ \A k \in DOMAIN checkpoints' : checkpoints'[k] = checkpoints[k]
         /\ unapplied \subseteq unapplied'
         /\ \A r \in indexed_logs : r \in indexed_logs' \/ r.tx \in unapplied'
         /\ indexed_logs' = {l \in indexed_logs : l.block < b}
BY DEF rollback_unfinalized, forget_blocks, forget_logs, Drop

\* The check of a block, whatever comes of it.
LEMMA CheckBlockInv ==
  ASSUME IndexerInv, check_block \/ check_fails
  PROVE  IndexerInv'
<1>1. Checks
  BY DEF check_block, check_fails, Checks
<1>2. CASE rollback_unfinalized(block)
  <2>1. /\ UNCHANGED cursors
        /\ \A b \in DOMAIN checkpoints' : b \in DOMAIN checkpoints /\ checkpoints'[b] = checkpoints[b]
        /\ unapplied \subseteq unapplied'
        /\ \A r \in indexed_logs : r \in indexed_logs' \/ r.tx \in unapplied'
    BY <1>2, RollbackKeeps
  <2> QED BY <1>1, <2>1, ChecksWithoutCursor
<1>3. CASE rollback_refused \/ check_fails
  <2>1. UNCHANGED <<cursors, checkpoints, indexed_logs, unapplied>>
    BY <1>3 DEF rollback_refused, check_fails, database
  <2> QED BY <1>1, <2>1, ChecksWithoutCursor
<1>4. CASE ~Mismatch(block) /\ finalize_block(block)
  BY <1>1, <1>4, FinalizeInv
<1> QED
  BY <1>2, <1>3, <1>4 DEF check_block

-----------------------------------------------------------------------------
\* Nothing is mined, indexed or in hand at first.
LEMMA InitInv == Init => IndexerInv
<1> SUFFICES ASSUME Init PROVE IndexerInv
  OBVIOUS
<1>1. /\ chain = << >> /\ branch = 0 /\ checkpoints = << >> /\ indexed_logs = {}
      /\ current_block = 0 /\ todo = {} /\ contract = None /\ logs = {} /\ block = 1 /\ last = 0
  BY DEF Init
<1>2. PICK s \in Scenarios : sent = s.events /\ cursors = [c \in s.contracts |-> 0]
  BY DEF Init
<1>3. Len(chain) = 0 /\ chain \in Seq(BlockRecord)
  BY <1>1
<1>4. \A c, k : LogsOf(chain, c, 1, Len(chain)) = {} /\ LogsOf(chain, c, 1, 0) = {}
  BY <1>3, LogsMember
<1>5. ChainOK
  <2>1. OnChain(chain) = {}
    BY <1>4 DEF OnChain
  <2>2. Valid(chain)
    BY <2>1 DEF Valid
  <2>3. None \notin DOMAIN cursors /\ sent \subseteq Transactions
    BY <1>2, ScenariosClosed DEF Transactions
  <2> QED BY <1>1, <1>3, <2>2, <2>3 DEF ChainOK
<1>6. DOMAIN checkpoints = {}
  BY <1>1
<1>7. \A c \in DOMAIN cursors : cursors[c] = 0
  BY <1>2
<1>8. RangeOK /\ CursorsFinal /\ CheckpointsKnown /\ LogsAgree /\ InHand /\ FinalizedIsFinal
  BY <1>1, <1>3, <1>6, <1>7 DEF RangeOK, CursorsFinal, CheckpointsKnown, LogsAgree, InHand, FinalizedIsFinal
<1>9. AccountedFor
  BY <1>4, <1>7 DEF AccountedFor
<1> QED
  BY <1>5, <1>8, <1>9 DEF IndexerInv

\* The users and the orders a gateway stores are no concern of the invariant.
LEMMA StoresAreQuiet ==
  ASSUME \E o \in Orders : ensure_user(o.user) \/ insert_order(o)
  PROVE  Quiet
BY DEF ensure_user, insert_order, Quiet

\* No step of the indexer or of the chain disturbs it.
LEMMA IndexerStep == IndexerInv /\ (ChainMoves \/ Work \/ Failure \/ Quiet) => IndexerInv'
<1> SUFFICES ASSUME IndexerInv, ChainMoves \/ Work \/ Failure \/ Quiet PROVE IndexerInv'
  OBVIOUS
<1>1. CASE ChainMoves
  BY <1>1, ChainMovesInv
<1>2. CASE Quiet
  BY <1>2, QuietInv
<1>3. CASE Takes
  <2>1. PICK l \in logs : TakesLog(l) /\ Accounted(l)'
    BY <1>3, TakesNextLog
  <2> QED BY <2>1, TakesLogInv
<1>4. CASE poll \/ (\E c \in todo : get_logs_fails(c)) \/ crash
  BY <1>4, RoundDrops, DropsInv
<1>5. CASE \E c \in todo : get_logs(c)
  BY <1>5, GetLogsInv
<1>6. CASE check_block \/ check_fails
  BY <1>6, CheckBlockInv
<1>7. CASE Work
  BY <1>3, <1>4, <1>5, <1>6, <1>7 DEF Work, Takes
<1>8. CASE Failure
  BY <1>3, <1>4, <1>6, <1>8 DEF Failure, Takes
<1> QED
  BY <1>1, <1>2, <1>7, <1>8

\* The invariant of the indexer next to any gateway that stores users and orders.
THEOREM IndexerInvariant == Spec => []IndexerInv
<1>1. IndexerInv /\ [Next]_vars => IndexerInv'
  <2> SUFFICES ASSUME IndexerInv, [Next]_vars PROVE IndexerInv'
    OBVIOUS
  <2>1. CASE Next
    BY <2>1, StoresAreQuiet, IndexerStep DEF Next, ChainMoves
  <2>2. CASE UNCHANGED vars
    <3>1. Quiet
      BY <2>2 DEF vars, database, Quiet
    <3> QED BY <3>1, QuietInv
  <2> QED BY <2>1, <2>2
<1> QED
  BY InitInv, <1>1, PTL DEF Spec

-----------------------------------------------------------------------------
\* The hashes.  A checkpoint in the part of the chain a cursor has passed is right unless a check has
\* failed; so a rollback, which begins at a wrong one, begins above every cursor.
LEMMA ChainMovesStay ==
  ASSUME IndexerInv, StayInv, ChainMoves
  PROVE  StayInv'
<1> USE FinalityIsPositive
<1>1. /\ \A b \in 1..(Len(chain) - Finality) : chain'[b] = chain[b]
      /\ UNCHANGED <<cursors, checkpoints, indexed_logs, contract, logs, block, past>>
  BY ChainStep DEF database, process, history
<1>2. Len(chain) \in Nat
  BY DEF IndexerInv, ChainOK
<1>3. \A c \in DOMAIN cursors : cursors[c] \in Nat /\ (cursors[c] = 0 \/ cursors[c] <= Len(chain) - Finality)
  BY DEF IndexerInv, CursorsFinal
<1>4. ASSUME NEW b \in 1..Len(chain), NEW c \in DOMAIN cursors, b <= cursors[c]
      PROVE  chain'[b] = chain[b]
  BY <1>1, <1>2, <1>3, <1>4
<1>5. DOMAIN checkpoints \subseteq 1..Len(chain)
  BY DEF IndexerInv, CheckpointsKnown
<1>6. CheckedAreRight'
  <2> SUFFICES ASSUME past \cap Unchecked = {}, NEW b \in DOMAIN checkpoints
               PROVE  /\ \A c \in DOMAIN cursors : b <= cursors[c] => checkpoints[b].hash = chain'[b].hash
                      /\ contract # None /\ b < block => checkpoints[b].hash = chain'[b].hash
    BY <1>1 DEF CheckedAreRight
  <2>1. ASSUME NEW c \in DOMAIN cursors, b <= cursors[c] PROVE checkpoints[b].hash = chain'[b].hash
    BY <1>4, <1>5, <2>1 DEF StayInv, CheckedAreRight
  <2>2. ASSUME contract # None, b < block PROVE checkpoints[b].hash = chain'[b].hash
    <3>1. block \in Nat \ {0} /\ (block = 1 \/ block - 1 <= Len(chain) - Finality)
      BY <2>2 DEF IndexerInv, RangeOK
    <3>2. b \in 1..(Len(chain) - Finality)
      BY <1>2, <1>5, <2>2, <3>1
    <3>3. chain'[b] = chain[b]
      BY <1>1, <3>2
    <3> QED BY <2>2, <3>3 DEF StayInv, CheckedAreRight
  <2> QED BY <2>1, <2>2
<1>7. LogsRight'
  <2> SUFFICES ASSUME NEW l \in logs, NEW c \in DOMAIN cursors, l.block <= cursors[c]
               PROVE  l.hash = chain'[l.block].hash
    BY <1>1 DEF LogsRight
  <2>1. l.block \in 1..Len(chain)
    <3>1. l.block \in Nat /\ l.block >= block /\ l.block <= current_block
          /\ current_block \in 0..Len(chain) /\ block \in Nat \ {0}
      BY DEF IndexerInv, RangeOK
    <3> QED BY <1>2, <3>1
  <2> QED BY <1>4, <2>1 DEF StayInv, LogsRight
<1> QED
  BY <1>1, <1>6, <1>7 DEF StayInv, RowsPolled

\* A step next to the indexer changes no hash and no row of indexed_logs.
LEMMA QuietStay ==
  ASSUME StayInv, Quiet
  PROVE  StayInv'
<1>1. UNCHANGED <<chain, cursors, checkpoints, indexed_logs, contract, logs, block, past>>
  BY DEF Quiet, world, process, history
<1> QED
  BY <1>1 DEF StayInv, CheckedAreRight, LogsRight, RowsPolled

\* Nor does giving up what is in hand.
LEMMA DropsStay ==
  ASSUME StayInv, Drops
  PROVE  StayInv'
<1>1. /\ UNCHANGED <<chain, cursors, checkpoints, indexed_logs>> /\ past \subseteq past'
      /\ contract' = None /\ logs' = {}
  BY DEF Drops, world
<1> QED
  BY <1>1 DEF StayInv, CheckedAreRight, LogsRight, RowsPolled

\* The block of a log that is taken is above the cursor or its hash was right when the log came.
LEMMA TakesLogStay ==
  ASSUME IndexerInv, StayInv, NEW l \in logs, TakesLog(l)
  PROVE  StayInv'
<1>1. /\ UNCHANGED <<chain, cursors>> /\ past \subseteq past'
      /\ logs' \subseteq logs /\ (contract' # None => contract' = contract /\ block' = block)
      /\ indexed_logs' \subseteq indexed_logs \cup {Row(l)}
  BY Proceeds DEF TakesLog, world
<1>2. /\ contract \in DOMAIN cursors /\ contract # None /\ l.tx.contract = contract
      /\ l.block \in Nat /\ l.block >= block /\ block \in Nat
  BY DEF IndexerInv, RangeOK
<1>3. \A b \in DOMAIN checkpoints' :
         \/ b \in DOMAIN checkpoints /\ checkpoints'[b] = checkpoints[b]
         \/ b = l.block /\ checkpoints'[b].hash = l.hash
  BY DEF TakesLog, save_checkpoint, Put
<1>4. CheckedAreRight'
  <2> SUFFICES ASSUME past \cap Unchecked = {}, NEW b \in DOMAIN checkpoints'
               PROVE  /\ \A c \in DOMAIN cursors : b <= cursors[c] => checkpoints'[b].hash = chain[b].hash
                      /\ b < block => checkpoints'[b].hash = chain[b].hash
    BY <1>1 DEF CheckedAreRight
  <2>1. CASE b \in DOMAIN checkpoints /\ checkpoints'[b] = checkpoints[b]
    BY <1>2, <2>1 DEF StayInv, CheckedAreRight
  <2>2. CASE b = l.block /\ checkpoints'[b].hash = l.hash
    <3>1. ~(b < block)
      BY <1>2, <2>2
    <3> QED BY <2>2, <3>1 DEF StayInv, LogsRight
  <2> QED BY <1>3, <2>1, <2>2
<1>5. LogsRight'
  BY <1>1 DEF StayInv, LogsRight
<1>6. RowsPolled'
  <2>1. Row(l).tx = l.tx /\ Row(l).block = l.block
    BY DEF Row
  <2> QED BY <1>1, <1>2, <2>1 DEF StayInv, RowsPolled
<1> QED
  BY <1>4, <1>5, <1>6 DEF StayInv

\* The logs of a range come with the hashes that the chain has then.
LEMMA GetLogsStay ==
  ASSUME IndexerInv, StayInv, NEW c \in todo, get_logs(c)
  PROVE  StayInv'
<1> USE BoundsAreNat
<1> DEFINE start == cursors[c] + 1
           end   == Least(start + Batch, current_block)
           fresh == LogsOf(chain, c, start, end)
<1>1. /\ contract = None
      /\ UNCHANGED <<world, database, current_block, history>>
      /\ IF start > current_block THEN UNCHANGED <<contract, logs, block, last>>
         ELSE proceed(c, fresh, start, LastFinal(end))
  BY DEF get_logs
<1>2. UNCHANGED <<chain, cursors, checkpoints, indexed_logs, past>>
  BY <1>1 DEF world, database, history
<1>3. CASE start > current_block
  BY <1>1, <1>2, <1>3 DEF StayInv, CheckedAreRight, LogsRight, RowsPolled
<1>4. CASE ~(start > current_block)
  <2>1. logs' = fresh /\ (contract' # None => contract' = c /\ block' = start)
    <3>1. proceed(c, fresh, start, LastFinal(end))
      BY <1>1, <1>4
    <3> HIDE DEF start, end, fresh
    <3> QED BY <3>1, Proceeds
  <2>2. /\ chain \in Seq(BlockRecord) /\ Len(chain) \in Nat /\ current_block \in 0..Len(chain)
        /\ c \in DOMAIN cursors /\ cursors[c] \in Nat
    BY DEF IndexerInv, ChainOK, RangeOK, CursorsFinal
  <2>3. start \in Nat \ {0} /\ end \in Nat /\ end <= Len(chain)
    BY <1>4, <2>2 DEF Least
  <2>4. LogsRight'
    <3> SUFFICES ASSUME NEW l \in fresh PROVE l.hash = chain[l.block].hash
      BY <1>2, <2>1 DEF LogsRight
    <3> HIDE DEF start, end
    <3> QED BY <2>2, <2>3, LogParts
  <2>5. CheckedAreRight'
    <3> SUFFICES ASSUME past \cap Unchecked = {}, contract' # None, NEW b \in DOMAIN checkpoints, b < start
                 PROVE  checkpoints[b].hash = chain[b].hash
      BY <1>2, <2>1 DEF StayInv, CheckedAreRight
    <3>1. b \in Nat
      BY DEF IndexerInv, CheckpointsKnown
    <3>2. b <= cursors[c]
      BY <2>2, <3>1
    <3> QED BY <2>2, <3>2 DEF StayInv, CheckedAreRight
  <2> QED BY <1>2, <2>4, <2>5 DEF StayInv, RowsPolled
<1> QED
  BY <1>3, <1>4

\* A block whose check does not fail has the right hash, or its checkpoint goes.
LEMMA CheckBlockStay ==
  ASSUME IndexerInv, StayInv, check_block \/ check_fails
  PROVE  StayInv'
<1>1. Checks
  BY DEF check_block, check_fails, Checks
<1>2. ASSUME DOMAIN cursors' = DOMAIN cursors
      PROVE  /\ logs' = {} /\ UNCHANGED chain
             /\ contract' # None => contract' = contract /\ block' = block + 1
             /\ block \in Nat /\ contract \in DOMAIN cursors /\ contract # None
  BY <1>1, <1>2, ChecksRange DEF Checks
<1>3. DOMAIN checkpoints \subseteq Nat
  BY DEF IndexerInv, CheckpointsKnown
<1>4. CASE rollback_refused \/ check_fails
  <2>1. UNCHANGED <<cursors, indexed_logs>> /\ past' \cap Unchecked # {}
    BY <1>4 DEF rollback_refused, check_fails, Fails, database, Unchecked
  <2> QED BY <1>2, <2>1 DEF StayInv, CheckedAreRight, LogsRight, RowsPolled
<1>5. CASE Mismatch(block) /\ rollback_unfinalized(block)
  <2>1. /\ UNCHANGED cursors /\ past \subseteq past'
        /\ \A k \in DOMAIN checkpoints' :
              /\ k \in DOMAIN checkpoints /\ checkpoints'[k] = checkpoints[k]
              /\ ~(k >= block /\ ~checkpoints[k].final)
        /\ indexed_logs' \subseteq indexed_logs
    <3>1. past \subseteq past'
      BY <1>5 DEF rollback_unfinalized
    <3> QED BY <1>5, <3>1, RollbackKeeps
  <2>2. \A k \in DOMAIN checkpoints' : k # block
    BY <1>2, <1>5, <2>1 DEF Mismatch, IndexerInv, FinalizedIsFinal
  <2>3. CheckedAreRight'
    <3> SUFFICES ASSUME past \cap Unchecked = {}, NEW b \in DOMAIN checkpoints'
                 PROVE  /\ \A c \in DOMAIN cursors : b <= cursors[c] => checkpoints'[b].hash = chain[b].hash
                        /\ b < block + 1 => checkpoints'[b].hash = chain[b].hash
      BY <1>2, <2>1 DEF CheckedAreRight
    <3>1. b < block + 1 => b < block
      BY <1>2, <1>3, <2>1, <2>2
    <3> QED BY <1>2, <2>1, <3>1 DEF StayInv, CheckedAreRight
  <2> QED BY <1>2, <2>1, <2>3 DEF StayInv, LogsRight, RowsPolled
<1>6. CASE ~Mismatch(block) /\ finalize_block(block)
  <2>1. /\ cursors' = [cursors EXCEPT ![contract] = block] /\ UNCHANGED <<indexed_logs, past>>
        /\ checkpoints' = IF block \in DOMAIN checkpoints THEN [checkpoints EXCEPT ![block].final = TRUE]
                          ELSE checkpoints
    BY <1>6 DEF finalize_block, history
  <2>2. DOMAIN cursors' = DOMAIN cursors
    BY <2>1
  <2>3. /\ DOMAIN checkpoints' = DOMAIN checkpoints
        /\ \A b \in DOMAIN checkpoints : checkpoints'[b].hash = checkpoints[b].hash
    BY <2>1
  <2>4. CheckedAreRight'
    <3> SUFFICES ASSUME past \cap Unchecked = {}, NEW b \in DOMAIN checkpoints
                 PROVE  /\ \A c \in DOMAIN cursors : b <= cursors'[c] => checkpoints[b].hash = chain[b].hash
                        /\ b < block + 1 => checkpoints[b].hash = chain[b].hash
      BY <1>2, <2>1, <2>2, <2>3 DEF CheckedAreRight
    <3>1. b < block + 1 => checkpoints[b].hash = chain[b].hash
      <4>1. b < block \/ b = block \/ ~(b < block + 1)
        BY <1>2, <1>3, <2>2
      <4>2. b = block => checkpoints[b].hash = chain[b].hash
        BY <1>6 DEF Mismatch
      <4>3. b < block => checkpoints[b].hash = chain[b].hash
        BY <1>2, <2>2 DEF StayInv, CheckedAreRight
      <4> QED BY <4>1, <4>2, <4>3
    <3>2. ASSUME NEW c \in DOMAIN cursors, b <= cursors'[c] PROVE checkpoints[b].hash = chain[b].hash
      <4>1. CASE c = contract
        <5>1. b <= block
          BY <1>2, <2>1, <2>2, <3>2, <4>1
        <5>2. b < block + 1
          BY <1>2, <1>3, <2>2, <5>1
        <5> QED BY <3>1, <5>2
      <4>2. CASE c # contract
        BY <2>1, <3>2, <4>2 DEF StayInv, CheckedAreRight
      <4> QED BY <4>1, <4>2
    <3> QED BY <3>1, <3>2
  <2>5. LogsRight' /\ RowsPolled'
    BY <1>2, <2>1, <2>2 DEF StayInv, LogsRight, RowsPolled
  <2> QED BY <2>4, <2>5 DEF StayInv
<1> QED
  BY <1>4, <1>5, <1>6 DEF check_block

\* No step of the indexer or of the chain disturbs what is known of the hashes.
LEMMA StayStep == IndexerInv /\ StayInv /\ (ChainMoves \/ Work \/ Failure \/ Quiet) => StayInv'
<1> SUFFICES ASSUME IndexerInv, StayInv, ChainMoves \/ Work \/ Failure \/ Quiet PROVE StayInv'
  OBVIOUS
<1>1. CASE ChainMoves
  BY <1>1, ChainMovesStay
<1>2. CASE Quiet
  BY <1>2, QuietStay
<1>3. CASE Takes
  <2>1. PICK l \in logs : TakesLog(l)
    BY <1>3, TakesNextLog
  <2> QED BY <2>1, TakesLogStay
<1>4. CASE poll \/ (\E c \in todo : get_logs_fails(c)) \/ crash
  BY <1>4, RoundDrops, DropsStay
<1>5. CASE \E c \in todo : get_logs(c)
  BY <1>5, GetLogsStay
<1>6. CASE check_block \/ check_fails
  BY <1>6, CheckBlockStay
<1>7. CASE Work
  BY <1>3, <1>4, <1>5, <1>6, <1>7 DEF Work, Takes
<1>8. CASE Failure
  BY <1>3, <1>4, <1>6, <1>8 DEF Failure, Takes
<1> QED
  BY <1>1, <1>2, <1>7, <1>8

\* No hash is noted at first.
LEMMA InitStay == Init => StayInv
<1> SUFFICES ASSUME Init PROVE StayInv
  OBVIOUS
<1>1. checkpoints = << >> /\ indexed_logs = {} /\ contract = None /\ logs = {}
  BY DEF Init
<1>2. DOMAIN checkpoints = {}
  BY <1>1
<1> QED
  BY <1>1, <1>2 DEF StayInv, CheckedAreRight, LogsRight, RowsPolled

\* No step deletes a log at or below the cursor of its contract, unless a check has failed.
Spares ==
    past' \cap Unchecked = {} =>
        \A l \in indexed_logs : l.block <= cursors[l.tx.contract] => l \in indexed_logs'

\* Only a rollback deletes logs; it begins at a block with a wrong checkpoint, above every cursor.
LEMMA StepSpares ==
  ASSUME IndexerInv, StayInv, ChainMoves \/ Work \/ Failure \/ Quiet
  PROVE  Spares
<1>1. CASE ChainMoves
  BY <1>1, ChainStep DEF database, Spares
<1>2. CASE Quiet
  BY <1>2 DEF Quiet, Spares
<1>3. CASE Takes
  <2>1. PICK l \in logs : TakesLog(l)
    BY <1>3, TakesNextLog
  <2> QED BY <2>1 DEF TakesLog, Spares
<1>4. CASE poll \/ (\E c \in todo : get_logs_fails(c)) \/ crash
  BY <1>4, RoundDrops DEF Drops, Spares
<1>5. CASE \E c \in todo : get_logs(c)
  BY <1>5 DEF get_logs, database, Spares
<1>6. CASE check_fails \/ (check_block /\ (rollback_refused \/ finalize_block(block)))
  BY <1>6 DEF check_fails, rollback_refused, finalize_block, database, Spares
<1>7. CASE check_block /\ Mismatch(block) /\ rollback_unfinalized(block)
  <2> SUFFICES ASSUME past' \cap Unchecked = {}, NEW l \in indexed_logs, l.block <= cursors[l.tx.contract],
                      l \notin indexed_logs'
               PROVE  FALSE
    BY DEF Spares
  <2> DEFINE d == l.tx.contract
  <2>1. indexed_logs' = {x \in indexed_logs : x.block < block} /\ past \subseteq past'
    <3>1. past \subseteq past'
      BY <1>7 DEF rollback_unfinalized
    <3> QED BY <1>7, <3>1, RollbackKeeps
  <2>2. /\ l.block \in Nat /\ d \in DOMAIN cursors /\ cursors[d] \in Nat
        /\ ~(l.block < block) /\ l.block <= cursors[d]
    BY <2>1 DEF StayInv, RowsPolled, IndexerInv, CursorsFinal
  <2>3. block \in Nat
    BY <1>7 DEF check_block, IndexerInv, RangeOK
  <2>4. block <= cursors[d]
    BY <2>2, <2>3
  <2>5. block \in DOMAIN checkpoints /\ checkpoints[block].hash # chain[block].hash
    BY <1>7 DEF Mismatch
  <2> QED BY <2>1, <2>2, <2>4, <2>5 DEF StayInv, CheckedAreRight
<1> QED
  BY <1>1, <1>2, <1>3, <1>4, <1>5, <1>6, <1>7 DEF Work, Failure, Takes, check_block

-----------------------------------------------------------------------------
\* The types.  What IndexerInv says of the process and the cursors is not repeated here.
BlocksUpTo(h) == {b \in [hash : 0..h, txs : Seq(sent)] : Len(b.txs) <= MaxPerBlock}

FaultsTyped == past \subseteq Past /\ faults \in 0..MaxFaults

Typed ==
    /\ branch \in 0..MaxReorgs /\ chain \in Seq(BlocksUpTo(branch)) /\ Len(chain) <= MaxHeight
    /\ DOMAIN cursors \subseteq Contracts
    /\ \A b \in DOMAIN checkpoints : checkpoints[b] \in [hash : 0..branch, final : BOOLEAN]
    /\ indexed_logs \subseteq RowRecord /\ logs \subseteq LogRecord
    /\ \A l \in logs : l.hash <= branch
    /\ unapplied \subseteq Transactions /\ FaultsTyped

RowsTyped ==
    /\ users \subseteq Users /\ DOMAIN balances \subseteq users
    /\ \A u \in DOMAIN balances : balances[u] \in BalanceRow
    /\ nonces \in [Users -> Nat] /\ inverted \subseteq DOMAIN balances
    /\ DOMAIN markets \subseteq Markets
    /\ \A m \in DOMAIN markets : markets[m] \in MarketRow
    /\ DOMAIN orders \subseteq Orders /\ \A o \in DOMAIN orders : orders[o] \in {"open", "cancelled"}

\* The type invariant is made of the invariant and the rest of the types.
LEMMA TypesTogether ==
  ASSUME IndexerInv, Typed, RowsTyped
  PROVE  TypeOK
<1> USE FinalityIsPositive
<1>1. /\ Len(chain) \in Nat /\ DOMAIN chain = 1..Len(chain)
  BY DEF IndexerInv, ChainOK
<1>2. /\ current_block \in 0..Len(chain) /\ todo \subseteq DOMAIN cursors
      /\ contract \in DOMAIN cursors \cup {None}
      /\ block \in 1..(Len(chain) + 1) /\ last <= Len(chain)
  <2>1. CASE contract = None
    BY <1>1, <2>1 DEF IndexerInv, RangeOK
  <2>2. CASE contract # None
    <3>1. /\ contract \in DOMAIN cursors /\ block \in Nat \ {0}
          /\ last \in Int /\ last <= current_block - Finality
          /\ block = 1 \/ block - 1 <= Len(chain) - Finality
          /\ current_block \in 0..Len(chain) /\ todo \subseteq DOMAIN cursors
      BY <2>2 DEF IndexerInv, RangeOK
    <3>2. block <= Len(chain) + 1 /\ last <= Len(chain)
      BY <1>1, <3>1
    <3> QED BY <1>1, <3>1, <3>2
  <2> QED BY <2>1, <2>2
<1>3. \A c \in DOMAIN cursors : cursors[c] \in 0..Len(chain)
  BY <1>1 DEF IndexerInv, CursorsFinal
<1>4. \A b \in DOMAIN chain : chain[b].hash \in 0..branch /\ chain[b].txs \in Seq(sent)
  BY <1>1 DEF Typed, BlocksUpTo
<1>5. DOMAIN checkpoints \subseteq DOMAIN chain /\ sent \subseteq Transactions
  BY <1>1 DEF IndexerInv, CheckpointsKnown, ChainOK
<1> QED
  BY <1>2, <1>3, <1>4, <1>5 DEF TypeOK, FaultsTyped, Typed, RowsTyped

\* New blocks are on the current branch, or on the next.
LEMMA ChainMovesTyped ==
  ASSUME IndexerInv, Typed, ChainMoves
  PROVE  Typed'
<1> USE FinalityIsPositive, BoundsAreNat
<1>1. UNCHANGED <<sent, cursors, checkpoints, indexed_logs, logs, unapplied, past, faults>>
  BY ChainStep DEF database, process, history
<1>2. /\ branch \in 0..MaxReorgs /\ chain \in Seq(BlocksUpTo(branch)) /\ Len(chain) <= MaxHeight
      /\ Len(chain) \in Nat
  BY DEF Typed, IndexerInv, ChainOK
<1>3. ASSUME NEW new \in Blocks, NEW h \in Nat, branch <= h
      PROVE  new \in BlocksUpTo(h) /\ [new EXCEPT !.hash = h] \in BlocksUpTo(h)
  <2>1. PICK k \in 0..MaxPerBlock : \E txs \in [1..k -> sent] : new = [hash |-> branch, txs |-> txs]
    BY DEF Blocks
  <2>2. PICK txs \in [1..k -> sent] : new = [hash |-> branch, txs |-> txs]
    BY <2>1
  <2>3. txs \in Seq(sent) /\ Len(txs) = k
    <3>1. k \in Nat
      OBVIOUS
    <3>2. txs \in Seq(sent)
      BY <3>1, SeqDef
    <3> QED BY <3>1, <3>2, LenProperties
  <2>4. k <= MaxPerBlock /\ branch \in 0..h /\ h \in 0..h
    BY <1>2, <1>3
  <2>5. new = [hash |-> branch, txs |-> txs] /\ [new EXCEPT !.hash = h] = [hash |-> h, txs |-> txs]
    BY <2>2
  <2> QED BY <2>3, <2>4, <2>5 DEF BlocksUpTo
<1>4. CASE Mine
  <2>1. PICK new \in Blocks : chain' = Append(chain, new)
    BY <1>4 DEF Mine
  <2>2. branch' = branch /\ Len(chain) < MaxHeight
    BY <1>4 DEF Mine
  <2>3. new \in BlocksUpTo(branch)
    <3>1. branch \in Nat /\ branch <= branch
      BY <1>2
    <3> QED BY <1>3, <3>1
  <2>4. chain' \in Seq(BlocksUpTo(branch)) /\ Len(chain') = Len(chain) + 1
    BY <1>2, <2>1, <2>3
  <2>5. BlocksUpTo(branch)' = BlocksUpTo(branch)
    BY <1>1, <2>2 DEF BlocksUpTo
  <2>6. Len(chain') <= MaxHeight
    BY <1>2, <2>2, <2>4
  <2> QED BY <1>1, <1>2, <2>2, <2>4, <2>5, <2>6 DEF FaultsTyped, Typed
<1>5. CASE Reorg
  <2>1. branch' = branch + 1 /\ branch < MaxReorgs
    BY <1>5 DEF Reorg
  <2>2. PICK keep \in 0..(Len(chain) - 1) :
          \E new \in [1..(Len(chain) - keep) -> Blocks] :
               chain' = SubSeq(chain, 1, keep) \o [i \in DOMAIN new |-> [new[i] EXCEPT !.hash = branch']]
    BY <1>5 DEF Reorg
  <2>3. PICK new \in [1..(Len(chain) - keep) -> Blocks] :
               chain' = SubSeq(chain, 1, keep) \o [i \in DOMAIN new |-> [new[i] EXCEPT !.hash = branch']]
    BY <2>2
  <2> DEFINE n    == Len(chain) - keep
             B    == BlocksUpTo(branch + 1)
             tail == [i \in 1..n |-> [new[i] EXCEPT !.hash = branch']]
  <2>4. keep \in Nat /\ keep <= Len(chain) /\ n \in Nat /\ keep + n = Len(chain)
    BY <1>2
  <2>5. ASSUME NEW i \in 1..n PROVE [new[i] EXCEPT !.hash = branch'] \in B
    <3>1. new[i] \in Blocks
      BY <2>3
    <3>2. branch + 1 \in Nat /\ branch <= branch + 1
      BY <1>2
    <3> QED BY <1>3, <2>1, <3>1, <3>2
  <2>6. tail \in [1..n -> B]
    <3> HIDE DEF B
    <3> QED BY <2>5
  <2>7. chain \in Seq(B)
    <3>1. BlocksUpTo(branch) \subseteq B
      BY <1>2 DEF BlocksUpTo
    <3> HIDE DEF B
    <3> QED BY <1>2, <3>1, SeqMonotonic
  <2>8. chain' = SubSeq(chain, 1, keep) \o tail
    BY <2>3
  <2>9. chain' \in Seq(B) /\ Len(chain') = Len(chain)
    <3> HIDE DEF tail, n, B
    <3> QED BY <2>4, <2>6, <2>7, <2>8, OtherTail
  <2>10. BlocksUpTo(branch)' = B
    BY <1>1, <2>1 DEF BlocksUpTo
  <2>11. branch' \in 0..MaxReorgs /\ 0..branch \subseteq 0..branch'
    BY <1>2, <2>1
  <2>12. \A b \in DOMAIN checkpoints : checkpoints[b] \in [hash : 0..branch', final : BOOLEAN]
    BY <2>11 DEF Typed
  <2>13. \A l \in logs : l.hash <= branch'
    <3>1. \A l \in logs : l.hash \in Nat /\ l.hash <= branch
      BY DEF Typed, IndexerInv, RangeOK
    <3> QED BY <1>2, <2>1, <3>1
  <2> HIDE DEF B
  <2> QED BY <1>1, <1>2, <2>9, <2>10, <2>11, <2>12, <2>13 DEF FaultsTyped, Typed
<1> QED
  BY <1>4, <1>5 DEF ChainMoves

\* One log less, whose block may be noted and whose row may be stored.
LEMMA TakesLogTyped ==
  ASSUME IndexerInv, Typed, NEW l \in logs, TakesLog(l), FaultsTyped'
  PROVE  Typed'
<1>1. /\ UNCHANGED <<sent, chain, branch, cursors>> /\ logs' \subseteq logs
      /\ indexed_logs' \subseteq indexed_logs \cup {Row(l)} /\ unapplied' \subseteq unapplied \cup {l.tx}
  BY Proceeds DEF TakesLog, world
<1>2. l \in LogRecord /\ l.hash <= branch /\ branch \in Nat /\ l.hash \in Nat
  BY DEF Typed, IndexerInv, ChainOK, RangeOK
<1>3. Row(l) \in RowRecord /\ l.tx \in Transactions
  BY <1>2 DEF Row, RowRecord, LogRecord
<1>4. \A b \in DOMAIN checkpoints' : checkpoints'[b] \in [hash : 0..branch, final : BOOLEAN]
  <2>1. l.hash \in 0..branch
    BY <1>2
  <2>2. [hash |-> l.hash, final |-> FALSE] \in [hash : 0..branch, final : BOOLEAN]
    BY <2>1
  <2>3. \A b \in DOMAIN checkpoints' : \/ b \in DOMAIN checkpoints /\ checkpoints'[b] = checkpoints[b]
                                       \/ checkpoints'[b] = [hash |-> l.hash, final |-> FALSE]
    BY DEF TakesLog, save_checkpoint, Put
  <2>4. \A b \in DOMAIN checkpoints : checkpoints[b] \in [hash : 0..branch, final : BOOLEAN]
    BY DEF Typed
  <2> QED BY <2>2, <2>3, <2>4
<1>5. BlocksUpTo(branch)' = BlocksUpTo(branch)
  BY <1>1 DEF BlocksUpTo
<1> QED
  BY <1>1, <1>3, <1>4, <1>5 DEF Typed

\* Logs that come from the chain are logs of its transactions.
LEMMA GetLogsTyped ==
  ASSUME IndexerInv, Typed, NEW c \in todo, get_logs(c)
  PROVE  Typed'
<1> USE BoundsAreNat
<1> DEFINE start == cursors[c] + 1
           end   == Least(start + Batch, current_block)
           fresh == LogsOf(chain, c, start, end)
<1>1. /\ UNCHANGED <<world, database, current_block, history>>
      /\ IF start > current_block THEN UNCHANGED <<contract, logs, block, last>>
         ELSE proceed(c, fresh, start, LastFinal(end))
  BY DEF get_logs
<1>2. /\ UNCHANGED <<sent, chain, branch, cursors, checkpoints, indexed_logs, unapplied, past, faults>>
  BY <1>1 DEF world, database, history
<1>3. BlocksUpTo(branch)' = BlocksUpTo(branch)
  BY <1>2 DEF BlocksUpTo
<1>4. CASE start > current_block
  BY <1>1, <1>2, <1>3, <1>4 DEF FaultsTyped, Typed
<1>5. CASE ~(start > current_block)
  <2>1. logs' = fresh
    <3>1. proceed(c, fresh, start, LastFinal(end))
      BY <1>1, <1>5
    <3> HIDE DEF start, end, fresh
    <3> QED BY <3>1, Proceeds
  <2>2. /\ chain \in Seq(BlockRecord) /\ Len(chain) \in Nat /\ current_block \in 0..Len(chain)
        /\ c \in DOMAIN cursors /\ cursors[c] \in Nat
    BY DEF IndexerInv, ChainOK, RangeOK, CursorsFinal
  <2>3. start \in Nat \ {0} /\ end \in Nat /\ end <= Len(chain)
    BY <1>5, <2>2 DEF Least
  <2>4. ASSUME NEW l \in fresh
        PROVE  l \in LogRecord /\ l.hash <= branch
    <3>1. /\ l.block \in Nat /\ l.block >= start /\ l.block <= end
          /\ l.index \in Nat \ {0} /\ l.hash = chain[l.block].hash /\ l.tx \in Transactions
          /\ l.index \in DOMAIN chain[l.block].txs /\ l = Entry(chain, l.block, l.index)
      <4> HIDE DEF start, end
      <4> QED BY <2>2, <2>3, LogParts
    <3>2. l.block \in 1..Len(chain)
      BY <2>2, <2>3, <3>1
    <3>3. chain[l.block] \in BlocksUpTo(branch) /\ Len(chain) <= MaxHeight /\ branch \in 0..MaxReorgs
      BY <3>2 DEF Typed
    <3>4. chain[l.block].hash \in 0..branch /\ chain[l.block].txs \in Seq(sent)
          /\ Len(chain[l.block].txs) <= MaxPerBlock
      BY <3>3 DEF BlocksUpTo
    <3>5. l.index <= MaxPerBlock
      BY <3>1, <3>4
    <3>6. l.block \in Heights /\ l.index \in 1..MaxPerBlock
      BY <2>2, <3>1, <3>2, <3>3, <3>5 DEF Heights
    <3>7. l.hash <= branch /\ l.hash \in 0..MaxReorgs
      BY <3>1, <3>3, <3>4
    <3> QED BY <3>1, <3>6, <3>7 DEF LogRecord, Entry
  <2> QED BY <1>2, <1>3, <2>1, <2>4 DEF FaultsTyped, Typed
<1> QED
  BY <1>4, <1>5

\* The check of a block brings no new kind of value.
LEMMA CheckBlockTyped ==
  ASSUME IndexerInv, Typed, check_block \/ check_fails, FaultsTyped'
  PROVE  Typed'
<1>1. Checks
  BY DEF check_block, check_fails, Checks
<1>2. UNCHANGED <<sent, chain, branch>> /\ logs' = {}
  BY <1>1, Proceeds DEF Checks, world
<1>3. BlocksUpTo(branch)' = BlocksUpTo(branch)
  BY <1>2 DEF BlocksUpTo
<1>4. CASE rollback_unfinalized(block)
  <2>1. /\ UNCHANGED cursors /\ indexed_logs' \subseteq indexed_logs
        /\ \A k \in DOMAIN checkpoints' : k \in DOMAIN checkpoints /\ checkpoints'[k] = checkpoints[k]
    BY <1>4, RollbackKeeps
  <2>2. unapplied' \subseteq Transactions
    <3>1. \A l \in indexed_logs : l.tx \in Transactions
      BY DEF Typed, RowRecord
    <3> QED BY <1>4, <3>1 DEF rollback_unfinalized, forget_logs, Typed
  <2> QED BY <1>2, <1>3, <2>1, <2>2 DEF Typed
<1>5. CASE rollback_refused \/ check_fails
  BY <1>2, <1>3, <1>5 DEF rollback_refused, check_fails, database, Typed
<1>6. CASE finalize_block(block)
  <2>1. /\ DOMAIN cursors' = DOMAIN cursors /\ UNCHANGED <<indexed_logs, unapplied>>
        /\ checkpoints' = IF block \in DOMAIN checkpoints THEN [checkpoints EXCEPT ![block].final = TRUE]
                          ELSE checkpoints
    BY <1>6 DEF finalize_block, history
  <2>2. \A b \in DOMAIN checkpoints : checkpoints[b] \in [hash : 0..branch, final : BOOLEAN]
    BY DEF Typed
  <2>3. \A b \in DOMAIN checkpoints' : checkpoints'[b] \in [hash : 0..branch, final : BOOLEAN]
    BY <2>1, <2>2
  <2> QED BY <1>2, <1>3, <2>1, <2>3 DEF Typed
<1> QED
  BY <1>4, <1>5, <1>6 DEF check_block

\* Every step notes only kinds of failures, and counts them.
LEMMA FaultsStep ==
  ASSUME FaultsTyped, ChainMoves \/ Work \/ Failure \/ Quiet
  PROVE  FaultsTyped'
<1>1. CASE ChainMoves \/ Quiet
  BY <1>1 DEF ChainMoves, Mine, Reorg, Quiet, history, FaultsTyped
<1>2. CASE Work
  <2>1. CASE poll \/ skip_log \/ index_log \/ log_refused \/ \E c \in todo : get_logs(c)
    BY <2>1 DEF poll, skip_log, index_log, log_refused, get_logs, history, FaultsTyped
  <2>2. CASE check_block
    BY <2>2 DEF check_block, rollback_unfinalized, rollback_refused, finalize_block, history, Past,
                    FaultsTyped
  <2> QED BY <1>2, <2>1, <2>2 DEF Work
<1>3. CASE Failure
  <2>1. PICK kind \in Faults : Fails(kind)
    BY <1>3 DEF Failure, get_logs_fails, log_fails, check_fails, crash, Faults
  <2> QED BY <2>1, BoundsAreNat DEF Fails, Past, FaultsTyped
<1> QED
  BY <1>1, <1>2, <1>3

\* The process's and the chain's types, over every step.
LEMMA TypedStep == IndexerInv /\ Typed /\ (ChainMoves \/ Work \/ Failure \/ Quiet) => Typed'
<1> SUFFICES ASSUME IndexerInv, Typed, ChainMoves \/ Work \/ Failure \/ Quiet PROVE Typed'
  OBVIOUS
<1>0. FaultsTyped'
  BY FaultsStep DEF Typed
<1>1. CASE ChainMoves
  BY <1>1, ChainMovesTyped
<1>2. CASE Quiet
  <2>1. UNCHANGED <<sent, chain, branch, cursors, checkpoints, indexed_logs, logs, unapplied, past,
                    faults>>
    BY <1>2 DEF Quiet, world, process, history
  <2> QED BY <2>1 DEF Typed, FaultsTyped, BlocksUpTo
<1>3. CASE Takes
  <2>1. PICK l \in logs : TakesLog(l)
    BY <1>3, TakesNextLog
  <2> QED BY <1>0, <2>1, TakesLogTyped
<1>4. CASE poll \/ (\E c \in todo : get_logs_fails(c)) \/ crash
  <2>1. UNCHANGED <<sent, chain, branch, cursors, checkpoints, indexed_logs, unapplied>> /\ logs' = {}
    BY <1>4, RoundDrops DEF Drops, world
  <2> QED BY <1>0, <2>1 DEF Typed, BlocksUpTo
<1>5. CASE \E c \in todo : get_logs(c)
  BY <1>5, GetLogsTyped
<1>6. CASE check_block \/ check_fails
  BY <1>0, <1>6, CheckBlockTyped
<1>7. CASE Work
  BY <1>3, <1>4, <1>5, <1>6, <1>7 DEF Work, Takes
<1>8. CASE Failure
  BY <1>3, <1>4, <1>6, <1>8 DEF Failure, Takes
<1> QED
  BY <1>1, <1>2, <1>7, <1>8

\* The tables of users, balances, epochs, markets and orders.  Only an event and a rollback write
\* to them.
LEMMA HandleRows ==
  ASSUME RowsTyped, NEW l \in LogRecord, handle(l)
  PROVE  RowsTyped'
<1>1. l.tx \in Transactions /\ l.block \in Heights
  BY DEF LogRecord
<1>2. /\ l.tx.kind \in {"Deposited", "NonceInvalidated"} \cup Withdrawals => l.tx.key \in Users /\ l.tx.n \in Nat
      /\ l.tx.kind = "MarketCreated" \/ l.tx.kind \in DOMAIN StateAfter => l.tx.key \in Markets
  BY <1>1, EventsTyped
<1> DEFINE u == l.tx.key
           n == l.tx.n
<1>3. ASSUME u \in Users, n \in Nat, NEW d \in {n, -n}, Upsert(u, n, d, l.block)
      PROVE  /\ DOMAIN balances' = DOMAIN balances \cup {u}
             /\ \A x \in DOMAIN balances' : balances'[x] \in BalanceRow
  <2> DEFINE row == [amount |-> IF u \in DOMAIN balances THEN balances[u].amount + d ELSE n, block |-> l.block]
  <2>1. row \in BalanceRow
    BY <1>1, <1>3 DEF RowsTyped, BalanceRow
  <2>2. balances' = [x \in DOMAIN balances \cup {u} |-> IF x = u THEN row ELSE balances[x]]
    BY <1>3 DEF Upsert, Put
  <2> HIDE DEF row
  <2> QED BY <2>1, <2>2 DEF RowsTyped
<1>4. CASE handle_deposited(l)
  <2>1. u \in Users /\ n \in Nat /\ Upsert(u, n, n, l.block) /\ users' = users \cup {u}
        /\ UNCHANGED <<nonces, markets, orders, inverted>>
    BY <1>2, <1>4 DEF handle_deposited
  <2>2. /\ DOMAIN balances' = DOMAIN balances \cup {u}
        /\ \A x \in DOMAIN balances' : balances'[x] \in BalanceRow
    BY <1>3, <2>1
  <2> QED BY <2>1, <2>2 DEF RowsTyped
<1>5. CASE handle_withdrawn(l)
  <2>1. u \in Users /\ n \in Nat /\ Upsert(u, n, -n, l.block) /\ u \in users
        /\ UNCHANGED <<users, nonces, markets, orders>> /\ inverted' \subseteq inverted \cup {u}
    BY <1>2, <1>5 DEF handle_withdrawn
  <2>2. /\ DOMAIN balances' = DOMAIN balances \cup {u}
        /\ \A x \in DOMAIN balances' : balances'[x] \in BalanceRow
    BY <1>3, <2>1
  <2> QED BY <2>1, <2>2 DEF RowsTyped
<1>6. CASE handle_nonce_invalidated(l)
  <2>1. u \in Users /\ n \in Nat
    BY <1>2, <1>6 DEF handle_nonce_invalidated
  <2> QED BY <1>6, <2>1 DEF handle_nonce_invalidated, RowsTyped
<1>7. CASE handle_market_created(l)
  <2>1. u \in Markets
    BY <1>2, <1>7 DEF handle_market_created
  <2> QED BY <1>1, <1>7, <2>1 DEF handle_market_created, Put, RowsTyped, MarketRow
<1>8. CASE handle_outcome(l)
  <2>1. StateAfter[l.tx.kind] \in {"open", "proposed", "disputed", "resolved"}
    BY <1>8 DEF handle_outcome, StateAfter
  <2>2. \A m \in DOMAIN markets : markets[m] \in MarketRow
    BY DEF RowsTyped
  <2>3. /\ DOMAIN markets' = DOMAIN markets
        /\ \A m \in DOMAIN markets' : markets'[m] \in MarketRow
    BY <1>8, <2>1, <2>2 DEF handle_outcome, MarketRow
  <2> QED BY <1>8, <2>3 DEF handle_outcome, RowsTyped
<1>9. CASE handle_notice(l)
  BY <1>9 DEF handle_notice, rows, RowsTyped
<1> QED
  BY <1>4, <1>5, <1>6, <1>7, <1>8, <1>9 DEF handle

\* The tables' types, over every step of the indexer.
LEMMA RowsStep ==
  ASSUME IndexerInv, Typed, RowsTyped, ChainMoves \/ Work \/ Failure
  PROVE  RowsTyped'
<1>1. CASE UNCHANGED <<rows, inverted>>
  BY <1>1 DEF rows, RowsTyped
<1>2. CASE index_log
  <2>1. PICK l \in logs : l = Next_log
    BY <1>2, NextLogIsFirst DEF index_log, IndexerInv
  <2>2. handle(l) \/ UNCHANGED <<rows, inverted>>
    BY <1>2, <2>1 DEF index_log
  <2>3. l \in LogRecord
    BY DEF Typed
  <2> QED BY <1>1, <2>2, <2>3, HandleRows
<1>3. CASE check_block
  <2>1. CASE rollback_unfinalized(block)
    <3>1. /\ balances' = Drop(balances, From(balances, block)) /\ markets' = Drop(markets, From(markets, block))
          /\ inverted' = inverted \ From(balances, block) /\ UNCHANGED <<users, nonces, orders>>
      BY <2>1 DEF rollback_unfinalized
    <3>2. /\ DOMAIN balances' = DOMAIN balances \ From(balances, block)
          /\ \A x \in DOMAIN balances' : x \in DOMAIN balances /\ balances'[x] = balances[x]
          /\ \A x \in DOMAIN markets' : x \in DOMAIN markets /\ markets'[x] = markets[x]
      BY <3>1 DEF Drop
    <3> QED BY <3>1, <3>2 DEF RowsTyped
  <2>2. CASE rollback_refused \/ finalize_block(block)
    BY <1>1, <2>2 DEF rollback_refused, finalize_block, database, history
  <2> QED BY <1>3, <2>1, <2>2 DEF check_block
<1>4. CASE ChainMoves
  BY <1>1, <1>4 DEF ChainMoves, Mine, Reorg, database, history
<1>5. CASE poll \/ skip_log \/ log_refused \/ \E c \in todo : get_logs(c)
  BY <1>1, <1>5 DEF poll, skip_log, log_refused, get_logs, database, history
<1>6. CASE Failure
  BY <1>1, <1>6 DEF Failure, get_logs_fails, log_fails, check_fails, crash, database
<1> QED
  BY <1>2, <1>3, <1>4, <1>5, <1>6 DEF Work

\* All of them hold at first.
LEMMA InitTyped == Init => Typed /\ RowsTyped
<1> SUFFICES ASSUME Init PROVE Typed /\ RowsTyped
  OBVIOUS
<1> USE BoundsAreNat
<1>1. /\ chain = << >> /\ branch = 0 /\ checkpoints = << >> /\ indexed_logs = {} /\ logs = {}
      /\ unapplied = {} /\ inverted = {} /\ past = {} /\ faults = 0
      /\ users = {} /\ balances = << >> /\ nonces = [u \in Users |-> 0]
      /\ markets = << >> /\ orders = << >>
  BY DEF Init
<1>2. DOMAIN cursors \subseteq Contracts
  BY DEF Init, Contracts
<1>3. DOMAIN checkpoints = {} /\ DOMAIN balances = {} /\ DOMAIN markets = {} /\ DOMAIN orders = {}
  BY <1>1
<1>4. Len(chain) = 0 /\ chain \in Seq(BlocksUpTo(branch))
  BY <1>1
<1>5. Typed
  BY <1>1, <1>2, <1>3, <1>4 DEF Typed, FaultsTyped
<1>6. RowsTyped
  BY <1>1, <1>3 DEF RowsTyped
<1> QED
  BY <1>5, <1>6

-----------------------------------------------------------------------------
\* Epochs and markets.  As long as the chain has never replaced a block and no transaction has failed for
\* want of the database, there is nothing to roll back, and what is not indexed are withdrawals and
\* markets that there is no room for.
Undisturbed == branch = 0 /\ "log_fails" \notin past

\* The contracts that are polled are those the transactions are from.
OneScenario == \E s \in Scenarios : sent = s.events /\ DOMAIN cursors = s.contracts

\* The chain has one branch, and the checkpoints are about it.
OneBranch ==
    /\ \A b \in DOMAIN chain : chain[b].hash = 0 /\ chain[b].txs \in Seq(sent)
    /\ \A b \in DOMAIN checkpoints : checkpoints[b].hash = 0

\* What is in hand and what is indexed is on the chain.
LogsMined ==
    /\ \A l \in logs : l \in LogsOf(chain, l.tx.contract, 1, Len(chain))
    /\ \A r \in indexed_logs : \E l \in LogsOf(chain, r.tx.contract, 1, Len(chain)) : r = Row(l)

Unroomed(t)  == t.kind = "MarketCreated" /\ t.n > MaxTimestamp
OnlyRefusals == \A t \in unapplied : t.kind \in Withdrawals \/ Unroomed(t)

\* Of the logs of a contract none comes before an indexed one, or before one in hand, that is not seen to.
SeenTo(m) == m \in logs \/ Accounted(m)
InOrder ==
    \A c \in DOMAIN cursors : \A m \in LogsOf(chain, c, 1, Len(chain)) :
        /\ \A l \in logs : l.tx.contract = c /\ Before(m, l) => SeenTo(m)
        /\ \A r \in indexed_logs : r.tx.contract = c /\ Before(m, r) => Accounted(m)

\* What has been indexed about a market is about a row.
MarketEvents == {"MarketCreated"} \cup DOMAIN StateAfter
MarketsHaveRows == \A r \in indexed_logs : r.tx.kind \in MarketEvents => r.tx.key \in DOMAIN markets

\* The epoch and the state say what the last event does.
EpochsFollow == \A u \in Users : \A l \in Latest({"NonceInvalidated"}, u) : nonces[u] = l.tx.n
StatesFollow ==
    \A m \in DOMAIN markets : \A l \in Latest(DOMAIN StateAfter, m) : markets[m].state = StateAfter[l.tx.kind]

\* The tables of epochs and markets.
StateRow == [state : {"open", "proposed", "disputed", "resolved"}, block : Nat]
TablesTyped ==
    /\ nonces \in [Users -> Nat]
    /\ \A m \in DOMAIN markets : markets[m] \in StateRow

Following ==
    /\ TablesTyped /\ OneBranch /\ LogsMined /\ OnlyRefusals /\ InOrder
    /\ MarketsHaveRows /\ EpochsFollow /\ StatesFollow

FollowInv == OneScenario /\ (Undisturbed => Following)

\* No two kinds of events are the same.
LEMMA KindsDiffer ==
  /\ DOMAIN StateAfter = {"OutcomeProposed", "OutcomeDisputed", "OutcomeResolved", "DisputeResolved"}
  /\ \A k \in MarketEvents : /\ k \notin {"NonceInvalidated", "NetDeltasApplied", "Deposited"}
                             /\ k \notin Withdrawals /\ k \notin Notices
  /\ "NonceInvalidated" \notin Withdrawals /\ "MarketCreated" \notin DOMAIN StateAfter
<1>1. DOMAIN StateAfter = {"OutcomeProposed", "OutcomeDisputed", "OutcomeResolved", "DisputeResolved"}
  BY DEF StateAfter
<1> QED
  BY <1>1 DEF MarketEvents, Withdrawals, Notices

\* The order of the chain goes one way, and is about places.
LEMMA BeforeFacts ==
  ASSUME NEW l, NEW m, l.block \in Nat, m.block \in Nat, l.index \in Nat, m.index \in Nat, Before(l, m)
  PROVE  /\ ~Before(m, l) /\ l.block <= m.block /\ ~(l.block = m.block /\ l.index = m.index)
BY DEF Before

\* What is known of a log of the chain.
LEMMA MinedFacts ==
  ASSUME ChainOK, OneBranch, NEW c, NEW l \in LogsOf(chain, c, 1, Len(chain))
  PROVE  /\ l.block \in 1..Len(chain) /\ l.block \in Nat /\ l.index \in Nat
         /\ l.hash = 0 /\ l.tx \in sent /\ l.tx.contract = c
<1>1. chain \in Seq(BlockRecord) /\ Len(chain) \in Nat /\ 1 \in Nat \ {0}
  BY DEF ChainOK
<1>2. /\ l.block \in Nat /\ l.block >= 1 /\ l.block <= Len(chain)
      /\ l.index \in Nat /\ l.hash = chain[l.block].hash /\ l.tx.contract = c
      /\ l.index \in DOMAIN chain[l.block].txs /\ l = Entry(chain, l.block, l.index)
  BY <1>1, LogParts
<1>3. l.block \in DOMAIN chain
  BY <1>1, <1>2
<1>4. chain[l.block].hash = 0 /\ chain[l.block].txs \in Seq(sent)
  BY <1>3 DEF OneBranch
<1>5. chain[l.block].txs[l.index] \in sent
  BY <1>2, <1>4
<1>6. l.tx = chain[l.block].txs[l.index]
  BY <1>2 DEF Entry
<1> QED
  BY <1>1, <1>2, <1>4, <1>5, <1>6

\* Two logs of the chain from the same source have the same contract.
LEMMA OneSource ==
  ASSUME OneScenario, NEW d \in sent, NEW e \in sent, d.key = e.key,
         \/ d.kind = "NonceInvalidated" /\ e.kind = "NonceInvalidated"
         \/ d.kind \in MarketEvents /\ e.kind \in MarketEvents
  PROVE  d.contract = e.contract
<1>1. PICK s \in Scenarios : d \in s.events /\ e \in s.events
  BY DEF OneScenario
<1>2. PICK kinds \in {{"NonceInvalidated"}, MarketEvents} : d.kind \in kinds /\ e.kind \in kinds
  OBVIOUS
<1> QED
  BY <1>1, <1>2, EventsHaveSources DEF MarketEvents

\* The contract of a transaction is polled.
LEMMA SourcesPolled ==
  ASSUME OneScenario, NEW e \in sent
  PROVE  e.contract \in DOMAIN cursors
BY ScenariosClosed DEF OneScenario

-----------------------------------------------------------------------------
\* The kinds of events that epochs and markets follow.
Sourced == MarketEvents \cup {"NonceInvalidated"}

\* An epoch or an event of a market that is accounted for has been indexed, unless it has no room.
LEMMA SeenIsIndexed ==
  ASSUME ChainOK, OneScenario, Following, NEW c, NEW m \in LogsOf(chain, c, 1, Len(chain)),
         Accounted(m), m.tx.kind \in Sourced, ~Endless(m)
  PROVE  already_processed(m) /\ Row(m) \in indexed_logs
<1>1. m.tx.kind \notin Withdrawals /\ m.tx.kind # "NetDeltasApplied"
  BY KindsDiffer DEF Sourced
<1>2. already_processed(m)
  BY <1>1 DEF Accounted, Unknown, Following, OnlyRefusals, Unroomed, Endless
<1>3. PICK r \in indexed_logs : r.tx = m.tx /\ r.index = m.index
  BY <1>2 DEF already_processed
<1>4. PICK l \in LogsOf(chain, r.tx.contract, 1, Len(chain)) : r = Row(l)
  BY DEF Following, LogsMined
<1>5. l.tx = m.tx
  BY <1>3, <1>4 DEF Row
<1>6. m.tx \in sent /\ m.tx.contract = c
  BY MinedFacts DEF Following
<1>7. c \in DOMAIN cursors /\ r.tx.contract = c
  BY <1>3, <1>6, SourcesPolled
<1>8. l \in LogsOf(chain, c, 1, Len(chain))
  BY <1>4, <1>7
<1>9. l = m
  BY <1>5, <1>7, <1>8, ChainLogsDiffer
<1> QED
  BY <1>2, <1>4, <1>9

\* What is known of a log in hand.
LEMMA InHandFacts ==
  ASSUME IndexerInv, OneScenario, Following, NEW l \in logs
  PROVE  /\ l \in LogsOf(chain, contract, 1, Len(chain)) /\ l.tx.contract = contract
         /\ contract \in DOMAIN cursors
         /\ l.block \in Nat /\ l.index \in Nat /\ l.hash = 0 /\ l.tx \in sent /\ l.tx \in Transactions
<1>1. l.tx.contract = contract /\ contract \in DOMAIN cursors /\ l.tx \in Transactions
  BY DEF IndexerInv, RangeOK
<1>2. l \in LogsOf(chain, contract, 1, Len(chain))
  BY <1>1 DEF Following, LogsMined
<1> QED
  BY <1>1, <1>2, MinedFacts DEF IndexerInv, Following

\* What is known of an indexed row.
LEMMA IndexedFacts ==
  ASSUME IndexerInv, OneScenario, Following, NEW r \in indexed_logs
  PROVE  r.block \in Nat /\ r.index \in Nat /\ r.tx \in sent /\ r.tx.contract \in DOMAIN cursors
<1>1. PICK l \in LogsOf(chain, r.tx.contract, 1, Len(chain)) : r = Row(l)
  BY DEF Following, LogsMined
<1>2. l.block \in Nat /\ l.index \in Nat /\ l.tx \in sent
  BY MinedFacts DEF IndexerInv, Following
<1> QED
  BY <1>1, <1>2, SourcesPolled DEF Row

\* An event that is new to the index comes after all that is indexed from the same source.
LEMMA NewestIsLast ==
  ASSUME IndexerInv, OneScenario, Following, NEW l \in logs, ~already_processed(l), ~Endless(l),
         NEW r \in indexed_logs, r.tx.key = l.tx.key,
         \/ r.tx.kind = "NonceInvalidated" /\ l.tx.kind = "NonceInvalidated"
         \/ r.tx.kind \in MarketEvents /\ l.tx.kind \in MarketEvents
  PROVE  ~Before(l, r)
<1> SUFFICES ASSUME Before(l, r) PROVE FALSE
  OBVIOUS
<1>1. /\ l \in LogsOf(chain, contract, 1, Len(chain)) /\ contract \in DOMAIN cursors
      /\ l.tx.contract = contract /\ l.tx \in sent
  BY InHandFacts
<1>2. r.tx \in sent
  BY IndexedFacts
<1>3. r.tx.contract = contract
  BY <1>1, <1>2, OneSource
<1>4. Accounted(l)
  BY <1>1, <1>3 DEF Following, InOrder
<1>5. l.tx.kind \in Sourced
  BY DEF Sourced
<1> QED
  BY <1>1, <1>4, <1>5, SeenIsIndexed DEF IndexerInv

\* When it is an outcome's turn its market has been indexed.
LEMMA CreatedBefore ==
  ASSUME IndexerInv, OneScenario, Following, NEW l \in logs, \A m \in logs : m = l \/ Before(l, m),
         l.tx.kind \in DOMAIN StateAfter
  PROVE  l.tx.key \in DOMAIN markets
<1>1. /\ l \in LogsOf(chain, contract, 1, Len(chain)) /\ contract \in DOMAIN cursors
      /\ l.tx.contract = contract /\ l.tx \in sent /\ l.block \in Nat /\ l.index \in Nat
  BY InHandFacts
<1>2. PICK d \in l.tx.after : d.kind = "MarketCreated" /\ d.key = l.tx.key /\ d.n <= MaxTimestamp
  BY <1>1, EventsHaveSources DEF OneScenario
<1>3. PICK m \in OnChain(chain) : m.tx = d /\ Before(m, l)
  <2>1. l \in OnChain(chain)
    BY <1>1 DEF OnChain
  <2> QED BY <1>2, <2>1 DEF IndexerInv, ChainOK, Valid
<1>4. PICK c \in DOMAIN cursors : m \in LogsOf(chain, c, 1, Len(chain))
  BY DEF OnChain
<1>5. m.block \in Nat /\ m.index \in Nat /\ m.tx \in sent /\ m.tx.contract = c
  BY <1>4, MinedFacts DEF IndexerInv, Following
<1>6. c = contract
  <2>1. d.kind \in MarketEvents /\ l.tx.kind \in MarketEvents
    BY <1>2 DEF MarketEvents
  <2>2. d.contract = l.tx.contract
    BY <1>1, <1>2, <1>3, <1>5, <2>1, OneSource
  <2> QED BY <1>1, <1>3, <1>5, <2>2
<1>7. m \notin logs
  BY <1>1, <1>3, <1>5, BeforeFacts
<1>8. Accounted(m)
  BY <1>1, <1>3, <1>4, <1>6, <1>7 DEF Following, InOrder, SeenTo
<1>9. m.tx.kind \in Sourced /\ m.tx.kind \in MarketEvents /\ ~Endless(m)
  <2>1. d.n \in Nat
    BY <1>2, <1>3, <1>5, EventsTyped DEF OneScenario, Transactions
  <2> QED BY <1>2, <1>3, <2>1, BoundsAreNat DEF Sourced, MarketEvents, Endless
<1>10. Row(m) \in indexed_logs
  BY <1>4, <1>8, <1>9, SeenIsIndexed DEF IndexerInv
<1>11. Row(m).tx = d
  BY <1>3 DEF Row
<1> QED
  BY <1>2, <1>3, <1>9, <1>10, <1>11 DEF Following, MarketsHaveRows

-----------------------------------------------------------------------------
\* What one new row does to the last of the rows.
LEMMA LatestGrows ==
  ASSUME NEW w, indexed_logs' = indexed_logs \cup {w}, NEW K, NEW k, NEW x \in Latest(K, k)'
  PROVE  \/ x = w /\ w.tx.kind \in K /\ w.tx.key = k
         \/ /\ x \in Latest(K, k) /\ x \in indexed_logs
            /\ w.tx.kind \in K /\ w.tx.key = k => Before(w, x)
BY DEF Latest

\* The last of the rows is a row of the kind.
LEMMA LatestParts ==
  ASSUME NEW K, NEW k, NEW x \in Latest(K, k)
  PROVE  x \in indexed_logs /\ x.tx.kind \in K /\ x.tx.key = k
BY DEF Latest

\* A row is in the place of its log.
LEMMA RowPlace ==
  ASSUME NEW l, NEW m
  PROVE  /\ Row(l).block = l.block /\ Row(l).index = l.index /\ Row(l).tx = l.tx
         /\ Before(Row(l), m) <=> Before(l, m)
         /\ Before(m, Row(l)) <=> Before(m, l)
BY DEF Row, Before

\* The logs in hand, the checkpoints and the order of what is indexed, when the next log is taken.
LEMMA TakesInOrder ==
  ASSUME IndexerInv, OneScenario, Following, NEW l \in logs, l = Next_log, TakesLog(l), Accounted(l)'
  PROVE  OneBranch' /\ LogsMined' /\ InOrder'
<1>1. UNCHANGED <<sent, chain, branch, cursors>> /\ logs' = logs \ {l}
  BY Proceeds DEF TakesLog, world
<1>2. \A m \in logs : m = l \/ Before(l, m)
  BY NextLogIsFirst DEF IndexerInv
<1>3. /\ l \in LogsOf(chain, contract, 1, Len(chain)) /\ contract \in DOMAIN cursors
      /\ l.tx.contract = contract
      /\ l.block \in Nat /\ l.index \in Nat /\ l.hash = 0
  BY InHandFacts
<1>4. OneBranch'
  <2>1. \A b \in DOMAIN checkpoints' : checkpoints'[b].hash = 0
    <3>1. \A b \in DOMAIN checkpoints : checkpoints[b].hash = 0
      BY DEF Following, OneBranch
    <3>2. CASE checkpoints' = checkpoints
      BY <3>1, <3>2
    <3>3. CASE save_checkpoint(l)
      BY <1>3, <3>1, <3>3 DEF save_checkpoint, Put
    <3> QED BY <3>2, <3>3 DEF TakesLog
  <2> QED BY <1>1, <2>1 DEF Following, OneBranch
<1>5. ASSUME NEW r \in indexed_logs' PROVE r \in indexed_logs \/ r = Row(l)
  BY DEF TakesLog
<1>6. LogsMined'
  <2>1. ASSUME NEW r \in indexed_logs' PROVE \E m \in LogsOf(chain, r.tx.contract, 1, Len(chain)) : r = Row(m)
    BY <1>3, <1>5, RowPlace DEF Following, LogsMined
  <2>2. \A m \in logs' : m \in LogsOf(chain, m.tx.contract, 1, Len(chain))
    BY <1>1 DEF Following, LogsMined
  <2> QED BY <1>1, <2>1, <2>2 DEF LogsMined
<1>7. ASSUME NEW c \in DOMAIN cursors, NEW m \in LogsOf(chain, c, 1, Len(chain)), Accounted(m)
      PROVE  Accounted(m)'
  <2>1. CASE m.tx = l.tx
    <3>1. m = l
      BY <1>3, <2>1, ChainLogsDiffer DEF IndexerInv
    <3> QED BY <3>1
  <2>2. CASE m.tx # l.tx
    BY <1>7, <2>2 DEF TakesLog, Accounted, already_processed, Unknown
  <2> QED BY <2>1, <2>2
<1>8. ASSUME NEW c \in DOMAIN cursors, NEW m \in LogsOf(chain, c, 1, Len(chain)),
             NEW k \in logs', k.tx.contract = c, Before(m, k)
      PROVE  m \in logs' \/ Accounted(m)'
  <2>1. m \in logs \/ Accounted(m)
    BY <1>1, <1>8 DEF Following, InOrder, SeenTo
  <2>2. CASE m = l
    BY <2>2
  <2> QED BY <1>1, <1>7, <2>1, <2>2
<1>9. ASSUME NEW c \in DOMAIN cursors, NEW m \in LogsOf(chain, c, 1, Len(chain)),
             NEW r \in indexed_logs', r.tx.contract = c, Before(m, r)
      PROVE  Accounted(m)'
  <2>1. CASE r \in indexed_logs
    BY <1>7, <1>9, <2>1 DEF Following, InOrder
  <2>2. CASE r = Row(l)
    <3>1. c = contract /\ Before(m, l)
      BY <1>3, <1>9, <2>2, RowPlace
    <3>2. m \in logs \/ Accounted(m)
      BY <1>3, <3>1 DEF Following, InOrder, SeenTo
    <3>3. m.block \in Nat /\ m.index \in Nat
      BY MinedFacts DEF IndexerInv, Following
    <3>4. m \notin logs
      BY <1>2, <1>3, <3>1, <3>3, BeforeFacts
    <3> QED BY <1>7, <3>2, <3>4
  <2> QED BY <1>5, <2>1, <2>2
<1>10. InOrder'
  <2>1. \A c \in DOMAIN cursors : \A m \in LogsOf(chain, c, 1, Len(chain)) :
            /\ \A k \in logs' : k.tx.contract = c /\ Before(m, k) => m \in logs' \/ Accounted(m)'
            /\ \A r \in indexed_logs' : r.tx.contract = c /\ Before(m, r) => Accounted(m)'
    BY <1>8, <1>9
  <2>2. \A m : SeenTo(m)' <=> m \in logs' \/ Accounted(m)'
    BY DEF SeenTo
  <2>3. \A m, k : Before(m, k)' <=> Before(m, k)
    BY DEF Before
  <2> QED BY <1>1, <2>1, <2>2, <2>3 DEF InOrder
<1> QED
  BY <1>4, <1>6, <1>10

\* The tables of epochs and markets when the next log is handled.
LEMMA HandledRows ==
  ASSUME IndexerInv, OneScenario, Following, NEW l \in logs, \A m \in logs : m = l \/ Before(l, m),
         ~already_processed(l), handle(l), indexed_logs' = indexed_logs \cup {Row(l)}
  PROVE  TablesTyped' /\ MarketsHaveRows' /\ EpochsFollow' /\ StatesFollow'
<1>0. l.tx \in sent /\ l.block \in Nat /\ l.index \in Nat /\ l.tx \in Transactions
  BY InHandFacts
<1>1. /\ nonces \in [Users -> Nat]
      /\ \A m \in DOMAIN markets : markets[m] \in StateRow
  BY DEF Following, TablesTyped, StateRow
<1>2. ASSUME NEW r \in indexed_logs, r.tx.key = l.tx.key,
             \/ r.tx.kind = "NonceInvalidated" /\ l.tx.kind = "NonceInvalidated"
             \/ r.tx.kind \in MarketEvents /\ l.tx.kind \in MarketEvents
      PROVE  ~Before(Row(l), r)
  <2>1. ~Endless(l)
    BY KindsDiffer DEF handle, handle_deposited, handle_withdrawn, handle_nonce_invalidated,
                       handle_market_created, handle_outcome, handle_notice, Endless, MarketEvents
  <2> QED BY <1>2, <2>1, NewestIsLast, RowPlace
<1>3. Row(l).tx = l.tx
  BY RowPlace
\* The epochs: only one kind of event is about them.
<1>4. ASSUME NEW u \in Users, NEW x \in Latest({"NonceInvalidated"}, u)'
      PROVE  /\ x.tx.kind = "NonceInvalidated" /\ x.tx.key = u
             /\ \/ x = Row(l)
                \/ /\ x \in Latest({"NonceInvalidated"}, u)
                   /\ ~(l.tx.kind = "NonceInvalidated" /\ l.tx.key = u)
  <2>1. CASE x = Row(l) /\ l.tx.kind \in {"NonceInvalidated"} /\ l.tx.key = u
    BY <1>3, <2>1
  <2>2. CASE /\ x \in Latest({"NonceInvalidated"}, u) /\ x \in indexed_logs
             /\ l.tx.kind \in {"NonceInvalidated"} /\ l.tx.key = u => Before(Row(l), x)
    <3>1. x.tx.kind = "NonceInvalidated" /\ x.tx.key = u
      BY <2>2, LatestParts
    <3> QED BY <1>2, <2>2, <3>1
  <2> QED BY <1>3, <2>1, <2>2, LatestGrows
\* The markets: the creation is no outcome.
<1>5. ASSUME NEW m, NEW x \in Latest(DOMAIN StateAfter, m)'
      PROVE  /\ x.tx.kind \in DOMAIN StateAfter /\ x.tx.key = m
             /\ \/ x = Row(l)
                \/ /\ x \in Latest(DOMAIN StateAfter, m) /\ x \in indexed_logs
                   /\ ~(l.tx.kind \in DOMAIN StateAfter /\ l.tx.key = m)
  <2>1. CASE x = Row(l) /\ l.tx.kind \in DOMAIN StateAfter /\ l.tx.key = m
    BY <1>3, <2>1
  <2>2. CASE /\ x \in Latest(DOMAIN StateAfter, m) /\ x \in indexed_logs
             /\ l.tx.kind \in DOMAIN StateAfter /\ l.tx.key = m => Before(Row(l), x)
    <3>1. x.tx.kind \in DOMAIN StateAfter /\ x.tx.key = m
      BY <2>2, LatestParts
    <3> QED BY <1>2, <2>2, <3>1 DEF MarketEvents
  <2> QED BY <1>3, <2>1, <2>2, LatestGrows
<1>6. ASSUME UNCHANGED markets, l.tx.kind \notin MarketEvents
      PROVE  MarketsHaveRows' /\ StatesFollow'
  <2>1. MarketsHaveRows'
    BY <1>3, <1>6 DEF Following, MarketsHaveRows
  <2>2. ASSUME NEW m \in DOMAIN markets, NEW x \in Latest(DOMAIN StateAfter, m)'
        PROVE  markets[m].state = StateAfter[x.tx.kind]
    <3>1. x # Row(l)
      BY <1>3, <1>5, <1>6 DEF MarketEvents
    <3>2. x \in Latest(DOMAIN StateAfter, m)
      BY <1>5, <3>1
    <3> QED BY <3>2 DEF Following, StatesFollow
  <2> QED BY <1>6, <2>1, <2>2 DEF StatesFollow
<1>7. ASSUME UNCHANGED nonces, l.tx.kind # "NonceInvalidated"
      PROVE  EpochsFollow'
  <2>1. ASSUME NEW u \in Users, NEW x \in Latest({"NonceInvalidated"}, u)'
        PROVE  nonces[u] = x.tx.n
    <3>1. x # Row(l)
      BY <1>3, <1>4, <1>7
    <3>2. x \in Latest({"NonceInvalidated"}, u)
      BY <1>4, <3>1
    <3> QED BY <3>2 DEF Following, EpochsFollow
  <2> QED BY <1>7, <2>1 DEF EpochsFollow
<1>8. CASE handle_nonce_invalidated(l)
  <2>1. /\ l.tx.kind = "NonceInvalidated" /\ nonces' = [nonces EXCEPT ![l.tx.key] = l.tx.n]
        /\ UNCHANGED markets
    BY <1>8 DEF handle_nonce_invalidated
  <2>2. l.tx.key \in Users /\ l.tx.n \in Nat
    BY <1>0, <2>1, EventsTyped
  <2>3. TablesTyped'
    BY <1>1, <2>1, <2>2 DEF TablesTyped, StateRow
  <2>4. ASSUME NEW u \in Users, NEW x \in Latest({"NonceInvalidated"}, u)'
        PROVE  nonces'[u] = x.tx.n
    <3>1. CASE x = Row(l)
      BY <1>1, <1>3, <1>4, <2>1, <3>1
    <3>2. CASE x # Row(l)
      <4>1. x \in Latest({"NonceInvalidated"}, u) /\ u # l.tx.key
        BY <1>4, <2>1, <3>2
      <4>2. nonces'[u] = nonces[u]
        BY <1>1, <2>1, <4>1
      <4> QED BY <4>1, <4>2 DEF Following, EpochsFollow
    <3> QED BY <3>1, <3>2
  <2>5. l.tx.kind \notin MarketEvents
    BY <2>1, KindsDiffer
  <2> QED BY <1>6, <2>1, <2>3, <2>4, <2>5 DEF EpochsFollow
<1>9. CASE handle_market_created(l)
  <2>1. /\ l.tx.kind = "MarketCreated" /\ UNCHANGED nonces
        /\ markets' = IF l.tx.key \in DOMAIN markets THEN markets
                      ELSE Put(markets, l.tx.key, [state |-> "open", block |-> l.block])
    BY <1>9 DEF handle_market_created
  <2>2. /\ DOMAIN markets' = DOMAIN markets \cup {l.tx.key}
        /\ \A m \in DOMAIN markets : markets'[m] = markets[m]
        /\ l.tx.key \in DOMAIN markets \/ markets'[l.tx.key] = [state |-> "open", block |-> l.block]
    BY <2>1 DEF Put
  <2>3. TablesTyped'
    BY <1>0, <1>1, <2>1, <2>2 DEF TablesTyped, StateRow
  <2>4. MarketsHaveRows'
    BY <1>3, <2>2 DEF Following, MarketsHaveRows
  <2>5. ASSUME NEW m \in DOMAIN markets', NEW x \in Latest(DOMAIN StateAfter, m)'
        PROVE  markets'[m].state = StateAfter[x.tx.kind]
    <3>1. x # Row(l)
      BY <1>3, <1>5, <2>1, KindsDiffer
    <3>2. /\ x \in Latest(DOMAIN StateAfter, m) /\ x \in indexed_logs
          /\ x.tx.kind \in DOMAIN StateAfter /\ x.tx.key = m
      BY <1>5, <3>1
    <3>3. m \in DOMAIN markets
      BY <3>2 DEF Following, MarketsHaveRows, MarketEvents
    <3> QED BY <2>2, <3>2, <3>3 DEF Following, StatesFollow
  <2>6. l.tx.kind # "NonceInvalidated"
    BY <2>1
  <2> QED BY <1>7, <2>1, <2>3, <2>4, <2>5, <2>6 DEF StatesFollow
<1>10. CASE handle_outcome(l)
  <2>1. /\ l.tx.kind \in DOMAIN StateAfter /\ UNCHANGED nonces
        /\ markets' = IF l.tx.key \in DOMAIN markets
                      THEN [markets EXCEPT ![l.tx.key].state = StateAfter[l.tx.kind]] ELSE markets
    BY <1>10 DEF handle_outcome
  <2>2. l.tx.key \in DOMAIN markets
    BY <2>1, CreatedBefore
  <2>3. StateAfter[l.tx.kind] \in {"open", "proposed", "disputed", "resolved"}
    BY <2>1, KindsDiffer DEF StateAfter
  <2> DEFINE v == StateAfter[l.tx.kind]
  <2> HIDE DEF v
  <2>4. /\ DOMAIN markets' = DOMAIN markets
        /\ \A m \in DOMAIN markets : m # l.tx.key => markets'[m] = markets[m]
        /\ markets'[l.tx.key] = [markets[l.tx.key] EXCEPT !.state = v]
    BY <2>1, <2>2 DEF v
  <2>5. markets[l.tx.key] \in StateRow
    BY <1>1, <2>2
  <2>6. /\ markets'[l.tx.key] \in StateRow
        /\ markets'[l.tx.key].state = v
    BY <2>3, <2>4, <2>5 DEF v, StateRow
  <2>7. TablesTyped'
    BY <1>1, <2>1, <2>4, <2>6 DEF TablesTyped, StateRow
  <2>8. MarketsHaveRows'
    BY <1>3, <2>2, <2>4 DEF Following, MarketsHaveRows
  <2>9. ASSUME NEW m \in DOMAIN markets', NEW x \in Latest(DOMAIN StateAfter, m)'
        PROVE  markets'[m].state = StateAfter[x.tx.kind]
    <3>1. CASE x = Row(l)
      BY <1>3, <1>5, <2>6, <3>1 DEF v
    <3>2. CASE x # Row(l)
      <4>1. x \in Latest(DOMAIN StateAfter, m) /\ m # l.tx.key
        BY <1>5, <2>1, <3>2
      <4> QED BY <2>4, <4>1 DEF Following, StatesFollow
    <3> QED BY <3>1, <3>2
  <2>10. l.tx.kind # "NonceInvalidated"
    BY <2>1, KindsDiffer DEF MarketEvents
  <2> QED BY <1>7, <2>1, <2>7, <2>8, <2>9, <2>10 DEF StatesFollow
<1>11. CASE handle_deposited(l) \/ handle_withdrawn(l) \/ handle_notice(l)
  <2>1. /\ UNCHANGED <<nonces, markets>>
        /\ l.tx.kind = "Deposited" \/ l.tx.kind \in Withdrawals \/ l.tx.kind \in Notices
    BY <1>11 DEF handle_deposited, handle_withdrawn, handle_notice, rows
  <2>2. l.tx.kind \notin MarketEvents /\ l.tx.kind # "NonceInvalidated"
    BY <2>1, KindsDiffer DEF Notices
  <2>3. TablesTyped'
    BY <1>1, <2>1 DEF TablesTyped, StateRow
  <2> QED BY <1>6, <1>7, <2>1, <2>2, <2>3
<1> QED
  BY <1>8, <1>9, <1>10, <1>11 DEF handle

\* Where none of the tables changes, they say what they said.
LEMMA SameRows ==
  ASSUME Following, UNCHANGED <<nonces, markets, indexed_logs>>
  PROVE  TablesTyped' /\ MarketsHaveRows' /\ EpochsFollow' /\ StatesFollow'
BY DEF Following, TablesTyped, MarketsHaveRows, EpochsFollow, StatesFollow, Latest

\* The next log is taken, and no transaction has failed for want of the database.
LEMMA TakesFollow ==
  ASSUME IndexerInv, OneScenario, Following, Takes, Undisturbed'
  PROVE  Following'
<1>1. PICK l \in logs : l = Next_log /\ TakesLog(l) /\ Accounted(l)'
  BY TakesNextLog
<1>2. OneBranch' /\ LogsMined' /\ InOrder'
  BY <1>1, TakesInOrder
<1>3. \A m \in logs : m = l \/ Before(l, m)
  BY <1>1, NextLogIsFirst DEF IndexerInv
<1>4. \A t \in unapplied : t.kind \in Withdrawals \/ Unroomed(t)
  BY DEF Following, OnlyRefusals
<1>5. CASE log_fails
  BY <1>5 DEF log_fails, Fails, Undisturbed
<1>6. CASE log_refused
  <2>1. /\ unapplied' = unapplied \cup {l.tx}
        /\ l.tx.kind \in Withdrawals \/ Unroomed(l.tx)
        /\ UNCHANGED <<nonces, markets, indexed_logs>>
    BY <1>1, <1>6 DEF log_refused, Endless, Unroomed, database, rows
  <2>2. OnlyRefusals'
    BY <1>4, <2>1 DEF OnlyRefusals, Unroomed
  <2> QED BY <1>2, <2>1, <2>2, SameRows DEF Following
<1>7. CASE skip_log
  <2>1. UNCHANGED <<nonces, markets, indexed_logs, unapplied>>
    BY <1>7 DEF skip_log, database, rows, history
  <2>2. OnlyRefusals'
    BY <1>4, <2>1 DEF OnlyRefusals, Unroomed
  <2> QED BY <1>2, <2>1, <2>2, SameRows DEF Following
<1>8. CASE index_log
  <2>1. /\ ~already_processed(l)
        /\ \/ handle(l) /\ indexed_logs' = indexed_logs \cup {Row(l)} /\ unapplied' = unapplied \ {l.tx}
           \/ UNCHANGED <<nonces, markets, indexed_logs, unapplied>>
    BY <1>1, <1>8 DEF index_log, rows
  <2>2. OnlyRefusals'
    BY <1>4, <2>1 DEF OnlyRefusals, Unroomed
  <2>3. TablesTyped' /\ MarketsHaveRows' /\ EpochsFollow' /\ StatesFollow'
    BY <1>3, <2>1, HandledRows, SameRows
  <2> QED BY <1>2, <2>2, <2>3 DEF Following
<1> QED
  BY <1>5, <1>6, <1>7, <1>8 DEF Takes

\* Nothing of what is followed changes, and the logs in hand stay or go.
LEMMA SameFollow ==
  ASSUME IndexerInv, Following, logs' = logs \/ logs' = {}, DOMAIN cursors' = DOMAIN cursors,
         UNCHANGED <<world, indexed_logs, unapplied, nonces, markets>>,
         \A b \in DOMAIN checkpoints' : b \in DOMAIN checkpoints /\ checkpoints'[b].hash = checkpoints[b].hash
  PROVE  Following'
<1>1. UNCHANGED <<sent, chain, branch>>
  BY DEF world
<1>2. OneBranch' /\ LogsMined' /\ OnlyRefusals'
  BY <1>1 DEF Following, OneBranch, LogsMined, OnlyRefusals
<1>3. \A m : Accounted(m) => Accounted(m)'
  BY DEF Accounted, already_processed, Unknown
<1>4. InOrder'
  <2>1. ASSUME NEW c \in DOMAIN cursors, NEW m \in LogsOf(chain, c, 1, Len(chain)),
               NEW k \in logs', k.tx.contract = c, Before(m, k)
        PROVE  m \in logs' \/ Accounted(m)'
    BY <1>3, <2>1 DEF Following, InOrder, SeenTo
  <2>2. ASSUME NEW c \in DOMAIN cursors, NEW m \in LogsOf(chain, c, 1, Len(chain)),
               NEW r \in indexed_logs, r.tx.contract = c, Before(m, r)
        PROVE  Accounted(m)'
    BY <1>3, <2>2 DEF Following, InOrder
  <2>3. \A m : SeenTo(m)' <=> m \in logs' \/ Accounted(m)'
    BY DEF SeenTo
  <2>4. \A m, k : Before(m, k)' <=> Before(m, k)
    BY DEF Before
  <2> QED BY <1>1, <2>1, <2>2, <2>3, <2>4 DEF InOrder
<1> QED
  BY <1>2, <1>4, SameRows DEF Following

\* A block is checked: its checkpoint has the hash of the only branch, so nothing is taken back.
LEMMA ChecksFollow ==
  ASSUME IndexerInv, Following, check_block \/ check_fails
  PROVE  Following'
<1>1. Checks
  BY DEF check_block, check_fails, Checks
<1>2. contract \in DOMAIN cursors /\ block \in 1..Len(chain) /\ chain \in Seq(BlockRecord)
  <2>1. /\ contract \in DOMAIN cursors /\ block \in Nat \ {0} /\ block <= last
        /\ last \in Int /\ last <= current_block - Finality /\ current_block \in 0..Len(chain)
    BY <1>1 DEF IndexerInv, RangeOK, Checks
  <2> QED BY <2>1, FinalityIsPositive DEF IndexerInv, ChainOK
<1>3. ~Mismatch(block)
  BY <1>2 DEF Mismatch, Following, OneBranch
<1>4. logs' = {} /\ UNCHANGED world
  BY <1>1, Proceeds DEF Checks
<1>5. CASE finalize_block(block)
  <2>1. /\ cursors' = [cursors EXCEPT ![contract] = block]
        /\ checkpoints' = IF block \in DOMAIN checkpoints THEN [checkpoints EXCEPT ![block].final = TRUE]
                          ELSE checkpoints
        /\ UNCHANGED <<indexed_logs, unapplied, nonces, markets>>
    BY <1>5 DEF finalize_block, rows, history
  <2>2. DOMAIN cursors' = DOMAIN cursors
    BY <2>1
  <2>3. \A b \in DOMAIN checkpoints' : b \in DOMAIN checkpoints /\ checkpoints'[b].hash = checkpoints[b].hash
    BY <2>1
  <2> QED BY <1>4, <2>1, <2>2, <2>3, SameFollow
<1>6. CASE check_fails
  <2>1. UNCHANGED <<cursors, checkpoints, indexed_logs, unapplied, nonces, markets>>
    BY <1>6 DEF check_fails, database, rows
  <2> QED BY <1>4, <2>1, SameFollow
<1> QED
  BY <1>3, <1>5, <1>6 DEF check_block

\* No contract is in hand, or none any more.
LEMMA DropsFollow ==
  ASSUME IndexerInv, Following, poll \/ (\E c \in todo : get_logs_fails(c)) \/ crash
  PROVE  Following'
<1>1. /\ UNCHANGED <<world, cursors, checkpoints, indexed_logs, unapplied>> /\ logs' = {}
  BY RoundDrops DEF Drops
<1>2. UNCHANGED <<nonces, markets>>
  BY DEF poll, get_logs_fails, crash, database, rows
<1> QED
  BY <1>1, <1>2, SameFollow

\* The logs of a range are taken in hand: what comes before them is accounted for or among them.
LEMMA GetLogsFollow ==
  ASSUME IndexerInv, Following, NEW c \in todo, get_logs(c)
  PROVE  Following'
<1> USE FinalityIsPositive, BoundsAreNat
<1> DEFINE start == cursors[c] + 1
           end   == Least(start + Batch, current_block)
           fresh == LogsOf(chain, c, start, end)
<1>1. /\ chain \in Seq(BlockRecord) /\ Len(chain) \in Nat
      /\ current_block \in 0..Len(chain) /\ c \in DOMAIN cursors
      /\ cursors[c] \in Nat
  BY DEF IndexerInv, ChainOK, RangeOK, CursorsFinal
<1>2. /\ UNCHANGED <<world, cursors, checkpoints, indexed_logs, unapplied, nonces, markets>>
      /\ IF start > current_block THEN UNCHANGED <<contract, logs, block, last>>
         ELSE proceed(c, fresh, start, LastFinal(end))
  BY DEF get_logs, database, rows, history
<1>3. CASE start > current_block
  <2>1. logs' = logs
    BY <1>2, <1>3
  <2> QED BY <1>2, <2>1, SameFollow
<1>4. CASE ~(start > current_block)
  <2>1. logs' = fresh
    <3>1. proceed(c, fresh, start, LastFinal(end))
      BY <1>2, <1>4
    <3> HIDE DEF fresh, start, end
    <3> QED BY <3>1, Proceeds
  <2>2. /\ start \in Nat \ {0} /\ end \in Int /\ end <= Len(chain) /\ start = cursors[c] + 1
    BY <1>1, <1>4 DEF Least
  <2> HIDE DEF start, end
  <2>3. ASSUME NEW l \in fresh
        PROVE  l \in LogsOf(chain, c, 1, Len(chain)) /\ l.tx.contract = c
               /\ l.block \in Nat /\ l.block <= end
    <3>1. l.block \in Nat /\ l.block >= start /\ l.block <= end /\ l.tx.contract = c
      BY <1>1, <2>2, LogParts
    <3>2. 1 <= l.block /\ l.block <= Len(chain)
      BY <1>1, <2>2, <3>1
    <3>3. l \in LogsOf(chain, c, 1, Len(chain))
      BY <1>1, <2>2, <3>2, LogsNarrow
    <3> QED BY <3>1, <3>3
  <2>4. ASSUME NEW l \in fresh, NEW m \in LogsOf(chain, c, 1, Len(chain)), Before(m, l)
        PROVE  m \in fresh \/ Accounted(m)
    <3>1. m.block \in Nat /\ m.block >= 1 /\ m.block <= Len(chain)
      BY <1>1, LogParts
    <3>2. m.block <= end
      BY <2>2, <2>3, <2>4, <3>1 DEF Before
    <3>3. CASE m.block <= cursors[c]
      <4>1. m \in LogsOf(chain, c, 1, cursors[c])
        BY <1>1, <3>1, <3>3, LogsNarrow
      <4> QED BY <1>1, <4>1 DEF IndexerInv, AccountedFor, Accounted
    <3>4. CASE ~(m.block <= cursors[c])
      <4>1. start <= m.block
        BY <1>1, <2>2, <3>1, <3>4
      <4>2. m \in fresh
        BY <1>1, <2>2, <3>2, <4>1, LogsNarrow
      <4> QED BY <4>2
    <3> QED BY <3>3, <3>4
  <2> HIDE DEF fresh
  <2>5. UNCHANGED <<sent, chain, branch>>
    BY <1>2 DEF world
  <2>6. OneBranch' /\ LogsMined' /\ OnlyRefusals'
    BY <1>2, <2>1, <2>3, <2>5 DEF Following, OneBranch, LogsMined, OnlyRefusals
  <2>7. \A m : Accounted(m) <=> Accounted(m)'
    BY <1>2 DEF Accounted, already_processed, Unknown
  <2>8. InOrder'
    <3>1. ASSUME NEW d \in DOMAIN cursors, NEW m \in LogsOf(chain, d, 1, Len(chain)),
                 NEW k \in fresh, k.tx.contract = d, Before(m, k)
          PROVE  m \in fresh \/ Accounted(m)'
      BY <2>3, <2>4, <2>7, <3>1
    <3>2. ASSUME NEW d \in DOMAIN cursors, NEW m \in LogsOf(chain, d, 1, Len(chain)),
                 NEW r \in indexed_logs, r.tx.contract = d, Before(m, r)
          PROVE  Accounted(m)'
      BY <2>7, <3>2 DEF Following, InOrder
    <3>3. \A m : SeenTo(m)' <=> m \in fresh \/ Accounted(m)'
      BY <2>1 DEF SeenTo
    <3>4. \A m, k : Before(m, k)' <=> Before(m, k)
      BY DEF Before
    <3> QED BY <1>2, <2>1, <2>5, <3>1, <3>2, <3>3, <3>4 DEF InOrder
  <2> QED BY <1>2, <2>6, <2>8, SameRows DEF Following
<1> QED
  BY <1>3, <1>4

\* The chain grows: what is new comes after all that is in hand or indexed.
LEMMA MineFollow ==
  ASSUME IndexerInv, OneScenario, branch = 0, Following, Mine
  PROVE  Following'
<1>1. chain \in Seq(BlockRecord) /\ Len(chain) \in Nat
  BY DEF IndexerInv, ChainOK
<1>2. PICK new \in Blocks : chain' = Append(chain, new)
  BY DEF Mine
<1>3. UNCHANGED <<sent, branch, cursors, checkpoints, indexed_logs, nonces, markets, contract, logs,
                  unapplied>>
  BY DEF Mine, database, rows, process, history
<1>4. /\ DOMAIN chain' = DOMAIN chain \cup {Len(chain) + 1} /\ Len(chain') = Len(chain) + 1
      /\ \A b \in 1..Len(chain) : chain'[b] = chain[b]
      /\ chain'[Len(chain) + 1] = new
  BY <1>1, <1>2
<1>5. new.hash = 0 /\ new.txs \in Seq(sent)
  <2>1. PICK txs \in UNION {[1..n -> sent] : n \in 0..MaxPerBlock} :
          new = [hash |-> branch, txs |-> txs]
    BY DEF Blocks
  <2>2. PICK n \in 0..MaxPerBlock : txs \in [1..n -> sent]
    BY <2>1
  <2>3. n \in Nat
    BY BoundsAreNat
  <2>4. txs \in Seq(sent)
    BY <2>2, <2>3, SeqDef
  <2> QED BY <2>1, <2>4
<1>6. OneBranch'
  BY <1>1, <1>3, <1>4, <1>5 DEF Following, OneBranch
<1>7. chain' \in Seq(BlockRecord) /\ Len(chain') \in Nat /\ 1 \in Nat \ {0}
  BY ChainStep DEF ChainMoves
<1>8. ASSUME NEW c, NEW m \in LogsOf(chain', c, 1, Len(chain'))
      PROVE  /\ m.block \in Nat
             /\ m \in LogsOf(chain, c, 1, Len(chain)) \/ m.block > Len(chain)
  <2>1. m.block \in Nat /\ m.block >= 1
    BY <1>7, LogParts
  <2>2. CASE m.block <= Len(chain)
    <3>1. m \in LogsOf(chain', c, 1, Len(chain))
      BY <1>1, <1>7, <2>1, <2>2, LogsNarrow
    <3>2. m \in LogsOf(chain, c, 1, Len(chain))
      BY <1>4, <3>1, LogsFrame
    <3> QED BY <2>1, <3>2
  <2> QED BY <1>1, <2>1, <2>2
<1>9. ASSUME NEW c, NEW m \in LogsOf(chain, c, 1, Len(chain))
      PROVE  m \in LogsOf(chain', c, 1, Len(chain'))
  <2>1. m.block \in Nat /\ 1 <= m.block /\ m.block <= Len(chain')
    BY <1>1, <1>4, <1>7, LogParts
  <2>2. m \in LogsOf(chain', c, 1, Len(chain))
    BY <1>4, LogsFrame
  <2>3. Len(chain) <= Len(chain')
    BY <1>1, <1>4
  <2> QED BY <1>1, <1>7, <2>1, <2>2, <2>3, LogsNarrow
<1>10. LogsMined'
  BY <1>3, <1>9 DEF Following, LogsMined
<1>11. ASSUME NEW c \in DOMAIN cursors, NEW k, k \in logs \/ k \in indexed_logs
       PROVE  k.block \in Nat /\ k.block <= Len(chain)
  <2>1. CASE k \in logs
    BY <1>1, <2>1, InHandFacts, LogParts
  <2>2. CASE k \in indexed_logs
    <3>1. PICK l \in LogsOf(chain, k.tx.contract, 1, Len(chain)) : k = Row(l)
      BY <2>2 DEF Following, LogsMined
    <3>2. l.block \in Nat /\ l.block <= Len(chain)
      BY <1>1, LogParts
    <3> QED BY <3>1, <3>2, RowPlace
  <2> QED BY <1>11, <2>1, <2>2
<1>12. \A m : Accounted(m) <=> Accounted(m)'
  BY <1>3 DEF Accounted, already_processed, Unknown
<1>13. InOrder'
  <2>1. ASSUME NEW c \in DOMAIN cursors, NEW m \in LogsOf(chain', c, 1, Len(chain')),
               NEW k, k \in logs \/ k \in indexed_logs, Before(m, k)
        PROVE  m \in LogsOf(chain, c, 1, Len(chain))
    <3>1. k.block \in Nat /\ k.block <= Len(chain)
      BY <1>11, <2>1
    <3> QED BY <1>1, <1>8, <2>1, <3>1 DEF Before
  <2>2. ASSUME NEW c \in DOMAIN cursors, NEW m \in LogsOf(chain', c, 1, Len(chain')),
               NEW k \in logs, k.tx.contract = c, Before(m, k)
        PROVE  m \in logs \/ Accounted(m)'
    BY <1>12, <2>1, <2>2 DEF Following, InOrder, SeenTo
  <2>3. ASSUME NEW c \in DOMAIN cursors, NEW m \in LogsOf(chain', c, 1, Len(chain')),
               NEW r \in indexed_logs, r.tx.contract = c, Before(m, r)
        PROVE  Accounted(m)'
    BY <1>12, <2>1, <2>3 DEF Following, InOrder
  <2>4. \A m : SeenTo(m)' <=> m \in logs \/ Accounted(m)'
    BY <1>3 DEF SeenTo
  <2>5. \A m, k : Before(m, k)' <=> Before(m, k)
    BY DEF Before
  <2> QED BY <1>3, <2>2, <2>3, <2>4, <2>5 DEF InOrder
<1>14. OnlyRefusals'
  BY <1>3 DEF Following, OnlyRefusals
<1> QED
  BY <1>3, <1>6, <1>10, <1>13, <1>14, SameRows DEF Following

\* A step that leaves the indexer's tables alone, epochs and markets too.
LEMMA QuietFollow ==
  ASSUME IndexerInv, Following, Quiet, UNCHANGED <<nonces, markets>>
  PROVE  Following'
BY SameFollow DEF Quiet, process, history

\* At first there is nothing to follow.
LEMMA FollowInit == Init => FollowInv
<1> SUFFICES ASSUME Init PROVE FollowInv
  OBVIOUS
<1>1. /\ chain = << >> /\ checkpoints = << >> /\ indexed_logs = {} /\ logs = {} /\ unapplied = {}
      /\ nonces = [u \in Users |-> 0] /\ markets = << >>
      /\ \E s \in Scenarios : sent = s.events /\ cursors = [c \in s.contracts |-> 0]
  BY DEF Init
<1>2. OneScenario
  BY <1>1 DEF OneScenario
<1>3. DOMAIN chain = {} /\ DOMAIN checkpoints = {} /\ DOMAIN markets = {}
  BY <1>1
<1>4. TablesTyped /\ OneBranch /\ LogsMined /\ OnlyRefusals /\ InOrder /\ MarketsHaveRows
  BY <1>1, <1>3 DEF TablesTyped, OneBranch, LogsMined, OnlyRefusals, InOrder, MarketsHaveRows
<1>5. EpochsFollow /\ StatesFollow
  BY <1>1, <1>3 DEF EpochsFollow, StatesFollow, Latest
<1> QED
  BY <1>2, <1>4, <1>5 DEF FollowInv, Following

\* Every step of the indexer, of the chain, or next to both.
LEMMA FollowStep ==
  ASSUME IndexerInv, FollowInv, ChainMoves \/ Work \/ Failure \/ (Quiet /\ UNCHANGED <<nonces, markets>>)
  PROVE  FollowInv'
<1>1. OneScenario'
  <2>1. UNCHANGED sent /\ DOMAIN cursors' = DOMAIN cursors
    <3>1. CASE ChainMoves
      BY <3>1, ChainStep DEF database
    <3>2. CASE Quiet
      BY <3>2 DEF Quiet, world
    <3>3. CASE Takes
      BY <3>3, TakesNextLog DEF TakesLog, world
    <3>4. CASE poll \/ (\E c \in todo : get_logs_fails(c)) \/ crash
      BY <3>4, RoundDrops DEF Drops, world
    <3>5. CASE \E c \in todo : get_logs(c)
      BY <3>5 DEF get_logs, world, database
    <3>6. CASE check_block \/ check_fails
      BY <3>6 DEF check_block, check_fails, rollback_unfinalized, rollback_refused, finalize_block,
                  world, database
    <3> QED BY <3>1, <3>2, <3>3, <3>4, <3>5, <3>6 DEF Work, Failure, Takes
  <2> QED BY <2>1 DEF FollowInv, OneScenario
<1>2. ASSUME Undisturbed' PROVE Following'
  <2>1. Undisturbed
    <3>1. past \subseteq past'
      <4>1. CASE ChainMoves
        BY <4>1, ChainStep DEF history
      <4>2. CASE Quiet
        BY <4>2 DEF Quiet, history
      <4>3. CASE Takes
        BY <4>3, TakesNextLog DEF TakesLog
      <4>4. CASE poll \/ (\E c \in todo : get_logs_fails(c)) \/ crash
        BY <4>4, RoundDrops DEF Drops
      <4>5. CASE \E c \in todo : get_logs(c)
        BY <4>5 DEF get_logs, history
      <4>6. CASE check_block \/ check_fails
        BY <4>6 DEF check_block, check_fails, Fails, rollback_unfinalized, rollback_refused, finalize_block,
                    history
      <4> QED BY <4>1, <4>2, <4>3, <4>4, <4>5, <4>6 DEF Work, Failure, Takes
    <3>2. branch' = branch \/ branch' = branch + 1
      <4>1. CASE ChainMoves
        BY <4>1 DEF ChainMoves, Mine, Reorg
      <4>2. CASE Quiet \/ Work \/ Failure
        BY <4>2 DEF Quiet, Work, Failure, poll, get_logs, skip_log, index_log, log_refused, check_block,
                    get_logs_fails, log_fails, check_fails, crash, world
      <4> QED BY <4>1, <4>2
    <3>3. branch \in Nat
      BY DEF IndexerInv, ChainOK
    <3> QED BY <1>2, <3>1, <3>2, <3>3 DEF Undisturbed
  <2>2. OneScenario /\ Following /\ branch = 0
    BY <2>1 DEF FollowInv, Undisturbed
  <2>3. CASE ChainMoves
    <3>1. ~Reorg
      BY <1>2, <2>2 DEF Reorg, Undisturbed
    <3> QED BY <2>2, <2>3, <3>1, MineFollow DEF ChainMoves
  <2>4. CASE Takes
    BY <1>2, <2>2, <2>4, TakesFollow
  <2>5. CASE poll \/ (\E c \in todo : get_logs_fails(c)) \/ crash
    BY <2>2, <2>5, DropsFollow
  <2>6. CASE \E c \in todo : get_logs(c)
    BY <2>2, <2>6, GetLogsFollow
  <2>7. CASE check_block \/ check_fails
    BY <2>2, <2>7, ChecksFollow
  <2>8. CASE Quiet /\ UNCHANGED <<nonces, markets>>
    BY <2>2, <2>8, QuietFollow
  <2> QED BY <2>3, <2>4, <2>5, <2>6, <2>7, <2>8 DEF Work, Failure, Takes
<1> QED
  BY <1>1, <1>2 DEF FollowInv

\* What is followed is what RowsFollowChain says.
LEMMA FollowedRows == FollowInv => RowsFollowChain
BY DEF FollowInv, Undisturbed, Following, EpochsFollow, StatesFollow, RowsFollowChain

\* Next to a gateway that stores users and orders, epochs and markets are what the last event says.
THEOREM RowsFollowChainHolds == Spec => []RowsFollowChain
<1>1. IndexerInv /\ FollowInv /\ [Next]_vars => FollowInv'
  <2> SUFFICES ASSUME IndexerInv, FollowInv, [Next]_vars PROVE FollowInv'
    OBVIOUS
  <2>1. CASE \E o \in Orders : ensure_user(o.user) \/ insert_order(o)
    <3>1. Quiet
      BY <2>1, StoresAreQuiet
    <3>2. UNCHANGED <<nonces, markets>>
      BY <2>1 DEF ensure_user, insert_order
    <3> QED BY <3>1, <3>2, FollowStep
  <2>2. CASE UNCHANGED vars
    <3>1. Quiet /\ UNCHANGED <<nonces, markets>>
      BY <2>2 DEF vars, database, rows, Quiet
    <3> QED BY <3>1, FollowStep
  <2> QED BY <2>1, <2>2, FollowStep DEF Next, ChainMoves
<1> QED
  BY FollowInit, FollowedRows, IndexerInvariant, <1>1, PTL DEF Spec

==============================================================================
