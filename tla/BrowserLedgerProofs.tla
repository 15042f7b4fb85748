------------------------- MODULE BrowserLedgerProofs -------------------------
(***************************************************************************)
(* Proofs about BrowserLedger, for every number of transactions, mining    *)
(* clicks, other handlers and hashes.                                      *)
(***************************************************************************)
EXTENDS BrowserLedger, TLAPS, FiniteSetTheorems

-----------------------------------------------------------------------------
(* Chains *)

Chain == Seq(Block) \ {<< >>}

\* A seeded chain is a valid chain.
LEMMA SeedChain ==
  ASSUME NEW g \in 0..MaxId
  PROVE  Seed(g) \in Chain /\ Valid(Seed(g))
<1>1. [id |-> g, previousHash |-> Corrupt, transactions |-> {}, intact |-> TRUE] \in Block
  BY BrowserLedgerAssumption DEF Block, Corrupt
<1>2. Seed(g) \in Seq(Block) /\ Len(Seed(g)) = 1
  BY <1>1 DEF Seed
<1>3. Seed(g)[1].intact
  BY DEF Seed
<1> QED
  BY <1>2, <1>3 DEF Chain, Valid

\* A block linked to the last one keeps a chain valid.
LEMMA LinkedChain ==
  ASSUME NEW c \in Chain, NEW b \in Block
  PROVE  /\ Append(c, b) \in Chain
         /\ Valid(c) /\ b.intact /\ b.previousHash = Last(c).id => Valid(Append(c, b))
<1>1. /\ Append(c, b) \in Seq(Block)
      /\ Len(c) \in Nat /\ Len(c) > 0
      /\ DOMAIN c = 1..Len(c)
      /\ DOMAIN Append(c, b) = 1..(Len(c) + 1)
      /\ Append(c, b)[Len(c) + 1] = b
      /\ \A i \in 1..Len(c) : Append(c, b)[i] = c[i]
  BY DEF Chain
<1>2. Append(c, b) # << >>
  BY <1>1
<1> QED
  BY <1>1, <1>2 DEF Chain, Valid, Last

\* Two chains record the same transactions, block by block.
SameTransactions(c, d) ==
  DOMAIN c = DOMAIN d /\ \A i \in DOMAIN c : c[i].transactions = d[i].transactions

\* A tampered block is still a block, in the same place with the same
\* transactions.
LEMMA TamperedChain ==
  ASSUME NEW c \in Chain, NEW i \in DOMAIN c, NEW b \in Block,
         b.transactions = c[i].transactions
  PROVE  [c EXCEPT ![i] = b] \in Chain /\ SameTransactions(c, [c EXCEPT ![i] = b])
<1>1. Len(c) \in Nat /\ Len(c) > 0 /\ DOMAIN c = 1..Len(c) /\ c \in [1..Len(c) -> Block]
  BY DEF Chain
<1>2. [c EXCEPT ![i] = b] \in [1..Len(c) -> Block]
  BY <1>1
<1>3. [c EXCEPT ![i] = b] \in Seq(Block) /\ Len([c EXCEPT ![i] = b]) = Len(c)
  BY <1>1, <1>2
<1>4. [c EXCEPT ![i] = b] # << >>
  BY <1>1, <1>3
<1>5. SameTransactions(c, [c EXCEPT ![i] = b])
  BY <1>1, <1>2 DEF SameTransactions
<1> QED
  BY <1>3, <1>4, <1>5 DEF Chain

\* Validity is a truth value.
LEMMA ValidIsBoolean == \A c : Valid(c) \in BOOLEAN
BY DEF Valid

-----------------------------------------------------------------------------
(* The audit that ends a handler *)

AuditType == [Miners \union Audits -> SUBSET BOOLEAN]

\* The audits under way go on and see the new chain.
LEMMA SeenReads ==
  ASSUME audits \in AuditType, NEW c
  PROVE  /\ Seen(c) \in AuditType
         /\ \A x \in DOMAIN audits : Seen(c)[x] = {} <=> audits[x] = {}
<1>1. DOMAIN audits = Miners \union Audits
  BY DEF AuditType
<1>2. ASSUME NEW x \in DOMAIN audits
      PROVE  /\ Seen(c)[x] \in SUBSET BOOLEAN
             /\ Seen(c)[x] = {} <=> audits[x] = {}
  BY <1>1, <1>2, ValidIsBoolean DEF Seen, AuditType
<1> QED
  BY <1>1, <1>2 DEF Seen, AuditType

\* An audit starts with the validity of the chain its handler leaves.
LEMMA AuditReads ==
  ASSUME audits \in AuditType, NEW a \in Miners \union Audits, NEW c, AuditOf(a, c)
  PROVE  /\ chain' = c
         /\ audits' \in AuditType
         /\ \A x \in Miners \union Audits : audits'[x] = {} <=> (audits[x] = {} /\ x # a)
         /\ overlapped' \in BOOLEAN
<1>1. audits' = [Seen(c) EXCEPT ![a] = {Valid(c)}] /\ DOMAIN Seen(c) = Miners \union Audits
  BY SeenReads DEF AuditOf, AuditType
<1> QED
  BY <1>1, SeenReads, ValidIsBoolean DEF AuditOf, AuditType

-----------------------------------------------------------------------------
(* Types *)

\* A hash is left for every block under way.
RoomKept == IsFiniteSet(InFlight) /\ lastId + Cardinality(InFlight) <= MaxId

TypeInvariant == TypeOK /\ RoomKept

\* The reseed test holds a copy of a chain that parses.
BackupParses == qa.pc # "idle" => qa.backup # Garbage

\* The lab modes and a restored chain put a chain in the place of the one in
\* memory.
MemoryStep ==
  \E a \in Audits, c \in Chain :
    ReplaceInMemory(a, c) /\ (SameTransactions(chain, c) \/ c = saved)

LEMMA MemorySteps ==
  ASSUME TypeOK, NEW a \in Audits,
         \/ RestoreChain(a) \/ CorruptLink(a)
         \/ \E i \in DOMAIN chain : TamperWithPayload(a, i)
  PROVE  MemoryStep
<1>0. chain \in Chain /\ chain \in Seq(Block) /\ saved \in Seq(Block)
  BY DEF TypeOK, Chain
<1>1. CASE RestoreChain(a)
  BY <1>0, <1>1 DEF RestoreChain, Garbage, Chain, MemoryStep
<1>2. ASSUME NEW i \in DOMAIN chain, TamperWithPayload(a, i)
      PROVE  MemoryStep
  <2> DEFINE b == [chain[i] EXCEPT !.intact = FALSE]
  <2>1. chain[i] \in Block
    BY <1>0
  <2>2. b \in Block /\ b.transactions = chain[i].transactions
    BY <2>1 DEF Block
  <2>3. [chain EXCEPT ![i].intact = FALSE] = [chain EXCEPT ![i] = b]
    OBVIOUS
  <2> QED
    BY <1>0, <1>2, <2>2, <2>3, TamperedChain DEF TamperWithPayload, MemoryStep
<1>3. CASE CorruptLink(a)
  <2> DEFINE b == [chain[2] EXCEPT !.intact = FALSE, !.id = Corrupt]
  <2>1. 2 \in DOMAIN chain /\ chain[2] \in Block
    BY <1>0, <1>3 DEF CorruptLink
  <2>2. b \in Block /\ b.transactions = chain[2].transactions
    <3>1. Corrupt \in Corrupt..MaxId
      BY BrowserLedgerAssumption DEF Corrupt
    <3> QED
      BY <2>1, <3>1 DEF Block
  <2>3. [chain EXCEPT ![2].intact = FALSE, ![2].id = Corrupt] = [chain EXCEPT ![2] = b]
    BY <1>0, <2>1
  <2> QED
    BY <1>0, <1>3, <2>1, <2>2, <2>3, TamperedChain DEF CorruptLink, MemoryStep
<1> QED
  BY <1>1, <1>2, <1>3

\* The number of hashes drawn and left.
LEMMA RoomLeft ==
  ASSUME TypeInvariant
  PROVE  /\ lastId \in Nat /\ MaxId \in Nat /\ Cardinality(InFlight) \in Nat
         /\ Room => lastId + 1 \in 0..MaxId
  BY FS_CardinalityType, BrowserLedgerAssumption DEF TypeInvariant, TypeOK, RoomKept, Room

\* With no other block under way, and no hash drawn, room is kept.
LEMMA RoomStays ==
  ASSUME TypeInvariant, InFlight' \subseteq InFlight,
         lastId' = lastId \/ (Room /\ lastId' = lastId + 1)
  PROVE  RoomKept'
<1>1. /\ IsFiniteSet(InFlight')
      /\ Cardinality(InFlight') <= Cardinality(InFlight)
  BY FS_Subset DEF TypeInvariant, RoomKept
<1>2. Cardinality(InFlight') \in Nat
  BY <1>1, FS_CardinalityType
<1> QED
  BY <1>1, <1>2, RoomLeft DEF TypeInvariant, RoomKept, Room

MinerType ==
  [Miners -> [pc : {"idle", "worker", "fallback", "auditing"},
              previousHash : Corrupt..MaxId, transactions : SUBSET Txs]]

\* The audit that ends a handler or a mining.
LEMMA FinishAuditType ==
  ASSUME TypeInvariant, NEW a \in DOMAIN audits, FinishAudit(a)
  PROVE  TypeInvariant'
<1>1. PICK valid \in audits[a] : isChainCorrupt' = ~valid
  BY DEF FinishAudit
<1>2. isChainCorrupt' \in BOOLEAN
  BY <1>1
<1>3. /\ audits' \in AuditType
      /\ \A x \in Miners \union Audits : audits'[x] = {} <=> (audits[x] = {} \/ x = a)
  BY DEF TypeInvariant, TypeOK, FinishAudit, AuditType
<1>4. /\ miners' \in MinerType
      /\ \A m \in Miners : miners'[m].pc = "auditing" <=> (miners[m].pc = "auditing" /\ m # a)
      /\ InFlight' \subseteq InFlight
  <2>1. CASE a \in Miners
    <3>1. IdleMiner \in [pc : {"idle", "worker", "fallback", "auditing"},
                        previousHash : Corrupt..MaxId, transactions : SUBSET Txs]
      BY BrowserLedgerAssumption DEF IdleMiner, Corrupt
    <3>2. miners' = [miners EXCEPT ![a] = IdleMiner] /\ miners \in MinerType
      BY <2>1 DEF FinishAudit, TypeInvariant, TypeOK, MinerType
    <3>3. IdleMiner.pc = "idle"
      BY DEF IdleMiner
    <3>4. \A m \in Miners : miners'[m] = IF m = a THEN IdleMiner ELSE miners[m]
      BY <3>2 DEF MinerType
    <3>5. miners' \in MinerType
      BY <3>1, <3>2 DEF MinerType
    <3> QED
      BY <3>3, <3>4, <3>5 DEF InFlight
  <2>2. CASE a \notin Miners
    BY <2>2 DEF FinishAudit, TypeInvariant, TypeOK, MinerType, InFlight
  <2> QED
    BY <2>1, <2>2
<1>5. isMining' \in BOOLEAN
  BY DEF FinishAudit, MiningDone, TypeInvariant, TypeOK
<1>6. TypeOK'
  BY <1>2, <1>3, <1>4, <1>5
  DEF FinishAudit, history, TypeInvariant, TypeOK, AuditType, MinerType
<1>7. RoomKept'
  BY <1>4, RoomStays DEF FinishAudit
<1> QED
  BY <1>6, <1>7 DEF TypeInvariant

\* Queueing, and a click on the mine button.
LEMMA QueueType ==
  ASSUME TypeInvariant, NEW t \in Txs, AddPendingTransaction(t)
  PROVE  TypeInvariant'
<1>1. InFlight' = InFlight /\ lastId' = lastId
  BY DEF AddPendingTransaction, InFlight
<1>2. TypeOK'
  BY DEF AddPendingTransaction, TypeInvariant, TypeOK
<1>3. RoomKept'
  BY <1>1, RoomStays
<1> QED
  BY <1>2, <1>3 DEF TypeInvariant

LEMMA StartMiningType ==
  ASSUME TypeInvariant, NEW m \in Miners, StartMining(m)
  PROVE  TypeInvariant'
<1>1. PICK mode \in {"worker", "fallback"} :
        miners' = [miners EXCEPT ![m] =
          [pc |-> mode, previousHash |-> LatestBlock.id,
           transactions |-> pendingTransactions]]
  BY DEF StartMining
<1>2. LatestBlock \in Block
  BY DEF LatestBlock, Last, TypeInvariant, TypeOK
<1>3. miners' \in MinerType
  BY <1>1, <1>2 DEF Block, TypeInvariant, TypeOK, MinerType
<1>4. \A n \in Miners : miners'[n].pc = "auditing" <=> audits[n] # {}
  BY <1>1 DEF StartMining, TypeInvariant, TypeOK
<1>5. raced' \in BOOLEAN
  BY DEF StartMining, TypeInvariant, TypeOK, Busy
<1>6. TypeOK'
  BY <1>3, <1>4, <1>5 DEF StartMining, TypeInvariant, TypeOK, MinerType
<1>7. InFlight' = InFlight \union {m} /\ m \notin InFlight
  BY <1>1 DEF StartMining, TypeInvariant, TypeOK, InFlight
<1>8. /\ IsFiniteSet(InFlight')
      /\ Cardinality(InFlight') = Cardinality(InFlight) + 1
  BY <1>7, FS_AddElement DEF TypeInvariant, RoomKept
<1>9. RoomKept'
  BY <1>8, RoomLeft DEF StartMining, Room, RoomKept
<1> QED
  BY <1>6, <1>9 DEF TypeInvariant

\* A mined block takes the hash that was left for it.
LEMMA FinishMiningType ==
  ASSUME TypeInvariant, NEW m \in Miners, FinishMining(m)
  PROVE  /\ TypeInvariant'
         /\ lastId + 1 \in 0..MaxId
<1> DEFINE b == [id |-> lastId + 1, previousHash |-> miners[m].previousHash,
                 transactions |-> miners[m].transactions, intact |-> TRUE]
           c == Append(chain, b)
<1>1. m \in InFlight /\ InFlight' = InFlight \ {m}
  BY DEF FinishMining, TypeInvariant, TypeOK, InFlight
<1>2. /\ IsFiniteSet(InFlight')
      /\ Cardinality(InFlight') = Cardinality(InFlight) - 1
  BY <1>1, FS_RemoveElement DEF TypeInvariant, RoomKept
<1>3. Cardinality(InFlight') \in Nat
  BY <1>2, FS_CardinalityType
<1>4. lastId + 1 \in 0..MaxId /\ lastId + 1 + Cardinality(InFlight') <= MaxId
  BY <1>2, <1>3, RoomLeft DEF TypeInvariant, RoomKept
<1>5. RoomKept'
  BY <1>2, <1>4 DEF FinishMining, RoomKept
<1>6. b \in Block
  <2>1. lastId + 1 \in Corrupt..MaxId
    BY <1>4 DEF Corrupt
  <2> QED
    BY <2>1 DEF Block, TypeInvariant, TypeOK
<1>7. c \in Chain
  BY <1>6, LinkedChain DEF Chain, TypeInvariant, TypeOK
<1>8. /\ chain' = c /\ saved' = c /\ audits' \in AuditType /\ overlapped' \in BOOLEAN
      /\ \A x \in Miners \union Audits : audits'[x] = {} <=> (audits[x] = {} /\ x # m)
  BY AuditReads DEF FinishMining, TypeInvariant, TypeOK, AuditType
<1>9. /\ miners' \in MinerType
      /\ \A n \in Miners : miners'[n].pc = "auditing" <=> (miners[n].pc = "auditing" \/ n = m)
  BY DEF FinishMining, TypeInvariant, TypeOK, MinerType
<1>10. sealedOver' \in BOOLEAN
  BY ValidIsBoolean DEF FinishMining, TypeInvariant, TypeOK
<1>11. \A n \in Miners : miners'[n].pc = "auditing" <=> audits'[n] # {}
  BY <1>8, <1>9 DEF TypeInvariant, TypeOK
<1>12. TypeOK'
  <2> HIDE DEF c
  <2>1. saved' # Garbage /\ chain' \in Seq(Block) /\ chain' # << >> /\ saved' \in Seq(Block)
    BY <1>7, <1>8 DEF Garbage, Chain
  <2>2. lastId' \in 0..MaxId
    BY <1>4 DEF FinishMining
  <2> QED
    BY <1>8, <1>9, <1>10, <1>11, <2>1, <2>2
    DEF FinishMining, TypeInvariant, TypeOK, AuditType, MinerType
<1> QED
  BY <1>4, <1>5, <1>12 DEF TypeInvariant

\* A click that ends without a block.
LEMMA MiningStopsType ==
  ASSUME TypeInvariant, NEW m \in Miners, WorkerError(m) \/ FallbackStops(m)
  PROVE  TypeInvariant'
<1>1. IdleMiner \in [pc : {"idle", "worker", "fallback", "auditing"},
                    previousHash : Corrupt..MaxId, transactions : SUBSET Txs]
      /\ IdleMiner.pc = "idle"
  BY BrowserLedgerAssumption DEF IdleMiner, Corrupt
<1>2. miners' = [miners EXCEPT ![m] = IdleMiner] /\ miners[m].pc # "auditing"
  BY DEF WorkerError, FallbackStops, TypeInvariant, TypeOK
<1>3. /\ miners' \in MinerType
      /\ \A n \in Miners : miners'[n].pc = "auditing" <=> miners[n].pc = "auditing"
      /\ InFlight' \subseteq InFlight
  <2>1. miners \in MinerType
    BY DEF TypeInvariant, TypeOK, MinerType
  <2> HIDE DEF IdleMiner
  <2> QED
    BY <1>1, <1>2, <2>1 DEF MinerType, InFlight
<1>4. TypeOK'
  BY <1>3 DEF WorkerError, FallbackStops, history, TypeInvariant, TypeOK, MinerType
<1>5. RoomKept'
  BY <1>3, RoomStays DEF WorkerError, FallbackStops
<1> QED
  BY <1>4, <1>5 DEF TypeInvariant

\* An audit of a handler that is not a click on the mine button leaves the
\* miners' own audits alone.
LEMMA OtherAuditReads ==
  ASSUME TypeOK, NEW a \in Audits, NEW c, AuditOf(a, c)
  PROVE  /\ audits' \in AuditType /\ overlapped' \in BOOLEAN /\ chain' = c
         /\ \A m \in Miners : audits'[m] = {} <=> audits[m] = {}
<1>1. a \in Miners \union Audits /\ a \notin Miners
  BY BrowserLedgerAssumption
<1>2. audits \in AuditType
  BY DEF TypeOK, AuditType
<1> QED
  BY <1>1, <1>2, AuditReads

LEMMA LedgerTabType ==
  ASSUME TypeInvariant, MemoryStep \/ \E a \in Audits : Revalidate(a)
  PROVE  TypeInvariant'
<1>1. InFlight' = InFlight /\ lastId' = lastId
  BY DEF MemoryStep, ReplaceInMemory, Revalidate, InFlight
<1>2. PICK a \in Audits, c \in Chain : AuditOf(a, c)
  BY DEF MemoryStep, ReplaceInMemory, Revalidate, Chain, TypeInvariant, TypeOK
<1>3. /\ audits' \in AuditType /\ overlapped' \in BOOLEAN /\ chain' \in Chain
      /\ \A m \in Miners : audits'[m] = {} <=> audits[m] = {}
  BY <1>2, OtherAuditReads DEF TypeInvariant
<1>4. raced' \in BOOLEAN
  BY DEF MemoryStep, ReplaceInMemory, Revalidate, TypeInvariant, TypeOK
<1>5. TypeOK'
  BY <1>3, <1>4
  DEF MemoryStep, ReplaceInMemory, Revalidate, TypeInvariant, TypeOK, AuditType, Chain
<1>6. RoomKept'
  BY <1>1, RoomStays
<1> QED
  BY <1>5, <1>6 DEF TypeInvariant

LEMMA HardResetType ==
  ASSUME TypeInvariant, NEW a \in Audits, HardReset(a)
  PROVE  TypeInvariant' /\ lastId + 1 \in 0..MaxId
<1>1. InFlight' = InFlight /\ Room /\ lastId' = lastId + 1
  BY DEF HardReset, InFlight
<1>2. lastId + 1 \in 0..MaxId /\ Seed(lastId + 1) \in Chain
  BY <1>1, RoomLeft, SeedChain
<1>3. /\ audits' \in AuditType /\ overlapped' \in BOOLEAN
      /\ chain' \in Chain /\ saved' \in Chain
      /\ \A m \in Miners : audits'[m] = {} <=> audits[m] = {}
  BY <1>2, OtherAuditReads DEF HardReset, TypeInvariant
<1>4. raced' \in BOOLEAN /\ forsaken' \in BOOLEAN
  BY DEF HardReset, TypeInvariant, TypeOK
<1>5. TypeOK'
  BY <1>1, <1>2, <1>3, <1>4
  DEF HardReset, TypeInvariant, TypeOK, AuditType, Chain, Garbage
<1>6. RoomKept'
  BY <1>1, RoomStays
<1> QED
  BY <1>2, <1>5, <1>6 DEF TypeInvariant

\* What store.initialize leaves saved is a chain.
LEMMA InitializedReads ==
  ASSUME TypeInvariant, Initialized
  PROVE  /\ saved' \in Chain /\ lastId' \in 0..MaxId
         /\ lastId' = lastId \/ (Room /\ lastId' = lastId + 1)
         /\ saved # Garbage => saved' = saved
         /\ saved = Garbage => Valid(saved')
BY RoomLeft, SeedChain DEF Initialized, Chain, Garbage, TypeInvariant, TypeOK

LEMMA ReloadType ==
  ASSUME TypeInvariant, NEW a \in Audits, Reload(a)
  PROVE  TypeInvariant'
<1>1. IdleMiner \in [pc : {"idle", "worker", "fallback", "auditing"},
                    previousHash : Corrupt..MaxId, transactions : SUBSET Txs]
      /\ IdleMiner.pc = "idle"
  BY BrowserLedgerAssumption DEF IdleMiner, Corrupt
<1>2. miners' \in MinerType /\ InFlight' = {} /\ \A m \in Miners : miners'[m].pc = "idle"
  <2> HIDE DEF IdleMiner
  <2> QED
    BY <1>1 DEF Reload, MinerType, InFlight
<1>3. audits' \in AuditType /\ \A m \in Miners : audits'[m] = {}
  <2>1. a \notin Miners /\ DOMAIN audits = Miners \union Audits
    BY BrowserLedgerAssumption DEF TypeInvariant, TypeOK
  <2> QED
    BY <2>1, ValidIsBoolean DEF Reload, AuditType
<1>4. qa' \in [pc : {"idle", "snapshot", "garbage", "reseeded", "restored"},
              backup : Seq(Block)]
  BY DEF Reload, IdleQA, Garbage
<1>5. forsaken' \in BOOLEAN /\ overlapped' \in BOOLEAN
  BY DEF Reload, TypeInvariant, TypeOK
<1>6. TypeOK'
  BY <1>2, <1>3, <1>4, <1>5, InitializedReads
  DEF Reload, TypeInvariant, TypeOK, AuditType, MinerType, Chain, Garbage
<1>7. RoomKept'
  BY <1>2, InitializedReads, RoomStays DEF Reload
<1> QED
  BY <1>6, <1>7 DEF TypeInvariant

QAType ==
  [pc : {"idle", "snapshot", "garbage", "reseeded", "restored"}, backup : Seq(Block)]

\* A test at rest.
LEMMA IdleTest == IdleQA \in QAType /\ IdleQA.pc = "idle"
<1>1. Garbage \in Seq(Block)
  BY DEF Garbage
<1> QED
  BY <1>1 DEF IdleQA, QAType

LEMMA QAStepType ==
  ASSUME TypeInvariant, BackupParses, QAStep
  PROVE  TypeInvariant' /\ BackupParses'
<1>0. /\ TypeOK /\ audits \in AuditType
      /\ qa \in QAType /\ saved \in Seq(Block) /\ (saved = Garbage => qa.pc = "garbage")
  BY DEF TypeInvariant, TypeOK, AuditType, QAType
<1>1. /\ InFlight' = InFlight
      /\ lastId' = lastId \/ (Room /\ lastId' = lastId + 1)
  BY InitializedReads
  DEF QAStep, QASnapshot, QASpoil, QAReseed, QAFails, QAPutBack, QAFinish, InFlight
<1>2. RoomKept'
  BY <1>1, RoomStays
<1>3. CASE QASnapshot
  <2>1. qa' \in QAType /\ BackupParses' /\ saved' # Garbage
    BY <1>0, <1>3 DEF QASnapshot, QAType, BackupParses
  <2>2. raced' \in BOOLEAN
    BY <1>0, <1>3 DEF QASnapshot, TypeOK
  <2>3. TypeOK'
    BY <1>0, <1>3, <2>1, <2>2 DEF QASnapshot, QAType, TypeOK
  <2> QED
    BY <1>2, <2>1, <2>3 DEF TypeInvariant
<1>4. CASE QASpoil \/ QAFails \/ QAPutBack
  <2>1. /\ qa' \in QAType /\ BackupParses' /\ saved' \in Seq(Block)
        /\ saved' = Garbage => qa'.pc = "garbage"
    <3>1. CASE QASpoil
      BY <1>0, <3>1 DEF QASpoil, Garbage, QAType, BackupParses
    <3>2. CASE QAFails
      <4>1. qa' = IdleQA /\ saved' = saved /\ saved # Garbage
        BY <1>0, <3>2 DEF QAFails
      <4> QED
        BY <1>0, <4>1, IdleTest DEF BackupParses
    <3>3. CASE QAPutBack
      BY <1>0, <3>3 DEF QAPutBack, Garbage, QAType, BackupParses
    <3> QED
      BY <1>4, <3>1, <3>2, <3>3
  <2>2. forsaken' \in BOOLEAN
    BY <1>0, <1>4 DEF QASpoil, QAFails, QAPutBack, history, TypeOK
  <2>3. TypeOK'
    BY <1>0, <1>4, <2>1, <2>2 DEF QASpoil, QAFails, QAPutBack, history, QAType, TypeOK
  <2> QED
    BY <1>2, <2>1, <2>3 DEF TypeInvariant
<1>5. CASE QAReseed \/ QAFinish
  <2>1. /\ audits' \in AuditType /\ \A m \in Miners : audits'[m] = {} <=> audits[m] = {}
    <3>1. \E c : audits' = Seen(c)
      BY <1>5 DEF QAReseed, QAFinish, Unaudited
    <3>2. DOMAIN audits = Miners \union Audits
      BY <1>0 DEF AuditType
    <3> QED
      BY <1>0, <3>1, <3>2, SeenReads
  <2>2. chain' = saved' /\ overlapped' \in BOOLEAN /\ forsaken' \in BOOLEAN
    BY <1>0, <1>5 DEF QAReseed, QAFinish, Unaudited, TypeOK
  <2>3. saved' \in Chain /\ lastId' \in 0..MaxId
    BY <1>0, <1>5, InitializedReads DEF QAReseed, QAFinish, TypeOK, Chain, Garbage
  <2>4. qa' \in QAType /\ BackupParses'
    <3>1. CASE qa' = IdleQA
      BY <3>1, IdleTest DEF BackupParses
    <3>2. CASE qa' # IdleQA
      <4>1. qa.pc = "garbage" /\ qa' = [qa EXCEPT !.pc = "reseeded"]
        BY <1>5, <3>2 DEF QAReseed, QAFinish
      <4> QED
        BY <1>0, <4>1 DEF QAType, BackupParses
    <3> QED
      BY <3>1, <3>2
  <2>5. exposed' \subseteq queued' /\ pendingTransactions' \subseteq queued' /\ queued' = queued
    BY <1>0, <1>5 DEF QAReseed, QAFinish, TypeOK
  <2>6. TypeOK'
    BY <1>0, <1>5, <2>1, <2>2, <2>3, <2>4, <2>5
    DEF QAReseed, QAFinish, TypeOK, AuditType, QAType, Chain, Garbage
  <2> QED
    BY <1>2, <2>4, <2>6 DEF TypeInvariant
<1> QED
  BY <1>3, <1>4, <1>5 DEF QAStep

\* Every step keeps the types, and the room they rest on.
LEMMA NextType ==
  TypeInvariant /\ BackupParses /\ [Next]_vars => TypeInvariant' /\ BackupParses'
<1> SUFFICES ASSUME TypeInvariant, BackupParses, [Next]_vars
             PROVE  TypeInvariant' /\ BackupParses'
  OBVIOUS
<1>1. CASE UNCHANGED vars
  <2>1. InFlight' = InFlight /\ lastId' = lastId /\ TypeOK' /\ BackupParses'
    BY <1>1 DEF vars, page, history, InFlight, TypeInvariant, TypeOK, BackupParses
  <2> QED
    BY <2>1, RoomStays DEF TypeInvariant
<1>2. CASE QAStep
  BY <1>2, QAStepType
<1>3. ASSUME NEW a \in Audits, Reload(a)
      PROVE  TypeInvariant' /\ BackupParses'
  BY <1>3, ReloadType DEF Reload, IdleQA, BackupParses
<1>4. ASSUME NEW a \in Audits, HardReset(a)
      PROVE  TypeInvariant' /\ BackupParses'
  BY <1>4, HardResetType DEF HardReset, BackupParses
<1>5. CASE MemoryStep \/ \E a \in Audits : Revalidate(a)
  <2>1. TypeInvariant'
    BY <1>5, LedgerTabType
  <2>2. qa' = qa
    BY <1>5 DEF MemoryStep, ReplaceInMemory, Revalidate
  <2> QED
    BY <2>1, <2>2 DEF BackupParses
<1>6. ASSUME NEW m \in Miners,
             StartMining(m) \/ FinishMining(m) \/ WorkerError(m) \/ FallbackStops(m)
      PROVE  TypeInvariant' /\ BackupParses'
  <2>1. TypeInvariant'
    BY <1>6, StartMiningType, FinishMiningType, MiningStopsType
  <2>2. qa' = qa
    BY <1>6 DEF StartMining, FinishMining, WorkerError, FallbackStops
  <2> QED
    BY <2>1, <2>2 DEF BackupParses
<1>7. ASSUME NEW a \in DOMAIN audits, FinishAudit(a)
      PROVE  TypeInvariant' /\ BackupParses'
  BY <1>7, FinishAuditType DEF FinishAudit, BackupParses
<1>8. ASSUME NEW t \in Txs, AddPendingTransaction(t)
      PROVE  TypeInvariant' /\ BackupParses'
  BY <1>8, QueueType DEF AddPendingTransaction, BackupParses
<1> QED
  BY <1>1, <1>2, <1>3, <1>4, <1>5, <1>6, <1>7, <1>8, MemorySteps DEF Next, TypeInvariant

\* A page on its first load.
LEMMA InitType == Init => TypeInvariant /\ BackupParses
<1> SUFFICES ASSUME Init
             PROVE  TypeInvariant /\ BackupParses
  OBVIOUS
<1>1. IdleMiner \in [pc : {"idle", "worker", "fallback", "auditing"},
                    previousHash : Corrupt..MaxId, transactions : SUBSET Txs]
      /\ IdleMiner.pc = "idle"
  BY BrowserLedgerAssumption DEF IdleMiner, Corrupt
<1>2. Seed(0) \in Chain /\ 0 \in 0..MaxId
  BY SeedChain, BrowserLedgerAssumption
<1>3. /\ miners \in MinerType /\ audits \in AuditType /\ InFlight = {}
      /\ \A m \in Miners : miners[m].pc = "auditing" <=> audits[m] # {}
  <2> HIDE DEF IdleMiner
  <2> QED
    BY <1>1 DEF Init, MinerType, AuditType, InFlight
<1>4. qa \in QAType /\ BackupParses
  BY DEF Init, IdleQA, Garbage, QAType, BackupParses
<1>5. TypeOK
  BY <1>2, <1>3, <1>4 DEF Init, TypeOK, MinerType, AuditType, QAType, Chain, Garbage
<1>6. RoomKept
  BY <1>3, FS_EmptySet, BrowserLedgerAssumption DEF Init, RoomKept
<1> QED
  BY <1>4, <1>5, <1>6 DEF TypeInvariant

LEMMA TypesKept == Spec => [](TypeInvariant /\ BackupParses)
BY InitType, NextType, PTL DEF Spec

\* The chain, its saved copy, the mempool, the mining clicks and the audits of
\* the page keep their types (app.js:96-100, 638-735).
THEOREM LedgerTypeCorrect == Spec => []TypeOK
<1>1. TypeInvariant => TypeOK
  BY DEF TypeInvariant
<1> QED
  BY <1>1, TypesKept, PTL

-----------------------------------------------------------------------------
(* What the banner says *)

\* Unless one met a change of validity, the audits under way report what holds
\* of the chain in memory, and between audits the banner shows it.
AuditsCurrent ==
  ~overlapped =>
    /\ \A a \in Auditing : audits[a] = {Valid(chain)}
    /\ Auditing = {} => isChainCorrupt = ~Valid(chain)

\* An audit that starts alone starts from the truth, and one that joins others
\* reads what they read.
LEMMA AuditStarts ==
  ASSUME TypeOK, AuditsCurrent, NEW a \in Miners \union Audits, NEW c, AuditOf(a, c)
  PROVE  AuditsCurrent'
<1> SUFFICES ASSUME ~overlapped'
             PROVE  AuditsCurrent'
  BY DEF AuditsCurrent
<1>0. DOMAIN audits = Miners \union Audits /\ DOMAIN Seen(c) = Miners \union Audits
  BY DEF TypeOK, Seen
<1>1. chain' = c /\ audits' = [Seen(c) EXCEPT ![a] = {Valid(c)}] /\ Valid(c) = Valid(chain)'
  BY DEF AuditOf, Valid
<1>2. ASSUME NEW x \in Auditing
      PROVE  audits[x] = {Valid(c)}
  <2>1. ~overlapped /\ Valid(c) = Valid(chain)
    BY <1>2 DEF AuditOf
  <2> QED
    BY <1>2, <2>1 DEF AuditsCurrent
<1>3. \A x \in Miners \union Audits : audits'[x] \in {{}, {Valid(c)}}
  BY <1>0, <1>1, <1>2 DEF Seen, Auditing
<1>4. a \in Auditing'
  BY <1>0, <1>1 DEF Auditing
<1>5. \A x \in Auditing' : audits'[x] = {Valid(c)}
  BY <1>0, <1>1, <1>3 DEF Auditing
<1> QED
  BY <1>1, <1>4, <1>5 DEF AuditsCurrent

\* A chain that no handler audits is as valid as the one it replaces, and the
\* audits under way report what they did.
LEMMA UnauditedStaysCurrent ==
  ASSUME TypeOK, AuditsCurrent, NEW c, Unaudited(c), UNCHANGED isChainCorrupt
  PROVE  AuditsCurrent'
<1> SUFFICES ASSUME ~overlapped'
             PROVE  AuditsCurrent'
  BY DEF AuditsCurrent
<1>0. DOMAIN audits = Miners \union Audits /\ DOMAIN Seen(c) = Miners \union Audits
  BY DEF TypeOK, Seen
<1>1. ~overlapped /\ Valid(c) = Valid(chain) /\ Valid(c) = Valid(chain)' /\ audits' = Seen(c)
  BY DEF Unaudited, Valid
<1>2. Auditing' = Auditing
  BY <1>0, <1>1 DEF Auditing, Seen
<1>3. \A x \in Auditing : audits'[x] = {Valid(c)}
  BY <1>0, <1>1 DEF Auditing, Seen, AuditsCurrent
<1> QED
  BY <1>1, <1>2, <1>3 DEF AuditsCurrent

LEMMA AuditsStayCurrent ==
  TypeOK /\ AuditsCurrent /\ [Next]_vars => AuditsCurrent'
<1> SUFFICES ASSUME TypeOK, AuditsCurrent, [Next]_vars
             PROVE  AuditsCurrent'
  OBVIOUS
<1>0. DOMAIN audits = Miners \union Audits
  BY DEF TypeOK
<1>1. CASE UNCHANGED <<chain, audits, isChainCorrupt, overlapped>>
  BY <1>1 DEF AuditsCurrent, Auditing, Valid
<1>3. ASSUME NEW a \in DOMAIN audits, FinishAudit(a)
      PROVE  AuditsCurrent'
  <2> SUFFICES ASSUME ~overlapped
               PROVE  AuditsCurrent'
    BY <1>3 DEF FinishAudit, history, AuditsCurrent
  <2>1. PICK valid \in audits[a] : isChainCorrupt' = ~valid
    BY <1>3 DEF FinishAudit
  <2>2. isChainCorrupt' = ~Valid(chain)
    BY <2>1, <1>3 DEF AuditsCurrent, Auditing
  <2>3. audits' = [audits EXCEPT ![a] = {}] /\ chain' = chain
    BY <1>3 DEF FinishAudit
  <2>4. \A x \in Auditing' : x \in Auditing /\ audits'[x] = audits[x]
    BY <2>3 DEF Auditing
  <2> QED
    BY <2>2, <2>3, <2>4 DEF AuditsCurrent, Valid
<1>4. ASSUME NEW a \in Audits, Reload(a)
      PROVE  AuditsCurrent'
  <2>1. audits' = [x \in DOMAIN audits |-> IF x = a THEN {Valid(chain')} ELSE {}]
    BY <1>4 DEF Reload
  <2>2. Auditing' = {a} /\ audits'[a] = {Valid(chain')}
    BY <1>0, <2>1 DEF Auditing
  <2> QED
    BY <2>2 DEF AuditsCurrent, Valid
<1>5. CASE MemoryStep \/ \E a \in Audits : Revalidate(a) \/ HardReset(a)
  BY <1>5, AuditStarts DEF MemoryStep, ReplaceInMemory, Revalidate, HardReset
<1>6. ASSUME NEW m \in Miners, FinishMining(m)
      PROVE  AuditsCurrent'
  BY <1>6, AuditStarts DEF FinishMining
<1>7. ASSUME NEW m \in Miners, StartMining(m) \/ WorkerError(m) \/ FallbackStops(m)
      PROVE  AuditsCurrent'
  BY <1>1, <1>7 DEF StartMining, WorkerError, FallbackStops, history
<1>8. CASE QAStep
  <2>1. CASE QAReseed \/ QAFinish
    BY <2>1, UnauditedStaysCurrent DEF QAReseed, QAFinish
  <2>2. CASE QASnapshot \/ QASpoil \/ QAFails \/ QAPutBack
    BY <1>1, <2>2 DEF QASnapshot, QASpoil, QAFails, QAPutBack, history
  <2> QED
    BY <1>8, <2>1, <2>2 DEF QAStep
<1>9. ASSUME NEW t \in Txs, AddPendingTransaction(t)
      PROVE  AuditsCurrent'
  BY <1>1, <1>9 DEF AddPendingTransaction
<1>10. CASE UNCHANGED vars
  BY <1>1, <1>10 DEF vars, page, history
<1> QED
  BY <1>3, <1>4, <1>5, <1>6, <1>7, <1>8, <1>9, <1>10, MemorySteps DEF Next

\* With every handler at rest the banner tells the truth about the chain in
\* memory, however audits overlap, unless a handler made a valid chain invalid,
\* or the reverse, while another one audited it, or the reseed test did so without
\* an audit (app.js:214-244).
THEOREM BannerTellsTruth == Spec => []BannerTruthful
<1>1. Init => AuditsCurrent
  <2> SUFFICES ASSUME Init
               PROVE  AuditsCurrent
    OBVIOUS
  <2>1. 0 \in 0..MaxId
    BY BrowserLedgerAssumption
  <2>2. Valid(chain)
    BY <2>1, SeedChain DEF Init
  <2> QED
    BY <2>2 DEF Init, AuditsCurrent, Auditing
<1>2. AuditsCurrent => BannerTruthful
  BY DEF AuditsCurrent, BannerTruthful
<1> QED
  BY <1>1, <1>2, AuditsStayCurrent, LedgerTypeCorrect, PTL DEF Spec

-----------------------------------------------------------------------------
(* What is persisted *)

\* Until mining overlaps mining or a replacement of the chain, at most one
\* block is under way, beside no test, and it links to the last one in memory.
MiningAlone ==
  ~raced =>
    /\ \A m, n \in InFlight : m = n
    /\ \A m \in InFlight : miners[m].previousHash = Last(chain).id
    /\ qa.pc # "idle" => InFlight = {}

\* No block was mined on a chain tampered with: what is saved is valid, and so
\* is the copy the reseed test holds.
SavedSound ==
  ~raced /\ ~sealedOver => Valid(saved) /\ (qa.pc # "idle" => Valid(qa.backup))

LEMMA MiningStaysAlone ==
  TypeOK /\ MiningAlone /\ [Next]_vars => MiningAlone'
<1> SUFFICES ASSUME TypeOK, MiningAlone, [Next]_vars, ~raced'
             PROVE  MiningAlone'
  BY DEF MiningAlone
<1>1. CASE InFlight' = {}
  BY <1>1 DEF MiningAlone
<1>2. CASE /\ UNCHANGED <<chain, raced>>
           /\ InFlight' \subseteq InFlight
           /\ \A m \in InFlight' : miners'[m] = miners[m]
           /\ qa'.pc # "idle" => qa.pc # "idle"
  BY <1>2 DEF MiningAlone
<1>3. ASSUME NEW m \in Miners, StartMining(m)
      PROVE  MiningAlone'
  <2>1. ~Busy
    BY <1>3 DEF StartMining
  <2>2. PICK mode \in {"worker", "fallback"} :
          miners' = [miners EXCEPT ![m] =
            [pc |-> mode, previousHash |-> Last(chain).id,
             transactions |-> pendingTransactions]]
    BY <1>3 DEF StartMining, LatestBlock
  <2>3. InFlight' = {m} /\ miners'[m].previousHash = Last(chain).id
    BY <2>1, <2>2 DEF Busy, InFlight, TypeOK
  <2>4. chain' = chain /\ qa' = qa /\ qa.pc = "idle"
    BY <1>3, <2>1 DEF StartMining, Busy
  <2> QED
    BY <2>3, <2>4 DEF MiningAlone
<1>4. ASSUME NEW m \in Miners, FinishMining(m)
      PROVE  MiningAlone'
  <2>1. ~raced /\ m \in InFlight /\ InFlight' = InFlight \ {m}
    BY <1>4 DEF FinishMining, InFlight, TypeOK
  <2> QED
    BY <1>1, <2>1 DEF MiningAlone
<1>5. ASSUME NEW m \in Miners, WorkerError(m) \/ FallbackStops(m)
      PROVE  MiningAlone'
  <2>1. /\ UNCHANGED <<chain, raced, qa>>
        /\ \A n \in Miners : miners'[n] = IF n = m THEN IdleMiner ELSE miners[n]
    BY <1>5 DEF WorkerError, FallbackStops, history, TypeOK
  <2>2. IdleMiner.pc = "idle"
    BY DEF IdleMiner
  <2>3. /\ InFlight' \subseteq InFlight
        /\ \A n \in InFlight' : miners'[n] = miners[n]
    BY <2>1, <2>2 DEF InFlight
  <2> QED
    BY <1>2, <2>1, <2>3
<1>6. ASSUME NEW a \in DOMAIN audits, FinishAudit(a)
      PROVE  MiningAlone'
  <2>1. /\ UNCHANGED <<chain, raced, qa>>
        /\ \A n \in Miners : miners'[n] = IF n = a THEN IdleMiner ELSE miners[n]
    BY <1>6 DEF FinishAudit, history, TypeOK
  <2>2. IdleMiner.pc = "idle"
    BY DEF IdleMiner
  <2>3. /\ InFlight' \subseteq InFlight
        /\ \A n \in InFlight' : miners'[n] = miners[n]
    BY <2>1, <2>2 DEF InFlight
  <2> QED
    BY <1>2, <2>1, <2>3
<1>7. CASE MemoryStep \/ \E a \in Audits : HardReset(a)
  <2>1. InFlight = {} /\ miners' = miners
    BY <1>7 DEF MemoryStep, ReplaceInMemory, HardReset
  <2> QED
    BY <1>1, <2>1 DEF InFlight
<1>8. ASSUME NEW a \in Audits, Reload(a)
      PROVE  MiningAlone'
  BY <1>1, <1>8 DEF Reload, IdleMiner, InFlight
<1>9. CASE QAStep
  <2>1. CASE QASnapshot
    BY <1>1, <2>1 DEF QASnapshot, InFlight
  <2>2. CASE ~QASnapshot
    <3>1. ~raced /\ qa.pc # "idle" /\ miners' = miners
      BY <1>9, <2>2
      DEF QAStep, QASpoil, QAReseed, QAFails, QAPutBack, QAFinish, Unaudited, history
    <3> QED
      BY <1>1, <3>1 DEF MiningAlone, InFlight
  <2> QED
    BY <2>1, <2>2
<1>10. CASE \/ \E a \in Audits : Revalidate(a)
            \/ \E t \in Txs : AddPendingTransaction(t)
            \/ UNCHANGED vars
  BY <1>2, <1>10 DEF Revalidate, AuditOf, AddPendingTransaction, vars, page, history, InFlight
<1> QED
  BY <1>3, <1>4, <1>5, <1>6, <1>7, <1>8, <1>9, <1>10, MemorySteps DEF Next

LEMMA SavedStaysSound ==
  TypeInvariant /\ BackupParses /\ MiningAlone /\ SavedSound /\ [Next]_vars => SavedSound'
<1> SUFFICES ASSUME TypeInvariant, MiningAlone, SavedSound, [Next]_vars,
                    ~raced', ~sealedOver'
             PROVE  SavedSound'
  BY DEF SavedSound
<1>1. CASE UNCHANGED <<saved, qa, raced, sealedOver>>
  BY <1>1 DEF SavedSound, Valid
<1>2. ASSUME NEW m \in Miners, FinishMining(m)
      PROVE  SavedSound'
  <2> DEFINE b == [id |-> lastId + 1, previousHash |-> miners[m].previousHash,
                   transactions |-> miners[m].transactions, intact |-> TRUE]
  <2>1. ~raced /\ Valid(chain) /\ m \in InFlight
    BY <1>2 DEF FinishMining, InFlight
  <2>2. b.intact /\ b.previousHash = Last(chain).id
    BY <2>1 DEF MiningAlone
  <2>3. b \in Block
    <3>1. lastId + 1 \in Corrupt..MaxId
      BY <1>2, FinishMiningType DEF Corrupt
    <3> QED
      BY <3>1 DEF Block, TypeInvariant, TypeOK
  <2>4. chain \in Chain
    BY DEF Chain, TypeInvariant, TypeOK
  <2>5. saved' = Append(chain, b)
    BY <1>2 DEF FinishMining
  <2>6. Valid(saved')
    <3> HIDE DEF b
    <3> QED
      BY <2>1, <2>2, <2>3, <2>4, <2>5, LinkedChain
  <2>7. qa.pc = "idle" /\ qa' = qa
    BY <1>2, <2>1 DEF FinishMining, MiningAlone
  <2> QED
    BY <2>6, <2>7 DEF SavedSound, Valid
<1>3. ASSUME NEW a \in Audits, HardReset(a)
      PROVE  SavedSound'
  <2>1. Valid(saved') /\ qa' = qa /\ SavedSound /\ ~raced /\ ~sealedOver
    BY <1>3, HardResetType, SeedChain DEF HardReset
  <2> QED
    BY <2>1 DEF SavedSound, Valid
<1>4. ASSUME NEW a \in Audits, Reload(a)
      PROVE  SavedSound'
  <2>1. Valid(saved') /\ qa'.pc = "idle"
    BY <1>4, InitializedReads DEF Reload, IdleQA, SavedSound
  <2> QED
    BY <2>1 DEF SavedSound, Valid
<1>5. CASE QAStep
  <2>1. ~raced /\ ~sealedOver
    BY <1>5
    DEF QAStep, QASnapshot, QASpoil, QAReseed, QAFails, QAPutBack, QAFinish, history,
        TypeInvariant, TypeOK
  <2>2. Valid(saved) /\ (qa.pc # "idle" => Valid(qa.backup))
    BY <2>1 DEF SavedSound
  <2>3. Valid(Garbage) /\ qa \in QAType
    BY DEF Valid, Garbage, TypeInvariant, TypeOK, QAType
  <2>4. Valid(saved')
    <3>1. CASE QAReseed
      BY <2>2, <3>1, InitializedReads DEF QAReseed
    <3> QED
      BY <1>5, <2>2, <2>3, <3>1
      DEF QAStep, QASnapshot, QASpoil, QAFails, QAPutBack, QAFinish
  <2>5. qa'.pc # "idle" => Valid(qa'.backup)
    BY <1>5, <2>2, <2>3, IdleTest
    DEF QAStep, QASnapshot, QASpoil, QAReseed, QAFails, QAPutBack, QAFinish, QAType
  <2> QED
    BY <2>4, <2>5 DEF SavedSound, Valid
<1>6. ASSUME NEW m \in Miners, StartMining(m) \/ WorkerError(m) \/ FallbackStops(m)
      PROVE  SavedSound'
  <2>1. UNCHANGED <<saved, qa, sealedOver>> /\ ~raced
    BY <1>6 DEF StartMining, WorkerError, FallbackStops, history, TypeInvariant, TypeOK
  <2> QED
    BY <2>1 DEF SavedSound, Valid
<1>7. CASE MemoryStep
  <2>1. UNCHANGED <<saved, qa, sealedOver>> /\ ~raced
    BY <1>7 DEF MemoryStep, ReplaceInMemory
  <2> QED
    BY <2>1 DEF SavedSound, Valid
<1>8. CASE \/ \E a \in Audits : Revalidate(a)
           \/ \E a \in DOMAIN audits : FinishAudit(a)
           \/ \E t \in Txs : AddPendingTransaction(t)
           \/ UNCHANGED vars
  BY <1>1, <1>8 DEF Revalidate, FinishAudit, AddPendingTransaction, vars, page, history
<1> QED
  BY <1>2, <1>3, <1>4, <1>5, <1>6, <1>7, <1>8, MemorySteps DEF Next, TypeInvariant

\* Only mining over a chain tampered with in memory, or over another mining,
\* persists a chain that fails its audit (app.js:669-691).
THEOREM SavedChainsAreValid == Spec => []SavedChainValid
<1>1. Init => MiningAlone /\ SavedSound
  <2> SUFFICES ASSUME Init
               PROVE  MiningAlone /\ SavedSound
    OBVIOUS
  <2>1. Valid(saved)
    BY SeedChain, BrowserLedgerAssumption DEF Init
  <2>2. qa.pc = "idle"
    BY DEF Init, IdleQA
  <2>3. InFlight = {}
    BY DEF Init, IdleMiner, InFlight
  <2> QED
    BY <2>1, <2>2, <2>3 DEF MiningAlone, SavedSound
<1>2. SavedSound => SavedChainValid
  BY DEF SavedSound, SavedChainValid
<1>3. TypeInvariant => TypeOK
  BY DEF TypeInvariant
<1> QED
  BY <1>1, <1>2, <1>3, MiningStaysAlone, SavedStaysSound, TypesKept, PTL DEF Spec

-----------------------------------------------------------------------------
(* What becomes of a certificate *)

RecordedIn(t, c) == {i \in DOMAIN c : t \in c[i].transactions}

\* Chain c keeps the certificates of ts, those still pending and those not.
KeptIn(c, ts, pending) ==
  \A t \in ts : IF t \in pending THEN RecordedIn(t, c) = {}
                ELSE \E i \in DOMAIN c : RecordedIn(t, c) = {i}

\* The saved chain, or the copy of it while the reseed test has spoilt it.
Ledger == IF qa.pc \in {"garbage", "reseeded"} THEN qa.backup ELSE saved

\* Blocks hold what was queued.
OnlyQueued(c) == \A i \in DOMAIN c : c[i].transactions \subseteq queued

BlocksQueued ==
  /\ OnlyQueued(chain) /\ OnlyQueued(saved) /\ OnlyQueued(qa.backup)
  /\ \A m \in Miners : miners[m].transactions \subseteq queued

\* Unless mining overlapped something or somebody reset: the ledger keeps the
\* certificates, the chain in memory records what the saved one does, the copy
\* of the reseed test is that of the saved chain, and the block under way takes
\* what is pending.
Keeping ==
  ~raced /\ ~forsaken =>
    /\ KeptIn(Ledger, queued \ exposed, pendingTransactions)
    /\ qa.pc = "idle" => SameTransactions(chain, saved)
    /\ qa.pc = "snapshot" => qa.backup = saved
    /\ qa.pc # "idle" => pendingTransactions \subseteq exposed
    /\ \A m \in InFlight : \A t \in queued \ exposed :
         t \in miners[m].transactions <=> t \in pendingTransactions

LEMMA SeedQueued == \A g : OnlyQueued(Seed(g)) /\ OnlyQueued(Seed(g))'
BY DEF OnlyQueued, Seed

\* A chain that held what was queued still does.
LEMMA QueuedGrows ==
  ASSUME NEW c, NEW q, NEW r, q \subseteq r,
         \A i \in DOMAIN c : c[i].transactions \subseteq q
  PROVE  \A i \in DOMAIN c : c[i].transactions \subseteq r
OBVIOUS

LEMMA BlocksStayQueued ==
  TypeOK /\ BlocksQueued /\ [Next]_vars => BlocksQueued'
<1> SUFFICES ASSUME TypeOK, BlocksQueued, [Next]_vars
             PROVE  BlocksQueued'
  OBVIOUS
<1>1. CASE /\ queued \subseteq queued'
           /\ chain' = chain \/ OnlyQueued(chain')
           /\ saved' = saved \/ OnlyQueued(saved')
           /\ qa'.backup = qa.backup \/ OnlyQueued(qa'.backup)
           /\ \A m \in Miners : \/ miners'[m].transactions = miners[m].transactions
                                \/ miners'[m].transactions \subseteq queued
  BY <1>1 DEF BlocksQueued, OnlyQueued
<1>2. IdleMiner.transactions = {} /\ OnlyQueued(Garbage) /\ OnlyQueued(IdleQA.backup)
  BY DEF IdleMiner, Garbage, IdleQA, OnlyQueued
<1>3. ASSUME NEW m \in Miners, StartMining(m)
      PROVE  BlocksQueued'
  <2>1. \A n \in Miners : \/ miners'[n].transactions = miners[n].transactions
                          \/ miners'[n].transactions \subseteq queued
    BY <1>3 DEF StartMining, TypeOK
  <2> QED
    BY <1>1, <1>3, <2>1 DEF StartMining
<1>4. ASSUME NEW m \in Miners, FinishMining(m)
      PROVE  BlocksQueued'
  <2> DEFINE b == [id |-> lastId + 1, previousHash |-> miners[m].previousHash,
                   transactions |-> miners[m].transactions, intact |-> TRUE]
  <2>1. chain' = Append(chain, b) /\ saved' = chain' /\ qa' = qa /\ queued' = queued
    BY <1>4 DEF FinishMining, AuditOf
  <2>2. \A n \in Miners : miners'[n].transactions = miners[n].transactions
    BY <1>4 DEF FinishMining, TypeOK
  <2>3. b.transactions \subseteq queued
    BY DEF BlocksQueued
  <2>4. OnlyQueued(chain')
    <3> HIDE DEF b
    <3>1. /\ DOMAIN chain = 1..Len(chain) /\ Len(chain) \in Nat
          /\ DOMAIN chain' = 1..(Len(chain) + 1)
          /\ \A i \in DOMAIN chain' : chain'[i] = IF i = Len(chain) + 1 THEN b ELSE chain[i]
      BY <2>1 DEF TypeOK
    <3> QED
      BY <2>3, <3>1 DEF BlocksQueued, OnlyQueued
  <2> QED
    BY <1>1, <2>1, <2>2, <2>4
<1>5. ASSUME NEW m \in Miners, WorkerError(m) \/ FallbackStops(m)
      PROVE  BlocksQueued'
  <2>1. \A n \in Miners : miners'[n] = IF n = m THEN IdleMiner ELSE miners[n]
    BY <1>5 DEF WorkerError, FallbackStops, TypeOK
  <2> QED
    BY <1>1, <1>2, <1>5, <2>1 DEF WorkerError, FallbackStops, history
<1>6. ASSUME NEW a \in DOMAIN audits, FinishAudit(a)
      PROVE  BlocksQueued'
  <2>1. \A n \in Miners : miners'[n] = IF n = a THEN IdleMiner ELSE miners[n]
    BY <1>6 DEF FinishAudit, TypeOK
  <2> QED
    BY <1>1, <1>2, <1>6, <2>1 DEF FinishAudit, history
<1>7. CASE MemoryStep
  <2>1. PICK a \in Audits, c \in Chain :
          ReplaceInMemory(a, c) /\ (SameTransactions(chain, c) \/ c = saved)
    BY <1>7 DEF MemoryStep
  <2>2. OnlyQueued(c)
    BY <2>1 DEF SameTransactions, OnlyQueued, BlocksQueued
  <2> QED
    BY <1>1, <2>1, <2>2 DEF ReplaceInMemory, AuditOf
<1>8. ASSUME NEW a \in Audits, HardReset(a)
      PROVE  BlocksQueued'
  BY <1>1, <1>8, SeedQueued DEF HardReset, AuditOf
<1>9. ASSUME NEW a \in Audits, Reload(a)
      PROVE  BlocksQueued'
  <2>1. OnlyQueued(saved')
    BY <1>9, SeedQueued DEF Reload, Initialized, BlocksQueued
  <2> QED
    BY <1>1, <1>2, <1>9, <2>1 DEF Reload
<1>10. CASE QAStep
  <2>1. OnlyQueued(saved')
    BY <1>2, <1>10, SeedQueued
    DEF QAStep, QASnapshot, QASpoil, QAReseed, QAFails, QAPutBack, QAFinish,
        Initialized, BlocksQueued
  <2>2. chain' = chain \/ chain' = saved'
    BY <1>10 DEF QAStep, QASnapshot, QASpoil, QAReseed, QAFails, QAPutBack, QAFinish, Unaudited
  <2>3. qa'.backup = qa.backup \/ OnlyQueued(qa'.backup)
    <3>1. qa \in QAType
      BY DEF TypeOK, QAType
    <3> QED
      BY <1>2, <1>10, <3>1
      DEF QAStep, QASnapshot, QASpoil, QAReseed, QAFails, QAPutBack, QAFinish,
          QAType, BlocksQueued
  <2>4. queued' = queued /\ miners' = miners
    BY <1>10 DEF QAStep, QASnapshot, QASpoil, QAReseed, QAFails, QAPutBack, QAFinish, history
  <2> QED
    BY <1>1, <2>1, <2>2, <2>3, <2>4
<1>11. CASE \/ \E a \in Audits : Revalidate(a)
            \/ \E t \in Txs : AddPendingTransaction(t)
            \/ UNCHANGED vars
  BY <1>1, <1>11 DEF Revalidate, AuditOf, AddPendingTransaction, vars, page, history
<1> QED
  BY <1>3, <1>4, <1>5, <1>6, <1>7, <1>8, <1>9, <1>10, <1>11, MemorySteps DEF Next

\* Chains with the same transactions record a certificate in the same blocks.
LEMMA SameRecords ==
  ASSUME NEW t, NEW c, NEW d, SameTransactions(c, d)
  PROVE  RecordedIn(t, c) = RecordedIn(t, d)
BY DEF SameTransactions, RecordedIn

\* What is kept stays kept while no other certificate is asked about and those
\* asked about stay pending, or stay out of the mempool.
LEMMA KeptStays ==
  ASSUME NEW c, NEW ts, NEW p, NEW ts2, NEW p2, KeptIn(c, ts, p),
         ts2 \subseteq ts, \A t \in ts2 : t \in p2 <=> t \in p
  PROVE  KeptIn(c, ts2, p2)
BY DEF KeptIn

\* A block with what is pending records each pending certificate once, and the
\* others no second time.
LEMMA MinedRecords ==
  ASSUME NEW c \in Chain, NEW d \in Chain, NEW b \in Block, NEW ts, NEW p,
         SameTransactions(c, d), KeptIn(d, ts, p),
         \A t \in ts : t \in b.transactions <=> t \in p
  PROVE  KeptIn(Append(c, b), ts, {})
<1> SUFFICES ASSUME NEW t \in ts
             PROVE  \E i \in DOMAIN Append(c, b) : RecordedIn(t, Append(c, b)) = {i}
  BY DEF KeptIn
<1>1. /\ Len(c) \in Nat /\ DOMAIN c = 1..Len(c)
      /\ DOMAIN Append(c, b) = 1..(Len(c) + 1)
      /\ \A i \in DOMAIN Append(c, b) :
           Append(c, b)[i] = IF i = Len(c) + 1 THEN b ELSE c[i]
  BY DEF Chain
<1>2. RecordedIn(t, c) = RecordedIn(t, d) /\ DOMAIN c = DOMAIN d
  BY SameRecords DEF SameTransactions
<1>3. CASE t \in p
  <2>1. RecordedIn(t, c) = {} /\ t \in b.transactions
    BY <1>2, <1>3 DEF KeptIn
  <2>2. RecordedIn(t, Append(c, b)) = {Len(c) + 1}
    BY <1>1, <2>1 DEF RecordedIn
  <2> QED
    BY <1>1, <2>2
<1>4. CASE t \notin p
  <2>1. PICK i \in DOMAIN c : RecordedIn(t, c) = {i}
    BY <1>2, <1>4 DEF KeptIn
  <2>2. RecordedIn(t, Append(c, b)) = RecordedIn(t, c)
    BY <1>1, <1>4 DEF RecordedIn
  <2> QED
    BY <1>1, <2>1, <2>2
<1> QED
  BY <1>3, <1>4

LEMMA KeepingStays ==
  TypeInvariant /\ MiningAlone /\ BlocksQueued /\ Keeping /\ [Next]_vars => Keeping'
<1> SUFFICES ASSUME TypeInvariant, MiningAlone, BlocksQueued, Keeping, [Next]_vars,
                    ~raced', ~forsaken'
             PROVE  Keeping'
  BY DEF Keeping
<1> DEFINE Asked == queued \ exposed
<1>0. TypeOK /\ chain \in Chain /\ qa \in QAType
      /\ (saved # Garbage => saved \in Chain) /\ (saved = Garbage => qa.pc = "garbage")
  BY DEF TypeInvariant, TypeOK, Chain, Garbage, QAType
<1>1. ~raced /\ ~forsaken =>
        /\ KeptIn(Ledger, Asked, pendingTransactions)
        /\ qa.pc = "idle" => SameTransactions(chain, saved)
        /\ qa.pc = "snapshot" => qa.backup = saved
        /\ qa.pc # "idle" => pendingTransactions \subseteq exposed /\ InFlight = {}
        /\ \A m \in InFlight : \A t \in Asked :
             t \in miners[m].transactions <=> t \in pendingTransactions
  BY DEF Keeping, MiningAlone
<1>2. CASE /\ UNCHANGED <<saved, qa, queued, exposed, pendingTransactions, raced, forsaken>>
           /\ \A m \in InFlight' : m \in InFlight /\ miners'[m] = miners[m]
           /\ chain' = chain \/ chain' = saved \/ SameTransactions(chain, chain')
  <2>1. qa.pc = "idle" => SameTransactions(chain', saved)
    BY <1>1, <1>2 DEF SameTransactions
  <2> QED
    BY <1>1, <1>2, <2>1 DEF Keeping, Ledger, KeptIn, RecordedIn, SameTransactions
<1>3. ASSUME NEW m \in Miners, StartMining(m)
      PROVE  Keeping'
  <2>1. ~raced /\ ~forsaken /\ InFlight = {} /\ qa.pc = "idle"
    BY <1>0, <1>3 DEF StartMining, Busy, TypeOK
  <2>2. UNCHANGED <<chain, saved, qa, queued, exposed, pendingTransactions>>
    BY <1>3 DEF StartMining
  <2>3. \A n \in InFlight' : miners'[n].transactions = pendingTransactions
    BY <1>0, <1>3, <2>1 DEF StartMining, InFlight, TypeOK
  <2> QED
    BY <1>1, <2>1, <2>2, <2>3 DEF Keeping, Ledger, KeptIn, RecordedIn, SameTransactions
<1>4. ASSUME NEW m \in Miners, FinishMining(m)
      PROVE  Keeping'
  <2> DEFINE b == [id |-> lastId + 1, previousHash |-> miners[m].previousHash,
                   transactions |-> miners[m].transactions, intact |-> TRUE]
  <2>1. ~raced /\ ~forsaken /\ m \in InFlight /\ InFlight' = InFlight \ {m}
    BY <1>0, <1>4 DEF FinishMining, InFlight, TypeOK
  <2>2. InFlight' = {} /\ qa.pc = "idle"
    BY <2>1 DEF MiningAlone
  <2>3. b \in Block
    <3>1. lastId + 1 \in Corrupt..MaxId
      BY <1>4, FinishMiningType DEF Corrupt
    <3> QED
      BY <3>1 DEF Block, TypeInvariant, TypeOK
  <2>4. saved \in Chain /\ SameTransactions(chain, saved) /\ KeptIn(saved, Asked, pendingTransactions)
    BY <1>0, <1>1, <2>1, <2>2 DEF Ledger
  <2>5. \A t \in Asked : t \in b.transactions <=> t \in pendingTransactions
    BY <1>1, <2>1
  <2>6. chain' = Append(chain, b) /\ saved' = chain' /\ pendingTransactions' = {}
        /\ UNCHANGED <<qa, queued, exposed>>
    BY <1>4 DEF FinishMining, AuditOf
  <2>7. KeptIn(saved', Asked, {})
    <3> HIDE DEF b, Asked
    <3> QED
      BY <1>0, <2>3, <2>4, <2>5, <2>6, MinedRecords
  <2>8. SameTransactions(chain', saved')
    BY <2>6 DEF SameTransactions
  <2> QED
    BY <2>2, <2>6, <2>7, <2>8 DEF Keeping, Ledger, KeptIn, RecordedIn, SameTransactions
<1>5. ASSUME NEW m \in Miners, WorkerError(m) \/ FallbackStops(m)
      PROVE  Keeping'
  <2>1. \A n \in Miners : miners'[n] = IF n = m THEN IdleMiner ELSE miners[n]
    BY <1>0, <1>5 DEF WorkerError, FallbackStops, TypeOK
  <2>2. \A n \in InFlight' : n \in InFlight /\ miners'[n] = miners[n]
    BY <2>1 DEF IdleMiner, InFlight
  <2> QED
    BY <1>2, <1>5, <2>2 DEF WorkerError, FallbackStops, history
<1>6. ASSUME NEW a \in DOMAIN audits, FinishAudit(a)
      PROVE  Keeping'
  <2>1. \A n \in Miners : miners'[n] = IF n = a THEN IdleMiner ELSE miners[n]
    BY <1>0, <1>6 DEF FinishAudit, TypeOK
  <2>2. \A n \in InFlight' : n \in InFlight /\ miners'[n] = miners[n]
    BY <2>1 DEF IdleMiner, InFlight
  <2> QED
    BY <1>2, <1>6, <2>2 DEF FinishAudit, history
<1>7. CASE MemoryStep
  <2>1. /\ UNCHANGED <<saved, qa, queued, exposed, pendingTransactions, forsaken, miners>>
        /\ raced' = raced
        /\ chain' = saved \/ SameTransactions(chain, chain')
    BY <1>0, <1>7 DEF MemoryStep, ReplaceInMemory, AuditOf, TypeOK
  <2> QED
    BY <1>0, <1>2, <2>1 DEF InFlight, TypeOK
<1>8. ASSUME NEW a \in Audits, HardReset(a)
      PROVE  Keeping'
  BY <1>8 DEF HardReset
<1>9. ASSUME NEW a \in Audits, Reload(a)
      PROVE  Keeping'
  <2>1. ~raced /\ ~forsaken /\ qa.pc \notin {"garbage", "reseeded"}
    BY <1>0, <1>9 DEF Reload, TypeOK
  <2>2. saved' = saved /\ chain' = saved /\ Ledger = saved
    BY <1>0, <1>9, <2>1, InitializedReads DEF Reload, Ledger
  <2>3. /\ queued' \ exposed' \subseteq Asked
        /\ \A t \in queued' \ exposed' : t \notin pendingTransactions /\ t \notin pendingTransactions'
    BY <1>9 DEF Reload
  <2>4. KeptIn(saved, queued' \ exposed', pendingTransactions')
    <3> HIDE DEF Asked
    <3> QED
      BY <1>1, <2>1, <2>2, <2>3, KeptStays
  <2>5. qa'.pc = "idle" /\ InFlight' = {}
    BY <1>9 DEF Reload, IdleQA, IdleMiner, InFlight
  <2> QED
    BY <2>2, <2>4, <2>5 DEF Keeping, Ledger, KeptIn, RecordedIn, SameTransactions
<1>10. CASE QAStep
  <2>1. ~raced /\ ~forsaken
    BY <1>0, <1>10
    DEF QAStep, QASnapshot, QASpoil, QAReseed, QAFails, QAPutBack, QAFinish, history, TypeOK
  <2>2. Ledger' = Ledger
    <3>1. CASE QASnapshot \/ QAFinish
      BY <1>0, <3>1 DEF QASnapshot, QAFinish, Ledger, IdleQA
    <3>2. CASE QASpoil
      BY <1>0, <1>1, <2>1, <3>2 DEF QASpoil, Ledger, QAType
    <3>3. CASE QAReseed
      BY <1>0, <3>3 DEF QAReseed, Ledger, QAType
    <3>4. CASE QAPutBack
      BY <1>0, <3>4 DEF QAPutBack, Ledger, QAType
    <3> QED
      BY <1>10, <3>1, <3>2, <3>3, <3>4 DEF QAStep, QAFails
  <2>3. InFlight' = {}
    <3>1. InFlight = {} /\ miners' = miners
      BY <1>1, <1>10, <2>1
      DEF QAStep, QASnapshot, QASpoil, QAReseed, QAFails, QAPutBack, QAFinish
    <3> QED
      BY <3>1 DEF InFlight
  <2>4. /\ queued' = queued /\ exposed \subseteq exposed'
        /\ pendingTransactions' \subseteq pendingTransactions
        /\ pendingTransactions \subseteq exposed'
    BY <1>1, <1>10, <2>1
    DEF QAStep, QASnapshot, QASpoil, QAReseed, QAFails, QAPutBack, QAFinish, history
  <2>5. KeptIn(Ledger, queued' \ exposed', pendingTransactions')
    <3>1. /\ queued' \ exposed' \subseteq Asked
          /\ \A t \in queued' \ exposed' :
               t \in pendingTransactions' <=> t \in pendingTransactions
      BY <2>4
    <3> HIDE DEF Asked
    <3> QED
      BY <1>1, <2>1, <3>1, KeptStays
  <2>6. qa'.pc = "idle" => SameTransactions(chain', saved')
    BY <1>0, <1>10
    DEF QAStep, QASnapshot, QASpoil, QAReseed, QAFails, QAPutBack, QAFinish,
        Unaudited, SameTransactions, QAType
  <2>7. qa'.pc = "snapshot" => qa'.backup = saved'
    BY <1>0, <1>10, <2>1
    DEF QAStep, QASnapshot, QASpoil, QAReseed, QAFails, QAPutBack, QAFinish,
        IdleQA, QAType
  <2> QED
    BY <2>2, <2>3, <2>4, <2>5, <2>6, <2>7
    DEF Keeping, Ledger, KeptIn, RecordedIn, SameTransactions
<1>11. ASSUME NEW t \in Txs, AddPendingTransaction(t)
       PROVE  Keeping'
  <2>1. /\ ~raced /\ ~forsaken
        /\ UNCHANGED <<chain, saved, qa, miners>> /\ InFlight' = InFlight
        /\ t \notin queued /\ queued' = queued \union {t}
        /\ pendingTransactions' = pendingTransactions \union {t}
        /\ exposed' = IF Busy THEN exposed \union {t} ELSE exposed
    BY <1>11 DEF AddPendingTransaction, InFlight
  <2>2. exposed \subseteq queued /\ pendingTransactions \subseteq queued
    BY <1>0 DEF TypeOK
  <2>3. CASE Busy
    <3>1. queued' \ exposed' = Asked
      BY <2>1, <2>2, <2>3
    <3> QED
      BY <1>1, <2>1, <2>2, <2>3, <3>1 DEF Keeping, Ledger, KeptIn, RecordedIn, SameTransactions
  <2>4. CASE ~Busy
    <3>1. InFlight = {} /\ qa.pc = "idle" /\ Ledger = saved /\ exposed' = exposed
      BY <2>1, <2>4 DEF Busy, Ledger
    <3>2. RecordedIn(t, saved) = {}
      BY <2>1 DEF BlocksQueued, OnlyQueued, RecordedIn
    <3>3. KeptIn(saved, queued' \ exposed', pendingTransactions')
      BY <1>1, <2>1, <3>1, <3>2 DEF KeptIn
    <3> QED
      BY <1>1, <2>1, <3>1, <3>3 DEF Keeping, Ledger, KeptIn, RecordedIn, SameTransactions
  <2> QED
    BY <2>3, <2>4
<1>12. CASE (\E a \in Audits : Revalidate(a)) \/ UNCHANGED vars
  BY <1>2, <1>12 DEF Revalidate, AuditOf, vars, page, history, InFlight
<1> QED
  BY <1>3, <1>4, <1>5, <1>6, <1>7, <1>8, <1>9, <1>10, <1>11, <1>12, <1>0, MemorySteps DEF Next

\* A certificate queued while nothing was mined or tested stays in the mempool
\* until it is anchored, and from then on in exactly one saved block, as long as
\* no two mining clicks overlapped (app.js:687-689) and nobody reset.
THEOREM CertificatesAreKept == Spec => []CertificatesKept
<1>1. Init => MiningAlone /\ BlocksQueued /\ Keeping
  <2> SUFFICES ASSUME Init
               PROVE  MiningAlone /\ BlocksQueued /\ Keeping
    OBVIOUS
  <2>1. qa.pc = "idle" /\ OnlyQueued(qa.backup) /\ queued = {}
    BY DEF Init, IdleQA, Garbage, OnlyQueued
  <2>2. InFlight = {} /\ \A m \in Miners : miners[m].transactions = {}
    BY DEF Init, IdleMiner, InFlight
  <2>3. OnlyQueued(saved) /\ chain = saved
    BY SeedQueued DEF Init
  <2> QED
    BY <2>1, <2>2, <2>3
    DEF MiningAlone, BlocksQueued, Keeping, KeptIn, SameTransactions
<1>2. TypeInvariant /\ Keeping => CertificatesKept
  <2> SUFFICES ASSUME Keeping, ~raced, ~forsaken, qa.pc = "idle",
                      NEW t \in queued \ exposed
               PROVE  IF t \in pendingTransactions THEN Anchors(t) = {}
                      ELSE Cardinality(Anchors(t)) = 1
    BY DEF CertificatesKept
  <2>1. KeptIn(saved, queued \ exposed, pendingTransactions)
    BY DEF Keeping, Ledger
  <2>2. Anchors(t) = RecordedIn(t, saved)
    BY DEF Anchors, RecordedIn
  <2> QED
    BY <2>1, <2>2, FS_Singleton DEF KeptIn
<1>3. TypeInvariant => TypeOK
  BY DEF TypeInvariant
<1> QED
  BY <1>1, <1>2, <1>3, MiningStaysAlone, BlocksStayQueued, KeepingStays, TypesKept, PTL DEF Spec

=============================================================================
