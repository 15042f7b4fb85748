--------------------------- MODULE BrowserLedger ---------------------------
(***************************************************************************)
(* The certificate ledger of the browser demonstration (app.js): a chain   *)
(* of blocks in memory, its copy in localStorage, the mempool, and the     *)
(* handlers of the page, which interleave wherever they await.  The mine   *)
(* button stays enabled while a block is mined; the overlay covers the     *)
(* issuing card only.  store.js, blockchain.js and miner.worker.js are not *)
(* part of the repository: what they do is taken from their use in app.js. *)
(***************************************************************************)
EXTENDS Integers, FiniteSets, SequencesExt

CONSTANTS
  Txs,             \* ISSUE_CREDENTIAL transactions
  Miners,          \* clicks on "Mine Block" in flight
  Audits,          \* other handlers awaiting auditAndSyncLedgerUI
  MaxId            \* bound of the model: hashes drawn

ASSUME BrowserLedgerAssumption ==
  /\ Miners \cap Audits = {}
  /\ MaxId \in Nat

VARIABLES
  chain,           \* store.chain
  saved,           \* the chain in localStorage
  pendingTransactions,
  miners,          \* click |-> what it captured before its first await
  audits,          \* handler |-> chain validities its audit may report
  isMining,
  isChainCorrupt,  \* what the banner shows
  qa,              \* the reseed test of the QA tab
  lastId

\* History.
VARIABLES
  queued,          \* transactions ever queued
  exposed,         \* those queued while mining, or pending at a reload
  raced,           \* mining overlapped mining or a replacement of the chain
  forsaken,        \* a reset, or a reseed test that did not run to its end
  sealedOver,      \* a block was mined on a chain tampered with
  overlapped,      \* since no audit was under way, a change of the chain's validity
                   \* met one, or was not audited
  crashed          \* a worker died

page    == <<chain, saved, pendingTransactions, miners, audits, isMining,
             isChainCorrupt, qa, lastId>>
history == <<queued, exposed, raced, forsaken, sealedOver, overlapped, crashed>>
vars    == <<page, history>>

Corrupt == -1
Garbage == << >>   \* "broken-corrupted-json-{]"

Block == [id : Corrupt..MaxId, previousHash : Corrupt..MaxId,
          transactions : SUBSET Txs, intact : BOOLEAN]

Seed(g) == << [id |-> g, previousHash |-> Corrupt, transactions |-> {}, intact |-> TRUE] >>

IdleMiner == [pc |-> "idle", previousHash |-> Corrupt, transactions |-> {}]
IdleQA    == [pc |-> "idle", backup |-> Garbage]

\* isChainValid: links and content.
Valid(c) ==
  /\ \A i \in DOMAIN c : c[i].intact
  /\ \A i \in DOMAIN c : i > 1 => c[i].previousHash = c[i - 1].id

InFlight == {m \in Miners : miners[m].pc \in {"worker", "fallback"}}

Auditing == {a \in DOMAIN audits : audits[a] # {}}

TypeOK ==
  /\ chain \in Seq(Block) /\ chain # << >>
  /\ saved \in Seq(Block)
  /\ pendingTransactions \subseteq queued
  /\ miners \in [Miners -> [pc : {"idle", "worker", "fallback", "auditing"},
                            previousHash : Corrupt..MaxId, transactions : SUBSET Txs]]
  /\ audits \in [Miners \union Audits -> SUBSET BOOLEAN]
  /\ \A m \in Miners : miners[m].pc = "auditing" <=> audits[m] # {}
  /\ isMining \in BOOLEAN /\ isChainCorrupt \in BOOLEAN
  /\ qa \in [pc : {"idle", "snapshot", "garbage", "reseeded", "restored"},
             backup : Seq(Block)]
  /\ saved = Garbage => qa.pc = "garbage"
  /\ lastId \in 0..MaxId
  /\ exposed \subseteq queued /\ queued \subseteq Txs
  /\ \A b \in {raced, forsaken, sealedOver, overlapped, crashed} : b \in BOOLEAN

Init ==
  /\ chain = Seed(0) /\ saved = Seed(0)
  /\ pendingTransactions = {}
  /\ miners = [m \in Miners |-> IdleMiner]
  /\ audits = [a \in Miners \union Audits |-> {}]
  /\ isMining = FALSE /\ isChainCorrupt = FALSE
  /\ qa = IdleQA
  /\ lastId = 0
  /\ queued = {} /\ exposed = {}
  /\ raced = FALSE /\ forsaken = FALSE /\ sealedOver = FALSE
  /\ overlapped = FALSE /\ crashed = FALSE

-----------------------------------------------------------------------------
(* The audit that ends every handler *)

\* A change of the chain to c, seen by the audits under way: isChainValid
\* awaits a digest per block, and may report what held at any of its steps.
Seen(c) == [a \in DOMAIN audits |->
              IF audits[a] = {} THEN {} ELSE audits[a] \union {Valid(c)}]

\* Handler a leaves the chain as c and awaits auditAndSyncLedgerUI.  Audits of
\* chains that are all valid, or all not, may overlap as they like.
AuditOf(a, c) ==
  /\ audits[a] = {}
  /\ chain' = c
  /\ audits' = [Seen(c) EXCEPT ![a] = {Valid(c)}]
  /\ overlapped' = (Auditing # {} /\ (overlapped \/ Valid(c) # Valid(chain)))

\* store.initialize replaces the chain and nothing audits it.
Unaudited(c) ==
  /\ chain' = c
  /\ audits' = Seen(c)
  /\ overlapped' = (overlapped \/ Valid(c) # Valid(chain))

\* Mutant: the overlay stays.
StillMining == isMining

MiningDone == FALSE

FinishAudit(a) ==
  /\ \E valid \in audits[a] : isChainCorrupt' = ~valid
  /\ audits' = [audits EXCEPT ![a] = {}]
  /\ IF a \in Miners
     THEN miners' = [miners EXCEPT ![a] = IdleMiner] /\ isMining' = MiningDone
     ELSE UNCHANGED <<miners, isMining>>
  /\ UNCHANGED <<chain, saved, pendingTransactions, qa, lastId, history>>

-----------------------------------------------------------------------------
(* Issuing and mining *)

\* A hash is left for every block under way.
Room == lastId + Cardinality(InFlight) < MaxId

Busy == InFlight # {} \/ qa.pc # "idle"

\* The issuing form queues a transaction.
AddPendingTransaction(t) ==
  /\ t \in Txs \ queued
  /\ queued' = queued \union {t}
  /\ pendingTransactions' = pendingTransactions \union {t}
  /\ exposed' = IF Busy THEN exposed \union {t} ELSE exposed
  /\ UNCHANGED <<chain, saved, miners, audits, isMining, isChainCorrupt, qa,
                 lastId, raced, forsaken, sealedOver, overlapped, crashed>>

\* Mutant: every block is linked to the seed block.
SeedBlock == chain[1]

LatestBlock == Last(chain)

\* The click handler up to its first await; where a Worker cannot be made the
\* main thread searches for the hash.
StartMining(m) ==
  /\ pendingTransactions # {}
  /\ Room
  /\ miners[m].pc = "idle"
  /\ \E mode \in {"worker", "fallback"} :
       miners' = [miners EXCEPT ![m] =
         [pc |-> mode, previousHash |-> LatestBlock.id,
          transactions |-> pendingTransactions]]
  /\ isMining' = TRUE
  /\ raced' = (raced \/ Busy)
  /\ UNCHANGED <<chain, saved, pendingTransactions, audits, isChainCorrupt, qa,
                 lastId, queued, exposed, forsaken, sealedOver, overlapped, crashed>>

\* handleMiningSuccess: the whole mempool is emptied, not only the block's
\* transactions, and the chain is persisted as it is in memory.
FinishMining(m) ==
  LET block == [id |-> lastId + 1, previousHash |-> miners[m].previousHash,
                transactions |-> miners[m].transactions, intact |-> TRUE]
      c == Append(chain, block)
  IN  /\ miners[m].pc \in {"worker", "fallback"}
      /\ AuditOf(m, c)
      /\ saved' = c
      /\ pendingTransactions' = {}
      /\ miners' = [miners EXCEPT ![m].pc = "auditing"]
      /\ lastId' = lastId + 1
      /\ sealedOver' = (sealedOver \/ ~Valid(chain))
      /\ UNCHANGED <<isMining, isChainCorrupt, qa, queued, exposed, raced,
                     forsaken, crashed>>

\* A message of type 'error': "Falling back to main-thread processing", but
\* nothing goes on, and the overlay stays.
WorkerError(m) ==
  /\ miners[m].pc = "worker"
  /\ miners' = [miners EXCEPT ![m] = IdleMiner]
  /\ crashed' = TRUE
  /\ UNCHANGED <<chain, saved, pendingTransactions, audits, isMining,
                 isChainCorrupt, qa, lastId, queued, exposed, raced, forsaken,
                 sealedOver, overlapped>>

\* mineBatch finds that another click's block ended the mining.
FallbackStops(m) ==
  /\ miners[m].pc = "fallback" /\ ~isMining
  /\ miners' = [miners EXCEPT ![m] = IdleMiner]
  /\ UNCHANGED <<chain, saved, pendingTransactions, audits, isMining,
                 isChainCorrupt, qa, lastId, history>>

-----------------------------------------------------------------------------
(* The ledger tab and the lab modes *)

Revalidate(a) ==
  /\ AuditOf(a, chain)
  /\ UNCHANGED <<saved, pendingTransactions, miners, isMining, isChainCorrupt, qa,
                 lastId, queued, exposed, raced, forsaken, sealedOver, crashed>>

\* The chain in memory becomes c, and localStorage keeps its copy.
ReplaceInMemory(a, c) ==
  /\ AuditOf(a, c)
  /\ raced' = (raced \/ InFlight # {})
  /\ UNCHANGED <<saved, pendingTransactions, miners, isMining, isChainCorrupt, qa,
                 lastId, queued, exposed, forsaken, sealedOver, crashed>>

\* Mutant: restoring does not audit.
RestoreUnaudited(a) ==
  /\ saved # Garbage
  /\ chain' = saved /\ audits' = Seen(saved)
  /\ UNCHANGED <<saved, pendingTransactions, miners, isMining, isChainCorrupt, qa,
                 lastId, history>>

\* Also the end of the lab modes.
RestoreChain(a) == saved # Garbage /\ ReplaceInMemory(a, saved)

TamperWithPayload(a, i) ==
  /\ i \in DOMAIN chain /\ chain[i].transactions # {}
  /\ ReplaceInMemory(a, [chain EXCEPT ![i].intact = FALSE])

\* Lab mode: the first block after the seed gets another hash as well.
CorruptLink(a) ==
  /\ Len(chain) > 1
  /\ ReplaceInMemory(a, [chain EXCEPT ![2].intact = FALSE, ![2].id = Corrupt])

HardReset(a) ==
  /\ Room
  /\ AuditOf(a, Seed(lastId + 1))
  /\ saved' = Seed(lastId + 1)
  /\ lastId' = lastId + 1
  /\ pendingTransactions' = {}
  /\ raced' = (raced \/ InFlight # {})
  /\ forsaken' = TRUE
  /\ UNCHANGED <<miners, isMining, isChainCorrupt, qa, queued, exposed,
                 sealedOver, crashed>>

\* Mutant: what cannot be parsed is loaded all the same.
InitializedUnrepaired == saved' = saved /\ lastId' = lastId

\* store.initialize loads the saved chain, or quarantines what it cannot parse
\* and seeds a new one.
Initialized ==
  IF saved # Garbage THEN saved' = saved /\ lastId' = lastId
  ELSE Room /\ saved' = Seed(lastId + 1) /\ lastId' = lastId + 1

\* The page is loaded anew, whatever was under way, and audits the chain;
\* whether the mempool is persisted is the store's affair.
Reload(a) ==
  /\ miners' = [m \in Miners |-> IdleMiner]
  /\ isMining' = FALSE /\ isChainCorrupt' = FALSE
  /\ Initialized
  /\ chain' = saved'
  /\ audits' = [x \in DOMAIN audits |-> IF x = a THEN {Valid(saved')} ELSE {}]
  /\ pendingTransactions' \in {pendingTransactions, {}}
  /\ qa' = IdleQA
  /\ overlapped' = FALSE
  /\ exposed' = exposed \union pendingTransactions
  /\ forsaken' = (forsaken \/ qa.pc \in {"garbage", "reseeded"})
  /\ UNCHANGED <<queued, raced, sealedOver, crashed>>

-----------------------------------------------------------------------------
(* The reseed test: it spoils the saved chain, and puts its copy back. *)

QASnapshot ==
  /\ qa.pc = "idle" /\ Room
  /\ qa' = [pc |-> "snapshot", backup |-> saved]
  /\ raced' = (raced \/ InFlight # {})
  /\ exposed' = exposed \union pendingTransactions
  /\ UNCHANGED <<chain, saved, pendingTransactions, miners, audits, isMining,
                 isChainCorrupt, lastId, queued, forsaken, sealedOver, overlapped,
                 crashed>>

QASpoil ==
  /\ qa.pc = "snapshot"
  /\ saved' = Garbage
  /\ qa' = [qa EXCEPT !.pc = "garbage"]
  /\ UNCHANGED <<chain, pendingTransactions, miners, audits, isMining,
                 isChainCorrupt, lastId, history>>

\* Its first store.initialize; the test fails if nothing had to be quarantined.
QAReseed ==
  /\ qa.pc = "garbage"
  /\ Initialized
  /\ Unaudited(saved')
  /\ qa' = IF saved = Garbage THEN [qa EXCEPT !.pc = "reseeded"] ELSE IdleQA
  /\ forsaken' = (forsaken \/ saved # Garbage)
  /\ pendingTransactions' \in {pendingTransactions, {}}
  /\ exposed' = exposed \union pendingTransactions
  /\ UNCHANGED <<miners, isMining, isChainCorrupt, queued, raced, sealedOver, crashed>>

\* An assertion fails: the copy is not put back.
QAFails ==
  /\ qa.pc = "reseeded"
  /\ qa' = IdleQA
  /\ forsaken' = TRUE
  /\ UNCHANGED <<chain, saved, pendingTransactions, miners, audits, isMining,
                 isChainCorrupt, lastId, queued, exposed, raced, sealedOver,
                 overlapped, crashed>>

\* Mutant: the test ends without putting the copy back.
QALeavesSeed ==
  /\ qa.pc = "reseeded"
  /\ qa' = [qa EXCEPT !.pc = "restored"]
  /\ UNCHANGED <<chain, saved, pendingTransactions, miners, audits, isMining,
                 isChainCorrupt, lastId, history>>

QAPutBack ==
  /\ qa.pc = "reseeded"
  /\ saved' = qa.backup
  /\ qa' = [qa EXCEPT !.pc = "restored"]
  /\ UNCHANGED <<chain, pendingTransactions, miners, audits, isMining,
                 isChainCorrupt, lastId, history>>

\* Its second store.initialize.
QAFinish ==
  /\ qa.pc = "restored"
  /\ Unaudited(saved)
  /\ qa' = IdleQA
  /\ pendingTransactions' \in {pendingTransactions, {}}
  /\ exposed' = exposed \union pendingTransactions
  /\ UNCHANGED <<saved, miners, isMining, isChainCorrupt, lastId, queued, raced,
                 forsaken, sealedOver, crashed>>

QAStep == QASnapshot \/ QASpoil \/ QAReseed \/ QAFails \/ QAPutBack \/ QAFinish

Next ==
  \/ \E m \in Miners : StartMining(m) \/ FinishMining(m) \/ WorkerError(m)
                          \/ FallbackStops(m)
  \/ \E a \in DOMAIN audits : FinishAudit(a)
  \/ \E a \in Audits : Revalidate(a) \/ RestoreChain(a) \/ CorruptLink(a)
                          \/ HardReset(a) \/ Reload(a)
                          \/ \E i \in DOMAIN chain : TamperWithPayload(a, i)
  \/ \E t \in Txs : AddPendingTransaction(t)
  \/ QAStep

Spec == Init /\ [][Next]_vars

\* A worker or the main thread finds a hash in the end, and digests settle.
FairSpec ==
  /\ Spec
  /\ \A m \in Miners : WF_vars(FinishMining(m) \/ WorkerError(m) \/ FallbackStops(m))
  /\ \A a \in Miners \union Audits : WF_vars(FinishAudit(a))

-----------------------------------------------------------------------------
(* Properties *)

Anchors(t) == {i \in DOMAIN saved : t \in saved[i].transactions}

\* A certificate queued while nothing was mined or tested stays in the mempool
\* until it is anchored, and from then on in exactly one saved block, through
\* later mining, tampering, restoring, reloads and complete test runs, as long
\* as no two mining clicks overlapped (app.js:687-689) and nobody reset.
CertificatesKept ==
  ~raced /\ ~forsaken /\ qa.pc = "idle" =>
    \A t \in queued \ exposed :
      IF t \in pendingTransactions THEN Anchors(t) = {}
      ELSE Cardinality(Anchors(t)) = 1

\* Only mining over a chain tampered with in memory, or over another mining,
\* persists a chain that fails its audit.
SavedChainValid == ~raced /\ ~sealedOver => Valid(saved)

\* With every handler at rest the banner tells the truth about the chain in
\* memory, however audits overlap, unless a handler made a valid chain invalid,
\* or the reverse, while another one audited it, or the reseed test did so without
\* an audit (app.js:214-244).
BannerTruthful == Auditing = {} /\ ~overlapped => isChainCorrupt = ~Valid(chain)

\* The mining overlay goes away, except when a worker died (app.js:717-721).
MiningEnds == isMining ~> ~isMining \/ crashed

=============================================================================
