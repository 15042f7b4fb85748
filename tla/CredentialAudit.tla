-------------------------- MODULE CredentialAudit --------------------------
(***************************************************************************)
(* The verifier tab of the browser demonstration (app.js): a credential is *)
(* pasted, parsed, and audited in five stages, with an await in most of    *)
(* them, while the other tabs go on.  The button stays enabled, so audits  *)
(* overlap, and all of them write to one report: the fields of a           *)
(* credential, a row per stage, the main badge and the match receipt.      *)
(* verifyMitchPresentationSequential, parseCompactSDJWT and store.js are   *)
(* not part of the repository: they are taken from their use.              *)
(***************************************************************************)
EXTENDS Naturals

CONSTANTS
  Credentials,
  Seed,            \* the credential of the one-click examples
  Audits,          \* clicks on "Verify" in flight
  Anchors,         \* issuers of miTch presentations
  Rogue,           \* did:mitch:rogue-anchor
  AnchorOf,        \* credential |-> the anchor of its presentation
  Keys,            \* key pairs of the gateway
  KeyOf,           \* credential |-> the key that signed it
  None,
  MaxChanges       \* bound of the model: changes by the other tabs

ASSUME CredentialAuditAssumption ==
  /\ Seed \in Credentials /\ Rogue \in Anchors /\ None \notin Credentials
  /\ AnchorOf \in [Credentials -> Anchors]
  /\ KeyOf \in [Credentials -> Keys]
  /\ MaxChanges \in Nat

\* What the other tabs and the lab modes change.
VARIABLES
  verifiedMitchProofs,  \* credentials whose envelope is cached
  knownIssuers,         \* anchor |-> the credential whose presentation it
                        \* signed with the key on record, or None
  activeAttackName, isLabTrustOverrideActive,
  employerKey,
  chainValid, anchored,
  leaking,              \* anchored with plain text in the transaction
  baseStatusList, gatewayStatusList,
  changes

\* The tab.
VARIABLES
  audits,          \* click |-> what it holds across its awaits and, as history,
                   \* the facts that held at some moment since the click
  view,            \* the alert, the report, or neither
  shown,           \* the credential whose fields the report shows
  rows,            \* stage |-> its status
  badge,
  receipt          \* the credential whose match receipt is shown

\* History.
VARIABLE
  crowded          \* audits overlapped since the tab was last at rest

others  == <<verifiedMitchProofs, knownIssuers, activeAttackName,
             isLabTrustOverrideActive, employerKey, chainValid, anchored,
             leaking, baseStatusList, gatewayStatusList, changes>>
display == <<view, shown, rows, badge, receipt>>
vars    == <<others, audits, display, crowded>>

Stages == 1..5

Facts == {"proven", "honest", "signed", "valid", "anchored", "active", "lean"}

Proven(c) ==
  /\ c \in verifiedMitchProofs
  /\ knownIssuers[AnchorOf[c]] = c
  /\ AnchorOf[c] = Rogue /\ activeAttackName = "untrusted" => isLabTrustOverrideActive
Signed(c) == KeyOf[c] = employerKey
Active(c) == c \notin baseStatusList \union gatewayStatusList
Lean(c)   == c \notin leaking

\* The facts about a credential that hold now.
Holding ==
  [c \in Credentials |-> {f \in Facts :
     /\ f = "proven"   => Proven(c)
     /\ f = "honest"   => activeAttackName # "replay"
     /\ f = "signed"   => Signed(c)
     /\ f = "valid"    => chainValid
     /\ f = "anchored" => c \in anchored
     /\ f = "active"   => Active(c)
     /\ f = "lean"     => Lean(c)}]

Phases == {"parsing", "stage1", "stage2", "stage3", "anchor", "stage5", "receipt"}

IdleAudit == [pc |-> "idle", cred |-> None, ok |-> FALSE, seen |-> {}, held |-> {}]

InFlight == {a \in Audits : audits[a].pc # "idle"}

TypeOK ==
  /\ verifiedMitchProofs \subseteq Credentials
  /\ knownIssuers \in [Anchors -> Credentials \union {None}]
  /\ activeAttackName \in {"none", "replay", "untrusted", "other"}
  /\ isLabTrustOverrideActive \in BOOLEAN
  /\ employerKey \in Keys
  /\ chainValid \in BOOLEAN
  /\ anchored \subseteq Credentials /\ leaking \subseteq anchored
  /\ baseStatusList \subseteq Credentials /\ gatewayStatusList \subseteq Credentials
  /\ changes \in 0..MaxChanges
  /\ audits \in [Audits -> [pc : Phases, cred : Credentials, ok : BOOLEAN,
                            seen : SUBSET BOOLEAN, held : SUBSET Facts]
                             \union {IdleAudit}]
  /\ view \in {"none", "alert", "report"}
  /\ shown \in Credentials \union {None} /\ (view = "report" => shown # None)
  /\ rows \in [Stages -> {"pending", "passed", "failed"}]
  /\ badge \in {"none", "verified", "blocked"}
  /\ receipt \in Credentials \union {None}
  /\ crowded \in BOOLEAN

\* The credentials were issued and anchored; the cache of envelopes may be
\* that of another load of the page.
Init ==
  /\ verifiedMitchProofs \in {Credentials, {}}
  /\ knownIssuers \in [Anchors -> Credentials]
  /\ \A n \in Anchors : AnchorOf[knownIssuers[n]] = n
  /\ activeAttackName \in {"none", "untrusted"} /\ isLabTrustOverrideActive = FALSE
  /\ employerKey \in Keys
  /\ chainValid = TRUE /\ anchored = Credentials /\ leaking = {}
  /\ baseStatusList = {} /\ gatewayStatusList = {}
  /\ changes = 0
  /\ audits = [a \in Audits |-> IdleAudit]
  /\ view = "none" /\ shown = None
  /\ rows = [i \in Stages |-> "pending"]
  /\ badge = "none" /\ receipt = None
  /\ crowded = FALSE

-----------------------------------------------------------------------------
(* The other tabs *)

\* What the audits in flight witness of a change.
Witnessed ==
  [a \in Audits |->
     IF audits[a].pc = "idle" THEN IdleAudit
     ELSE [audits[a] EXCEPT
             !.held = @ \union Holding'[audits[a].cred],
             !.seen = IF audits[a].pc = "stage3" THEN @ \union {chainValid'} ELSE @]]

Changed ==
  /\ changes < MaxChanges /\ changes' = changes + 1
  /\ audits' = Witnessed
  /\ UNCHANGED <<display, crowded>>

\* The gatekeeper accepts a presentation, and caches its envelope.
AcceptPresentation ==
  /\ \E c \in Credentials : verifiedMitchProofs' = verifiedMitchProofs \union {c}
  /\ UNCHANGED <<knownIssuers, activeAttackName, isLabTrustOverrideActive, employerKey,
                 chainValid, anchored, leaking, baseStatusList, gatewayStatusList>>
  /\ Changed

\* Each presentation is signed by an anchor made up for it, whose key replaces
\* the one on record.
GenerateEudiProof ==
  /\ \E n \in Anchors : knownIssuers' = [knownIssuers EXCEPT ![n] = None]
  /\ UNCHANGED <<verifiedMitchProofs, activeAttackName, isLabTrustOverrideActive,
                 employerKey, chainValid, anchored, leaking, baseStatusList,
                 gatewayStatusList>>
  /\ Changed

RotateEmployerKeys ==
  /\ employerKey' \in Keys
  /\ UNCHANGED <<verifiedMitchProofs, knownIssuers, activeAttackName,
                 isLabTrustOverrideActive, chainValid, anchored, leaking,
                 baseStatusList, gatewayStatusList>>
  /\ Changed

\* Mining, tampering, restoring and resetting: see BrowserLedger.
LedgerChanges ==
  /\ chainValid' \in BOOLEAN
  /\ anchored' \in SUBSET Credentials
  /\ leaking' \in SUBSET anchored'
  /\ UNCHANGED <<verifiedMitchProofs, knownIssuers, activeAttackName,
                 isLabTrustOverrideActive, employerKey, baseStatusList, gatewayStatusList>>
  /\ Changed

LabMode ==
  /\ activeAttackName' \in {"replay", "untrusted", "other"}
  /\ UNCHANGED <<verifiedMitchProofs, knownIssuers, isLabTrustOverrideActive,
                 employerKey, chainValid, anchored, leaking, baseStatusList,
                 gatewayStatusList>>
  /\ Changed

\* Whether the seed is found in either list depends on the format of its record.
LabRevocation ==
  /\ activeAttackName' = "other"
  /\ baseStatusList' \in {baseStatusList, baseStatusList \union {Seed}}
  /\ gatewayStatusList' \in {gatewayStatusList, gatewayStatusList \union {Seed}}
  /\ UNCHANGED <<verifiedMitchProofs, knownIssuers, isLabTrustOverrideActive,
                 employerKey, chainValid, anchored, leaking>>
  /\ Changed

TrustOverride ==
  /\ isLabTrustOverrideActive' = ~isLabTrustOverrideActive
  /\ UNCHANGED <<verifiedMitchProofs, knownIssuers, activeAttackName, employerKey,
                 chainValid, anchored, leaking, baseStatusList, gatewayStatusList>>
  /\ Changed

\* The chain comes back as localStorage has it.
LabReset ==
  /\ activeAttackName' = "none" /\ isLabTrustOverrideActive' = FALSE
  /\ baseStatusList' = {} /\ gatewayStatusList' = {}
  /\ chainValid' \in BOOLEAN
  /\ leaking' \in SUBSET anchored
  /\ UNCHANGED <<verifiedMitchProofs, knownIssuers, employerKey, anchored>>
  /\ Changed

Others ==
  \/ AcceptPresentation \/ GenerateEudiProof \/ RotateEmployerKeys
  \/ LedgerChanges \/ LabMode \/ LabRevocation \/ TrustOverride \/ LabReset

-----------------------------------------------------------------------------
(* The verify button, also clicked by a dropped file and by the examples *)

Click(a, c) ==
  /\ audits[a].pc = "idle"
  /\ view' = "none"
  /\ crowded' = (InFlight # {})
  /\ audits' = [Witnessed EXCEPT ![a] =
       [pc |-> "parsing", cred |-> c, ok |-> FALSE, seen |-> {}, held |-> Holding'[c]]]
  /\ UNCHANGED <<shown, rows, badge, receipt>>

VerifyPaste(a, c) == UNCHANGED others /\ Click(a, c)

\* Nothing pasted, or the schema check throws, before the first await.
RejectPaste ==
  /\ view' = "alert"
  /\ UNCHANGED <<others, audits, shown, rows, badge, receipt, crowded>>

\* The examples of the seed credential first put it on the lists or, also for
\* the tampered copy, take it off them, and then click; the tampered example
\* leaves the entry of the pseudonym.
SetRevoked(base, gateway) ==
  /\ changes < MaxChanges /\ changes' = changes + 1
  /\ baseStatusList' = base
  /\ gatewayStatusList' = gateway
  /\ UNCHANGED <<verifiedMitchProofs, knownIssuers, activeAttackName,
                 isLabTrustOverrideActive, employerKey, chainValid, anchored, leaking>>

Example(a) ==
  /\ \/ \E kept \in SUBSET {Seed} :
          SetRevoked(baseStatusList \ {Seed},
                     gatewayStatusList \ ({Seed} \ kept))
     \/ SetRevoked(baseStatusList \union {Seed}, gatewayStatusList \union {Seed})
  /\ Click(a, Seed)

\* Mutant: what an audit held is not let go.
RestHolding(a) == [audits EXCEPT ![a].pc = "idle"]

Rest(a) == [audits EXCEPT ![a] = IdleAudit]

\* parseCompactSDJWT rejects: a malformed or tampered credential.
ParseRejects(a) ==
  /\ audits[a].pc = "parsing"
  /\ view' = "alert"
  /\ audits' = Rest(a)
  /\ UNCHANGED <<others, shown, rows, badge, receipt, crowded>>

-----------------------------------------------------------------------------
(* execute5StageTrustAudit *)

Cleared == [i \in Stages |-> "pending"]

\* Mutant: the receipt of an earlier credential stays.
ReceiptKept == receipt

ReceiptAfterFailure == None

\* terminatePipeline: audit a ends with these rows and no endorsement.
TerminatePipeline(a, shownRows) ==
  /\ rows' = shownRows
  /\ badge' = "blocked"
  /\ receipt' = ReceiptAfterFailure
  /\ audits' = Rest(a)
  /\ UNCHANGED <<others, crowded>>

\* Row i of audit a is set to failed first.
Terminate(a, shownRows, i) == TerminatePipeline(a, [shownRows EXCEPT ![i] = "failed"])

\* Audit a goes on to its next await, which will settle with ok or, for
\* isChainValid, with a validity it may have seen.
GoOn(a, pc, ok, seen) ==
  /\ audits' = [audits EXCEPT ![a].pc = pc, ![a].ok = ok, ![a].seen = seen]
  /\ UNCHANGED <<others, badge, receipt, crowded>>

\* The parse is done: the report is opened on the credential, its rows are
\* cleared, and stage 1 captures the trust list; the badge stays as it was.
StartAudit(a) ==
  LET c == audits[a].cred IN
  /\ audits[a].pc = "parsing"
  /\ view' = "report" /\ shown' = c
  /\ \/ c \in verifiedMitchProofs /\ rows' = Cleared /\ GoOn(a, "stage1", Proven(c), {})
     \/ c \notin verifiedMitchProofs /\ Terminate(a, Cleared, 1)

\* A credential without claims or skills makes execute5StageTrustAudit throw.
ClaimsMissing(a) ==
  /\ audits[a].pc = "parsing"
  /\ view' = "alert"
  /\ shown' = audits[a].cred /\ rows' = Cleared
  /\ audits' = Rest(a)
  /\ UNCHANGED <<others, badge, receipt, crowded>>

\* verifyMitchPresentationSequential may reject for reasons of its own, or
\* settle with isValid false: the row then reads passed, and the audit stops.
Stage1(a) ==
  /\ audits[a].pc = "stage1"
  /\ \/ /\ audits[a].ok /\ activeAttackName # "replay"
        /\ rows' = [rows EXCEPT ![1] = "passed"]
        /\ GoOn(a, "stage2", Signed(audits[a].cred), {})
     \/ /\ activeAttackName # "replay"
        /\ TerminatePipeline(a, [rows EXCEPT ![1] = "passed"])
     \/ Terminate(a, rows, 1)
  /\ UNCHANGED <<view, shown>>

Stage2(a) ==
  /\ audits[a].pc = "stage2"
  /\ \/ /\ audits[a].ok
        /\ rows' = [rows EXCEPT ![2] = "passed"]
        /\ GoOn(a, "stage3", FALSE, {chainValid})
     \/ ~audits[a].ok /\ Terminate(a, rows, 2)
  /\ UNCHANGED <<view, shown>>

\* isChainValid settles, and the digest of the credential is awaited.
Stage3Chain(a) ==
  /\ audits[a].pc = "stage3"
  /\ \/ TRUE \in audits[a].seen /\ rows' = rows /\ GoOn(a, "anchor", FALSE, {})
     \/ FALSE \in audits[a].seen /\ Terminate(a, rows, 3)
  /\ UNCHANGED <<view, shown>>

\* Mutant: the gateway's own list is not read.
BaseRevocationOnly(c) == c \notin baseStatusList

NotRevoked(c) == c \notin baseStatusList /\ c \notin gatewayStatusList

\* The look-up that ends stage 3, and stage 4, which awaits nothing.
Stage3And4(a) ==
  LET c == audits[a].cred
      rows3 == [rows EXCEPT ![3] = "passed"]
  IN  /\ audits[a].pc = "anchor"
      /\ \/ c \notin anchored /\ Terminate(a, rows, 3)
         \/ c \in anchored /\ ~NotRevoked(c) /\ Terminate(a, rows3, 4)
         \/ /\ c \in anchored /\ NotRevoked(c)
            /\ rows' = [rows3 EXCEPT ![4] = "passed"]
            /\ GoOn(a, "stage5", FALSE, {})
      /\ UNCHANGED <<view, shown>>

\* The block is looked up again: one that is gone by now passes.
Stage5(a) ==
  LET c == audits[a].cred IN
  /\ audits[a].pc = "stage5"
  /\ \/ c \in leaking /\ Terminate(a, rows, 5)
     \/ /\ c \notin leaking
        /\ rows' = [rows EXCEPT ![5] = "passed"]
        /\ badge' = "verified"
        /\ audits' = [audits EXCEPT ![a].pc = "receipt"]
        /\ UNCHANGED <<others, receipt, crowded>>
  /\ UNCHANGED <<view, shown>>

\* The digests of the receipt are there: it replaces the one shown.
AppendReceipt(a) ==
  /\ audits[a].pc = "receipt"
  /\ receipt' = audits[a].cred
  /\ audits' = Rest(a)
  /\ UNCHANGED <<others, view, shown, rows, badge, crowded>>

Next ==
  \/ Others
  \/ RejectPaste
  \/ \E a \in Audits :
       \/ \E c \in Credentials : VerifyPaste(a, c)
       \/ Example(a)
       \/ ParseRejects(a) \/ StartAudit(a) \/ ClaimsMissing(a)
       \/ Stage1(a) \/ Stage2(a) \/ Stage3Chain(a) \/ Stage3And4(a) \/ Stage5(a)
       \/ AppendReceipt(a)

Spec == Init /\ [][Next]_vars

-----------------------------------------------------------------------------
(* Properties *)

\* The badge "verified" is earned: whatever the other tabs and other audits
\* did meanwhile, for each stage there was a moment between the click and the
\* badge at which its condition held of the credential audited.
EndorsementsEarned == \A a \in Audits : audits[a].pc = "receipt" => audits[a].held = Facts

\* At rest, after an audit that no other overlapped, the report is consistent,
\* whatever earlier and overlapping audits left in it: verified with five rows
\* passed and the receipt of the credential shown, or blocked at one row, the
\* rows before it passed and those after it untouched, and no receipt.  That row
\* is failed, or it is the first and reads passed, where the presentation was
\* found invalid without an exception (app.js:1210-1216, 1254-1260, 1389-1422,
\* 1434-1442).
SerialBadge ==
  InFlight = {} /\ ~crowded /\ view = "report" =>
    \/ /\ badge = "verified"
       /\ \A i \in Stages : rows[i] = "passed"
       /\ receipt = shown
    \/ /\ badge = "blocked"
       /\ \E i \in Stages :
            /\ rows[i] = "failed" \/ (i = 1 /\ rows[i] = "passed")
            /\ \A j \in Stages : /\ j < i => rows[j] = "passed"
                                /\ j > i => rows[j] = "pending"
       /\ receipt = None

=============================================================================
