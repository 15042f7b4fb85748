------------------------ MODULE CredentialAuditProofs ------------------------
(***************************************************************************)
(* Proofs about CredentialAudit, for any number of audits in flight, of    *)
(* credentials, anchors and keys, and of changes by the other tabs.        *)
(***************************************************************************)
EXTENDS CredentialAudit, TLAPS

-----------------------------------------------------------------------------
(* Types *)

Running == [pc : Phases, cred : Credentials, ok : BOOLEAN,
            seen : SUBSET BOOLEAN, held : SUBSET Facts]

AuditsOK == audits \in [Audits -> Running \union {IdleAudit}]

OthersOK ==
  /\ verifiedMitchProofs \subseteq Credentials
  /\ knownIssuers \in [Anchors -> Credentials \union {None}]
  /\ activeAttackName \in {"none", "replay", "untrusted", "other"}
  /\ isLabTrustOverrideActive \in BOOLEAN
  /\ employerKey \in Keys
  /\ chainValid \in BOOLEAN
  /\ anchored \subseteq Credentials /\ leaking \subseteq anchored
  /\ baseStatusList \subseteq Credentials /\ gatewayStatusList \subseteq Credentials
  /\ changes \in 0..MaxChanges

DisplayOK ==
  /\ view \in {"none", "alert", "report"}
  /\ shown \in Credentials \union {None} /\ (view = "report" => shown # None)
  /\ rows \in [Stages -> {"pending", "passed", "failed"}]
  /\ badge \in {"none", "verified", "blocked"}
  /\ receipt \in Credentials \union {None}
  /\ crowded \in BOOLEAN

\* The type invariant in three parts.
LEMMA TypeParts == TypeOK <=> OthersOK /\ AuditsOK /\ DisplayOK
BY DEF TypeOK, OthersOK, AuditsOK, DisplayOK, Running

\* An audit that is not idle has the fields of a running one.
LEMMA RunningAudit ==
  ASSUME AuditsOK, NEW a \in Audits, audits[a].pc # "idle"
  PROVE  audits[a] \in Running
BY DEF AuditsOK, IdleAudit

\* An idle one holds nothing.
LEMMA IdleIsIdle ==
  ASSUME AuditsOK, NEW a \in Audits, audits[a].pc = "idle"
  PROVE  audits[a] = IdleAudit
BY DEF AuditsOK, Running, Phases

\* The facts that hold of each credential, after a step.
LEMMA NextHoldingType == Holding' \in [Credentials -> SUBSET Facts]
BY DEF Holding

\* Which facts hold of a credential.
LEMMA HoldingFacts ==
  ASSUME NEW c \in Credentials
  PROVE  /\ "proven" \in Holding[c] <=> Proven(c)
         /\ "honest" \in Holding[c] <=> activeAttackName # "replay"
         /\ "signed" \in Holding[c] <=> Signed(c)
         /\ "valid" \in Holding[c] <=> chainValid
         /\ "anchored" \in Holding[c] <=> c \in anchored
         /\ "active" \in Holding[c] <=> Active(c)
         /\ "lean" \in Holding[c] <=> Lean(c)
BY DEF Holding, Facts

\* They change only with what the other tabs change.
LEMMA HoldingStays == UNCHANGED others => Holding' = Holding
BY DEF others, Holding, Proven, Signed, Active, Lean

\* What an audit in flight witnesses of a change.
LEMMA WitnessedReads ==
  ASSUME AuditsOK, chainValid' \in BOOLEAN
  PROVE  /\ Witnessed \in [Audits -> Running \union {IdleAudit}]
         /\ \A a \in Audits :
              /\ audits[a].pc = "idle" => Witnessed[a] = IdleAudit
              /\ audits[a].pc # "idle" =>
                   /\ Witnessed[a] \in Running
                   /\ Witnessed[a].pc = audits[a].pc
                   /\ Witnessed[a].cred = audits[a].cred
                   /\ Witnessed[a].ok = audits[a].ok
                   /\ Witnessed[a].held
                        = audits[a].held \union Holding'[audits[a].cred]
                   /\ Witnessed[a].seen =
                        IF audits[a].pc = "stage3"
                        THEN audits[a].seen \union {chainValid'} ELSE audits[a].seen
<1>1. ASSUME NEW a \in Audits, audits[a].pc = "idle"
      PROVE  Witnessed[a] = IdleAudit
  BY <1>1 DEF Witnessed
<1>2. ASSUME NEW a \in Audits, audits[a].pc # "idle"
      PROVE  /\ Witnessed[a] \in Running
             /\ Witnessed[a].pc = audits[a].pc
             /\ Witnessed[a].cred = audits[a].cred
             /\ Witnessed[a].ok = audits[a].ok
             /\ Witnessed[a].held = audits[a].held \union Holding'[audits[a].cred]
             /\ Witnessed[a].seen =
                  IF audits[a].pc = "stage3"
                  THEN audits[a].seen \union {chainValid'} ELSE audits[a].seen
  <2>1. audits[a] \in Running
    BY <1>2, RunningAudit
  <2>2. Holding'[audits[a].cred] \subseteq Facts
    BY <2>1, NextHoldingType DEF Running
  <2> QED
    BY <1>2, <2>1, <2>2 DEF Witnessed, Running
<1>3. Witnessed \in [Audits -> Running \union {IdleAudit}]
  <2>1. \A a \in Audits : Witnessed[a] \in Running \union {IdleAudit}
    BY <1>1, <1>2
  <2> QED
    BY <2>1 DEF Witnessed
<1> QED
  BY <1>1, <1>2, <1>3


\* Letting an audit go keeps the types.
LEMMA RestType ==
  ASSUME AuditsOK, NEW a \in Audits
  PROVE  /\ Rest(a) \in [Audits -> Running \union {IdleAudit}]
         /\ Rest(a)[a].pc = "idle"
         /\ \A b \in Audits : b # a => Rest(a)[b] = audits[b]
BY DEF AuditsOK, Rest, IdleAudit

\* The other tabs keep the types.
LEMMA OthersType ==
  ASSUME TypeOK, Others
  PROVE  TypeOK'
<1>1. OthersOK /\ AuditsOK /\ DisplayOK
  BY TypeParts
<1>2. Changed
  BY DEF Others, AcceptPresentation, GenerateEudiProof, RotateEmployerKeys,
     LedgerChanges, LabMode, LabRevocation, TrustOverride, LabReset
<1>3. changes' \in 0..MaxChanges
  BY <1>1, <1>2, CredentialAuditAssumption DEF Changed, OthersOK
<1>4. OthersOK'
  <2>1. CASE AcceptPresentation
    BY <1>1, <1>3, <2>1 DEF AcceptPresentation, OthersOK
  <2>2. CASE GenerateEudiProof
    BY <1>1, <1>3, <2>2 DEF GenerateEudiProof, OthersOK
  <2>3. CASE RotateEmployerKeys
    BY <1>1, <1>3, <2>3 DEF RotateEmployerKeys, OthersOK
  <2>4. CASE LedgerChanges
    BY <1>1, <1>3, <2>4 DEF LedgerChanges, OthersOK
  <2>5. CASE LabMode
    BY <1>1, <1>3, <2>5 DEF LabMode, OthersOK
  <2>6. CASE LabRevocation
    BY <1>1, <1>3, <2>6, CredentialAuditAssumption DEF LabRevocation, OthersOK
  <2>7. CASE TrustOverride
    BY <1>1, <1>3, <2>7 DEF TrustOverride, OthersOK
  <2>8. CASE LabReset
    BY <1>1, <1>3, <2>8 DEF LabReset, OthersOK
  <2> QED
    BY <2>1, <2>2, <2>3, <2>4, <2>5, <2>6, <2>7, <2>8 DEF Others
<1>5. AuditsOK'
  BY <1>1, <1>2, <1>4, WitnessedReads DEF Changed, AuditsOK, OthersOK
<1>6. DisplayOK'
  BY <1>1, <1>2 DEF Changed, display, DisplayOK
<1> QED
  BY <1>4, <1>5, <1>6 DEF TypeOK, OthersOK, AuditsOK, DisplayOK, Running

\* A click keeps them.
LEMMA ClickType ==
  ASSUME OthersOK, OthersOK', AuditsOK, DisplayOK,
         NEW a \in Audits, NEW c \in Credentials, Click(a, c)
  PROVE  /\ AuditsOK' /\ DisplayOK'
         /\ audits'[a] = [pc |-> "parsing", cred |-> c, ok |-> FALSE, seen |-> {},
                          held |-> Holding'[c]]
         /\ \A b \in Audits : b # a => audits'[b] = Witnessed[b]
<1>1. Holding'[c] \subseteq Facts
  BY NextHoldingType
<1>2. Witnessed \in [Audits -> Running \union {IdleAudit}]
  BY WitnessedReads DEF OthersOK
<1> DEFINE clicked == [pc |-> "parsing", cred |-> c, ok |-> FALSE, seen |-> {},
                       held |-> Holding'[c]]
<1>3. clicked \in Running
  BY <1>1 DEF Running, Phases
<1>4. audits' = [Witnessed EXCEPT ![a] = clicked]
  BY DEF Click
<1> HIDE DEF clicked
<1>5. /\ audits' \in [Audits -> Running \union {IdleAudit}]
      /\ audits'[a] = clicked
      /\ \A b \in Audits : b # a => audits'[b] = Witnessed[b]
  BY <1>2, <1>3, <1>4
<1>6. DisplayOK'
  BY DEF Click, DisplayOK, InFlight
<1> QED
  BY <1>5, <1>6 DEF AuditsOK, clicked


-----------------------------------------------------------------------------
(* The steps of one audit *)

\* Audit a ends, or goes on to pc; no other audit and no other tab moves.
Ends(a) ==
  /\ audits'[a].pc = "idle"
  /\ \A b \in Audits : b # a => audits'[b] = audits[b]

Advances(a, pc, ok, seen) ==
  /\ audits'[a].pc = pc /\ audits'[a].ok = ok /\ audits'[a].seen = seen
  /\ audits'[a].cred = audits[a].cred /\ audits'[a].held = audits[a].held
  /\ \A b \in Audits : b # a => audits'[b] = audits[b]

Quiet == UNCHANGED others /\ UNCHANGED crowded /\ AuditsOK'

\* Proven and Signed are conditions.
LEMMA ConditionsAreBoolean ==
  ASSUME TypeOK, NEW c \in Credentials
  PROVE  Proven(c) \in BOOLEAN /\ Signed(c) \in BOOLEAN
BY DEF Proven, Signed

LEMMA RestEnds ==
  ASSUME AuditsOK, NEW a \in Audits, audits' = Rest(a)
  PROVE  AuditsOK' /\ Ends(a)
BY RestType DEF AuditsOK, Ends

LEMMA PipelineEnds ==
  ASSUME AuditsOK, NEW a \in Audits, NEW shownRows, TerminatePipeline(a, shownRows)
  PROVE  /\ Quiet /\ Ends(a)
         /\ rows' = shownRows
         /\ badge' = "blocked" /\ receipt' = None
BY RestEnds DEF TerminatePipeline, Quiet, ReceiptAfterFailure

LEMMA TerminateEnds ==
  ASSUME AuditsOK, NEW a \in Audits, NEW shownRows, NEW i, Terminate(a, shownRows, i)
  PROVE  /\ Quiet /\ Ends(a)
         /\ rows' = [shownRows EXCEPT ![i] = "failed"]
         /\ badge' = "blocked" /\ receipt' = None
BY PipelineEnds DEF Terminate

LEMMA GoOnAdvances ==
  ASSUME AuditsOK, NEW a \in Audits, audits[a].pc # "idle",
         NEW pc \in Phases, NEW ok \in BOOLEAN, NEW seen \in SUBSET BOOLEAN,
         GoOn(a, pc, ok, seen)
  PROVE  Quiet /\ Advances(a, pc, ok, seen) /\ UNCHANGED <<badge, receipt>>
<1> DEFINE moved == [audits EXCEPT ![a].pc = pc, ![a].ok = ok, ![a].seen = seen]
<1>1. audits[a] \in Running
  BY RunningAudit
<1>2. /\ moved \in [Audits -> Running \union {IdleAudit}]
      /\ moved[a].pc = pc /\ moved[a].ok = ok /\ moved[a].seen = seen
      /\ moved[a].cred = audits[a].cred /\ moved[a].held = audits[a].held
      /\ \A b \in Audits : b # a => moved[b] = audits[b]
  BY <1>1 DEF AuditsOK, Running
<1>3. audits' = moved /\ UNCHANGED <<others, badge, receipt, crowded>>
  BY DEF GoOn
<1> HIDE DEF moved
<1> QED
  BY <1>2, <1>3 DEF Quiet, Advances, AuditsOK

LEMMA ParseRejectsStep ==
  ASSUME TypeOK, NEW a \in Audits, ParseRejects(a)
  PROVE  Quiet /\ Ends(a) /\ view' = "alert" /\ UNCHANGED <<shown, rows, badge, receipt>>
BY TypeParts, RestEnds DEF ParseRejects, Quiet

LEMMA ClaimsMissingStep ==
  ASSUME TypeOK, NEW a \in Audits, ClaimsMissing(a)
  PROVE  /\ Quiet /\ Ends(a)
         /\ view' = "alert" /\ shown' = audits[a].cred /\ rows' = Cleared
         /\ UNCHANGED <<badge, receipt>>
BY TypeParts, RestEnds DEF ClaimsMissing, Quiet

LEMMA StartAuditStep ==
  ASSUME TypeOK, NEW a \in Audits, StartAudit(a)
  PROVE  /\ Quiet /\ audits[a].pc = "parsing"
         /\ view' = "report" /\ shown' = audits[a].cred
         /\ \/ /\ Advances(a, "stage1", Proven(audits[a].cred), {})
               /\ rows' = Cleared /\ UNCHANGED <<badge, receipt>>
            \/ /\ Ends(a)
               /\ rows' = [Cleared EXCEPT ![1] = "failed"]
               /\ badge' = "blocked" /\ receipt' = None
<1>1. AuditsOK /\ audits[a].pc = "parsing" /\ audits[a] \in Running
  BY TypeParts, RunningAudit DEF StartAudit
<1>2. Proven(audits[a].cred) \in BOOLEAN
  BY <1>1, ConditionsAreBoolean DEF Running
<1>3. CASE rows' = Cleared /\ GoOn(a, "stage1", Proven(audits[a].cred), {})
  BY <1>1, <1>2, <1>3, GoOnAdvances DEF StartAudit, Phases
<1>4. CASE Terminate(a, Cleared, 1)
  BY <1>1, <1>4, TerminateEnds DEF StartAudit
<1> QED
  BY <1>3, <1>4 DEF StartAudit

LEMMA Stage1Step ==
  ASSUME TypeOK, NEW a \in Audits, Stage1(a)
  PROVE  /\ Quiet /\ audits[a].pc = "stage1" /\ UNCHANGED <<view, shown>>
         /\ \/ /\ audits[a].ok /\ activeAttackName # "replay"
               /\ Advances(a, "stage2", Signed(audits[a].cred), {})
               /\ rows' = [rows EXCEPT ![1] = "passed"] /\ UNCHANGED <<badge, receipt>>
            \/ /\ Ends(a)
               /\ rows' \in {[rows EXCEPT ![1] = "passed"],
                             [rows EXCEPT ![1] = "failed"]}
               /\ badge' = "blocked" /\ receipt' = None
<1>1. AuditsOK /\ audits[a].pc = "stage1" /\ audits[a] \in Running
  BY TypeParts, RunningAudit DEF Stage1
<1>2. Signed(audits[a].cred) \in BOOLEAN
  BY <1>1, ConditionsAreBoolean DEF Running
<1>3. CASE /\ audits[a].ok /\ activeAttackName # "replay"
           /\ rows' = [rows EXCEPT ![1] = "passed"]
           /\ GoOn(a, "stage2", Signed(audits[a].cred), {})
  BY <1>1, <1>2, <1>3, GoOnAdvances DEF Stage1, Phases
<1>4. CASE Terminate(a, rows, 1)
  BY <1>1, <1>4, TerminateEnds DEF Stage1
<1>5. CASE TerminatePipeline(a, [rows EXCEPT ![1] = "passed"])
  BY <1>1, <1>5, PipelineEnds DEF Stage1
<1> QED
  BY <1>3, <1>4, <1>5 DEF Stage1

LEMMA Stage2Step ==
  ASSUME TypeOK, NEW a \in Audits, Stage2(a)
  PROVE  /\ Quiet /\ audits[a].pc = "stage2" /\ UNCHANGED <<view, shown>>
         /\ \/ /\ audits[a].ok
               /\ Advances(a, "stage3", FALSE, {chainValid})
               /\ rows' = [rows EXCEPT ![2] = "passed"] /\ UNCHANGED <<badge, receipt>>
            \/ /\ Ends(a)
               /\ rows' = [rows EXCEPT ![2] = "failed"]
               /\ badge' = "blocked" /\ receipt' = None
<1>1. AuditsOK /\ audits[a].pc = "stage2" /\ {chainValid} \in SUBSET BOOLEAN
  BY TypeParts DEF Stage2, OthersOK
<1>2. CASE /\ audits[a].ok
           /\ rows' = [rows EXCEPT ![2] = "passed"]
           /\ GoOn(a, "stage3", FALSE, {chainValid})
  BY <1>1, <1>2, GoOnAdvances DEF Stage2, Phases
<1>3. CASE Terminate(a, rows, 2)
  BY <1>1, <1>3, TerminateEnds DEF Stage2
<1> QED
  BY <1>2, <1>3 DEF Stage2

LEMMA Stage3ChainStep ==
  ASSUME TypeOK, NEW a \in Audits, Stage3Chain(a)
  PROVE  /\ Quiet /\ audits[a].pc = "stage3" /\ UNCHANGED <<view, shown>>
         /\ \/ /\ TRUE \in audits[a].seen
               /\ Advances(a, "anchor", FALSE, {})
               /\ UNCHANGED <<rows, badge, receipt>>
            \/ /\ Ends(a)
               /\ rows' = [rows EXCEPT ![3] = "failed"]
               /\ badge' = "blocked" /\ receipt' = None
<1>1. AuditsOK /\ audits[a].pc = "stage3"
  BY TypeParts DEF Stage3Chain
<1>2. CASE TRUE \in audits[a].seen /\ rows' = rows /\ GoOn(a, "anchor", FALSE, {})
  BY <1>1, <1>2, GoOnAdvances DEF Stage3Chain, Phases
<1>3. CASE Terminate(a, rows, 3)
  BY <1>1, <1>3, TerminateEnds DEF Stage3Chain
<1> QED
  BY <1>2, <1>3 DEF Stage3Chain

LEMMA Stage3And4Step ==
  ASSUME TypeOK, NEW a \in Audits, Stage3And4(a)
  PROVE  LET rows3 == [rows EXCEPT ![3] = "passed"] IN
         /\ Quiet /\ audits[a].pc = "anchor" /\ UNCHANGED <<view, shown>>
         /\ \/ /\ audits[a].cred \in anchored /\ Active(audits[a].cred)
               /\ Advances(a, "stage5", FALSE, {})
               /\ rows' = [rows3 EXCEPT ![4] = "passed"]
               /\ UNCHANGED <<badge, receipt>>
            \/ /\ Ends(a)
               /\ \/ rows' = [rows EXCEPT ![3] = "failed"]
                  \/ rows' = [rows3 EXCEPT ![4] = "failed"]
               /\ badge' = "blocked" /\ receipt' = None
<1> DEFINE rows3 == [rows EXCEPT ![3] = "passed"]
<1>1. AuditsOK /\ audits[a].pc = "anchor"
  BY TypeParts DEF Stage3And4
<1> HIDE DEF rows3
<1>2. CASE /\ audits[a].cred \in anchored /\ NotRevoked(audits[a].cred)
           /\ rows' = [rows3 EXCEPT ![4] = "passed"]
           /\ GoOn(a, "stage5", FALSE, {})
  BY <1>1, <1>2, GoOnAdvances DEF Stage3And4, Phases, NotRevoked, Active, rows3
<1>3. CASE Terminate(a, rows, 3)
  BY <1>1, <1>3, TerminateEnds DEF Stage3And4
<1>4. CASE Terminate(a, rows3, 4)
  <2>1. /\ Quiet /\ Ends(a)
        /\ rows' = [rows3 EXCEPT ![4] = "failed"]
        /\ badge' = "blocked" /\ receipt' = None
    BY <1>1, <1>4, TerminateEnds
  <2> QED
    BY <1>1, <2>1 DEF Stage3And4, rows3
<1> QED
  BY <1>2, <1>3, <1>4 DEF Stage3And4, rows3

LEMMA Stage5Step ==
  ASSUME TypeOK, NEW a \in Audits, Stage5(a)
  PROVE  /\ Quiet /\ audits[a].pc = "stage5" /\ UNCHANGED <<view, shown>>
         /\ \/ /\ Lean(audits[a].cred)
               /\ Advances(a, "receipt", audits[a].ok, audits[a].seen)
               /\ rows' = [rows EXCEPT ![5] = "passed"]
               /\ badge' = "verified" /\ receipt' = receipt
            \/ /\ Ends(a)
               /\ rows' = [rows EXCEPT ![5] = "failed"]
               /\ badge' = "blocked" /\ receipt' = None
<1>1. AuditsOK /\ audits[a].pc = "stage5" /\ audits[a] \in Running
  BY TypeParts, RunningAudit DEF Stage5
<1>2. CASE /\ audits[a].cred \notin leaking
           /\ rows' = [rows EXCEPT ![5] = "passed"]
           /\ badge' = "verified"
           /\ audits' = [audits EXCEPT ![a].pc = "receipt"]
           /\ UNCHANGED <<others, receipt, crowded>>
  <2>1. AuditsOK' /\ Advances(a, "receipt", audits[a].ok, audits[a].seen)
    BY <1>1, <1>2 DEF AuditsOK, Advances, Running, Phases
  <2> QED
    BY <1>1, <1>2, <2>1 DEF Stage5, Lean, Quiet
<1>3. CASE Terminate(a, rows, 5)
  BY <1>1, <1>3, TerminateEnds DEF Stage5
<1> QED
  BY <1>2, <1>3 DEF Stage5

LEMMA AppendReceiptStep ==
  ASSUME TypeOK, NEW a \in Audits, AppendReceipt(a)
  PROVE  /\ Quiet /\ audits[a].pc = "receipt" /\ Ends(a)
         /\ receipt' = audits[a].cred /\ UNCHANGED <<view, shown, rows, badge>>
BY TypeParts, RestEnds DEF AppendReceipt, Quiet


\* The steps of an audit after the click.
Goes(a) ==
  \/ ParseRejects(a) \/ StartAudit(a) \/ ClaimsMissing(a)
  \/ Stage1(a) \/ Stage2(a) \/ Stage3Chain(a) \/ Stage3And4(a) \/ Stage5(a)
  \/ AppendReceipt(a)

\* They keep the types.
LEMMA GoesType ==
  ASSUME TypeOK, NEW a \in Audits, Goes(a)
  PROVE  Quiet /\ TypeOK'
<1>1. OthersOK /\ AuditsOK /\ DisplayOK
  BY TypeParts
<1>2. Quiet
  BY ParseRejectsStep, StartAuditStep, ClaimsMissingStep, Stage1Step, Stage2Step,
     Stage3ChainStep, Stage3And4Step, Stage5Step, AppendReceiptStep DEF Goes
<1>3. OthersOK'
  BY <1>1, <1>2 DEF Quiet, others, OthersOK
<1>4. audits[a] \in Running
  BY <1>1, RunningAudit DEF Goes, ParseRejects, StartAudit, ClaimsMissing, Stage1,
     Stage2, Stage3Chain, Stage3And4, Stage5, AppendReceipt
<1>5. audits[a].cred \in Credentials /\ audits[a].cred # None
  BY <1>4, CredentialAuditAssumption DEF Running
<1>6. Cleared \in [Stages -> {"pending", "passed", "failed"}]
  BY DEF Cleared
<1>7. DisplayOK'
  <2>1. CASE ParseRejects(a)
    BY <1>1, <2>1, ParseRejectsStep DEF Quiet, DisplayOK
  <2>2. CASE StartAudit(a)
    BY <1>1, <1>5, <1>6, <2>2, StartAuditStep DEF Quiet, DisplayOK
  <2>3. CASE ClaimsMissing(a)
    BY <1>1, <1>5, <1>6, <2>3, ClaimsMissingStep DEF Quiet, DisplayOK
  <2>4. CASE Stage1(a)
    BY <1>1, <2>4, Stage1Step DEF Quiet, DisplayOK
  <2>5. CASE Stage2(a)
    BY <1>1, <2>5, Stage2Step DEF Quiet, DisplayOK
  <2>6. CASE Stage3Chain(a)
    BY <1>1, <2>6, Stage3ChainStep DEF Quiet, DisplayOK
  <2>7. CASE Stage3And4(a)
    BY <1>1, <2>7, Stage3And4Step DEF Quiet, DisplayOK
  <2>8. CASE Stage5(a)
    BY <1>1, <2>8, Stage5Step DEF Quiet, DisplayOK
  <2>9. CASE AppendReceipt(a)
    BY <1>1, <1>5, <2>9, AppendReceiptStep DEF Quiet, DisplayOK
  <2> QED
    BY <2>1, <2>2, <2>3, <2>4, <2>5, <2>6, <2>7, <2>8, <2>9 DEF Goes
<1> QED
  BY <1>2, <1>3, <1>7 DEF Quiet, TypeOK, OthersOK, AuditsOK, DisplayOK, Running

\* A click of the button leaves what the other tabs change, or, for an
\* example, changes the lists.
Clicks(a) == (\E c \in Credentials : VerifyPaste(a, c)) \/ Example(a)

\* Either way it is a click with well-typed lists.
LEMMA ClicksType ==
  ASSUME TypeOK, NEW a \in Audits, Clicks(a)
  PROVE  /\ TypeOK'
         /\ \E c \in Credentials : Click(a, c)
<1>1. OthersOK /\ AuditsOK /\ DisplayOK
  BY TypeParts
<1>2. PICK c \in Credentials : Click(a, c)
  BY CredentialAuditAssumption DEF Clicks, VerifyPaste, Example
<1>3. OthersOK'
  <2>1. CASE UNCHANGED others
    BY <1>1, <2>1 DEF others, OthersOK
  <2>2. ASSUME NEW base \in SUBSET Credentials, NEW gateway \in SUBSET Credentials,
               SetRevoked(base, gateway)
        PROVE  OthersOK'
    BY <1>1, <2>2, CredentialAuditAssumption DEF SetRevoked, OthersOK
  <2>3. \A kept \in SUBSET {Seed} :
          /\ baseStatusList \ {Seed} \in SUBSET Credentials
          /\ gatewayStatusList \ ({Seed} \ kept) \in SUBSET Credentials
    BY <1>1 DEF OthersOK
  <2>4. /\ baseStatusList \union {Seed} \in SUBSET Credentials
        /\ gatewayStatusList \union {Seed} \in SUBSET Credentials
    BY <1>1, CredentialAuditAssumption DEF OthersOK
  <2> QED
    BY <2>1, <2>2, <2>3, <2>4 DEF Clicks, VerifyPaste, Example
<1>4. AuditsOK' /\ DisplayOK'
  BY <1>1, <1>2, <1>3, ClickType
<1> QED
  BY <1>2, <1>3, <1>4 DEF TypeOK, OthersOK, AuditsOK, DisplayOK, Running

\* The disjuncts of Next, grouped.
LEMMA NextGroups ==
  Next => Others \/ RejectPaste \/ \E a \in Audits : Clicks(a) \/ Goes(a)
BY DEF Next, Clicks, Goes

\* Every step keeps the types.
LEMMA NextType == TypeOK /\ [Next]_vars => TypeOK'
<1> SUFFICES ASSUME TypeOK, [Next]_vars
             PROVE  TypeOK'
  OBVIOUS
<1>1. CASE UNCHANGED vars
  BY <1>1 DEF vars, others, display, TypeOK
<1>2. CASE RejectPaste
  BY <1>2 DEF RejectPaste, others, TypeOK
<1>3. ASSUME NEW a \in Audits, Clicks(a) \/ Goes(a)
      PROVE  TypeOK'
  BY <1>3, ClicksType, GoesType
<1> QED
  BY <1>1, <1>2, <1>3, NextGroups, OthersType

\* The report, the audits in flight and what the other tabs hold keep their
\* types (app.js:946-1042, 1201-1445).
THEOREM AuditTypeCorrect == Spec => []TypeOK
<1>1. Init => TypeOK
  <2> SUFFICES ASSUME Init PROVE TypeOK
    OBVIOUS
  <2>1. OthersOK
    <3>1. knownIssuers \in [Anchors -> Credentials \union {None}]
      BY DEF Init
    <3>2. changes \in 0..MaxChanges
      BY CredentialAuditAssumption DEF Init
    <3>3. verifiedMitchProofs \subseteq Credentials /\ leaking \subseteq anchored
      BY DEF Init
    <3> QED
      BY <3>1, <3>2, <3>3 DEF Init, OthersOK
  <2>2. AuditsOK
    BY DEF Init, AuditsOK
  <2>3. DisplayOK
    BY DEF Init, DisplayOK
  <2> QED
    BY <2>1, <2>2, <2>3 DEF TypeOK, OthersOK, AuditsOK, DisplayOK, Running
<1> QED
  BY <1>1, NextType, PTL DEF Spec

-----------------------------------------------------------------------------
(* The badge is earned *)

\* What an audit holds by the time it reaches a stage: an outcome that an
\* await will settle with stands for a fact that held when it was computed.
Earned(r) ==
  /\ r.pc = "stage1" /\ r.ok => "proven" \in r.held
  /\ r.pc \in {"stage2", "stage3", "anchor", "stage5", "receipt"} =>
       "proven" \in r.held /\ "honest" \in r.held
  /\ r.pc = "stage2" /\ r.ok => "signed" \in r.held
  /\ r.pc \in {"stage3", "anchor", "stage5", "receipt"} => "signed" \in r.held
  /\ r.pc = "stage3" /\ TRUE \in r.seen => "valid" \in r.held
  /\ r.pc \in {"anchor", "stage5", "receipt"} => "valid" \in r.held
  /\ r.pc \in {"stage5", "receipt"} => "anchored" \in r.held /\ "active" \in r.held
  /\ r.pc = "receipt" => "lean" \in r.held

EarnedInvariant ==
  \A a \in Audits : audits[a].pc # "idle" =>
    /\ Holding[audits[a].cred] \subseteq audits[a].held
    /\ Earned(audits[a])

\* What an audit earned stays earned while others change.
LEMMA WitnessedEarned ==
  ASSUME TypeOK, TypeOK', EarnedInvariant, NEW a \in Audits, audits[a].pc # "idle",
         audits'[a] = Witnessed[a]
  PROVE  /\ Holding'[audits'[a].cred] \subseteq audits'[a].held
         /\ Earned(audits'[a])
<1>1. AuditsOK /\ audits[a] \in Running /\ chainValid' \in BOOLEAN
  BY TypeParts, RunningAudit DEF TypeOK
<1>2. /\ audits'[a].pc = audits[a].pc /\ audits'[a].cred = audits[a].cred
      /\ audits'[a].ok = audits[a].ok
      /\ audits'[a].held = audits[a].held \union Holding'[audits[a].cred]
      /\ audits'[a].seen = IF audits[a].pc = "stage3"
                           THEN audits[a].seen \union {chainValid'} ELSE audits[a].seen
  BY <1>1, WitnessedReads
<1>3. chainValid' => "valid" \in Holding'[audits[a].cred]
  BY <1>1 DEF Holding, Facts, Running
<1>4. TRUE \in audits'[a].seen => TRUE \in audits[a].seen \/ chainValid'
  BY <1>1, <1>2
<1>5. Earned(audits[a])
  BY DEF EarnedInvariant
<1> QED
  BY <1>2, <1>3, <1>4, <1>5 DEF Earned

\* A step of one audit that no other tab makes leaves the others as they are.
LEMMA QuietEarned ==
  ASSUME EarnedInvariant, Quiet, NEW a \in Audits,
         \A b \in Audits : b # a => audits'[b] = audits[b],
         \/ audits'[a].pc = "idle"
         \/ /\ audits[a].pc # "idle"
            /\ audits'[a].cred = audits[a].cred /\ audits'[a].held = audits[a].held
            /\ Earned(audits'[a])
  PROVE  EarnedInvariant'
<1>1. Holding' = Holding
  BY HoldingStays DEF Quiet
<1> SUFFICES ASSUME NEW b \in Audits, audits'[b].pc # "idle"
             PROVE  /\ Holding'[audits'[b].cred] \subseteq audits'[b].held
                    /\ Earned(audits'[b])
  BY DEF EarnedInvariant, Earned
<1> QED
  BY <1>1 DEF EarnedInvariant

LEMMA GoesEarned ==
  ASSUME TypeOK, EarnedInvariant, NEW a \in Audits, Goes(a)
  PROVE  EarnedInvariant'
<1>1. Quiet
  BY GoesType
<1>2. audits[a].pc # "idle" /\ audits[a] \in Running
  BY TypeParts, RunningAudit DEF Goes, ParseRejects, StartAudit, ClaimsMissing,
     Stage1, Stage2, Stage3Chain, Stage3And4, Stage5, AppendReceipt
<1> DEFINE c == audits[a].cred
           held == audits[a].held
<1>3. /\ Proven(c) => "proven" \in held
      /\ activeAttackName # "replay" => "honest" \in held
      /\ Signed(c) => "signed" \in held
      /\ chainValid => "valid" \in held
      /\ c \in anchored => "anchored" \in held
      /\ Active(c) => "active" \in held
      /\ Lean(c) => "lean" \in held
  <2>1. c \in Credentials
    BY <1>2 DEF Running
  <2>2. Holding[c] \subseteq held
    BY <1>2 DEF EarnedInvariant
  <2> HIDE DEF c
  <2> QED
    BY <2>1, <2>2, HoldingFacts
<1>4. Earned(audits[a])
  BY <1>2 DEF EarnedInvariant
<1> SUFFICES /\ \A b \in Audits : b # a => audits'[b] = audits[b]
             /\ \/ audits'[a].pc = "idle"
                \/ audits'[a].cred = c /\ audits'[a].held = held /\ Earned(audits'[a])
  BY <1>1, <1>2, QuietEarned
<1> HIDE DEF c, held
<1>5. CASE ParseRejects(a) \/ ClaimsMissing(a) \/ AppendReceipt(a)
  BY <1>5, ParseRejectsStep, ClaimsMissingStep, AppendReceiptStep DEF Ends
<1>6. CASE StartAudit(a)
  BY <1>3, <1>6, StartAuditStep DEF Ends, Advances, Earned, c, held
<1>7. CASE Stage1(a)
  BY <1>3, <1>4, <1>7, Stage1Step DEF Ends, Advances, Earned, c, held
<1>8. CASE Stage2(a)
  <2>1. TRUE \in {chainValid} => "valid" \in held
    BY <1>3
  <2> QED
    BY <1>3, <1>4, <1>8, <2>1, Stage2Step DEF Ends, Advances, Earned, c, held
<1>9. CASE Stage3Chain(a)
  BY <1>3, <1>4, <1>9, Stage3ChainStep DEF Ends, Advances, Earned, c, held
<1>10. CASE Stage3And4(a)
  BY <1>3, <1>4, <1>10, Stage3And4Step DEF Ends, Advances, Earned, c, held
<1>11. CASE Stage5(a)
  BY <1>3, <1>4, <1>11, Stage5Step DEF Ends, Advances, Earned, c, held
<1> QED
  BY <1>5, <1>6, <1>7, <1>8, <1>9, <1>10, <1>11 DEF Goes

\* An audit at rest stays at rest.
LEMMA WitnessedIdle ==
  ASSUME AuditsOK, chainValid' \in BOOLEAN, NEW a \in Audits, audits[a].pc = "idle"
  PROVE  Witnessed[a].pc = "idle"
BY DEF Witnessed, IdleAudit

LEMMA NextEarned == TypeOK /\ TypeOK' /\ EarnedInvariant /\ [Next]_vars => EarnedInvariant'
<1> SUFFICES ASSUME TypeOK, TypeOK', EarnedInvariant, [Next]_vars
             PROVE  EarnedInvariant'
  OBVIOUS
<1>1. CASE UNCHANGED vars \/ RejectPaste
  <2>1. audits' = audits /\ Holding' = Holding
    BY <1>1, HoldingStays DEF vars, RejectPaste
  <2> QED
    BY <2>1 DEF EarnedInvariant, Earned
<1>2. CASE Others
  <2>1. audits' = Witnessed
    BY <1>2 DEF Others, AcceptPresentation, GenerateEudiProof, RotateEmployerKeys,
       LedgerChanges, LabMode, LabRevocation, TrustOverride, LabReset, Changed
  <2>2. \A a \in Audits : audits[a].pc = "idle" => audits'[a].pc = "idle"
    <3>1. AuditsOK /\ chainValid' \in BOOLEAN
      BY TypeParts DEF TypeOK
    <3> QED
      BY <2>1, <3>1, WitnessedIdle
  <2> QED
    BY <2>1, <2>2, WitnessedEarned DEF EarnedInvariant, Earned
<1>3. ASSUME NEW a \in Audits, Clicks(a)
      PROVE  EarnedInvariant'
  <2>1. OthersOK /\ OthersOK' /\ AuditsOK /\ DisplayOK
    BY TypeParts DEF TypeOK, OthersOK
  <2>2. PICK c \in Credentials : Click(a, c)
    BY <1>3, ClicksType
  <2>3. /\ audits'[a] = [pc |-> "parsing", cred |-> c, ok |-> FALSE, seen |-> {},
                         held |-> Holding'[c]]
        /\ \A b \in Audits : b # a => audits'[b] = Witnessed[b]
    BY <2>1, <2>2, ClickType
  <2>4. \A b \in Audits : b # a /\ audits[b].pc = "idle" => audits'[b].pc = "idle"
    <3>1. chainValid' \in BOOLEAN
      BY <2>1 DEF OthersOK
    <3> QED
      BY <2>1, <2>3, <3>1, WitnessedIdle
  <2>5. /\ Holding'[audits'[a].cred] \subseteq audits'[a].held
        /\ Earned(audits'[a])
    BY <2>3 DEF Earned
  <2> QED
    BY <2>3, <2>4, <2>5, WitnessedEarned DEF EarnedInvariant, Earned
<1>4. ASSUME NEW a \in Audits, Goes(a)
      PROVE  EarnedInvariant'
  BY <1>4, GoesEarned
<1> QED
  BY <1>1, <1>2, <1>3, <1>4, NextGroups

\* The badge "verified" stands for seven facts, each of which held of the
\* credential audited at some moment since the click (app.js:1227-1393),
\* however many audits overlap and whatever the other tabs do.
THEOREM BadgesAreEarned == Spec => []EndorsementsEarned
<1>1. Init => EarnedInvariant
  BY DEF Init, IdleAudit, EarnedInvariant
<1>2. TypeOK /\ EarnedInvariant => EndorsementsEarned
  <2> SUFFICES ASSUME TypeOK, EarnedInvariant, NEW a \in Audits, audits[a].pc = "receipt"
               PROVE  audits[a].held = Facts
    BY DEF EndorsementsEarned
  <2>1. audits[a] \in Running
    BY TypeParts, RunningAudit
  <2>2. Earned(audits[a])
    BY DEF EarnedInvariant
  <2> QED
    BY <2>1, <2>2 DEF Earned, Running, Facts
<1> QED
  BY <1>1, <1>2, NextEarned, AuditTypeCorrect, PTL DEF Spec

-----------------------------------------------------------------------------
(* The report of an audit that no other overlapped *)

\* Of the rows shown, those before stage i are passed and the others pending.
Reached(shownRows, i) ==
  \A j \in Stages : shownRows[j] = IF j < i THEN "passed" ELSE "pending"

\* How far the report is, given the audit in flight.
Progress(r) ==
  /\ r.pc = "parsing" => view # "report"
  /\ r.pc # "parsing" => shown = r.cred
  /\ r.pc = "stage1" => Reached(rows, 1)
  /\ r.pc = "stage2" => Reached(rows, 2)
  /\ r.pc \in {"stage3", "anchor"} => Reached(rows, 3)
  /\ r.pc = "stage5" => Reached(rows, 5)
  /\ r.pc = "receipt" => Reached(rows, 6) /\ badge = "verified"

Blocked ==
  /\ badge = "blocked"
  /\ \E i \in Stages :
       /\ rows[i] = "failed" \/ (i = 1 /\ rows[i] = "passed")
       /\ \A j \in Stages : /\ j < i => rows[j] = "passed"
                           /\ j > i => rows[j] = "pending"
  /\ receipt = None

Endorsed ==
  /\ badge = "verified"
  /\ \A i \in Stages : rows[i] = "passed"
  /\ receipt = shown

SerialInvariant ==
  ~crowded =>
    /\ \A a, b \in InFlight : a = b
    /\ \A a \in InFlight : Progress(audits[a])
    /\ InFlight = {} /\ view = "report" => Blocked \/ Endorsed

Statuses == [Stages -> {"pending", "passed", "failed"}]

\* A stage that fails blocks.
LEMMA FailureBlocks ==
  ASSUME NEW i \in Stages, NEW before \in Statuses, Reached(before, i),
         rows' = [before EXCEPT ![i] = "failed"],
         badge' = "blocked", receipt' = None
  PROVE  Blocked'
<1>1. rows'[i] = "failed" /\ \A j \in Stages :
        /\ j < i => rows'[j] = "passed"
        /\ j > i => rows'[j] = "pending"
  BY DEF Statuses, Stages, Reached
<1> QED
  BY <1>1 DEF Blocked

\* What a step of the only audit in flight leaves.
LEMMA SerialStep ==
  ASSUME TypeOK, SerialInvariant, Quiet, NEW a \in Audits, audits[a].pc # "idle",
         \A b \in Audits : b # a => audits'[b] = audits[b],
         \/ audits'[a].pc = "idle" /\ (~crowded /\ view' = "report" => (Blocked \/ Endorsed)')
         \/ audits'[a].pc # "idle" /\ (~crowded => Progress(audits[a])')
  PROVE  SerialInvariant'
<1> SUFFICES ASSUME ~crowded, crowded' = crowded
             PROVE  SerialInvariant'
  BY DEF SerialInvariant, Quiet
<1>1. InFlight = {a}
  BY DEF SerialInvariant, InFlight
<1>2. InFlight' \subseteq {a}
  BY <1>1 DEF InFlight
<1>3. CASE audits'[a].pc = "idle"
  <2>1. InFlight' = {}
    BY <1>2, <1>3 DEF InFlight
  <2> QED
    BY <1>3, <2>1 DEF SerialInvariant
<1>4. CASE audits'[a].pc # "idle"
  <2>1. InFlight' = {a}
    BY <1>2, <1>4 DEF InFlight
  <2> QED
    BY <1>4, <2>1 DEF SerialInvariant
<1> QED
  BY <1>3, <1>4

LEMMA GoesSerial ==
  ASSUME TypeOK, SerialInvariant, NEW a \in Audits, Goes(a)
  PROVE  SerialInvariant'
<1>1. Quiet
  BY GoesType
<1>2. audits[a].pc # "idle" /\ audits[a] \in Running
  BY TypeParts, RunningAudit DEF Goes, ParseRejects, StartAudit, ClaimsMissing,
     Stage1, Stage2, Stage3Chain, Stage3And4, Stage5, AppendReceipt
<1>3. ~crowded => Progress(audits[a])
  BY <1>2 DEF SerialInvariant, InFlight
<1>4. rows \in Statuses
  BY TypeParts DEF DisplayOK, Statuses
<1>5. Cleared \in Statuses /\ Reached(Cleared, 1) /\ 1 \in Stages
  BY DEF Cleared, Stages, Statuses, Reached
<1> SUFFICES ASSUME ~crowded
             PROVE  /\ \A b \in Audits : b # a => audits'[b] = audits[b]
                    /\ \/ audits'[a].pc = "idle"
                             /\ (view' = "report" => (Blocked \/ Endorsed)')
                       \/ audits'[a].pc # "idle" /\ Progress(audits[a])'
  <2>1. /\ \A b \in Audits : b # a => audits'[b] = audits[b]
    BY ParseRejectsStep, StartAuditStep, ClaimsMissingStep, Stage1Step, Stage2Step,
       Stage3ChainStep, Stage3And4Step, Stage5Step, AppendReceiptStep
    DEF Goes, Ends, Advances
  <2> QED
    BY <1>1, <1>2, <2>1, SerialStep
<1>6. Progress(audits[a])
  BY <1>3
<1>7. CASE ParseRejects(a) \/ ClaimsMissing(a)
  BY <1>7, ParseRejectsStep, ClaimsMissingStep DEF Ends
<1>8. CASE StartAudit(a)
  <2>1. rows' = [Cleared EXCEPT ![1] = "failed"] /\ badge' = "blocked"
          /\ receipt' = None => Blocked'
    BY <1>5, FailureBlocks
  <2>2. rows' = Cleared => Reached(rows', 1)
    BY <1>5
  <2> QED
    BY <1>8, <2>1, <2>2, StartAuditStep DEF Ends, Advances, Progress
<1>9. CASE Stage1(a)
  <2> 1 \in Stages
    BY DEF Stages
  <2>1. Reached(rows, 1)
    BY <1>6, <1>9, Stage1Step DEF Progress
  <2>2. rows' = [rows EXCEPT ![1] = "passed"] => Reached(rows', 2)
    BY <1>4, <2>1 DEF Reached, Statuses, Stages
  <2>3. rows' = [rows EXCEPT ![1] = "failed"] /\ badge' = "blocked"
          /\ receipt' = None => Blocked'
    BY <1>4, <2>1, FailureBlocks
  <2>4. rows' = [rows EXCEPT ![1] = "passed"] /\ badge' = "blocked"
          /\ receipt' = None => Blocked'
    BY <1>4, <2>1 DEF Reached, Statuses, Stages, Blocked
  <2> QED
    BY <1>6, <1>9, <2>2, <2>3, <2>4, Stage1Step DEF Ends, Advances, Progress
<1>10. CASE Stage2(a)
  <2> 2 \in Stages
    BY DEF Stages
  <2>1. Reached(rows, 2)
    BY <1>6, <1>10, Stage2Step DEF Progress
  <2>2. rows' = [rows EXCEPT ![2] = "passed"] => Reached(rows', 3)
    BY <1>4, <2>1 DEF Reached, Statuses, Stages
  <2>3. rows' = [rows EXCEPT ![2] = "failed"] /\ badge' = "blocked"
          /\ receipt' = None => Blocked'
    BY <1>4, <2>1, FailureBlocks
  <2> QED
    BY <1>6, <1>10, <2>2, <2>3, Stage2Step DEF Ends, Advances, Progress
<1>11. CASE Stage3Chain(a)
  <2> 3 \in Stages
    BY DEF Stages
  <2>1. Reached(rows, 3)
    BY <1>6, <1>11, Stage3ChainStep DEF Progress
  <2>2. rows' = [rows EXCEPT ![3] = "failed"] /\ badge' = "blocked"
          /\ receipt' = None => Blocked'
    BY <1>4, <2>1, FailureBlocks
  <2> QED
    BY <1>6, <1>11, <2>1, <2>2, Stage3ChainStep DEF Ends, Advances, Progress
<1>12. CASE Stage3And4(a)
  <2> DEFINE rows3 == [rows EXCEPT ![3] = "passed"]
  <2> 3 \in Stages /\ 4 \in Stages
    BY DEF Stages
  <2>1. Reached(rows, 3)
    BY <1>6, <1>12, Stage3And4Step DEF Progress
  <2>2. rows3 \in Statuses /\ Reached(rows3, 4)
    BY <1>4, <2>1 DEF Reached, Statuses, Stages
  <2>3. rows' = [rows EXCEPT ![3] = "failed"] /\ badge' = "blocked"
          /\ receipt' = None => Blocked'
    BY <1>4, <2>1, FailureBlocks
  <2> HIDE DEF rows3
  <2>4. rows' = [rows3 EXCEPT ![4] = "failed"] /\ badge' = "blocked"
          /\ receipt' = None => Blocked'
    BY <2>1, <2>2, FailureBlocks
  <2>5. rows' = [rows3 EXCEPT ![4] = "passed"] => Reached(rows', 5)
    BY <2>2 DEF Reached, Statuses, Stages
  <2> QED
    BY <1>6, <1>12, <2>3, <2>4, <2>5, Stage3And4Step
    DEF Ends, Advances, Progress, rows3
<1>13. CASE Stage5(a)
  <2> 5 \in Stages
    BY DEF Stages
  <2>1. Reached(rows, 5)
    BY <1>6, <1>13, Stage5Step DEF Progress
  <2>2. rows' = [rows EXCEPT ![5] = "passed"] => Reached(rows', 6)
    BY <1>4, <2>1 DEF Reached, Statuses, Stages
  <2>3. rows' = [rows EXCEPT ![5] = "failed"] /\ badge' = "blocked"
          /\ receipt' = None => Blocked'
    BY <1>4, <2>1, FailureBlocks
  <2> QED
    BY <1>6, <1>13, <2>2, <2>3, Stage5Step DEF Ends, Advances, Progress
<1>14. CASE AppendReceipt(a)
  <2>1. \A i \in Stages : rows[i] = "passed"
    BY <1>6, <1>14, AppendReceiptStep DEF Progress, Reached, Stages
  <2> QED
    BY <1>6, <1>14, <2>1, AppendReceiptStep DEF Ends, Endorsed, Progress
<1> QED
  BY <1>7, <1>8, <1>9, <1>10, <1>11, <1>12, <1>13, <1>14 DEF Goes

LEMMA NextSerial == TypeOK /\ TypeOK' /\ SerialInvariant /\ [Next]_vars => SerialInvariant'
<1> SUFFICES ASSUME TypeOK, TypeOK', SerialInvariant, [Next]_vars
             PROVE  SerialInvariant'
  OBVIOUS
<1>1. CASE UNCHANGED vars
  BY <1>1 DEF vars, display, SerialInvariant, InFlight, Progress, Reached, Blocked,
     Endorsed
<1>2. CASE RejectPaste
  BY <1>2 DEF RejectPaste, SerialInvariant, InFlight, Progress, Reached
<1>3. CASE Others
  <2>1. audits' = Witnessed /\ UNCHANGED <<display, crowded>>
    BY <1>3 DEF Others, AcceptPresentation, GenerateEudiProof, RotateEmployerKeys,
       LedgerChanges, LabMode, LabRevocation, TrustOverride, LabReset, Changed
  <2>2. AuditsOK /\ chainValid' \in BOOLEAN
    BY TypeParts DEF TypeOK
  <2>3. \A a \in Audits : audits'[a].pc = audits[a].pc
          /\ (audits[a].pc # "idle" => audits'[a].cred = audits[a].cred)
    BY <2>1, <2>2, WitnessedReads, WitnessedIdle
  <2>4. InFlight' = InFlight
    BY <2>3 DEF InFlight
  <2> QED
    BY <2>1, <2>3, <2>4 DEF display, SerialInvariant, InFlight, Progress, Reached,
       Blocked, Endorsed
<1>4. ASSUME NEW a \in Audits, Clicks(a)
      PROVE  SerialInvariant'
  <2>1. OthersOK /\ OthersOK' /\ AuditsOK /\ DisplayOK /\ chainValid' \in BOOLEAN
    BY TypeParts DEF TypeOK, OthersOK
  <2>2. PICK c \in Credentials : Click(a, c)
    BY <1>4, ClicksType
  <2>3. audits'[a].pc = "parsing" /\ \A b \in Audits : b # a => audits'[b] = Witnessed[b]
    <3>1. /\ audits'[a] = [pc |-> "parsing", cred |-> c, ok |-> FALSE, seen |-> {},
                           held |-> Holding'[c]]
          /\ \A b \in Audits : b # a => audits'[b] = Witnessed[b]
      BY <2>1, <2>2, ClickType
    <3> QED
      BY <3>1
  <2>4. CASE InFlight # {}
    BY <2>2, <2>4 DEF Click, SerialInvariant
  <2>5. CASE InFlight = {}
    <3>1. \A b \in Audits : b # a => audits'[b].pc = "idle"
      BY <2>1, <2>3, <2>5, WitnessedIdle DEF InFlight
    <3>2. InFlight' = {a}
      BY <2>3, <3>1 DEF InFlight
    <3>3. view' = "none"
      BY <2>2 DEF Click
    <3> QED
      BY <2>3, <3>2, <3>3 DEF SerialInvariant, Progress
  <2> QED
    BY <2>4, <2>5
<1>5. ASSUME NEW a \in Audits, Goes(a)
      PROVE  SerialInvariant'
  BY <1>5, GoesSerial
<1> QED
  BY <1>1, <1>2, <1>3, <1>4, <1>5, NextGroups

\* The report of an audit that ran alone is consistent, although rows, badge
\* and receipt are those of the audits before it until each is overwritten.
THEOREM SerialReportsConsistent == Spec => []SerialBadge
<1>1. Init => SerialInvariant
  BY DEF Init, IdleAudit, SerialInvariant, InFlight
<1>2. SerialInvariant => SerialBadge
  BY DEF SerialInvariant, SerialBadge, Blocked, Endorsed
<1> QED
  BY <1>1, <1>2, NextSerial, AuditTypeCorrect, PTL DEF Spec

=============================================================================
