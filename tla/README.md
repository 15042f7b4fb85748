# VeriCred in TLA+

A verification development for the VeriCred credential gateway (`src/src/`) and
for the browser demonstration beside it (`src/app.js`): TLA+ modules of their
stateful components, TLC runs that check them on small instances, and theorems
about them whose proofs TLAPS checks. File names below are relative to
`src/src/`, except `app.js`.

## The system

VeriCred is one Node process (Express 4) that issues SD-JWT credentials to
wallets and publishes their revocation status. It keeps some of its state in
memory, where it ends with the process, and some in JSON files, where it stays.
The browser demonstration is a page without a server of its own, which issues,
mines and verifies certificates on a ledger in `localStorage`.

| Component | State | Operations | Interacts with |
|---|---|---|---|
| Offers (`oid4vci/offer.ts`) | none of its own | `POST /offer` | asks a connector for the holder's data, then creates a consent record or a code |
| Consent gate (`oid4vci/consent.ts`) | `consentRecords` (memory) | `GET /consent/:id/claims`, `POST /consent/:id/decide`, sweep timer | an approval calls `issuePreAuthCode` and `buildCredentialOffer` of the token module |
| Codes and tokens (`oid4vci/token.ts`) | `preAuthCodes`, `accessTokens` (memory) | `POST /token`, `lookupAccessToken`, `rotateNonce`, sweep timer | tokens carry the claims snapshot to issuance |
| Issuance (`oid4vci/issuer.ts`, `proof.ts`) | requests in flight | `POST /credentials`: two real waits, for the proof and for the signature | reads a token entry before the first wait, assigns a status index between the two, rotates the nonce after the second |
| Status list (`revocation/statuslist.ts`, `router.ts`) | `statuslist.json` (file), `cachedStatusListJWT` (memory) | assign, revoke, `GET /status/:listId` | issuance assigns; the console revokes; verifiers fetch |
| Keys (`keys/manager.ts`, `did/publisher.ts`) | `issuer-key.json`, `key-history.json` (files), the cached pair (memory) | start-up, rotation, `did.json` | everything that signs uses the cached pair |
| Configuration (`config/loader.ts`, `admin/router.ts`, `server.ts`) | `vericred.config.json` (file) | start-up, setup, mapping, the operator's editor | read by nearly every handler; its unreadability is an exception inside whatever handler reads it |
| Wallet presentations (`oid4vp/router.ts`) | `oid4vp_sessions.json` (file), a cache of it (memory) | initiate, request object, response, poll | verifies with the published keys |
| Admin authentication (`middleware/auth.ts`) | `sessions`, `csrfTokens` (memory) | login, logout, handshake, the two guards | guards every writer of the configuration, rotation and revocation |
| Browser demonstration (`app.js`) | the chain (memory and `localStorage`), the mempool, the banner, the verifier's report | issue, mine, tamper, restore, reset, reload, reseed test; paste and verify | a worker mines; the tabs share one store |
| Connectors, templates, metadata, disclosures, masking, interop log, secrets | little or none | lookups, claim building, encoding | called by the above |

What is hard about it: handlers interleave at every real `await`; a value read
before one is used after it; time passes through seven lifetimes and two sweep
timers; the configuration changes under a decision that takes up to a day; the
process may stop between any two steps (an exception in an asynchronous handler
is an unhandled rejection, which ends a Node process under Express 4), losing
the memory and keeping the files, and it may stop in the middle of a write,
because all files but the presentations' are rewritten in place. In the browser
no button is disabled while its handler waits, so that handlers of one kind
overlap as well.

### What makes each component correct

- **Offers and consent gate.** What is issued is what the holder reviewed,
  although the configuration, the mappings and the date change in between; an
  offer gets one verdict, and only an approval lets a code out; a decline
  discards the holder's data; the cap on pending records neither overflows nor
  throws out somebody else's record.
- **Codes and tokens.** A code is exchanged once; the data an offer carries from
  record to code to token leaves every store within the sum of the lifetimes
  and one sweep period; a nonce is spent by the credential it was used for.
- **Issuance.** A request in flight is answered; what it copied before a wait is
  still what the holder approved after it; every credential owns its slot of
  the status list, also after a crash or when the list fills up.
- **Status list.** A fetch misses no credential whose revocation was recorded
  before it began and reports no other, whatever signatures were begun earlier
  and settle later; what the console was told is recorded, and the two records
  of a revocation agree; slots are not reused; a torn file is never taken for an
  empty list.
- **Keys.** A key that signed anything stays in `did.json`, across rotations,
  writes that fail and crashes inside them; a torn key file is not taken for a
  missing one.
- **Configuration.** No sequence of accepted saves and restarts leaves a
  configuration that start-up refuses; a torn file is not replaced by a default.
- **Wallet presentations.** A session, and the verdict told last to a wallet on it,
  can be looked up until the session expires; what is shown as verified was
  accepted for that session; an expired session does not come back.
- **Admin authentication.** A CSRF token lets one POST through, for its own
  session, within its hour; a session ends at logout, after eight hours or with
  the process.
- **Browser ledger.** A certificate that was queued ends in exactly one saved
  block; what is persisted passes its own audit; the banner agrees with the
  chain; the mining overlay goes away.
- **Browser verifier.** The badge "verified" is earned by conditions that held; the
  report is consistent.
- **Templates, connectors, disclosures, masking.** Pure functions: the age and its
  thresholds agree with the calendar; the CSV parser agrees with the quoting
  rules its tests state; a disclosure hashes to its entry in `_sd`.

## The modules

| Module | What it is |
|---|---|
| `ConsentContract` | Abstract: what the consent gate promises the holder, an offer asked once, answered once, granted at most once |
| `Grants` | Offers, consent gate, codes and tokens: `offer.ts`, `consent.ts`, `token.ts` |
| `Issuance` | `POST /credentials` with its waits, EXTENDS `Grants`: `issuer.ts`, `proof.ts` and the counter of `statuslist.ts` |
| `RevocationRegistry` | Abstract: what a verifier may rely on when it fetches the list, in terms of credentials |
| `StatusList` | `revocation/statuslist.ts` and `router.ts` |
| `KeyManager` | `keys/manager.ts` and `did/publisher.ts` |
| `Oid4vpSessions` | `oid4vp/router.ts` |
| `AdminAuth` | `middleware/auth.ts` and the login, logout and handshake handlers of `admin/router.ts` |
| `AdminConsole` | The writers of the configuration in `admin/router.ts`, behind the guards (EXTENDS `AdminAuth`), and the start-up of `server.ts`, `config/loader.ts` and `connectors/index.ts` |
| `BrowserLedger` | `app.js`: chain, mempool, mining, lab modes, reseed test and the audit of the chain |
| `CredentialAudit` | `app.js`: the verifier's five stages and the tabs that change what they read |
| `MCGrants`, `MCIssuance`, `MCStatusList`, `MCKeyManager`, `MCOid4vpSessions`, `MCAdminConsole`, `MCBrowserLedger`, `MCCredentialAudit` | Instances for TLC: templates, claim sets, deployments, symmetry |
| `GrantsProofs`, `IssuanceProofs`, `StatusListProofs`, `KeyManagerProofs`, `Oid4vpSessionsProofs`, `AdminConsoleProofs`, `BrowserLedgerProofs`, `CredentialAuditProofs` | Theorems and proofs |

Operators marked `Mutant` in the modules are small, plausible mistakes in the
code (a dropped guard, an off-by-one, a forgotten store). No action uses them.
Putting one in the place of its neighbour must make the property it is paired
with in `PROJECT.json` fail, which shows that the property can see such a
mistake.

### Grants

The three JavaScript Maps are functions from identifiers to entries. Every
handler of these files runs without an `await` from its first read of a Map to
its last write, so a handler is one action. Two things need saying about that.

- `POST /offer` awaits the data source before it touches a Map; the action
  starts at the answer. It also awaits the QR code after the code was stored;
  the wallet could not use the code before the response, but nothing else
  depends on that wait, so the code counts as sent when it is issued.
- `decideConsent` issues the code, then builds the offer (which reads the
  configuration and may throw), then writes the tombstone. `Approve` has both
  outcomes: all three steps, or the code alone (`sent = FALSE`) with the record
  still PENDING and a 500 answered.

`loadConfig` reads the file anew at every call. `ChangeConfig` swaps it for
another one or for `BadConfig` (unreadable) at any time. In an asynchronous
handler without `try`, as `POST /offer`, an unreadable file is an unhandled
rejection, which ends the process (`OfferRejects`); in the synchronous one it is
a 500. `Crash` may happen between any two handlers and empties the Maps;
`Start` refuses an unreadable file, like `server.ts`.

Time is a clock of coarse units. `Tick` does not run past a timer that is due
while the process is up: a `setInterval` callback of an idle event loop fires
within far less than a unit. All five lifetimes and the sweep period are
constants. Identifiers are fresh: consent ids and codes are random values of
128 bits, tokens of 256. What a template's `buildClaims` returns is the constant
operator `BuildClaims` of the template, the configuration and the date; `Null`
means that it throws.

History variables (`asked`, `shown`, `answer`, `minted`, `redeemed`) record what
holders and wallets were told; no stored value of the program depends on them.

### Issuance

A request is a slot with a program counter: `StartCredential` copies token entry
and configuration and waits for the proof; `PrepareCredential` builds the
claims, assigns the index, saves the file and waits for the signature;
`DeliverCredential` rotates the nonce and answers. `RefuseCredential`, `ListFull`
and `CredentialRejects` are the other ends. `getIssuerKeyPair` returns a cached
pair once the server listens, and the few microtask turns of an `await` on a
settled promise let no other handler in, so it is no step. A demo-mode request
without a proof has no first wait in the code; letting it wait only adds
behaviours. `Next` composes these with the steps of `Grants`, and every step
that ends the process also ends the requests in flight. The file keeps what was
saved. `AssignsSlots` reads this module's view of that file, slots and the
credentials in them, as a `StatusList` whose entries nobody revokes: the two
modules must agree on the handler they share.

### StatusList

`statuslist.json` is its three fields and whether it parses. `writeFileSync`
truncates before it writes. `CrashWhileSaving` is the process stopping inside
it, also because the write of a new entry failed, which rejects the asynchronous
`POST /credentials`. `RevokeFails` is the failing write of a revocation: the
handler is synchronous, so that it throws, Express answers 500, and the process
goes on with a torn file, the cache as it was (it is cleared after the save) and
the signatures under way. From then on `loadStore` throws. `RevokeUntold` is a
stop between the save and the answer. The file of an empty list is taken to be
there from the start; that its first creation may fail is not modelled. The cache is the set of indices that
was signed, with its time: `revokedIndicesHash` is a hash of that set. A fetch
that misses the cache is two steps, `StartBuild` and `FinishBuild`, with
everything else in between. The `await` of the key pair between the load of the
file and the look at the cache (`statuslist.ts:165`) is of a pair that is cached
once the server listens: a turn of the microtask queue, in which no handler that
writes the file can run, so that it is no step. The list and the handlers speak of slots; the
registry it implements speaks of credentials. `OwnersOf` reads the one as the
other through the entries of the file as they are now, past answers included,
so that a slot given to another credential would change what verifiers were
told.

### KeyManager

A rotation is three steps, split where the code awaits (`generateKeyPair`, then
`importJWK`). The archive is written before the first wait, the key file
before the second, the cached pair after it. A crash may fall between any two.
`torn` is the set of key files that do not parse: a write that fails
(`ArchiveFails`, `SaveFails`, `StartRejects`) leaves its file as it was or torn.
What the file said is kept in its variable as what was lost. A torn file makes
`getAllPublicKeys` throw, which ends the process (`DidRejects`), refuses a
rotation (500) and, where it is the current pair's, refuses the start; the
start does not read the history. A handler that signs takes the cached pair
before its waits (`issuer.ts:84`, `statuslist.ts:165`): `Capture` adds it to
`captured`, and `Sign` signs with a captured pair, which a rotation may have
replaced meanwhile.

### Oid4vpSessions

Each instance has its own cache; the file is shared. Every `get` loads the file
first; `set` changes the cache, drops expired sessions and writes the whole
cache over the file. A failing write is logged and forgotten, and the handler
still answers success: `SetSession` then changes the cache only, and the history
variable `unsaved` remembers the session. A response is two steps: it keeps the
session it looked up, waits for the verification, and stores what it kept.
`accepted` is the last verdict told on a session, `verdicts` are all of them:
several wallets may answer one session, and the last acceptance counts. All
instances are down initially; which of them run at a time is left open.
Renaming a temporary file makes the write atomic, so there is no torn file here.
Session ids are taken to be fresh; the code's (`sess-` and the first eight hex
digits of a UUID) are 32 bits, and a collision is not modelled.

### AdminAuth and AdminConsole

`sessions` and `csrfTokens` are the two Maps of `middleware/auth.ts`. A request
may carry any cookie and any token ever handed out, also those of another
session, of a session that logged out and of an earlier run of the process.
`PassCookie` is `requireAdmin`, which prunes both Maps, followed by `requireCsrf`,
which consumes the token; both are synchronous, and so are the handlers after
them, so that an admitted POST and what it writes are one step. The comparisons
differ in the code and in the model: a session is good while `expiry > now`, a
token while `expiry >= now`. `PruneOnly` stands for every request that is refused
or only reads. The API key (`PassBearer`) bypasses both guards, and can hand out
a token for any cookie.

The configuration is abstracted to what start-up tests of it: whether the
issuer is named, its host, the credential type, the mapped fields, whether the
template's options and the data source are valid. `loadConfig` writes the default
to a missing file and lets `ISSUER_URL` override the address; `Setup` and
`SaveMapping` save what it returned with the request's fields, so that an
override in the environment is saved as well. `writeFileSync` may fail or be
interrupted in every writer, and leaves the file torn or as it was (`SaveFails`,
`StartTearsDefault`). `Deploy` is the operator's editor.

### BrowserLedger

A click on the mine button is a slot: `StartMining` is the handler up to its
first `await`, with the latest block, the mempool's content and the choice of a
worker or the main thread captured; `FinishMining` is `handleMiningSuccess` up to
`auditAndSyncLedgerUI`; `FinishAudit` what follows it. `WorkerError` and
`FallbackStops` are the two ends without a block. Blocks are records of a hash
(a number drawn once), the predecessor's hash, transactions and whether the
content still matches the hash. `isChainValid` awaits a digest per block, so its
verdict is any that held while it ran: `audits` collects them for each handler
that awaits one. `Reload` drops everything under way.

The reseed test of the QA tab is five steps split where it awaits; it saves a
string that does not parse over the chain (`Garbage`) and puts the copy back
several awaits and assertions later. `store.js`, `blockchain.js` and
`miner.worker.js`, which the page loads, are not in the repository: that
`store.initialize` quarantines what it cannot parse and seeds a new chain is what
the assertions of that test say (`app.js:2455-2490`).

History variables record the excuses a property needs and nothing else: `raced`
(mining overlapped mining or a replacement of the chain), `forsaken` (a reset,
or a test that did not run to its end), `sealedOver` (mining over a chain
tampered with), `overlapped` (a change of the chain's validity met an audit, or
was not audited), `crashed` (a worker died) and `exposed` (queued while something
was mined). Each is a case in which the code does go wrong, and which the
properties leave out: what they show is that nothing else does.

### CredentialAudit

A click on "Verify" is a slot that goes through the awaits of the handler and of
`execute5StageTrustAudit`: the parse, the presentation check of stage 1, the
signature of stage 2, the chain and the anchor of stage 3, the digests of the
receipt. Each stage captures its facts where the code reads them, before or
after its await. The credential, the rows, the badge and the receipt are
variables that overlapping audits share, as they share the page. A stage that
fails may show its row as passed first, as stage 1 does when the verifier
answers that the presentation is not valid (`app.js:1254-1260`): `TerminatePipeline`
takes the rows shown by then. `Others` are
the changes by the other tabs and the lab modes; each is witnessed by the audits
under way (`held`), which is history and compared only with the badge.

## The runs

| Run | Configuration | What it asks | Distinct states |
|---|---|---|---|
| `grants` | one consent offer, two codes and tokens, two configurations, clock to 7 | token against review; codes against verdicts; codes redeemed once; retention; finality of the verdict | 963,948 |
| `grants_capacity` | two consent offers, a cap of one, clock to 2 | the cap, and who may be evicted; refinement of `ConsentContract` | 868,512 |
| `grants_decline` | as `grants` | *violated*: a decline discards the holder's data | |
| `issuance` | two requests, one token, two slots, lifetimes of 0, demo mode | types; delivered credentials against review; ownership of slots; rotation of spent nonces; refinement of `Grants`; every accepted request answered | 268,744 |
| `statuslist` | three credentials, two slots, two fetches, crashes in writes, failing saves | types; acknowledged revocations and the two records; refinement of `RevocationRegistry`; permanence of slots; torn files; every fetch answered | 70,817 |
| `keys` | four keys, one rotation at a time, failing writes | keys in use stay published; none withdrawn, torn files not overwritten; cache and file agree | 16,944 |
| `keys_overlapping` | two rotations at a time | *violated*: keys in use stay published | |
| `presentations` | one instance, two sessions, three responses, failing writes | types; sessions and their last verdicts survive; what is verified was accepted; expired ones stay gone | 119,478 |
| `presentations_instances` | two instances | *violated*: sessions survive | |
| `admin` | two sessions, two tokens, two templates, three deployments | types; tokens used once; POSTs authorised; saved configurations start; torn ones are not replaced | 315,464 |
| `browser` | two transactions, two mining clicks, one other handler, the reseed test | types; certificates kept; saved chain valid; banner truthful; mining ends | 242,583 |
| `audit` | two audits, two credentials with different keys and anchors, one change | types; badges earned; report of an audit that ran alone consistent | 625,178 |

### Bounds, and why they are enough

- *Identifiers.* Two of what can compete (codes, tokens, requests, fetches,
  sessions, responses, mining clicks, audits), one or two consent offers. The
  properties compare two identifiers at most. `grants` has one consent offer and
  two codes because a repeated approval is what could send two codes;
  `grants_capacity` has two offers because it takes two to compete for a cap of
  one. `presentations` has three responses for two sessions: two that are
  accepted on one session with different claims, and one that is rejected after
  them.
- *Time.* The clock of `grants` runs to 7, which is past
  `CONSENT_TTL + CODE_TTL + TOKEN_TTL + SWEEP_PERIOD = 6`, so that the last copy
  of an offer's data has time to be late. The other clocks run past every
  lifetime they have at least once (`admin`: a session of 2, a token of 1, a clock
  to 2; `issuance`: lifetimes of 0, a clock to 1). `MaxTime` only stops the clock;
  other actions stay enabled.
- *Claims* depend on the configuration (two) and the date (before or after
  `DateLine`), so that building them again can differ from the snapshot in both
  ways. The second configuration lacks the mapping of the direct template, so
  that building them can fail.
- *Counters.* `MaxRotations` bounds the nonces of a token, `MaxHistory` the archive
  of keys, `MaxId` the hashes of the browser's blocks (a seed and two more),
  `MaxChanges` the changes by other tabs while audits run; one change suffices
  to make a captured fact stale. (With two the run takes far more than minutes;
  that conditions need not hold at one moment is `BadgesAreEarned`'s word, for any
  number.) `LIST_SIZE` is the code's own bound (131,072)
  made small enough to be reached.
- *Symmetry* is declared for identifiers, never in a run with a liveness property.
- *Deadlock* is checked everywhere but in `browser`, where everything may be mined
  and no hash be left.

### Fairness

Three runs need it. `Issuance!FairSpec` and `StatusList!FairSpec` ask for weak
fairness of the steps that follow a WebCrypto promise (`SettleProof`,
`DeliverCredential`, `FinishBuild`): the thread pool settles every promise it was
given and the event loop runs the continuation. None of them can be disabled by
another handler except by the end of the process. `BrowserLedger!FairSpec` asks
that mining under way ends (a worker or the main thread finds a hash, reports an
error or stops: the search counts through the nonces and the difficulty is
small) and that digests settle. Nothing is asked of clients, administrators,
timers, the clock, of a click or of a restart.

## What is proved

All theorems hold for every value of the constants that satisfies the named
assumptions (`TypesAssumption`, `LifetimesAssumption`, `IssuanceAssumption`,
`StatusListAssumption`, `NullIsNoSet`, `KeyManagerAssumption`,
`SessionsAssumption`, `AdminAuthAssumption`, `AdminConsoleAssumption`,
`BrowserLedgerAssumption`, `CredentialAuditAssumption`): any number of offers,
codes, tokens, requests, fetches, sessions, clicks and blocks, any lifetimes,
any list size.

- **Grants.** `GrantsTypeCorrect` first. `GrantsInvariant` is the inductive
  invariant. None of the properties is inductive alone: a token's claims equal
  those its holder was shown because its code carried them (`CodeMatchesReview`),
  which holds because the code was made from a pending record, whose claims are
  the only ones its page can have shown while there was no answer
  (`RecordsAwaitVerdict`), which in turn needs that an undrawn consent id was
  neither shown nor answered (`UnaskedUntouched`). `TokensMatchReview`,
  `CodesFollowVerdict`, `CodesRedeemedOnce` and `VerdictsAreFinal` follow.
  `CapNeverEvicts` has two halves: the cap holds, for every cap, by an argument on
  cardinalities from the library's theorems on finite sets (`CapHolds`), and a
  record leaves its store only by its own verdict, a sweep or a prune after its
  expiry, or a restart.
- **Retention.** `RetentionIsBounded` is a chain of deadlines: a running timer is
  never overdue nor more than a period away, so that each entry is swept at
  most one period after it expires, and each entry expires at most its own
  lifetime after the one it was made from.
- **Contract.** `GrantsKeepContract`: every step of `Grants`, seen through the
  mapping of stores to statuses, is a step of `ConsentContract` or none.
- **Issuance.** A step of issuance does to the grants what one of theirs does, or
  ends the process because the list is full (`GrantEffect`); the lemmas about
  the grants are stated for both. `CredentialsMatchReview` carries the invariant
  of the grants to requests in flight and to delivered credentials;
  `CredentialsOwnSlots` needs that a request that signs already has its slot in
  the file; `SpentNoncesRotated` that a request in flight trails the nonce of its
  token (`NoncesCopied`), as nonces only grow while a token lives.
  `IssuanceKeepsContract`, `IssuanceBoundsRetention` and `IssuanceKeepsOffers` say
  that what was proved of the grants alone holds with requests in flight.
  `IssuanceAssignsSlots` is the refinement of the list's writers. One theorem
  takes a hypothesis: `IssuanceImplementsGrants`, the refinement by projection,
  assumes `Outages` (the process may stop at any time), as without it a full
  list would be a stop that `Grants` does not have.
- **Status list.** `RevocationsAlwaysAgree`, `SlotsNeverReused`, `TornFilesFailClosed`,
  and the refinement `ListsKeepRegistry`. Its invariant (`BuildsCurrent`) says
  that what is being signed for a fetch lies between what was recorded when
  the fetch began and what is recorded now. `TornFilesFailClosed` goes
  through the steps that a torn file leaves possible, none of which writes or
  begins a signature (`TornStays`). Slots turn into credentials by
  `OwnersStay`: a slot that was given out keeps its owner, so that a step
  changes what the registry says only where it changes the slots
  (`RegistryReads`).
  `BitsMeanTheirCredentials` closes the chain from a
  delivered credential to a verifier: the index signed into it holds its id
  (`CredentialsOwnSlots`, of `Issuance`), the bit at that index means that id and
  no other, and a fetch misses no revocation recorded before it began
  (`ListsKeepRegistry`).
- **Keys.** Types for any number of overlapping rotations; `SerialRotationsVerifiable`,
  `SerialRotationsKeepKeys` and `SerialRotationsCache` for behaviours in which no
  two rotations are past their first step at once (`[]OneAtATime`, an explicit
  hypothesis on the behaviour; any number may be asked for), because with two
  the first is false. The invariant speaks of the files as they last parsed
  (`SignedPublished`): a torn file is read by nobody, and replaced by nobody,
  because a rotation that generates has found both files readable and, being
  alone, no other can have torn the key file since (`RotationsInOrder`).
- **Presentations.** `SessionsTypeCorrect`, `ExpiredNeverReturns` and
  `VerdictsAreEarned` for any number of instances at once and failing writes.
  `OneInstanceKeepsSessions` for any number of which no two are up at once
  (`[]OneInstanceAtATime`, again an explicit hypothesis: a restart or a
  replacement by another instance, which `presentations_instances` shows to be
  needed), from the agreement of the cache of the one that is up with the file
  (`CacheAgrees`). The run `presentations` has one instance; that the other
  properties hold with several is the theorems' word.
- **Console.** `AuthInvariant` ties each Map to the history of what was handed out:
  a session in the Map expires a lifetime after its own login, a token a
  lifetime after it was handed to the session it names, and an accepted token
  is no longer in the Map and was handed out, so that it is never drawn again.
  `TokensSpentOnce` and `PostsAreAuthorised` follow. `FileInvariant` says that once
  validated, a readable file names a registered template with its mappings
  (`FileInOrder`); it is kept by `Setup` because setup does not touch them, by
  `SaveMapping` because it validates them, and by the default because
  `DEFAULT_CONFIG` maps what its own template requires. `SavedConfigsStart` and
  `TornConfigsFailClosed` are about the file alone.
- **Browser ledger.** `LedgerTypeCorrect` needs that hashes never run out for blocks
  under way (`RoomKept`, an argument on cardinalities) and that the reseed
  test's copy parses (`BackupParses`). `SavedChainsAreValid` rests on
  `MiningAlone`: until something raced, at most one block is under way, beside no
  test, and it links to the last block in memory. `BannerTellsTruth` rests on
  `AuditsCurrent`: until a change of the chain's validity meets an audit, those
  under way can only report what holds now. `CertificatesAreKept` rests on both the first and `Keeping`: the ledger is the
  saved chain, or the test's copy of it while the saved one is spoilt; the chain
  in memory records the same transactions, whatever was tampered with; the
  block under way takes what is pending; and no block holds what was never
  queued (`BlocksQueued`).
- **Verifier.** `BadgesAreEarned` carries, for each place an audit can wait, what it
  has earned so far (`EarnedInvariant`); `SerialReportsConsistent` carries the rows
  of the audit under way, and the outcome between audits (`SerialInvariant`).

Model-checked only: `RequestsAnswered`, `FetchesAnswered` and `MiningEnds`, because
liveness under fairness is out of the prover's reach. There is no recursive
operator and no induction over data in the modules.

## Findings

Each of the first three is a run that TLC ends with a counterexample, against a
line of the repository that says otherwise; `PROJECT.json` quotes both.

1. `grants_decline`. An approval that fails after it issued a code leaves that
   code, with the holder's data, in `preAuthCodes`; a decline that follows does
   not remove it, although the comment at `consent.ts:212-213` says that a
   decline discards the data now. The retention bound still holds.
2. `keys_overlapping`. Two rotations that overlap lose the key one of them saved
   first, against `src/walkthrough.md:194-195`.
3. `presentations_instances`. Look-ups refresh from the file "to handle
   multi-instance setups" (`oid4vp/router.ts:114`), but a store writes the
   instance's own cache without loading first and drops what others stored.

Three more are visible in the models, where the properties are stated around
them.

- "Single-use" nonces (`token.ts:125`, `issuer.ts:211`) hold only for requests that
  do not overlap: the nonce is copied before two waits (`issuer.ts:82`) and
  rotated after them, so that two requests verified against one nonce both
  deliver. What holds is `SpentNonceIsRotated`: no request that begins after the
  first delivery can be verified against that nonce.
- A full status list is an exception in an asynchronous handler
  (`statuslist.ts:77`) and ends the process, although `src/task.md:74` reports
  robust handling. `RequestsAnswered` counts a request of a process that ended
  as gone.
- The alert at `app.js:717-721` says that mining falls back to the main thread
  after a worker error; nothing goes on and the overlay stays. `MiningEnds` has
  that case as its exception.

`SavedConfigStarts` is about files that were in order. A start before setup
validates nothing, so that setup on a file with an unfit template is saved and
refused by the next start-up; a mapping may choose a template that the saved
options do not fit; and the operator may write a data source that start-up
refuses. All three are in the model, and outside the property's antecedent.

The comment at `admin/router.ts:222` calls the save of the configuration atomic;
it is a write in place. `TornConfigFailsClosed` shows what holds all the same.

## Not modelled

- Encodings and formats: SD-JWT disclosures, base64, JWTs, the bit string of the
  status list, QR codes, metadata, the text of errors, cookies and headers.
- Cryptography: a proof or a presentation is valid or it is not, and a signature
  is made by the pair its handler took.
- Data sources: they are asked, and answer, before the modelled part begins; of
  the connectors only whether start-up accepts them is modelled. The CSV parser
  and the arithmetic of ages are pure functions.
- The password file of holders, rate limits, static pages, secrets, path
  containment, the interop log (a diagnostic ring nothing reads) and the console
  and holder pages.
- Of the browser demonstration: the gatekeeper's and the issuing form (they enter
  as the transaction they queue and as a cached presentation), the wallet tab,
  the other tests of the QA tab, rendering, and the forms that call the gateway.
- Two instances writing one temporary file at the same moment, a changed
  encryption key.
- Two gateway processes on one data directory other than for presentations: the
  deployment files start one.

Two hazards in `PROJECT.json` have no property, each with its reason: the several
calls of `new Date()` in one age, and, in the demonstration, what the issuing
form reads twice. How soon a changed issuer address must show in the cached list
is left open as well. Where the code goes wrong and a property leaves that case
out (most of the demonstration's hazards, nonces, start-up after setup), the note
of the hazard names the antecedent.

## Plan

Done, in this order: the inventory above; `Grants` with its contract and proofs,
because everything else hangs on what a token stands for; `Issuance` on top of
it; `StatusList` with its registry; `KeyManager`, then with torn files;
`Oid4vpSessions`; `AdminAuth` and `AdminConsole`; `BrowserLedger` and
`CredentialAudit`; the proofs of every safety property that a run checks.

What could follow:

1. One module for `Issuance`, `StatusList` and `KeyManager` on the files they share.
   Today `AssignsSlots` ties the first two together at the slots, and
   `IssuedStayVerifiable` covers the signature of a cached list.
2. The issuing form of the demonstration, with what it reads again after each
   await.
3. The arithmetic of ages against a calendar, over a table of dates.
4. Of the liveness properties, the safety part that a proof can reach: whatever a
   request waits for, one of the steps that end the wait is possible.
