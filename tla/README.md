# DGDS: a verification project

DGDS distributes protected digital content. An author publishes a text, a buyer
acquires access to it, and the buyer's device receives a *receipt* (a purchase key
wrapped for the device) and *packages* (the content, watermarked and sealed under the
*file key*, which the receipt's purchase key unwraps). The server is one process: an
HTTP thread pool whose workers run the services over four file stores. This directory
holds TLA+ models of the server, of its storage and of the client library over it, the TLC runs
that check them on small instances and TLAPS proofs for every instance.

## 1. Inventory

| Component | State | Operations | Talks to |
|---|---|---|---|
| `PublicationService` | none | `publish` | identity registry, key store, blob store, metadata registry |
| `DeliveryService`, `access.cpp` | none | `fetch_package` | metadata registry, blob store, key store |
| `PurchaseService` | none | `buy`, `restore_receipt`, `issue_receipt`, `receipt_for`, `purchases_of` | metadata registry, key store |
| `FileIdentityRegistry` | `<hex>.claimed` files | `claim`, `release` | file storage |
| `FileKeyStore` | `master.key`, `<hex>.key` files | `seal`, `open`, `wrap`, `seal_mark`, `verify_mark` | file storage |
| `FileBlobStore` | `<hex>.blob` files | `store`, `load` | file storage |
| `FileMetadataRegistry` | users and name markers, publications, purchases and pair markers, receipts | `add_*`, `find_*`, `has_receipt`, paged lists | file storage |
| `file_storage.cpp` | the file system | `claim_file`, `store_file`, `store_file_if_absent`, `remove_file`, `load_file`, `load_or_create_secret`, `list_files` | operating system |
| `UserService`, `SessionStore` | token -> (user, expiry) under a mutex | `register_user`, `log_in`, `resolve` | metadata registry, clock |
| `RateLimiter` | (operation, key) -> (window start, calls) under a mutex | `accepted`, `prune` | clock |
| `Surface`, `http/` | none | eleven handlers | all services, sessions, limiter |
| `CatalogService`, `AttributionService` | none | lists; `attribute` | metadata registry, key store, watermark |
| watermark, canonical form | none (pure) | `embed_mark`, `read_marks`, `canonical_form` | - |
| `ApiClient`, `HttpTransport` | receipts of one device, one connection | `buy`, `fetch_content`; `post` with two attempts | server, device key, receipt store |
| `tls.cpp` | certificate and key files, lock file | `load_or_create_certificate`, `certificate_fingerprint`, `key_pin` | file system |
| crypto, envelopes, codecs | none | - | OpenSSL |

The services keep no state and take no lock across a request. Only single file
operations are atomic: exclusive creation, `rename`, `link`, `unlink`. Everything hard
in this system follows from this:

- **Interleaving.** Requests of several workers interleave between any two file
  operations: look-up then create (file keys, master key, receipts), marker then record
  (purchases, users), claim then everything else (publications).
- **Failure.** Any file operation may fail. Error paths undo the claim or the marker,
  and the undoing may fail too.
- **Crash and restart.** The process may die between two file operations. Start-up
  recovers nothing: `main` opens the stores and listens.
- **Unreliable network.** The client gives up on an answer after a timeout and sends
  the request a second time.
- **Power loss.** What was not synced may be gone, and what it replaced may be back.
- **Damage.** A leaked copy comes back with its marks cut, shifted, mixed with others.
- **Time.** Sessions expire and rate windows roll, by clocks read outside the locks.

What makes the components correct, and where it is stated:

- publication: a content is published once, and what is published can be delivered
  for ever with the key its receipts wrap (`Publication`);
- purchase: a user buys a publication once, and every receipt speaks of the right
  purchase (`Purchase`);
- clean-up: only a crash or a failed removal leaves a claim or a marker behind
  (both);
- accounts: a name belongs to one user for ever, a user has one session, and a token
  once refused stays refused (`Accounts`);
- client: the receipts a device keeps are the ones the server knows, except where an
  answer was lost, and every call returns (`Client`);
- start-up: the certificate and the key in place fit, and stay, and a server serves the
  pair it has printed (`TlsFiles`);
- storage: every file operation is atomic, all callers agree on a secret, and what a
  returned call has replaced does not come back (`FileStorage`);
- limiter: how much more than its limit a key gets through, and how large the table of
  counters grows, is bounded, and pruning decides nothing (`RateLimiter`);
- lists: a reader that walks the pages misses nothing (`Listing`);
- watermark: a copy is traced as long as enough marks are left, and never to somebody
  else (`Watermark`).

The complete list of hazards, each with its line, is in `PROJECT.json`. A hazard without a
property has a note there: what the code allows (a claim or a synced file lost over a power
loss, a copy that looks like an old one, a pair of the server that cannot be seen, a publish
refused while another creates the master key) is in the models, and the properties are stated
beside it.

## 2. Modules

| Module | What it is |
|---|---|
| `ContentRegistry` | abstract: the life of a content identity (free, taken, published, blocked) |
| `Publication` | `PublicationService`, `DeliveryService`, identity registry, key store, blob store |
| `MCPublication` | instance for TLC |
| `PublicationProofs` | theorems about `Publication` |
| `Entitlements` | abstract: who owns what, since when, under which identifier |
| `Purchase` | `PurchaseService`, access check, purchases, markers and receipts |
| `MCPurchase` | instance for TLC |
| `PurchaseProofs` | theorems about `Purchase`, and about `Client`, whose steps are steps of `Purchase` |
| `Client` | composition: `ApiClient` and `HttpTransport` on every device, over the actions of `Purchase` |
| `MCClient` | instance for TLC |
| `Directory` | abstract: names and the users they are bound to |
| `Accounts` | `UserService`, the user records, `SessionStore`, the authorization of `Surface` |
| `MCAccounts` | instance for TLC |
| `AccountsProofs` | theorems about `Accounts` |
| `TlsFiles` | `load_or_create_certificate` in every server process on a directory, and the reads of `main` after it |
| `MCTlsFiles` | instance for TLC |
| `TlsFilesProofs` | theorems about `TlsFiles` |
| `AtomicFile` | abstract: operations on one path that take effect at one instant |
| `FileStorage` | the system calls of `file_storage.cpp` on one path, with power loss |
| `MCFileStorage` | instance for TLC |
| `FileStorageProofs` | theorems about `FileStorage` |
| `RateLimiter` | a request's way through `bind`, `handle` and the limited handlers; `RateLimiter` |
| `MCRateLimiter` | instance for TLC |
| `RateLimiterProofs` | theorems about `RateLimiter` |
| `Listing` | the paged lists of the registry, the catalog and the purchases, and their reader |
| `MCListing` | instance for TLC |
| `ListingProofs` | theorems about `Listing`: first the order of the records, then the steps |
| `Watermark` | canonical form, mark codec, mark channel, `AttributionService` |
| `MCWatermark` | instance for TLC |
| `WatermarkProofs` | theorems about `Watermark`: its recursive functions, the codec, `attribute`, and what changes of a text do to its bits |

### Publication

State: the claims, the master key, the key files, the blobs and the publication
records, and per worker its program counter `pc` (the file operation it does next),
request, keys in hand and answer. One action is one file operation with the code
around it:

| Action | Code |
|---|---|
| `Publish` | `publish` up to the claim: author, domain, identity, signature |
| `Claim` | `FileIdentityRegistry::claim` and the test of its outcome |
| `LoadMaster`, `LoadFileKey` | `load_file_key` |
| `CheckMaster`, `ListKeys`, `CreateMaster` | `create_master_key`, `load_or_create_secret` |
| `StoreFileKey` | the end of `obtain_file_key` |
| `StoreBlob`, `AddPublication` | `FileBlobStore::store`, `add_publication` |
| `Release`, `ReleaseFails` | `release_claim`, when the removal works and when it does not |
| `Fetch`, `OpenBlob` | `fetch_package`, `mark_for_purchase`, `seal_marked` |
| `StepFails` | the error returns of every other call |
| `Restart(lost)` | the process dies and is started again, the master key possibly lost |

Data is reduced to what the properties tell apart: a sealed value is the key it is
sealed under, a key file is a file key and the master key that wraps it, a publication
is the identity it names. Cryptography is perfect and `generate_key` returns fresh
keys; publication identifiers may collide. `leaked` is a history variable: the claims
left behind by a crash or a failed removal.

`fetch_package` seals marked content through `obtain_file_key`, so the model lets a
delivery walk into the creation of a key; that it never gets there is part of the
invariant (`FetchFindsKey`), not of the model.

### Purchase

State: the pair markers, the purchase records, the receipts per (context, device), and
per worker its program counter, request, context, date and answer. A context is a
purchase identifier or, for the author's own access, a publication identifier.

| Action | Code |
|---|---|
| `Buy`, `RestoreReceipt`, `FetchPackage`, `ContextIdentity` | the handlers of `Surface`, for an authorized user |
| `FindPurchase`, `FindOwnReceipt` | `buy` up to the new purchase |
| `AddPair`, `AddRecord` | the two writes of `add_purchase` |
| `ReleasePair`, `ReleasePairFails` | `release_marker` |
| `FindConcurrent` | `buy` after `record_exists` |
| `FindReceipt`, `HasReceipt` | `receipt_for` |
| `IssueReceipt` | `issue_receipt` |
| `Resolve`, `LoadReceipt` | `resolve_access` for its three callers, `find_receipt` of `fetch_package` |
| `StepFails`, `Respond`, `Restart` | error returns, the answer, death of the process |

`AnswersOwner` is about the check when the access is resolved: purchases and publications
are never removed, so nothing can revoke it before the answer is sent.

Publications are constants here: they are immutable, and their creation is the subject
of `Publication`. Purchase identifiers may collide with each other but not with those
of publications (`IdsAssumption`; both are random 64-bit numbers). `Faults` and
`Restarts` switch the failures off for the runs that are about races alone.
`orphans` is the history variable that corresponds to `leaked`.

### Client

`Client` extends `Purchase`: requests no longer arrive from nowhere but from devices,
each running one call of the library at a time. Per device: the stage of the call, the
request, the attempts so far, the worker it waits for (`conn`), the receipt received
and not yet saved, and the `wallet`, its receipt store.

| Action | Code |
|---|---|
| `StartBuy` | `ApiClient::buy` |
| `StartFetch` | `fetch_content` up to the first request; `context_identity`, which changes nothing, is its guard |
| `Send`, `SendFails` | an attempt of `HttpTransport::post`, which reaches the server or not |
| `GiveUp` | no answer: a second attempt on a new connection, or an error |
| `Deliver`, `Save` | the answer; `save_receipt`, after which a restore goes on to the package |
| `Die` | every other error return, and the end of the program |
| `Work`, `Unheard` | a worker's step and an answer nobody waits for any more |
| `ServerRestart` | `Restart` of the server, which breaks every connection |

A request the device has given up on runs on in the server and may replace a receipt
after the device has saved a newer one; this is the hard case. `lost` is a history
variable: the keys issued to a device whose receipt it never came to save.
A wallet left behind by a lost answer is not repaired by `fetch_content`, which restores
a receipt only when the wallet has none, but by the next `buy`.

### Accounts

State: name markers, user records, the table of sessions, the clock, and per worker its
step, request, the user it works for and the time it has read.

| Action | Code |
|---|---|
| `RegisterUser`, `LogIn`, `Authorize` | handlers of `Surface`; `Authorize` is how every other handler begins |
| `ClaimName`, `AddRecord` | the two writes of `add_user` |
| `ReleaseName`, `ReleaseNameFails` | `release_marker` |
| `FindUser` | `find_user_by_name` |
| `ReadClock` | the reading of the steady clock, before the mutex is taken |
| `Issue`, `Resolve` | what `SessionStore::issue` and `resolve` do under the mutex |
| `StepFails`, `Respond`, `Restart`, `Tick` | error returns, the answer, death of the process, time |

Tokens are 256 random bits and do not repeat (`issued`); user identifiers may collide.
`refused` records the issued tokens some authorization has found no session for, and
`orphans` the names a dead or failed registration has left taken.

### TlsFiles

State: the two files, their pending versions (whose names are fixed, so every process
uses the same ones), the holder of `tls.lock`, and per process its step, the file it
writes, the key it has made and what it has read of the pair. A certificate is the key it
is made for; a file that has been opened and not yet written is `Torn`.

| Action | Code |
|---|---|
| `Start` | `main` calls `load_or_create_certificate` |
| `LookCertificate`, `LookKey` | `pair_present`, first without the lock and then with it |
| `LookFails` | a look that ends in an error, which `pair_present` takes for a missing file |
| `Acquire`, `Make` | `acquire_lock`; `make_key`, `make_certificate` |
| `Open`, `Write`, `Rename` | `write_file`, for the certificate and then for the key |
| `ReadFingerprint`, `ReadPin` | `certificate_fingerprint` and `key_pin`, which `main` prints |
| `LoadCertificate`, `LoadKey` | the files the TLS server opens, and its test that they fit |
| `Fail`, `Exit` | an error return of any later call; the end of the process, which frees the lock |

The four reads happen with the lock free, so that another start may be writing between any
two of them. `ServesPair` says that what a serving process has printed and loaded is one
pair nevertheless. `misread` is a history variable: a process that held the lock took
a pair in place for missing. What it then does is in the model, and it does replace the
pair: the properties say that nothing else can. `docs/deployment.md:32` says that the
certificate is reused as long as the files are in place; a look that ends in an error twice,
without the lock and with it, is the exception the code makes. The replacement of the certificate by the operator, who
deletes the files while the server is stopped (`docs/deployment.md:48`), is not
modelled.

### FileStorage

State: what the path holds (`file`), what it may hold after a power loss (`kept`), whether
the entry of its directory has reached the disk (`rooted`), and per worker its pending
file, step, operation and answer. A content is the number of the call that brought it, so
that no two are alike; `Torn` is a file opened and not completely written. `Init` chooses
what the path is for, and with it the operations the program uses on such a path: a
secret, a claim, a marker or record, a content.

| Action | Code |
|---|---|
| `Begin` | the call: `ensure_directory`, the number of the pending file |
| `Look` | `load_or_create_secret` up to the decision |
| `Open`, `Write` | `unique_pending`, `write_all`, `write_and_sync` |
| `Rename`, `Link` | the commit of `store_file`; of `store_file_if_absent` and `create_secret_file` |
| `SyncDirectory` | `sync_directory`, which may fail unnoticed |
| `Load`, `Claim`, `Remove` | `load_file` and `load_secret`, `claim_file`, `remove_file` |
| `Fail`, `Return` | the error returns, the answer |
| `WriteBack`, `Crash`, `PowerLoss` | the system: a new directory reaches the disk, the process dies, the power goes |

The other modules take `store_file`, `claim_file` and the rest as single steps;
`ImplementsAtomicFile` is what allows them to. `AtomicFile` also says what is *not*
promised, and the code makes use of it: `claim_file` and `remove_file` sync nothing,
`sync_directory` reports nothing, and the entry of a directory that `ensure_directory`
has made is never synced, so that until the system writes it back a synced file may go
with it. The program itself is correct under the death of the process; after a power loss
a claim may be gone under a publication record that stays. `before`, `stale` and `handed`
are history variables.

### RateLimiter

State: the limit, the counters, `m_calls_since_prune`, and per worker its step, the key it
is about to enter and the time it has read. `Receive` and `EnterRequest` are `bind`;
`Handle` is every request that ends without a second limit (no such route, a body refused
by a reader of `codec.cpp`, a handler without limit); `Authorize` and `EnterUser` are
`publish` and `fetch_package`. `Accepted` is what the limiter does under its mutex:
prune if due, open a window if the call is not in the one there is, count.

The time is that of a wall clock, read before the mutex is taken: a call may enter with
any time, also one earlier than the window's start, and then opens a new window. The
history variable `late` counts such calls. The promise is therefore weaker than the "calls per
minute" of the documents: even if no call is late, the windows are fixed and not sliding, so
a minute that lies across two of them may let through up to twice the limit; `SpanBound`
says that it is never more, but for two limits with each late call. `exact` are the counters of a limiter that
never prunes.

### Listing

State: publications and purchases, which are only ever added, and one reader: what it asks
for, its offset, the files that were there when the directory was opened, the page, total
and counts under construction, and what it has collected. Reading a directory is not one
instant: a file linked meanwhile may be found or not (`List`, `Count`). Identifiers are
random, so a new record may come before, in or behind the pages already read.
`author_publications` reads all purchases again for every publication of the page;
`purchases` looks up the publication of each purchase. A reader of the library walks on
until it has reached the total; the program's own client shows only the first page.

### Watermark

A code point is the class the code tells apart (letter or digit, other, variation
selector, mark, stray byte), and the widths of version, identifier, code and checksum are
parameters. `CanonicalForm`, `EncodeMark`, `DecodeMark`, `Crc`, `IsLegacyMark`, `EmbedMark`,
`CountOccurrence` and `ReadMarks` are the functions of the same names; `Keep`, `PutBit`,
`Shifted` and `Table` are the loops of `canonical_form`, `embed_mark`, `write_bits` and
`read_marks`, written as recursive functions over the places of the text. The code of a mark,
an HMAC, is a constant function of the context.

`Deliver` marks a copy. What happens to it outside is any sequence of `Lose`, `Gain`,
`Splice` (the text goes on with another context's copy) and `Transplant` (its marks on
another text). `Attribute`, `Unresolved`, `Judge`, `Fail` and `Conclude` are `attribute`,
one mark at a time, with records that cannot be read.

`MarksSurvive` says that no change costs a copy more than one mark, `VerdictExact` what is
answered for a given set of marks, in whatever order they are met, and `CopyTraced` and
`NeverFramed` what both come to for the owner of the copy and for everybody else.

A text of one to less than two marks' length (136 to 271 code points) is delivered marked
and can never be attributed, since two marks are needed: `CopyTraced` starts at `Threshold`
whole marks. Its other exceptions are real, too, as TLC finds when they are left out: a copy
one of whose windows looks like a mark of the old version, and a table of candidates filled by
windows that look like marks.

## 3. Runs

| Run | Checks | Result |
|---|---|---|
| `publication` | `UniqueIdentity`, `Deliverable`, `OneMasterKey`, `ClaimsAccounted`, `PackageUnderFileKey`, `FileKeyKept`, `ImplementsRegistry`, `ClaimSettles` | pass |
| `purchase` | `OnePurchase`, `ReceiptsGenuine`, `AnswersOwner`, `AnswersFiled` | pass |
| `purchase_live` | `MarkersAccounted`, `ImplementsEntitlements`, `RequestsAnswered` | pass |
| `client` | `CTypeOK`, `PackageOpens`, `WalletCurrent`, `CallsReturn` | pass |
| `accounts` | `UniqueName`, `NamesAccounted`, `OneSession`, `RefusedForGood`, `ImplementsDirectory` | pass |
| `tls_files` | `PairMatches`, `ServesPair`, `PairKept` | pass |
| `file_storage` | `NoTornFile`, `SecretAgreement`, `ReturnedStays`, `ImplementsAtomicFile` | pass |
| `rate_limiter` | `SpanBound`, `PruneInvisible`, `CountersBounded` | pass |
| `listing` | `WalkComplete`, `PageExact` | pass |
| `watermark` | `MarksSurvive`, `VerdictExact`, `CopyTraced`, `NeverFramed` | pass |
| `purchase_race` | `ConcurrentBuyServed` | violated |
| `purchase_repeat` | `BuyKeepsReceipt` | violated |

**Bounds.** Two workers: every race in this code is between two requests over one
file, and the invariants relate at most two workers; the proofs cover any number.
`publication`: two contents, one of them too short for a mark (which is delivered as
stored), two publication identifiers, so that publications collide on them, and keys
enough for a master key and every file key to be created.
`purchase`: an author and a buyer, two devices, two identifiers, two dates (a receipt
dated by the wrong request would show) and two receipt keys. `purchase_live`: two
buyers and one identifier, which two different purchases then draw. When the keys run out
no more are issued; by then every receipt has been both issued and replaced.
`client`: one device of the buyer and two workers, so that a late first attempt and a
second one run side by side, `Attempts = 2` as in the code, and three keys: a bought
receipt, one that replaces it unheard, and one more.
`accounts`: two names and two identifiers, so that names race and identifiers collide;
three tokens, so that a session can be replaced twice; a lifetime of one tick and a clock
that stops at two, so that a session expires while a request still holds an earlier time.
`tls_files`: three processes, so that one waits for the lock while another writes and a
third looks without it, or reads a pair another start may replace; three keys, one for each
of three attempts to make a pair.
`file_storage`: two threads and four contents, so that a content can be replaced, removed
and brought again across a power loss.
`rate_limiter`: one address and one user, hence three keys, of which a prune drops some and
keeps others; windows of two ticks on a clock of three readings, so that a call falls into
the window, behind it and before it; limits of none, one and two; four requests, with up to
two calls of the limiter each; pruning from the first counter on, at every second call.
`listing`: three publications, two purchases, two users, pages of one and two, and a limit
that is refused, so that every record can be added before, in and behind the page.
`watermark`: a mark of seven bits; texts of four marks, of two and of less than one; up to
two changes, which spoil two of the four marks; three candidates. The two bits of the code
stand for 64: its values are chosen such that two changes do not turn one mark into another
by accident.
The symmetry sets are used in the runs without liveness only; nothing in the models
tells their elements apart.

**Fairness.** Weak fairness of each worker's steps, as one action: a thread of the
pool that can go on goes on, and no file operation waits for another request. Nothing
is assumed of arrivals, failures or restarts, and no particular outcome of a step is
promised. Under it every claim is settled (`ClaimSettles`) and every request is
answered (`RequestsAnswered`), even behind a marker nobody will remove, because no
error path waits or retries. `client` assumes weak fairness of each device's steps and
nothing of the server: connecting and reading have timeouts and `post` has a bounded
number of attempts, so every call returns (`CallsReturn`) even if the server never
answers.

**The two violations** are disagreements between the code and its documents, found
with nothing failing:

- `ConcurrentBuyServed`: `docs/architecture/04-sequence-buy.puml:62` says that a
  concurrent write of the same purchase makes `buy` read the receipt again and is not
  an error. The marker of the pair is linked before the record; a second `buy` that
  loses on the marker scans the records at once, finds none and answers
  `purchase_not_found`.
- `BuyKeepsReceipt`: `docs/project.md:66` says that a repeated purchase returns the
  receipt issued earlier. Repeated while the first request has recorded the purchase
  and not yet its receipt, `receipt_for` finds no receipt and issues one; both requests
  answer a receipt of their own and only the last one stored opens packages.

**Mutants.** For every property of a passing run a definition named `Mutant` in its
comment stands next to the action it is a faulty version of; with it in place TLC finds
the property violated.

## 4. Proofs

The theorems, almost all of the form `Spec => ...`, hold for every set of workers, users,
contents, identifiers, keys, dates and texts. The assumptions are those on the constants:
`None` is none of the values, `Short` is a set of identities, authors and dates of the
publications have their types, purchases and publications share no identifier, every
device has a user, a lifetime, a number of attempts and the bound on calls are positive;
the clock of the limiter starts no earlier than a window's length after its epoch, the
window and the prune interval are positive; the identifiers of `Listing` are finitely many
numbers and the default page is no larger than the largest; identifiers and codes of
`Watermark` fit their fields, a version has two bits at least, the drafts are valid text, the
threshold and the table of candidates are positive.

`Publication!IInv` has four parts.

- *Types*, and that a request knows its content (`JobKnown`).
- *Claims* (`ClaimInv`). `UniqueIdentity` alone is not inductive: a worker at
  `AddPublication` must know that nobody else has published its content.
  `ClaimExclusive` says so for the owner of the claim, from the claim to the answer,
  and `ClaimKept` says that a published or leaked content stays claimed, so that no
  second owner appears.
- *Keys* (`KeyInv`). `MasterCurrent`: the master key a worker holds is the one in the
  file. `MasterReplaceable`: past the listing there is a master key or nothing is
  wrapped. `KeyAbsent`: `publish` creates a key only where there is none, which
  follows from the exclusive claim. `KeyHeld`: what is stored is sealed under it.
  `FetchFindsKey`: a delivery finds the key and never creates one.
- *Delivery* (`DeliveryInv`): `Deliverable`, `PackageUnderFileKey`.

From it follow the invariants of the run, `FileKeyKept` (only `StoreFileKey`
writes key files, and `KeyAbsent` holds there), and the refinement of
`ContentRegistry`: `Claim` takes, `AddPublication` publishes, `Release` drops,
`ReleaseFails` and `Restart` lose, everything else stutters.

`Purchase!IInv` has *types* with `RequestKnown`; *markers* (`MarkerInv`): a request
between marker and record owns the marker (`MarkerOwned`), alone (`MarkerExclusive`),
an orphaned marker never gets a record (`OrphansKept`), and `MarkersAccounted`, whose
first half, every record is named by the marker of its pair, gives `OnePurchase`;
and *receipts* (`ReceiptInv`): a request works for a context of its own user and with
this context's date (`ContextKnown`), `ReceiptsGenuine`, `AnswersOwner`. `AnswersFiled` follows step by step. Purchases are
never removed or changed, so access once resolved still holds when the answer is sent.
The refinement of `Entitlements` maps the linking of the record to `Acquire`.

`Client!CInv` (in `PurchaseProofs`) is the server's `IInv`, strengthened by what its answers carry
(`AnswerKnown`), together with: a call has its request and an attempt left
(`CallKnown`), a device waits for its own request and no other (`ConnKnown`), and
`WalletCurrent` and `PackageOpens` themselves. The argument for `WalletCurrent`: a step of
a worker changes at most one receipt, that of its request's device, and either this
device waits for it, so that the receipt is on its way, or its key goes to `lost`. The
proof that a client step is a step of `Purchase` or a stutter gives `CSpec => Spec`
(`ServerRefined`), by which all theorems about `Purchase` hold of the composition.

`Accounts!IInv` has *types* with `RequestKnown`; *names* (`NameInv`), which follow the
pattern of the markers of `Purchase`: a registration between marker and record owns the
name alone (`NameOwned`), an orphaned name never gets a user (`OrphansKept`); and
*sessions* (`SessionInv`): a login works for a registered user (`LoginKnown`), a refused
token is no longer in the table (`TokensSpent`), which stays so because `resolve` erases
what it refuses and tokens are not issued twice: hence `RefusedForGood`, for any readings
of the clock.

`TlsFiles!IInv`: whoever makes or writes the pair holds the lock, and the key is missing
(`WriterAlone`); a file about to be renamed is its writer's, and the certificate in place
is the one made for the key being written (`WriterKnown`); a process that looks for the
key has seen a certificate (`LooksKnown`); a process past its look has read
nothing but the pair in place (`ReadsKnown`). Because the key is written last and only while
it is missing, it never stands beside another key's certificate, and nothing replaces the
pair, so that the reads of a start agree.

`FileStorage!IInv`: a worker is at a step of its own operation, has no answer and has
replaced nothing before its effect, and what it is about to rename or link is complete
(`StepKnown`); what is in place is among what may stay (`KeptKnown`). `SecretAgreement`
needs `SecretKnown`: a path used for a secret is used for nothing else, `Link` has its
effect only where there is no file, so a secret that was returned, or is about to be, is
still in place. `ReturnedStays` needs `ReplacedKnown`: a content that takes the path is
struck from everybody's list of replaced ones, and a sync that succeeds leaves only the
file in place to come back. The refinement of `AtomicFile` maps `Rename`, `Link`, `Claim`,
`Remove` and `Load` to `TakeEffect`, a failure, or a secret that was seen and is gone, to
`Refuse`, `SyncDirectory` and `WriteBack` to `Sync`; opening and writing the pending file
stutter.

`RateLimiter!IInv`. `SpanBound` alone says too little about the next call, which may fall
into the counter's window, behind it or before it. `SpanKnown` says how much a span has let
through by where it lies to that window: a span that begins behind the window's beginning
misses the call that began it, one that begins behind its end has only what late calls put
there; a counter that is gone had ended by the latest call, so that a span from there on has
only what late calls put there. Each late call, wherever its time lies, opens at most one window more in
the past and one more after it: hence two limits for each (`Excess`). A span is counted as
the set of its calls, so that one call more is one element more and no sum over times has to
be taken (`SpanFinite`). `CountersBounded` needs the number of calls since the last prune
(`TableKnown`), and `PruneInvisible` is inductive with `CounterKnown`: what a prune drops
has ended, and a call that is not late finds it ended, too.

`Listing!IInv`. The proofs begin with the order of the records: the *rank* of a record in a
set is the number of those before it, ranks are an injection into as many places as there
are records and hence fill them, so that `Sorted` exists, has the record of rank i - 1 at
place i, and a window is the set of records whose rank is in a range (`WindowIs`). The
proofs need no induction over sets or sequences. `PageKnown`: the page
is a window of a set that has everything there was at the request. `WalkKnown` is why
nothing is skipped: in a larger set a rank is no smaller, so a record that was there at the
beginning and comes before the offset now came before it in the set of an earlier page, and
has been collected. `BoughtKnown` and `CountsKnown` bound the counts from both sides, since
every reading of the directory begins with files that are still there.

`Watermark` is made of loops over a text, and the provers cannot use the induction theorems
of the library, which take an operator as a parameter. `WatermarkProofs` therefore works with
sets: a set of numbers that is not empty has a least one (`Least`, from the well-foundedness of
the natural numbers), so a set with 0 and with every successor is complete (`Induction`), and
a function that is to be computed step by step exists (`Recursion`). For each recursive
definition one lemma says that it satisfies its equation (`PickFunction`,
`CanonicalFormFunction`, `ReadBitsFunction`, `TableFunction`, `EmbedMarkFunction`,
`ShiftedFunction`). On these rest:

- *The canonical form.* The loop remembers one code point; `CanonicalFormIsBare` shows that
  this is enough to drop exactly the marks and the selectors that belong to a letter.
- *The codec.* What `write_bits` writes `read_bits` reads, if it fits (`ReadWritten`), and the
  three fields are cut out where they were put (`DecodeEncode`).
- *The table.* After n windows a candidate has been counted once for each window that reads
  as its mark, and a mark that is not in the table found it full of others (`TableRight`);
  hence a mark is returned if it is there often enough, unless the table was full
  (`ReadMarksFacts`).
- *The verdict.* `IInv`: in the loop `matched`, `resolved_any`, `mismatched` and
  `resolution_error` are what the marks looked at so far determine as a set (`Judging`), also
  when a record could not be read (`FoundFits`, `NamedFits`). `VerdictExact` follows without
  any further assumption, and so does `NamedOnEvidence`: the one who is named has a mark on the
  text as often as the threshold asks, and the text is the publication's.
- *Changes.* The bits of a text are read off the list of its significant places, of which
  there is only one (`EnumeratesUnique`). A mark character lost or gained changes at most one
  bit (`RemoveMark`); a code point lost or gained drops or adds one bit, its own or that of
  the code point before it (`RemoveSignificant`). The whole marks of a text are stretches of
  its bits that do not overlap; a bit that changes, goes or comes is in at most one of them, and the
  others keep their bits, shifted at most by one place (`HoldsOneOff`, `HoldsDropped`,
  `HoldsInserted`). `embed_mark` puts one stretch after another (`EmbedHolds`). So
  `MarksHeld`, at least as many stretches as whole marks less the changes, is inductive, and
  as `read_marks` looks at every place, `MarksSurvive` follows.

`CopyTraced` and `NeverFramed` do not hold for every value of the constants: that no change
turns the mark of one context into that of another is what the 64 bits of an HMAC are for. The
theorems name this hypothesis, `Unforged`: a context that had no part in the leaked copy does
not have its mark, code included, on its own text as often as the threshold asks. It is not
needed for `MarksSurvive`, `VerdictExact` and `NamedOnEvidence`. In the run both properties
are checked without it: the codes chosen there make every reachable state `Unforged`. The proof has corrected the model in one place: two of the guards by which
`ReadMarks` chooses its error overlapped, and are now tested in the order of the code.

The type invariants are theorems; a run checks only that of `Client`, which contains that of
`Purchase`. The inductive invariants also hold in TLC on the instances above, `MarksHeld` aside, which
speaks of sets of stretches too many to enumerate; there `MarksSurvive` stands for it.

Only model-checked:

- `ClaimSettles`, `RequestsAnswered` and `CallsReturn`: liveness is out of the prover's reach.
- The two violated properties, of course.

## 5. Not modelled, and the plan

- Cryptography and envelopes (OpenSSL) and the conversions of identifiers and records: the
  modules take a sealed value for the key it is sealed under and a code for a function of
  what it covers.
- Of the JSON codecs of server and client only that a reader may refuse a body and the
  limits of a page; the wording and layout of requests, answers and errors change no state.
- The TLS handshake and the pinning of the server's key (a callback of the HTTP library), the
  key chain of the platform (calls of its API), the command line and output of the programs,
  the in-process transport of the tests and the load generator.
- Power loss across several paths: `FileStorage` models it for one; that a claim can be lost
  under a record that stays is listed as a hazard and follows from `AtomicFile`.
- `file_exists`, which nothing calls.

Next: what the JSON codecs of server and client refuse, as a pair of functions of which the
one reads what the other writes, and a power loss over the several paths of one publication.
