-------------------------------- MODULE Purchase --------------------------------
(***************************************************************************)
(* Purchases and receipts: PurchaseService, the access check shared with   *)
(* delivery, and the purchase and receipt records of the metadata          *)
(* registry.  A request runs on one worker of the HTTP thread pool; every  *)
(* file operation is a step of its own, and the requests of several        *)
(* workers interleave between any two of them.                             *)
(*                                                                         *)
(* A purchase is recorded in two files: the marker of the (user,           *)
(* publication) pair, which only one request can create, and then the      *)
(* record.  A receipt record holds the file key wrapped under a fresh      *)
(* purchase key and the receipt that carries this purchase key to one      *)
(* device: it is kept as the purchase key and the fields of the header.    *)
(***************************************************************************)
EXTENDS Naturals, FiniteSets

CONSTANTS
  Workers,      \* threads of the HTTP server
  Users,
  Devices,      \* device keys
  Pubs,         \* publications, which never change and are never removed
  Author,       \* the author of each publication
  PublishedAt,  \* the date of each publication
  Ids,          \* purchase identifiers generate_identifier may return
  Times,        \* dates
  Keys,         \* purchase keys generate_key may return
  Faults,       \* may a file operation fail?
  Restarts,     \* may the process die?
  None          \* an absent file, or no value

\* A receipt and a package are asked for by a context: a purchase identifier, or a
\* publication identifier for the author's own access.
Contexts == Ids \cup Pubs
Pairs == Users \X Pubs
Slots == Contexts \X Devices
PurchaseRecord == [user: Users, pub: Pubs, at: Times]
ReceiptRecord == [user: Users, at: Times, key: Keys]
Request == [op: {"buy", "restore", "fetch", "identity"}, user: Users, target: Contexts,
            device: Devices, now: Times \cup {None}]

ASSUME AuthorAssumption == Author \in [Pubs -> Users] /\ PublishedAt \in [Pubs -> Times]
\* Identifiers are random 64-bit numbers: purchases and publications share none.
ASSUME IdsAssumption == Ids \cap Pubs = {}
ASSUME NoneAssumption ==
  None \notin Contexts \cup Times \cup Keys \cup PurchaseRecord \cup ReceiptRecord \cup Request
ASSUME FlagsAssumption == Faults \in BOOLEAN /\ Restarts \in BOOLEAN

VARIABLES
  pairs,        \* the marker of a pair: the identifier of its purchase
  purchases,    \* <id>.purchase
  receipts,     \* <context>-<device>.receipt
  generated,    \* every key generate_key has returned so far
  pc,           \* the file operation the worker does next
  req,          \* the worker's request
  ctx,          \* the context the worker's receipt is for
  granted,      \* the date its receipt will carry
  reply,        \* the worker's answer: a status and, when it is ok, a key
  orphans       \* pairs whose marker was left by a dead request, or not removed

stored == <<pairs, purchases, receipts>>
local  == <<pc, req, ctx, granted, reply>>
vars   == <<stored, generated, local, orphans>>

Steps == {"idle", "find_purchase", "own_receipt", "add_pair", "add_record",
          "release_taken", "release_failed", "find_concurrent", "find_receipt",
          "has_receipt", "issue", "resolve", "load_receipt", "answered"}

\* The steps at which a request has created a marker and not yet the record.
MarkerSteps == {"add_record", "release_taken", "release_failed"}

Replies == [status: {"ok", "publication_not_found", "purchase_not_found", "receipt_not_found",
                     "not_permitted", "storage_failed"},
            key: Keys \cup {None}]

TypeOK ==
  /\ pairs \in [Pairs -> Ids \cup {None}]
  /\ purchases \in [Ids -> PurchaseRecord \cup {None}]
  /\ receipts \in [Slots -> ReceiptRecord \cup {None}]
  /\ generated \subseteq Keys
  /\ pc \in [Workers -> Steps]
  /\ req \in [Workers -> Request \cup {None}]
  /\ ctx \in [Workers -> Contexts \cup {None}]
  /\ granted \in [Workers -> Times \cup {None}]
  /\ reply \in [Workers -> Replies \cup {None}]
  /\ orphans \subseteq Pairs

Init ==
  /\ pairs = [x \in Pairs |-> None]
  /\ purchases = [i \in Ids |-> None]
  /\ receipts = [x \in Slots |-> None]
  /\ generated = {}
  /\ pc = [w \in Workers |-> "idle"]
  /\ req = [w \in Workers |-> None]
  /\ ctx = [w \in Workers |-> None]
  /\ granted = [w \in Workers |-> None]
  /\ reply = [w \in Workers |-> None]
  /\ orphans = {}

--------------------------------------------------------------------------------
PairOf(w) == <<req[w].user, req[w].target>>
SlotOf(w) == <<ctx[w], req[w].device>>

\* i is the purchase of pair x.
IsPurchaseOf(i, x) == purchases[i] # None /\ <<purchases[i].user, purchases[i].pub>> = x

\* c is a purchase user u made at date t.
Bought(c, u, t) ==
  c \in Ids /\ purchases[c] # None /\ purchases[c].user = u /\ purchases[c].at = t

\* Context c gives user u access, from date t on: as buyer or as author.
Grants(c, u, t) ==
  \/ Bought(c, u, t)
  \/ c \in Pubs /\ Author[c] = u /\ PublishedAt[c] = t

Goto(w, step) == pc' = [pc EXCEPT ![w] = step]

AnswerKey(w, status, key) ==
  /\ Goto(w, "answered")
  /\ reply' = [reply EXCEPT ![w] = [status |-> status, key |-> key]]

Answer(w, status) == AnswerKey(w, status, None)

--------------------------------------------------------------------------------
\* A request arrives and is authorized; its user is fixed from here on.
Receive(w, r, step) ==
  /\ pc[w] = "idle"
  /\ req' = [req EXCEPT ![w] = r]
  /\ Goto(w, step)
  /\ UNCHANGED <<stored, generated, ctx, granted, reply, orphans>>

Buy(w, u, c, d, t) ==
  Receive(w, [op |-> "buy", user |-> u, target |-> c, device |-> d, now |-> t], "find_purchase")

RestoreReceipt(w, u, c, d) ==
  Receive(w, [op |-> "restore", user |-> u, target |-> c, device |-> d, now |-> None], "resolve")

FetchPackage(w, u, c, d) ==
  Receive(w, [op |-> "fetch", user |-> u, target |-> c, device |-> d, now |-> None], "resolve")

\* The content identity of a context; the request names no device, d is none of its fields.
ContextIdentity(w, u, c, d) ==
  Receive(w, [op |-> "identity", user |-> u, target |-> c, device |-> d, now |-> None], "resolve")

\* buy: find_purchase_of scans the purchase records; without one, find_publication
\* tells the author, who needs no purchase.
FindPurchase(w) ==
  /\ pc[w] = "find_purchase"
  /\ \/ \E i \in Ids :
          /\ IsPurchaseOf(i, PairOf(w))
          /\ ctx' = [ctx EXCEPT ![w] = i]
          /\ Goto(w, "find_receipt")
          /\ UNCHANGED reply
     \/ /\ \A i \in Ids : ~ IsPurchaseOf(i, PairOf(w))
        /\ req[w].target \in Pubs
        /\ ctx' = [ctx EXCEPT ![w] = req[w].target]
        /\ Goto(w, IF Author[req[w].target] = req[w].user THEN "own_receipt" ELSE "add_pair")
        /\ UNCHANGED reply
     \/ /\ req[w].target \notin Pubs
        /\ Answer(w, "publication_not_found")
        /\ UNCHANGED ctx
  /\ UNCHANGED <<stored, generated, req, granted, orphans>>

\* Mutant: a new receipt is filed even if there is one, and the one there was is answered.
FindOwnReceiptRenewing(w) ==
  /\ pc[w] = "own_receipt"
  /\ LET own == receipts[SlotOf(w)] IN
       \E k \in Keys \ generated :
         /\ receipts' = [receipts EXCEPT ![SlotOf(w)] =
              [user |-> req[w].user, at |-> PublishedAt[req[w].target], key |-> k]]
         /\ generated' = generated \cup {k}
         /\ AnswerKey(w, "ok", IF own # None THEN own.key ELSE k)
  /\ UNCHANGED <<pairs, purchases, req, ctx, granted, orphans>>

\* The author's receipt is filed under the publication.  Whatever the reason it cannot
\* be read, a new one is issued.
FindOwnReceipt(w) ==
  /\ pc[w] = "own_receipt"
  /\ \/ /\ receipts[SlotOf(w)] # None
        /\ AnswerKey(w, "ok", receipts[SlotOf(w)].key)
        /\ UNCHANGED granted
     \/ /\ receipts[SlotOf(w)] = None \/ Faults
        /\ Goto(w, "issue")
        /\ granted' = [granted EXCEPT ![w] = PublishedAt[req[w].target]]
        /\ UNCHANGED reply
  /\ UNCHANGED <<stored, generated, req, ctx, orphans>>

\* Mutant: the marker of another request is taken for one's own.
AddPairTaken(w) ==
  /\ pc[w] = "add_pair"
  /\ \E i \in Ids :
       /\ pairs' = [pairs EXCEPT ![PairOf(w)] = i]
       /\ ctx' = [ctx EXCEPT ![w] = i]
       /\ Goto(w, "add_record")
  /\ UNCHANGED <<purchases, receipts, generated, req, granted, reply, orphans>>

\* generate_identifier and the first half of add_purchase: link the pair's marker.
AddPair(w) ==
  /\ pc[w] = "add_pair"
  /\ IF pairs[PairOf(w)] # None
       THEN Goto(w, "find_concurrent") /\ UNCHANGED <<pairs, ctx>>
       ELSE \E i \in Ids :
              /\ pairs' = [pairs EXCEPT ![PairOf(w)] = i]
              /\ ctx' = [ctx EXCEPT ![w] = i]
              /\ Goto(w, "add_record")
  /\ UNCHANGED <<purchases, receipts, generated, req, granted, reply, orphans>>

NewPurchase(w) == [user |-> req[w].user, pub |-> req[w].target, at |-> req[w].now]

\* Mutant: the record is written with store_file, which replaces the record of another
\* purchase with the same identifier.
AddRecordReplacing(w) ==
  /\ pc[w] = "add_record"
  /\ purchases' = [purchases EXCEPT ![ctx[w]] = NewPurchase(w)]
  /\ granted' = [granted EXCEPT ![w] = req[w].now]
  /\ Goto(w, "issue")
  /\ UNCHANGED <<pairs, receipts, generated, req, ctx, reply, orphans>>

\* Mutant: an identifier in use is answered without removing the marker.
AddRecordNoRelease(w) ==
  /\ pc[w] = "add_record"
  /\ IF purchases[ctx[w]] # None
       THEN Goto(w, "find_concurrent") /\ UNCHANGED <<purchases, granted>>
       ELSE /\ purchases' = [purchases EXCEPT ![ctx[w]] = NewPurchase(w)]
            /\ granted' = [granted EXCEPT ![w] = req[w].now]
            /\ Goto(w, "issue")
  /\ UNCHANGED <<pairs, receipts, generated, req, ctx, reply, orphans>>

\* The second half of add_purchase: link the record.  If its identifier is in use or the
\* write fails, the marker goes again.
AddRecord(w) ==
  /\ pc[w] = "add_record"
  /\ IF purchases[ctx[w]] # None
       THEN Goto(w, "release_taken") /\ UNCHANGED <<purchases, granted>>
       ELSE /\ purchases' = [purchases EXCEPT ![ctx[w]] = NewPurchase(w)]
            /\ granted' = [granted EXCEPT ![w] = req[w].now]
            /\ Goto(w, "issue")
  /\ UNCHANGED <<pairs, receipts, generated, req, ctx, reply, orphans>>

\* release_marker.  record_exists makes buy look for a concurrent purchase, any other
\* error is answered.
ReleasePair(w) ==
  /\ pc[w] \in {"release_taken", "release_failed"}
  /\ pairs' = [pairs EXCEPT ![PairOf(w)] = None]
  /\ IF pc[w] = "release_taken"
       THEN Goto(w, "find_concurrent") /\ UNCHANGED reply
       ELSE Answer(w, "storage_failed")
  /\ UNCHANGED <<purchases, receipts, generated, req, ctx, granted, orphans>>

\* release_marker when the removal fails: the marker stays.
ReleasePairFails(w) ==
  /\ Faults
  /\ pc[w] \in {"release_taken", "release_failed"}
  /\ orphans' = orphans \cup {PairOf(w)}
  /\ Answer(w, "storage_failed")
  /\ UNCHANGED <<stored, generated, req, ctx, granted>>

\* Mutant: the request waits for the marker's owner.
FindConcurrentWaiting(w) ==
  /\ pc[w] = "find_concurrent"
  /\ \/ \E i \in Ids :
          /\ IsPurchaseOf(i, PairOf(w))
          /\ ctx' = [ctx EXCEPT ![w] = i]
          /\ Goto(w, "find_receipt")
     \/ /\ \A i \in Ids : ~ IsPurchaseOf(i, PairOf(w))
        /\ Goto(w, "add_pair")
        /\ UNCHANGED ctx
  /\ UNCHANGED <<stored, generated, req, granted, reply, orphans>>

\* buy after record_exists: the purchase some other request is recording.
FindConcurrent(w) ==
  /\ pc[w] = "find_concurrent"
  /\ \/ \E i \in Ids :
          /\ IsPurchaseOf(i, PairOf(w))
          /\ ctx' = [ctx EXCEPT ![w] = i]
          /\ Goto(w, "find_receipt")
          /\ UNCHANGED reply
     \/ /\ \A i \in Ids : ~ IsPurchaseOf(i, PairOf(w))
        /\ Answer(w, "purchase_not_found")
        /\ UNCHANGED ctx
  /\ UNCHANGED <<stored, generated, req, granted, orphans>>

\* receipt_for: the receipt of this device.
FindReceipt(w) ==
  /\ pc[w] = "find_receipt"
  /\ IF receipts[SlotOf(w)] # None
       THEN AnswerKey(w, "ok", receipts[SlotOf(w)].key)
       ELSE Goto(w, "has_receipt") /\ UNCHANGED reply
  /\ UNCHANGED <<stored, generated, req, ctx, granted, orphans>>

\* Any device has a receipt for context c.
ReceiptExists(c) == \E d \in Devices : receipts[<<c, d>>] # None

\* Mutant: the receipt is dated by the repeated request.
HasReceiptRedated(w) ==
  /\ pc[w] = "has_receipt"
  /\ IF ReceiptExists(ctx[w])
       THEN Answer(w, "receipt_not_found") /\ UNCHANGED granted
       ELSE /\ granted' = [granted EXCEPT ![w] = req[w].now]
            /\ Goto(w, "issue")
            /\ UNCHANGED reply
  /\ UNCHANGED <<stored, generated, req, ctx, orphans>>

\* receipt_for: another device has a receipt, or the purchase has none yet.
HasReceipt(w) ==
  /\ pc[w] = "has_receipt"
  /\ IF ReceiptExists(ctx[w])
       THEN Answer(w, "receipt_not_found") /\ UNCHANGED granted
       ELSE /\ granted' = [granted EXCEPT ![w] = purchases[ctx[w]].at]
            /\ Goto(w, "issue")
            /\ UNCHANGED reply
  /\ UNCHANGED <<stored, generated, req, ctx, orphans>>

\* The record replaces the one this device had for this context.
SaveReceipt(w, key) ==
  receipts' = [receipts EXCEPT ![SlotOf(w)] = [user |-> req[w].user, at |-> granted[w], key |-> key]]

\* issue_receipt: a fresh purchase key wraps the file key.
IssueReceipt(w) ==
  /\ pc[w] = "issue"
  /\ \E k \in Keys \ generated :
       /\ SaveReceipt(w, k)
       /\ generated' = generated \cup {k}
       /\ AnswerKey(w, "ok", k)
  /\ UNCHANGED <<pairs, purchases, req, ctx, granted, orphans>>

\* What the access is for: restore_receipt issues, fetch_package loads the receipt of the
\* device, context_identity is answered.
Restoring(w) == req[w].op = "restore" /\ Goto(w, "issue") /\ UNCHANGED reply
Delivering(w) == req[w].op = "fetch" /\ Goto(w, "load_receipt") /\ UNCHANGED reply
Identifying(w) == req[w].op = "identity" /\ Answer(w, "ok")
GoOn(w) == Restoring(w) \/ Delivering(w) \/ Identifying(w)

\* Mutant: the access check forgets to compare the users.
ResolveAnyUser(w) ==
  /\ pc[w] = "resolve"
  /\ \E u \in Users, t \in Times :
       /\ Grants(req[w].target, u, t)
       /\ ctx' = [ctx EXCEPT ![w] = req[w].target]
       /\ granted' = [granted EXCEPT ![w] = t]
       /\ GoOn(w)
  /\ UNCHANGED <<stored, generated, req, orphans>>

\* resolve_context and resolve_access: a purchase grants access to its buyer, a
\* publication to its author.
Resolve(w) ==
  /\ pc[w] = "resolve"
  /\ \/ \E u \in Users, t \in Times :
          /\ Grants(req[w].target, u, t)
          /\ IF u = req[w].user
               THEN /\ ctx' = [ctx EXCEPT ![w] = req[w].target]
                    /\ granted' = [granted EXCEPT ![w] = t]
                    /\ GoOn(w)
               ELSE Answer(w, "not_permitted") /\ UNCHANGED <<ctx, granted>>
     \/ /\ \A u \in Users, t \in Times : ~ Grants(req[w].target, u, t)
        /\ Answer(w, "purchase_not_found")
        /\ UNCHANGED <<ctx, granted>>
  /\ UNCHANGED <<stored, generated, req, orphans>>

\* Mutant: fetch_package issues a receipt of its own, as restore_receipt does.
LoadReceiptIssuing(w) ==
  /\ pc[w] = "load_receipt"
  /\ Goto(w, "issue")
  /\ UNCHANGED <<stored, generated, req, ctx, granted, reply, orphans>>

\* fetch_package: the package carries the file key as the receipt record of this
\* device wraps it.  The content itself is the subject of Publication.
LoadReceipt(w) ==
  /\ pc[w] = "load_receipt"
  /\ IF receipts[SlotOf(w)] # None
       THEN AnswerKey(w, "ok", receipts[SlotOf(w)].key)
       ELSE Answer(w, "receipt_not_found")
  /\ UNCHANGED <<stored, generated, req, ctx, granted, orphans>>

\* Any other file operation, key generation or cipher call may fail; what failed has
\* stored nothing.  A failure to write the record removes the marker first.
StepFails(w) ==
  /\ Faults
  /\ pc[w] \notin {"idle", "own_receipt", "release_taken", "release_failed", "answered"}
  /\ IF pc[w] = "add_record"
       THEN Goto(w, "release_failed") /\ UNCHANGED reply
       ELSE Answer(w, "storage_failed")
  /\ UNCHANGED <<stored, generated, req, ctx, granted, orphans>>

\* The answer is sent, or lost on the way.
Respond(w) ==
  /\ pc[w] = "answered"
  /\ Goto(w, "idle")
  /\ req' = [req EXCEPT ![w] = None]
  /\ ctx' = [ctx EXCEPT ![w] = None]
  /\ granted' = [granted EXCEPT ![w] = None]
  /\ reply' = [reply EXCEPT ![w] = None]
  /\ UNCHANGED <<stored, generated, orphans>>

\* The process dies between two file operations and is started again on the same
\* files.  Nothing at start-up looks at the markers the dead requests left.
Restart ==
  /\ Restarts
  /\ pc' = [w \in Workers |-> "idle"]
  /\ req' = [w \in Workers |-> None]
  /\ ctx' = [w \in Workers |-> None]
  /\ granted' = [w \in Workers |-> None]
  /\ reply' = [w \in Workers |-> None]
  /\ orphans' = orphans \cup {PairOf(w) : w \in {v \in Workers : pc[v] \in MarkerSteps}}
  /\ UNCHANGED <<stored, generated>>

Arrive(w) ==
  \E u \in Users, d \in Devices :
    \/ \E c \in Contexts, t \in Times : Buy(w, u, c, d, t)
    \/ \E c \in Contexts :
         RestoreReceipt(w, u, c, d) \/ FetchPackage(w, u, c, d) \/ ContextIdentity(w, u, c, d)

WorkerStep(w) ==
  \/ FindPurchase(w) \/ FindOwnReceipt(w)
  \/ AddPair(w) \/ AddRecord(w) \/ ReleasePair(w) \/ ReleasePairFails(w)
  \/ FindConcurrent(w) \/ FindReceipt(w) \/ HasReceipt(w) \/ IssueReceipt(w)
  \/ Resolve(w) \/ LoadReceipt(w)
  \/ StepFails(w)

Next ==
  \/ \E w \in Workers : Arrive(w) \/ WorkerStep(w) \/ Respond(w)
  \/ Restart

Spec == Init /\ [][Next]_vars

\* A worker that can take a step takes one; requests and restarts are not promised.
FairSpec == Spec /\ \A w \in Workers : WF_vars(WorkerStep(w) \/ Respond(w))

--------------------------------------------------------------------------------
\* A user never has two purchases of one publication, however requests race for the
\* marker, collide on an identifier, fail or die (add_purchase).
OnePurchase ==
  \A i, j \in Ids : purchases[i] # None /\ IsPurchaseOf(j, <<purchases[i].user, purchases[i].pub>>)
    => i = j

\* Every record has its marker, and a marker without a record belongs to a request in
\* progress, or to one that died or failed to remove it: no error path forgets it.
MarkersAccounted ==
  /\ \A i \in Ids : purchases[i] # None =>
       pairs[<<purchases[i].user, purchases[i].pub>>] = i
  /\ \A x \in Pairs : pairs[x] # None =>
       \/ IsPurchaseOf(pairs[x], x)
       \/ \E w \in Workers : pc[w] \in MarkerSteps /\ PairOf(w) = x
       \/ x \in orphans

\* Every receipt ever issued, by a first or a repeated purchase, on any device or
\* restored, names the buyer and the date of its purchase, or the author and the date
\* of the publication.
ReceiptsGenuine ==
  \A x \in Slots : receipts[x] # None => Grants(x[1], receipts[x].user, receipts[x].at)

\* A receipt, a package or an identity is answered only to the user the context belongs to,
\* judged by the purchases when the answer is sent.
AnswersOwner ==
  \A w \in Workers : pc[w] = "answered" /\ reply[w].status = "ok"
    => \E t \in Times : Grants(ctx[w], req[w].user, t)

\* What buy, restore_receipt and fetch_package answer is the receipt on file at that moment,
\* or sealed for it: also when buy has replaced a good receipt of the author because it
\* could not be read.
AnswersFiled ==
  [][\A w \in Workers :
       pc[w] # "answered" /\ pc'[w] = "answered" /\ reply'[w].status = "ok"
         /\ req[w].op # "identity"
       => receipts'[SlotOf(w)'] # None /\ receipts'[SlotOf(w)'].key = reply'[w].key]_vars

\* The purchase of every pair, if any, as its user sees it.
Owned ==
  [x \in Pairs |->
     IF \E i \in Ids : IsPurchaseOf(i, x)
       THEN LET i == CHOOSE j \in Ids : IsPurchaseOf(j, x) IN [id |-> i, at |-> purchases[i].at]
       ELSE None]

Entitled == INSTANCE Entitlements WITH owned <- Owned, Nothing <- None

\* The service implements the entitlements: a purchase is made once and never changes
\* its identifier or its date.
ImplementsEntitlements == Entitled!Spec

\* Every request is answered, also behind a marker nobody will remove.
RequestsAnswered ==
  \A w \in Workers : pc[w] # "idle" ~> pc[w] = "idle"

\* A concurrent purchase of the same publication makes buy read the receipt again, it
\* is not an error: buy never answers that there is no purchase.
ConcurrentBuyServed ==
  \A w \in Workers : pc[w] = "answered" /\ req[w].op = "buy"
    => reply[w].status # "purchase_not_found"

\* A repeated purchase returns the receipt issued earlier: buy never replaces the
\* receipt that another buy of the same purchase is answering.
BuyKeepsReceipt ==
  [][\A v, w \in Workers :
       /\ pc[v] = "answered" /\ req[v].op = "buy" /\ ctx[v] \in Ids
       /\ IssueReceipt(w) /\ req[w].op = "buy" /\ receipts[SlotOf(w)] # None
       => receipts[SlotOf(w)].key # reply[v].key]_vars

--------------------------------------------------------------------------------
(* The inductive invariant. *)

\* What the steps of a request read of it has been given by the handler that took it.
RequestKnown ==
  \A w \in Workers :
    /\ pc[w] # "idle" => req[w] # None
    /\ pc[w] \in {"find_purchase", "own_receipt", "add_pair", "find_concurrent"} \cup MarkerSteps =>
         req[w].now \in Times
    /\ pc[w] \in {"own_receipt", "add_pair", "find_concurrent"} \cup MarkerSteps =>
         req[w].target \in Pubs

\* A request that reads or writes a receipt does so for a context of its own user, with
\* the date of this context.
ContextKnown ==
  \A w \in Workers :
    /\ pc[w] = "own_receipt" => ctx[w] = req[w].target /\ Author[ctx[w]] = req[w].user
    /\ pc[w] \in {"find_receipt", "has_receipt"} =>
         /\ ctx[w] \in Ids
         /\ purchases[ctx[w]] # None
         /\ purchases[ctx[w]].user = req[w].user
    /\ pc[w] \in {"issue", "load_receipt"} => Grants(ctx[w], req[w].user, granted[w])

\* A request between the marker and the record owns the marker: it names the request's
\* identifier, nobody has given it up and its pair has no purchase.
MarkerOwned ==
  \A w \in Workers : pc[w] \in MarkerSteps =>
    /\ ctx[w] \in Ids
    /\ pairs[PairOf(w)] = ctx[w]
    /\ PairOf(w) \notin orphans
    /\ \A i \in Ids : ~ IsPurchaseOf(i, PairOf(w))

MarkerExclusive ==
  \A v, w \in Workers :
    pc[v] \in MarkerSteps /\ pc[w] \in MarkerSteps /\ PairOf(v) = PairOf(w) => v = w

\* A marker that was left stays and never gets a record.
OrphansKept ==
  \A x \in orphans : pairs[x] # None /\ \A i \in Ids : ~ IsPurchaseOf(i, x)

MarkerInv == MarkerOwned /\ MarkerExclusive /\ OrphansKept /\ MarkersAccounted
ReceiptInv == ContextKnown /\ ReceiptsGenuine /\ AnswersOwner
IInv == TypeOK /\ RequestKnown /\ MarkerInv /\ ReceiptInv
================================================================================
