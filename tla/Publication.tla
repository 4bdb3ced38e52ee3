------------------------------ MODULE Publication ------------------------------
(***************************************************************************)
(* Publication of content and delivery of packages: PublicationService,    *)
(* DeliveryService, the identity registry, the key store and the blob      *)
(* store.  A request runs on one worker of the HTTP thread pool.  Nothing  *)
(* locks across the file operations of a request, so every file operation  *)
(* is a step of its own and the requests of several workers interleave     *)
(* between any two of them.                                                *)
(*                                                                         *)
(* What is stored is kept up to what the properties tell apart: a sealed   *)
(* content or a wrapped key is the key it is sealed under, a publication   *)
(* record is the content identity it names.                                *)
(***************************************************************************)
EXTENDS Naturals, FiniteSets

CONSTANTS
  Workers,      \* threads of the HTTP server
  Identities,   \* content identities: digests of the canonical form
  Short,        \* identities of content with no room for a mark
  Ids,          \* publication identifiers generate_identifier may return
  Keys,         \* symmetric keys generate_key may return
  None          \* an absent file, or no value

\* What a <hex>.key file holds: a file key and the master key it is wrapped under.
KeyFile == [key: Keys, master: Keys]

ASSUME ShortAssumption == Short \subseteq Identities
ASSUME NoneAssumption == None \notin Identities \cup Ids \cup Keys \cup KeyFile

VARIABLES
  claims,       \* identities with a <hex>.claimed file
  master,       \* the key in master.key
  keyFiles,     \* <hex>.key: a file key wrapped under a master key
  blobs,        \* <hex>.blob: the key the stored content is sealed under
  publications, \* <id>.publication: the identity it names
  generated,    \* every key generate_key has returned so far
  pc,           \* the file operation the worker does next
  op,           \* the scenario the worker runs: publish or fetch
  job,          \* the content identity of the worker's request
  mk,           \* the master key the worker holds
  fk,           \* the file key the worker holds
  reply,        \* the worker's last answer, or the error it will answer
  leaked        \* claims whose request died, or failed to remove them

stored == <<claims, master, keyFiles, blobs, publications>>
local  == <<pc, op, job, mk, fk, reply>>
vars   == <<stored, generated, local, leaked>>

\* The file operations of obtain_file_key, in the order a miss visits them.
KeySteps == {"load_master", "load_key", "check_master", "list_keys", "create_master", "store_key"}

\* The steps at which a publish request holds the claim of its identity.
ClaimedSteps == KeySteps \cup {"store_blob", "add_publication", "release"}

Steps == {"idle", "claim", "open"} \cup ClaimedSteps

Replies == {"none", "ok", "refused", "content_duplicate", "key_not_found",
            "record_exists", "authentication_failed", "storage_failed"}

TypeOK ==
  /\ claims \subseteq Identities
  /\ master \in Keys \cup {None}
  /\ keyFiles \in [Identities -> KeyFile \cup {None}]
  /\ blobs \in [Identities -> Keys \cup {None}]
  /\ publications \in [Ids -> Identities \cup {None}]
  /\ generated \subseteq Keys
  /\ pc \in [Workers -> Steps]
  /\ op \in [Workers -> {"publish", "fetch"}]
  /\ job \in [Workers -> Identities \cup {None}]
  /\ mk \in [Workers -> Keys \cup {None}]
  /\ fk \in [Workers -> Keys \cup {None}]
  /\ reply \in [Workers -> Replies]
  /\ leaked \subseteq Identities

Init ==
  /\ claims = {}
  /\ master = None
  /\ keyFiles = [i \in Identities |-> None]
  /\ blobs = [i \in Identities |-> None]
  /\ publications = [p \in Ids |-> None]
  /\ generated = {}
  /\ pc = [w \in Workers |-> "idle"]
  /\ op = [w \in Workers |-> "publish"]
  /\ job = [w \in Workers |-> None]
  /\ mk = [w \in Workers |-> None]
  /\ fk = [w \in Workers |-> None]
  /\ reply = [w \in Workers |-> "none"]
  /\ leaked = {}

--------------------------------------------------------------------------------
\* Control of a worker.

Published(i) == \E p \in Ids : publications[p] = i

\* w owns the claim of identity i: it made the claim and has not given it up.
Owns(w, i) == op[w] = "publish" /\ pc[w] \in ClaimedSteps /\ job[w] = i

Goto(w, step) == pc' = [pc EXCEPT ![w] = step]

Answer(w, r) ==
  /\ Goto(w, "idle")
  /\ reply' = [reply EXCEPT ![w] = r]

\* An error of publish after the claim goes through release_claim, which
\* answers r unless the release fails too; fetch_package answers it at once.
Abort(w, r) ==
  /\ Goto(w, IF op[w] = "publish" THEN "release" ELSE "idle")
  /\ reply' = [reply EXCEPT ![w] = r]

\* seal returned: publish stores the blob, fetch_package answers the package.
Sealed(w) ==
  IF op[w] = "publish"
    THEN Goto(w, "store_blob") /\ UNCHANGED reply
    ELSE Answer(w, "ok")

--------------------------------------------------------------------------------
\* PublicationService::publish up to the claim.  The author must be known, the
\* content in the domain of the mark channel, the signature valid: a request that
\* fails one of these is refused before anything is stored.
Publish(w) ==
  /\ pc[w] = "idle"
  /\ \E i \in Identities : job' = [job EXCEPT ![w] = i]
  /\ op' = [op EXCEPT ![w] = "publish"]
  /\ mk' = [mk EXCEPT ![w] = None]
  /\ fk' = [fk EXCEPT ![w] = None]
  /\ \/ Answer(w, "refused")
     \/ Goto(w, "claim") /\ reply' = [reply EXCEPT ![w] = "none"]
  /\ UNCHANGED <<stored, generated, leaked>>

\* Mutant: the test of the claim's outcome is lost.
ClaimIgnoringOutcome(w) ==
  /\ pc[w] = "claim"
  /\ claims' = claims \cup {job[w]}
  /\ Goto(w, "load_master")
  /\ UNCHANGED <<reply, master, keyFiles, blobs, publications, generated, op, job, mk, fk, leaked>>

\* FileIdentityRegistry::claim, an O_EXCL creation, and the test of its outcome.
Claim(w) ==
  /\ pc[w] = "claim"
  /\ IF job[w] \in claims
       THEN Answer(w, "content_duplicate") /\ UNCHANGED claims
       ELSE /\ claims' = claims \cup {job[w]}
            /\ Goto(w, "load_master")
            /\ UNCHANGED reply
  /\ UNCHANGED <<master, keyFiles, blobs, publications, generated, op, job, mk, fk, leaked>>

\* FileKeyStore::load_master_key, first step of load_file_key.  master.key is never
\* removed while the server runs, so the test for it and the read are one step.
LoadMaster(w) ==
  /\ pc[w] = "load_master"
  /\ IF master = None
       THEN Goto(w, "check_master") /\ UNCHANGED mk
       ELSE Goto(w, "load_key") /\ mk' = [mk EXCEPT ![w] = master]
  /\ UNCHANGED <<stored, generated, op, job, fk, reply, leaked>>

\* Mutant: obtain_file_key creates a key whether or not there is one.
LoadFileKeyAlwaysMisses(w) ==
  /\ pc[w] = "load_key"
  /\ Goto(w, "check_master")
  /\ UNCHANGED <<stored, generated, op, job, mk, fk, reply, leaked>>

\* Mutant: the wrapping key is returned in place of the wrapped one.
LoadFileKeyNotUnwrapped(w) ==
  /\ pc[w] = "load_key"
  /\ IF keyFiles[job[w]] = None
       THEN Goto(w, "check_master") /\ UNCHANGED <<fk, reply>>
       ELSE Sealed(w) /\ fk' = [fk EXCEPT ![w] = mk[w]]
  /\ UNCHANGED <<stored, generated, op, job, mk, leaked>>

\* Second step of load_file_key: read the key file and unwrap it.  Only a missing
\* file lets obtain_file_key go on to create a key.
LoadFileKey(w) ==
  /\ pc[w] = "load_key"
  /\ LET file == keyFiles[job[w]] IN
       IF file = None
         THEN Goto(w, "check_master") /\ UNCHANGED <<fk, reply>>
         ELSE IF file.master = mk[w]
                THEN Sealed(w) /\ fk' = [fk EXCEPT ![w] = file.key]
                ELSE Abort(w, "authentication_failed") /\ UNCHANGED fk
  /\ UNCHANGED <<stored, generated, op, job, mk, leaked>>

\* Mutant: create_master_key no longer looks for keys wrapped under a lost master key.
CheckMasterWithoutListing(w) ==
  /\ pc[w] = "check_master"
  /\ Goto(w, "create_master")
  /\ UNCHANGED <<stored, generated, op, job, mk, fk, reply, leaked>>

\* create_master_key: is there a master key?
CheckMaster(w) ==
  /\ pc[w] = "check_master"
  /\ Goto(w, IF master = None THEN "list_keys" ELSE "create_master")
  /\ UNCHANGED <<stored, generated, op, job, mk, fk, reply, leaked>>

\* Mutant: the request waits for the master key to come back.
ListKeysWaiting(w) ==
  /\ pc[w] = "list_keys"
  /\ Goto(w, IF \E i \in Identities : keyFiles[i] # None THEN "check_master" ELSE "create_master")
  /\ UNCHANGED <<stored, generated, op, job, mk, fk, reply, leaked>>

\* create_master_key with no master key: a key file means that the master key is
\* lost, and it must not be replaced.
ListKeys(w) ==
  /\ pc[w] = "list_keys"
  /\ IF \E i \in Identities : keyFiles[i] # None
       THEN Abort(w, "key_not_found")
       ELSE Goto(w, "create_master") /\ UNCHANGED reply
  /\ UNCHANGED <<stored, generated, op, job, mk, fk, leaked>>

\* load_or_create_secret: the hard link of create_secret_file decides which of
\* several creators wins, and every other one loads the winner's key.
CreateMaster(w) ==
  /\ pc[w] = "create_master"
  /\ IF master = None
       THEN \E k \in Keys \ generated :
              /\ master' = k
              /\ mk' = [mk EXCEPT ![w] = k]
              /\ generated' = generated \cup {k}
       ELSE mk' = [mk EXCEPT ![w] = master] /\ UNCHANGED <<master, generated>>
  /\ Goto(w, "store_key")
  /\ UNCHANGED <<claims, keyFiles, blobs, publications, op, job, fk, reply, leaked>>

\* The end of obtain_file_key: generate the file key, wrap it, write its file.
\* store_file renames over whatever is there.
StoreFileKey(w) ==
  /\ pc[w] = "store_key"
  /\ \E k \in Keys \ generated :
       /\ keyFiles' = [keyFiles EXCEPT ![job[w]] = [key |-> k, master |-> mk[w]]]
       /\ fk' = [fk EXCEPT ![w] = k]
       /\ generated' = generated \cup {k}
  /\ Sealed(w)
  /\ UNCHANGED <<claims, master, blobs, publications, op, job, mk, leaked>>

\* FileBlobStore::store, a rename over whatever is there.
StoreBlob(w) ==
  /\ pc[w] = "store_blob"
  /\ blobs' = [blobs EXCEPT ![job[w]] = fk[w]]
  /\ Goto(w, "add_publication")
  /\ UNCHANGED <<claims, master, keyFiles, publications, generated, op, job, mk, fk, reply, leaked>>

\* generate_identifier and FileMetadataRegistry::add_publication: the record is
\* linked, so an identifier in use makes it fail with record_exists.
AddPublication(w) ==
  /\ pc[w] = "add_publication"
  /\ \E p \in Ids :
       IF publications[p] = None
         THEN publications' = [publications EXCEPT ![p] = job[w]] /\ Answer(w, "ok")
         ELSE Abort(w, "record_exists") /\ UNCHANGED publications
  /\ UNCHANGED <<claims, master, keyFiles, blobs, generated, op, job, mk, fk, leaked>>

\* Mutant: the release is forgotten on an error path.
ReleaseForgotten(w) ==
  /\ pc[w] = "release"
  /\ Goto(w, "idle")
  /\ UNCHANGED <<stored, generated, op, job, mk, fk, reply, leaked>>

\* release_claim: remove the claim and answer the original error.
Release(w) ==
  /\ pc[w] = "release"
  /\ claims' = claims \ {job[w]}
  /\ Goto(w, "idle")
  /\ UNCHANGED <<master, keyFiles, blobs, publications, generated, op, job, mk, fk, reply, leaked>>

\* release_claim when the removal fails: its error is answered, the claim stays.
ReleaseFails(w) ==
  /\ pc[w] = "release"
  /\ leaked' = leaked \cup {job[w]}
  /\ Answer(w, "storage_failed")
  /\ UNCHANGED <<stored, generated, op, job, mk, fk>>

\* Any other file operation, key generation or cipher call may fail; what failed has
\* stored nothing.  The claim itself failing is answered without a release.
StepFails(w) ==
  /\ pc[w] \notin {"idle", "release"}
  /\ IF pc[w] = "claim" THEN Answer(w, "storage_failed") ELSE Abort(w, "storage_failed")
  /\ UNCHANGED <<stored, generated, op, job, mk, fk, leaked>>

--------------------------------------------------------------------------------
\* DeliveryService::fetch_package once access and receipt are resolved: the request
\* names a publication that exists.
Fetch(w) ==
  /\ pc[w] = "idle"
  /\ \E i \in Identities : Published(i) /\ job' = [job EXCEPT ![w] = i]
  /\ op' = [op EXCEPT ![w] = "fetch"]
  /\ mk' = [mk EXCEPT ![w] = None]
  /\ fk' = [fk EXCEPT ![w] = None]
  /\ Goto(w, "open")
  /\ reply' = [reply EXCEPT ![w] = "none"]
  /\ UNCHANGED <<stored, generated, leaked>>

\* The blob opens: the master key is there, unwraps the key file, and the blob is
\* sealed under the key in it.
Opens(i) ==
  /\ master # None
  /\ keyFiles[i] # None
  /\ keyFiles[i].master = master
  /\ blobs[i] = keyFiles[i].key

\* Load the blob, derive the mark, open the blob with the file key.  Marked content
\* is sealed again through obtain_file_key; content too short for a mark is
\* answered as it is stored.
OpenBlob(w) ==
  /\ pc[w] = "open"
  /\ IF ~ Opens(job[w])
       THEN /\ Answer(w, IF master = None THEN "key_not_found" ELSE "authentication_failed")
            /\ UNCHANGED fk
       ELSE IF job[w] \in Short
              THEN Answer(w, "ok") /\ fk' = [fk EXCEPT ![w] = blobs[job[w]]]
              ELSE Goto(w, "load_master") /\ UNCHANGED <<fk, reply>>
  /\ UNCHANGED <<stored, generated, op, job, mk, leaked>>

--------------------------------------------------------------------------------
\* The process dies between two file operations and is started again on the same
\* files, with the master key lost if the operator lost it.  Nothing at start-up
\* looks at the claims the dead requests held.
Restart(lost) ==
  /\ pc' = [w \in Workers |-> "idle"]
  /\ op' = [w \in Workers |-> "publish"]
  /\ job' = [w \in Workers |-> None]
  /\ mk' = [w \in Workers |-> None]
  /\ fk' = [w \in Workers |-> None]
  /\ reply' = [w \in Workers |-> "none"]
  /\ master' = IF lost THEN None ELSE master
  /\ leaked' = leaked \cup {i \in Identities : \E w \in Workers : Owns(w, i)}
  /\ UNCHANGED <<claims, keyFiles, blobs, publications, generated>>

WorkerStep(w) ==
  \/ Claim(w)
  \/ LoadMaster(w) \/ LoadFileKey(w)
  \/ CheckMaster(w) \/ ListKeys(w) \/ CreateMaster(w) \/ StoreFileKey(w)
  \/ StoreBlob(w) \/ AddPublication(w)
  \/ Release(w) \/ ReleaseFails(w) \/ StepFails(w)
  \/ OpenBlob(w)

Next ==
  \/ \E w \in Workers : Publish(w) \/ Fetch(w) \/ WorkerStep(w)
  \/ \E lost \in BOOLEAN : Restart(lost)

Spec == Init /\ [][Next]_vars

\* A worker that can take a step takes one: the pool's threads are scheduled, and no
\* file operation blocks.  Requests and restarts are not promised.
FairSpec == Spec /\ \A w \in Workers : WF_vars(WorkerStep(w))

--------------------------------------------------------------------------------
\* No two publications name the same content, whatever claims were released,
\* leaked by a crash or raced for (publish: the claim decides, line 57).
UniqueIdentity ==
  \A p, q \in Ids : publications[p] # None /\ publications[p] = publications[q] => p = q

\* Content that was published stays deliverable: it is claimed, its blob is sealed under
\* the key in its key file, and the master key, unless lost, opens that file.
Deliverable ==
  \A i \in Identities :
    Published(i) => /\ i \in claims
                    /\ keyFiles[i] # None
                    /\ blobs[i] = keyFiles[i].key
                    /\ master # None => keyFiles[i].master = master

\* One master key wraps every file key: neither a race of first publications nor a
\* publication after the loss of master.key makes a second one (create_master_key).
OneMasterKey ==
  \A i \in Identities :
    keyFiles[i] # None /\ master # None => keyFiles[i].master = master

\* A claim on unpublished content belongs to a request in progress, or to one that
\* died with its process or failed to remove it: every error path after the claim
\* releases it (release_claim).
ClaimsAccounted ==
  \A i \in claims : Published(i) \/ (\E w \in Workers : Owns(w, i)) \/ i \in leaked

\* A package is answered sealed under the key in the key file, the key every receipt
\* wraps (seal_marked seals through obtain_file_key, which could create a key).
PackageUnderFileKey ==
  \A w \in Workers :
    op[w] = "fetch" /\ pc[w] = "idle" /\ reply[w] = "ok"
      => keyFiles[job[w]] # None /\ fk[w] = keyFiles[job[w]].key

\* A file key, once stored, is never replaced: the receipts issued so far wrap it, and
\* obtain_file_key would overwrite it if two requests could create it.
FileKeyKept ==
  [][\A i \in Identities : keyFiles[i] # None => keyFiles'[i] = keyFiles[i]]_vars

\* Every claim is settled: the content is published, the claim is removed, or it is one
\* of those a crash or a failed removal left behind.
ClaimSettles ==
  \A i \in Identities :
    i \in claims ~> (Published(i) \/ i \notin claims \/ i \in leaked)

\* The status of a content identity, as the service's users see it.
Status ==
  [i \in Identities |->
     IF Published(i) THEN "published"
     ELSE IF i \in leaked THEN "blocked"
     ELSE IF i \in claims THEN "taken"
     ELSE "free"]

Registry == INSTANCE ContentRegistry WITH status <- Status

\* The service implements the content registry: a taken identity is published or given
\* back by the request that took it, a published or a blocked one never changes again.
ImplementsRegistry == Registry!Spec

--------------------------------------------------------------------------------
\* The inductive invariant behind the properties.

\* A request knows its content; a finished fetch remembers it.
JobKnown ==
  \A w \in Workers : pc[w] # "idle" \/ op[w] = "fetch" => job[w] \in Identities

\* The owner of a claim holds it alone, on content that is neither published nor leaked.
ClaimExclusive ==
  \A w \in Workers : op[w] = "publish" /\ pc[w] \in ClaimedSteps =>
    /\ job[w] \in claims
    /\ job[w] \notin leaked
    /\ \A p \in Ids : publications[p] # job[w]
    /\ \A v \in Workers : Owns(v, job[w]) => v = w

\* A publication and a leaked claim both keep the content claimed.
ClaimKept ==
  /\ leaked \subseteq claims
  /\ \A p \in Ids : publications[p] # None => publications[p] \in claims

\* The master key a worker is about to use is the one in the file.
MasterCurrent ==
  \A w \in Workers : pc[w] \in {"load_key", "store_key"} => master # None /\ mk[w] = master

\* Once past the listing, there is a master key or nothing is wrapped yet.
MasterReplaceable ==
  \A w \in Workers : pc[w] = "create_master" =>
    master # None \/ \A i \in Identities : keyFiles[i] = None

\* publish creates a file key only where there is none.
KeyAbsent ==
  \A w \in Workers : op[w] = "publish" =>
    /\ pc[w] \in {"check_master", "list_keys"} => master = None \/ keyFiles[job[w]] = None
    /\ pc[w] \in {"create_master", "store_key"} => keyFiles[job[w]] = None

\* publish seals and stores the blob under the key in the key file.
KeyHeld ==
  \A w \in Workers : op[w] = "publish" =>
    /\ pc[w] \in {"store_blob", "add_publication"} =>
         keyFiles[job[w]] # None /\ fk[w] = keyFiles[job[w]].key
    /\ pc[w] = "add_publication" => blobs[job[w]] = fk[w]

\* fetch_package finds the file key and never creates one.
FetchFindsKey ==
  \A w \in Workers :
    IF op[w] = "fetch"
      THEN /\ pc[w] \in {"idle", "open", "load_master", "load_key"}
           /\ pc[w] \in {"load_master", "load_key"} =>
                /\ master # None
                /\ keyFiles[job[w]] # None
                /\ keyFiles[job[w]].master = master
      ELSE pc[w] # "open"

ClaimInv == ClaimExclusive /\ ClaimKept /\ ClaimsAccounted /\ UniqueIdentity

KeyInv ==
  MasterCurrent /\ MasterReplaceable /\ OneMasterKey /\ KeyAbsent /\ KeyHeld /\ FetchFindsKey

DeliveryInv == Deliverable /\ PackageUnderFileKey

IInv == TypeOK /\ JobKnown /\ ClaimInv /\ KeyInv /\ DeliveryInv

================================================================================
