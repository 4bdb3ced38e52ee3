------------------------------ MODULE FileStorage ------------------------------
(***************************************************************************)
(* The file operations every stub stores through, on one path: threads     *)
(* call them at once, a step fails, the process dies, the power goes.  A   *)
(* file is written under a private pending name, synced, and then renamed  *)
(* or linked into place; the directory is synced afterwards, and an error  *)
(* of that is ignored.  A file's content is the number of the call that    *)
(* wrote it.                                                               *)
(***************************************************************************)
EXTENDS Integers

CONSTANTS
  Workers,      \* threads of the program
  MaxCalls      \* bound on the calls that bring a content

ASSUME MaxCallsAssumption == MaxCalls \in Nat \ {0}

Absent == 0     \* no file
Torn   == -1    \* a file opened and not completely written

Uses == [
  secret  |-> {"secret"},                        \* a master or device key
  claim   |-> {"claim", "remove"},               \* a claimed identity or name
  marker  |-> {"if_absent", "load", "remove"},   \* a purchase pair, a record
  content |-> {"store", "load"}]                 \* a blob, a receipt, a file key

Operations == {"store", "if_absent", "claim", "remove", "load", "secret"}
Writing    == {"store", "if_absent", "claim", "secret"}

VARIABLES
  use,          \* what the path is for
  file,         \* what it holds
  kept,         \* what it may hold after a power loss, if its directory stays
  rooted,       \* the directory's own entry has reached the disk
  pending,      \* the worker's pending file
  pc,           \* what the worker does next
  op,           \* its operation
  mine,         \* the content it brings
  answer,       \* what it will return
  calls,        \* contents brought so far
  before,       \* history: what the worker's effect replaced, empty if nothing is promised
  stale,        \* history: what a returned call has replaced for good
  handed        \* history: secrets returned since the last power loss

durable == <<file, kept, rooted>>
history == <<before, stale, handed>>
vars == <<use, file, kept, rooted, pending, pc, op, mine, answer, calls, before, stale, handed>>

Contents == Absent .. MaxCalls
Steps == {"idle", "look", "open", "write", "commit", "sync", "load", "claim", "remove", "answered"}
Waiting == [status |-> "none", content |-> Absent]

TypeOK ==
  /\ use \in DOMAIN Uses
  /\ file \in Contents \cup {Torn}
  /\ kept \subseteq Contents \cup {Torn}
  /\ rooted \in BOOLEAN
  /\ pending \in [Workers -> Contents \cup {Torn}]
  /\ pc \in [Workers -> Steps]
  /\ op \in [Workers -> Operations \cup {"none"}]
  /\ mine \in [Workers -> Contents]
  /\ answer \in [Workers -> [status: {"none", "ok", "present", "missing", "failed"},
                             content: Contents \cup {Torn}]]
  /\ calls \in 0 .. MaxCalls
  /\ before \in [Workers -> SUBSET (Contents \cup {Torn})]
  /\ stale \subseteq Contents \cup {Torn}
  /\ handed \subseteq Contents \cup {Torn}

Init ==
  /\ use \in DOMAIN Uses
  /\ file = Absent
  /\ kept = {Absent}
  /\ rooted = FALSE
  /\ pending = [w \in Workers |-> Absent]
  /\ pc = [w \in Workers |-> "idle"]
  /\ op = [w \in Workers |-> "none"]
  /\ mine = [w \in Workers |-> Absent]
  /\ answer = [w \in Workers |-> Waiting]
  /\ calls = 0
  /\ before = [w \in Workers |-> {}]
  /\ stale = {}
  /\ handed = {}

--------------------------------------------------------------------------------
\* What the path may hold after a power loss: nothing, too, while its directory is new.
Survivors == kept \cup (IF rooted THEN {} ELSE {Absent})

Goto(w, step) == pc' = [pc EXCEPT ![w] = step]

\* The call is over: its pending file has been renamed or removed.
Finish(w, status, content) ==
  /\ answer' = [answer EXCEPT ![w] = [status |-> status, content |-> content]]
  /\ pending' = [pending EXCEPT ![w] = Absent]

\* Content c takes the path.  Nobody may now say that c is gone.
Put(c) ==
  /\ file' = c
  /\ kept' = kept \cup {c}
  /\ stale' = stale \ {c}

Forget(c) == [x \in Workers |-> before[x] \ {c}]

\* A call: its directory is prepared, the name of its pending file drawn.
Begin(w) ==
  /\ pc[w] = "idle"
  /\ \E o \in Uses[use] :
       /\ o \in Writing => calls < MaxCalls
       /\ calls' = IF o \in Writing THEN calls + 1 ELSE calls
       /\ op' = [op EXCEPT ![w] = o]
       /\ mine' = [mine EXCEPT ![w] = IF o \in Writing THEN calls + 1 ELSE Absent]
       /\ Goto(w, CASE o = "secret" -> "look"
                    [] o \in {"store", "if_absent"} -> "open"
                    [] OTHER -> o)
  /\ UNCHANGED <<use, durable, pending, answer, history>>

\* load_or_create_secret: a secret in place is read, otherwise one is generated.
Look(w) ==
  /\ pc[w] = "look"
  /\ Goto(w, IF file # Absent THEN "load" ELSE "open")
  /\ UNCHANGED <<use, durable, pending, op, mine, answer, calls, history>>

Open(w) ==
  /\ pc[w] = "open"
  /\ pending' = [pending EXCEPT ![w] = Torn]
  /\ Goto(w, "write")
  /\ UNCHANGED <<use, durable, op, mine, answer, calls, history>>

\* Mutant: a short write is taken for a complete one.
WriteShort(w) ==
  /\ pc[w] = "write"
  /\ pending' \in {[pending EXCEPT ![w] = mine[w]], pending}
  /\ Goto(w, "commit")
  /\ UNCHANGED <<use, durable, op, mine, answer, calls, history>>

\* write_and_sync and close.  The name is private: nobody sees it half written.
Write(w) ==
  /\ pc[w] = "write"
  /\ pending' = [pending EXCEPT ![w] = mine[w]]
  /\ Goto(w, "commit")
  /\ UNCHANGED <<use, durable, op, mine, answer, calls, history>>

\* The pending file takes the path.
Place(w) ==
  /\ Put(pending[w])
  /\ before' = [Forget(pending[w]) EXCEPT ![w] = Survivors \ {pending[w]}]
  /\ Finish(w, "ok", IF op[w] = "secret" THEN mine[w] ELSE Absent)

\* store_file: rename replaces what is there.
Rename(w) ==
  /\ pc[w] = "commit"
  /\ op[w] = "store"
  /\ Place(w)
  /\ Goto(w, "sync")
  /\ UNCHANGED <<use, rooted, op, mine, calls, handed>>

\* Mutant: the path is looked up before the rename, which replaces what came between.
LinkReplacing(w) ==
  /\ pc[w] = "commit"
  /\ op[w] \in {"if_absent", "secret"}
  /\ Place(w)
  /\ Goto(w, "sync")
  /\ UNCHANGED <<use, rooted, op, mine, calls, handed>>

\* Mutant: the secret is returned although another one has taken the path.
LinkKeepingOwn(w) ==
  /\ pc[w] = "commit"
  /\ op[w] \in {"if_absent", "secret"}
  /\ IF file = Absent
       THEN Place(w) /\ Goto(w, "sync")
       ELSE /\ IF op[w] = "secret" THEN Finish(w, "ok", mine[w]) ELSE Finish(w, "present", Absent)
            /\ Goto(w, "answered")
            /\ UNCHANGED <<file, kept, before, stale>>
  /\ UNCHANGED <<use, rooted, op, mine, calls, handed>>

\* Mutant: the directory is not synced.
LinkUnsynced(w) ==
  /\ pc[w] = "commit"
  /\ op[w] \in {"if_absent", "secret"}
  /\ file = Absent
  /\ Place(w)
  /\ Goto(w, "answered")
  /\ UNCHANGED <<use, rooted, op, mine, calls, handed>>

\* store_file_if_absent and create_secret_file: link fails when the path is taken; a
\* secret is then read, the caller of the other learns that it came second.
Link(w) ==
  /\ pc[w] = "commit"
  /\ op[w] \in {"if_absent", "secret"}
  /\ IF file = Absent
       THEN Place(w) /\ Goto(w, "sync")
       ELSE /\ IF op[w] = "secret"
                 THEN /\ pending' = [pending EXCEPT ![w] = Absent]
                      /\ Goto(w, "load")
                      /\ UNCHANGED answer
                 ELSE Finish(w, "present", Absent) /\ Goto(w, "answered")
            /\ UNCHANGED <<file, kept, before, stale>>
  /\ UNCHANGED <<use, rooted, op, mine, calls, handed>>

\* sync_directory, which ignores its errors: the call then promises nothing about a
\* power loss, and its caller does not learn of it.
SyncDirectory(w) ==
  /\ pc[w] = "sync"
  /\ \/ kept' = {file} /\ UNCHANGED before
     \/ before' = [before EXCEPT ![w] = {}] /\ UNCHANGED kept
  /\ Goto(w, "answered")
  /\ UNCHANGED <<use, file, rooted, pending, op, mine, answer, calls, stale, handed>>

\* load_file and load_secret.  The file opened stays as it is when the path is replaced.
Load(w) ==
  /\ pc[w] = "load"
  /\ Finish(w, IF file # Absent THEN "ok" ELSE IF op[w] = "secret" THEN "failed" ELSE "missing", file)
  /\ Goto(w, "answered")
  /\ UNCHANGED <<use, durable, op, mine, calls, history>>

\* claim_file: neither the file nor its directory is synced.
Claim(w) ==
  /\ pc[w] = "claim"
  /\ IF file = Absent
       THEN Put(mine[w]) /\ before' = Forget(mine[w]) /\ Finish(w, "ok", Absent)
       ELSE Finish(w, "present", Absent) /\ UNCHANGED <<file, kept, before, stale>>
  /\ Goto(w, "answered")
  /\ UNCHANGED <<use, rooted, op, mine, calls, handed>>

\* remove_file, not synced either; a path that is absent is no error.
Remove(w) ==
  /\ pc[w] = "remove"
  /\ Put(Absent)
  /\ before' = Forget(Absent)
  /\ Finish(w, "ok", Absent)
  /\ Goto(w, "answered")
  /\ UNCHANGED <<use, rooted, op, mine, calls, handed>>

\* A system call of the step fails; the pending file is removed.
Fail(w) ==
  /\ pc[w] \notin {"idle", "sync", "answered"}
  /\ Finish(w, "failed", Absent)
  /\ Goto(w, "answered")
  /\ UNCHANGED <<use, durable, op, mine, calls, history>>

\* What the call replaced is gone for good, once the directory is on disk.
Return(w) ==
  /\ pc[w] = "answered"
  /\ stale' = IF rooted THEN stale \cup before[w] ELSE stale
  /\ before' = [before EXCEPT ![w] = {}]
  /\ handed' = IF op[w] = "secret" /\ answer[w].status = "ok"
                 THEN handed \cup {answer[w].content} ELSE handed
  /\ Goto(w, "idle")
  /\ op' = [op EXCEPT ![w] = "none"]
  /\ mine' = [mine EXCEPT ![w] = Absent]
  /\ answer' = [answer EXCEPT ![w] = Waiting]
  /\ UNCHANGED <<use, durable, pending, calls>>

\* The system writes a directory that ensure_directory has made, and what is in it, to
\* the disk in its own time: nothing in the program syncs the entry of the directory.
WriteBack ==
  /\ rooted' = TRUE
  /\ kept' = {file}
  /\ UNCHANGED <<use, file, pending, pc, op, mine, answer, calls, history>>

\* Every thread is gone.  A pending file left behind is never looked at again: its name
\* is not drawn twice and list_files passes over it.
Halt ==
  /\ pending' = [w \in Workers |-> Absent]
  /\ pc' = [w \in Workers |-> "idle"]
  /\ op' = [w \in Workers |-> "none"]
  /\ mine' = [w \in Workers |-> Absent]
  /\ answer' = [w \in Workers |-> Waiting]
  /\ before' = [w \in Workers |-> {}]
  /\ UNCHANGED <<use, calls, stale>>

Crash == Halt /\ UNCHANGED <<durable, handed>>

PowerLoss ==
  /\ Halt
  /\ \/ file' \in kept /\ rooted' = TRUE
     \/ ~ rooted /\ file' = Absent /\ rooted' = FALSE
  /\ kept' = {file'}
  /\ handed' = {}

WorkerStep(w) ==
  \/ Begin(w) \/ Look(w) \/ Open(w) \/ Write(w) \/ Rename(w) \/ Link(w) \/ SyncDirectory(w)
  \/ Load(w) \/ Claim(w) \/ Remove(w) \/ Fail(w) \/ Return(w)

Next == (\E w \in Workers : WorkerStep(w)) \/ WriteBack \/ Crash \/ PowerLoss

Spec == Init /\ [][Next]_vars

--------------------------------------------------------------------------------
\* Nobody ever finds a half-written file, now or after the power has gone: a name becomes
\* visible only after write_and_sync has finished, whatever fails before.
NoTornFile == Torn \notin {file} \cup Survivors \cup {answer[w].content : w \in Workers}

\* All callers of load_or_create_secret that return while the machine is up have the
\* secret that is in place, whoever created it and however they raced.
SecretAgreement == handed \subseteq {file}

\* What a returned store has replaced never comes back after a power loss, if the syncs
\* it made succeeded and its directory has reached the disk.
ReturnedStays == Survivors \cap stale = {}

Atomic == INSTANCE AtomicFile WITH
  Contents <- Contents,
  kept <- Survivors,
  request <- [w \in Workers |-> [op |-> op[w], content |-> mine[w]]]

\* Every operation takes effect at one instant and answers what holds then, or is
\* answered as failed and has no effect; only what was not synced can be lost.
ImplementsAtomicFile == Atomic!Spec

--------------------------------------------------------------------------------
(***************************************************************************)
(* The inductive invariant.                                                *)
(***************************************************************************)
\* A worker does the steps of its operation; until its effect it has no answer and has
\* replaced nothing, and what it is about to put in place is complete.
StepKnown ==
  \A w \in Workers :
    /\ pc[w] = "idle" => op[w] = "none" /\ mine[w] = Absent
    /\ pc[w] # "idle" => op[w] \in Uses[use]
    /\ pc[w] = "look" => op[w] = "secret"
    /\ pc[w] \in {"open", "write", "commit", "sync"} => op[w] \in {"store", "if_absent", "secret"}
    /\ pc[w] = "load" => op[w] \in {"load", "secret"}
    /\ pc[w] \in {"claim", "remove"} => op[w] = pc[w]
    /\ op[w] \in Writing => mine[w] # Absent
    /\ pc[w] = "commit" => pending[w] = mine[w]
    /\ pc[w] \notin {"sync", "answered"} => answer[w] = Waiting /\ before[w] = {}
    /\ pc[w] \in {"sync", "answered"} => answer[w].status # "none"

\* What is in place may stay there, and is never incomplete.
KeptKnown == file \in kept /\ NoTornFile

\* A secret in place is never replaced, so whoever has got one has got that.
SecretKnown ==
  /\ \A c \in handed : c = file /\ c # Absent /\ use = "secret"
  /\ \A w \in Workers :
       op[w] = "secret" /\ answer[w].status = "ok" => answer[w].content = file /\ file # Absent

\* A call that is about to return has replaced what can no longer come back.
ReplacedKnown ==
  /\ ~ rooted => stale = {}
  /\ \A w \in Workers : file \notin before[w]
  /\ \A w \in Workers : pc[w] = "answered" /\ rooted => before[w] \cap kept = {}
  /\ ReturnedStays

IInv == TypeOK /\ StepKnown /\ KeptKnown /\ SecretKnown /\ ReplacedKnown
================================================================================
