-------------------------------- MODULE TlsFiles --------------------------------
(***************************************************************************)
(* The server's certificate: load_or_create_certificate, called by every   *)
(* server process that starts on a data directory, and what main reads of  *)
(* the pair before it serves.  The certificate and its key are two files,  *)
(* written one after the other through pending files of fixed names, under *)
(* a lock the system frees when a process dies.  A certificate is the key  *)
(* it is made for.                                                         *)
(***************************************************************************)
EXTENDS Naturals

CONSTANTS
  Processes,    \* server processes started on one data directory
  Keys,         \* keys make_key may return
  Torn,         \* a file that has been opened for writing and not yet written
  None          \* an absent file, or no value

ASSUME ValuesAssumption == None \notin Keys /\ Torn \notin Keys /\ None # Torn
ASSUME ProcessesAssumption == None \notin Processes

Files == {"certificate", "key"}

\* What main takes from the pair after it has it, one file read each: the two digests it
\* prints, and the two files the TLS server loads.
Reads == {"fingerprint", "pin", "certificate", "key"}

VARIABLES
  disk,         \* server.crt and server.key
  pending,      \* server.crt.pending and server.key.pending
  lock,         \* the process that holds tls.lock
  pc,           \* what the process does next
  file,         \* the file it writes
  mine,         \* the key it has made
  generated,    \* every key make_key has returned so far
  loaded,       \* what it has read of the pair
  misread       \* history: a process with the lock took a pair in place for missing

vars == <<disk, pending, lock, pc, file, mine, generated, loaded, misread>>

\* The steps of writing a file, and those between the pair and serving.
WriteSteps == {"open", "write", "rename"}
ReadSteps == {"fingerprint", "pin", "load_certificate", "load_key"}
Steps == {"idle", "look_certificate", "look_key", "lock", "make", "serving", "failed"}
           \cup WriteSteps \cup ReadSteps

Nothing == [r \in Reads |-> None]

TypeOK ==
  /\ disk \in [Files -> Keys \cup {None, Torn}]
  /\ pending \in [Files -> Keys \cup {None, Torn}]
  /\ lock \in Processes \cup {None}
  /\ pc \in [Processes -> Steps]
  /\ file \in [Processes -> Files]
  /\ mine \in [Processes -> Keys \cup {None}]
  /\ generated \subseteq Keys
  /\ loaded \in [Processes -> [Reads -> Keys \cup {None, Torn}]]
  /\ misread \in BOOLEAN

Init ==
  /\ disk = [f \in Files |-> None]
  /\ pending = [f \in Files |-> None]
  /\ lock = None
  /\ pc = [p \in Processes |-> "idle"]
  /\ file = [p \in Processes |-> "certificate"]
  /\ mine = [p \in Processes |-> None]
  /\ generated = {}
  /\ loaded = [p \in Processes |-> Nothing]
  /\ misread = FALSE

--------------------------------------------------------------------------------
PairPresent == disk["certificate"] # None /\ disk["key"] # None

Goto(p, step) == pc' = [pc EXCEPT ![p] = step]

\* ~LockFile: whoever returns gives the lock back.
Unlock(p) == lock' = IF lock = p THEN None ELSE lock

\* pair_present has found the file missing: take the lock and look again, or, with the
\* lock in hand, make the pair.
Absent(p) == Goto(p, IF lock = p THEN "make" ELSE "lock") /\ UNCHANGED lock

Start(p) ==
  /\ pc[p] = "idle"
  /\ Goto(p, "look_certificate")
  /\ UNCHANGED <<disk, pending, lock, file, mine, generated, loaded, misread>>

\* Mutant: pair_present looks for the certificate only.
LookCertificateOnly(p) ==
  /\ pc[p] = "look_certificate"
  /\ IF disk["certificate"] # None THEN Goto(p, "fingerprint") /\ Unlock(p) ELSE Absent(p)
  /\ UNCHANGED <<disk, pending, file, mine, generated, loaded, misread>>

\* pair_present looks for the two files, one after the other.
LookCertificate(p) ==
  /\ pc[p] = "look_certificate"
  /\ IF disk["certificate"] # None THEN Goto(p, "look_key") /\ UNCHANGED lock ELSE Absent(p)
  /\ UNCHANGED <<disk, pending, file, mine, generated, loaded, misread>>

LookKey(p) ==
  /\ pc[p] = "look_key"
  /\ IF disk["key"] # None THEN Goto(p, "fingerprint") /\ Unlock(p) ELSE Absent(p)
  /\ UNCHANGED <<disk, pending, file, mine, generated, loaded, misread>>

\* A look that ends in an error counts as a missing file.
LookFails(p) ==
  /\ pc[p] \in {"look_certificate", "look_key"}
  /\ Absent(p)
  /\ misread' = (misread \/ (lock = p /\ PairPresent))
  /\ UNCHANGED <<disk, pending, file, mine, generated, loaded>>

\* Mutant: the pair is made without looking again.
AcquireAndMake(p) ==
  /\ pc[p] = "lock"
  /\ lock = None
  /\ lock' = p
  /\ Goto(p, "make")
  /\ UNCHANGED <<disk, pending, file, mine, generated, loaded, misread>>

\* create_directories and acquire_lock.
Acquire(p) ==
  /\ pc[p] = "lock"
  /\ lock = None
  /\ lock' = p
  /\ Goto(p, "look_certificate")
  /\ UNCHANGED <<disk, pending, file, mine, generated, loaded, misread>>

\* make_key and make_certificate.
Make(p) ==
  /\ pc[p] = "make"
  /\ \E k \in Keys \ generated :
       /\ mine' = [mine EXCEPT ![p] = k]
       /\ generated' = generated \cup {k}
  /\ file' = [file EXCEPT ![p] = "certificate"]
  /\ Goto(p, "open")
  /\ UNCHANGED <<disk, pending, lock, loaded, misread>>

\* write_file opens the pending file, which another process may have left, and empties it.
Open(p) ==
  /\ pc[p] = "open"
  /\ pending' = [pending EXCEPT ![file[p]] = Torn]
  /\ Goto(p, "write")
  /\ UNCHANGED <<disk, lock, file, mine, generated, loaded, misread>>

Write(p) ==
  /\ pc[p] = "write"
  /\ pending' = [pending EXCEPT ![file[p]] = mine[p]]
  /\ Goto(p, "rename")
  /\ UNCHANGED <<disk, lock, file, mine, generated, loaded, misread>>

\* write_file moves the file into place; write_files goes on with the key.
Rename(p) ==
  /\ pc[p] = "rename"
  /\ pending[file[p]] # None
  /\ disk' = [disk EXCEPT ![file[p]] = pending[file[p]]]
  /\ pending' = [pending EXCEPT ![file[p]] = None]
  /\ IF file[p] = "certificate"
       THEN file' = [file EXCEPT ![p] = "key"] /\ Goto(p, "open") /\ UNCHANGED lock
       ELSE Goto(p, "fingerprint") /\ Unlock(p) /\ UNCHANGED file
  /\ UNCHANGED <<mine, generated, loaded, misread>>

--------------------------------------------------------------------------------
\* One read of a file of the pair.
Load(p, r, f) ==
  /\ disk[f] # None
  /\ loaded' = [loaded EXCEPT ![p][r] = disk[f]]
  /\ UNCHANGED <<disk, pending, lock, file, mine, generated, misread>>

\* certificate_fingerprint
ReadFingerprint(p) ==
  /\ pc[p] = "fingerprint"
  /\ Load(p, "fingerprint", "certificate")
  /\ Goto(p, "pin")

\* key_pin opens the certificate again.
ReadPin(p) ==
  /\ pc[p] = "pin"
  /\ Load(p, "pin", "certificate")
  /\ Goto(p, "load_certificate")

\* The TLS server loads the certificate, and then a key it refuses if it does not fit.
LoadCertificate(p) ==
  /\ pc[p] = "load_certificate"
  /\ Load(p, "certificate", "certificate")
  /\ Goto(p, "load_key")

LoadKey(p) ==
  /\ pc[p] = "load_key"
  /\ Load(p, "key", "key")
  /\ Goto(p, IF loaded[p]["certificate"] = disk["key"] THEN "serving" ELSE "failed")

--------------------------------------------------------------------------------

\* Any call may fail; what was written to the pending file is removed, if that works.
Fail(p) ==
  /\ pc[p] \in {"lock", "make"} \cup WriteSteps \cup ReadSteps
  /\ Goto(p, "failed")
  /\ Unlock(p)
  /\ \/ pc[p] \in {"write", "rename"} /\ pending' = [pending EXCEPT ![file[p]] = None]
     \/ UNCHANGED pending
  /\ UNCHANGED <<disk, file, mine, generated, loaded, misread>>

\* Mutant: a process that ends takes the pair with it.
ExitRemovingPair(p) ==
  /\ pc[p] # "idle"
  /\ Goto(p, "idle")
  /\ Unlock(p)
  /\ disk' = IF pc[p] = "serving" THEN [f \in Files |-> None] ELSE disk
  /\ loaded' = [loaded EXCEPT ![p] = Nothing]
  /\ UNCHANGED <<pending, file, mine, generated, misread>>

\* The process ends, at whatever point: the system frees the lock, the files stay.
Exit(p) ==
  /\ pc[p] # "idle"
  /\ Goto(p, "idle")
  /\ Unlock(p)
  /\ loaded' = [loaded EXCEPT ![p] = Nothing]
  /\ UNCHANGED <<disk, pending, file, mine, generated, misread>>

Next ==
  \E p \in Processes :
    \/ Start(p) \/ LookCertificate(p) \/ LookKey(p) \/ LookFails(p) \/ Acquire(p)
    \/ Make(p) \/ Open(p) \/ Write(p) \/ Rename(p)
    \/ ReadFingerprint(p) \/ ReadPin(p) \/ LoadCertificate(p) \/ LoadKey(p)
    \/ Fail(p) \/ Exit(p)

Spec == Init /\ [][Next]_vars

--------------------------------------------------------------------------------
\* Whatever processes start together, fail or die, server.key is never without the
\* certificate made for it: the pair in place is whole and fits.  The one exception is a
\* pair that pair_present could not see.
PairMatches ==
  ~misread /\ disk["key"] # None => disk["key"] \in Keys /\ disk["certificate"] = disk["key"]

\* A pair in place is never replaced, unless pair_present could not see it: the pin
\* clients hold stays good over restarts.
PairKept == [][PairPresent /\ ~misread => UNCHANGED disk]_vars

\* The pair stands for every read of process p up to its step: it is in place, and unless
\* it could not be seen, what p has read so far is this pair.
ReadOf(step) ==
  CASE step = "pin" -> {"fingerprint"}
    [] step = "load_certificate" -> {"fingerprint", "pin"}
    [] step = "load_key" -> {"fingerprint", "pin", "certificate"}
    [] step = "serving" -> Reads
    [] OTHER -> {}

ReadsPair(p) ==
  PairPresent /\ (~misread => \A r \in ReadOf(pc[p]) : loaded[p][r] = disk["key"])

\* A process that serves has the pair in place, and serves with it what it has printed: the
\* fingerprint, the pin, the certificate and the key, read one after the other with the
\* lock free, are those of one pair, unless pair_present could not see it.
ServesPair == \A p \in Processes : pc[p] = "serving" => ReadsPair(p)

--------------------------------------------------------------------------------
(* The inductive invariant. *)

\* Whoever makes or writes the pair holds the lock, so there is one, and the key is
\* missing, or was misread as missing.
WriterAlone ==
  \A p \in Processes : pc[p] \in {"make"} \cup WriteSteps =>
    lock = p /\ (misread \/ disk["key"] = None)

\* The pending file is what its writer has written, and the certificate in place is the
\* one made for the key being written.
WriterKnown ==
  \A p \in Processes :
    /\ pc[p] \in WriteSteps => mine[p] \in Keys
    /\ pc[p] = "rename" => pending[file[p]] = mine[p]
    /\ pc[p] \in WriteSteps /\ file[p] = "key" => disk["certificate"] = mine[p]

\* A process looks for the key only after it has seen a certificate, which stays.
LooksKnown == \A p \in Processes : pc[p] = "look_key" => disk["certificate"] # None

\* A process that has the pair reads nothing else.
ReadsKnown == \A p \in Processes : pc[p] \in ReadSteps => ReadsPair(p)

PairInv == PairMatches /\ ServesPair /\ WriterAlone /\ WriterKnown /\ LooksKnown /\ ReadsKnown

IInv == TypeOK /\ PairInv
================================================================================
