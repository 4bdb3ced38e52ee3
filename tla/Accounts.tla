-------------------------------- MODULE Accounts --------------------------------
(***************************************************************************)
(* Users and sessions: UserService, the user records of the metadata       *)
(* registry, SessionStore and the authorization of Surface.  A name is     *)
(* registered in two files, its marker and the user record, in this order. *)
(* Sessions live in a table under a mutex: what happens inside the mutex   *)
(* is one step, but the clock is read before the mutex is taken.           *)
(***************************************************************************)
EXTENDS Naturals

CONSTANTS
  Workers,      \* threads of the HTTP server
  Names,
  UserIds,      \* identifiers generate_user_id may return
  Tokens,       \* session tokens RAND_bytes may produce
  Lifetime,     \* of a session, in ticks of the clock
  MaxTime,      \* bound of the clock
  Faults,       \* may a file operation fail?
  None          \* an absent file, or no value

Session == [user: UserIds, expires: Nat]
Request == [op: {"register", "log_in", "authorize"}, name: Names \cup {None},
            token: Tokens \cup {None}, user: UserIds \cup {None}]

ASSUME LifetimeAssumption == Lifetime \in Nat \ {0} /\ MaxTime \in Nat
ASSUME NoneAssumption == None \notin Names \cup UserIds \cup Tokens \cup Session \cup Request
ASSUME FaultsAssumption == Faults \in BOOLEAN

VARIABLES
  markers,      \* names with a <digest>.name file
  users,        \* <id>.user: the name of the user
  sessions,     \* the table of SessionStore
  clock,        \* the steady clock
  pc,           \* the next step of the worker
  req,          \* the worker's request
  uid,          \* the identifier it registers or logs in
  now,          \* the time it has read
  reply,        \* the worker's answer
  issued,       \* every token issued so far
  refused,      \* every issued token an authorization has refused
  orphans       \* names whose marker was left by a dead request, or not removed

files == <<markers, users>>
local == <<pc, req, uid, now, reply>>
vars  == <<files, sessions, clock, local, issued, refused, orphans>>

\* The steps at which a request has created a name's marker and not yet the record.
MarkerSteps == {"add_record", "release_taken", "release_failed"}
Steps == {"idle", "claim_name", "find_user", "read_clock", "issue", "resolve", "answered"} \cup MarkerSteps

Replies == {"ok", "user_name_taken", "record_exists", "user_not_found", "authorization_failed",
            "storage_failed"}

TypeOK ==
  /\ markers \subseteq Names
  /\ users \in [UserIds -> Names \cup {None}]
  /\ sessions \in [Tokens -> Session \cup {None}]
  /\ clock \in Nat
  /\ pc \in [Workers -> Steps]
  /\ req \in [Workers -> Request \cup {None}]
  /\ uid \in [Workers -> UserIds \cup {None}]
  /\ now \in [Workers -> Nat \cup {None}]
  /\ reply \in [Workers -> Replies \cup {None}]
  /\ issued \subseteq Tokens
  /\ refused \subseteq issued
  /\ orphans \subseteq Names

Init ==
  /\ markers = {}
  /\ users = [u \in UserIds |-> None]
  /\ sessions = [t \in Tokens |-> None]
  /\ clock = 0
  /\ pc = [w \in Workers |-> "idle"]
  /\ req = [w \in Workers |-> None]
  /\ uid = [w \in Workers |-> None]
  /\ now = [w \in Workers |-> None]
  /\ reply = [w \in Workers |-> None]
  /\ issued = {}
  /\ refused = {}
  /\ orphans = {}

--------------------------------------------------------------------------------
Goto(w, step) == pc' = [pc EXCEPT ![w] = step]

Answer(w, r) ==
  /\ Goto(w, "answered")
  /\ reply' = [reply EXCEPT ![w] = r]

\* prune: the sessions that have not expired at time t.
Pruned(t) ==
  [k \in Tokens |-> IF sessions[k] # None /\ sessions[k].expires <= t THEN None ELSE sessions[k]]

Receive(w, r, step) ==
  /\ pc[w] = "idle"
  /\ req' = [req EXCEPT ![w] = r]
  /\ Goto(w, step)
  /\ UNCHANGED <<files, sessions, clock, uid, now, reply, issued, refused, orphans>>

RegisterUser(w, n) ==
  Receive(w, [op |-> "register", name |-> n, token |-> None, user |-> None], "claim_name")

LogIn(w, n) ==
  Receive(w, [op |-> "log_in", name |-> n, token |-> None, user |-> None], "find_user")

\* The first thing every other handler does with the credentials of its request.
Authorize(w, t, u) ==
  Receive(w, [op |-> "authorize", name |-> None, token |-> t, user |-> u], "read_clock")

--------------------------------------------------------------------------------
\* Mutant: a marker that exists is taken for one's own.
ClaimNameTaken(w) ==
  /\ pc[w] = "claim_name"
  /\ \E u \in UserIds : uid' = [uid EXCEPT ![w] = u]
  /\ markers' = markers \cup {req[w].name}
  /\ Goto(w, "add_record")
  /\ UNCHANGED <<users, sessions, clock, req, now, reply, issued, refused, orphans>>

\* generate_user_id and the first half of add_user: create the name's marker.
ClaimName(w) ==
  /\ pc[w] = "claim_name"
  /\ \E u \in UserIds : uid' = [uid EXCEPT ![w] = u]
  /\ IF req[w].name \in markers
       THEN Answer(w, "user_name_taken") /\ UNCHANGED markers
       ELSE /\ markers' = markers \cup {req[w].name}
            /\ Goto(w, "add_record")
            /\ UNCHANGED reply
  /\ UNCHANGED <<users, sessions, clock, req, now, issued, refused, orphans>>

\* Mutant: the record is written with store_file, which replaces that of another user.
AddRecordReplacing(w) ==
  /\ pc[w] = "add_record"
  /\ users' = [users EXCEPT ![uid[w]] = req[w].name]
  /\ Answer(w, "ok")
  /\ UNCHANGED <<markers, sessions, clock, req, uid, now, issued, refused, orphans>>

\* Mutant: an identifier in use is answered without giving the name back.
AddRecordNoRelease(w) ==
  /\ pc[w] = "add_record"
  /\ IF users[uid[w]] # None
       THEN Answer(w, "record_exists") /\ UNCHANGED users
       ELSE users' = [users EXCEPT ![uid[w]] = req[w].name] /\ Answer(w, "ok")
  /\ UNCHANGED <<markers, sessions, clock, req, uid, now, issued, refused, orphans>>

\* The second half of add_user: link the record, or give the name back.
AddRecord(w) ==
  /\ pc[w] = "add_record"
  /\ IF users[uid[w]] # None
       THEN Goto(w, "release_taken") /\ UNCHANGED <<users, reply>>
       ELSE users' = [users EXCEPT ![uid[w]] = req[w].name] /\ Answer(w, "ok")
  /\ UNCHANGED <<markers, sessions, clock, req, uid, now, issued, refused, orphans>>

\* release_marker: remove the marker and answer the original error.
ReleaseName(w) ==
  /\ pc[w] \in {"release_taken", "release_failed"}
  /\ markers' = markers \ {req[w].name}
  /\ Answer(w, IF pc[w] = "release_taken" THEN "record_exists" ELSE "storage_failed")
  /\ UNCHANGED <<users, sessions, clock, req, uid, now, issued, refused, orphans>>

\* release_marker when the removal fails: the marker stays.
ReleaseNameFails(w) ==
  /\ Faults
  /\ pc[w] \in {"release_taken", "release_failed"}
  /\ orphans' = orphans \cup {req[w].name}
  /\ Answer(w, "storage_failed")
  /\ UNCHANGED <<files, sessions, clock, req, uid, now, issued, refused>>

\* log_in: find_user_by_name scans the user records.
FindUser(w) ==
  /\ pc[w] = "find_user"
  /\ \/ \E u \in UserIds :
          /\ users[u] = req[w].name
          /\ uid' = [uid EXCEPT ![w] = u]
          /\ Goto(w, "read_clock")
          /\ UNCHANGED reply
     \/ /\ \A u \in UserIds : users[u] # req[w].name
        /\ Answer(w, "user_not_found")
        /\ UNCHANGED uid
  /\ UNCHANGED <<files, sessions, clock, req, now, issued, refused, orphans>>

\* issue and resolve read the clock before they take the mutex.
ReadClock(w) ==
  /\ pc[w] = "read_clock"
  /\ now' = [now EXCEPT ![w] = clock]
  /\ Goto(w, IF req[w].op = "log_in" THEN "issue" ELSE "resolve")
  /\ UNCHANGED <<files, sessions, clock, req, uid, reply, issued, refused, orphans>>

\* drop_sessions_of: the table without the sessions of user u.
Dropped(table, u) ==
  [t \in Tokens |-> IF table[t] # None /\ table[t].user = u THEN None ELSE table[t]]

\* Mutant: issue does not drop the sessions of the user.
IssueKeepingSessions(w) ==
  /\ pc[w] = "issue"
  /\ \E t \in Tokens \ issued :
       /\ sessions' =
            [Pruned(now[w]) EXCEPT ![t] = [user |-> uid[w], expires |-> now[w] + Lifetime]]
       /\ issued' = issued \cup {t}
  /\ Answer(w, "ok")
  /\ UNCHANGED <<files, clock, req, uid, now, refused, orphans>>

\* SessionStore::issue inside the mutex: prune, drop_sessions_of, insert.
Issue(w) ==
  /\ pc[w] = "issue"
  /\ \E t \in Tokens \ issued :
       /\ sessions' = [Dropped(Pruned(now[w]), uid[w]) EXCEPT
                         ![t] = [user |-> uid[w], expires |-> now[w] + Lifetime]]
       /\ issued' = issued \cup {t}
  /\ Answer(w, "ok")
  /\ UNCHANGED <<files, clock, req, uid, now, refused, orphans>>

\* Mutant: resolve compares the expiry and erases nothing.
ResolveWithoutPrune(w) ==
  /\ pc[w] = "resolve"
  /\ LET session == Pruned(now[w])[req[w].token] IN
       IF session # None /\ session.user = req[w].user
         THEN Answer(w, "ok") /\ UNCHANGED refused
         ELSE /\ Answer(w, "authorization_failed")
              /\ refused' = IF session = None THEN refused \cup ({req[w].token} \cap issued) ELSE refused
  /\ UNCHANGED <<files, sessions, clock, req, uid, now, issued, orphans>>

\* SessionStore::resolve inside the mutex, and the comparison in authorized.
Resolve(w) ==
  /\ pc[w] = "resolve"
  /\ sessions' = Pruned(now[w])
  /\ LET session == Pruned(now[w])[req[w].token] IN
       IF session # None /\ session.user = req[w].user
         THEN Answer(w, "ok") /\ UNCHANGED refused
         ELSE /\ Answer(w, "authorization_failed")
              /\ refused' = IF session = None THEN refused \cup ({req[w].token} \cap issued) ELSE refused
  /\ UNCHANGED <<files, clock, req, uid, now, issued, orphans>>

\* Any other file operation or call of the random generator may fail.
StepFails(w) ==
  /\ Faults
  /\ pc[w] \in {"claim_name", "add_record", "find_user", "issue"}
  /\ IF pc[w] = "add_record"
       THEN Goto(w, "release_failed") /\ UNCHANGED reply
       ELSE Answer(w, "storage_failed")
  /\ UNCHANGED <<files, sessions, clock, req, uid, now, issued, refused, orphans>>

Respond(w) ==
  /\ pc[w] = "answered"
  /\ Goto(w, "idle")
  /\ req' = [req EXCEPT ![w] = None]
  /\ uid' = [uid EXCEPT ![w] = None]
  /\ now' = [now EXCEPT ![w] = None]
  /\ reply' = [reply EXCEPT ![w] = None]
  /\ UNCHANGED <<files, sessions, clock, issued, refused, orphans>>

\* The process dies and is started again: the files stay, the sessions do not.
Restart ==
  /\ pc' = [w \in Workers |-> "idle"]
  /\ req' = [w \in Workers |-> None]
  /\ uid' = [w \in Workers |-> None]
  /\ now' = [w \in Workers |-> None]
  /\ reply' = [w \in Workers |-> None]
  /\ sessions' = [t \in Tokens |-> None]
  /\ orphans' = orphans \cup {req[w].name : w \in {v \in Workers : pc[v] \in MarkerSteps}}
  /\ UNCHANGED <<files, clock, issued, refused>>

Tick ==
  /\ clock < MaxTime
  /\ clock' = clock + 1
  /\ UNCHANGED <<files, sessions, local, issued, refused, orphans>>

Arrive(w) ==
  \/ \E n \in Names : RegisterUser(w, n) \/ LogIn(w, n)
  \/ \E t \in issued, u \in UserIds : Authorize(w, t, u)

WorkerStep(w) ==
  \/ ClaimName(w) \/ AddRecord(w) \/ ReleaseName(w) \/ ReleaseNameFails(w)
  \/ FindUser(w) \/ ReadClock(w) \/ Issue(w) \/ Resolve(w)
  \/ StepFails(w) \/ Respond(w)

Next ==
  \/ \E w \in Workers : Arrive(w) \/ WorkerStep(w)
  \/ Restart
  \/ Tick

Spec == Init /\ [][Next]_vars

--------------------------------------------------------------------------------
\* Two users never share a name, whoever races for it (add_user), and find_user_by_name,
\* which takes the first match, has no choice.
UniqueName ==
  \A u, v \in UserIds : users[u] # None /\ users[u] = users[v] => u = v

\* Every user's name has its marker, and a marker without a user belongs to a request in
\* progress, or to one that died or failed to remove it.
NamesAccounted ==
  /\ \A u \in UserIds : users[u] # None => users[u] \in markers
  /\ \A n \in markers :
       \/ \E u \in UserIds : users[u] = n
       \/ \E w \in Workers : pc[w] \in MarkerSteps /\ req[w].name = n
       \/ n \in orphans

\* A login annuls the sessions before it: a user has at most one, of a registered user.
OneSession ==
  \A s, t \in Tokens : sessions[s] # None =>
    /\ users[sessions[s].user] # None
    /\ sessions[t] # None /\ sessions[s].user = sessions[t].user => s = t

\* A token that was refused once is never accepted again, although a slower request may
\* judge it by an earlier time.
RefusedForGood ==
  [][\A w \in Workers :
       Resolve(w) /\ reply'[w] = "ok" => req[w].token \notin refused]_vars

--------------------------------------------------------------------------------
(* The inductive invariant of the proofs. *)

\* A request in progress has what its next step reads.
RequestKnown ==
  \A w \in Workers :
    /\ pc[w] # "idle" => req[w] \in Request
    /\ pc[w] \in {"claim_name", "find_user"} \cup MarkerSteps => req[w].name \in Names
    /\ pc[w] = "find_user" => req[w].op = "log_in"
    /\ pc[w] \in MarkerSteps => uid[w] \in UserIds
    /\ pc[w] = "read_clock" /\ req[w].op # "log_in" => req[w].token \in Tokens
    /\ pc[w] = "resolve" => req[w].token \in Tokens /\ now[w] \in Nat
    /\ pc[w] = "issue" => now[w] \in Nat

\* Between marker and record a request is the only one to own the name, and nobody has it.
NameOwned ==
  \A w \in Workers : pc[w] \in MarkerSteps =>
    /\ req[w].name \in markers \ orphans
    /\ \A u \in UserIds : users[u] # req[w].name
    /\ \A v \in Workers : pc[v] \in MarkerSteps /\ req[v].name = req[w].name => v = w

\* The name of an orphaned marker never gets a user.
OrphansKept ==
  \A n \in orphans : n \in markers /\ \A u \in UserIds : users[u] # n

NameInv == NameOwned /\ OrphansKept /\ NamesAccounted /\ UniqueName

\* A login works for a registered user.
LoginKnown ==
  \A w \in Workers :
    pc[w] = "issue" \/ (pc[w] = "read_clock" /\ req[w].op = "log_in") =>
      uid[w] \in UserIds /\ users[uid[w]] # None

\* A token in the table was issued, and one that was refused is no longer there.
TokensSpent ==
  /\ \A t \in Tokens : sessions[t] # None => t \in issued
  /\ \A t \in refused : sessions[t] = None

SessionInv == LoginKnown /\ TokensSpent /\ OneSession

IInv == TypeOK /\ RequestKnown /\ NameInv /\ SessionInv

--------------------------------------------------------------------------------
\* The user of every registered name.
Holder ==
  [n \in Names |-> IF \E u \in UserIds : users[u] = n
                     THEN CHOOSE u \in UserIds : users[u] = n ELSE None]

Register == INSTANCE Directory WITH holder <- Holder, Nobody <- None

\* Registration implements the directory: a name is bound once and for ever.
ImplementsDirectory == Register!Spec
================================================================================
