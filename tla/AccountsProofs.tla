---------------------------- MODULE AccountsProofs ----------------------------
(***************************************************************************)
(* The properties of Accounts, for any number of workers, names, users and *)
(* tokens.  The inductive invariant IInv has three parts, each kept by     *)
(* every step: types, the discipline of name markers, and the table of     *)
(* sessions.                                                               *)
(***************************************************************************)
EXTENDS Accounts, TLAPS

\* A request that arrives is a registration, a login or an authorization.
LEMMA Arrival ==
  ASSUME TypeOK, NEW w \in Workers, Arrive(w)
  PROVE  \E r \in Request, step \in {"claim_name", "find_user", "read_clock"} :
           /\ Receive(w, r, step)
           /\ step \in {"claim_name", "find_user"} => r.name \in Names
           /\ step = "find_user" => r.op = "log_in"
           /\ step = "read_clock" => r.op = "authorize" /\ r.token \in Tokens
<1>1. CASE \E n \in Names : RegisterUser(w, n)
  <2>1. PICK n \in Names : RegisterUser(w, n)
    BY <1>1
  <2>2. PICK r \in Request : r = [op |-> "register", name |-> n, token |-> None, user |-> None]
    BY DEF Request
  <2> QED BY <2>1, <2>2 DEF RegisterUser
<1>2. CASE \E n \in Names : LogIn(w, n)
  <2>1. PICK n \in Names : LogIn(w, n)
    BY <1>2
  <2>2. PICK r \in Request : r = [op |-> "log_in", name |-> n, token |-> None, user |-> None]
    BY DEF Request
  <2> QED BY <2>1, <2>2 DEF LogIn
<1>3. CASE \E t \in issued, u \in UserIds : Authorize(w, t, u)
  <2>1. PICK t \in issued, u \in UserIds : Authorize(w, t, u)
    BY <1>3
  <2>2. t \in Tokens
    BY <2>1 DEF TypeOK
  <2>3. PICK r \in Request : r = [op |-> "authorize", name |-> None, token |-> t, user |-> u]
    BY <2>1, <2>2 DEF Request
  <2> QED BY <2>1, <2>2, <2>3 DEF Authorize
<1> QED BY <1>1, <1>2, <1>3 DEF Arrive

\* Pruning only removes sessions.
LEMMA PrunedTable ==
  ASSUME TypeOK, NEW t
  PROVE  /\ Pruned(t) \in [Tokens -> Session \cup {None}]
         /\ \A k \in Tokens : Pruned(t)[k] \in {sessions[k], None}
  BY DEF TypeOK, Pruned

\* Every step keeps the types, and every request in progress has what its steps read.
LEMMA TypeStep == IInv /\ [Next]_vars => TypeOK' /\ RequestKnown'
<1> SUFFICES ASSUME IInv, [Next]_vars PROVE TypeOK' /\ RequestKnown'
  OBVIOUS
<1> USE NoneAssumption
<1> USE DEF IInv, TypeOK, RequestKnown, MarkerSteps, Steps
<1>1. ASSUME NEW w \in Workers, NEW r \in Request,
             NEW step \in {"claim_name", "find_user", "read_clock"}, Receive(w, r, step),
             step \in {"claim_name", "find_user"} => r.name \in Names,
             step = "find_user" => r.op = "log_in",
             step = "read_clock" => r.op = "authorize" /\ r.token \in Tokens
      PROVE  TypeOK' /\ RequestKnown'
  <2>1. TypeOK'
    BY <1>1 DEF Receive, Goto, files, Replies
  <2>2. RequestKnown'
    BY <1>1 DEF Receive, Goto, files, Request
  <2> QED BY <2>1, <2>2
<1>2. ASSUME NEW w \in Workers, ClaimName(w) PROVE TypeOK' /\ RequestKnown'
  <2>1. TypeOK'
    BY <1>2 DEF ClaimName, Goto, Answer, files, Replies
  <2>2. RequestKnown'
    BY <1>2 DEF ClaimName, Goto, Answer, files, Request
  <2> QED BY <2>1, <2>2
<1>3. ASSUME NEW w \in Workers, AddRecord(w) PROVE TypeOK' /\ RequestKnown'
  <2>1. TypeOK'
    BY <1>3 DEF AddRecord, Goto, Answer, files, Replies
  <2>2. RequestKnown'
    BY <1>3 DEF AddRecord, Goto, Answer, files, Request
  <2> QED BY <2>1, <2>2
<1>4. ASSUME NEW w \in Workers, ReleaseName(w) PROVE TypeOK' /\ RequestKnown'
  <2>1. TypeOK'
    BY <1>4 DEF ReleaseName, Goto, Answer, files, Replies
  <2>2. RequestKnown'
    BY <1>4 DEF ReleaseName, Goto, Answer, files, Request
  <2> QED BY <2>1, <2>2
<1>5. ASSUME NEW w \in Workers, ReleaseNameFails(w) PROVE TypeOK' /\ RequestKnown'
  <2>1. TypeOK'
    BY <1>5 DEF ReleaseNameFails, Goto, Answer, files, Replies
  <2>2. RequestKnown'
    BY <1>5 DEF ReleaseNameFails, Goto, Answer, files, Request
  <2> QED BY <2>1, <2>2
<1>6. ASSUME NEW w \in Workers, FindUser(w) PROVE TypeOK' /\ RequestKnown'
  <2>1. TypeOK'
    BY <1>6 DEF FindUser, Goto, Answer, files, Replies
  <2>2. RequestKnown'
    BY <1>6 DEF FindUser, Goto, Answer, files, Request
  <2> QED BY <2>1, <2>2
<1>7. ASSUME NEW w \in Workers, ReadClock(w) PROVE TypeOK' /\ RequestKnown'
  <2>1. TypeOK'
    BY <1>7 DEF ReadClock, Goto, Answer, files, Replies
  <2>2. RequestKnown'
    BY <1>7 DEF ReadClock, Goto, Answer, files, Request
  <2> QED BY <2>1, <2>2
<1>8. ASSUME NEW w \in Workers, Issue(w) PROVE TypeOK' /\ RequestKnown'
  <2>1. PICK t \in Tokens \ issued :
          /\ sessions' = [Dropped(Pruned(now[w]), uid[w]) EXCEPT
                            ![t] = [user |-> uid[w], expires |-> now[w] + Lifetime]]
          /\ issued' = issued \cup {t}
    BY <1>8 DEF Issue
  <2>2. [user |-> uid[w], expires |-> now[w] + Lifetime] \in Session
    BY <1>8, LifetimeAssumption DEF Issue, SessionInv, LoginKnown, Session
  <2>3. sessions' \in [Tokens -> Session \cup {None}]
    BY <2>1, <2>2, PrunedTable DEF Dropped
  <2>4. TypeOK'
    BY <1>8, <2>1, <2>3 DEF Issue, Goto, Answer, files, Replies
  <2>5. RequestKnown'
    BY <1>8 DEF Issue, Goto, Answer, files
  <2> QED BY <2>4, <2>5
<1>9. ASSUME NEW w \in Workers, Resolve(w) PROVE TypeOK' /\ RequestKnown'
  <2>1. sessions' \in [Tokens -> Session \cup {None}]
    BY <1>9, PrunedTable DEF Resolve
  <2>2. TypeOK'
    BY <1>9, <2>1 DEF Resolve, Goto, Answer, files, Replies
  <2>3. RequestKnown'
    BY <1>9 DEF Resolve, Goto, Answer, files
  <2> QED BY <2>2, <2>3
<1>10. ASSUME NEW w \in Workers, StepFails(w) PROVE TypeOK' /\ RequestKnown'
  <2>1. TypeOK'
    BY <1>10 DEF StepFails, Goto, Answer, files, Replies
  <2>2. RequestKnown'
    BY <1>10 DEF StepFails, Goto, Answer, files, Request
  <2> QED BY <2>1, <2>2
<1>11. ASSUME NEW w \in Workers, Respond(w) PROVE TypeOK' /\ RequestKnown'
  <2>1. TypeOK'
    BY <1>11 DEF Respond, Goto, Answer, files, Replies
  <2>2. RequestKnown'
    BY <1>11 DEF Respond, Goto, Answer, files, Request
  <2> QED BY <2>1, <2>2
<1>12. CASE Restart
  <2>1. TypeOK'
    BY <1>12 DEF Restart, files, Replies
  <2>2. RequestKnown'
    BY <1>12 DEF Restart, files, Request
  <2> QED BY <2>1, <2>2
<1>13. CASE Tick
  <2>1. TypeOK'
    BY <1>13 DEF Tick, files, local, Replies
  <2>2. RequestKnown'
    BY <1>13 DEF Tick, files, local, Request
  <2> QED BY <2>1, <2>2
<1>14. CASE UNCHANGED vars
  <2>1. TypeOK'
    BY <1>14 DEF vars, files, local, Replies
  <2>2. RequestKnown'
    BY <1>14 DEF vars, files, local, Request
  <2> QED BY <2>1, <2>2
<1> QED BY <1>1, <1>2, <1>3, <1>4, <1>5, <1>6, <1>7, <1>8, <1>9, <1>10, <1>11, <1>12, <1>13, <1>14, Arrival DEF Next, WorkerStep, IInv

\* A step that leaves the names and the requests that own one alone keeps NameInv.
LEMMA QuietStep ==
  ASSUME IInv, UNCHANGED <<files, orphans>>,
         \A v \in Workers :
           /\ pc'[v] \in MarkerSteps <=> pc[v] \in MarkerSteps
           /\ pc[v] \in MarkerSteps => req'[v] = req[v]
  PROVE  NameInv'
<1> USE DEF IInv, NameInv, files
<1>1. NameOwned'
  BY DEF NameOwned
<1>2. OrphansKept'
  BY DEF OrphansKept
<1>3. NamesAccounted'
  <2>1. \A u \in UserIds : users'[u] # None => users'[u] \in markers'
    BY DEF NamesAccounted
  <2>2. ASSUME NEW n \in markers'
        PROVE  \/ \E u \in UserIds : users'[u] = n
               \/ \E v \in Workers : pc'[v] \in MarkerSteps /\ req'[v].name = n
               \/ n \in orphans'
    BY <2>2 DEF NamesAccounted
  <2> QED BY <2>1, <2>2 DEF NamesAccounted
<1>4. UniqueName'
  BY DEF UniqueName
<1> QED BY <1>1, <1>2, <1>3, <1>4

\* Every step keeps the discipline of name markers.
LEMMA NameStep == IInv /\ [Next]_vars => NameInv'
<1> SUFFICES ASSUME IInv, [Next]_vars PROVE NameInv'
  OBVIOUS
<1> USE NoneAssumption
<1> USE DEF IInv, NameInv, TypeOK, RequestKnown, MarkerSteps, Steps
<1>1. ASSUME NEW w \in Workers, NEW r \in Request,
             NEW step \in {"claim_name", "find_user", "read_clock"}, Receive(w, r, step),
             step \in {"claim_name", "find_user"} => r.name \in Names,
             step = "find_user" => r.op = "log_in",
             step = "read_clock" => r.op = "authorize" /\ r.token \in Tokens
      PROVE  NameInv'
  <2>1. NameOwned'
    BY <1>1 DEF Receive, Goto, files, NameOwned, OrphansKept, NamesAccounted
  <2>2. OrphansKept'
    BY <1>1 DEF Receive, Goto, files, OrphansKept, NameOwned, NamesAccounted
  <2>3. NamesAccounted'
    BY <1>1 DEF Receive, Goto, files, NamesAccounted, NameOwned
  <2>4. UniqueName'
    BY <1>1 DEF Receive, Goto, files, UniqueName, NameOwned
  <2> QED BY <2>1, <2>2, <2>3, <2>4
<1>2. ASSUME NEW w \in Workers, ClaimName(w) PROVE NameInv'
  <2>1. NameOwned'
    BY <1>2 DEF ClaimName, Goto, Answer, files, NameOwned, OrphansKept, NamesAccounted
  <2>2. OrphansKept'
    BY <1>2 DEF ClaimName, Goto, Answer, files, OrphansKept, NameOwned, NamesAccounted
  <2>3. NamesAccounted'
    BY <1>2 DEF ClaimName, Goto, Answer, files, NamesAccounted, NameOwned
  <2>4. UniqueName'
    BY <1>2 DEF ClaimName, Goto, Answer, files, UniqueName, NameOwned
  <2> QED BY <2>1, <2>2, <2>3, <2>4
<1>3. ASSUME NEW w \in Workers, AddRecord(w) PROVE NameInv'
  <2>1. NameOwned'
    BY <1>3 DEF AddRecord, Goto, Answer, files, NameOwned, OrphansKept, NamesAccounted
  <2>2. OrphansKept'
    BY <1>3 DEF AddRecord, Goto, Answer, files, OrphansKept, NameOwned, NamesAccounted
  <2>3. NamesAccounted'
    BY <1>3 DEF AddRecord, Goto, Answer, files, NamesAccounted, NameOwned
  <2>4. UniqueName'
    BY <1>3 DEF AddRecord, Goto, Answer, files, UniqueName, NameOwned
  <2> QED BY <2>1, <2>2, <2>3, <2>4
<1>4. ASSUME NEW w \in Workers, ReleaseName(w) PROVE NameInv'
  <2>1. NameOwned'
    BY <1>4 DEF ReleaseName, Goto, Answer, files, NameOwned, OrphansKept, NamesAccounted
  <2>2. OrphansKept'
    BY <1>4 DEF ReleaseName, Goto, Answer, files, OrphansKept, NameOwned, NamesAccounted
  <2>3. NamesAccounted'
    BY <1>4 DEF ReleaseName, Goto, Answer, files, NamesAccounted, NameOwned
  <2>4. UniqueName'
    BY <1>4 DEF ReleaseName, Goto, Answer, files, UniqueName, NameOwned
  <2> QED BY <2>1, <2>2, <2>3, <2>4
<1>5. ASSUME NEW w \in Workers, ReleaseNameFails(w) PROVE NameInv'
  <2>1. NameOwned'
    BY <1>5 DEF ReleaseNameFails, Goto, Answer, files, NameOwned, OrphansKept, NamesAccounted
  <2>2. OrphansKept'
    BY <1>5 DEF ReleaseNameFails, Goto, Answer, files, OrphansKept, NameOwned, NamesAccounted
  <2>3. NamesAccounted'
    BY <1>5 DEF ReleaseNameFails, Goto, Answer, files, NamesAccounted, NameOwned
  <2>4. UniqueName'
    BY <1>5 DEF ReleaseNameFails, Goto, Answer, files, UniqueName, NameOwned
  <2> QED BY <2>1, <2>2, <2>3, <2>4
<1>6. ASSUME NEW w \in Workers, FindUser(w) PROVE NameInv'
  BY <1>6, QuietStep DEF FindUser, Goto, Answer, files, IInv, TypeOK, MarkerSteps, Steps
<1>7. ASSUME NEW w \in Workers, ReadClock(w) PROVE NameInv'
  BY <1>7, QuietStep DEF ReadClock, Goto, Answer, files, IInv, TypeOK, MarkerSteps, Steps
<1>8. ASSUME NEW w \in Workers, Issue(w) PROVE NameInv'
  BY <1>8, QuietStep DEF Issue, Goto, Answer, files, IInv, TypeOK, MarkerSteps, Steps
<1>9. ASSUME NEW w \in Workers, Resolve(w) PROVE NameInv'
  BY <1>9, QuietStep DEF Resolve, Goto, Answer, files, IInv, TypeOK, MarkerSteps, Steps
<1>10. ASSUME NEW w \in Workers, StepFails(w) PROVE NameInv'
  <2>1. NameOwned'
    BY <1>10 DEF StepFails, Goto, Answer, files, NameOwned, OrphansKept, NamesAccounted
  <2>2. OrphansKept'
    BY <1>10 DEF StepFails, Goto, Answer, files, OrphansKept, NameOwned, NamesAccounted
  <2>3. NamesAccounted'
    BY <1>10 DEF StepFails, Goto, Answer, files, NamesAccounted, NameOwned
  <2>4. UniqueName'
    BY <1>10 DEF StepFails, Goto, Answer, files, UniqueName, NameOwned
  <2> QED BY <2>1, <2>2, <2>3, <2>4
<1>11. ASSUME NEW w \in Workers, Respond(w) PROVE NameInv'
  BY <1>11, QuietStep DEF Respond, Goto, Answer, files, IInv, TypeOK, MarkerSteps, Steps
<1>12. CASE Restart
  <2>1. NameOwned'
    BY <1>12 DEF Restart, files, NameOwned, OrphansKept, NamesAccounted
  <2>2. OrphansKept'
    BY <1>12 DEF Restart, files, OrphansKept, NameOwned, NamesAccounted
  <2>3. NamesAccounted'
    BY <1>12 DEF Restart, files, NamesAccounted, NameOwned
  <2>4. UniqueName'
    BY <1>12 DEF Restart, files, UniqueName, NameOwned
  <2> QED BY <2>1, <2>2, <2>3, <2>4
<1>13. CASE Tick
  BY <1>13, QuietStep DEF Tick, local, files
<1>14. CASE UNCHANGED vars
  <2>1. NameOwned'
    BY <1>14 DEF vars, files, local, NameOwned, OrphansKept, NamesAccounted
  <2>2. OrphansKept'
    BY <1>14 DEF vars, files, local, OrphansKept, NameOwned, NamesAccounted
  <2>3. NamesAccounted'
    BY <1>14 DEF vars, files, local, NamesAccounted, NameOwned
  <2>4. UniqueName'
    BY <1>14 DEF vars, files, local, UniqueName, NameOwned
  <2> QED BY <2>1, <2>2, <2>3, <2>4
<1> QED BY <1>1, <1>2, <1>3, <1>4, <1>5, <1>6, <1>7, <1>8, <1>9, <1>10, <1>11, <1>12, <1>13, <1>14, Arrival DEF Next, WorkerStep, IInv

\* Every step keeps one session per user, and a refused token out of the table.
LEMMA SessionStep == IInv /\ [Next]_vars => SessionInv'
<1> SUFFICES ASSUME IInv, [Next]_vars PROVE SessionInv'
  OBVIOUS
<1> USE NoneAssumption
<1> USE DEF IInv, SessionInv, TypeOK, RequestKnown, MarkerSteps, Steps
<1>1. ASSUME NEW w \in Workers, NEW r \in Request,
             NEW step \in {"claim_name", "find_user", "read_clock"}, Receive(w, r, step),
             step \in {"claim_name", "find_user"} => r.name \in Names,
             step = "find_user" => r.op = "log_in",
             step = "read_clock" => r.op = "authorize" /\ r.token \in Tokens
      PROVE  SessionInv'
  <2>1. LoginKnown'
    BY <1>1 DEF Receive, Goto, files, LoginKnown
  <2>2. TokensSpent'
    BY <1>1 DEF Receive, Goto, files, TokensSpent
  <2>3. OneSession'
    BY <1>1 DEF Receive, Goto, files, OneSession, Session
  <2> QED BY <2>1, <2>2, <2>3
<1>2. ASSUME NEW w \in Workers, ClaimName(w) PROVE SessionInv'
  <2>1. LoginKnown'
    BY <1>2 DEF ClaimName, Goto, Answer, files, LoginKnown
  <2>2. TokensSpent'
    BY <1>2 DEF ClaimName, Goto, Answer, files, TokensSpent
  <2>3. OneSession'
    BY <1>2 DEF ClaimName, Goto, Answer, files, OneSession, Session
  <2> QED BY <2>1, <2>2, <2>3
<1>3. ASSUME NEW w \in Workers, AddRecord(w) PROVE SessionInv'
  <2>1. LoginKnown'
    BY <1>3 DEF AddRecord, Goto, Answer, files, LoginKnown
  <2>2. TokensSpent'
    BY <1>3 DEF AddRecord, Goto, Answer, files, TokensSpent
  <2>3. OneSession'
    BY <1>3 DEF AddRecord, Goto, Answer, files, OneSession, Session
  <2> QED BY <2>1, <2>2, <2>3
<1>4. ASSUME NEW w \in Workers, ReleaseName(w) PROVE SessionInv'
  <2>1. LoginKnown'
    BY <1>4 DEF ReleaseName, Goto, Answer, files, LoginKnown
  <2>2. TokensSpent'
    BY <1>4 DEF ReleaseName, Goto, Answer, files, TokensSpent
  <2>3. OneSession'
    BY <1>4 DEF ReleaseName, Goto, Answer, files, OneSession, Session
  <2> QED BY <2>1, <2>2, <2>3
<1>5. ASSUME NEW w \in Workers, ReleaseNameFails(w) PROVE SessionInv'
  <2>1. LoginKnown'
    BY <1>5 DEF ReleaseNameFails, Goto, Answer, files, LoginKnown
  <2>2. TokensSpent'
    BY <1>5 DEF ReleaseNameFails, Goto, Answer, files, TokensSpent
  <2>3. OneSession'
    BY <1>5 DEF ReleaseNameFails, Goto, Answer, files, OneSession, Session
  <2> QED BY <2>1, <2>2, <2>3
<1>6. ASSUME NEW w \in Workers, FindUser(w) PROVE SessionInv'
  <2>1. LoginKnown'
    BY <1>6 DEF FindUser, Goto, Answer, files, LoginKnown
  <2>2. TokensSpent'
    BY <1>6 DEF FindUser, Goto, Answer, files, TokensSpent
  <2>3. OneSession'
    BY <1>6 DEF FindUser, Goto, Answer, files, OneSession, Session
  <2> QED BY <2>1, <2>2, <2>3
<1>7. ASSUME NEW w \in Workers, ReadClock(w) PROVE SessionInv'
  <2>1. LoginKnown'
    BY <1>7 DEF ReadClock, Goto, Answer, files, LoginKnown
  <2>2. TokensSpent'
    BY <1>7 DEF ReadClock, Goto, Answer, files, TokensSpent
  <2>3. OneSession'
    BY <1>7 DEF ReadClock, Goto, Answer, files, OneSession, Session
  <2> QED BY <2>1, <2>2, <2>3
<1>8. ASSUME NEW w \in Workers, Issue(w) PROVE SessionInv'
  <2>1. PICK t \in Tokens \ issued :
          /\ sessions' = [Dropped(Pruned(now[w]), uid[w]) EXCEPT
                            ![t] = [user |-> uid[w], expires |-> now[w] + Lifetime]]
          /\ issued' = issued \cup {t}
    BY <1>8 DEF Issue
  <2>2. ASSUME NEW k \in Tokens, sessions'[k] # None
        PROVE  IF k = t THEN sessions'[k].user = uid[w]
                        ELSE sessions'[k] = sessions[k] /\ sessions[k].user # uid[w]
    BY <2>1, <2>2, PrunedTable DEF Dropped
  <2>3. UNCHANGED <<users, refused>> /\ users[uid[w]] # None
    BY <1>8 DEF Issue, files, LoginKnown
  <2>4. LoginKnown'
    BY <1>8 DEF Issue, Goto, Answer, files, LoginKnown
  <2>5. TokensSpent'
    BY <2>1, <2>2, <2>3 DEF TokensSpent
  <2>6. OneSession'
    BY <2>2, <2>3 DEF OneSession
  <2> QED BY <2>4, <2>5, <2>6
<1>9. ASSUME NEW w \in Workers, Resolve(w) PROVE SessionInv'
  <2>1. /\ sessions' = Pruned(now[w])
        /\ \A k \in Tokens : sessions'[k] # None => sessions'[k] = sessions[k]
    BY <1>9, PrunedTable DEF Resolve
  <2>2. UNCHANGED <<users, issued>>
    BY <1>9 DEF Resolve, files
  <2>3. LoginKnown'
    BY <1>9 DEF Resolve, Goto, Answer, files, LoginKnown
  <2>4. refused' = refused \/ (sessions'[req[w].token] = None /\ refused' \subseteq refused \cup {req[w].token})
    BY <1>9, <2>1 DEF Resolve
  <2>5. TokensSpent'
    BY <2>1, <2>2, <2>4 DEF TokensSpent
  <2>6. OneSession'
    BY <2>1, <2>2 DEF OneSession
  <2> QED BY <2>3, <2>5, <2>6
<1>10. ASSUME NEW w \in Workers, StepFails(w) PROVE SessionInv'
  <2>1. LoginKnown'
    BY <1>10 DEF StepFails, Goto, Answer, files, LoginKnown
  <2>2. TokensSpent'
    BY <1>10 DEF StepFails, Goto, Answer, files, TokensSpent
  <2>3. OneSession'
    BY <1>10 DEF StepFails, Goto, Answer, files, OneSession, Session
  <2> QED BY <2>1, <2>2, <2>3
<1>11. ASSUME NEW w \in Workers, Respond(w) PROVE SessionInv'
  <2>1. LoginKnown'
    BY <1>11 DEF Respond, Goto, Answer, files, LoginKnown
  <2>2. TokensSpent'
    BY <1>11 DEF Respond, Goto, Answer, files, TokensSpent
  <2>3. OneSession'
    BY <1>11 DEF Respond, Goto, Answer, files, OneSession, Session
  <2> QED BY <2>1, <2>2, <2>3
<1>12. CASE Restart
  <2>1. LoginKnown'
    BY <1>12 DEF Restart, files, LoginKnown
  <2>2. TokensSpent'
    BY <1>12 DEF Restart, files, TokensSpent
  <2>3. OneSession'
    BY <1>12 DEF Restart, files, OneSession, Session
  <2> QED BY <2>1, <2>2, <2>3
<1>13. CASE Tick
  <2>1. LoginKnown'
    BY <1>13 DEF Tick, files, local, LoginKnown
  <2>2. TokensSpent'
    BY <1>13 DEF Tick, files, local, TokensSpent
  <2>3. OneSession'
    BY <1>13 DEF Tick, files, local, OneSession, Session
  <2> QED BY <2>1, <2>2, <2>3
<1>14. CASE UNCHANGED vars
  <2>1. LoginKnown'
    BY <1>14 DEF vars, files, local, LoginKnown
  <2>2. TokensSpent'
    BY <1>14 DEF vars, files, local, TokensSpent
  <2>3. OneSession'
    BY <1>14 DEF vars, files, local, OneSession, Session
  <2> QED BY <2>1, <2>2, <2>3
<1> QED BY <1>1, <1>2, <1>3, <1>4, <1>5, <1>6, <1>7, <1>8, <1>9, <1>10, <1>11, <1>12, <1>13, <1>14, Arrival DEF Next, WorkerStep, IInv

\* IInv is an invariant.
THEOREM Invariance == Spec => []IInv
<1>1. Init => IInv
  BY NoneAssumption DEF Init, IInv, TypeOK, RequestKnown, NameInv, NameOwned, OrphansKept,
     NamesAccounted, UniqueName, SessionInv, LoginKnown, TokensSpent, OneSession,
     MarkerSteps, Steps
<1>2. IInv /\ [Next]_vars => IInv'
  BY TypeStep, NameStep, SessionStep DEF IInv
<1> QED BY <1>1, <1>2, PTL DEF Spec

\* The files, the table of sessions and the workers have their types.
THEOREM TypeCorrect == Spec => []TypeOK
<1>1. IInv => TypeOK
  BY DEF IInv
<1> QED BY <1>1, Invariance, PTL

\* add_user never gives one name to two users.
THEOREM NamesUnique == Spec => []UniqueName
<1>1. IInv => UniqueName
  BY DEF IInv, NameInv
<1> QED BY <1>1, Invariance, PTL

\* A name marker without a user has an owner in progress or a recorded loss.
THEOREM NoUnaccountedName == Spec => []NamesAccounted
<1>1. IInv => NamesAccounted
  BY DEF IInv, NameInv
<1> QED BY <1>1, Invariance, PTL

\* However logins race, issue leaves one session per user.
THEOREM SingleSession == Spec => []OneSession
<1>1. IInv => OneSession
  BY DEF IInv, SessionInv
<1> QED BY <1>1, Invariance, PTL

\* resolve never accepts a token it has refused: pruning erased its session.
THEOREM RefusalIsFinal == Spec => RefusedForGood
<1>1. IInv /\ [Next]_vars =>
        [\A w \in Workers : Resolve(w) /\ reply'[w] = "ok" => req[w].token \notin refused]_vars
  <2> SUFFICES ASSUME IInv, NEW w \in Workers, Resolve(w), reply'[w] = "ok"
               PROVE  req[w].token \notin refused
    OBVIOUS
  <2>1. Pruned(now[w])[req[w].token] # None
    BY DEF Resolve, Answer, Goto, IInv, TypeOK
  <2>2. req[w].token \in Tokens
    BY DEF Resolve, IInv, RequestKnown
  <2>3. sessions[req[w].token] # None
    BY <2>1, <2>2, PrunedTable DEF IInv
  <2> QED BY <2>3 DEF IInv, SessionInv, TokensSpent
<1> QED BY <1>1, Invariance, PTL DEF Spec, RefusedForGood

\* Registration implements the directory: linking the record is the one step that binds
\* a name, and no step changes or takes back a binding.
THEOREM Refinement == Spec => ImplementsDirectory
<1> USE NoneAssumption
<1>1. Init => Register!Init
  BY DEF Init, Register!Init, Holder
<1>2. IInv /\ [Next]_vars => [Register!Next]_Holder
  <2> SUFFICES ASSUME IInv, [Next]_vars PROVE [Register!Next]_Holder
    OBVIOUS
  <2>1. CASE users' = users
    BY <2>1 DEF Holder
  <2>2. ASSUME NEW w \in Workers, AddRecord(w), users' # users
        PROVE  Register!Next
    <3>1. PICK u \in UserIds, n \in Names :
            /\ u = uid[w] /\ n = req[w].name /\ users[u] = None
            /\ \A v \in UserIds : users[v] # n
      BY <2>2 DEF AddRecord, IInv, RequestKnown, NameInv, NameOwned, MarkerSteps
    <3>2. \A v \in UserIds : users'[v] = IF v = u THEN n ELSE users[v]
      BY <2>2, <3>1 DEF AddRecord, IInv, TypeOK
    <3>3. Holder[n] = None /\ \A m \in Names : Holder[m] # u
      BY <3>1 DEF Holder
    <3>4. Holder'[n] = u
      <4>1. \A v \in UserIds : users'[v] = n <=> v = u
        BY <3>1, <3>2
      <4> QED BY <4>1 DEF Holder
    <3>5. ASSUME NEW m \in Names, m # n PROVE Holder'[m] = Holder[m]
      <4>1. \A v \in UserIds : users'[v] = m <=> users[v] = m
        BY <3>1, <3>2, <3>5
      <4> QED BY <4>1 DEF Holder
    <3>6. Holder' = [Holder EXCEPT ![n] = u]
      <4>1. /\ Holder = [m \in Names |-> Holder[m]]
            /\ Holder' = [m \in Names |-> Holder'[m]]
        BY DEF Holder
      <4> QED BY <3>4, <3>5, <4>1
    <3> QED BY <3>3, <3>6 DEF Register!Next, Register!Bind
  <2>3. ASSUME NEW w \in Workers, ~ AddRecord(w), Arrive(w) \/ WorkerStep(w)
        PROVE  users' = users
    BY <2>3 DEF Arrive, RegisterUser, LogIn, Authorize, Receive, WorkerStep, ClaimName,
       ReleaseName, ReleaseNameFails, FindUser, ReadClock, Issue, Resolve, StepFails,
       Respond, files
  <2>4. CASE Restart \/ Tick \/ UNCHANGED vars
    BY <2>1, <2>4 DEF Restart, Tick, vars, files
  <2> QED BY <2>1, <2>2, <2>3, <2>4 DEF Next
<1> QED BY <1>1, <1>2, Invariance, PTL DEF Spec, ImplementsDirectory, Register!Spec

================================================================================
