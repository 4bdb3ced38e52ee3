--------------------------- MODULE FileStorageProofs ---------------------------
(***************************************************************************)
(* The properties of FileStorage, for any number of threads and calls.     *)
(* Nothing incomplete ever takes the path, a secret in place is never      *)
(* replaced, and a synced directory forgets what was replaced; each        *)
(* operation has its effect in the one step that renames, links, creates,  *)
(* removes or reads the path.                                              *)
(***************************************************************************)
EXTENDS FileStorage, TLAPS

\* Which operations a path is used with, spelled out.
LEMMA UsesKnown ==
  /\ DOMAIN Uses = {"secret", "claim", "marker", "content"}
  /\ Uses["secret"] = {"secret"}
  /\ Uses["claim"] = {"claim", "remove"}
  /\ Uses["marker"] = {"if_absent", "load", "remove"}
  /\ Uses["content"] = {"store", "load"}
BY DEF Uses

\* A path used with load_or_create_secret is used with nothing else.
LEMMA SecretUse ==
  ASSUME TypeOK, NEW o \in Uses[use]
  PROVE  o \in Operations /\ (o = "secret" <=> use = "secret")
<1>1. use \in {"secret", "claim", "marker", "content"}
  BY UsesKnown DEF TypeOK
<1> QED BY <1>1, UsesKnown DEF Operations

\* The contents are numbers, and Torn is none of them.
LEMMA ContentsKnown ==
  /\ Contents \subseteq Nat /\ Absent \in Contents /\ Torn \notin Contents
  /\ Waiting.status = "none" /\ Waiting.content = Absent
BY MaxCallsAssumption DEF Contents, Absent, Torn, Waiting

\* What Finish and Put write has its type.
LEMMA FinishType ==
  ASSUME TypeOK, NEW w \in Workers, NEW c \in Contents \cup {Torn},
         NEW s \in {"none", "ok", "present", "missing", "failed"}, Finish(w, s, c)
  PROVE  /\ answer' \in [Workers -> [status: {"none", "ok", "present", "missing", "failed"},
                                     content: Contents \cup {Torn}]]
         /\ pending' \in [Workers -> Contents \cup {Torn}]
<1>1. [status |-> s, content |-> c] \in [status: {"none", "ok", "present", "missing", "failed"},
                                        content: Contents \cup {Torn}]
  OBVIOUS
<1> QED BY <1>1, ContentsKnown DEF Finish, TypeOK

LEMMA PutType ==
  ASSUME TypeOK, NEW c \in Contents \cup {Torn}, Put(c)
  PROVE  /\ file' \in Contents \cup {Torn} /\ kept' \subseteq Contents \cup {Torn}
         /\ stale' \subseteq Contents \cup {Torn}
         /\ Forget(c) \in [Workers -> SUBSET (Contents \cup {Torn})]
BY DEF Put, Forget, TypeOK

LEMMA PlaceType ==
  ASSUME TypeOK, NEW w \in Workers, Place(w)
  PROVE  /\ file' \in Contents \cup {Torn} /\ kept' \subseteq Contents \cup {Torn}
         /\ stale' \subseteq Contents \cup {Torn}
         /\ before' \in [Workers -> SUBSET (Contents \cup {Torn})]
         /\ answer' \in [Workers -> [status: {"none", "ok", "present", "missing", "failed"},
                                     content: Contents \cup {Torn}]]
         /\ pending' \in [Workers -> Contents \cup {Torn}]
<1>1. pending[w] \in Contents \cup {Torn} /\ Put(pending[w])
  BY DEF Place, TypeOK
<1>2. Survivors \ {pending[w]} \in SUBSET (Contents \cup {Torn})
  BY ContentsKnown DEF Survivors, TypeOK
<1>3. before' \in [Workers -> SUBSET (Contents \cup {Torn})]
  BY <1>1, <1>2, PutType DEF Place
<1>4. (IF op[w] = "secret" THEN mine[w] ELSE Absent) \in Contents \cup {Torn}
  BY ContentsKnown DEF TypeOK
<1>5. Finish(w, "ok", IF op[w] = "secret" THEN mine[w] ELSE Absent)
  BY DEF Place
<1> QED BY <1>1, <1>3, <1>4, <1>5, PutType, FinishType

\* Every step keeps the types.
LEMMA TypeStep == IInv /\ [Next]_vars => TypeOK'
<1> SUFFICES ASSUME IInv, [Next]_vars PROVE TypeOK'
  OBVIOUS
<1> USE MaxCallsAssumption, ContentsKnown
<1> USE DEF IInv, TypeOK, Steps, Goto, durable, history
<1>1. ASSUME NEW w \in Workers, Begin(w) PROVE TypeOK'
  <2>1. PICK o \in Uses[use] :
          /\ o \in Writing => calls < MaxCalls
          /\ calls' = IF o \in Writing THEN calls + 1 ELSE calls
          /\ op' = [op EXCEPT ![w] = o]
          /\ mine' = [mine EXCEPT ![w] = IF o \in Writing THEN calls + 1 ELSE Absent]
          /\ Goto(w, CASE o = "secret" -> "look"
                       [] o \in {"store", "if_absent"} -> "open"
                       [] OTHER -> o)
    BY <1>1 DEF Begin
  <2>2. o \in Operations
    BY SecretUse
  <2>3. pc' \in [Workers -> Steps] /\ op' \in [Workers -> Operations \cup {"none"}]
    BY <2>1, <2>2 DEF Operations
  <2>4. calls' \in 0 .. MaxCalls /\ (o \in Writing => calls + 1 \in Contents)
    BY <2>1 DEF Contents, Absent
  <2>5. mine' \in [Workers -> Contents]
    BY <2>1, <2>4
  <2> QED BY <1>1, <2>3, <2>4, <2>5 DEF Begin
<1>2. ASSUME NEW w \in Workers, Look(w) \/ Open(w) \/ Write(w) PROVE TypeOK'
  <2>1. CASE Look(w)
    BY <2>1 DEF Look
  <2>2. CASE Open(w)
    BY <2>2 DEF Open
  <2>3. CASE Write(w)
    BY <2>3 DEF Write
  <2> QED BY <1>2, <2>1, <2>2, <2>3
<1>3. ASSUME NEW w \in Workers, Rename(w) \/ Link(w) PROVE TypeOK'
  <2>1. CASE Place(w)
    BY <1>3, <2>1, PlaceType DEF Rename, Link
  <2>2. CASE ~ Place(w)
    <3>1. /\ op[w] = "secret" => pending' = [pending EXCEPT ![w] = Absent] /\ answer' = answer
          /\ op[w] # "secret" => Finish(w, "present", Absent)
      BY <1>3, <2>2 DEF Rename, Link
    <3>2. pc' \in [Workers -> Steps]
      BY <1>3, <2>2 DEF Rename, Link
    <3>3. op[w] # "secret" => TypeOK'
      BY <1>3, <2>2, <3>1, <3>2, FinishType DEF Rename, Link
    <3>4. op[w] = "secret" => TypeOK'
      BY <1>3, <2>2, <3>1, <3>2 DEF Rename, Link
    <3> QED BY <3>3, <3>4
  <2> QED BY <2>1, <2>2
<1>4. ASSUME NEW w \in Workers, SyncDirectory(w) PROVE TypeOK'
  BY <1>4 DEF SyncDirectory
<1>5. ASSUME NEW w \in Workers, Load(w) \/ Fail(w) PROVE TypeOK'
  <2>1. CASE Load(w)
    <3> DEFINE s == IF file # Absent THEN "ok" ELSE IF op[w] = "secret" THEN "failed" ELSE "missing"
    <3>1. s \in {"none", "ok", "present", "missing", "failed"} /\ Finish(w, s, file)
      BY <2>1 DEF Load
    <3> HIDE DEF s
    <3> QED BY <2>1, <3>1, FinishType DEF Load
  <2>2. CASE Fail(w)
    BY <2>2, FinishType DEF Fail
  <2> QED BY <1>5, <2>1, <2>2
<1>6. ASSUME NEW w \in Workers, Claim(w) \/ Remove(w) PROVE TypeOK'
  <2>1. CASE Claim(w)
    <3>1. CASE file = Absent
      <4>1. mine[w] \in Contents \cup {Torn} /\ Put(mine[w]) /\ Finish(w, "ok", Absent)
        BY <2>1, <3>1 DEF Claim
      <4>2. before' = Forget(mine[w]) /\ pc' \in [Workers -> Steps]
        BY <2>1, <3>1 DEF Claim
      <4> QED BY <2>1, <4>1, <4>2, PutType, FinishType DEF Claim
    <3>2. CASE file # Absent
      BY <2>1, <3>2, FinishType DEF Claim
    <3> QED BY <3>1, <3>2
  <2>2. CASE Remove(w)
    BY <2>2, PutType, FinishType DEF Remove
  <2> QED BY <1>6, <2>1, <2>2
<1>7. ASSUME NEW w \in Workers, Return(w) PROVE TypeOK'
  BY <1>7 DEF Return, Waiting
<1>8. CASE WriteBack
  BY <1>8 DEF WriteBack
<1>9. CASE Crash \/ PowerLoss
  <2>1. CASE Crash
    BY <2>1 DEF Crash, Halt, Waiting
  <2>2. CASE PowerLoss
    <3>1. CASE file' \in kept /\ rooted' = TRUE
      BY <2>2, <3>1 DEF PowerLoss, Halt, Waiting
    <3>2. CASE file' = Absent /\ rooted' = FALSE
      BY <2>2, <3>2 DEF PowerLoss, Halt, Waiting
    <3> QED BY <2>2, <3>1, <3>2 DEF PowerLoss
  <2> QED BY <1>9, <2>1, <2>2
<1>10. CASE UNCHANGED vars
  BY <1>10 DEF vars
<1> QED BY <1>1, <1>2, <1>3, <1>4, <1>5, <1>6, <1>7, <1>8, <1>9, <1>10 DEF Next, WorkerStep

\* Every step keeps what is known of the workers.
LEMMA WorkStep == IInv /\ [Next]_vars => StepKnown'
<1> SUFFICES ASSUME IInv, [Next]_vars PROVE StepKnown'
  OBVIOUS
<1> USE ContentsKnown
<1> USE DEF IInv, TypeOK, StepKnown, Goto, durable, history
<1>1. ASSUME NEW w \in Workers, Begin(w) PROVE StepKnown'
  <2>1. PICK o \in Uses[use] :
          /\ op' = [op EXCEPT ![w] = o]
          /\ mine' = [mine EXCEPT ![w] = IF o \in Writing THEN calls + 1 ELSE Absent]
          /\ Goto(w, CASE o = "secret" -> "look"
                       [] o \in {"store", "if_absent"} -> "open"
                       [] OTHER -> o)
    BY <1>1 DEF Begin
  <2>2. o \in Operations
    BY SecretUse
  <2>3. calls + 1 # Absent
    BY MaxCallsAssumption DEF Absent
  <2> QED BY <1>1, <2>1, <2>2, <2>3 DEF Begin, Operations
<1>2. ASSUME NEW w \in Workers, Look(w) \/ Open(w) \/ Write(w) PROVE StepKnown'
  BY <1>2 DEF Look, Open, Write
<1>3. ASSUME NEW w \in Workers, Rename(w) \/ Link(w) PROVE StepKnown'
  <2>1. \A x \in Workers : x # w => /\ pc'[x] = pc[x] /\ op'[x] = op[x] /\ mine'[x] = mine[x]
                                  /\ pending'[x] = pending[x] /\ answer'[x] = answer[x]
    BY <1>3 DEF Rename, Link, Place, Finish
  <2>2. \A x \in Workers : x # w => before'[x] \subseteq before[x]
    <3>1. CASE Place(w)
      BY <3>1 DEF Place, Forget
    <3>2. CASE before' = before
      BY <3>2
    <3> QED BY <1>3, <3>1, <3>2 DEF Rename, Link
  <2>3. use' = use /\ op'[w] = op[w] /\ mine'[w] = mine[w] /\ pc'[w] \in {"sync", "answered", "load"}
    BY <1>3 DEF Rename, Link
  <2>4. /\ pc'[w] = "load" => op[w] = "secret" /\ answer'[w] = answer[w] /\ before'[w] = before[w]
        /\ pc'[w] # "load" => answer'[w].status # "none"
    BY <1>3 DEF Rename, Link, Place, Finish
  <2> QED BY <1>3, <2>1, <2>2, <2>3, <2>4 DEF Rename, Link
<1>4. ASSUME NEW w \in Workers, SyncDirectory(w) PROVE StepKnown'
  BY <1>4 DEF SyncDirectory
<1>5. ASSUME NEW w \in Workers, Load(w) \/ Fail(w) PROVE StepKnown'
  BY <1>5 DEF Load, Fail, Finish
<1>6. ASSUME NEW w \in Workers, Claim(w) \/ Remove(w) PROVE StepKnown'
  BY <1>6 DEF Claim, Remove, Put, Forget, Finish
<1>7. ASSUME NEW w \in Workers, Return(w) PROVE StepKnown'
  BY <1>7 DEF Return, Writing
<1>8. CASE WriteBack
  BY <1>8 DEF WriteBack
<1>9. CASE Crash \/ PowerLoss
  BY <1>9 DEF Crash, PowerLoss, Halt, Writing
<1>10. CASE UNCHANGED vars
  BY <1>10 DEF vars
<1> QED BY <1>1, <1>2, <1>3, <1>4, <1>5, <1>6, <1>7, <1>8, <1>9, <1>10 DEF Next, WorkerStep

\* What the path may hold, spelled out.
LEMMA SurvivorsKnown ==
  /\ Survivors = IF rooted THEN kept ELSE kept \cup {Absent}
  /\ NoTornFile <=> /\ file # Torn /\ Torn \notin kept
                    /\ \A w \in Workers : answer[w].content # Torn
<1>1. Absent # Torn
  BY DEF Absent, Torn
<1>2. Torn \notin {answer[w].content : w \in Workers} <=> \A w \in Workers : answer[w].content # Torn
  OBVIOUS
<1> QED BY <1>1, <1>2 DEF Survivors, NoTornFile

\* The same of the next state.
LEMMA SurvivorsNext ==
  /\ Survivors' = IF rooted' THEN kept' ELSE kept' \cup {Absent}
  /\ NoTornFile' <=> /\ file' # Torn /\ Torn \notin kept'
                     /\ \A w \in Workers : answer'[w].content # Torn
<1>1. Absent # Torn
  BY DEF Absent, Torn
<1>2. Torn \notin {answer'[w].content : w \in Workers} <=> \A w \in Workers : answer'[w].content # Torn
  OBVIOUS
<1> QED BY <1>1, <1>2 DEF Survivors, NoTornFile

\* The steps that may change the path, and what they leave behind: a complete content
\* that no other worker takes for gone.
LEMMA PlaceEffect ==
  ASSUME IInv, NEW w \in Workers, pc[w] = "commit", Place(w)
  PROVE  /\ file' = mine[w] /\ file' \in Contents /\ file' # Absent
         /\ kept' = kept \cup {file'} /\ stale' = stale \ {file'}
         /\ answer' = [answer EXCEPT ![w] = [status |-> "ok",
                         content |-> IF op[w] = "secret" THEN mine[w] ELSE Absent]]
         /\ file' \notin before'[w]
         /\ \A x \in Workers : x # w => before'[x] = before[x] \ {file'}
<1>1. pending[w] = mine[w] /\ mine[w] \in Contents /\ mine[w] # Absent
  BY DEF IInv, StepKnown, TypeOK, Writing
<1> QED BY <1>1 DEF Place, Put, Forget, Finish, IInv, TypeOK

\* Every step keeps what the path holds among what may stay, and complete.
LEMMA KeptStep == IInv /\ [Next]_vars => KeptKnown'
<1> SUFFICES ASSUME IInv, [Next]_vars PROVE KeptKnown'
  OBVIOUS
<1>0. /\ file \in kept /\ file # Torn /\ Torn \notin kept
      /\ \A w \in Workers : answer[w].content # Torn
  BY SurvivorsKnown DEF IInv, KeptKnown
<1>t. answer \in [Workers -> [status: {"none", "ok", "present", "missing", "failed"},
                              content: Contents \cup {Torn}]]
  BY DEF IInv, TypeOK
<1> SUFFICES /\ file' \in kept' /\ file' # Torn /\ Torn \notin kept'
             /\ \A w \in Workers : answer'[w].content # Torn
  BY SurvivorsNext DEF KeptKnown
<1> USE ContentsKnown
<1> USE DEF durable
<1> DEFINE Goal == /\ file' \in kept' /\ file' # Torn /\ Torn \notin kept'
                   /\ \A w \in Workers : answer'[w].content # Torn
<1>1. ASSUME NEW w \in Workers, Begin(w) \/ Look(w) \/ Open(w) \/ Write(w) PROVE Goal
  BY <1>0, <1>1 DEF Begin, Look, Open, Write
<1>2. ASSUME NEW w \in Workers, Rename(w) \/ Link(w) PROVE Goal
  <2>1. CASE Place(w)
    <3>1. pc[w] = "commit" /\ mine[w] \in Contents
      BY <1>2 DEF Rename, Link, IInv, TypeOK
    <3> QED BY <1>0, <1>t, <2>1, <3>1, PlaceEffect
  <2>2. CASE ~ Place(w)
    BY <1>0, <1>t, <1>2, <2>2 DEF Rename, Link, Finish
  <2> QED BY <2>1, <2>2
<1>3. ASSUME NEW w \in Workers, SyncDirectory(w) PROVE Goal
  BY <1>0, <1>3 DEF SyncDirectory
<1>4. ASSUME NEW w \in Workers, Load(w) \/ Fail(w) PROVE Goal
  BY <1>0, <1>t, <1>4 DEF Load, Fail, Finish
<1>5. ASSUME NEW w \in Workers, Claim(w) \/ Remove(w) PROVE Goal
  <2>1. mine[w] \in Contents
    BY DEF IInv, TypeOK
  <2> QED BY <1>0, <1>t, <1>5, <2>1 DEF Claim, Remove, Put, Finish
<1>6. ASSUME NEW w \in Workers, Return(w) PROVE Goal
  BY <1>0, <1>t, <1>6 DEF Return
<1>7. CASE WriteBack
  BY <1>0, <1>7 DEF WriteBack
<1>8. CASE Crash \/ PowerLoss
  BY <1>0, <1>8 DEF Crash, PowerLoss, Halt
<1>9. CASE UNCHANGED vars
  BY <1>0, <1>9 DEF vars
<1> QED BY <1>1, <1>2, <1>3, <1>4, <1>5, <1>6, <1>7, <1>8, <1>9 DEF Next, WorkerStep

\* Every step keeps a secret in place, and the callers that have one with that one.
LEMMA SecretStep == IInv /\ [Next]_vars => SecretKnown'
<1> SUFFICES ASSUME IInv, [Next]_vars PROVE SecretKnown'
  OBVIOUS
<1>0. \A x \in Workers : /\ op[x] # "none" => op[x] \in Uses[use]
                         /\ op[x] = "secret" => use = "secret"
  BY SecretUse DEF IInv, StepKnown
<1> USE ContentsKnown
<1> USE DEF IInv, TypeOK, SecretKnown, durable, history
<1>1. ASSUME NEW w \in Workers, Begin(w) PROVE SecretKnown'
  <2>1. answer[w].status = "none"
    BY <1>1 DEF Begin, StepKnown
  <2> QED BY <1>1, <2>1 DEF Begin
<1>2. ASSUME NEW w \in Workers, Look(w) \/ Open(w) \/ Write(w) PROVE SecretKnown'
  <2>1. UNCHANGED <<use, file, op, answer, handed>>
    BY <1>2 DEF Look, Open, Write
  <2> QED BY <2>1
<1>3. ASSUME NEW w \in Workers, Rename(w) PROVE SecretKnown'
  <2>1. use # "secret"
    BY <1>0, <1>3, SecretUse DEF Rename
  <2> QED BY <1>0, <1>3, <2>1 DEF Rename
<1>4. ASSUME NEW w \in Workers, Link(w) PROVE SecretKnown'
  <2>1. CASE file = Absent
    <3>1. pc[w] = "commit" /\ Place(w)
      BY <1>4, <2>1 DEF Link
    <3>2. handed' = {} /\ op' = op
      BY <1>4, <2>1 DEF Link
    <3>3. \A x \in Workers : ~ (op[x] = "secret" /\ answer[x].status = "ok")
      BY <2>1
    <3>4. /\ file' = mine[w] /\ file' # Absent
          /\ answer' = [answer EXCEPT ![w] = [status |-> "ok",
                          content |-> IF op[w] = "secret" THEN mine[w] ELSE Absent]]
      BY <3>1, PlaceEffect
    <3> QED BY <3>2, <3>3, <3>4
  <2>2. CASE file # Absent
    BY <1>4, <2>2 DEF Link, Finish
  <2> QED BY <2>1, <2>2
<1>5. ASSUME NEW w \in Workers, SyncDirectory(w) PROVE SecretKnown'
  BY <1>5 DEF SyncDirectory
<1>6. ASSUME NEW w \in Workers, Load(w) \/ Fail(w) PROVE SecretKnown'
  <2>1. UNCHANGED <<use, file, op, handed>>
    BY <1>6 DEF Load, Fail
  <2>2. \A x \in Workers : x # w => answer'[x] = answer[x]
    BY <1>6 DEF Load, Fail, Finish
  <2>3. answer'[w].status = "ok" => answer'[w].content = file /\ file # Absent
    BY <1>6 DEF Load, Fail, Finish
  <2> QED BY <2>1, <2>2, <2>3
<1>7. ASSUME NEW w \in Workers, Claim(w) \/ Remove(w) PROVE SecretKnown'
  <2>1. op[w] \in {"claim", "remove"} /\ op[w] \in Uses[use]
    BY <1>0, <1>7 DEF Claim, Remove, StepKnown
  <2>2. use # "secret"
    BY <2>1, SecretUse
  <2> QED BY <1>0, <1>7, <2>2 DEF Claim, Remove
<1>8. ASSUME NEW w \in Workers, Return(w) PROVE SecretKnown'
  BY <1>0, <1>8 DEF Return
<1>9. CASE WriteBack
  BY <1>9 DEF WriteBack
<1>10. CASE Crash \/ PowerLoss
  BY <1>10 DEF Crash, PowerLoss, Halt
<1>11. CASE UNCHANGED vars
  BY <1>11 DEF vars
<1> QED BY <1>1, <1>2, <1>3, <1>4, <1>5, <1>6, <1>7, <1>8, <1>9, <1>10, <1>11 DEF Next, WorkerStep

\* Every step keeps what was replaced apart from what may come back.
LEMMA ReplacedStep == IInv /\ [Next]_vars => ReplacedKnown'
<1> SUFFICES ASSUME IInv, [Next]_vars PROVE ReplacedKnown'
  OBVIOUS
<1> DEFINE S == IF rooted THEN kept ELSE kept \cup {Absent}
           Sn == IF rooted' THEN kept' ELSE kept' \cup {Absent}
<1>0. /\ ~ rooted => stale = {}
      /\ \A x \in Workers : file \notin before[x]
      /\ \A x \in Workers : pc[x] = "answered" /\ rooted => before[x] \cap kept = {}
      /\ S \cap stale = {}
      /\ file \in kept
  BY SurvivorsKnown DEF IInv, ReplacedKnown, ReturnedStays, KeptKnown
<1>t. /\ before \in [Workers -> SUBSET (Contents \cup {Torn})]
      /\ pc \in [Workers -> Steps] /\ rooted \in BOOLEAN
      /\ \A x \in Workers : pc[x] \notin {"sync", "answered"} => before[x] = {}
  BY DEF IInv, TypeOK, StepKnown
<1> DEFINE Goal == /\ ~ rooted' => stale' = {}
                   /\ \A x \in Workers : file' \notin before'[x]
                   /\ \A x \in Workers : pc'[x] = "answered" /\ rooted' => before'[x] \cap kept' = {}
                   /\ Sn \cap stale' = {}
<1> SUFFICES Goal
  BY SurvivorsNext DEF ReplacedKnown, ReturnedStays
<1> USE DEF durable, history, Goto
<1>1. ASSUME NEW w \in Workers, Begin(w) \/ Look(w) \/ Open(w) \/ Write(w) PROVE Goal
  <2>1. UNCHANGED <<file, kept, rooted, before, stale>>
    BY <1>1 DEF Begin, Look, Open, Write
  <2>2. \A x \in Workers : x # w => pc'[x] = pc[x]
    BY <1>t, <1>1 DEF Begin, Look, Open, Write
  <2>3. before[w] = {}
    BY <1>t, <1>1 DEF Begin, Look, Open, Write
  <2> QED BY <1>0, <2>1, <2>2, <2>3
<1>2. ASSUME NEW w \in Workers, Rename(w) \/ Link(w) PROVE Goal
  <2>1. CASE Rename(w) \/ file = Absent
    <3>1. pc[w] = "commit" /\ UNCHANGED rooted /\ Place(w)
      BY <1>2, <2>1 DEF Rename, Link
    <3>2. pc' = [pc EXCEPT ![w] = "sync"]
      BY <1>2, <2>1 DEF Rename, Link
    <3>3. /\ kept' = kept \cup {file'} /\ stale' = stale \ {file'}
          /\ file' \notin before'[w] /\ file' # Absent
          /\ \A x \in Workers : x # w => before'[x] = before[x] \ {file'}
      BY <3>1, PlaceEffect
    <3> QED BY <1>0, <1>t, <3>1, <3>2, <3>3
  <2>2. CASE ~ Rename(w) /\ file # Absent
    <3>1. UNCHANGED <<file, kept, rooted, before, stale>> /\ before[w] = {}
      BY <1>t, <1>2, <2>2 DEF Link
    <3>2. \A x \in Workers : x # w => pc'[x] = pc[x]
      BY <1>t, <1>2, <2>2 DEF Link
    <3> QED BY <1>0, <3>1, <3>2
  <2> QED BY <2>1, <2>2
<1>3. ASSUME NEW w \in Workers, SyncDirectory(w) PROVE Goal
  <2>1. /\ UNCHANGED <<file, rooted, stale>>
        /\ pc' = [pc EXCEPT ![w] = "answered"]
    BY <1>3 DEF SyncDirectory
  <2>2. CASE kept' = {file} /\ UNCHANGED before
    BY <1>0, <2>1, <2>2
  <2>3. CASE before' = [before EXCEPT ![w] = {}] /\ UNCHANGED kept
    BY <1>0, <1>t, <2>1, <2>3
  <2> QED BY <1>3, <2>2, <2>3 DEF SyncDirectory
<1>4. ASSUME NEW w \in Workers, Load(w) \/ Fail(w) PROVE Goal
  <2>1. UNCHANGED <<file, kept, rooted, before, stale>> /\ before[w] = {}
    BY <1>t, <1>4 DEF Load, Fail
  <2>2. \A x \in Workers : x # w => pc'[x] = pc[x]
    BY <1>t, <1>4 DEF Load, Fail
  <2> QED BY <1>0, <2>1, <2>2
<1>5. ASSUME NEW w \in Workers, Claim(w) \/ Remove(w) PROVE Goal
  <2>1. UNCHANGED rooted /\ before[w] = {} /\ \A x \in Workers : x # w => pc'[x] = pc[x]
    BY <1>t, <1>5 DEF Claim, Remove
  <2>2. CASE /\ kept' = kept \cup {file'} /\ stale' = stale \ {file'}
             /\ before' = Forget(file')
    <3>1. \A x \in Workers : before'[x] = before[x] \ {file'}
      BY <2>2 DEF Forget
    <3> QED BY <1>0, <2>1, <2>2, <3>1
  <2>3. CASE UNCHANGED <<file, kept, before, stale>>
    BY <1>0, <2>1, <2>3
  <2> QED BY <1>5, <2>2, <2>3 DEF Claim, Remove, Put
<1>6. ASSUME NEW w \in Workers, Return(w) PROVE Goal
  <2>1. /\ UNCHANGED <<file, kept, rooted>> /\ pc[w] = "answered"
        /\ stale' = IF rooted THEN stale \cup before[w] ELSE stale
        /\ before' = [before EXCEPT ![w] = {}]
        /\ pc' = [pc EXCEPT ![w] = "idle"]
    BY <1>6 DEF Return
  <2>2. \A x \in Workers : before'[x] \subseteq before[x] /\ (pc'[x] = "answered" => pc[x] = "answered")
    BY <1>t, <2>1
  <2>3. CASE rooted
    BY <1>0, <2>1, <2>2, <2>3
  <2>4. CASE ~ rooted
    BY <1>0, <2>1, <2>2, <2>4
  <2> QED BY <2>3, <2>4
<1>7. CASE WriteBack
  BY <1>0, <1>7 DEF WriteBack
<1>8. CASE Crash
  BY <1>0, <1>8 DEF Crash, Halt
<1>9. CASE PowerLoss
  BY <1>0, <1>9 DEF PowerLoss, Halt
<1>10. CASE UNCHANGED vars
  BY <1>0, <1>10 DEF vars
<1> QED BY <1>1, <1>2, <1>3, <1>4, <1>5, <1>6, <1>7, <1>8, <1>9, <1>10 DEF Next, WorkerStep

\* What the program starts with, and every step keeps, for any number of threads that
\* store, link, claim, remove and load, and whatever fails, dies or is lost.
THEOREM Invariance == Spec => []IInv
<1>1. Init => IInv
  <2> SUFFICES ASSUME Init PROVE IInv
    OBVIOUS
  <2>1. TypeOK
    <3>1. calls \in 0 .. MaxCalls
      BY MaxCallsAssumption DEF Init
    <3>2. Waiting \in [status: {"none", "ok", "present", "missing", "failed"},
                       content: Contents \cup {Torn}]
      BY ContentsKnown DEF Waiting
    <3> QED BY <3>1, <3>2, ContentsKnown DEF Init, TypeOK, Steps
  <2>2. StepKnown
    BY ContentsKnown DEF Init, StepKnown, Writing
  <2>3. KeptKnown
    BY SurvivorsKnown, ContentsKnown DEF Init, KeptKnown, Absent, Torn
  <2>4. SecretKnown
    BY ContentsKnown DEF Init, SecretKnown
  <2>5. ReplacedKnown
    BY DEF Init, ReplacedKnown, ReturnedStays
  <2> QED BY <2>1, <2>2, <2>3, <2>4, <2>5 DEF IInv
<1>2. IInv /\ [Next]_vars => IInv'
  <2>1. TypeOK' /\ StepKnown' /\ KeptKnown' /\ SecretKnown' /\ ReplacedKnown' => IInv'
    BY DEF IInv
  <2> QED BY <2>1, TypeStep, WorkStep, KeptStep, SecretStep, ReplacedStep
<1> QED BY <1>1, <1>2, PTL DEF Spec

\* The variables keep their types.
THEOREM TypeCorrect == Spec => []TypeOK
<1>1. IInv => TypeOK
  BY DEF IInv
<1> QED BY <1>1, Invariance, PTL

\* write_and_sync before rename or link: no half-written file is ever found, now or
\* after a power loss.
THEOREM NoTornFileCorrect == Spec => []NoTornFile
<1>1. IInv => NoTornFile
  BY DEF IInv, KeptKnown
<1> QED BY <1>1, Invariance, PTL

\* load_or_create_secret: however many threads race to create it, the secrets they
\* return are the one in place.
THEOREM SecretAgreementCorrect == Spec => []SecretAgreement
<1>1. IInv => SecretAgreement
  BY DEF IInv, SecretKnown, SecretAgreement
<1> QED BY <1>1, Invariance, PTL

\* store_file and sync_directory: what a returned call has replaced does not come back.
THEOREM ReturnedStaysCorrect == Spec => []ReturnedStays
<1>1. IInv => ReturnedStays
  BY DEF IInv, ReplacedKnown
<1> QED BY <1>1, Invariance, PTL

--------------------------------------------------------------------------------
\* An operation's effect is the abstract one, if its answer, the path and what may come
\* back are.
LEMMA EffectIs ==
  ASSUME IInv, NEW w \in Workers, pc[w] \notin {"idle", "sync", "answered"},
         NEW r, r = [op |-> op[w], content |-> mine[w]],
         file' = Atomic!After(r, file), kept' = kept \cup {file'}, UNCHANGED <<rooted, op, mine>>,
         answer' = [answer EXCEPT ![w] = Atomic!Answer(r, file)]
  PROVE  Atomic!TakeEffect(w)
<1>1. op[w] # "none" /\ answer[w] = Waiting
  <2>1. op[w] \in Operations
    BY SecretUse DEF IInv, StepKnown
  <2> QED BY <2>1 DEF Operations, IInv, StepKnown
<1>2. r # Atomic!Idle /\ Atomic!Waiting = Waiting
  BY <1>1 DEF Atomic!Idle, Atomic!Waiting, Waiting
<1>3. Survivors' = Survivors \cup {file'}
  BY SurvivorsKnown, SurvivorsNext
<1> QED BY <1>1, <1>2, <1>3 DEF Atomic!TakeEffect

\* A failed operation is refused.
LEMMA RefusalIs ==
  ASSUME IInv, NEW w \in Workers, pc[w] \notin {"idle", "sync", "answered"},
         Finish(w, "failed", Absent), UNCHANGED <<file, kept, rooted, op, mine>>
  PROVE  Atomic!Refuse(w)
<1>1. op[w] # "none" /\ answer[w] = Waiting
  <2>1. op[w] \in Operations
    BY SecretUse DEF IInv, StepKnown
  <2> QED BY <2>1 DEF Operations, IInv, StepKnown
<1>2. [op |-> op[w], content |-> mine[w]] # Atomic!Idle /\ Atomic!Waiting = Waiting
  BY <1>1 DEF Atomic!Idle, Atomic!Waiting, Waiting
<1>3. Survivors' = Survivors
  BY SurvivorsKnown, SurvivorsNext
<1> QED BY <1>1, <1>2, <1>3 DEF Atomic!Refuse, Finish

\* Every step of the file operations is one of the abstract file, or none.
LEMMA RefinementStep == IInv /\ [Next]_vars => [Atomic!Next]_(Atomic!avars)
<1> SUFFICES ASSUME IInv, [Next]_vars PROVE [Atomic!Next]_(Atomic!avars)
  OBVIOUS
<1> USE DEF durable, history
<1>0. file \in kept /\ file \in Survivors
  BY SurvivorsKnown DEF IInv, KeptKnown
<1>t. /\ mine \in [Workers -> Contents] /\ op \in [Workers -> Operations \cup {"none"}]
      /\ answer \in [Workers -> [status: {"none", "ok", "present", "missing", "failed"},
                                 content: Contents \cup {Torn}]]
  BY DEF IInv, TypeOK
<1>s. ASSUME UNCHANGED <<file, kept, rooted, op, mine, answer>> PROVE UNCHANGED Atomic!avars
  BY <1>s DEF Atomic!avars, Survivors
<1>1. ASSUME NEW w \in Workers, Begin(w) PROVE Atomic!Ask(w)
  <2>1. PICK o \in Uses[use] : op' = [op EXCEPT ![w] = o]
    BY <1>1 DEF Begin
  <2>2. o \in Operations /\ mine' \in [Workers -> Contents]
    BY <2>1, SecretUse, TypeStep DEF IInv, TypeOK
  <2>3. /\ op[w] = "none" /\ mine[w] = Absent
        /\ \A x \in Workers : x # w => mine'[x] = mine[x]
    BY <1>1, <1>t DEF Begin, IInv, StepKnown
  <2>4. [x \in Workers |-> [op |-> op'[x], content |-> mine'[x]]] =
          [[x \in Workers |-> [op |-> op[x], content |-> mine[x]]]
             EXCEPT ![w] = [op |-> o, content |-> mine'[w]]]
    BY <1>t, <2>1, <2>2, <2>3
  <2>5. UNCHANGED <<file, Survivors, answer>>
    BY <1>1 DEF Begin, Survivors
  <2> QED BY <2>2, <2>3, <2>4, <2>5 DEF Atomic!Ask, Atomic!Idle, Atomic!Operations, Operations
<1>2. ASSUME NEW w \in Workers, Look(w) \/ Open(w) \/ Write(w) PROVE UNCHANGED Atomic!avars
  BY <1>s, <1>2 DEF Look, Open, Write
<1>3. ASSUME NEW w \in Workers, Rename(w) PROVE Atomic!TakeEffect(w)
  <2> DEFINE r == [op |-> op[w], content |-> mine[w]]
  <2>1. pc[w] = "commit" /\ op[w] = "store" /\ Place(w) /\ UNCHANGED <<rooted, op, mine>>
    BY <1>3 DEF Rename
  <2>2. Atomic!After(r, file) = mine[w] /\ Atomic!Answer(r, file) = [status |-> "ok", content |-> Absent]
    BY <2>1 DEF Atomic!After, Atomic!Answer
  <2> QED BY <2>1, <2>2, PlaceEffect, EffectIs
<1>4. ASSUME NEW w \in Workers, Link(w) PROVE Atomic!TakeEffect(w) \/ UNCHANGED Atomic!avars
  <2> DEFINE r == [op |-> op[w], content |-> mine[w]]
  <2>1. pc[w] = "commit" /\ op[w] \in {"if_absent", "secret"} /\ UNCHANGED <<rooted, op, mine>>
    BY <1>4 DEF Link
  <2>2. CASE file = Absent
    <3>1. Place(w)
      BY <1>4, <2>2 DEF Link
    <3>2. /\ Atomic!After(r, file) = mine[w]
          /\ Atomic!Answer(r, file) = [status |-> "ok",
                                       content |-> IF op[w] = "secret" THEN mine[w] ELSE Absent]
      BY <2>1, <2>2 DEF Atomic!After, Atomic!Answer
    <3> QED BY <2>1, <3>1, <3>2, PlaceEffect, EffectIs
  <2>3. CASE file # Absent /\ op[w] = "if_absent"
    <3>1. Finish(w, "present", Absent) /\ UNCHANGED <<file, kept>>
      BY <1>4, <2>3 DEF Link
    <3>2. /\ Atomic!After(r, file) = file
          /\ Atomic!Answer(r, file) = [status |-> "present", content |-> Absent]
      BY <2>3 DEF Atomic!After, Atomic!Answer
    <3> QED BY <1>0, <2>1, <3>1, <3>2, EffectIs DEF Finish
  <2>4. CASE file # Absent /\ op[w] = "secret"
    BY <1>4, <1>s, <2>4 DEF Link
  <2> QED BY <2>1, <2>2, <2>3, <2>4
<1>5. ASSUME NEW w \in Workers, SyncDirectory(w) PROVE Atomic!Sync
  <2>1. UNCHANGED <<file, rooted, op, mine, answer>> /\ (kept' = {file} \/ UNCHANGED kept)
    BY <1>5 DEF SyncDirectory
  <2> QED BY <1>0, <2>1, SurvivorsKnown, SurvivorsNext DEF Atomic!Sync
<1>6. ASSUME NEW w \in Workers, Load(w) PROVE Atomic!TakeEffect(w) \/ Atomic!Refuse(w)
  <2> DEFINE r == [op |-> op[w], content |-> mine[w]]
  <2>1. pc[w] = "load" /\ op[w] \in {"load", "secret"} /\ UNCHANGED <<file, kept, rooted, op, mine>>
    BY <1>6 DEF Load, IInv, StepKnown
  <2>2. CASE op[w] = "secret" /\ file = Absent
    <3>1. Finish(w, "failed", Absent)
      BY <1>6, <2>2 DEF Load
    <3> QED BY <2>1, <3>1, RefusalIs
  <2>3. CASE op[w] = "load" \/ file # Absent
    <3>1. answer' = [answer EXCEPT ![w] = [status |-> IF file = Absent THEN "missing" ELSE "ok",
                                           content |-> file]]
      BY <1>6, <2>1, <2>3 DEF Load, Finish
    <3>2. /\ Atomic!After(r, file) = file
          /\ Atomic!Answer(r, file) = [status |-> IF file = Absent THEN "missing" ELSE "ok",
                                       content |-> file]
      BY <2>1, <2>3 DEF Atomic!After, Atomic!Answer
    <3> QED BY <1>0, <2>1, <3>1, <3>2, EffectIs
  <2> QED BY <2>1, <2>2, <2>3
<1>7. ASSUME NEW w \in Workers, Claim(w) PROVE Atomic!TakeEffect(w)
  <2> DEFINE r == [op |-> op[w], content |-> mine[w]]
  <2>1. pc[w] = "claim" /\ op[w] = "claim" /\ UNCHANGED <<rooted, op, mine>>
    BY <1>7 DEF Claim, IInv, StepKnown
  <2>2. /\ file' = IF file = Absent THEN mine[w] ELSE file
        /\ kept' = kept \cup {file'}
        /\ answer' = [answer EXCEPT ![w] = [status |-> IF file = Absent THEN "ok" ELSE "present",
                                            content |-> Absent]]
    BY <1>0, <1>7 DEF Claim, Put, Finish
  <2>3. /\ Atomic!After(r, file) = IF file = Absent THEN mine[w] ELSE file
        /\ Atomic!Answer(r, file) = [status |-> IF file = Absent THEN "ok" ELSE "present",
                                     content |-> Absent]
    BY <2>1 DEF Atomic!After, Atomic!Answer
  <2> QED BY <2>1, <2>2, <2>3, EffectIs
<1>8. ASSUME NEW w \in Workers, Remove(w) PROVE Atomic!TakeEffect(w)
  <2> DEFINE r == [op |-> op[w], content |-> mine[w]]
  <2>1. pc[w] = "remove" /\ op[w] = "remove" /\ UNCHANGED <<rooted, op, mine>>
    BY <1>8 DEF Remove, IInv, StepKnown
  <2>2. Atomic!After(r, file) = Absent /\ Atomic!Answer(r, file) = [status |-> "ok", content |-> Absent]
    BY <2>1 DEF Atomic!After, Atomic!Answer
  <2> QED BY <1>8, <2>1, <2>2, EffectIs DEF Remove, Put, Finish
<1>9. ASSUME NEW w \in Workers, Fail(w) PROVE Atomic!Refuse(w)
  BY <1>9, RefusalIs DEF Fail
<1>10. ASSUME NEW w \in Workers, Return(w) PROVE Atomic!Return(w)
  <2>1. answer[w] # Waiting
    BY <1>10, ContentsKnown DEF Return, IInv, StepKnown
  <2>2. [x \in Workers |-> [op |-> op'[x], content |-> mine'[x]]] =
          [[x \in Workers |-> [op |-> op[x], content |-> mine[x]]] EXCEPT ![w] = Atomic!Idle]
    BY <1>t, <1>10 DEF Return, Atomic!Idle
  <2>3. UNCHANGED <<file, Survivors>>
    BY <1>10 DEF Return, Survivors
  <2> QED BY <1>10, <2>1, <2>2, <2>3 DEF Return, Atomic!Return, Atomic!Waiting, Waiting
<1>11. CASE WriteBack
  <2>1. Atomic!Sync
    BY <1>0, <1>11, SurvivorsKnown, SurvivorsNext DEF WriteBack, Atomic!Sync
  <2> QED BY <2>1 DEF Atomic!Next
<1>12. ASSUME Halt PROVE Atomic!Die
  BY <1>12 DEF Halt, Atomic!Die, Atomic!Idle, Atomic!Waiting, Waiting
<1>13. CASE Crash
  <2>1. Atomic!Crash
    BY <1>12, <1>13 DEF Crash, Atomic!Crash, Survivors
  <2> QED BY <2>1 DEF Atomic!Next
<1>14. CASE PowerLoss
  <2>1. file' \in Survivors /\ Survivors' = {file'}
    BY <1>14, SurvivorsKnown, SurvivorsNext DEF PowerLoss
  <2>2. Atomic!PowerLoss
    BY <1>12, <1>14, <2>1 DEF PowerLoss, Atomic!PowerLoss
  <2> QED BY <2>2 DEF Atomic!Next
<1>15. CASE UNCHANGED vars
  BY <1>s, <1>15 DEF vars
<1> QED BY <1>1, <1>2, <1>3, <1>4, <1>5, <1>6, <1>7, <1>8, <1>9, <1>10, <1>11, <1>13, <1>14, <1>15
        DEF Next, WorkerStep, Atomic!Next

\* The pending file, the sync and the rename or link together are one atomic operation,
\* for any number of threads: whatever races, fails, dies or loses its power.
THEOREM Refinement == Spec => ImplementsAtomicFile
<1>1. Init => Atomic!Init
  BY SurvivorsKnown DEF Init, Atomic!Init, Atomic!Idle, Atomic!Waiting, Waiting
<1>2. IInv /\ [Next]_vars => [Atomic!Next]_(Atomic!avars)
  BY RefinementStep
<1> QED BY <1>1, <1>2, Invariance, PTL DEF Spec, ImplementsAtomicFile, Atomic!Spec
================================================================================
