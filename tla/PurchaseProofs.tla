---------------------------- MODULE PurchaseProofs ----------------------------
(***************************************************************************)
(* The properties of Purchase, for any number of workers, users, devices,  *)
(* publications, identifiers and keys, with and without faults.  The       *)
(* inductive invariant IInv says which request owns a marker and whose     *)
(* context a request works for; its parts are kept by every step, each     *)
(* proved action by action.  The second part is about Client, which drives *)
(* the actions of Purchase.                                                *)
(***************************************************************************)
EXTENDS Client, TLAPS

\* A request that arrives is a buy, with a date, or one that asks for a context.
LEMMA Arrival ==
  ASSUME NEW w \in Workers, Arrive(w)
  PROVE  \E r \in Request, step \in {"find_purchase", "resolve"} :
           Receive(w, r, step) /\ (step = "find_purchase" => r.now \in Times)
<1>1. CASE \E u \in Users, d \in Devices, c \in Contexts, t \in Times : Buy(w, u, c, d, t)
  <2>1. PICK u \in Users, d \in Devices, c \in Contexts, t \in Times : Buy(w, u, c, d, t)
    BY <1>1
  <2>2. PICK r \in Request :
          r = [op |-> "buy", user |-> u, target |-> c, device |-> d, now |-> t]
    BY DEF Request
  <2> QED BY <2>1, <2>2 DEF Buy
<1>2. CASE \E u \in Users, d \in Devices, c \in Contexts :
             RestoreReceipt(w, u, c, d) \/ FetchPackage(w, u, c, d) \/ ContextIdentity(w, u, c, d)
  <2>1. PICK u \in Users, d \in Devices, c \in Contexts :
          RestoreReceipt(w, u, c, d) \/ FetchPackage(w, u, c, d) \/ ContextIdentity(w, u, c, d)
    BY <1>2
  <2>2. PICK o \in {"restore", "fetch", "identity"} :
          Receive(w, [op |-> o, user |-> u, target |-> c, device |-> d, now |-> None],
          "resolve")
    BY <2>1 DEF RestoreReceipt, FetchPackage, ContextIdentity
  <2>3. PICK r \in Request :
          r = [op |-> o, user |-> u, target |-> c, device |-> d, now |-> None]
    BY DEF Request
  <2> QED BY <2>2, <2>3
<1> QED BY <1>1, <1>2 DEF Arrive

\* The files a request reads and writes exist in the model, and a request that works on
\* a receipt has access to its context.
LEMMA Located ==
  ASSUME IInv, NEW w \in Workers
  PROVE  /\ pc[w] \in {"own_receipt", "find_receipt", "issue", "load_receipt"} =>
              /\ SlotOf(w) \in Slots
              /\ \E t \in Times : Grants(ctx[w], req[w].user, t)
         /\ pc[w] \in {"add_pair"} \cup MarkerSteps => PairOf(w) \in Pairs
         /\ pc[w] = "issue" => granted[w] \in Times
<1> USE NoneAssumption, AuthorAssumption
<1> USE DEF IInv, TypeOK, RequestKnown, Request, Contexts
<1>1. pc[w] \in {"add_pair"} \cup MarkerSteps => PairOf(w) \in Pairs
  BY DEF PairOf, Pairs, MarkerSteps
<1>2. pc[w] \in {"own_receipt", "find_receipt", "issue", "load_receipt"} =>
        /\ ctx[w] \in Contexts
        /\ \E t \in Times : Grants(ctx[w], req[w].user, t)
  BY DEF ReceiptInv, ContextKnown, Grants, Bought, PurchaseRecord
<1>3. pc[w] = "issue" => granted[w] \in Times
  BY DEF ReceiptInv, ContextKnown, Grants, Bought, PurchaseRecord
<1> QED BY <1>1, <1>2, <1>3 DEF SlotOf, Slots, MarkerSteps

\* A step that leaves the markers, the purchases and the requests that own a marker
\* alone keeps the discipline of markers.
LEMMA QuietStep ==
  ASSUME IInv, UNCHANGED <<pairs, purchases, orphans>>,
         \A v \in Workers :
           /\ pc'[v] \in MarkerSteps <=> pc[v] \in MarkerSteps
           /\ pc[v] \in MarkerSteps => req'[v] = req[v] /\ ctx'[v] = ctx[v]
  PROVE  MarkerInv'
<1> USE DEF IInv, MarkerInv, PairOf
<1>1. MarkerOwned'
  BY DEF MarkerOwned, IsPurchaseOf
<1>2. MarkerExclusive'
  BY DEF MarkerExclusive
<1>3. OrphansKept'
  BY DEF OrphansKept, IsPurchaseOf
<1>4. MarkersAccounted'
  <2>1. \A i \in Ids : purchases'[i] # None =>
          pairs'[<<purchases'[i].user, purchases'[i].pub>>] = i
    BY DEF MarkersAccounted
  <2>2. ASSUME NEW x \in Pairs, pairs'[x] # None
        PROVE  \/ IsPurchaseOf(pairs[x], x)'
               \/ \E v \in Workers : pc'[v] \in MarkerSteps /\ PairOf(v)' = x
               \/ x \in orphans'
    BY <2>2 DEF MarkersAccounted, IsPurchaseOf
  <2> QED BY <2>1, <2>2 DEF MarkersAccounted
<1> QED BY <1>1, <1>2, <1>3, <1>4

\* A step that leaves the purchases and the requests alone and answers one request, for
\* a context of its user, keeps the answers with the owners.
LEMMA AnswerStep ==
  ASSUME IInv, NEW w \in Workers, UNCHANGED <<purchases, req, ctx>>,
         \E t \in Times : Grants(ctx[w], req[w].user, t),
         \A v \in Workers \ {w} : pc'[v] = pc[v] /\ reply'[v] = reply[v]
  PROVE  AnswersOwner'
<1> SUFFICES ASSUME NEW v \in Workers, pc'[v] = "answered", reply'[v].status = "ok"
             PROVE  \E t \in Times : Grants(ctx[v], req[v].user, t)'
  BY DEF AnswersOwner
<1>1. \E t \in Times : Grants(ctx[v], req[v].user, t)
  <2>1. CASE v = w
    BY <2>1
  <2>2. CASE v # w
    BY <2>2 DEF IInv, ReceiptInv, AnswersOwner
  <2> QED BY <2>1, <2>2
<1> QED BY <1>1 DEF Grants, Bought

\* Every step keeps the types, and every request in progress has what its steps read.
LEMMA TypeStep == IInv /\ [Next]_vars => TypeOK' /\ RequestKnown'
<1> SUFFICES ASSUME IInv, [Next]_vars PROVE TypeOK' /\ RequestKnown'
  OBVIOUS
<1> USE AuthorAssumption, IdsAssumption, NoneAssumption
<1> USE DEF IInv, TypeOK, RequestKnown, MarkerSteps, Steps
<1>1. ASSUME NEW w \in Workers, NEW r \in Request, NEW step \in {"find_purchase", "resolve"},
             Receive(w, r, step), step = "find_purchase" => r.now \in Times
      PROVE TypeOK' /\ RequestKnown'
  BY <1>1 DEF Receive, Goto, stored
<1>2. ASSUME NEW w \in Workers, FindPurchase(w) PROVE TypeOK' /\ RequestKnown'
  <2>1. TypeOK'
    BY <1>2 DEF FindPurchase, Goto, Answer, AnswerKey, stored, Replies, Contexts
  <2>2. RequestKnown'
    BY <1>2 DEF FindPurchase, Goto, Answer, AnswerKey, stored, Replies, Contexts
  <2> QED BY <2>1, <2>2
<1>3. ASSUME NEW w \in Workers, FindOwnReceipt(w) PROVE TypeOK' /\ RequestKnown'
  <2>1. TypeOK'
    BY <1>3, Located DEF FindOwnReceipt, Goto, AnswerKey, stored, Replies, ReceiptRecord
  <2>2. RequestKnown'
    BY <1>3, Located DEF FindOwnReceipt, Goto, AnswerKey, stored, Replies, ReceiptRecord
  <2> QED BY <2>1, <2>2
<1>4. ASSUME NEW w \in Workers, AddPair(w) PROVE TypeOK' /\ RequestKnown'
  <2>1. TypeOK'
    BY <1>4, Located DEF AddPair, Goto, Contexts
  <2>2. RequestKnown'
    BY <1>4, Located DEF AddPair, Goto, Contexts
  <2> QED BY <2>1, <2>2
<1>5. ASSUME NEW w \in Workers, AddRecord(w) PROVE TypeOK' /\ RequestKnown'
  <2>1. TypeOK'
    <3>1. UNCHANGED <<pairs, receipts, generated, req, ctx, reply, orphans>>
      BY <1>5 DEF AddRecord
    <3>2. pc' \in [Workers -> Steps]
      BY <1>5 DEF AddRecord, Goto
    <3>3. purchases' \in [Ids -> PurchaseRecord \cup {None}]
      BY <1>5 DEF AddRecord, NewPurchase, MarkerInv, MarkerOwned, Request, PurchaseRecord
    <3>4. granted' \in [Workers -> Times \cup {None}]
      BY <1>5 DEF AddRecord, Request
    <3> QED BY <3>1, <3>2, <3>3, <3>4
  <2>2. RequestKnown'
    BY <1>5 DEF AddRecord, NewPurchase, Goto, MarkerInv, MarkerOwned, Request, PurchaseRecord
  <2> QED BY <2>1, <2>2
<1>6. ASSUME NEW w \in Workers, ReleasePair(w) PROVE TypeOK' /\ RequestKnown'
  <2>1. TypeOK'
    BY <1>6, Located DEF ReleasePair, Goto, Answer, AnswerKey, Replies
  <2>2. RequestKnown'
    BY <1>6, Located DEF ReleasePair, Goto, Answer, AnswerKey, Replies
  <2> QED BY <2>1, <2>2
<1>7. ASSUME NEW w \in Workers, ReleasePairFails(w) PROVE TypeOK' /\ RequestKnown'
  BY <1>7 DEF ReleasePairFails, Goto, Answer, AnswerKey, stored, Replies, PairOf,
     Pairs, Request
<1>8. ASSUME NEW w \in Workers, FindConcurrent(w) PROVE TypeOK' /\ RequestKnown'
  BY <1>8 DEF FindConcurrent, Goto, Answer, AnswerKey, stored, Replies, Contexts
<1>9. ASSUME NEW w \in Workers, FindReceipt(w) PROVE TypeOK' /\ RequestKnown'
  <2>1. TypeOK'
    BY <1>9, Located DEF FindReceipt, Goto, AnswerKey, stored, Replies, ReceiptRecord
  <2>2. RequestKnown'
    BY <1>9, Located DEF FindReceipt, Goto, AnswerKey, stored, Replies, ReceiptRecord
  <2> QED BY <2>1, <2>2
<1>10. ASSUME NEW w \in Workers, HasReceipt(w) PROVE TypeOK' /\ RequestKnown'
  <2>1. TypeOK'
    BY <1>10 DEF HasReceipt, ReceiptExists, Goto, Answer, AnswerKey, stored, Replies,
       ReceiptInv, ContextKnown, PurchaseRecord
  <2>2. RequestKnown'
    BY <1>10 DEF HasReceipt, ReceiptExists, Goto, Answer, AnswerKey, stored, Replies,
       ReceiptInv, ContextKnown, PurchaseRecord
  <2> QED BY <2>1, <2>2
<1>11. ASSUME NEW w \in Workers, IssueReceipt(w) PROVE TypeOK' /\ RequestKnown'
  <2>1. TypeOK'
    BY <1>11, Located DEF IssueReceipt, SaveReceipt, Goto, AnswerKey, Replies, ReceiptRecord,
       Request
  <2>2. RequestKnown'
    BY <1>11, Located DEF IssueReceipt, SaveReceipt, Goto, AnswerKey, Replies, ReceiptRecord,
       Request
  <2> QED BY <2>1, <2>2
<1>12. ASSUME NEW w \in Workers, Resolve(w) PROVE TypeOK' /\ RequestKnown'
  <2>1. TypeOK'
    <3>1. UNCHANGED <<stored, generated, req, orphans>>
      BY <1>12 DEF Resolve, GoOn, Restoring, Delivering, Identifying
    <3>2. pc' \in [Workers -> Steps]
      BY <1>12 DEF Resolve, GoOn, Restoring, Delivering, Identifying, Goto, Answer, AnswerKey
    <3>3. ctx' \in [Workers -> Contexts \cup {None}]
      BY <1>12 DEF Resolve, GoOn, Restoring, Delivering, Identifying, Grants, Bought, Contexts
    <3>4. granted' \in [Workers -> Times \cup {None}]
      BY <1>12 DEF Resolve, GoOn, Restoring, Delivering, Identifying
    <3>5. reply' \in [Workers -> Replies \cup {None}]
      BY <1>12 DEF Resolve, GoOn, Restoring, Delivering, Identifying, Answer, AnswerKey, Replies
    <3> QED BY <3>1, <3>2, <3>3, <3>4, <3>5 DEF stored
  <2>2. RequestKnown'
    BY <1>12 DEF Resolve, GoOn, Restoring, Delivering, Identifying, Goto, Answer, AnswerKey,
       stored, Replies, Request
  <2> QED BY <2>1, <2>2
<1>13. ASSUME NEW w \in Workers, LoadReceipt(w) PROVE TypeOK' /\ RequestKnown'
  <2>1. TypeOK'
    BY <1>13, Located DEF LoadReceipt, Goto, Answer, AnswerKey, stored, Replies, ReceiptRecord
  <2>2. RequestKnown'
    BY <1>13, Located DEF LoadReceipt, Goto, Answer, AnswerKey, stored, Replies, ReceiptRecord
  <2> QED BY <2>1, <2>2
<1>14. ASSUME NEW w \in Workers, StepFails(w) PROVE TypeOK' /\ RequestKnown'
  BY <1>14 DEF StepFails, Goto, Answer, AnswerKey, stored, Replies
<1>15. ASSUME NEW w \in Workers, Respond(w) PROVE TypeOK' /\ RequestKnown'
  BY <1>15 DEF Respond, Goto, stored
<1>16. ASSUME Restart PROVE TypeOK' /\ RequestKnown'
  BY <1>16 DEF Restart, stored, PairOf, Pairs, Request
<1>17. CASE UNCHANGED vars
  BY <1>17 DEF vars, stored, local
<1>18. ASSUME NEW w \in Workers, Arrive(w) PROVE TypeOK' /\ RequestKnown'
  BY <1>18, <1>1, Arrival
<1> QED
  BY <1>18, <1>1, <1>2, <1>3, <1>4, <1>5, <1>6, <1>7, <1>8, <1>9, <1>10, <1>11, <1>12, <1>13,
     <1>14, <1>15, <1>16, <1>17 DEF Next, WorkerStep

\* Every step keeps the discipline of markers: one owner per marker, a marker for every
\* record, no unaccounted marker.
LEMMA MarkerStep == IInv /\ [Next]_vars => MarkerInv'
<1> SUFFICES ASSUME IInv, [Next]_vars PROVE MarkerInv'
  OBVIOUS
<1> USE AuthorAssumption, IdsAssumption, NoneAssumption
<1> USE DEF MarkerSteps
<1>1. ASSUME NEW w \in Workers, NEW r \in Request, NEW step \in {"find_purchase", "resolve"},
             Receive(w, r, step), step = "find_purchase" => r.now \in Times
      PROVE MarkerInv'
  BY <1>1, QuietStep DEF Receive, Goto, stored, MarkerSteps, IInv, TypeOK
<1>2. ASSUME NEW w \in Workers, FindPurchase(w) PROVE MarkerInv'
  BY <1>2, QuietStep DEF FindPurchase, Goto, Answer, AnswerKey, stored, MarkerSteps, IInv,
     TypeOK
<1>3. ASSUME NEW w \in Workers, FindOwnReceipt(w) PROVE MarkerInv'
  BY <1>3, QuietStep DEF FindOwnReceipt, Goto, AnswerKey, stored, MarkerSteps, IInv, TypeOK
<1>4. ASSUME NEW w \in Workers, AddPair(w) PROVE MarkerInv'
  <2>1. CASE pairs[PairOf(w)] # None
    BY <1>4, <2>1, QuietStep DEF AddPair, Goto, IInv, TypeOK
  <2>2. CASE pairs[PairOf(w)] = None
    <3>1. PICK i \in Ids, x \in Pairs :
            /\ x = PairOf(w) /\ pairs[x] = None
            /\ pairs' = [pairs EXCEPT ![x] = i]
            /\ ctx' = [ctx EXCEPT ![w] = i]
            /\ pc' = [pc EXCEPT ![w] = "add_record"]
      BY <1>4, <2>2, Located DEF AddPair, Goto
    <3>2. pc[w] = "add_pair" /\ UNCHANGED <<purchases, req, orphans>>
      BY <1>4 DEF AddPair
    <3>3. x \notin orphans /\ \A j \in Ids : ~ IsPurchaseOf(j, x)
      BY <3>1 DEF IInv, MarkerInv, OrphansKept, MarkersAccounted, IsPurchaseOf, Contexts
    <3>4. \A v \in Workers : pc[v] \in MarkerSteps => PairOf(v) # x
      BY <3>1 DEF IInv, MarkerInv, MarkerOwned, Contexts
    <3> USE <3>1, <3>2, <3>3, <3>4 DEF IInv, TypeOK, MarkerInv, PairOf
    <3>5. MarkerOwned'
      BY DEF MarkerOwned, IsPurchaseOf
    <3>6. MarkerExclusive'
      BY DEF MarkerExclusive
    <3>7. OrphansKept'
      BY DEF OrphansKept, IsPurchaseOf
    <3>8. MarkersAccounted'
      <4>1. \A j \in Ids : purchases'[j] # None =>
              pairs'[<<purchases'[j].user, purchases'[j].pub>>] = j
        BY DEF MarkersAccounted, PurchaseRecord, Pairs, IsPurchaseOf
      <4>2. ASSUME NEW y \in Pairs, y # x, pairs'[y] # None
            PROVE  \/ IsPurchaseOf(pairs[y], y)'
                   \/ \E v \in Workers : pc'[v] \in MarkerSteps /\ PairOf(v)' = y
                   \/ y \in orphans'
        BY <4>2 DEF MarkersAccounted, IsPurchaseOf
      <4>3. pc'[w] \in MarkerSteps /\ PairOf(w)' = x
        OBVIOUS
      <4> QED BY <4>1, <4>2, <4>3 DEF MarkersAccounted
    <3> QED BY <3>5, <3>6, <3>7, <3>8
  <2> QED BY <2>1, <2>2
<1>5. ASSUME NEW w \in Workers, AddRecord(w) PROVE MarkerInv'
  <2>1. CASE purchases[ctx[w]] # None
    BY <1>5, <2>1, QuietStep DEF AddRecord, Goto, IInv, TypeOK
  <2>2. CASE purchases[ctx[w]] = None
    <3>1. PICK i \in Ids, x \in Pairs :
            /\ i = ctx[w] /\ x = PairOf(w) /\ purchases[i] = None /\ pairs[x] = i
            /\ x \notin orphans
      BY <1>5, <2>2, Located DEF AddRecord, IInv, MarkerInv, MarkerOwned
    <3>2. /\ purchases' = [purchases EXCEPT ![i] = NewPurchase(w)]
          /\ pc' = [pc EXCEPT ![w] = "issue"]
          /\ pc[w] = "add_record" /\ UNCHANGED <<pairs, req, ctx, orphans>>
      BY <1>5, <2>2, <3>1 DEF AddRecord, Goto
    <3>3. PICK p : p = NewPurchase(w) /\ p # None /\ <<p.user, p.pub>> = x
      <4>1. NewPurchase(w) \in PurchaseRecord
        BY <1>5 DEF AddRecord, NewPurchase, PurchaseRecord, Request, IInv, TypeOK, RequestKnown
      <4> QED BY <3>1, <4>1 DEF NewPurchase, PairOf
    <3>4. \A j \in Ids : purchases'[j] = IF j = i THEN p ELSE purchases[j]
      BY <3>2, <3>3 DEF IInv, TypeOK
    <3>5. \A v \in Workers : v # w /\ pc[v] \in MarkerSteps => PairOf(v) # x
      BY <3>1, <3>2 DEF IInv, MarkerInv, MarkerExclusive
    <3> USE <3>1, <3>2, <3>3, <3>4, <3>5 DEF IInv, TypeOK, MarkerInv, PairOf
    <3>6. MarkerOwned'
      BY DEF MarkerOwned, IsPurchaseOf
    <3>7. MarkerExclusive'
      BY DEF MarkerExclusive
    <3>8. OrphansKept'
      BY DEF OrphansKept, IsPurchaseOf
    <3>9. MarkersAccounted'
      <4>1. \A j \in Ids : purchases'[j] # None =>
              pairs'[<<purchases'[j].user, purchases'[j].pub>>] = j
        BY DEF MarkersAccounted
      <4>2. ASSUME NEW y \in Pairs, y # x, pairs'[y] # None
            PROVE  \/ IsPurchaseOf(pairs[y], y)'
                   \/ \E v \in Workers : pc'[v] \in MarkerSteps /\ PairOf(v)' = y
                   \/ y \in orphans'
        <5>1. CASE IsPurchaseOf(pairs[y], y)
          BY <4>2, <5>1 DEF IsPurchaseOf
        <5>2. CASE y \in orphans
          BY <5>2
        <5>3. ASSUME NEW v \in Workers, pc[v] \in MarkerSteps, PairOf(v) = y
              PROVE  pc'[v] \in MarkerSteps /\ PairOf(v)' = y
          BY <4>2, <5>3
        <5> QED BY <4>2, <5>1, <5>2, <5>3 DEF MarkersAccounted
      <4>3. IsPurchaseOf(pairs[x], x)'
        BY DEF IsPurchaseOf
      <4> QED BY <4>1, <4>2, <4>3 DEF MarkersAccounted
    <3> QED BY <3>6, <3>7, <3>8, <3>9
  <2> QED BY <2>1, <2>2
<1>6. ASSUME NEW w \in Workers, ReleasePair(w) PROVE MarkerInv'
  <2>1. PICK x \in Pairs :
          /\ x = PairOf(w) /\ x \notin orphans
          /\ \A j \in Ids : ~ IsPurchaseOf(j, x)
          /\ pairs' = [pairs EXCEPT ![x] = None]
    BY <1>6, Located DEF ReleasePair, IInv, MarkerInv, MarkerOwned
  <2>2. /\ pc[w] \in MarkerSteps /\ pc'[w] \notin MarkerSteps
        /\ \A v \in Workers \ {w} : pc'[v] = pc[v]
        /\ UNCHANGED <<purchases, req, ctx, orphans>>
    BY <1>6 DEF ReleasePair, Goto, Answer, AnswerKey, IInv, TypeOK
  <2>3. \A v \in Workers : v # w /\ pc[v] \in MarkerSteps => PairOf(v) # x
    BY <2>1, <2>2 DEF IInv, MarkerInv, MarkerExclusive
  <2> USE <2>1, <2>2, <2>3 DEF IInv, TypeOK, MarkerInv, PairOf
  <2>4. MarkerOwned'
    <3> SUFFICES ASSUME NEW v \in Workers, pc'[v] \in MarkerSteps
                 PROVE  /\ ctx'[v] \in Ids /\ pairs'[PairOf(v)'] = ctx'[v]
                        /\ PairOf(v)' \notin orphans'
                        /\ \A i \in Ids : ~ IsPurchaseOf(i, PairOf(v))'
      BY DEF MarkerOwned
    <3>1. v # w /\ PairOf(v) \in Pairs /\ PairOf(v) # x
      BY Located
    <3> QED BY <3>1 DEF MarkerOwned, IsPurchaseOf
  <2>5. MarkerExclusive'
    BY DEF MarkerExclusive
  <2>6. OrphansKept'
    BY DEF OrphansKept, IsPurchaseOf
  <2>7. MarkersAccounted'
    <3>1. \A j \in Ids : purchases'[j] # None =>
            pairs'[<<purchases'[j].user, purchases'[j].pub>>] = j
      BY DEF MarkersAccounted, IsPurchaseOf, PurchaseRecord, Pairs
    <3>2. ASSUME NEW y \in Pairs, pairs'[y] # None
          PROVE  \/ IsPurchaseOf(pairs[y], y)'
                 \/ \E v \in Workers : pc'[v] \in MarkerSteps /\ PairOf(v)' = y
                 \/ y \in orphans'
      BY <3>2 DEF MarkersAccounted, IsPurchaseOf
    <3> QED BY <3>1, <3>2 DEF MarkersAccounted
  <2> QED BY <2>4, <2>5, <2>6, <2>7
<1>7. ASSUME NEW w \in Workers, ReleasePairFails(w) PROVE MarkerInv'
  <2>1. MarkerOwned'
    BY <1>7 DEF ReleasePairFails, Goto, Answer, AnswerKey, stored, IInv, TypeOK,
       RequestKnown, MarkerInv, MarkerOwned, MarkerExclusive, OrphansKept,
       MarkersAccounted, Steps, PairOf, IsPurchaseOf, Request, Pairs, Contexts
  <2>2. MarkerExclusive'
    BY <1>7 DEF ReleasePairFails, Goto, Answer, AnswerKey, stored, IInv, TypeOK,
       RequestKnown, MarkerInv, MarkerOwned, MarkerExclusive, OrphansKept,
       MarkersAccounted, Steps, PairOf, IsPurchaseOf, Request, Pairs, Contexts
  <2>3. OrphansKept'
    BY <1>7 DEF ReleasePairFails, Goto, Answer, AnswerKey, stored, IInv, TypeOK,
       RequestKnown, MarkerInv, MarkerOwned, MarkerExclusive, OrphansKept,
       MarkersAccounted, Steps, PairOf, IsPurchaseOf, Request, Pairs, Contexts
  <2>4. MarkersAccounted'
    BY <1>7 DEF ReleasePairFails, Goto, Answer, AnswerKey, stored, IInv, TypeOK,
       RequestKnown, MarkerInv, MarkerOwned, MarkerExclusive, OrphansKept,
       MarkersAccounted, Steps, PairOf, IsPurchaseOf, Request, Pairs, Contexts
  <2> QED BY <2>1, <2>2, <2>3, <2>4 DEF MarkerInv
<1>8. ASSUME NEW w \in Workers, FindConcurrent(w) PROVE MarkerInv'
  BY <1>8, QuietStep DEF FindConcurrent, Goto, Answer, AnswerKey, stored, MarkerSteps, IInv,
     TypeOK
<1>9. ASSUME NEW w \in Workers, FindReceipt(w) PROVE MarkerInv'
  BY <1>9, QuietStep DEF FindReceipt, Goto, AnswerKey, stored, MarkerSteps, IInv, TypeOK
<1>10. ASSUME NEW w \in Workers, HasReceipt(w) PROVE MarkerInv'
  BY <1>10, QuietStep DEF HasReceipt, ReceiptExists, Goto, Answer, AnswerKey, stored,
     MarkerSteps, IInv, TypeOK
<1>11. ASSUME NEW w \in Workers, IssueReceipt(w) PROVE MarkerInv'
  BY <1>11, QuietStep DEF IssueReceipt, SaveReceipt, Goto, AnswerKey, MarkerSteps, IInv, TypeOK
<1>12. ASSUME NEW w \in Workers, Resolve(w) PROVE MarkerInv'
  BY <1>12, QuietStep DEF Resolve, GoOn, Restoring, Delivering, Identifying, Goto, Answer,
     AnswerKey, stored, MarkerSteps, IInv, TypeOK
<1>13. ASSUME NEW w \in Workers, LoadReceipt(w) PROVE MarkerInv'
  BY <1>13, QuietStep DEF LoadReceipt, Goto, Answer, AnswerKey, stored, MarkerSteps, IInv,
     TypeOK
<1>14. ASSUME NEW w \in Workers, StepFails(w) PROVE MarkerInv'
  BY <1>14, QuietStep DEF StepFails, Goto, Answer, AnswerKey, stored, MarkerSteps, IInv, TypeOK
<1>15. ASSUME NEW w \in Workers, Respond(w) PROVE MarkerInv'
  BY <1>15, QuietStep DEF Respond, Goto, stored, MarkerSteps, IInv, TypeOK
<1>16. ASSUME Restart PROVE MarkerInv'
  <2>1. MarkerOwned'
    BY <1>16 DEF Restart, stored, IInv, TypeOK, RequestKnown, MarkerInv, MarkerOwned,
       MarkerExclusive, OrphansKept, MarkersAccounted, Steps, PairOf, IsPurchaseOf,
       Request, Pairs, Contexts
  <2>2. MarkerExclusive'
    BY <1>16 DEF Restart, stored, IInv, TypeOK, RequestKnown, MarkerInv, MarkerOwned,
       MarkerExclusive, OrphansKept, MarkersAccounted, Steps, PairOf, IsPurchaseOf,
       Request, Pairs, Contexts
  <2>3. OrphansKept'
    BY <1>16 DEF Restart, stored, IInv, TypeOK, RequestKnown, MarkerInv, MarkerOwned,
       MarkerExclusive, OrphansKept, MarkersAccounted, Steps, PairOf, IsPurchaseOf,
       Request, Pairs, Contexts
  <2>4. MarkersAccounted'
    BY <1>16 DEF Restart, stored, IInv, TypeOK, RequestKnown, MarkerInv, MarkerOwned,
       MarkerExclusive, OrphansKept, MarkersAccounted, Steps, PairOf, IsPurchaseOf,
       Request, Pairs, Contexts
  <2> QED BY <2>1, <2>2, <2>3, <2>4 DEF MarkerInv
<1>17. CASE UNCHANGED vars
  BY <1>17, QuietStep DEF vars, stored, local
<1>18. ASSUME NEW w \in Workers, Arrive(w) PROVE MarkerInv'
  BY <1>18, <1>1, Arrival
<1> QED
  BY <1>18, <1>1, <1>2, <1>3, <1>4, <1>5, <1>6, <1>7, <1>8, <1>9, <1>10, <1>11, <1>12, <1>13,
     <1>14, <1>15, <1>16, <1>17 DEF Next, WorkerStep

\* Every step keeps the receipts genuine and the answers with the owners.
LEMMA ReceiptStep == IInv /\ [Next]_vars => ReceiptInv'
<1> SUFFICES ASSUME IInv, [Next]_vars PROVE ReceiptInv'
  OBVIOUS
<1> USE AuthorAssumption, IdsAssumption, NoneAssumption
<1> USE DEF MarkerSteps, IInv, TypeOK, RequestKnown, ReceiptInv, ContextKnown,
      ReceiptsGenuine, AnswersOwner, Steps, SlotOf, Grants, Bought, Slots, Contexts
<1>1. ASSUME NEW w \in Workers, NEW r \in Request, NEW step \in {"find_purchase", "resolve"},
             Receive(w, r, step), step = "find_purchase" => r.now \in Times
      PROVE ReceiptInv'
  <2>1. ContextKnown'
    BY <1>1 DEF Receive, Goto, stored
  <2>2. ReceiptsGenuine'
    BY <1>1 DEF Receive, Goto, stored
  <2>3. AnswersOwner'
    BY <1>1 DEF Receive, Goto, stored
  <2> QED BY <2>1, <2>2, <2>3
<1>2. ASSUME NEW w \in Workers, FindPurchase(w) PROVE ReceiptInv'
  <2>1. ContextKnown'
    BY <1>2 DEF FindPurchase, Goto, Answer, AnswerKey, stored, IsPurchaseOf, PairOf, Request
  <2>2. ReceiptsGenuine'
    BY <1>2 DEF FindPurchase, Goto, Answer, AnswerKey, stored, IsPurchaseOf, PairOf, Request
  <2>3. AnswersOwner'
    BY <1>2 DEF FindPurchase, Goto, Answer, AnswerKey, stored
  <2> QED BY <2>1, <2>2, <2>3
<1>3. ASSUME NEW w \in Workers, FindOwnReceipt(w) PROVE ReceiptInv'
  <2>1. ContextKnown'
    BY <1>3 DEF FindOwnReceipt, Goto, AnswerKey, stored
  <2>2. ReceiptsGenuine'
    BY <1>3 DEF FindOwnReceipt, Goto, AnswerKey, stored
  <2>3. AnswersOwner'
    BY <1>3 DEF FindOwnReceipt, Goto, AnswerKey, stored
  <2> QED BY <2>1, <2>2, <2>3
<1>4. ASSUME NEW w \in Workers, AddPair(w) PROVE ReceiptInv'
  <2>1. ContextKnown'
    BY <1>4 DEF AddPair, Goto
  <2>2. ReceiptsGenuine'
    BY <1>4 DEF AddPair, Goto
  <2>3. AnswersOwner'
    BY <1>4 DEF AddPair, Goto
  <2> QED BY <2>1, <2>2, <2>3
<1>5. ASSUME NEW w \in Workers, AddRecord(w) PROVE ReceiptInv'
  <2>1. ContextKnown'
    BY <1>5 DEF AddRecord, NewPurchase, Goto, MarkerInv, MarkerOwned, PurchaseRecord, Request
  <2>2. ReceiptsGenuine'
    BY <1>5 DEF AddRecord, NewPurchase, Goto, MarkerInv, MarkerOwned, PurchaseRecord, Request
  <2>3. AnswersOwner'
    <3>1. purchases[ctx[w]] = None => \A u \in Users, t \in Times : ~ Bought(ctx[w], u, t)
      OBVIOUS
    <3>2. \A c \in Contexts, u \in Users, t \in Times : Grants(c, u, t) => Grants(c, u, t)'
      BY <1>5, <3>1 DEF AddRecord
    <3>3. \A v \in Workers : pc'[v] = "answered" => pc[v] = "answered"
      BY <1>5 DEF AddRecord, Goto
    <3>4. UNCHANGED <<req, ctx, reply>>
      BY <1>5 DEF AddRecord
    <3>5. SUFFICES ASSUME NEW v \in Workers, pc'[v] = "answered", reply'[v].status = "ok"
                   PROVE  \E t \in Times : Grants(ctx[v], req[v].user, t)'
      BY <3>4 DEF AnswersOwner
    <3>6. req[v].user \in Users /\ \E t \in Times : Grants(ctx[v], req[v].user, t)
      BY <3>3, <3>4, <3>5 DEF Request
    <3>7. ctx[v] \in Contexts
      BY <3>6
    <3> QED BY <3>2, <3>4, <3>6, <3>7
  <2> QED BY <2>1, <2>2, <2>3
<1>6. ASSUME NEW w \in Workers, ReleasePair(w) PROVE ReceiptInv'
  <2>1. ContextKnown'
    BY <1>6 DEF ReleasePair, Goto, Answer, AnswerKey
  <2>2. ReceiptsGenuine'
    BY <1>6 DEF ReleasePair, Goto, Answer, AnswerKey
  <2>3. AnswersOwner'
    BY <1>6 DEF ReleasePair, Goto, Answer, AnswerKey
  <2> QED BY <2>1, <2>2, <2>3
<1>7. ASSUME NEW w \in Workers, ReleasePairFails(w) PROVE ReceiptInv'
  <2>1. ContextKnown'
    BY <1>7 DEF ReleasePairFails, Goto, Answer, AnswerKey, stored
  <2>2. ReceiptsGenuine'
    BY <1>7 DEF ReleasePairFails, Goto, Answer, AnswerKey, stored
  <2>3. AnswersOwner'
    BY <1>7 DEF ReleasePairFails, Goto, Answer, AnswerKey, stored
  <2> QED BY <2>1, <2>2, <2>3
<1>8. ASSUME NEW w \in Workers, FindConcurrent(w) PROVE ReceiptInv'
  <2>1. ContextKnown'
    BY <1>8 DEF FindConcurrent, Goto, Answer, AnswerKey, stored, IsPurchaseOf, PairOf, Request
  <2>2. ReceiptsGenuine'
    BY <1>8 DEF FindConcurrent, Goto, Answer, AnswerKey, stored, IsPurchaseOf, PairOf, Request
  <2>3. AnswersOwner'
    BY <1>8 DEF FindConcurrent, Goto, Answer, AnswerKey, stored, IsPurchaseOf, PairOf, Request
  <2> QED BY <2>1, <2>2, <2>3
<1>9. ASSUME NEW w \in Workers, FindReceipt(w) PROVE ReceiptInv'
  <2>1. ContextKnown'
    BY <1>9 DEF FindReceipt, Goto, AnswerKey, stored
  <2>2. ReceiptsGenuine'
    BY <1>9 DEF FindReceipt, Goto, AnswerKey, stored
  <2>3. AnswersOwner'
    <3>1. /\ UNCHANGED <<purchases, req, ctx>>
          /\ \A v \in Workers \ {w} : pc'[v] = pc[v] /\ reply'[v] = reply[v]
      BY <1>9 DEF FindReceipt, Goto, Answer, AnswerKey, stored
    <3>2. \E t \in Times : Grants(ctx[w], req[w].user, t)
      BY <1>9, Located DEF FindReceipt
    <3> QED BY <3>1, <3>2, AnswerStep
  <2> QED BY <2>1, <2>2, <2>3
<1>10. ASSUME NEW w \in Workers, HasReceipt(w) PROVE ReceiptInv'
  <2>1. ContextKnown'
    BY <1>10 DEF HasReceipt, ReceiptExists, Goto, Answer, AnswerKey, stored, PurchaseRecord
  <2>2. ReceiptsGenuine'
    BY <1>10 DEF HasReceipt, ReceiptExists, Goto, Answer, AnswerKey, stored, PurchaseRecord
  <2>3. AnswersOwner'
    BY <1>10 DEF HasReceipt, ReceiptExists, Goto, Answer, AnswerKey, stored, PurchaseRecord
  <2> QED BY <2>1, <2>2, <2>3
<1>11. ASSUME NEW w \in Workers, IssueReceipt(w) PROVE ReceiptInv'
  <2>1. ContextKnown'
    BY <1>11 DEF IssueReceipt, SaveReceipt, Goto, AnswerKey, ReceiptRecord, Request
  <2>2. ReceiptsGenuine'
    BY <1>11 DEF IssueReceipt, SaveReceipt, Goto, AnswerKey, ReceiptRecord, Request
  <2>3. AnswersOwner'
    <3>1. /\ UNCHANGED <<purchases, req, ctx>>
          /\ \A v \in Workers \ {w} : pc'[v] = pc[v] /\ reply'[v] = reply[v]
      BY <1>11 DEF IssueReceipt, SaveReceipt, Goto, Answer, AnswerKey, stored
    <3>2. \E t \in Times : Grants(ctx[w], req[w].user, t)
      BY <1>11, Located DEF IssueReceipt, SaveReceipt
    <3> QED BY <3>1, <3>2, AnswerStep
  <2> QED BY <2>1, <2>2, <2>3
<1>12. ASSUME NEW w \in Workers, Resolve(w) PROVE ReceiptInv'
  <2>1. ContextKnown'
    BY <1>12 DEF Resolve, GoOn, Restoring, Delivering, Identifying, Goto, Answer, AnswerKey,
       stored, Request
  <2>2. ReceiptsGenuine'
    BY <1>12 DEF Resolve, GoOn, Restoring, Delivering, Identifying, Goto, Answer, AnswerKey,
       stored, Request
  <2>3. AnswersOwner'
    BY <1>12 DEF Resolve, GoOn, Restoring, Delivering, Identifying, Goto, Answer, AnswerKey,
       stored, Request
  <2> QED BY <2>1, <2>2, <2>3
<1>13. ASSUME NEW w \in Workers, LoadReceipt(w) PROVE ReceiptInv'
  <2>1. ContextKnown'
    BY <1>13 DEF LoadReceipt, Goto, Answer, AnswerKey, stored
  <2>2. ReceiptsGenuine'
    BY <1>13 DEF LoadReceipt, Goto, Answer, AnswerKey, stored
  <2>3. AnswersOwner'
    <3>1. /\ UNCHANGED <<purchases, req, ctx>>
          /\ \A v \in Workers \ {w} : pc'[v] = pc[v] /\ reply'[v] = reply[v]
      BY <1>13 DEF LoadReceipt, Goto, Answer, AnswerKey, stored
    <3>2. \E t \in Times : Grants(ctx[w], req[w].user, t)
      BY <1>13, Located DEF LoadReceipt
    <3> QED BY <3>1, <3>2, AnswerStep
  <2> QED BY <2>1, <2>2, <2>3
<1>14. ASSUME NEW w \in Workers, StepFails(w) PROVE ReceiptInv'
  <2>1. ContextKnown'
    BY <1>14 DEF StepFails, Goto, Answer, AnswerKey, stored
  <2>2. ReceiptsGenuine'
    BY <1>14 DEF StepFails, Goto, Answer, AnswerKey, stored
  <2>3. AnswersOwner'
    BY <1>14 DEF StepFails, Goto, Answer, AnswerKey, stored
  <2> QED BY <2>1, <2>2, <2>3
<1>15. ASSUME NEW w \in Workers, Respond(w) PROVE ReceiptInv'
  <2>1. ContextKnown'
    BY <1>15 DEF Respond, Goto, stored
  <2>2. ReceiptsGenuine'
    BY <1>15 DEF Respond, Goto, stored
  <2>3. AnswersOwner'
    BY <1>15 DEF Respond, Goto, stored
  <2> QED BY <2>1, <2>2, <2>3
<1>16. ASSUME Restart PROVE ReceiptInv'
  <2>1. ContextKnown'
    BY <1>16 DEF Restart, stored
  <2>2. ReceiptsGenuine'
    BY <1>16 DEF Restart, stored
  <2>3. AnswersOwner'
    BY <1>16 DEF Restart, stored
  <2> QED BY <2>1, <2>2, <2>3
<1>17. CASE UNCHANGED vars
  BY <1>17 DEF vars, stored, local
<1>18. ASSUME NEW w \in Workers, Arrive(w) PROVE ReceiptInv'
  BY <1>18, <1>1, Arrival
<1> QED
  BY <1>18, <1>1, <1>2, <1>3, <1>4, <1>5, <1>6, <1>7, <1>8, <1>9, <1>10, <1>11, <1>12, <1>13,
     <1>14, <1>15, <1>16, <1>17 DEF Next, WorkerStep

\* The inductive invariant holds in every state of every behaviour.
THEOREM Invariance == Spec => []IInv
<1>1. Init => IInv
  BY NoneAssumption DEF Init, IInv, TypeOK, RequestKnown, MarkerInv, MarkerOwned,
     MarkerExclusive, OrphansKept, MarkersAccounted, ReceiptInv, ContextKnown,
     ReceiptsGenuine, AnswersOwner, MarkerSteps, Steps, Contexts
<1>2. IInv /\ [Next]_vars => IInv'
  BY TypeStep, MarkerStep, ReceiptStep DEF IInv
<1> QED BY <1>1, <1>2, PTL DEF Spec

\* The state of the stores and of the workers has its type.
THEOREM TypeCorrect == Spec => []TypeOK
<1>1. IInv => TypeOK
  BY DEF IInv
<1> QED BY <1>1, Invariance, PTL

\* buy never records two purchases of one publication by one user: both records would
\* be named by the one marker of the pair.
THEOREM SinglePurchase == Spec => []OnePurchase
<1>1. IInv => OnePurchase
  BY DEF IInv, MarkerInv, MarkersAccounted, OnePurchase, IsPurchaseOf
<1> QED BY <1>1, Invariance, PTL

\* A marker without a record has an owner in progress or a recorded loss.
THEOREM NoUnaccountedMarker == Spec => []MarkersAccounted
<1>1. IInv => MarkersAccounted
  BY DEF IInv, MarkerInv
<1> QED BY <1>1, Invariance, PTL

\* issue_receipt only writes receipts that name the right user and the right date.
THEOREM GenuineReceipts == Spec => []ReceiptsGenuine
<1>1. IInv => ReceiptsGenuine
  BY DEF IInv, ReceiptInv
<1> QED BY <1>1, Invariance, PTL

\* Receipts and packages are only answered to the user the context belongs to.
THEOREM OwnersOnly == Spec => []AnswersOwner
<1>1. IInv => AnswersOwner
  BY DEF IInv, ReceiptInv
<1> QED BY <1>1, Invariance, PTL

\* Whatever is answered, buy, restore_receipt and fetch_package answer by the receipt on file
\* at that moment, also where a good one has just been replaced.
THEOREM AnswersFromFile == Spec => AnswersFiled
<1> DEFINE Filed(w) ==
      pc[w] # "answered" /\ pc'[w] = "answered" /\ reply'[w].status = "ok" /\ req[w].op # "identity"
        => receipts'[SlotOf(w)'] # None /\ receipts'[SlotOf(w)'].key = reply'[w].key
<1>1. IInv /\ [Next]_vars => [\A w \in Workers : Filed(w)]_vars
  <2> SUFFICES ASSUME IInv, Next, NEW w \in Workers,
                      pc[w] # "answered", pc'[w] = "answered", reply'[w].status = "ok",
                      req[w].op # "identity"
               PROVE  receipts'[SlotOf(w)'] # None /\ receipts'[SlotOf(w)'].key = reply'[w].key
    OBVIOUS
  <2> USE DEF IInv, TypeOK, Goto, Answer, AnswerKey
  <2>1. ASSUME NEW v \in Workers, Arrive(v) \/ Respond(v) PROVE FALSE
    BY <2>1 DEF Arrive, Buy, RestoreReceipt, FetchPackage, ContextIdentity, Receive, Respond
  <2>2. ASSUME NEW v \in Workers, FindPurchase(v) \/ AddPair(v) \/ AddRecord(v) PROVE FALSE
    BY <2>2 DEF FindPurchase, AddPair, AddRecord
  <2>3. ASSUME NEW v \in Workers,
               ReleasePair(v) \/ ReleasePairFails(v) \/ FindConcurrent(v) \/ HasReceipt(v)
                 \/ StepFails(v)
        PROVE  FALSE
    BY <2>3 DEF ReleasePair, ReleasePairFails, FindConcurrent, HasReceipt, StepFails
  <2>4. ASSUME NEW v \in Workers, Resolve(v) PROVE FALSE
    BY <2>4 DEF Resolve, GoOn, Restoring, Delivering, Identifying
  <2>5. CASE Restart
    BY <2>5 DEF Restart
  <2>6. ASSUME NEW v \in Workers, FindOwnReceipt(v) \/ FindReceipt(v) \/ LoadReceipt(v)
        PROVE  receipts'[SlotOf(w)'] # None /\ receipts'[SlotOf(w)'].key = reply'[w].key
    <3>1. v = w /\ UNCHANGED <<receipts, req, ctx>>
      BY <2>6 DEF FindOwnReceipt, FindReceipt, LoadReceipt, stored
    <3>2. receipts[SlotOf(w)] # None /\ reply'[w].key = receipts[SlotOf(w)].key
      BY <2>6, <3>1 DEF FindOwnReceipt, FindReceipt, LoadReceipt
    <3> QED BY <3>1, <3>2 DEF SlotOf
  <2>7. ASSUME NEW v \in Workers, IssueReceipt(v)
        PROVE  receipts'[SlotOf(w)'] # None /\ receipts'[SlotOf(w)'].key = reply'[w].key
    <3>1. v = w /\ UNCHANGED <<req, ctx>>
      BY <2>7 DEF IssueReceipt
    <3>2. PICK k \in Keys : SaveReceipt(v, k) /\ AnswerKey(v, "ok", k)
      BY <2>7 DEF IssueReceipt
    <3>3. SlotOf(w) \in Slots /\ SlotOf(w)' = SlotOf(w)
      BY <2>7, <3>1, Located DEF IssueReceipt, SlotOf
    <3>4. receipts'[SlotOf(w)] = [user |-> req[w].user, at |-> granted[w], key |-> k]
      BY <3>1, <3>2, <3>3 DEF SaveReceipt
    <3>5. reply'[w].key = k
      BY <3>1, <3>2
    <3>6. req[w].user \in Users /\ granted[w] \in Times
      BY <2>7, <3>1, Located, NoneAssumption DEF IssueReceipt, RequestKnown, Request
    <3>7. receipts'[SlotOf(w)] # None
      BY <3>4, <3>6, NoneAssumption DEF ReceiptRecord
    <3> QED BY <3>3, <3>4, <3>5, <3>7
  <2> QED BY <2>1, <2>2, <2>3, <2>4, <2>5, <2>6, <2>7 DEF Next, WorkerStep
<1> QED BY <1>1, Invariance, PTL DEF Spec, AnswersFiled

\* The service implements the entitlements: linking the record is the one step that
\* acquires a publication, and no step changes or takes back a purchase.
THEOREM Refinement == Spec => ImplementsEntitlements
<1> USE NoneAssumption
<1>1. Init => Entitled!Init
  BY DEF Init, Entitled!Init, Owned, IsPurchaseOf
<1>2. IInv /\ [Next]_vars => [Entitled!Next]_Owned
  <2> SUFFICES ASSUME IInv, [Next]_vars PROVE [Entitled!Next]_Owned
    OBVIOUS
  <2>1. CASE purchases' = purchases
    BY <2>1 DEF Owned, IsPurchaseOf
  <2>2. ASSUME NEW w \in Workers, AddRecord(w), purchases' # purchases
        PROVE  Entitled!Next
    <3>1. PICK i \in Ids, x \in Pairs :
            /\ i = ctx[w] /\ x = PairOf(w) /\ purchases[i] = None
            /\ \A j \in Ids : ~ IsPurchaseOf(j, x)
      BY <2>2, Located DEF AddRecord, IInv, MarkerInv, MarkerOwned, MarkerSteps
    <3>2. purchases' = [purchases EXCEPT ![i] = NewPurchase(w)]
      BY <2>2, <3>1 DEF AddRecord
    <3>3. PICK t \in Times : t = req[w].now
      BY <2>2 DEF AddRecord, IInv, RequestKnown, MarkerSteps
    <3>4. PICK p : /\ p = NewPurchase(w) /\ p # None
                   /\ <<p.user, p.pub>> = x /\ p.at = t
      <4>1. NewPurchase(w) \in PurchaseRecord
        BY <2>2 DEF AddRecord, NewPurchase, PurchaseRecord, Request, IInv, TypeOK,
           RequestKnown, MarkerSteps
      <4> QED BY <3>1, <3>3, <4>1 DEF NewPurchase, PairOf
    <3>5. \A j \in Ids : purchases'[j] = IF j = i THEN p ELSE purchases[j]
      BY <3>2, <3>4 DEF IInv, TypeOK
    <3>6. ASSUME NEW j \in Ids, NEW y \in Pairs
          PROVE  IsPurchaseOf(j, y)' <=> IsPurchaseOf(j, y) \/ (j = i /\ y = x)
      BY <3>1, <3>4, <3>5 DEF IsPurchaseOf
    <3>7. Owned[x] = None
      BY <3>1 DEF Owned
    <3>8. Owned'[x] = [id |-> i, at |-> t]
      <4>1. \A j \in Ids : IsPurchaseOf(j, x)' <=> j = i
        BY <3>1, <3>6
      <4> QED BY <3>4, <3>5, <4>1 DEF Owned
    <3>9. ASSUME NEW y \in Pairs, y # x PROVE Owned'[y] = Owned[y]
      <4>1. \A j \in Ids : IsPurchaseOf(j, y)' <=> IsPurchaseOf(j, y)
        BY <3>6, <3>9
      <4>2. \A j \in Ids : IsPurchaseOf(j, y) => purchases'[j] = purchases[j]
        BY <3>1, <3>5 DEF IsPurchaseOf
      <4> QED BY <4>1, <4>2 DEF Owned
    <3>10. \A y \in Pairs : Owned[y] # None => Owned[y].id # i
      BY <3>1 DEF Owned, IsPurchaseOf
    <3>11. Owned' = [Owned EXCEPT ![x] = [id |-> i, at |-> t]]
      BY <3>8, <3>9 DEF Owned
    <3>12. Entitled!Acquire(x, i, t)
      BY <3>7, <3>10, <3>11 DEF Entitled!Acquire
    <3> QED BY <3>12 DEF Entitled!Next
  <2>3. ASSUME NEW w \in Workers, ~ AddRecord(w), Arrive(w) \/ WorkerStep(w) \/ Respond(w)
        PROVE  purchases' = purchases
    BY <2>3 DEF Arrive, Buy, RestoreReceipt, FetchPackage, ContextIdentity, Receive,
       WorkerStep, FindPurchase,
       FindOwnReceipt, AddPair, ReleasePair, ReleasePairFails, FindConcurrent, FindReceipt,
       HasReceipt, ReceiptExists, IssueReceipt, SaveReceipt, Resolve, GoOn, Restoring,
       Delivering, Identifying, LoadReceipt, StepFails, Respond, stored
  <2>4. CASE Restart \/ UNCHANGED vars
    BY <2>1, <2>4 DEF Restart, vars, stored
  <2> QED BY <2>1, <2>2, <2>3, <2>4 DEF Next
<1> QED BY <1>1, <1>2, Invariance, PTL DEF Spec, ImplementsEntitlements, Entitled!Spec


--------------------------------------------------------------------------------
(***************************************************************************)
(* The wallet of a device and the server's receipts, for any number of     *)
(* devices, workers, attempts and keys.  Every step of the composition is  *)
(* a step of Purchase or leaves the server alone, so the invariant proved  *)
(* there holds here; what a worker's step may do to receipts and answers   *)
(* is stated once, in WorkEffect, and the steps of the clients are proved  *)
(* on top of it.                                                           *)
(***************************************************************************)

\* An attempt of post arrives at the server as one of its requests.
LEMMA SendArrives ==
  ASSUME CInv, NEW d \in Devices, NEW w \in Workers, Send(d, w)
  PROVE  /\ Arrive(w)
         /\ \E r \in Request, step \in {"find_purchase", "resolve"} :
              /\ Receive(w, r, step)
              /\ r.device = d /\ r.op = call[d].op /\ r.target = call[d].target
              /\ r.op \in {"fetch", "identity"} => step = "resolve"
<1>1. PICK c \in Contexts, u \in Users : c = call[d].target /\ u = Holder[d]
  BY HolderAssumption DEF Send, CInv, CallKnown, Call
<1>2. CASE call[d].op = "buy"
  <2>1. PICK t \in Times : Buy(w, u, c, d, t)
    BY <1>1, <1>2 DEF Send
  <2>2. PICK r \in Request :
          r = [op |-> "buy", user |-> u, target |-> c, device |-> d, now |-> t]
    BY DEF Request
  <2> QED BY <1>1, <1>2, <2>1, <2>2 DEF Buy, Arrive
<1>3. CASE call[d].op = "restore"
  <2>1. RestoreReceipt(w, u, c, d)
    BY <1>1, <1>3 DEF Send
  <2>2. PICK r \in Request :
          r = [op |-> "restore", user |-> u, target |-> c, device |-> d, now |-> None]
    BY DEF Request
  <2> QED BY <1>1, <1>3, <2>1, <2>2 DEF RestoreReceipt, Arrive
<1>4. CASE call[d].op = "fetch"
  <2>1. FetchPackage(w, u, c, d)
    BY <1>1, <1>4 DEF Send
  <2>2. PICK r \in Request :
          r = [op |-> "fetch", user |-> u, target |-> c, device |-> d, now |-> None]
    BY DEF Request
  <2> QED BY <1>1, <1>4, <2>1, <2>2 DEF FetchPackage, Arrive
<1> QED BY <1>2, <1>3, <1>4 DEF Send, CInv, CallKnown, Call

\* Every step of the composition is a step of the server or leaves it alone.
LEMMA ServerStep == CInv /\ [CNext]_cvars => [Next]_vars
<1> SUFFICES ASSUME CInv, [CNext]_cvars PROVE [Next]_vars
  OBVIOUS
<1>1. ASSUME NEW d \in Devices, NEW w \in Workers, Send(d, w) PROVE Next
  BY <1>1, SendArrives DEF Next
<1>2. ASSUME NEW d \in Devices, Deliver(d) PROVE Next
  BY <1>2 DEF Deliver, Next, CInv, CTypeOK
<1>3. ASSUME NEW d \in Devices,
             \/ \E p \in Pubs : StartBuy(d, p)
             \/ \E c \in Contexts : StartFetch(d, c)
             \/ SendFails(d) \/ GiveUp(d) \/ Save(d) \/ Die(d)
      PROVE  UNCHANGED vars
  BY <1>3 DEF StartBuy, StartFetch, SendFails, GiveUp, Save, Die
<1>4. ASSUME NEW w \in Workers, Work(w) \/ Unheard(w) PROVE Next
  BY <1>4 DEF Work, Unheard, Next
<1>5. CASE ServerRestart
  BY <1>5 DEF ServerRestart, Next
<1>6. CASE UNCHANGED cvars
  BY <1>6 DEF cvars
<1> QED BY <1>1, <1>2, <1>3, <1>4, <1>5, <1>6 DEF CNext, DeviceStep

\* What a step of a worker may do: its request stays and does not end; without issuing
\* it can only answer the key of the stored receipt of its own slot; issuing puts a fresh
\* key there and answers it, and fetch_package never does this.
LEMMA WorkEffect ==
  ASSUME ServerInv, NEW w \in Workers, WorkerStep(w)
  PROVE  /\ UNCHANGED req /\ pc[w] \notin {"idle", "answered"} /\ pc'[w] # "idle"
         /\ req[w] \in Request
         /\ \A v \in Workers : v # w => pc'[v] = pc[v] /\ reply'[v] = reply[v] /\ ctx'[v] = ctx[v]
         /\ \/ /\ UNCHANGED <<receipts, generated>>
               /\ pc'[w] = "answered" /\ reply'[w].status = "ok" /\ req[w].op # "identity" =>
                    /\ pc[w] \in {"own_receipt", "find_receipt", "load_receipt"}
                    /\ ctx'[w] = ctx[w] /\ SlotOf(w) \in Slots
                    /\ receipts[SlotOf(w)] # None
                    /\ reply'[w].key = receipts[SlotOf(w)].key
            \/ /\ pc[w] = "issue" /\ pc'[w] = "answered" /\ ctx'[w] = ctx[w]
               /\ SlotOf(w) \in Slots
               /\ reply'[w].status = "ok"
               /\ reply'[w].key \in Keys \ generated
               /\ generated' = generated \cup {reply'[w].key}
               /\ receipts' = [receipts EXCEPT ![SlotOf(w)] =
                    [user |-> req[w].user, at |-> granted[w], key |-> reply'[w].key]]
<1> USE DEF ServerInv, IInv, TypeOK, RequestKnown
<1>1. req[w] \in Request /\ pc[w] \notin {"idle", "answered"}
  BY NoneAssumption DEF WorkerStep, FindPurchase, FindOwnReceipt, AddPair, AddRecord,
     ReleasePair,
     ReleasePairFails, FindConcurrent, FindReceipt, HasReceipt, ReceiptExists, IssueReceipt,
     SaveReceipt, Resolve, GoOn, Restoring, Delivering, Identifying, LoadReceipt, StepFails
<1>2. CASE FindOwnReceipt(w) \/ FindReceipt(w) \/ LoadReceipt(w)
  BY <1>1, <1>2, Located DEF FindOwnReceipt, FindReceipt, LoadReceipt, Answer, AnswerKey,
     Goto, stored
<1>3. CASE IssueReceipt(w)
  <2>1. PICK k \in Keys \ generated :
          /\ receipts' = [receipts EXCEPT ![SlotOf(w)] =
                            [user |-> req[w].user, at |-> granted[w], key |-> k]]
          /\ generated' = generated \cup {k}
          /\ AnswerKey(w, "ok", k)
    BY <1>3 DEF IssueReceipt, SaveReceipt
  <2>2. pc'[w] = "answered" /\ reply'[w].status = "ok" /\ reply'[w].key = k
    BY <2>1 DEF AnswerKey, Goto
  <2> QED BY <1>1, <1>3, <2>1, <2>2, Located DEF IssueReceipt, SaveReceipt, AnswerKey, Goto
<1>4. CASE FindPurchase(w) \/ AddPair(w) \/ AddRecord(w) \/ HasReceipt(w) \/ Resolve(w)
  BY <1>1, <1>4 DEF FindPurchase, AddPair, AddRecord, HasReceipt, ReceiptExists, Resolve,
     GoOn, Restoring, Delivering, Identifying, Answer, AnswerKey, Goto, stored
<1>5. CASE ReleasePair(w) \/ ReleasePairFails(w) \/ FindConcurrent(w) \/ StepFails(w)
  BY <1>1, <1>5 DEF ReleasePair, ReleasePairFails, FindConcurrent, StepFails, Answer, AnswerKey,
     Goto, stored
<1> QED BY <1>2, <1>3, <1>4, <1>5 DEF WorkerStep

\* A worker's step keeps AnswerKnown.
LEMMA WorkAnswers ==
  ASSUME ServerInv, NEW w \in Workers, WorkerStep(w)
  PROVE  AnswerKnown'
<1> USE DEF ServerInv, IInv, TypeOK, RequestKnown
<1>1. pc'[w] = "answered" => reply'[w] \in Replies
  <2>1. CASE FindOwnReceipt(w) \/ FindReceipt(w) \/ LoadReceipt(w) \/ IssueReceipt(w)
    BY <2>1, Located DEF FindOwnReceipt, FindReceipt, LoadReceipt, IssueReceipt, SaveReceipt,
       Answer, AnswerKey, Goto, Replies, ReceiptRecord
  <2>2. CASE FindPurchase(w) \/ AddPair(w) \/ AddRecord(w) \/ HasReceipt(w) \/ Resolve(w)
    BY <2>2 DEF FindPurchase, AddPair, AddRecord, HasReceipt, ReceiptExists, Resolve, GoOn,
       Restoring, Delivering, Identifying, Answer, AnswerKey, Goto, Replies
  <2>3. CASE ReleasePair(w) \/ ReleasePairFails(w) \/ FindConcurrent(w) \/ StepFails(w)
    BY <2>3 DEF ReleasePair, ReleasePairFails, FindConcurrent, StepFails, Answer, AnswerKey,
       Goto, Replies
  <2> QED BY <2>1, <2>2, <2>3 DEF WorkerStep
<1>2. pc'[w] = "answered" /\ reply'[w].status = "ok" /\ req[w].op # "identity" =>
        ctx'[w] \in Contexts /\ reply'[w].key \in Keys
  <2>1. SlotOf(w) \in Slots => ctx[w] \in Contexts
    BY DEF SlotOf, Slots
  <2>2. SlotOf(w) \in Slots /\ receipts[SlotOf(w)] # None => receipts[SlotOf(w)].key \in Keys
    BY DEF ReceiptRecord
  <2> QED BY <2>1, <2>2, WorkEffect
<1>3. /\ req[w].op \in {"fetch", "identity"} => pc'[w] \in {"resolve", "load_receipt", "answered"}
      /\ pc'[w] = "load_receipt" => ctx'[w] = req[w].target
  <2>1. CASE FindOwnReceipt(w) \/ FindReceipt(w) \/ LoadReceipt(w) \/ IssueReceipt(w)
    BY <2>1, WorkEffect DEF FindOwnReceipt, FindReceipt, LoadReceipt, IssueReceipt,
       SaveReceipt, Answer, AnswerKey, Goto, AnswerKnown
  <2>2. CASE FindPurchase(w) \/ AddPair(w) \/ AddRecord(w) \/ HasReceipt(w)
    BY <2>2, WorkEffect DEF FindPurchase, AddPair, AddRecord, HasReceipt, ReceiptExists,
       Answer, AnswerKey, Goto, AnswerKnown
  <2>3. CASE ReleasePair(w) \/ ReleasePairFails(w) \/ FindConcurrent(w) \/ StepFails(w)
    BY <2>3, WorkEffect DEF ReleasePair, ReleasePairFails, FindConcurrent, StepFails, Answer,
       AnswerKey, Goto, AnswerKnown
  <2>4. CASE Resolve(w)
    BY <2>4, WorkEffect DEF Resolve, GoOn, Restoring, Delivering, Identifying, Answer,
       AnswerKey, Goto
  <2> QED BY <2>1, <2>2, <2>3, <2>4 DEF WorkerStep
<1> QED BY <1>1, <1>2, <1>3, WorkEffect DEF AnswerKnown

\* The server's invariant holds under the clients' requests.
LEMMA ServerKept == CInv /\ [CNext]_cvars => ServerInv'
<1> SUFFICES ASSUME CInv, [CNext]_cvars PROVE ServerInv'
  OBVIOUS
<1>1. IInv'
  BY ServerStep, TypeStep, MarkerStep, ReceiptStep DEF CInv, ServerInv, IInv
<1>2. AnswerKnown'
  <2> USE DEF CInv, ServerInv, IInv, TypeOK
  <2>1. ASSUME NEW d \in Devices, NEW w \in Workers, Send(d, w) PROVE AnswerKnown'
    <3>1. PICK r \in Request, step \in {"find_purchase", "resolve"} :
            Receive(w, r, step) /\ (r.op \in {"fetch", "identity"} => step = "resolve")
      BY <2>1, SendArrives
    <3> QED BY <3>1 DEF Receive, Goto, AnswerKnown
  <2>2. ASSUME NEW w \in Workers, Respond(w) PROVE AnswerKnown'
    BY <2>2 DEF Respond, Goto, AnswerKnown
  <2>3. ASSUME NEW w \in Workers, WorkerStep(w) PROVE AnswerKnown'
    BY <2>3, WorkAnswers
  <2>4. CASE Restart
    BY <2>4 DEF Restart, AnswerKnown
  <2>5. CASE UNCHANGED vars
    BY <2>5 DEF vars, local, AnswerKnown
  <2>6. ASSUME NEW d \in Devices, Deliver(d) PROVE AnswerKnown'
    BY <2>2, <2>6 DEF Deliver, CTypeOK
  <2>7. ASSUME NEW d \in Devices,
               \/ \E p \in Pubs : StartBuy(d, p)
               \/ \E c \in Contexts : StartFetch(d, c)
               \/ SendFails(d) \/ GiveUp(d) \/ Save(d) \/ Die(d)
        PROVE  UNCHANGED vars
    BY <2>7 DEF StartBuy, StartFetch, SendFails, GiveUp, Save, Die
  <2> QED BY <2>1, <2>2, <2>3, <2>4, <2>5, <2>6, <2>7
          DEF CNext, DeviceStep, Work, Unheard, ServerRestart, cvars
<1> QED BY <1>1, <1>2 DEF ServerInv

\* The receipt on its way to a device is one; two devices never wait for one worker, and
\* a device that does not wait has no connection.
LEMMA DeviceFacts ==
  ASSUME CInv
  PROVE  /\ \A d \in Devices : Coming(d) \in Receipt \cup {None} /\ Missed(d) \subseteq Keys
         /\ \A d, e \in Devices : conn[d] # None /\ conn[d] = conn[e] => d = e
         /\ \A d \in Devices : stage[d] # "wait" => conn[d] = None
<1> USE DEF CInv, ServerInv, CTypeOK
<1>1. \A d \in Devices : Coming(d) \in Receipt \cup {None}
  BY DEF Coming, CarriesReceipt, CallKnown, AnswerKnown, Receipt
<1>2. \A d \in Devices : Missed(d) \subseteq Keys
  BY <1>1 DEF Missed, Receipt
<1> QED BY <1>1, <1>2 DEF ConnKnown

\* A call that ends leaves its device idle and everything in its type.
LEMMA ReturnTypes ==
  ASSUME CTypeOK, NEW d \in Devices, Return(d), TypeOK', lost' \subseteq Keys,
         wallet' \in [Devices -> [Contexts -> Keys \cup {None}]]
  PROVE  CTypeOK'
<1>1. 0 \in 0 .. Attempts
  BY AttemptsAssumption
<1> QED BY <1>1 DEF CTypeOK, Return, Stages

\* Every step keeps the types of the clients and what a call in progress needs.
LEMMA CallStep == CInv /\ [CNext]_cvars => CTypeOK' /\ CallKnown'
<1> SUFFICES ASSUME CInv, [CNext]_cvars PROVE CTypeOK' /\ CallKnown'
  OBVIOUS
<1> USE NoConnAssumption, AttemptsAssumption, DeviceFacts
<1> USE DEF CInv, CTypeOK, CallKnown, Stages
<1>0. TypeOK'
  BY ServerKept DEF ServerInv, IInv
<1>1. ASSUME NEW d \in Devices, NEW p \in Pubs, StartBuy(d, p) PROVE CTypeOK' /\ CallKnown'
  <2>1. [op |-> "buy", target |-> p] \in Call
    BY DEF Call, Contexts
  <2>2. CTypeOK'
    BY <1>0, <1>1, <2>1 DEF StartBuy, Post
  <2>3. CallKnown'
    BY <1>1, <2>1 DEF StartBuy, Post
  <2> QED BY <2>2, <2>3
<1>2. ASSUME NEW d \in Devices, NEW c \in Contexts, StartFetch(d,
   c) PROVE CTypeOK' /\ CallKnown'
  BY <1>0, <1>2 DEF StartFetch, Post, Call
<1>3. ASSUME NEW d \in Devices, NEW w \in Workers, Send(d, w) PROVE CTypeOK' /\ CallKnown'
  BY <1>0, <1>3 DEF Send
<1>4. ASSUME NEW d \in Devices, SendFails(d) PROVE CTypeOK' /\ CallKnown'
  BY <1>0, <1>4 DEF SendFails
<1>5. ASSUME NEW d \in Devices, GiveUp(d) PROVE CTypeOK' /\ CallKnown'
  <2>1. CTypeOK'
    <3>1. CASE tries[d] < Attempts
      BY <1>0, <1>5, <3>1 DEF GiveUp
    <3>2. CASE ~ (tries[d] < Attempts)
      BY <1>0, <1>5, <3>2, ReturnTypes DEF GiveUp
    <3> QED BY <3>1, <3>2
  <2>2. CallKnown'
    BY <1>5 DEF GiveUp, Return
  <2> QED BY <2>1, <2>2
<1>6. ASSUME NEW d \in Devices, Deliver(d) PROVE CTypeOK' /\ CallKnown'
  <2>1. CASE CarriesReceipt(conn[d])
    <3>1. Coming(d) \in Receipt
      BY <1>6, <2>1 DEF Deliver, Coming, ServerInv, AnswerKnown, CarriesReceipt, Receipt
    <3>2. CTypeOK'
      BY <1>0, <1>6, <2>1, <3>1 DEF Deliver
    <3>3. CallKnown'
      BY <1>6, <2>1, <3>1 DEF Deliver
    <3> QED BY <3>2, <3>3
  <2>2. CASE ~ CarriesReceipt(conn[d])
    <3>1. CTypeOK'
      BY <1>0, <1>6, <2>2, ReturnTypes DEF Deliver
    <3>2. CallKnown'
      BY <1>6, <2>2 DEF Deliver, Return
    <3> QED BY <3>1, <3>2
  <2> QED BY <2>1, <2>2
<1>7. ASSUME NEW d \in Devices, Save(d) PROVE CTypeOK' /\ CallKnown'
  <2>1. PICK c \in Contexts, k \in Keys : c = got[d].ctx /\ k = got[d].key
    BY <1>7 DEF Save, Receipt
  <2>2. wallet' \in [Devices -> [Contexts -> Keys \cup {None}]]
    BY <1>7, <2>1 DEF Save
  <2>3. CASE call[d].op = "buy"
    <3>1. CTypeOK'
      BY <1>0, <1>7, <2>2, <2>3, ReturnTypes DEF Save
    <3>2. CallKnown'
      BY <1>7, <2>3 DEF Save, Return
    <3> QED BY <3>1, <3>2
  <2>4. CASE call[d].op # "buy"
    <3>1. [op |-> "fetch", target |-> call[d].target] \in Call
      BY <1>7 DEF Save, Call
    <3>2. CTypeOK'
      <4>1. Post(d, "fetch", call[d].target) /\ got' = [got EXCEPT ![d] = None]
        BY <1>7, <2>4 DEF Save
      <4>2. UNCHANGED <<conn, lost>>
        BY <1>7, <2>4 DEF Save
      <4> QED BY <1>0, <2>2, <3>1, <4>1, <4>2 DEF Post
    <3>3. CallKnown'
      BY <1>7, <2>4, <3>1 DEF Save, Post
    <3> QED BY <3>2, <3>3
  <2> QED BY <2>3, <2>4
<1>8. ASSUME NEW d \in Devices, Die(d) PROVE CTypeOK' /\ CallKnown'
  BY <1>0, <1>8 DEF Die, Return
<1>9. ASSUME NEW w \in Workers, Work(w) PROVE CTypeOK' /\ CallKnown'
  <2>1. lost' \subseteq Keys
    BY <1>0, <1>9 DEF Work, TypeOK
  <2> QED BY <1>0, <1>9, <2>1 DEF Work, client
<1>10. ASSUME NEW w \in Workers, Unheard(w) PROVE CTypeOK' /\ CallKnown'
  BY <1>0, <1>10 DEF Unheard, client
<1>11. CASE ServerRestart
  <2>1. lost' \subseteq Keys
    BY <1>11 DEF ServerRestart
  <2> QED BY <1>0, <1>11, <2>1 DEF ServerRestart
<1>12. CASE UNCHANGED cvars
  BY <1>0, <1>12 DEF cvars, client
<1> QED BY <1>1, <1>2, <1>3, <1>4, <1>5, <1>6, <1>7, <1>8, <1>9, <1>10, <1>11, <1>12
        DEF CNext, DeviceStep

\* Every step keeps a device waiting for its own request only.
LEMMA ConnStep == CInv /\ [CNext]_cvars => ConnKnown'
<1> SUFFICES ASSUME CInv, [CNext]_cvars PROVE ConnKnown'
  OBVIOUS
<1> USE NoConnAssumption, DeviceFacts
<1> USE DEF CInv, CTypeOK, ConnKnown, ServerInv, IInv, TypeOK
<1>1. ASSUME NEW d \in Devices, NEW p \in Pubs, StartBuy(d, p) PROVE ConnKnown'
  BY <1>1 DEF StartBuy, Post, vars, local
<1>2. ASSUME NEW d \in Devices, NEW c \in Contexts, StartFetch(d, c) PROVE ConnKnown'
  BY <1>2 DEF StartFetch, Post, vars, local
<1>3. ASSUME NEW d \in Devices, NEW w \in Workers, Send(d, w) PROVE ConnKnown'
  <2>1. PICK r \in Request, step \in {"find_purchase", "resolve"} :
          /\ Receive(w, r, step)
          /\ r.device = d /\ r.op = call[d].op /\ r.target = call[d].target
    BY <1>3, SendArrives
  <2> QED BY <1>3, <2>1 DEF Send, Receive, Goto
<1>4. ASSUME NEW d \in Devices, SendFails(d) PROVE ConnKnown'
  BY <1>4 DEF SendFails, vars, local
<1>5. ASSUME NEW d \in Devices, GiveUp(d) PROVE ConnKnown'
  BY <1>5 DEF GiveUp, Return, vars, local
<1>6. ASSUME NEW d \in Devices, Deliver(d) PROVE ConnKnown'
  BY <1>6 DEF Deliver, Return, Respond, Goto
<1>7. ASSUME NEW d \in Devices, Save(d) PROVE ConnKnown'
  BY <1>7 DEF Save, Return, Post, vars, local
<1>8. ASSUME NEW d \in Devices, Die(d) PROVE ConnKnown'
  BY <1>8 DEF Die, Return, vars, local
<1>9. ASSUME NEW w \in Workers, Work(w) PROVE ConnKnown'
  BY <1>9, WorkEffect DEF Work, client
<1>10. ASSUME NEW w \in Workers, Unheard(w) PROVE ConnKnown'
  BY <1>10 DEF Unheard, Waits, Respond, Goto, client
<1>11. CASE ServerRestart
  BY <1>11 DEF ServerRestart
<1>12. CASE UNCHANGED cvars
  BY <1>12 DEF cvars, client, vars, local
<1> QED BY <1>1, <1>2, <1>3, <1>4, <1>5, <1>6, <1>7, <1>8, <1>9, <1>10, <1>11, <1>12
        DEF CNext, DeviceStep

\* As long as receipts and wallets stay, a receipt on its way may be dropped if its key
\* is recorded as lost.
LEMMA CurrentKept ==
  ASSUME CInv, UNCHANGED <<receipts, wallet>>, lost \subseteq lost',
         \A d \in Devices :
           Coming(d)' = Coming(d) \/ (Coming(d)' = None /\ Missed(d) \subseteq lost')
  PROVE  WalletCurrent'
<1> SUFFICES ASSUME NEW d \in Devices, NEW c \in Contexts,
                    receipts[<<c, d>>] # None, receipts[<<c, d>>].key \notin lost'
             PROVE  receipts[<<c, d>>].key =
                      IF Coming(d)' # None /\ Coming(d)'.ctx = c THEN Coming(d)'.key ELSE wallet[d][c]
  BY DEF WalletCurrent
<1>1. receipts[<<c, d>>].key =
        IF Coming(d) # None /\ Coming(d).ctx = c THEN Coming(d).key ELSE wallet[d][c]
  BY DEF CInv, WalletCurrent
<1>2. CASE Coming(d)' = Coming(d)
  BY <1>1, <1>2
<1>3. CASE Coming(d)' = None /\ Missed(d) \subseteq lost'
  BY <1>1, <1>3 DEF Missed
<1> QED BY <1>2, <1>3

\* Every step keeps the wallet in line with the receipts of the server.
LEMMA WalletStep == CInv /\ [CNext]_cvars => WalletCurrent'
<1> SUFFICES ASSUME CInv, [CNext]_cvars PROVE WalletCurrent'
  OBVIOUS
<1> USE NoConnAssumption, DeviceFacts
<1> USE DEF CInv, CTypeOK
<1>1. ASSUME NEW d \in Devices, NEW p \in Pubs, StartBuy(d, p) PROVE WalletCurrent'
  BY <1>1, CurrentKept DEF StartBuy, Post, Coming, CarriesReceipt, vars, local, stored
<1>2. ASSUME NEW d \in Devices, NEW c \in Contexts, StartFetch(d, c) PROVE WalletCurrent'
  BY <1>2, CurrentKept DEF StartFetch, Post, Coming, CarriesReceipt, vars, local, stored
<1>3. ASSUME NEW d \in Devices, NEW w \in Workers, Send(d, w) PROVE WalletCurrent'
  <2>1. PICK r \in Request, step \in {"find_purchase", "resolve"} : Receive(w, r, step)
    BY <1>3, SendArrives
  <2>2. \A e \in Devices : Coming(e)' = Coming(e)
    <3>1. Coming(d) = None /\ Coming(d)' = None
      BY <1>3, <2>1 DEF Send, Receive, Goto, Coming, CarriesReceipt, ServerInv, IInv, TypeOK
    <3>2. ASSUME NEW e \in Devices, e # d PROVE Coming(e)' = Coming(e)
      BY <1>3, <2>1, <3>2 DEF Send, Receive, Goto, Coming, CarriesReceipt, ConnKnown,
         ServerInv, IInv, TypeOK
    <3> QED BY <3>1, <3>2
  <2> QED BY <1>3, <2>1, <2>2, CurrentKept DEF Send, Receive, stored
<1>4. ASSUME NEW d \in Devices, SendFails(d) PROVE WalletCurrent'
  BY <1>4, CurrentKept DEF SendFails, Coming, CarriesReceipt, vars, local, stored
<1>5. ASSUME NEW d \in Devices, GiveUp(d) \/ Die(d) PROVE WalletCurrent'
  <2>1. Coming(d)' = None
    BY <1>5 DEF GiveUp, Die, Return, Coming
  <2>2. \A e \in Devices : e # d => Coming(e)' = Coming(e)
    BY <1>5 DEF GiveUp, Die, Return, Coming, CarriesReceipt, vars, local
  <2> QED BY <1>5, <2>1, <2>2, CurrentKept DEF GiveUp, Die, vars, stored
<1>6. ASSUME NEW d \in Devices, Deliver(d) PROVE WalletCurrent'
  <2>1. Coming(d)' = Coming(d)
    BY <1>6 DEF Deliver, Return, Coming
  <2>2. \A e \in Devices : e # d => Coming(e)' = Coming(e)
    BY <1>6 DEF Deliver, Return, Respond, Goto, Coming, CarriesReceipt, ServerInv, IInv, TypeOK
  <2> QED BY <1>6, <2>1, <2>2, CurrentKept DEF Deliver, Respond, stored
<1>7. ASSUME NEW d \in Devices, Save(d) PROVE WalletCurrent'
  <2>1. Coming(d) = got[d] /\ got[d] \in Receipt /\ got[d] # None /\ Coming(d)' = None
    BY <1>7 DEF Save, Return, Post, Coming, CallKnown
  <2>2. \A e \in Devices : e # d => Coming(e)' = Coming(e) /\ wallet'[e] = wallet[e]
    BY <1>7 DEF Save, Return, Post, Coming, CarriesReceipt, vars, local
  <2>3. \A c \in Contexts : wallet'[d][c] = IF c = got[d].ctx THEN got[d].key ELSE wallet[d][c]
    BY <1>7 DEF Save
  <2>4. UNCHANGED <<receipts, lost>>
    BY <1>7 DEF Save, vars, stored
  <2> QED BY <2>1, <2>2, <2>3, <2>4 DEF WalletCurrent
<1>8. ASSUME NEW w \in Workers, Work(w) PROVE WalletCurrent'
  <2>1. UNCHANGED client /\ lost \subseteq lost'
    BY <1>8 DEF Work
  <2>2. ASSUME NEW e \in Devices, conn[e] # w PROVE Coming(e)' = Coming(e)
    BY <1>8, <2>2, WorkEffect DEF Work, Coming, CarriesReceipt, client
  <2>3. ASSUME NEW e \in Devices, conn[e] = w
        PROVE  /\ stage[e] = "wait" /\ Coming(e) = None /\ req[w].device = e
               /\ CarriesReceipt(w)' =>
                    Coming(e)' = [ctx |-> ctx'[w], key |-> reply'[w].key] /\ Coming(e)' # None
               /\ ~ CarriesReceipt(w)' => Coming(e)' = None
    <3>1. stage[e] = "wait" /\ req[w].device = e /\ w # None
      BY <2>3 DEF ConnKnown
    <3>2. Coming(e) = None
      BY <1>8, <2>3, <3>1, WorkEffect DEF Work, Coming, CarriesReceipt
    <3>3. stage'[e] = "wait" /\ conn'[e] = w
      BY <2>1, <2>3, <3>1 DEF client
    <3>4. CarriesReceipt(w)' => [ctx |-> ctx'[w], key |-> reply'[w].key] \in Receipt
      BY ServerKept DEF ServerInv, AnswerKnown, CarriesReceipt, Receipt
    <3> QED BY <3>1, <3>2, <3>3, <3>4 DEF Coming
  <2>4. CASE UNCHANGED <<receipts, generated>>
    <3> SUFFICES ASSUME NEW d \in Devices, NEW c \in Contexts,
                        receipts[<<c, d>>] # None, receipts[<<c, d>>].key \notin lost
                 PROVE  receipts[<<c, d>>].key =
                          IF Coming(d)' # None /\ Coming(d)'.ctx = c THEN Coming(d)'.key ELSE wallet[d][c]
      BY <2>1, <2>4 DEF WalletCurrent, client
    <3>1. CASE conn[d] # w
      BY <2>2, <3>1 DEF WalletCurrent
    <3>2. CASE conn[d] = w /\ CarriesReceipt(w)'
      <4>1. /\ ctx'[w] = ctx[w] /\ SlotOf(w) = <<ctx[w], d>>
            /\ reply'[w].key = receipts[SlotOf(w)].key
        <5>1. WorkerStep(w)
          BY <1>8 DEF Work
        <5>2. pc'[w] = "answered" /\ reply'[w].status = "ok" /\ req[w].op # "identity"
          BY <3>2, <5>1, WorkEffect DEF CarriesReceipt
        <5>3. ctx'[w] = ctx[w] /\ reply'[w].key = receipts[SlotOf(w)].key
          BY <2>4, <5>1, <5>2, WorkEffect
        <5>4. SlotOf(w) = <<ctx[w], d>>
          BY <2>3, <3>2 DEF SlotOf
        <5> QED BY <5>3, <5>4
      <4>2. Coming(d)'.ctx = ctx[w] /\ Coming(d)'.key = receipts[<<ctx[w], d>>].key
        <5>1. Coming(d)' = [ctx |-> ctx[w], key |-> receipts[<<ctx[w], d>>].key]
          BY <2>3, <3>2, <4>1
        <5> QED BY <5>1
      <4>3. receipts[<<c, d>>].key = wallet[d][c]
        BY <2>3, <3>2 DEF WalletCurrent
      <4> QED BY <4>2, <4>3
    <3>3. CASE conn[d] = w /\ ~ CarriesReceipt(w)'
      BY <2>3, <3>3 DEF WalletCurrent
    <3> QED BY <3>1, <3>2, <3>3
  <2>5. CASE generated' # generated /\ \E d \in Devices : Waits(d, w)
    <3>1. PICK d \in Devices : conn[d] = w
      BY <2>5 DEF Waits
    <3>2. PICK k \in Keys :
            /\ k = reply'[w].key
            /\ pc'[w] = "answered" /\ reply'[w].status = "ok" /\ ctx'[w] = ctx[w]
            /\ SlotOf(w) \in Slots /\ SlotOf(w) = <<ctx[w], d>>
            /\ \A x \in Slots : x # SlotOf(w) => receipts'[x] = receipts[x]
            /\ receipts'[SlotOf(w)].key = k
      <4>1. SlotOf(w) = <<ctx[w], d>>
        BY <2>3, <3>1 DEF SlotOf
      <4>2. PICK k \in Keys \ generated :
              /\ k = reply'[w].key
              /\ pc'[w] = "answered" /\ reply'[w].status = "ok" /\ ctx'[w] = ctx[w]
              /\ SlotOf(w) \in Slots
              /\ receipts' = [receipts EXCEPT ![SlotOf(w)] =
                                [user |-> req[w].user, at |-> granted[w], key |-> k]]
        BY <1>8, <2>5, WorkEffect DEF Work
      <4> QED BY <4>1, <4>2 DEF ServerInv, IInv, TypeOK
    <3>3. req[w].op \in {"buy", "restore"} /\ UNCHANGED req
      BY <1>8, <2>5, WorkEffect DEF Work, ServerInv, AnswerKnown, Request
    <3>4. Coming(d)' = [ctx |-> ctx[w], key |-> k]
      BY <2>3, <3>1, <3>2, <3>3 DEF CarriesReceipt
    <3>5. \A e \in Devices : e # d => Coming(e)' = Coming(e)
      BY <2>2, <3>1
    <3>6. ASSUME NEW e \in Devices, NEW c \in Contexts, <<c, e>> # SlotOf(w),
                 receipts'[<<c, e>>] # None, receipts'[<<c, e>>].key \notin lost'
          PROVE  receipts'[<<c, e>>].key =
                   IF Coming(e)' # None /\ Coming(e)'.ctx = c THEN Coming(e)'.key ELSE wallet[e][c]
      <4>1. receipts'[<<c, e>>] = receipts[<<c, e>>]
        BY <3>2, <3>6 DEF Slots
      <4>2. receipts[<<c, e>>].key =
              IF Coming(e) # None /\ Coming(e).ctx = c THEN Coming(e).key ELSE wallet[e][c]
        BY <2>1, <3>6, <4>1 DEF WalletCurrent
      <4>3. CASE e = d
        BY <2>3, <3>1, <3>2, <3>4, <3>6, <4>1, <4>2, <4>3
      <4>4. CASE e # d
        BY <3>5, <4>1, <4>2, <4>4
      <4> QED BY <4>3, <4>4
    <3>7. receipts'[<<ctx[w],
       d>>].key = Coming(d)'.key /\ Coming(d)'.ctx = ctx[w] /\ Coming(d)' # None
      BY <3>2, <3>4 DEF Receipt, Slots
    <3>8. ASSUME NEW e \in Devices, NEW c \in Contexts, <<c, e>> = SlotOf(w)
          PROVE  e = d /\ c = ctx[w]
      BY <3>2, <3>8
    <3>9. wallet' = wallet
      BY <2>1 DEF client
    <3>10. ASSUME NEW e \in Devices, NEW c \in Contexts,
                  receipts'[<<c, e>>] # None, receipts'[<<c, e>>].key \notin lost'
           PROVE  receipts'[<<c, e>>].key =
                    IF Coming(e)' # None /\ Coming(e)'.ctx = c THEN Coming(e)'.key ELSE wallet[e][c]
      <4>1. CASE <<c, e>> = SlotOf(w)
        BY <3>7, <3>8, <4>1
      <4>2. CASE <<c, e>> # SlotOf(w)
        BY <3>6, <3>10, <4>2
      <4> QED BY <4>1, <4>2
    <3> QED BY <3>9, <3>10 DEF WalletCurrent
  <2>6. CASE generated' # generated /\ ~ \E d \in Devices : Waits(d, w)
    <3>1. \A e \in Devices : Coming(e)' = Coming(e)
      BY <2>2, <2>6 DEF Waits
    <3>2. /\ receipts'[SlotOf(w)].key \in lost'
          /\ \A x \in Slots : x # SlotOf(w) => receipts'[x] = receipts[x]
      <4>1. PICK k \in Keys \ generated :
              /\ generated' = generated \cup {k}
              /\ receipts' = [receipts EXCEPT ![SlotOf(w)] =
                                [user |-> req[w].user, at |-> granted[w], key |-> k]]
              /\ SlotOf(w) \in Slots
        BY <1>8, <2>6, WorkEffect DEF Work
      <4>2. k \in lost'
        BY <1>8, <2>6, <4>1 DEF Work
      <4> QED BY <4>1, <4>2 DEF ServerInv, IInv, TypeOK
    <3> QED BY <2>1, <3>1, <3>2 DEF WalletCurrent, client, Slots
  <2> QED BY <1>8, <2>4, <2>5, <2>6, WorkEffect DEF Work
<1>9. ASSUME NEW w \in Workers, Unheard(w) PROVE WalletCurrent'
  <2>1. \A e \in Devices : Coming(e)' = Coming(e)
    BY <1>9 DEF Unheard, Waits, Respond, Goto, Coming, CarriesReceipt, client, ServerInv,
       IInv, TypeOK
  <2> QED BY <1>9, <2>1, CurrentKept DEF Unheard, Respond, stored, client
<1>10. CASE ServerRestart
  <2>1. \A e \in Devices : conn[e] # None => Coming(e)' = None /\ Missed(e) \subseteq lost'
    BY <1>10 DEF ServerRestart, Coming, ConnKnown
  <2>2. \A e \in Devices : conn[e] = None => Coming(e)' = Coming(e)
    BY <1>10 DEF ServerRestart, Coming
  <2> QED BY <1>10, <2>1, <2>2, CurrentKept DEF ServerRestart, Restart, stored
<1>11. CASE UNCHANGED cvars
  BY <1>11, CurrentKept DEF cvars, client, vars, local, stored, Coming, CarriesReceipt
<1> QED BY <1>1, <1>2, <1>3, <1>4, <1>5, <1>6, <1>7, <1>8, <1>9, <1>10, <1>11
        DEF CNext, DeviceStep

\* As long as the wallets stay, an answer a device waits for may only be dropped, or
\* belong to a request that is not answered yet.
LEMMA OpensKept ==
  ASSUME CInv, UNCHANGED wallet, lost \subseteq lost',
         \A d \in Devices : conn'[d] # None =>
           \/ pc'[conn'[d]] # "answered"
           \/ /\ conn'[d] = conn[d] /\ call'[d] = call[d]
              /\ pc'[conn[d]] = pc[conn[d]]
              /\ req'[conn[d]] = req[conn[d]]
              /\ reply'[conn[d]] = reply[conn[d]]
  PROVE  PackageOpens'
BY DEF CInv, PackageOpens

\* Every step keeps a package a device waits for in line with its wallet.
LEMMA PackageStep == CInv /\ [CNext]_cvars => PackageOpens'
<1> SUFFICES ASSUME CInv, [CNext]_cvars PROVE PackageOpens'
  OBVIOUS
<1> USE NoConnAssumption, DeviceFacts
<1> USE DEF CInv, CTypeOK
<1>1. ASSUME NEW d \in Devices,
             \/ \E p \in Pubs : StartBuy(d, p)
             \/ \E c \in Contexts : StartFetch(d, c)
             \/ SendFails(d) \/ GiveUp(d) \/ Die(d)
      PROVE  PackageOpens'
  BY <1>1, OpensKept DEF StartBuy, StartFetch, SendFails, GiveUp, Die, Post, Return, vars, local
<1>2. ASSUME NEW d \in Devices, NEW w \in Workers, Send(d, w) PROVE PackageOpens'
  <2>1. PICK r \in Request, step \in {"find_purchase", "resolve"} : Receive(w, r, step)
    BY <1>2, SendArrives
  <2> QED BY <1>2, <2>1, OpensKept DEF Send, Receive, Goto, ConnKnown, ServerInv, IInv, TypeOK
<1>3. ASSUME NEW d \in Devices, Deliver(d) PROVE PackageOpens'
  BY <1>3, OpensKept DEF Deliver, Return, Respond, Goto, ServerInv, IInv, TypeOK
<1>4. ASSUME NEW d \in Devices, Save(d) PROVE PackageOpens'
  <2>1. conn' = conn /\ conn[d] = None
    BY <1>4 DEF Save, Return
  <2>2. \A e \in Devices : e # d => wallet'[e] = wallet[e] /\ call'[e] = call[e]
    BY <1>4 DEF Save, Return, Post
  <2> QED BY <1>4, <2>1, <2>2 DEF Save, PackageOpens, vars, local
<1>5. ASSUME NEW w \in Workers, Work(w) PROVE PackageOpens'
  <2>1. UNCHANGED client /\ lost \subseteq lost'
    BY <1>5 DEF Work
  <2> SUFFICES ASSUME NEW d \in Devices, conn[d] # None, pc'[conn[d]] = "answered",
                      reply'[conn[d]].status = "ok", req'[conn[d]].op = "fetch"
               PROVE  reply'[conn[d]].key \in {wallet[d][call[d].target]} \cup lost'
    BY <2>1 DEF PackageOpens, client
  <2>2. CASE conn[d] # w
    BY <1>5, <2>1, <2>2, WorkEffect DEF Work, PackageOpens
  <2>3. CASE conn[d] = w
    <3>1. /\ req[w].device = d /\ req[w].op = "fetch" /\ req[w].target = call[d].target
          /\ stage[d] = "wait"
      BY <1>5, <2>3, WorkEffect DEF Work, ConnKnown
    <3>2. pc[w] \in {"resolve", "load_receipt", "answered"}
      BY <1>5, <3>1, WorkEffect DEF Work, ServerInv, AnswerKnown
    <3>3. /\ pc[w] = "load_receipt" /\ receipts[SlotOf(w)] # None
          /\ reply'[w].key = receipts[SlotOf(w)].key
      BY <1>5, <2>3, <3>2, WorkEffect DEF Work
    <3>4. SlotOf(w) = <<call[d].target, d>> /\ call[d].target \in Contexts
      BY <3>1, <3>3 DEF SlotOf, ServerInv, AnswerKnown, CallKnown, Call
    <3>5. Coming(d) = None
      BY <2>3, <3>1 DEF Coming, CarriesReceipt
    <3>6. receipts[<<call[d].target, d>>].key \notin lost =>
            receipts[<<call[d].target, d>>].key = wallet[d][call[d].target]
      BY <3>3, <3>4, <3>5 DEF WalletCurrent
    <3> QED BY <2>1, <2>3, <3>3, <3>4, <3>6
  <2> QED BY <2>2, <2>3
<1>6. ASSUME NEW w \in Workers, Unheard(w) PROVE PackageOpens'
  BY <1>6, OpensKept DEF Unheard, Waits, Respond, Goto, client, ServerInv, IInv, TypeOK
<1>7. CASE ServerRestart
  BY <1>7, OpensKept DEF ServerRestart
<1>8. CASE UNCHANGED cvars
  BY <1>8, OpensKept DEF cvars, client, vars, local
<1> QED BY <1>1, <1>2, <1>3, <1>4, <1>5, <1>6, <1>7, <1>8 DEF CNext, DeviceStep

\* CInv is an invariant of the clients and the server together.
THEOREM ClientInvariance == CSpec => []CInv
<1>1. CInit => CInv
  <2> SUFFICES ASSUME CInit PROVE CInv
    OBVIOUS
  <2>1. IInv
    BY NoneAssumption DEF CInit, Init, IInv, TypeOK, RequestKnown, MarkerInv, MarkerOwned,
       MarkerExclusive, OrphansKept, MarkersAccounted, ReceiptInv, ContextKnown,
       ReceiptsGenuine, AnswersOwner, MarkerSteps, Steps, Contexts
  <2>2. CTypeOK /\ CallKnown /\ ConnKnown
    BY <2>1, AttemptsAssumption DEF CInit, IInv, CTypeOK, CallKnown, ConnKnown, Stages
  <2>3. AnswerKnown
    BY DEF CInit, Init, AnswerKnown
  <2>4. WalletCurrent /\ PackageOpens
    BY DEF CInit, Init, WalletCurrent, PackageOpens, Slots
  <2> QED BY <2>1, <2>2, <2>3, <2>4 DEF CInv, ServerInv
<1>2. CInv /\ [CNext]_cvars => CInv'
  BY CallStep, ConnStep, ServerKept, WalletStep, PackageStep DEF CInv
<1> QED BY <1>1, <1>2, PTL DEF CSpec

\* The server, the calls of the devices and their wallets keep their types.
THEOREM ClientTypeCorrect == CSpec => []CTypeOK
<1>1. CInv => CTypeOK
  BY DEF CInv
<1> QED BY <1>1, ClientInvariance, PTL

\* The wallet of a device differs from the server's receipts only by receipts whose
\* answer was lost.
THEOREM WalletInLine == CSpec => []WalletCurrent
<1>1. CInv => WalletCurrent
  BY DEF CInv
<1> QED BY <1>1, ClientInvariance, PTL

\* A package a device is answered opens with the receipt of its wallet, unless it was
\* sealed for one whose answer was lost.
THEOREM PackagesOpen == CSpec => []PackageOpens
<1>1. CInv => PackageOpens
  BY DEF CInv
<1> QED BY <1>1, ClientInvariance, PTL

\* Driven by the clients, the server behaves as Purchase: all its theorems hold.
THEOREM ServerRefined == CSpec => Spec
<1>1. CInit => Init
  BY DEF CInit
<1> QED BY <1>1, ServerStep, ClientInvariance, PTL DEF CSpec, Spec

================================================================================
