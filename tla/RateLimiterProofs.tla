--------------------------- MODULE RateLimiterProofs ---------------------------
(***************************************************************************)
(* The properties of RateLimiter, for any number of threads, addresses and *)
(* users, any limit, window and clock.                                     *)
(***************************************************************************)
EXTENDS RateLimiter, FiniteSetTheorems, TLAPS

\* The constants, spelled out.
LEMMA TimesKnown ==
  /\ Times \subseteq Nat /\ Start \in Times
  /\ \A t \in Times : Window <= t /\ t \in 0 .. MaxTime
  /\ Fresh \in Counter /\ Fresh.started = 0 /\ Fresh.calls = 0
  /\ None \notin Counter /\ None \notin Keys
BY TimeAssumption, NoneAssumption DEF Times, Fresh, Counter

\* A record with the fields of a counter.
LEMMA CounterFields ==
  /\ \A c \in Counter : c.started \in 0 .. MaxTime /\ c.calls \in Nat /\ c # None
  /\ \A c \in Counter : c = [started |-> c.started, calls |-> c.calls]
  /\ \A s \in 0 .. MaxTime, n \in Nat : [started |-> s, calls |-> n] \in Counter
BY NoneAssumption DEF Counter

\* The counter a call meets is its own, in a window the call falls into, or a new one;
\* then the old one is gone, or the call falls outside its window.
LEMMA CurrentIs ==
  ASSUME NEW c \in Counter, NEW now \in Times
  PROVE  \/ /\ Current(c, now) = [started |-> now, calls |-> 0]
            /\ now < c.started \/ c.started + Window <= now
         \/ /\ Current(c, now) = c
            /\ c.started <= now /\ now < c.started + Window
BY TimesKnown, CounterFields, TimeAssumption DEF Current

\* Pruning leaves a counter as it is or drops it at the end of its window.
LEMMA SlateIs ==
  ASSUME TypeOK, NEW now \in Times, NEW k \in Keys
  PROVE  \/ Slate(now)[k] = counters[k]
         \/ Slate(now)[k] = None /\ counters[k] \in Counter /\ counters[k].started + Window <= now
BY TimesKnown, CounterFields DEF TypeOK, Slate, Pruned, Ended

LEMMA SlateType ==
  ASSUME TypeOK, NEW now \in Times
  PROVE  Slate(now) \in [Keys -> Counter \cup {None}]
BY DEF TypeOK, Slate, Pruned

LEMMA MetIs ==
  ASSUME TypeOK, CounterKnown, limit > 0, NEW k \in Keys, NEW now \in Times
  PROVE  \/ /\ Met(k, now) = [started |-> now, calls |-> 0]
            /\ counters[k] = None \/ now < counters[k].started \/ counters[k].started + Window <= now
         \/ /\ counters[k] \in Counter /\ Met(k, now) = counters[k]
            /\ counters[k].started <= now /\ now < counters[k].started + Window
<1> DEFINE s == Slate(now)[k]
           c == IF s = None THEN Fresh ELSE s
<1>1. s \in Counter \cup {None} /\ counters[k] \in Counter \cup {None}
  BY SlateType DEF TypeOK
<1>2. c \in Counter /\ Met(k, now) = Current(c, now)
  BY <1>1, TimesKnown DEF Met
<1>3. \/ s = counters[k]
      \/ s = None /\ counters[k] \in Counter /\ counters[k].started + Window <= now
  BY SlateIs
<1>4. CASE s = None
  <2>1. c.started + Window <= now /\ c.started <= now
    BY <1>4, TimesKnown, TimeAssumption
  <2>2. Met(k, now) = [started |-> now, calls |-> 0]
    BY <1>2, <2>1 DEF Current
  <2> QED BY <1>3, <1>4, <2>2
<1>5. CASE s # None
  <2>1. c = counters[k] /\ counters[k] \in Counter
    BY <1>1, <1>3, <1>5
  <2> HIDE DEF c
  <2> QED BY <1>2, <2>1, CurrentIs
<1> QED BY <1>4, <1>5

LEMMA MetType ==
  ASSUME TypeOK, CounterKnown, limit > 0, NEW k \in Keys, NEW now \in Times
  PROVE  /\ Met(k, now) \in Counter
         /\ Start <= Met(k, now).started /\ Met(k, now).started <= now /\ Met(k, now).calls <= limit
         /\ Counted(Met(k, now)) \in Counter
         /\ Counted(Met(k, now)).started = Met(k, now).started
         /\ Counted(Met(k, now)).calls = IF Met(k, now).calls < limit THEN Met(k, now).calls + 1
                                                                     ELSE Met(k, now).calls
         /\ 1 <= Counted(Met(k, now)).calls /\ Counted(Met(k, now)).calls <= limit
<1> DEFINE m == Met(k, now)
<1>0. limit \in Nat
  BY LimitsAssumption DEF TypeOK
<1>1. m \in Counter /\ Start <= m.started /\ m.started <= now /\ m.calls <= limit
  <2>1. CASE m = [started |-> now, calls |-> 0]
    BY <1>0, <2>1, TimesKnown, CounterFields, TimeAssumption DEF Times
  <2>2. CASE counters[k] \in Counter /\ m = counters[k] /\ counters[k].started <= now
    BY <2>2, CounterFields DEF CounterKnown
  <2> QED BY <2>1, <2>2, MetIs
<1> HIDE DEF m
<1>2. CASE m.calls < limit
  <2>1. Counted(m) = [m EXCEPT !.calls = m.calls + 1]
    BY <1>2 DEF Counted
  <2>2. Counted(m) = [started |-> m.started, calls |-> m.calls + 1]
    BY <1>1, <2>1, CounterFields
  <2> QED BY <1>0, <1>1, <1>2, <2>2, CounterFields DEF m
<1>3. CASE ~ (m.calls < limit)
  BY <1>0, <1>1, <1>3, CounterFields DEF Counted, m
<1> QED BY <1>2, <1>3

\* The windows open at time now can be counted, and are what a prune leaves.
LEMMA OpenCounted ==
  ASSUME TypeOK, TableKnown, NEW now \in Times
  PROVE  /\ IsFiniteSet({x \in Keys : Open(counters[x], now)})
         /\ Cardinality({x \in Keys : Open(counters[x], now)}) \in Nat
         /\ {x \in Keys : Pruned(counters, now)[x] # None} = {x \in Keys : Open(counters[x], now)}
<1> DEFINE O == {x \in Keys : Open(counters[x], now)}
           T == {k \in Keys : counters[k] # None}
<1>1. O \in SUBSET T /\ IsFiniteSet(T)
  BY DEF Open, TableKnown
<1>2. IsFiniteSet(O)
  BY <1>1, FS_Subset
<1>3. ASSUME NEW x \in Keys PROVE Pruned(counters, now)[x] # None <=> Open(counters[x], now)
  <2>1. CASE counters[x] = None
    BY <2>1 DEF Pruned, Open
  <2>2. CASE counters[x] \in Counter
    BY <2>2, CounterFields, TimesKnown, TimeAssumption DEF Pruned, Open, Ended
  <2> QED BY <2>1, <2>2 DEF TypeOK
<1> QED BY <1>2, <1>3, FS_CardinalityType

\* What a call of the limiter writes has its type.
LEMMA AcceptedType ==
  ASSUME TypeOK, CounterKnown, TableKnown, limit > 0,
         NEW w \in Workers, NEW k \in Keys, NEW next \in Steps, Accepted(w, k, next)
  PROVE  /\ counters' \in [Keys -> Counter \cup {None}] /\ since' \in 0 .. (Interval - 1)
         /\ pc' \in [Workers -> Steps] /\ latest' \in 0 .. MaxTime
         /\ late' \in [Keys -> Nat] /\ admitted' \in [Keys -> [Times -> Nat]]
         /\ exact' \in [Keys -> Counter] /\ spared' \in Nat
<1> DEFINE now == at[w]
           m == Met(k, now)
<1>1. now \in Times
  BY DEF TypeOK
<1>2. m \in Counter /\ Counted(m) \in Counter
  BY <1>1, MetType
<1>3. counters' \in [Keys -> Counter \cup {None}]
  <2>1. Slate(now) \in [Keys -> Counter \cup {None}]
    BY <1>1, SlateType
  <2> QED BY <1>2, <2>1 DEF Accepted
<1>4. since' \in 0 .. (Interval - 1)
  <2>1. since' = IF Due THEN 0 ELSE IF Full THEN since + 1 ELSE since
    BY DEF Accepted
  <2> QED BY <2>1, PruneAssumption DEF TypeOK, Due
<1>5. pc' \in [Workers -> Steps]
  BY DEF Accepted, Goto, TypeOK, Steps
<1>6. latest' \in 0 .. MaxTime
  BY <1>1, TimesKnown DEF Accepted, TypeOK
<1>7. late' \in [Keys -> Nat]
  BY DEF Accepted, TypeOK
<1>8. admitted' \in [Keys -> [Times -> Nat]]
  <2>1. admitted' = admitted \/ admitted' = [admitted EXCEPT ![k][now] = @ + 1]
    BY DEF Accepted
  <2>2. admitted[k] \in [Times -> Nat] /\ admitted[k][now] + 1 \in Nat
    BY <1>1 DEF TypeOK
  <2>3. [admitted[k] EXCEPT ![now] = @ + 1] \in [Times -> Nat]
    BY <2>2
  <2> HIDE DEF now
  <2> QED BY <2>1, <2>3 DEF TypeOK
<1>9. exact' \in [Keys -> Counter]
  <2>1. exact[k] \in Counter /\ limit \in Nat
    BY LimitsAssumption DEF TypeOK
  <2>2. Current(exact[k], now) \in Counter
    BY <1>1, <2>1, CurrentIs, TimesKnown, CounterFields
  <2>3. ASSUME NEW c \in Counter PROVE Counted(c) \in Counter
    <3>1. c.calls < limit => Counted(c) = [started |-> c.started, calls |-> c.calls + 1]
      BY CounterFields DEF Counted
    <3>2. ~ (c.calls < limit) => Counted(c) = c
      BY DEF Counted
    <3> QED BY <3>1, <3>2, CounterFields
  <2>4. exact' = [exact EXCEPT ![k] = Counted(Current(exact[k], now))]
    BY DEF Accepted
  <2> QED BY <2>2, <2>3, <2>4 DEF TypeOK
<1>10. spared' \in Nat
  <2>1. spared' = IF Due THEN Cardinality({x \in Keys : Open(counters[x], now)}) ELSE spared
    BY DEF Accepted
  <2> QED BY <1>1, <2>1, OpenCounted DEF TypeOK
<1> QED BY <1>3, <1>4, <1>5, <1>6, <1>7, <1>8, <1>9, <1>10

\* A step is a restart, leaves the limiter alone, or is a call of it.
LEMMA StepIs ==
  ASSUME TypeOK, EntryKnown, [Next]_vars
  PROVE  \/ Restart
         \/ UNCHANGED <<limit, counters, since, history>>
         \/ /\ limit > 0 /\ limit' = limit
            /\ \E w \in Workers, next \in Steps : entry[w] \in Keys /\ Accepted(w, entry[w], next)
<1>0. limit \in Nat
  BY LimitsAssumption DEF TypeOK
<1>1. ASSUME NEW w \in Workers, Receive(w) \/ Handle(w) \/ Authorize(w)
      PROVE  UNCHANGED <<limit, counters, since, history>>
  BY <1>1 DEF Receive, Handle, Authorize
<1>2. ASSUME NEW w \in Workers, NEW next \in Steps, Enter(w, next), entry[w] \in Keys
      PROVE  \/ UNCHANGED <<limit, counters, since, history>>
             \/ limit > 0 /\ limit' = limit /\ Accepted(w, entry[w], next)
  BY <1>0, <1>2 DEF Enter
<1>3. ASSUME NEW w \in Workers, EnterRequest(w) \/ EnterUser(w)
      PROVE  entry[w] \in Keys /\ \E next \in Steps : Enter(w, next)
  BY <1>3 DEF EnterRequest, EnterUser, EntryKnown, Steps
<1>4. CASE UNCHANGED vars
  BY <1>4 DEF vars, history
<1> QED BY <1>1, <1>2, <1>3, <1>4 DEF Next, WorkerStep

\* Every step keeps the types.
LEMMA TypeStep == IInv /\ [Next]_vars => TypeOK' /\ EntryKnown'
<1> SUFFICES ASSUME IInv, [Next]_vars PROVE TypeOK' /\ EntryKnown'
  OBVIOUS
<1>0. TypeOK /\ EntryKnown /\ CounterKnown /\ TableKnown /\ limit \in Nat
  BY LimitsAssumption DEF IInv, TypeOK
<1>k. /\ \A a \in Addresses : <<"request", a>> \in Keys
      /\ \A o \in Limited, u \in Users : <<o, u>> \in Keys
  BY DEF Keys, Limited
<1> USE DEF history, Goto, Steps
<1>1. ASSUME NEW w \in Workers, Receive(w) PROVE TypeOK' /\ EntryKnown'
  <2>1. PICK a \in Addresses : entry' = [entry EXCEPT ![w] = <<"request", a>>]
    BY <1>1 DEF Receive
  <2>2. entry' \in [Workers -> Keys \cup {None}] /\ entry'[w] \in Keys
    BY <1>0, <1>k, <2>1 DEF TypeOK
  <2>3. at' \in [Workers -> Times]
    BY <1>0, <1>1 DEF Receive, TypeOK
  <2>4. requests' \in 0 .. MaxRequests
    BY <1>0, <1>1, RequestsAssumption DEF Receive, TypeOK
  <2> QED BY <1>0, <1>1, <2>1, <2>2, <2>3, <2>4 DEF Receive, TypeOK, EntryKnown
<1>2. ASSUME NEW w \in Workers, Handle(w) PROVE TypeOK' /\ EntryKnown'
  BY <1>0, <1>2 DEF Handle, TypeOK, EntryKnown
<1>3. ASSUME NEW w \in Workers, Authorize(w) PROVE TypeOK' /\ EntryKnown'
  <2>1. PICK o \in Limited, u \in Users : entry' = [entry EXCEPT ![w] = <<o, u>>]
    BY <1>3 DEF Authorize
  <2>2. entry' \in [Workers -> Keys \cup {None}] /\ entry'[w] \in Keys
    BY <1>0, <1>k, <2>1 DEF TypeOK
  <2>3. at' \in [Workers -> Times]
    BY <1>0, <1>3 DEF Authorize, TypeOK
  <2> QED BY <1>0, <1>3, <2>1, <2>2, <2>3 DEF Authorize, TypeOK, EntryKnown
<1>4. ASSUME NEW w \in Workers, NEW next \in {"handle", "idle"}, Enter(w, next), entry[w] \in Keys
      PROVE  TypeOK' /\ EntryKnown'
  <2>1. /\ entry' \in [Workers -> Keys \cup {None}] /\ at' \in [Workers -> Times]
        /\ UNCHANGED <<limit, requests>>
    BY <1>0, <1>4, TimesKnown DEF Enter, TypeOK
  <2>2. /\ pc' \in [Workers -> Steps] /\ pc'[w] \in {"handle", "idle"}
        /\ \A x \in Workers : x # w => pc'[x] = pc[x] /\ entry'[x] = entry[x]
    BY <1>0, <1>4 DEF Enter, Accepted, TypeOK
  <2>3. EntryKnown'
    BY <1>0, <2>2 DEF EntryKnown
  <2>4. CASE limit = 0
    BY <1>0, <1>4, <2>1, <2>2, <2>3, <2>4 DEF Enter, TypeOK
  <2>5. CASE limit > 0
    <3>1. Accepted(w, entry[w], next)
      BY <1>4, <2>5, <1>0 DEF Enter
    <3>2. next \in Steps
      OBVIOUS
    <3> HIDE DEF Steps, Goto, history
    <3>3. /\ counters' \in [Keys -> Counter \cup {None}] /\ since' \in 0 .. (Interval - 1)
          /\ pc' \in [Workers -> Steps] /\ latest' \in 0 .. MaxTime
          /\ late' \in [Keys -> Nat] /\ admitted' \in [Keys -> [Times -> Nat]]
          /\ exact' \in [Keys -> Counter] /\ spared' \in Nat
      BY <1>0, <1>4, <2>5, <3>1, <3>2, AcceptedType
    <3> QED BY <1>0, <2>1, <2>3, <3>3 DEF TypeOK
  <2> QED BY <1>0, <2>4, <2>5
<1>5. ASSUME NEW w \in Workers, EnterRequest(w) \/ EnterUser(w) PROVE TypeOK' /\ EntryKnown'
  <2>1. entry[w] \in Keys /\ (Enter(w, "handle") \/ Enter(w, "idle"))
    BY <1>0, <1>5 DEF EnterRequest, EnterUser, EntryKnown
  <2> QED BY <1>4, <2>1
<1>6. CASE Restart
  <2>1. requests' \in 0 .. MaxRequests /\ since' \in 0 .. (Interval - 1) /\ latest' \in 0 .. MaxTime
    BY <1>6, RequestsAssumption, PruneAssumption, TimeAssumption DEF Restart, TypeOK
  <2> QED BY <1>6, <2>1, TimesKnown DEF Restart, TypeOK, EntryKnown
<1>7. CASE UNCHANGED vars
  BY <1>0, <1>7 DEF vars, TypeOK, EntryKnown
<1> QED BY <1>1, <1>2, <1>3, <1>5, <1>6, <1>7 DEF Next, WorkerStep

\* Every call leaves the counters with a call and a beginning.
LEMMA CounterStep == IInv /\ [Next]_vars => CounterKnown'
<1> SUFFICES ASSUME IInv, [Next]_vars PROVE CounterKnown'
  OBVIOUS
<1>0. TypeOK /\ EntryKnown /\ CounterKnown
  BY DEF IInv
<1>1. CASE Restart
  BY <1>1 DEF Restart, CounterKnown
<1>2. CASE UNCHANGED <<limit, counters, since, history>>
  BY <1>0, <1>2 DEF CounterKnown, history
<1>3. ASSUME limit > 0, limit' = limit, NEW w \in Workers, NEW next \in Steps,
             entry[w] \in Keys, Accepted(w, entry[w], next)
      PROVE  CounterKnown'
  <2> DEFINE k == entry[w]
             now == at[w]
             m == Met(k, now)
  <2>1. now \in Times /\ k \in Keys /\ latest \in 0 .. MaxTime
    BY <1>0, <1>3 DEF TypeOK
  <2>2. /\ counters' = [Slate(now) EXCEPT ![k] = Counted(m)]
        /\ latest' = IF now > latest THEN now ELSE latest
    BY <1>3 DEF Accepted
  <2>3. Counted(m) \in Counter /\ Start <= Counted(m).started /\ Counted(m).started <= now
        /\ 1 <= Counted(m).calls /\ Counted(m).calls <= limit
    BY <1>0, <1>3, <2>1, MetType
  <2>4. now <= latest' /\ latest <= latest' /\ latest' \in Nat
    BY <2>1, <2>2, TimesKnown
  <2>5. Slate(now) \in [Keys -> Counter \cup {None}]
    BY <1>0, <2>1, SlateType
  <2> HIDE DEF k, now, m
  <2>6. ASSUME NEW x \in Keys, x # k, counters'[x] # None
        PROVE  /\ Start <= counters'[x].started /\ counters'[x].started <= latest'
               /\ 1 <= counters'[x].calls /\ counters'[x].calls <= limit'
    <3>1. counters'[x] = Slate(now)[x]
      BY <2>2, <2>5, <2>6
    <3>2. counters'[x] = counters[x] /\ counters[x] \in Counter
      BY <1>0, <2>1, <2>6, <3>1, SlateIs DEF TypeOK
    <3> QED BY <1>0, <1>3, <2>1, <2>4, <2>6, <3>2, CounterFields DEF CounterKnown
  <2>7. counters'[k] = Counted(m)
    BY <2>1, <2>2, <2>5
  <2>8. /\ Start <= counters'[k].started /\ counters'[k].started <= latest'
        /\ 1 <= counters'[k].calls /\ counters'[k].calls <= limit'
    BY <1>3, <2>1, <2>3, <2>4, <2>7, CounterFields, TimesKnown
  <2> QED BY <2>6, <2>8 DEF CounterKnown
<1> QED BY <1>0, <1>1, <1>2, <1>3, StepIs

\* The larger of two numbers.
LEMMA MaxIs ==
  ASSUME NEW a \in Nat, NEW b \in Nat
  PROVE  Max({a, b}) = IF a >= b THEN a ELSE b
<1> DEFINE M == IF a >= b THEN a ELSE b
<1>1. M \in {a, b} /\ \A y \in {a, b} : M >= y
  OBVIOUS
<1>2. \A x \in {a, b} : (\A y \in {a, b} : x >= y) => x = M
  OBVIOUS
<1> HIDE DEF M
<1>3. Max({a, b}) \in {a, b} /\ \A y \in {a, b} : Max({a, b}) >= y
  BY <1>1 DEF Max
<1>4. Max({a, b}) = M
  BY <1>2, <1>3
<1> QED BY <1>4 DEF M

\* Every call leaves the table within what the calls since the last prune account for.
LEMMA TableStep == IInv /\ [Next]_vars => TableKnown'
<1> SUFFICES ASSUME IInv, [Next]_vars PROVE TableKnown'
  OBVIOUS
<1>0. /\ TypeOK /\ EntryKnown /\ CounterKnown /\ TableKnown
      /\ Threshold \in Nat /\ spared \in Nat /\ since \in Nat
  BY PruneAssumption DEF IInv, TypeOK
<1>1. CASE Restart
  <2>1. {x \in Keys : counters'[x] # None} = {} /\ spared' = 0 /\ since' = 0
    BY <1>1 DEF Restart
  <2>2. Max({Threshold, spared' + 1}) + since' \in Nat
    BY <1>0, <2>1, MaxIs
  <2> QED BY <2>1, <2>2, FS_EmptySet DEF TableKnown, Size
<1>2. CASE UNCHANGED <<limit, counters, since, history>>
  BY <1>0, <1>2 DEF TableKnown, Size, history
<1>3. ASSUME limit > 0, limit' = limit, NEW w \in Workers, NEW next \in Steps,
             entry[w] \in Keys, Accepted(w, entry[w], next)
      PROVE  TableKnown'
  <2> DEFINE k == entry[w]
             now == at[w]
             T == {x \in Keys : counters[x] # None}
             S == {x \in Keys : Slate(now)[x] # None}
             Tn == {x \in Keys : counters'[x] # None}
  <2>1. now \in Times /\ k \in Keys
    BY <1>0, <1>3 DEF TypeOK
  <2>2. /\ counters' = [Slate(now) EXCEPT ![k] = Counted(Met(k, now))]
        /\ since' = IF Due THEN 0 ELSE IF Full THEN since + 1 ELSE since
        /\ spared' = IF Due THEN Cardinality({x \in Keys : Open(counters[x], now)}) ELSE spared
    BY <1>3 DEF Accepted
  <2>3. Counted(Met(k, now)) # None /\ Slate(now) \in [Keys -> Counter \cup {None}]
    BY <1>0, <1>3, <2>1, MetType, SlateType, CounterFields
  <2>4. Tn = S \cup {k}
    BY <2>1, <2>2, <2>3
  <2>5. /\ IsFiniteSet(T) /\ Cardinality(T) \in Nat
        /\ Cardinality(T) <= Max({Threshold, spared + 1}) + since
    BY <1>0, FS_CardinalityType DEF TableKnown, Size
  <2>6. ASSUME IsFiniteSet(S) PROVE IsFiniteSet(Tn) /\ Cardinality(Tn) \in Nat
                                    /\ Cardinality(S) \in Nat /\ Cardinality(Tn) <= Cardinality(S) + 1
    <3> HIDE DEF S, Tn, T, k
    <3>1. Cardinality(S) \in Nat
      BY <2>6, FS_CardinalityType
    <3>2. /\ IsFiniteSet(S \cup {k})
          /\ Cardinality(S \cup {k}) = IF k \in S THEN Cardinality(S) ELSE Cardinality(S) + 1
      BY <2>6, FS_AddElement
    <3> QED BY <2>4, <3>1, <3>2
  <2>7. CASE Due
    <3>1. /\ IsFiniteSet(S) /\ Cardinality(S) = spared' /\ spared' \in Nat
      BY <1>0, <2>1, <2>2, <2>7, OpenCounted DEF Slate
    <3>2. since' = 0
      BY <2>2, <2>7
    <3> HIDE DEF S, Tn
    <3>3. Cardinality(Tn) <= Max({Threshold, spared' + 1}) + since'
      BY <1>0, <2>6, <3>1, <3>2, MaxIs
    <3> QED BY <2>6, <3>1, <3>3 DEF TableKnown, Size, Tn
  <2>8. CASE ~ Due
    <3>1. S = T /\ spared' = spared /\ since' = IF Full THEN since + 1 ELSE since
      BY <2>2, <2>8 DEF Slate
    <3>2. Full <=> Cardinality(T) >= Threshold
      BY DEF Full, Size
    <3> HIDE DEF S, Tn, T
    <3>3. Cardinality(Tn) <= Max({Threshold, spared' + 1}) + since'
      BY <1>0, <2>5, <2>6, <3>1, <3>2, MaxIs
    <3> QED BY <2>5, <2>6, <3>1, <3>3 DEF TableKnown, Size, Tn
  <2> QED BY <2>7, <2>8
<1> QED BY <1>0, <1>1, <1>2, <1>3, StepIs

\* Every call leaves the table as one without pruning would decide.
LEMMA PruneStep == IInv /\ [Next]_vars => PruneInvisible'
<1> SUFFICES ASSUME IInv, [Next]_vars PROVE PruneInvisible'
  OBVIOUS
<1>0. TypeOK /\ EntryKnown /\ CounterKnown /\ PruneInvisible
  BY DEF IInv
<1>1. CASE Restart
  BY <1>1 DEF Restart, PruneInvisible
<1>2. CASE UNCHANGED <<limit, counters, since, history>>
  BY <1>0, <1>2 DEF PruneInvisible, history
<1>3. ASSUME limit > 0, limit' = limit, NEW w \in Workers, NEW next \in Steps,
             entry[w] \in Keys, Accepted(w, entry[w], next)
      PROVE  PruneInvisible'
  <2> DEFINE k == entry[w]
             now == at[w]
             m == Met(k, now)
  <2>1. now \in Times /\ k \in Keys /\ latest \in 0 .. MaxTime /\ now \in Nat
        /\ late \in [Keys -> Nat] /\ exact \in [Keys -> Counter]
        /\ Slate(now) \in [Keys -> Counter \cup {None}]
    BY <1>0, <1>3, SlateType, TimesKnown DEF TypeOK
  <2>2. /\ counters' = [Slate(now) EXCEPT ![k] = Counted(m)]
        /\ latest' = IF now > latest THEN now ELSE latest
        /\ late' = IF now < latest THEN [late EXCEPT ![k] = @ + 1] ELSE late
        /\ exact' = [exact EXCEPT ![k] = Counted(Current(exact[k], now))]
    BY <1>3 DEF Accepted
  <2> HIDE DEF k, now, m
  <2>3. ASSUME late'[k] = 0 PROVE counters'[k] = exact'[k]
    <3>1. late[k] = 0 /\ latest <= now
      BY <2>1, <2>2, <2>3
    <3>2. CASE counters[k] = exact[k]
      <4>1. m = Current(exact[k], now)
        <5>1. counters[k] \in Counter /\ counters[k] # None /\ counters[k].started \in Nat
          BY <2>1, <3>2, CounterFields, TimeAssumption
        <5>2. \/ /\ Current(exact[k], now) = [started |-> now, calls |-> 0]
                 /\ now < counters[k].started \/ counters[k].started + Window <= now
              \/ /\ Current(exact[k], now) = counters[k]
                 /\ counters[k].started <= now /\ now < counters[k].started + Window
          BY <2>1, <3>2, <5>1, CurrentIs
        <5>3. \/ /\ m = [started |-> now, calls |-> 0]
                 /\ now < counters[k].started \/ counters[k].started + Window <= now
              \/ /\ m = counters[k]
                 /\ counters[k].started <= now /\ now < counters[k].started + Window
          BY <1>0, <1>3, <2>1, <5>1, MetIs DEF m
        <5> QED BY <2>1, <5>1, <5>2, <5>3, TimeAssumption
      <4> QED BY <2>1, <2>2, <4>1
    <3>3. CASE counters[k] = None /\ (exact[k] = Fresh \/ Ended(exact[k], latest))
      <4>1. m = [started |-> now, calls |-> 0]
        BY <1>0, <1>3, <2>1, <3>3, MetIs, CounterFields DEF m
      <4>2. exact[k] \in Counter /\ exact[k].started + Window <= now
        BY <2>1, <3>1, <3>3, TimesKnown, CounterFields, TimeAssumption DEF Ended
      <4>3. Current(exact[k], now) = [started |-> now, calls |-> 0]
        BY <2>1, <4>2, CurrentIs, CounterFields, TimesKnown, TimeAssumption
      <4> QED BY <2>1, <2>2, <4>1, <4>3
    <3> QED BY <1>0, <2>1, <3>1, <3>2, <3>3 DEF PruneInvisible
  <2>4. ASSUME NEW x \in Keys, x # k, late'[x] = 0
        PROVE  \/ counters'[x] = exact'[x]
               \/ counters'[x] = None /\ (exact'[x] = Fresh \/ Ended(exact'[x], latest'))
    <3>1. late[x] = 0 /\ exact'[x] = exact[x] /\ counters'[x] = Slate(now)[x]
      BY <2>1, <2>2, <2>4
    <3>2. \/ counters[x] = exact[x]
          \/ counters[x] = None /\ (exact[x] = Fresh \/ Ended(exact[x], latest))
      BY <1>0, <3>1 DEF PruneInvisible
    <3>3. latest' \in Nat /\ now <= latest' /\ latest <= latest'
      BY <2>1, <2>2
    <3>4. exact[x] \in Counter /\ exact[x].started \in Nat
      BY <2>1, CounterFields, TimeAssumption
    <3>5. ASSUME NEW t \in Nat, exact[x].started + Window <= t, t <= latest' PROVE Ended(exact[x], latest')
      BY <3>3, <3>4, <3>5, TimeAssumption DEF Ended
    <3>6. CASE Slate(now)[x] = counters[x]
      BY <2>1, <3>1, <3>2, <3>3, <3>4, <3>5, <3>6 DEF Ended
    <3>7. CASE Slate(now)[x] = None /\ counters[x] \in Counter /\ counters[x].started + Window <= now
      <4>1. counters[x] = exact[x]
        BY <3>2, <3>7, CounterFields
      <4> QED BY <2>1, <3>1, <3>3, <3>5, <3>7, <4>1
    <3> QED BY <1>0, <2>1, <3>6, <3>7, SlateIs
  <2> QED BY <2>3, <2>4 DEF PruneInvisible
<1> QED BY <1>0, <1>1, <1>2, <1>3, StepIs

\* One more call at time now is one more call of every span that has this time.
LEMMA SpanGrows ==
  ASSUME NEW a \in [Times -> Nat], NEW now \in Times, NEW t \in Times, IsFiniteSet(SpanCalls(a, t)),
         NEW b \in [Times -> Nat], b[now] = a[now] + 1, \A u \in Times : u # now => b[u] = a[u]
  PROVE  /\ IsFiniteSet(SpanCalls(b, t))
         /\ Cardinality(SpanCalls(a, t)) \in Nat
         /\ Cardinality(SpanCalls(b, t)) =
              Cardinality(SpanCalls(a, t)) + IF t <= now /\ now < t + Window THEN 1 ELSE 0
<1> DEFINE e == <<now, a[now] + 1>>
           A == SpanCalls(a, t)
           B == SpanCalls(b, t)
<1>1. \A f \in [Times -> Nat] : \A x :
        x \in SpanCalls(f, t) <=>
          \E u \in Times : t <= u /\ u < t + Window /\ \E i \in 1 .. f[u] : x = <<u, i>>
  BY DEF SpanCalls
<1>3. \A i : i \in 1 .. (a[now] + 1) <=> i \in 1 .. a[now] \/ i = a[now] + 1
  <2>1. a[now] \in Nat
    OBVIOUS
  <2> QED BY <2>1
<1>4. CASE t <= now /\ now < t + Window
  <2>1. B = A \cup {e}
    BY <1>1, <1>3, <1>4
  <2>2. e \notin A
    <3>1. SUFFICES ASSUME e \in A PROVE FALSE
      OBVIOUS
    <3>2. PICK u \in Times : \E i \in 1 .. a[u] : e = <<u, i>>
      BY <1>1, <3>1
    <3> QED BY <3>2
  <2> HIDE DEF A, B, e
  <2>3. IsFiniteSet(A) /\ Cardinality(A) \in Nat
    BY FS_CardinalityType DEF A
  <2>4. IsFiniteSet(A \cup {e}) /\ Cardinality(A \cup {e}) = Cardinality(A) + 1
    BY <2>2, <2>3, FS_AddElement
  <2> QED BY <1>4, <2>1, <2>3, <2>4 DEF A, B
<1>5. CASE ~ (t <= now /\ now < t + Window)
  <2>1. B = A
    BY <1>1, <1>5
  <2> HIDE DEF A, B, e
  <2>2. IsFiniteSet(A) /\ Cardinality(A) \in Nat
    BY FS_CardinalityType DEF A
  <2> QED BY <1>5, <2>1, <2>2 DEF A, B
<1> QED BY <1>4, <1>5

\* What a call adds to the spans of a key.
LEMMA SpanStepIs ==
  ASSUME TypeOK, SpanFinite, NEW w \in Workers, NEW k \in Keys, NEW next \in Steps, Accepted(w, k, next),
         NEW x \in Keys, NEW t \in Times
  PROVE  /\ IsFiniteSet(SpanCalls(admitted'[x], t)) /\ Span(x, t) \in Nat
         /\ Cardinality(SpanCalls(admitted'[x], t)) =
              Span(x, t) + IF x = k /\ Met(k, at[w]).calls < limit /\ t <= at[w] /\ at[w] < t + Window
                             THEN 1 ELSE 0
<1>1. /\ admitted' = IF Met(k, at[w]).calls < limit THEN [admitted EXCEPT ![k][at[w]] = @ + 1] ELSE admitted
      /\ admitted \in [Keys -> [Times -> Nat]] /\ at[w] \in Times
      /\ IsFiniteSet(SpanCalls(admitted[x], t))
  BY DEF Accepted, TypeOK, SpanFinite
<1>2. Span(x, t) = Cardinality(SpanCalls(admitted[x], t)) /\ Span(x, t) \in Nat
  BY <1>1, FS_CardinalityType DEF Span
<1>3. CASE x = k /\ Met(k, at[w]).calls < limit
  <2>1. /\ admitted[x] \in [Times -> Nat] /\ admitted'[x] \in [Times -> Nat]
        /\ admitted'[x][at[w]] = admitted[x][at[w]] + 1
        /\ \A u \in Times : u # at[w] => admitted'[x][u] = admitted[x][u]
    BY <1>1, <1>3
  <2>2. /\ IsFiniteSet(SpanCalls(admitted'[x], t))
        /\ Cardinality(SpanCalls(admitted'[x], t)) =
             Cardinality(SpanCalls(admitted[x], t)) + IF t <= at[w] /\ at[w] < t + Window THEN 1 ELSE 0
    BY <1>1, <2>1, SpanGrows
  <2> QED BY <1>2, <1>3, <2>2
<1>4. CASE ~ (x = k /\ Met(k, at[w]).calls < limit)
  <2>1. admitted'[x] = admitted[x]
    BY <1>1, <1>4
  <2> QED BY <1>1, <1>2, <1>4, <2>1
<1> QED BY <1>3, <1>4

\* A late call raises what a span may let through by two limits.
LEMMA ExcessIs ==
  ASSUME NEW l \in Nat, NEW n \in Nat
  PROVE  /\ 2 * l * n \in Nat
         /\ 2 * (l + 1) * n = 2 * l * n + 2 * n
         /\ 2 * (1 + l) * n = 2 * l * n + 2 * n
<1>1. l * n \in Nat /\ (l + 1) * n = l * n + n
  OBVIOUS
<1> QED BY <1>1

LEMMA NoExcess == \A n \in Nat : 2 * 0 * n = 0
  OBVIOUS

\* Every call leaves the spans within what they may let through.
LEMMA SpanStep == IInv /\ [Next]_vars => SpanFinite' /\ SpanKnown'
<1> SUFFICES ASSUME IInv, [Next]_vars PROVE SpanFinite' /\ SpanKnown'
  OBVIOUS
<1>0. TypeOK /\ EntryKnown /\ CounterKnown /\ SpanFinite /\ SpanKnown
  BY DEF IInv
<1>1. CASE Restart
  <2>1. ASSUME NEW k \in Keys, NEW t \in Times
        PROVE  SpanCalls(admitted'[k], t) = {} /\ counters'[k] = None /\ late'[k] = 0 /\ latest' = 0
    BY <1>1 DEF Restart, SpanCalls
  <2>2. limit' \in Nat
    BY <1>1, LimitsAssumption DEF Restart
  <2>3. \A k \in Keys, t \in Times : IsFiniteSet(SpanCalls(admitted'[k], t)) /\ Span(k, t)' = 0
    BY <2>1, FS_EmptySet DEF Span
  <2>4. \A k \in Keys : Excess(k)' = 0
    <3> SUFFICES ASSUME NEW k \in Keys PROVE 2 * late'[k] * limit' = 0
      BY DEF Excess
    <3>1. late'[k] = 0
      BY <1>1 DEF Restart
    <3>2. 2 * 0 * limit' = 0
      BY <2>2, NoExcess
    <3> QED BY <3>1, <3>2
  <2> QED BY <2>1, <2>2, <2>3, <2>4, TimesKnown DEF SpanFinite, SpanKnown
<1>2. CASE UNCHANGED <<limit, counters, since, history>>
  BY <1>0, <1>2 DEF SpanFinite, SpanKnown, Span, Excess, history
<1>3. ASSUME limit > 0, limit' = limit, NEW w \in Workers, NEW next \in Steps,
             entry[w] \in Keys, Accepted(w, entry[w], next)
      PROVE  SpanFinite' /\ SpanKnown'
  <2> DEFINE k == entry[w]
             now == at[w]
             m == Met(k, now)
             n(x, t) == Span(x, t)
             nn(x, t) == Cardinality(SpanCalls(admitted'[x], t))
             E(x) == 2 * late[x] * limit
             En(x) == 2 * late'[x] * limit
  <2>0. limit \in Nat /\ Window \in Nat \ {0} /\ now \in Times /\ latest \in 0 .. MaxTime
    BY <1>0, LimitsAssumption, TimeAssumption DEF TypeOK
  <2>1. /\ now \in Times /\ k \in Keys /\ latest \in Nat /\ now \in Nat /\ limit \in Nat
        /\ late \in [Keys -> Nat] /\ counters \in [Keys -> Counter \cup {None}]
        /\ Slate(now) \in [Keys -> Counter \cup {None}] /\ Window \in Nat \ {0}
    <3>1. latest \in Nat
      BY <2>0, TimeAssumption
    <3>2. now \in Nat
      BY <2>0, TimesKnown
    <3> QED BY <1>0, <1>3, <2>0, <3>1, <3>2, SlateType DEF TypeOK
  <2>2. /\ counters' = [Slate(now) EXCEPT ![k] = Counted(m)]
        /\ latest' = IF now > latest THEN now ELSE latest
        /\ late' = IF now < latest THEN [late EXCEPT ![k] = @ + 1] ELSE late
    BY <1>3 DEF Accepted
  <2>3. ASSUME NEW x \in Keys, NEW t \in Times
        PROVE  /\ IsFiniteSet(SpanCalls(admitted'[x], t)) /\ n(x, t) \in Nat
               /\ nn(x, t) = n(x, t) + IF x = k /\ m.calls < limit /\ t <= now /\ now < t + Window THEN 1 ELSE 0
    BY <1>0, <1>3, SpanStepIs
  <2>4. ASSUME NEW x \in Keys, NEW t \in Times
        PROVE  /\ n(x, t) < E(x) + 2 * limit
               /\ counters[x] = None => /\ latest < t + Window => n(x, t) < E(x) + limit
                                        /\ latest <= t => n(x, t) <= E(x)
               /\ counters[x] # None => /\ counters[x].started < t + Window =>
                                             n(x, t) < E(x) + limit + counters[x].calls
                                        /\ counters[x].started < t => n(x, t) < E(x) + counters[x].calls
                                        /\ counters[x].started + Window <= t => n(x, t) <= E(x)
    BY <1>0, <1>3, <2>4 DEF SpanKnown, Excess
  <2>5. ASSUME NEW x \in Keys
        PROVE  /\ E(x) \in Nat /\ En(x) \in Nat
               /\ En(x) = IF x = k /\ now < latest THEN E(x) + 2 * limit ELSE E(x)
    <3>1. late[x] \in Nat /\ late'[x] = IF x = k /\ now < latest THEN late[x] + 1 ELSE late[x]
      BY <2>1, <2>2
    <3>2. CASE x = k /\ now < latest
      BY <2>1, <3>1, <3>2, ExcessIs
    <3>3. CASE ~ (x = k /\ now < latest)
      BY <2>1, <3>1, <3>3, ExcessIs
    <3> QED BY <3>2, <3>3
  <2>6. /\ counters'[k] \in Counter /\ counters'[k].started = m.started
        /\ counters'[k].calls = IF m.calls < limit THEN m.calls + 1 ELSE m.calls
        /\ 1 <= counters'[k].calls /\ counters'[k].calls <= limit
        /\ m.started \in Nat /\ m.calls \in Nat /\ counters'[k] # None
    <3>1. counters'[k] = Counted(m)
      BY <2>1, <2>2
    <3> QED BY <1>0, <1>3, <2>1, <3>1, MetType, CounterFields
  <2>7. \/ /\ m.started = now /\ m.calls = 0
           /\ counters[k] = None \/ now < counters[k].started \/ counters[k].started + Window <= now
        \/ /\ counters[k] \in Counter /\ m = counters[k]
           /\ counters[k].started <= now /\ now < counters[k].started + Window
    BY <1>0, <1>3, <2>1, MetIs
  <2>8. ASSUME NEW x \in Keys, counters[x] # None
        PROVE  /\ counters[x].started \in Nat /\ counters[x].calls \in Nat
               /\ counters[x].started <= latest /\ 1 <= counters[x].calls /\ counters[x].calls <= limit
    BY <1>0, <2>1, <2>8, CounterFields DEF CounterKnown
  <2>9. \A x \in Keys : x # k => \/ counters'[x] = counters[x]
                                 \/ /\ counters'[x] = None /\ counters[x] # None
                                    /\ counters[x].started + Window <= now
    BY <1>0, <2>1, <2>2, SlateIs, CounterFields
  <2> DEFINE Known(x, t) ==
               /\ nn(x, t) < En(x) + 2 * limit
               /\ counters'[x] = None => /\ latest' < t + Window => nn(x, t) < En(x) + limit
                                         /\ latest' <= t => nn(x, t) <= En(x)
               /\ counters'[x] # None => /\ counters'[x].started < t + Window =>
                                              nn(x, t) < En(x) + limit + counters'[x].calls
                                         /\ counters'[x].started < t => nn(x, t) < En(x) + counters'[x].calls
                                         /\ counters'[x].started + Window <= t => nn(x, t) <= En(x)
  <2> HIDE DEF k, now, m, n, nn, E, En
  <2>10. ASSUME NEW x \in Keys, x # k, NEW t \in Times PROVE Known(x, t)
    <3>1. t \in Nat /\ nn(x, t) = n(x, t) /\ En(x) = E(x) /\ n(x, t) \in Nat /\ E(x) \in Nat
      BY <2>3, <2>5, <2>10, TimesKnown
    <3>2. latest' \in Nat /\ latest <= latest' /\ now <= latest'
      BY <2>1, <2>2
    <3>3. CASE counters'[x] = counters[x]
      BY <2>1, <2>4, <3>1, <3>2, <3>3
    <3>4. CASE counters'[x] = None /\ counters[x] # None /\ counters[x].started + Window <= now
      BY <2>1, <2>4, <2>8, <3>1, <3>2, <3>4
    <3> QED BY <2>9, <2>10, <3>3, <3>4
  <2>11. ASSUME NEW t \in Times PROVE Known(k, t)
    <3>1. /\ t \in Nat /\ n(k, t) \in Nat /\ E(k) \in Nat
          /\ nn(k, t) = n(k, t) + IF m.calls < limit /\ t <= now /\ now < t + Window THEN 1 ELSE 0
          /\ En(k) = IF now < latest THEN E(k) + 2 * limit ELSE E(k)
      BY <2>1, <2>3, <2>5, TimesKnown
    <3>2. CASE now < latest
      <4>1. nn(k, t) <= En(k)
        BY <2>1, <2>4, <3>1, <3>2
      <4> QED BY <1>3, <2>1, <2>5, <2>6, <3>1, <4>1
    <3>3. CASE latest <= now
      <4>1. CASE m.started = now /\ m.calls = 0 /\ counters[k] = None
        BY <1>3, <2>1, <2>4, <2>6, <3>1, <3>3, <4>1
      <4>2. CASE m.started = now /\ m.calls = 0 /\ counters[k] # None /\ counters[k].started + Window <= now
        BY <1>3, <2>1, <2>4, <2>6, <2>8, <3>1, <3>3, <4>2
      <4>3. CASE counters[k] # None /\ m = counters[k]
                 /\ counters[k].started <= now /\ now < counters[k].started + Window
        BY <1>3, <2>1, <2>4, <2>6, <2>8, <3>1, <3>3, <4>3
      <4> QED BY <2>1, <2>7, <2>8, <3>3, <4>1, <4>2, <4>3, CounterFields
    <3> QED BY <2>1, <3>2, <3>3
  <2>12. \A x \in Keys, t \in Times : Known(x, t)
    BY <2>10, <2>11
  <2>13. SpanFinite'
    BY <2>3 DEF SpanFinite
  <2> QED BY <1>3, <2>12, <2>13 DEF SpanKnown, Span, Excess, nn, En
<1> QED BY <1>0, <1>1, <1>2, <1>3, StepIs

--------------------------------------------------------------------------------
\* The invariant of the limiter: any threads call it with any times.
THEOREM Invariance == Spec => []IInv
<1>1. Init => IInv
  <2> SUFFICES ASSUME Init PROVE IInv
    OBVIOUS
  <2>1. TypeOK /\ EntryKnown
    <3>1. requests \in 0 .. MaxRequests /\ since \in 0 .. (Interval - 1) /\ latest \in 0 .. MaxTime
      BY RequestsAssumption, PruneAssumption, TimeAssumption DEF Init
    <3> QED BY <3>1, TimesKnown DEF Init, TypeOK, EntryKnown, Steps
  <2>2. CounterKnown /\ PruneInvisible
    BY DEF Init, CounterKnown, PruneInvisible
  <2>3. TableKnown
    <3>1. {x \in Keys : counters[x] # None} = {} /\ spared = 0 /\ since = 0
      BY DEF Init
    <3>2. Max({Threshold, spared + 1}) + since \in Nat
      BY <3>1, MaxIs, PruneAssumption
    <3> QED BY <3>1, <3>2, FS_EmptySet DEF TableKnown, Size
  <2>4. \A k \in Keys, t \in Times : SpanCalls(admitted[k], t) = {}
    BY DEF Init, SpanCalls
  <2>5. \A k \in Keys, t \in Times : Span(k, t) = 0
    BY <2>4, FS_EmptySet DEF Span
  <2>6. SpanFinite
    BY <2>4, FS_EmptySet DEF SpanFinite
  <2>7. SpanKnown
    BY <2>5, TimesKnown, LimitsAssumption DEF Init, SpanKnown, Excess
  <2> QED BY <2>1, <2>2, <2>3, <2>6, <2>7 DEF IInv
<1>2. IInv /\ [Next]_vars => IInv'
  <2>1. TypeOK' /\ EntryKnown' /\ CounterKnown' /\ TableKnown' /\ PruneInvisible'
          /\ SpanFinite' /\ SpanKnown' => IInv'
    BY DEF IInv
  <2> QED BY <2>1, TypeStep, CounterStep, TableStep, PruneStep, SpanStep
<1> QED BY <1>1, <1>2, PTL DEF Spec

\* The variables keep their types.
THEOREM TypeCorrect == Spec => []TypeOK
<1>1. IInv => TypeOK
  BY DEF IInv
<1> QED BY <1>1, Invariance, PTL

\* accepted with the clock read before the mutex: in any span of the length of a window a
\* key gets through less often than two windows allow, with two more for each late call.
THEOREM SpanBoundCorrect == Spec => []SpanBound
<1>1. IInv => SpanBound
  <2> SUFFICES ASSUME IInv, limit > 0, NEW k \in Keys, NEW t \in Times
               PROVE  Span(k, t) < 2 * (1 + late[k]) * limit
    BY DEF SpanBound
  <2>1. Span(k, t) < 2 * late[k] * limit + 2 * limit
    BY DEF IInv, SpanKnown, Excess
  <2>2. late[k] \in Nat /\ limit \in Nat
    BY LimitsAssumption DEF IInv, TypeOK
  <2>3. 2 * (1 + late[k]) * limit = 2 * late[k] * limit + 2 * limit
    BY <2>2, ExcessIs
  <2> QED BY <2>1, <2>3
<1> QED BY <1>1, Invariance, PTL

\* prune drops no counter that would have decided anything.
THEOREM PruneInvisibleCorrect == Spec => []PruneInvisible
<1>1. IInv => PruneInvisible
  BY DEF IInv
<1> QED BY <1>1, Invariance, PTL

\* k_prune_threshold and k_prune_interval bound m_counters.
THEOREM CountersBoundedCorrect == Spec => []CountersBounded
<1>1. IInv => CountersBounded
  <2> SUFFICES ASSUME IInv PROVE CountersBounded
    OBVIOUS
  <2>1. /\ Size(counters) <= Max({Threshold, spared + 1}) + since
        /\ since <= Interval - 1 /\ since \in Nat /\ spared \in Nat
        /\ Interval \in Nat /\ Threshold \in Nat
    BY PruneAssumption DEF IInv, TableKnown, TypeOK
  <2>2. Max({Threshold, spared + 1}) \in Nat
    BY <2>1, MaxIs
  <2>3. Size(counters) \in Nat
    BY FS_CardinalityType DEF IInv, TableKnown, Size
  <2> QED BY <2>1, <2>2, <2>3 DEF CountersBounded
<1> QED BY <1>1, Invariance, PTL
================================================================================
