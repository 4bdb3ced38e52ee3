------------------------------ MODULE RateLimiter ------------------------------
(***************************************************************************)
(* The way of a request through the server: the limit of its address, the  *)
(* route, the checks of its body and token, the limit of its user.  The    *)
(* limiter counts the calls of a key in windows, under a mutex; the time   *)
(* is read before the mutex is taken, from a wall clock, which may be set  *)
(* forward and back: it shows any time.                                    *)
(***************************************************************************)
EXTENDS Integers, FiniteSets, FiniteSetsExt

CONSTANTS
  Workers,      \* threads of the HTTP server
  Addresses,    \* remote addresses
  Users,        \* users with a session
  Limits,       \* values of configuration.rate_limit, 0 for no limit
  Window,       \* k_rate_window
  Threshold,    \* k_prune_threshold
  Interval,     \* k_prune_interval
  Start,        \* the earliest time the clock shows
  MaxTime,      \* bound on the clock
  MaxRequests,  \* bound on the requests
  None          \* no counter, no key

Keys == ({"request"} \X Addresses) \cup ({"publication", "delivery"} \X Users)
Times == Start .. MaxTime
Counter == [started: 0 .. MaxTime, calls: Nat]

ASSUME LimitsAssumption == Limits \subseteq Nat
ASSUME PruneAssumption == Threshold \in Nat /\ Interval \in Nat \ {0}
ASSUME TimeAssumption ==
  Window \in Nat \ {0} /\ Start \in Nat /\ MaxTime \in Nat /\ Window <= Start /\ Start <= MaxTime
ASSUME RequestsAssumption == MaxRequests \in Nat
ASSUME NoneAssumption == None \notin Counter \cup Keys

\* What the surface counts per user: publish and fetch_package, no other route.
Limited == {"publication", "delivery"}

VARIABLES
  limit,        \* calls a window takes
  counters,     \* m_counters
  since,        \* m_calls_since_prune
  pc,           \* what the worker does next
  entry,        \* the key it is about to enter
  at,           \* the time it has read
  requests,     \* requests so far
  latest,       \* history: the latest time a call has entered with
  late,         \* history: calls of a key that entered with an earlier time than that
  admitted,     \* history: calls of a key let through, by the time they had read
  exact,        \* history: the counters, had none been pruned
  spared        \* history: how many windows were open at the last prune

history == <<latest, late, admitted, exact, spared>>
vars == <<limit, counters, since, pc, entry, at, requests, latest, late, admitted, exact, spared>>

Steps == {"idle", "enter_request", "handle", "enter_user"}

TypeOK ==
  /\ limit \in Limits
  /\ counters \in [Keys -> Counter \cup {None}]
  /\ since \in 0 .. (Interval - 1)
  /\ pc \in [Workers -> Steps]
  /\ entry \in [Workers -> Keys \cup {None}]
  /\ at \in [Workers -> Times]
  /\ requests \in 0 .. MaxRequests
  /\ latest \in 0 .. MaxTime
  /\ late \in [Keys -> Nat]
  /\ admitted \in [Keys -> [Times -> Nat]]
  /\ exact \in [Keys -> Counter]
  /\ spared \in Nat

Fresh == [started |-> 0, calls |-> 0]

Init ==
  /\ limit \in Limits
  /\ counters = [k \in Keys |-> None]
  /\ since = 0
  /\ pc = [w \in Workers |-> "idle"]
  /\ entry = [w \in Workers |-> None]
  /\ at = [w \in Workers |-> Start]
  /\ requests = 0
  /\ latest = 0
  /\ late = [k \in Keys |-> 0]
  /\ admitted = [k \in Keys |-> [t \in Times |-> 0]]
  /\ exact = [k \in Keys |-> Fresh]
  /\ spared = 0

--------------------------------------------------------------------------------
Goto(w, step) == pc' = [pc EXCEPT ![w] = step]

Size(cs) == Cardinality({k \in Keys : cs[k] # None})

\* Mutant: a counter goes as soon as its window has begun.
EndedEarly(c, now) == now >= c.started

\* Mutant: a counter stays at the moment its window ends.
EndedLate(c, now) == now > c.started + Window

\* The window of counter c is over at time now.
Ended(c, now) == now >= c.started /\ now >= c.started + Window

Pruned(cs, now) == [k \in Keys |-> IF cs[k] # None /\ Ended(cs[k], now) THEN None ELSE cs[k]]

\* Mutant: a new window keeps the start of the old one.
CurrentOldStart(c, now) ==
  IF now < c.started \/ now >= c.started + Window THEN [c EXCEPT !.calls = 0] ELSE c

\* The counter a call meets: a new window unless the call falls into the one it has.
Current(c, now) ==
  IF now < c.started \/ now >= c.started + Window THEN [started |-> now, calls |-> 0] ELSE c

\* Counter c has a window that takes calls at time now or will later.
Open(c, now) == c # None /\ (now < c.started \/ now - c.started < Window)

\* The call counts, if the window has room for it.
Counted(c) == IF c.calls < limit THEN [c EXCEPT !.calls = @ + 1] ELSE c

\* From a number of counters on, every so many calls prune the table first.
Full == Size(counters) >= Threshold
Due  == Full /\ since + 1 >= Interval
Slate(now) == IF Due THEN Pruned(counters, now) ELSE counters

\* The counter a call of key k meets; a missing one is made.
Met(k, now) == Current(IF Slate(now)[k] = None THEN Fresh ELSE Slate(now)[k], now)

\* RateLimiter::accepted for key k, with the mutex held.
Accepted(w, k, next) ==
  LET now  == at[w]
      c    == Met(k, now)
      room == c.calls < limit
  IN /\ counters' = [Slate(now) EXCEPT ![k] = Counted(c)]
     /\ since' = IF Due THEN 0 ELSE IF Full THEN since + 1 ELSE since
     /\ Goto(w, IF room THEN next ELSE "idle")
     /\ latest' = IF now > latest THEN now ELSE latest
     /\ late' = IF now < latest THEN [late EXCEPT ![k] = @ + 1] ELSE late
     /\ admitted' = IF room THEN [admitted EXCEPT ![k][now] = @ + 1] ELSE admitted
     /\ exact' = [exact EXCEPT ![k] = Counted(Current(@, now))]
     /\ spared' = IF Due THEN Cardinality({x \in Keys : Open(counters[x], now)}) ELSE spared

\* The call of the limiter: a limit of 0 lets everything through.
Enter(w, next) ==
  /\ IF limit = 0
       THEN Goto(w, next) /\ UNCHANGED <<counters, since, history>>
       ELSE Accepted(w, entry[w], next)
  /\ entry' = [entry EXCEPT ![w] = None]
  /\ at' = [at EXCEPT ![w] = Start]
  /\ UNCHANGED <<limit, requests>>

\* A request arrives and the binding reads the clock.
Receive(w) ==
  /\ pc[w] = "idle"
  /\ requests < MaxRequests
  /\ requests' = requests + 1
  /\ \E a \in Addresses : entry' = [entry EXCEPT ![w] = <<"request", a>>]
  /\ \E now \in Times : at' = [at EXCEPT ![w] = now]
  /\ Goto(w, "enter_request")
  /\ UNCHANGED <<limit, counters, since, history>>

EnterRequest(w) == pc[w] = "enter_request" /\ Enter(w, "handle")

\* The request is answered without a second limit: its path has no route or one the
\* surface does not limit, its body another version or a field missing, its token no user.
Handle(w) ==
  /\ pc[w] = "handle"
  /\ Goto(w, "idle")
  /\ UNCHANGED <<limit, counters, since, entry, at, requests, history>>

\* publish and fetch_package, once the user is known: the clock is read again.
Authorize(w) ==
  /\ pc[w] = "handle"
  /\ \E o \in Limited, u \in Users : entry' = [entry EXCEPT ![w] = <<o, u>>]
  /\ \E now \in Times : at' = [at EXCEPT ![w] = now]
  /\ Goto(w, "enter_user")
  /\ UNCHANGED <<limit, counters, since, requests, history>>

EnterUser(w) == pc[w] = "enter_user" /\ Enter(w, "idle")

\* The server is started again, with any limit: it has forgotten every call.
Restart ==
  /\ limit' \in Limits
  /\ counters' = [k \in Keys |-> None]
  /\ since' = 0
  /\ pc' = [w \in Workers |-> "idle"]
  /\ entry' = [w \in Workers |-> None]
  /\ at' = [w \in Workers |-> Start]
  /\ requests' = 0
  /\ latest' = 0
  /\ late' = [k \in Keys |-> 0]
  /\ admitted' = [k \in Keys |-> [t \in Times |-> 0]]
  /\ exact' = [k \in Keys |-> Fresh]
  /\ spared' = 0

WorkerStep(w) ==
  Receive(w) \/ EnterRequest(w) \/ Handle(w) \/ Authorize(w) \/ EnterUser(w)

Next == Restart \/ \E w \in Workers : WorkerStep(w)

Spec == Init /\ [][Next]_vars

--------------------------------------------------------------------------------
\* The calls of a span, the window of time that begins at t, by the number of calls of each
\* time: each call as its time and its number among those of that time.
SpanCalls(calls, t) == UNION {{u} \X (1 .. calls[u]) : u \in {v \in Times : t <= v /\ v < t + Window}}

\* How many calls of key k were let through in it.
Span(k, t) == Cardinality(SpanCalls(admitted[k], t))

\* In a span of the length of a window a key gets through less often than two windows
\* allow, with two more for every call that came late to the mutex.
SpanBound ==
  limit > 0 => \A k \in Keys, t \in Times : Span(k, t) < 2 * (1 + late[k]) * limit

\* Pruning decides nothing: as long as the calls of a key come in time, its counter is
\* the one it would have had without, or is gone and would start a new window anyway.
PruneInvisible ==
  \A k \in Keys : late[k] = 0 =>
    \/ counters[k] = exact[k]
    \/ counters[k] = None /\ (exact[k] = Fresh \/ Ended(exact[k], latest))

\* The table stays bounded by the counters whose window was open at the last prune: it
\* grows by less than an interval of calls past them, or past the threshold.
CountersBounded ==
  Size(counters) <= Max({Threshold, spared + 1}) + Interval - 1

--------------------------------------------------------------------------------
(***************************************************************************)
(* The inductive invariant.                                                *)
(***************************************************************************)
\* A counter has counted a call, and began with one that has entered.
CounterKnown ==
  \A k \in Keys : counters[k] # None =>
    /\ Start <= counters[k].started /\ counters[k].started <= latest
    /\ 1 <= counters[k].calls /\ counters[k].calls <= limit

\* The table has grown by at most one counter for every call since the last prune.
TableKnown ==
  /\ IsFiniteSet({k \in Keys : counters[k] # None})
  /\ Size(counters) <= Max({Threshold, spared + 1}) + since

\* What the late calls of key k may have let through, wherever they fell.
Excess(k) == 2 * late[k] * limit

\* The calls of a span can be counted.
SpanFinite == \A k \in Keys, t \in Times : IsFiniteSet(SpanCalls(admitted[k], t))

\* What a span has let through, by where it lies to the window of the counter: behind its
\* beginning the call that began it is missing, behind its end there is nothing yet.  A
\* counter that is gone ended before the latest call.
SpanKnown ==
  limit > 0 => \A k \in Keys, t \in Times :
    LET n == Span(k, t)
        c == counters[k]
    IN /\ n < Excess(k) + 2 * limit
       /\ c = None => /\ latest < t + Window => n < Excess(k) + limit
                      /\ latest <= t => n <= Excess(k)
       /\ c # None => /\ c.started < t + Window => n < Excess(k) + limit + c.calls
                      /\ c.started < t => n < Excess(k) + c.calls
                      /\ c.started + Window <= t => n <= Excess(k)

\* A worker at the mutex has a key.
EntryKnown == \A w \in Workers : pc[w] \in {"enter_request", "enter_user"} => entry[w] \in Keys

IInv == TypeOK /\ EntryKnown /\ CounterKnown /\ TableKnown /\ PruneInvisible /\ SpanFinite /\ SpanKnown
================================================================================
