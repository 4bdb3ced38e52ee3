------------------------------- MODULE AtomicFile -------------------------------
(***************************************************************************)
(* What the file operations promise of one path: each takes effect at one  *)
(* instant between its call and its answer, or is answered as failed and   *)
(* has none; the answer is the one of that instant; after a power loss the *)
(* path holds what it last held when its directory was synced, or what a   *)
(* later operation put there.                                              *)
(***************************************************************************)
EXTENDS Integers

CONSTANTS
  Workers,      \* threads that call the operations
  Contents,     \* what a file may hold, or Absent
  Absent        \* no file

VARIABLES
  file,         \* what the path holds
  kept,         \* what it may hold after a power loss
  request,      \* the operation each worker waits for
  answer        \* its answer, once it has taken effect

avars == <<file, kept, request, answer>>

Operations == {"store", "if_absent", "claim", "remove", "load", "secret"}
Idle    == [op |-> "none", content |-> Absent]
Waiting == [status |-> "none", content |-> Absent]

Init ==
  /\ file = Absent
  /\ kept = {Absent}
  /\ request = [w \in Workers |-> Idle]
  /\ answer = [w \in Workers |-> Waiting]

Ask(w) ==
  /\ request[w] = Idle
  /\ \E op \in Operations, c \in Contents :
       request' = [request EXCEPT ![w] = [op |-> op, content |-> c]]
  /\ UNCHANGED <<file, kept, answer>>

\* What the path holds after an operation that finds it holding f.
After(r, f) ==
  CASE r.op = "store" -> r.content
    [] r.op = "remove" -> Absent
    [] r.op \in {"if_absent", "claim", "secret"} /\ f = Absent -> r.content
    [] OTHER -> f

\* What the operation answers.
Answer(r, f) ==
  CASE r.op \in {"store", "remove"} -> [status |-> "ok", content |-> Absent]
    [] r.op \in {"if_absent", "claim"} ->
         [status |-> IF f = Absent THEN "ok" ELSE "present", content |-> Absent]
    [] r.op = "secret" -> [status |-> "ok", content |-> After(r, f)]
    [] OTHER -> [status |-> IF f = Absent THEN "missing" ELSE "ok", content |-> f]

TakeEffect(w) ==
  /\ request[w] # Idle
  /\ answer[w] = Waiting
  /\ file' = After(request[w], file)
  /\ kept' = kept \cup {file'}
  /\ answer' = [answer EXCEPT ![w] = Answer(request[w], file)]
  /\ UNCHANGED request

Refuse(w) ==
  /\ request[w] # Idle
  /\ answer[w] = Waiting
  /\ answer' = [answer EXCEPT ![w] = [status |-> "failed", content |-> Absent]]
  /\ UNCHANGED <<file, kept, request>>

Return(w) ==
  /\ answer[w] # Waiting
  /\ request' = [request EXCEPT ![w] = Idle]
  /\ answer' = [answer EXCEPT ![w] = Waiting]
  /\ UNCHANGED <<file, kept>>

\* Less of the past may come back.
Sync ==
  /\ kept' \in SUBSET kept
  /\ file \in kept'
  /\ UNCHANGED <<file, request, answer>>

\* The process dies: nobody is answered any more.
Die ==
  /\ request' = [w \in Workers |-> Idle]
  /\ answer' = [w \in Workers |-> Waiting]

Crash == Die /\ UNCHANGED <<file, kept>>

PowerLoss ==
  /\ Die
  /\ file' \in kept
  /\ kept' = {file'}

Next ==
  \/ \E w \in Workers : Ask(w) \/ TakeEffect(w) \/ Refuse(w) \/ Return(w)
  \/ Sync \/ Crash \/ PowerLoss

Spec == Init /\ [][Next]_avars
================================================================================
