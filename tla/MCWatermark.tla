------------------------------ MODULE MCWatermark ------------------------------
(***************************************************************************)
(* A small instance of Watermark for TLC: a mark of seven bits.            *)
(***************************************************************************)
EXTENDS Watermark

Repeated(s, n) == FlattenSeq([i \in 1 .. n |-> s])

\* p has four marks, and its draft marks and variation selectors of its own; q has two;
\* r is too short for one.
MCDraft ==
  [p |-> <<"v", "a", "z", "v", "v", "o">> \o Repeated(<<"b", "o", "a", "b", "o">>, 4) \o <<"v", "b", "a", "o", "a">>,
   q |-> Repeated(<<"a", "o">>, 7),
   r |-> <<"a", "b", "o">>]

\* The codes, two bits here for the code's 64, are such that two changes do not turn one
\* mark into another; the mark of context 4 has a run of bits that looks like an old mark.
MCPubOf == (0 :> "p") @@ (2 :> "p") @@ (3 :> "q") @@ (4 :> "q") @@ (6 :> "r")
MCCode  == (0 :> 1) @@ (2 :> 3) @@ (3 :> 3) @@ (4 :> 1) @@ (6 :> 1)
MCPolynomial == <<1, 1>>
================================================================================
