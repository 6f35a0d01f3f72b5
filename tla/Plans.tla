------------------------------- MODULE Plans -------------------------------
(***************************************************************************)
(* The two ways a page of Cassini reads, as records for Readers.  Gathers: *)
(* one function asks everything, fills a payload of its own and hands it   *)
(* over when the last answer is there.  Refreshes: the page keeps the      *)
(* answers itself, drops those of an older generation and draws after each.*)
(***************************************************************************)
EXTENDS Integers, Sequences, TLC

Gathers(answers, instant, rests) ==
    [answers |-> answers, instant |-> instant, rests |-> rests,
     shared |-> FALSE, on |-> "kept", again |-> FALSE, each |-> FALSE, misfiled |-> <<>>,
     unchecked |-> {}, silent |-> {}, uncounted |-> {}, ownrow |-> {},
     act |-> "none"]

Refreshes(answers, rests) ==
    [Gathers(answers, {}, rests) EXCEPT !.shared = TRUE, !.on = "drawn", !.again = TRUE,
                                                !.each = TRUE]

\* All of `ks' at once, or one after the other.
AtOnce(ks, k) == IF k = "refresh" THEN ks ELSE {}
\* (mutant: the first is asked again)
InTurnRound(seq, k)   == IF k = "refresh" THEN {seq[1]}
                         ELSE {seq[(i % Len(seq)) + 1] : i \in {j \in 1..Len(seq) : seq[j] = k}}
\* _gather's step(): each answer asks the next.
InTurn(seq, k) == IF k = "refresh" THEN {seq[1]}
                  ELSE {seq[i + 1] : i \in {j \in 1..Len(seq) - 1 : seq[j] = k}}

\* The first case of a table that has the key, or the rest.
Per(table, key, rest) == IF key \in DOMAIN table THEN table[key] ELSE rest
=============================================================================
