----------------------------- MODULE Subsequences -----------------------------
(***************************************************************************)
(* What a filter leaves of a sequence: its elements that are in a set, in  *)
(* their order.  SelectSeq() of the standard modules is recursive; this is *)
(* the same without recursion, so that it can be reasoned about.           *)
(***************************************************************************)
EXTENDS Integers, Sequences, FiniteSets

Positions(s, kept) == {i \in 1..Len(s) : s[i] \in kept}

\* The position that has n of them up to it.
Nth(positions, n) == CHOOSE i \in positions : Cardinality({j \in positions : j <= i}) = n

Only(s, kept) ==
    [n \in 1..Cardinality(Positions(s, kept)) |-> s[Nth(Positions(s, kept), n)]]
===============================================================================
