------------------------------- MODULE Ordering -------------------------------
(***************************************************************************)
(* What the code sorts: a finite set as a sequence in a given order        *)
(* (Python's sorted), and the rows of a table in such an order.  The order *)
(* is a set of pairs, so that facts about it can be stated for every one.  *)
(***************************************************************************)
EXTENDS Integers, Sequences, FiniteSets

(* The elements of S, each before those that it precedes. *)
InOrder(S, Precedes) ==
  CHOOSE s \in [1..Cardinality(S) -> S] :
    \A k, l \in 1..Cardinality(S) : k < l => <<s[k], s[l]>> \in Precedes

Ascending == {p \in Nat \X Nat : p[1] < p[2]}

(* The rows with these numbers. *)
Picked(rows, numbers) == [k \in 1..Len(numbers) |-> rows[numbers[k]]]

Smallest(N) == CHOOSE n \in N : \A m \in N : n <= m
Greatest(N) == CHOOSE n \in N : \A m \in N : n >= m
===============================================================================
