------------------------------- MODULE ListFilter -------------------------------
(***************************************************************************)
(* Lists that are filtered by building a new one: lab4/network does it     *)
(* with the players of a server and with the known announcements.          *)
(***************************************************************************)
EXTENDS Integers, Sequences, FiniteSets

(* How many positions of keep are not after i. *)
Rank(keep, i) == Cardinality({j \in keep : j <= i})

(* The entries of s at the positions in keep, in their order.  SelectSeq   *)
(* has no definition that the provers know.                                *)
EntriesAt(s, keep) ==
  [k \in 1 .. Cardinality(keep) |-> s[CHOOSE i \in keep : Rank(keep, i) = k]]
=============================================================================
