----------------------------- MODULE Selections ----------------------------
(* How the loaders take from a list what they want of it. *)
EXTENDS Sequences, SequencesExt

(* The members of a sequence that are in a set, in their order. *)
Among(s, S) == FlattenSeq([i \in DOMAIN s |-> IF s[i] \in S THEN <<s[i]>> ELSE <<>>])
=============================================================================
