------------------------------ MODULE Filters -------------------------------
(***************************************************************************)
(* The elements of a sequence that are in a set.  It is SelectSeq with a   *)
(* set in place of a test, made of FlattenSeq, whose definition a proof    *)
(* can expand: SequenceLemmas.tla says what both compute.                  *)
(***************************************************************************)
EXTENDS Naturals, Sequences, SequencesExt

Filter(s, S) ==
  FlattenSeq([k \in DOMAIN s |-> IF s[k] \in S THEN <<s[k]>> ELSE <<>>])
=============================================================================
