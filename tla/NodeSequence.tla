---------------------------- MODULE NodeSequence ----------------------------
(***************************************************************************)
(* What a list of nodes promises: a sequence without repetition that grows  *)
(* at its two ends and loses one node at a time, each in one step.          *)
(***************************************************************************)
EXTENDS SequencesExt

CONSTANT Nodes

VARIABLE seq

SequenceInit == seq = <<>>

AtBack(n) == n \notin Range(seq) /\ seq' = Append(seq, n)
AtFront(n) == n \notin Range(seq) /\ seq' = <<n>> \o seq
Removal(i) == seq' = RemoveAt(seq, i)

SequenceNext ==
  \/ \E n \in Nodes : AtBack(n) \/ AtFront(n)
  \/ \E i \in DOMAIN seq : Removal(i)

SequenceSpec == SequenceInit /\ [][SequenceNext]_seq
=============================================================================
