--------------------------- MODULE PageSequences ---------------------------
(***************************************************************************)
(* Operators on sequences: the pages of a corpus and of a pack, and the    *)
(* loops over them.  They have the names and the meaning that they have in *)
(* SequencesExt, which is not extended because all of its definitions      *)
(* would be put before the provers at every step of every proof.           *)
(***************************************************************************)
EXTENDS Integers, Sequences, FiniteSetsExt

Last(seq) == seq[Len(seq)]

\* The sequences of at most n elements of S
SeqOf(S, n) == UNION {[1 .. m -> S] : m \in 0 .. n}

IsPrefix(s, t) == Len(s) <= Len(t) /\ s = SubSeq(t, 1, Len(s))

\* The sequences one after the other
FlattenSeq(seqs) ==
  IF seqs = <<>> THEN <<>>
  ELSE LET flat[i \in 1 .. Len(seqs)] ==
             IF i = 1 THEN seqs[i] ELSE flat[i - 1] \o seqs[i]
       IN flat[Len(seqs)]

\* A loop over a sequence: what op makes of the base and the first element, then of
\* that and the second, and so on.
FoldLeft(op(_, _), base, seq) ==
  MapThenFoldSet(LAMBDA i, acc : op(acc, i), base, LAMBDA i : seq[i], Max, DOMAIN seq)
=============================================================================
