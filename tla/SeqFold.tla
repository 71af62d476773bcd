------------------------------- MODULE SeqFold -------------------------------
(* A loop over a sequence. It is FoldLeft of the community module          *)
(* SequencesExt; the other definitions of that module would be context of  *)
(* every proof obligation about the modules that need the loop.            *)
EXTENDS Naturals, Sequences, Folds

(* op(... op(op(base, s[1]), s[2]) ..., s[Len(s)]) *)
FoldLeft(op(_, _), base, s) ==
    MapThenFoldSet(LAMBDA i, r : op(r, s[i]), base, LAMBDA i : i,
                   LAMBDA I : CHOOSE i \in I : \A j \in I : j <= i, 1 .. Len(s))

=============================================================================
