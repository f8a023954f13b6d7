-------------------------------- MODULE Lists --------------------------------
(***************************************************************************)
(* What SelectSeq takes out of a list, with the set of what is kept in the *)
(* place of a test: the form that ListFacts can prove something about.     *)
(***************************************************************************)
EXTENDS Naturals, Sequences

(* The elements of s that are in keep, in their order. *)
Projection(s, keep) ==
  LET P[i \in 0 .. Len(s)] ==
        IF i = 0 THEN <<>>
        ELSE IF s[i] \in keep THEN Append(P[i - 1], s[i]) ELSE P[i - 1]
  IN  P[Len(s)]
=============================================================================
