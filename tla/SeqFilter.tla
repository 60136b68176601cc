------------------------------ MODULE SeqFilter ------------------------------
(* The loops "for _, x := range s { if cond { out = append(out, x) } }" and  *)
(* "for _, x := range s { out = append(out, x...) }".  The condition of the  *)
(* first is membership in a set T, so that the facts about it                *)
(* (DetectorProofs) need no operator parameter.                              *)
EXTENDS Naturals, Sequences

\* The elements of s that lie in T, in the order of s.
Filter(s, T) ==
  LET F[i \in 0..Len(s)] ==
        IF i = 0 THEN << >>
        ELSE IF s[i] \in T THEN Append(F[i-1], s[i]) ELSE F[i-1]
  IN  F[Len(s)]

\* The sequences, or strings, of ss one after the other.
Concat(ss) ==
  LET C[i \in 1..Len(ss)] == IF i = 1 THEN ss[1] ELSE C[i-1] \o ss[i]
  IN  IF ss = << >> THEN << >> ELSE C[Len(ss)]
=============================================================================
