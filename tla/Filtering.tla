------------------------------ MODULE Filtering -------------------------------
(***************************************************************************)
(* The list comprehension [x for x in s if x not in S], by which the code  *)
(* takes titles and groups from a list and reads history.txt without the   *)
(* lines whose file is gone.  It is a recursive function, and not the      *)
(* RECURSIVE operator SelectSeq, so that FilteringProofs can say what it   *)
(* returns.                                                                *)
(***************************************************************************)
EXTENDS Integers, Sequences

\* The sequence s without the members of S.
AllBut(s, S) ==
  LET left[i \in 0..Len(s)] ==
        IF i = 0 THEN << >>
        ELSE IF s[i] \in S THEN left[i - 1] ELSE Append(left[i - 1], s[i])
  IN left[Len(s)]
=============================================================================
