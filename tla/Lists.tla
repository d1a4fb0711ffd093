-------------------------------- MODULE Lists --------------------------------
(***************************************************************************)
(* What a loop over a list keeps of it, said as a relation between the two  *)
(* lists, which is all the provers need of SelectSeq.                       *)
(***************************************************************************)
EXTENDS Naturals, Sequences

\* The members of a list, or the values of a function.
in(list) == {list[i] : i \in DOMAIN list}

\* The numberings of a set of places, from the first place to the last: one.
Rising(S, max) == {f \in UNION {[1..n -> S] : n \in 0..max} :
                     in(f) = S /\ \A p, q \in DOMAIN f : p < q => f[p] < f[q]}

\* The list without the places that are not in S: a set with one member.
Kept(list, S) == {[p \in DOMAIN f |-> list[f[p]]] : f \in Rising(S, Len(list))}

\* The lists of members of S in which none comes twice.
Orders(S, max) == {s \in UNION {[1..n -> S] : n \in 0..max} :
                     \A i, j \in DOMAIN s : s[i] = s[j] => i = j}

=============================================================================
