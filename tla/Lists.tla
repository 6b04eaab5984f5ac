------------------------------- MODULE Lists --------------------------------
(***************************************************************************)
(* What the pages and the checks do to a list: filter it, add it up, put   *)
(* the lists in it one after the other.  SelectSeq and the folds of the    *)
(* library, as functions of an index, which can be reasoned about.         *)
(***************************************************************************)
EXTENDS Naturals, Sequences

\* The elements of s that are in kept, in their order.
Selection(s, kept) ==
    LET upTo[n \in 0..Len(s)] ==
            IF n = 0 THEN <<>>
            ELSE IF s[n] \in kept THEN Append(upTo[n - 1], s[n]) ELSE upTo[n - 1]
    IN  upTo[Len(s)]

\* The sum of a list of numbers.
Total(s) ==
    LET upTo[n \in 0..Len(s)] == IF n = 0 THEN 0 ELSE upTo[n - 1] + s[n]
    IN  upTo[Len(s)]

\* The lists in ss, one after the other.
Flatten(ss) ==
    LET upTo[n \in 0..Len(ss)] == IF n = 0 THEN <<>> ELSE upTo[n - 1] \o ss[n]
    IN  upTo[Len(ss)]
=============================================================================
