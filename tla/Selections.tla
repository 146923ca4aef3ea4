------------------------------ MODULE Selections ------------------------------
(* What the agent does with lists: a comprehension that keeps what meets a    *)
(* condition, a sort and a sum.  SelectSeq, SortSeq and the folds do the      *)
(* same, but nothing can be proved about them.                                *)
EXTENDS Integers, Sequences, FiniteSets

\* [x for x in s if x in good]
Only(s, good) ==
    LET kept[i \in 0 .. Len(s)] ==
            IF i = 0 THEN <<>>
            ELSE LET before == kept[i - 1]
                 IN IF s[i] \in good THEN Append(before, s[i]) ELSE before
    IN kept[Len(s)]

\* sorted(S), where order holds the pairs of which the first comes first: the k-th element
\* is the one with k - 1 others before it.
Sorted(S, order) ==
    [k \in 1 .. Cardinality(S) |->
        CHOOSE x \in S : Cardinality({y \in S : <<y, x>> \in order}) = k - 1]

\* sum(numbers)
SumOf(numbers) ==
    LET sum[i \in 0 .. Len(numbers)] == IF i = 0 THEN 0 ELSE sum[i - 1] + numbers[i]
    IN sum[Len(numbers)]
===============================================================================
