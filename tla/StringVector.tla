---------------------------- MODULE StringVector ----------------------------
(***************************************************************************)
(* string_vector.c, as far as it computes: a vector is the sequence of its *)
(* strings.  Indices are those of the code, from 0; -1 is "not found".     *)
(***************************************************************************)
EXTENDS Integers, Sequences, FiniteSets

strvec_num_occurrences(vec, s) == Cardinality({k \in 1..Len(vec) : vec[k] = s})

\* The last i with vec[i] = s, or -1.
strvec_find_last(vec, s) ==
    IF \E k \in 1..Len(vec) : vec[k] = s
    THEN CHOOSE i \in 0..Len(vec)-1 :
            /\ vec[i + 1] = s
            /\ \A k \in i+2..Len(vec) : vec[k] # s
    ELSE -1

\* Its first n elements.
strvec_take(vec, n) == SubSeq(vec, 1, IF n > Len(vec) THEN Len(vec) ELSE n)

\* Elements start to end - 1, with both clamped to the vector.
strvec_slice(src, start, end) ==
    SubSeq(src, (IF start < 0 THEN 0 ELSE start) + 1,
                IF end > Len(src) THEN Len(src) ELSE end)
=============================================================================
