----------------------------- MODULE Subsequences -----------------------------
(* Vec::retain, and filter before collect: the elements at some places of a *)
(* sequence, in their order. The places are a set, so that what is said of  *)
(* one filter can be said of all.                                           *)
EXTENDS Naturals, Sequences

Kept(s, places) ==
    LET kept[n \in 0..Len(s)] ==
            IF n = 0 THEN <<>>
            ELSE IF n \in places THEN Append(kept[n - 1], s[n]) ELSE kept[n - 1]
    IN  kept[Len(s)]
=============================================================================
