------------------------------- MODULE MCCompare -------------------------------
EXTENDS CompareIntake, TLC
CONSTANTS u1, u2, u3, u4, s1, s2

\* Two products of one store, one of another, and a host nobody knows.
MCManifests == {{s1, s2}, {s1}}
MCStoreOf == (u1 :> s1) @@ (u2 :> s1) @@ (u3 :> s2) @@ (u4 :> NoStore)

\* Two close titles, one of them of two brands; a size can make up for a brand
\* that is not shown, and no title for another brand and size.
MCOffers == {[title |-> 1, brand |-> "b1", size |-> "z1"],
             [title |-> 1, brand |-> "b2", size |-> "z2"],
             [title |-> 2, brand |-> NoHint, size |-> "z1"]}
MCSimilarity == [p \in (1 .. 2) \X (1 .. 2) |-> IF p[1] = p[2] THEN 100 ELSE 70]
=================================================================================
