-------------------------- MODULE MCGroupDecision --------------------------
EXTENDS GroupDecision, TLC
CONSTANTS m1, m2, m3

\* Two members of one store, and one of another.
MCOrder == <<m1, m2, m3>>
MCStoreOf == (m1 :> 2) @@ (m2 :> 1) @@ (m3 :> 2)

MCPairOrder == <<m1, m2>>
MCPairStoreOf == (m1 :> 2) @@ (m2 :> 1)
=============================================================================
