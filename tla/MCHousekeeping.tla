--------------------------- MODULE MCHousekeeping ---------------------------
EXTENDS Housekeeping, TLC
CONSTANTS old1, old2, new1, new2, t1, t2

\* One task has old and new runs; the other ran for the last time long ago.
MCTaskOf == (old1 :> t1) @@ (new1 :> t1) @@ (new2 :> t1) @@ (old2 :> t2)
=============================================================================
