--------------------------- MODULE MCCacheBudget ---------------------------
EXTENDS CacheBudget
CONSTANTS temp, frames, database, external

MCOrder == <<temp, frames, database, external>>
=============================================================================
