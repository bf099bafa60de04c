---- MODULE MCCorpus ----
(* Two groups that differ, and one task and one package: a pattern is only   *)
(* ever compared with those of its own kind, so the two may be exchanged.    *)
EXTENDS ReplayCorpus, TLC
CONSTANTS pat1, pat2
MCSummaries == [kind : {"group"}, pattern : {pat1, pat2}]
               \cup [kind : {"task", "package"}, pattern : {"r"}]
MCPatterns == Permutations({pat1, pat2})
====
