----------------------------- MODULE StoreSwitches -----------------------------
(***************************************************************************)
(* The switch of one eligible store, StoreAdapterBinding.enabled: every     *)
(* process assigns the configured value when it starts                      *)
(* (sync_store_adapter_bindings), operators assign theirs by PATCH          *)
(* (update_store_binding), and the ORM writes the column only if it differs *)
(* from what the session has read.                                          *)
(***************************************************************************)
EXTENDS Naturals

CONSTANTS
    Processes,   \* the worker and the API, each with its ENABLED_STORES
    Operators    \* PATCH requests that may be under way together

ASSUME SettersAssumption == Processes \cap Operators = {}

Actors == Processes \cup Operators

VARIABLES
    binding,   \* the committed row: "absent", "on" or "off"
    at,        \* where each actor is
    value,     \* the value it assigns
    read       \* the row as its session has read it

switchVars == <<binding, at, value, read>>

SwitchValues == {"on", "off"}
Rows == SwitchValues \cup {"absent"}
Busy == {"starting", "loaded", "asked", "found"}

SwitchTypeOK ==
    /\ binding \in Rows
    /\ at \in [Actors -> Busy \cup {"down", "up", "idle"}]
    /\ value \in [Actors -> SwitchValues]
    /\ read \in [Actors -> Rows]

SwitchInit ==
    /\ binding = "absent"
    /\ at = [a \in Actors |-> IF a \in Processes THEN "down" ELSE "idle"]
    /\ value = [a \in Actors |-> "off"]
    /\ read = [a \in Actors |-> "absent"]

Move(a, where) == at' = [at EXCEPT ![a] = where]

\* Mutant: a process takes the stored value for the configured one.
StartWithStored(p) ==
    /\ at[p] = "down"
    /\ Move(p, "starting")
    /\ value' = [value EXCEPT ![p] = binding]
    /\ UNCHANGED <<binding, read>>

\* The value is ENABLED_STORES, or default_enabled when that is empty.
StartProcess(p) ==
    /\ at[p] = "down"
    /\ Move(p, "starting")
    /\ \E v \in SwitchValues : value' = [value EXCEPT ![p] = v]
    /\ UNCHANGED <<binding, read>>

LoadBindings(p) ==
    /\ at[p] = "starting"
    /\ Move(p, "loaded")
    /\ read' = [read EXCEPT ![p] = binding]
    /\ UNCHANGED <<binding, value>>

\* Mutant: the column is also written when nothing has changed.
OverwriteWithRead(a) == binding' = IF read[a] = value[a] THEN read[a] ELSE value[a]

\* The UPDATE of a changed column, or none.
Overwrite(a) == binding' = IF read[a] = value[a] THEN binding ELSE value[a]

\* The one commit of the synchronisation.
CommitSync(p) ==
    /\ at[p] = "loaded"
    /\ read[p] = "absent" => binding = "absent"
    /\ Overwrite(p)
    /\ Move(p, "up")
    /\ UNCHANGED <<value, read>>

\* Two processes insert the same store_key: the second violates its
\* uniqueness and does not come up.
InsertTwice(p) ==
    /\ at[p] = "loaded"
    /\ read[p] = "absent" /\ binding # "absent"
    /\ Move(p, "down")
    /\ UNCHANGED <<binding, value, read>>

\* A process may stop or die at any time.
StopProcess(p) ==
    /\ at[p] \in {"starting", "loaded", "up"}
    /\ Move(p, "down")
    /\ UNCHANGED <<binding, value, read>>

\* The API serves requests once its own synchronisation is committed.
Ask(o) ==
    /\ at[o] = "idle"
    /\ \E p \in Processes : at[p] = "up"
    /\ \E v \in SwitchValues : value' = [value EXCEPT ![o] = v]
    /\ Move(o, "asked")
    /\ UNCHANGED <<binding, read>>

FindBinding(o) ==
    /\ at[o] = "asked"
    /\ read' = [read EXCEPT ![o] = binding]
    /\ Move(o, IF binding = "absent" THEN "idle" ELSE "found")
    /\ UNCHANGED <<binding, value>>

\* flush and the commit of get_db_session.
CommitSwitchPatch(o) ==
    /\ at[o] = "found"
    /\ Overwrite(o)
    /\ Move(o, "idle")
    /\ UNCHANGED <<value, read>>

\* The request dies with its process, or its commit fails.
LosePatch(o) ==
    /\ at[o] \in {"asked", "found"}
    /\ Move(o, "idle")
    /\ UNCHANGED <<binding, value, read>>

SyncStep(p) == LoadBindings(p) \/ CommitSync(p) \/ InsertTwice(p)

SwitchNext ==
    \/ \E p \in Processes : StartProcess(p) \/ SyncStep(p) \/ StopProcess(p)
    \/ \E o \in Operators : Ask(o) \/ FindBinding(o) \/ CommitSwitchPatch(o) \/ LosePatch(o)

SwitchSpec == SwitchInit /\ [][SwitchNext]_switchVars

\* A setter that finds its value already there has had its effect when it
\* read it; one that does not, when it commits.
Wanted(a) ==
    IF at[a] \in {"starting", "asked"} \/ (at[a] \in {"loaded", "found"} /\ read[a] # value[a])
    THEN value[a] ELSE "nothing"

Register == INSTANCE SwitchRegister WITH
    Setters <- Actors, switch <- binding, wanted <- [a \in Actors |-> Wanted(a)]

\* Although sessions read before they write and leave equal columns out, the
\* switch is one register: every restart and every PATCH takes effect at one
\* moment of its own, so the last of them wins and none is half applied.
SwitchIsOneRegister == Register!RegSpec

\* Whoever asks whether a store is on finds its row, so the "no row means
\* enabled" of _is_store_binding_enabled never lets a store through
\* (prepare_product_runtime and run_worker wait for the synchronisation).
NoRunWithoutRow == (\E p \in Processes : at[p] = "up") => binding # "absent"

\* Starts and PATCHes from many processes act on one register, which exists
\* before anybody reads it.
SwitchesAreSafe == []NoRunWithoutRow /\ SwitchIsOneRegister
=================================================================================
