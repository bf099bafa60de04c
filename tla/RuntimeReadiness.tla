----------------------------- MODULE RuntimeReadiness -----------------------------
(***************************************************************************)
(* The environment of an installation, the check that lets a process start *)
(* on it or a release be made with it, and the readiness page of a running  *)
(* process, which reads the database while operators change it.  A setting  *)
(* is kept only as the class of values the checks tell apart.               *)
(***************************************************************************)
EXTENDS Naturals, FiniteSets

CONSTANTS
    MaxEdits,    \* bound: changes an operator makes to a good environment
    ShopKeys     \* stores that may be switched on

ASSUME ReadinessAssumption == MaxEdits \in Nat

VARIABLES
    env,        \* the settings as the operator left them
    edits,
    passed,     \* the script found this environment fit for some target
    loaded,     \* the settings of the running process, or NotLoaded
    owner,      \* the database has an owner
    shops,      \* the stores switched on
    smoke,      \* the smoke logs on disk
    reading,    \* where the readiness page is
    seen,       \* what it has read
    answer        \* what it said last

readyVars == <<env, edits, passed, loaded, owner, shops, smoke, reading, seen, answer>>

Secret == {"blank", "placeholder", "real"}
Address == {"blank", "placeholder", "odd", "local http", "public http", "public"}
Number == {"blank", "odd", "low", "good"}

\* "site" stands for the addresses of the API and the site, "number" for the poll
\* interval and the limits of logs, cache and maintenance: each is judged alone.
Environments ==
    [database : {"blank", "placeholder", "sqlite", "local postgres", "postgres"},
     email : Secret, token : Secret, site : Address,
     zip : {"blank", "placeholder", "zeros", "real"}, stores : {"blank", "real"},
     postmark : Secret, sender : Secret, smtp : {"none", "partial", "full"},
     number : Number, profile : {"none", "partial", "own", "shared"},
     llm : {"off", "without key", "on"}]

GoodEnvironment ==
    [database |-> "postgres", email |-> "real", token |-> "real", site |-> "public", zip |-> "real", stores |-> "real", postmark |-> "real",
     sender |-> "real", smtp |-> "none", number |-> "good", profile |-> "own", llm |-> "off"]

NotLoaded == [GoodEnvironment EXCEPT !.database = "blank", !.stores = "blank"]

Targets == {"startup", "ci-smoke", "generic", "render"}
Public == {"generic", "render"}

-----------------------------------------------------------------------------
(* The check.                                                               *)

Real(v) == v \notin {"blank", "placeholder"}

\* A target that lets a placeholder pass still wants a value.
Lenient(target) ==
    CASE target = "startup"  -> {"email", "sender", "zip", "token"}
      [] target = "ci-smoke" -> {"email", "sender", "zip"}
      [] OTHER               -> {}

Required(e, target, key) ==
    IF key \in Lenient(target) THEN e[key] # "blank" ELSE Real(e[key])

FitAddress(e, target) ==
    IF target \in Public THEN e.site = "public"
    ELSE e.site \in {"local http", "public http", "public"}

HasPostmark(e) == Real(e.postmark)
HasMail(e) == HasPostmark(e) \/ e.smtp = "full"

\* What keeps the environment from the target, by the key that is told.
Blockers(e, target) ==
    {key \in {"email", "token", "zip", "stores"} : ~Required(e, target, key)}
    \cup {key \in {"site"} : ~FitAddress(e, target)}
    \cup {key \in {"database"} : \/ e.database \notin {"local postgres", "postgres"}
                                 \/ target = "render" /\ e.database = "local postgres"}
    \cup {key \in {"zip"} : e.zip = "zeros" /\ target # "startup"}
    \cup {key \in {"notifications"} : target \in Public /\ ~HasMail(e)}
    \cup {key \in {"sender"} : HasPostmark(e) /\ ~Required(e, target, "sender")}
    \cup {key \in {"number"} : e.number \in {"odd", "low"}}
    \cup {key \in {"profile"} : e.profile \in {"partial", "shared"}}
    \cup {key \in {"llm"} : e.llm = "without key"}

\* The warnings of a start; that the LLM is off is none to the readiness page.
Warnings(e) ==
    {key \in {"zip"} : e.zip = "zeros"}
    \cup {key \in {"notifications"} : ~HasMail(e) \/ (e.smtp = "full" /\ ~HasPostmark(e))}

-----------------------------------------------------------------------------
(* The operator and the processes.                                          *)

NothingSeen == [owner |-> FALSE, shops |-> {}]
NoAnswer == [status |-> "none", blocked |-> {}, warned |-> {}, ready |-> {}]

ReadinessTypeOK ==
    /\ {env, loaded} \subseteq Environments
    /\ edits \in 0 .. MaxEdits
    /\ passed \in BOOLEAN
    /\ owner \in BOOLEAN /\ shops \subseteq ShopKeys /\ smoke \subseteq {"api", "worker"}
    /\ reading \in {"no", "asked", "owner read", "shops read"}
    /\ answer.status \in {"none", "ready", "degraded", "blocked"}
    /\ answer.blocked \cup answer.warned \cup answer.ready
         \subseteq {"database", "owner", "stores", "mail", "preflight", "smoke"}

ReadinessInit ==
    /\ env = GoodEnvironment /\ edits = 0
    /\ passed = FALSE
    /\ loaded = NotLoaded
    /\ owner = FALSE /\ shops = {} /\ smoke = {}
    /\ reading = "no" /\ seen = NothingSeen /\ answer = NoAnswer

Outside == <<owner, shops, smoke>>
ShownAs == <<reading, seen, answer>>

Values == [database |-> {"blank", "placeholder", "sqlite", "local postgres"},
           email |-> Secret, token |-> Secret, site |-> Address,
           zip |-> {"blank", "placeholder", "zeros", "real"}, stores |-> {"blank"},
           postmark |-> Secret, sender |-> Secret, smtp |-> {"partial", "full"},
           number |-> Number, profile |-> {"none", "partial", "shared"},
           llm |-> {"without key", "on"}]

EditEnvironment ==
    /\ edits < MaxEdits
    /\ \E key \in DOMAIN Values : \E v \in Values[key] : env' = [env EXCEPT ![key] = v]
    /\ edits' = edits + 1 /\ passed' = FALSE
    /\ UNCHANGED <<loaded, Outside, ShownAs>>

\* scripts/check_runtime_env.py holds the same check once more.
CheckEnvironment(target) ==
    /\ Blockers(env, target) = {}
    /\ passed' = TRUE
    /\ UNCHANGED <<env, edits, loaded, Outside, ShownAs>>

\* The settings are read once, when the process starts, and checked then.
StartRuntime ==
    /\ loaded = NotLoaded
    /\ Blockers(env, "startup") = {}
    /\ loaded' = env
    /\ reading' = "no" /\ seen' = NothingSeen
    /\ UNCHANGED <<env, edits, passed, Outside, answer>>

StopRuntime ==
    /\ loaded # NotLoaded
    /\ loaded' = NotLoaded
    /\ reading' = "no" /\ seen' = NothingSeen /\ answer' = NoAnswer
    /\ UNCHANGED <<env, edits, passed, Outside>>

BootstrapOwner ==
    /\ ~owner /\ owner' = TRUE
    /\ UNCHANGED <<env, edits, passed, loaded, shops, smoke, ShownAs>>

SwitchShop(s) ==
    /\ shops' = IF s \in shops THEN shops \ {s} ELSE shops \cup {s}
    /\ UNCHANGED <<env, edits, passed, loaded, owner, smoke, ShownAs>>

\* The smoke leaves the log of the API first.
RunSmoke ==
    /\ smoke # {"api", "worker"}
    /\ smoke' = IF smoke = {} THEN {"api"} ELSE {"api", "worker"}
    /\ UNCHANGED <<env, edits, passed, loaded, owner, shops, ShownAs>>

-----------------------------------------------------------------------------
(* The readiness page: two reads of the database, then the settings and the  *)
(* disk.                                                                    *)

AskReadiness ==
    /\ loaded # NotLoaded /\ reading = "no"
    /\ reading' = "asked"
    /\ UNCHANGED <<env, edits, passed, loaded, Outside, seen, answer>>

ReadOwner ==
    /\ reading = "asked" /\ reading' = "owner read"
    /\ seen' = [seen EXCEPT !.owner = owner]
    /\ UNCHANGED <<env, edits, passed, loaded, Outside, answer>>

ReadShops ==
    /\ reading = "owner read" /\ reading' = "shops read"
    /\ seen' = [seen EXCEPT !.shops = shops]
    /\ UNCHANGED <<env, edits, passed, loaded, Outside, answer>>

Blocked ==
    {key \in {"stores"} : seen.shops = {}}
    \cup {key \in {"preflight"} : Blockers(loaded, "startup") # {}}

\* Mutant: the page does not look at the warnings of the check.
WarnedLightly ==
    {key \in {"database"} : loaded.database \notin {"local postgres", "postgres"}}
    \cup {key \in {"owner"} : ~seen.owner}
    \cup {key \in {"mail"} : ~HasMail(loaded)}
    \cup {key \in {"smoke"} : smoke # {"api", "worker"}}

Warned ==
    {key \in {"database"} : loaded.database \notin {"local postgres", "postgres"}}
    \cup {key \in {"owner"} : ~seen.owner}
    \cup {key \in {"mail"} : ~HasMail(loaded)}
    \cup {key \in {"preflight"} : Blockers(loaded, "startup") = {} /\ Warnings(loaded) # {}}
    \cup {key \in {"smoke"} : smoke # {"api", "worker"}}

AnswerReadiness ==
    /\ reading = "shops read" /\ reading' = "no"
    /\ answer' = [status |-> IF Blocked # {} THEN "blocked" ELSE IF Warned # {} THEN "degraded"
                           ELSE "ready",
                blocked |-> Blocked, warned |-> Warned,
                ready |-> {"database", "stores", "preflight"} \ (Blocked \cup Warned)]
    /\ seen' = NothingSeen
    /\ UNCHANGED <<env, edits, passed, loaded, Outside>>

ReadinessNext ==
    \/ EditEnvironment \/ StartRuntime \/ StopRuntime \/ BootstrapOwner \/ RunSmoke
    \/ \E target \in Targets : CheckEnvironment(target)
    \/ \E s \in ShopKeys : SwitchShop(s)
    \/ AskReadiness \/ ReadOwner \/ ReadShops \/ AnswerReadiness

ReadinessSpec == ReadinessInit /\ [][ReadinessNext]_readyVars

-----------------------------------------------------------------------------
(* What must hold.                                                          *)

\* A target that asks more lets nothing pass that one that asks less refuses:
\* what the script passes for a release also runs its smoke, and what it passes
\* for either also starts.
TargetsAreNested ==
    LET startup == Blockers(env, "startup")
        smoked == Blockers(env, "ci-smoke")
        generic == Blockers(env, "generic")
    IN  /\ startup \subseteq smoked /\ smoked \subseteq generic
        /\ generic \subseteq Blockers(env, "render")
        /\ passed => startup = {}

\* A process that runs passed the check on the settings it runs with, whatever
\* was edited since: all that can block it on its page are the stores.
OnlyStoresBlock == answer.blocked \subseteq {"stores"} /\ "database" \notin answer.warned

\* A page that says ready speaks of a process that can mail by Postmark, with a
\* real ZIP code, an owner who stays and both smoke logs.
ReadyIsEarned ==
    answer.status = "ready" =>
        /\ HasPostmark(loaded) /\ loaded.sender # "blank" /\ loaded.zip # "zeros"
        /\ owner /\ smoke = {"api", "worker"}
        /\ answer.ready = {"database", "stores", "preflight"}

\* A process that runs, and a page that says ready, have passed every check they
\* stand for, although files, switches and owners change meanwhile.
ReadinessIsHonest == TargetsAreNested /\ OnlyStoresBlock /\ ReadyIsEarned
=================================================================================
