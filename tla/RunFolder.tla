-------------------------------- MODULE RunFolder --------------------------------
(***************************************************************************)
(* The folder of a day: where the crawl and the runtime file the pages they *)
(* could not parse, where blocked pages go, where a store's deals are saved *)
(* and what the day's dashboard shows.  The pages of a store are parsed at  *)
(* the same time by one parser, which keeps notes for the next failure.     *)
(***************************************************************************)
EXTENDS Naturals, Sequences, SequencesExt

CONSTANTS
    Shops,      \* the stores the command line crawls, one after the other
    PerShop,    \* pages of a store, parsed at the same time
    MaxDay      \* bound: the crawl ends by then

ASSUME FolderAssumption ==
    {PerShop, MaxDay} \subseteq Nat \ {0} /\ Shops \cap {"runtime", "none", "all"} = {}

\* The runtime parses one page, in another process with a parser of its own.
PageTasks == (Shops \X (1 .. PerShop)) \cup {<<"runtime", 1>>}

VARIABLES
    day,
    shop,       \* the store being crawled, or "none"
    saved,      \* the stores done with, saved or not; "all" the last
    parse,      \* where each page is
    folder,     \* the day whose folder a failed page goes to
    kept,       \* its HTML was written
    scratch,    \* each parser's last_debug: whose it is and who wrote in it
    alone,      \* no other page of the store was parsed while this one was in hand
    index,      \* the entries of each day, in the order they were appended
    deals,      \* the stores with a file of deals, of each day
    draft,      \* the dashboard the crawl has built and not yet written
    board       \* the dashboard of each day

folderVars == <<day, shop, saved, parse, folder, kept, scratch, alone, index, deals, draft, board>>

Days == 1 .. MaxDay
NoBoard == [on |-> 0, entries |-> <<>>, deals |-> {}]
InHand == {"content", "shot", "text"}
Entry == [page : PageTasks, why : {"failed", "blocked"}, html : BOOLEAN,
          notes : SUBSET PageTasks, lone : BOOLEAN]

FolderTypeOK ==
    /\ day \in Days
    /\ shop \in Shops \cup {"none"} /\ saved \subseteq Shops \cup {"all"}
    /\ parse \in [PageTasks -> {"waiting", "parsing", "blocked", "over"} \cup InHand]
    /\ folder \in [PageTasks -> 0 .. MaxDay]
    /\ kept \in [PageTasks -> BOOLEAN]
    /\ \A t \in PageTasks : scratch[t[1]] \subseteq PageTasks /\ alone[t] \in BOOLEAN
    /\ \A d \in Days : index[d] \in Seq(Entry) /\ deals[d] \subseteq Shops \cup {"all"}
    /\ \A b \in {draft} \cup {board[d] : d \in Days} :
          b.on \in 0 .. MaxDay /\ b.deals \subseteq Shops \cup {"all"}

FolderInit ==
    /\ day = 1
    /\ shop = "none" /\ saved = {}
    /\ parse = [t \in PageTasks |-> "waiting"]
    /\ folder = [t \in PageTasks |-> 0]
    /\ kept = [t \in PageTasks |-> FALSE]
    /\ scratch = [s \in Shops \cup {"runtime"} |-> {}]
    /\ alone = [t \in PageTasks |-> TRUE]
    /\ index = [d \in Days |-> <<>>]
    /\ deals = [d \in Days |-> {}]
    /\ draft = NoBoard
    /\ board = [d \in Days |-> NoBoard]

Crawled == <<shop, saved, deals, draft, board>>

-----------------------------------------------------------------------------
(* A page.                                                                  *)

Open(t) == t[1] \in {shop, "runtime"}

Siblings(t) == {u \in PageTasks \ {t} : u[1] = t[1]}

\* Mutant: the parser starts in the notes of the page before.
StartParseOnOldNotes(t) ==
    /\ Open(t) /\ parse[t] = "waiting"
    /\ parse' = [parse EXCEPT ![t] = "parsing"]
    /\ scratch' = [scratch EXCEPT ![t[1]] = @ \cup {t}]
    /\ alone' = [u \in PageTasks |->
                   IF u = t THEN \A v \in Siblings(t) : parse[v] # "parsing"
                   ELSE alone[u] /\ ~(u \in Siblings(t) /\ parse[u] \in {"parsing"} \cup InHand)]
    /\ UNCHANGED <<day, folder, kept, index, Crawled>>

StartParse(t) ==
    /\ Open(t) /\ parse[t] = "waiting"
    /\ parse' = [parse EXCEPT ![t] = "parsing"]
    /\ scratch' = [scratch EXCEPT ![t[1]] = {t}]
    /\ alone' = [u \in PageTasks |->
                   IF u = t THEN \A v \in Siblings(t) : parse[v] # "parsing"
                   ELSE alone[u] /\ ~(u \in Siblings(t) /\ parse[u] \in {"parsing"} \cup InHand)]
    /\ UNCHANGED <<day, folder, kept, index, Crawled>>

\* After an await the parser writes into whatever last_debug is by then.
NoteWhileParsing(t) ==
    /\ parse[t] = "parsing"
    /\ scratch' = [scratch EXCEPT ![t[1]] = @ \cup {t}]
    /\ UNCHANGED <<day, parse, folder, kept, alone, index, Crawled>>

\* An offer, or a page that is skipped: nothing is filed.
ParseEnds(t) ==
    /\ parse[t] = "parsing"
    /\ parse' = [parse EXCEPT ![t] = "over"]
    /\ UNCHANGED <<day, folder, kept, scratch, alone, index, Crawled>>

\* The folder is chosen here; without one, nothing is filed.
FailToParse(t) ==
    /\ parse[t] = "parsing"
    /\ \/ /\ parse' = [parse EXCEPT ![t] = "content"]
          /\ folder' = [folder EXCEPT ![t] = day]
       \/ parse' = [parse EXCEPT ![t] = "over"] /\ UNCHANGED folder
    /\ UNCHANGED <<day, kept, scratch, alone, index, Crawled>>

\* The file may fail to be written.
SaveHtml(t) ==
    /\ parse[t] = "content"
    /\ parse' = [parse EXCEPT ![t] = "shot"]
    /\ \E written \in BOOLEAN : kept' = [kept EXCEPT ![t] = written]
    /\ UNCHANGED <<day, folder, scratch, alone, index, Crawled>>

SaveScreenshot(t) ==
    /\ parse[t] = "shot"
    /\ parse' = [parse EXCEPT ![t] = "text"]
    /\ UNCHANGED <<day, folder, kept, scratch, alone, index, Crawled>>

Listed(t, why) == [page |-> t, why |-> why, html |-> kept[t],
                   notes |-> IF why = "failed" THEN scratch[t[1]] ELSE {}, lone |-> alone[t]]

\* The text, the notes, the metadata and the entry go without an await: the lock is free.
FileAway(t) ==
    /\ parse[t] = "text"
    /\ parse' = [parse EXCEPT ![t] = "over"]
    /\ index' = [index EXCEPT ![folder[t]] = Append(@, Listed(t, "failed"))]
    /\ UNCHANGED <<day, folder, kept, scratch, alone, Crawled>>

\* The client finds the page blocked before it is parsed.
FindBlocked(t) ==
    /\ Open(t) /\ parse[t] = "waiting"
    /\ \/ /\ parse' = [parse EXCEPT ![t] = "blocked"]
          /\ folder' = [folder EXCEPT ![t] = day]
       \/ parse' = [parse EXCEPT ![t] = "over"] /\ UNCHANGED folder
    /\ UNCHANGED <<day, kept, scratch, alone, index, Crawled>>

\* The content is written after the screenshot and without an await before the entry.
RecordBlocked(t) ==
    /\ parse[t] = "blocked"
    /\ parse' = [parse EXCEPT ![t] = "over"]
    /\ \E written \in BOOLEAN :
          /\ kept' = [kept EXCEPT ![t] = written]
          /\ index' = [index EXCEPT ![folder[t]] =
                         Append(@, [Listed(t, "blocked") EXCEPT !.html = written])]
    /\ UNCHANGED <<day, folder, scratch, alone, Crawled>>

-----------------------------------------------------------------------------
(* The crawl.                                                               *)

OpenShop(s) ==
    /\ shop = "none" /\ draft = NoBoard /\ s \notin saved /\ "all" \notin saved
    /\ shop' = s
    /\ UNCHANGED <<day, saved, parse, folder, kept, scratch, alone, index, deals, draft, board>>

Built(d, stores) == [on |-> d, entries |-> index[d], deals |-> stores]

\* The file of deals, the CSV and the dashboard; the first two may fail the save,
\* the dashboard only itself.
SaveDeals(name) ==
    \/ UNCHANGED <<deals, draft>>
    \/ /\ deals' = [deals EXCEPT ![day] = @ \cup {name}]
       /\ \/ UNCHANGED draft
          \/ draft' = Built(day, deals[day] \cup {name})

\* The pages are gathered before the store is saved.  A restricted store is not saved.
CloseShop ==
    /\ shop # "none"
    /\ \A t \in PageTasks : t[1] = shop => parse[t] = "over"
    /\ SaveDeals(shop)
    /\ saved' = saved \cup {shop} /\ shop' = "none"
    /\ UNCHANGED <<day, parse, folder, kept, scratch, alone, index, board>>

SaveAll ==
    /\ shop = "none" /\ draft = NoBoard /\ Shops \subseteq saved /\ "all" \notin saved
    /\ SaveDeals("all")
    /\ saved' = saved \cup {"all"}
    /\ UNCHANGED <<day, shop, parse, folder, kept, scratch, alone, index, board>>

\* What was read is written; the runtime may have appended in between.
WriteDashboard ==
    /\ draft # NoBoard
    /\ board' = [board EXCEPT ![draft.on] = draft]
    /\ draft' = NoBoard
    /\ UNCHANGED <<day, shop, saved, parse, folder, kept, scratch, alone, index, deals>>

Midnight ==
    /\ day < MaxDay
    /\ day' = day + 1
    /\ UNCHANGED <<shop, saved, parse, folder, kept, scratch, alone, index, deals, draft, board>>

PageNext(t) ==
    \/ StartParse(t) \/ NoteWhileParsing(t) \/ ParseEnds(t) \/ FailToParse(t)
    \/ SaveHtml(t) \/ SaveScreenshot(t) \/ FileAway(t) \/ FindBlocked(t) \/ RecordBlocked(t)

FolderNext ==
    \/ \E t \in PageTasks : PageNext(t)
    \/ \E s \in Shops : OpenShop(s)
    \/ CloseShop \/ SaveAll \/ WriteDashboard \/ Midnight

FolderSpec == FolderInit /\ [][FolderNext]_folderVars

-----------------------------------------------------------------------------
(* What must hold.                                                          *)

\* An entry stands in the index of the folder its files were written to, so
\* that its paths lead to them, over midnight too.
EntryLiesByItsFiles ==
    \A d \in Days : \A i \in 1 .. Len(index[d]) :
        LET e == index[d][i]
        IN  folder[e.page] = d /\ (e.html <=> kept[e.page])

\* The notes filed with a failed page are its own if no other page of the store
\* was parsed while it was in hand.
LoneFailureExplainsItself ==
    \A d \in Days : \A i \in 1 .. Len(index[d]) :
        LET e == index[d][i]
        IN  e.why = "failed" /\ e.lone => e.notes = {e.page}

\* A dashboard lists each store whose deals its folder had, and each failed or
\* blocked page of the stores it lists: a store's pages are gathered first.
DashboardKnowsItsStores ==
    \A d \in Days :
        LET shown == {board[d].entries[i].page : i \in 1 .. Len(board[d].entries)}
        IN  /\ board[d] # NoBoard =>
                 \A t \in PageTasks :
                     t[1] \in board[d].deals /\ folder[t] = d
                         => t \in shown
            /\ "all" \in board[d].deals =>
                 /\ deals[d] = board[d].deals
                 /\ \A i \in 1 .. Len(index[d]) :
                        index[d][i].page[1] \in Shops => index[d][i].page \in shown

\* A dashboard rewritten shows all that the one before it did.
DashboardForgetsNothing ==
    [][\A d \in Days : /\ IsPrefix(board[d].entries, board'[d].entries)
                       /\ board[d].deals \subseteq board'[d].deals]_folderVars

\* The folder of a day tells the truth about the pages of its stores, over
\* midnight, with several pages in hand, and from one dashboard to the next.
FolderIsTrue ==
    /\ [](EntryLiesByItsFiles /\ LoneFailureExplainsItself /\ DashboardKnowsItsStores)
    /\ DashboardForgetsNothing
=================================================================================
