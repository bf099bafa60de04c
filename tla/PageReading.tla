------------------------------- MODULE PageReading -------------------------------
(***************************************************************************)
(* What a store's parser makes of a product page: an offer, a page to skip, *)
(* a page it missed or an error.  A page is what it shows of its own        *)
(* product and of others; a text is kept only as whose it is and where it   *)
(* was read.  Weee searches for the product, Target reads twice, Safeway    *)
(* and Walmart read the schema.org product, 99 Ranch the first variant.     *)
(***************************************************************************)
EXTENDS Naturals, Sequences, SequencesExt

CONSTANTS
    MaxOffers,   \* sellers of a schema.org product
    Amounts      \* prices; 0 is none

Odd == 1000   \* a price that is no number

ASSUME ReadingAssumption == MaxOffers \in Nat /\ Amounts \subseteq (Nat \ {0, Odd})

VARIABLES
    page,       \* the page and its store
    hold,       \* "open", "read", "closed"
    verdict,    \* what the parser made of it
    captured    \* it was filed as a failure

readVars == <<page, hold, verdict, captured>>

\* Whose the title, the price and the key are; where the price and the original
\* price were read; and, where amounts are told apart, how much they are.
Blank == [end |-> "none", title |-> "none", price |-> "none", key |-> "none",
          from |-> "none", beforeFrom |-> "none", amount |-> 0, before |-> 0]
Ending(how) == [Blank EXCEPT !.end = how]

Stock == {"unsaid", "in", "out"}
Amount == Amounts \cup {0}

-----------------------------------------------------------------------------
(* Weee: the product of the page's data, of its JSON-LD or of its text.      *)

Product(by, whose, named, bases, inners) ==
    [by : {by}, whose : whose, named : named, id : BOOLEAN, priced : BOOLEAN,
     base : bases, inner : inners, stock : Stock]

\* The data's own product or one of its fallbacks; else whatever in it has a
\* price and a title, which may be another product's.
NextProducts == Product("given", {"own"}, BOOLEAN, BOOLEAN, BOOLEAN)
                \cup Product("search", {"own", "other"}, {TRUE}, BOOLEAN, {FALSE})
LdProducts == Product("ld", {"own", "other"}, BOOLEAN, {FALSE}, {FALSE})
EmbeddedProducts == Product("embedded", {"own"}, BOOLEAN, BOOLEAN, {FALSE})

\* The sources a page has, in the order they are asked.
Sources == {<<p>> : p \in NextProducts \cup LdProducts \cup EmbeddedProducts}
           \cup {<<p, q>> : p \in Product("search", {"own", "other"}, {TRUE}, {FALSE}, {FALSE}),
                            q \in LdProducts}
           \cup {<<>>}

WeeePages == [store : {"weee"}, sources : Sources, h1 : BOOLEAN, domPrice : BOOLEAN,
              domBefore : BOOLEAN, head : BOOLEAN, urlKey : BOOLEAN]

NoProduct == [by |-> "none", whose |-> "own", named |-> FALSE, id |-> FALSE, priced |-> FALSE,
              base |-> FALSE, inner |-> FALSE, stock |-> "unsaid"]

Payload(w) == IF w.sources = <<>> THEN NoProduct ELSE Head(w.sources)

\* The stock of an embedded product is under a name that is not looked for.
WeeeSoldOut(w) == Payload(w).by # "embedded" /\ Payload(w).stock = "out"

WeeeKey(w) == IF Payload(w).id THEN Payload(w).whose ELSE IF w.urlKey THEN "own" ELSE "none"

\* The price of the product, or of its "pricing"; without one both prices are
\* those of the page.
WeeePrices(w) ==
    LET p == Payload(w)
    IN  IF p.priced \/ p.inner
        THEN [from |-> "payload", beforeFrom |-> IF p.base THEN "payload" ELSE "none"]
        ELSE [from |-> IF w.domPrice THEN "dom" ELSE "none",
              beforeFrom |-> IF w.domBefore THEN "dom" ELSE "none"]

ReadWeee(w) ==
    LET title == IF Payload(w).named THEN Payload(w).whose
                 ELSE IF w.h1 \/ w.head THEN "own" ELSE "none"
        prices == WeeePrices(w)
    IN  IF WeeeSoldOut(w) THEN Ending("skip")
        ELSE IF prices.from = "none" \/ title = "none" \/ WeeeKey(w) = "none" THEN Ending("missed")
        ELSE [Blank EXCEPT !.end = "offer", !.title = title, !.key = WeeeKey(w),
                           !.price = IF prices.from = "dom" THEN "own" ELSE Payload(w).whose,
                           !.from = prices.from, !.beforeFrom = prices.beforeFrom]

-----------------------------------------------------------------------------
(* Target: the text around the product's number, read again if it has no     *)
(* price, and the price the browser shows.                                   *)

Text == [price : Amount, regular : Amount, out : BOOLEAN]

\* first, later: the text at its two readings; shown, shownLater: the price the
\* browser shows before and after the wait, appears: the wait ends in time.
TargetPages == [store : {"target"}, urlKey : BOOLEAN, textKey : BOOLEAN, titled : BOOLEAN,
                first : Text, later : Text, shown : Amount, shownLater : Amount,
                appears : BOOLEAN]

\* Mutant: the stock is not looked at before the price is waited for.
RefreshedStock(t) == IF t.first.price = 0 /\ t.shown = 0 THEN t.later.out ELSE t.first.out

TargetSoldOut(t) == t.first.out

ParseOne(text, from, amount) == [text |-> text, from |-> from, amount |-> amount]

\* The first price found, with the text the original price is then looked for in.
TargetPrice(t) ==
    IF t.first.price # 0 THEN ParseOne(t.first, "first", t.first.price)
    ELSE IF t.shown # 0 THEN ParseOne(t.first, "shown", t.shown)
    ELSE IF ~t.appears THEN ParseOne(t.first, "none", 0)
    ELSE IF t.later.price # 0 THEN ParseOne(t.later, "later", t.later.price)
    ELSE ParseOne(t.later, IF t.shownLater = 0 THEN "none" ELSE "shown", t.shownLater)

\* Only a price above the one asked is an original price; also 99 Ranch's.
Original(regular, amount) == IF regular > amount THEN regular ELSE 0

ReadTarget(t) ==
    LET r == TargetPrice(t)
    IN  IF ~t.urlKey /\ ~t.textKey THEN Ending("missed")
        ELSE IF TargetSoldOut(t) THEN Ending("skip")
        ELSE IF ~t.titled \/ r.amount = 0 THEN Ending("missed")
        ELSE [Blank EXCEPT !.end = "offer", !.title = "own", !.price = "own",
                           !.key = IF t.urlKey THEN "own" ELSE "other",
                           !.from = r.from, !.amount = r.amount,
                           !.before = Original(r.text.regular, r.amount)]

-----------------------------------------------------------------------------
(* Safeway and Walmart: the first schema.org product of the page.            *)

Seller == [price : Amount \cup {Odd}, stock : Stock]

\* marks: how many of the three marks of a block page it bears; id: the product
\* says its number.  Whose the product is, the parser does not ask.
SchemaPages == [store : {"safeway", "walmart"}, marks : 0 .. 3, product : BOOLEAN,
                named : BOOLEAN, whose : {"own", "other"}, id : BOOLEAN, urlKey : BOOLEAN,
                offers : SeqOf(Seller, MaxOffers)]

SchemaBlocked(s) == s.marks >= IF s.store = "safeway" THEN 3 ELSE 2

\* Every seller says it is sold out.
SchemaSoldOut(s) == s.offers # <<>> /\ \A i \in 1 .. Len(s.offers) : s.offers[i].stock = "out"

Priced(s) == {i \in 1 .. Len(s.offers) : s.offers[i].price \in Amounts}

\* The first price that is one, whatever that seller says of its stock.
SchemaPrice(s) ==
    IF Priced(s) = {} THEN 0
    ELSE s.offers[CHOOSE i \in Priced(s) : \A j \in Priced(s) : i <= j].price

\* Safeway asks the product first, Walmart the address.
SchemaKey(s) ==
    IF s.id /\ (s.store = "safeway" \/ ~s.urlKey) THEN s.whose
    ELSE IF s.urlKey THEN "own" ELSE "none"

ReadSchema(s) ==
    IF SchemaBlocked(s) \/ ~s.product THEN Ending("missed")
    ELSE IF SchemaSoldOut(s) THEN Ending("skip")
    ELSE IF ~s.named \/ SchemaPrice(s) = 0 \/ SchemaKey(s) = "none" THEN Ending("missed")
    ELSE [Blank EXCEPT !.end = "offer", !.title = s.whose, !.price = s.whose,
                       !.key = SchemaKey(s), !.from = "offer", !.amount = SchemaPrice(s)]

-----------------------------------------------------------------------------
(* 99 Ranch: the first variant of the product in the page's data.            *)

RanchPages == [store : {"ranch99"}, product : BOOLEAN, named : BOOLEAN, id : BOOLEAN,
               sale : Amount \cup {Odd}, price : Amount, retail : Amount \cup {Odd},
               stock : {"unsaid", "in", "out"}]

RanchPrice(r) == IF r.sale # 0 THEN r.sale ELSE IF r.price # 0 THEN r.price ELSE r.retail

\* A price that is no number is an error; stock is looked at after the price.
ReadRanch(r) ==
    IF ~r.product THEN Ending("missed")
    ELSE IF RanchPrice(r) = Odd THEN Ending("error")
    ELSE IF ~r.named \/ RanchPrice(r) = 0 THEN Ending("missed")
    ELSE IF r.stock = "out" THEN Ending("skip")
    ELSE IF ~r.id THEN Ending("missed")
    ELSE IF r.retail = Odd THEN Ending("error")
    ELSE [Blank EXCEPT !.end = "offer", !.title = "own", !.price = "own", !.key = "own",
                       !.from = "variant", !.amount = RanchPrice(r),
                       !.before = Original(r.retail, RanchPrice(r))]

-----------------------------------------------------------------------------
(* The adapter.                                                              *)

ReadTypeOK ==
    /\ hold \in {"open", "read", "closed"} /\ captured \in BOOLEAN
    /\ verdict.end \in {"none", "offer", "skip", "missed", "error"}
    /\ {verdict.title, verdict.price, verdict.key} \subseteq {"none", "own", "other"}
    /\ {verdict.amount, verdict.before} \subseteq Amount
    /\ verdict.end = "offer" => "none" \notin {verdict.title, verdict.price, verdict.key}

ReadInit ==
    /\ page \in WeeePages \cup TargetPages \cup SchemaPages \cup RanchPages
    /\ hold = "open" /\ verdict = Blank /\ captured = FALSE

ReadPage ==
    /\ hold = "open" /\ hold' = "read"
    /\ verdict' = CASE page.store = "weee"    -> ReadWeee(page)
                    [] page.store = "target"  -> ReadTarget(page)
                    [] page.store = "ranch99" -> ReadRanch(page)
                    [] OTHER                  -> ReadSchema(page)
    /\ UNCHANGED <<page, captured>>

\* A miss or an error is captured; the page is closed whatever came of it.
LeavePage ==
    /\ hold = "read" /\ hold' = "closed"
    /\ captured' = (verdict.end \in {"missed", "error"})
    /\ UNCHANGED <<page, verdict>>

ReadNext == ReadPage \/ LeavePage

ReadSpec == ReadInit /\ [][ReadNext]_readVars

-----------------------------------------------------------------------------
(* What must hold.                                                          *)

\* A page whose own data say it is sold out, all sellers of it, is no offer and
\* no failure: it is skipped.  Only 99 Ranch may miss one first, and only of a
\* page without title or price.
SoldOutIsSkipped ==
    hold # "open" =>
        /\ page.store = "weee" /\ page.sources # <<>> =>
              (Head(page.sources).stock = "out" /\ Head(page.sources).by # "embedded"
                   => verdict.end = "skip")
        /\ page.store = "target" /\ (page.urlKey \/ page.textKey) =>
              (page.first.out => verdict.end = "skip")
        /\ page.store \in {"safeway", "walmart"} /\ verdict.end # "missed" =>
              ((\A i \in 1 .. Len(page.offers) : page.offers[i].stock = "out")
                   <=> verdict.end = "skip")
        /\ page.store = "ranch99" =>
              (page.stock = "out" => verdict.end \in {"skip", "missed", "error"})

\* Title, price and key of an offer are of one product, unless a product found
\* by search or in the JSON-LD is another's and lacks its number or its price, or
\* the address gives the key of a page that shows another product.
OfferIsOfOneProduct ==
    verdict.end = "offer" =>
        \/ verdict.title = verdict.price /\ verdict.price = verdict.key
        \/ page.store = "weee" /\ Payload(page).whose = "other"
           /\ ~(Payload(page).id /\ Payload(page).priced /\ Payload(page).named)
        \/ page.store = "target" /\ ~page.urlKey
        \/ page.store = "safeway" /\ page.whose = "other" /\ ~page.id
        \/ page.store = "walmart" /\ page.whose = "other" /\ page.urlKey

\* An original price is above the price asked, where the parser compares them;
\* Weee's is read where its price is.
OriginalGoesWithPrice ==
    /\ verdict.before > 0 => verdict.before > verdict.amount
    /\ verdict.beforeFrom # "none" => verdict.beforeFrom = verdict.from

\* Whichever places of a page a parser finds first, its offer is of one product
\* that is for sale.
ReadingIsSound == SoldOutIsSkipped /\ OfferIsOfOneProduct /\ OriginalGoesWithPrice
=================================================================================
