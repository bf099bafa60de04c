------------------------------ MODULE PriceHistory ------------------------------
(***************************************************************************)
(* The price history of one product in one context (legacy/db_repo.py), the *)
(* audit of an offer against it (core/pipeline.py, core/rules.py), and the  *)
(* maintenance process that thins it out.  Every query is a transaction of  *)
(* its own, so maintenance, which takes no lock, may run between any two.   *)
(* Prices are in cents, percentages in hundredths of a percent.             *)
(***************************************************************************)
EXTENDS Integers, FiniteSets, FiniteSetsExt

CONSTANTS
    Prices,         \* prices a page may show
    MaxNow,         \* bound on time
    Keep,           \* PRICE_HISTORY_KEEP_DAYS
    Lookback,       \* ANOMALY_LOOKBACK_DAYS
    MaxSamples,     \* ANOMALY_MAX_SAMPLES
    MinSamples,     \* ANOMALY_MIN_SAMPLES
    MaxPrice,       \* VALIDATOR_MAX_PRICE
    MinDropAmount,  \* RULE_MIN_DROP_AMOUNT
    MinDropPct,     \* RULE_MIN_DROP_PCT
    IqrMultiplier, ZScore, ZeroVarAbs, ZeroVarPct

ASSUME PricesAssumption == Prices \subseteq Nat

ASSUME SettingsAssumption ==
    /\ Keep \in Nat /\ Lookback \in Nat /\ MaxNow \in Nat /\ Lookback <= Keep
    /\ MaxSamples \in Nat /\ MinSamples \in Nat \ {0} /\ MaxPrice \in Nat
    /\ MinDropAmount \in Nat /\ MinDropPct \in Nat
    /\ IqrMultiplier \in Nat /\ ZScore \in Nat
    /\ ZeroVarAbs \in Nat /\ ZeroVarPct \in Nat

VARIABLES
    rows,       \* price points of the product under its store
    legacyRows, \* its rows from before the store column, store_id 'legacy'
    fallback,   \* ENABLE_LEGACY_FALLBACK, and only one store has the product
    now,
    step,       \* how far the audit of the offer is
    offer,      \* [price, at]: at is when its page was parsed
    last, low,  \* what get_last_price and get_historical_low returned
    deal,       \* the deal the last audit ended in, or NoDeal
    everLow     \* the lowest price ever stored, or NoPrice (history)

priceVars == <<rows, legacyRows, fallback, now, step, offer, last, low, deal,
               everLow>>

NoPriceKnown == -1
NoDeal == [price |-> NoPriceKnown, last |-> NoPriceKnown, newLow |-> FALSE]
NoOffer == [price |-> NoPriceKnown, at |-> 0]
PricePoint == [price : Prices, at : Nat]
PriceOrNone == Prices \cup {NoPriceKnown}

PriceTypeOK ==
    /\ rows \subseteq PricePoint /\ legacyRows \subseteq PricePoint
    /\ fallback \in BOOLEAN /\ now \in Nat
    /\ step \in {"idle", "series", "last", "low", "store"}
    /\ offer \in [price : PriceOrNone, at : Nat]
    /\ step # "idle" => offer \in PricePoint
    /\ last \in PriceOrNone /\ low \in PriceOrNone
    /\ deal \in [price : PriceOrNone, last : PriceOrNone, newLow : BOOLEAN]
    /\ everLow \in PriceOrNone

(***************************************************************************)
(* The queries.                                                            *)
(***************************************************************************)

IsNewest(r, R) == \A q \in R : q.at <= r.at

\* ORDER BY price ASC, timestamp DESC.
IsLowest(r, R) == \A q \in R : r.price < q.price \/ (r.price = q.price /\ q.at <= r.at)

Recent(R, age) == {r \in R : r.at >= now - age}

NewestPrice(R) ==
    IF R = {} THEN NoPriceKnown ELSE (CHOOSE r \in R : IsNewest(r, R)).price

LowestPrice(R) ==
    IF R = {} THEN NoPriceKnown ELSE (CHOOSE r \in R : IsLowest(r, R)).price

LastPrice ==
    LET own == NewestPrice(Recent(rows, Keep))
    IN IF own = NoPriceKnown /\ fallback THEN NewestPrice(Recent(legacyRows, Keep)) ELSE own

HistoricalLow ==
    LET own == LowestPrice(rows)
    IN IF own = NoPriceKnown /\ fallback THEN LowestPrice(legacyRows) ELSE own

\* The newest MaxSamples rows of the look-back.
PriceSeries ==
    LET recent == Recent(rows, Lookback)
    IN {r \in recent : Cardinality({q \in recent : q.at > r.at}) < MaxSamples}

(***************************************************************************)
(* RulesEngine.                                                            *)
(***************************************************************************)

\* Mutant: the samples are taken in the order of the query.
NthByTime(R, k) ==
    CHOOSE p \in Prices :
        \E r \in R : r.price = p /\ Cardinality({q \in R : q.at > r.at}) = k

\* The price at index k of the sorted samples.
Nth(R, k) ==
    CHOOSE p \in Prices :
        /\ Cardinality({r \in R : r.price < p}) <= k
        /\ Cardinality({r \in R : r.price <= p}) > k

\* _percentile at quarter k, times four.
Quartile(R, k) ==
    LET index == (Cardinality(R) - 1) * k
        lower == Nth(R, index \div 4)
        upper == IF index % 4 = 0 THEN lower ELSE Nth(R, index \div 4 + 1)
    IN 4 * lower + (upper - lower) * (index % 4)

Magnitude(n) == IF n < 0 THEN -n ELSE n

\* The rules, multiplied out, over n samples with these quartiles and sums.
AreBroken(price, n, q1, q3, sum, squares) ==
    LET iqr == q3 - q1
        spread == n * squares - sum * sum
        delta == Magnitude(n * price - sum)
    IN \/ /\ iqr > 0
          /\ \/ 4 * price < q1 - IqrMultiplier * iqr
             \/ 4 * price > q3 + IqrMultiplier * iqr
       \/ spread > 0 /\ delta * delta >= ZScore * ZScore * spread
       \/ /\ spread = 0 /\ sum > 0
          /\ delta >= n * ZeroVarAbs \/ 10000 * delta >= ZeroVarPct * sum

\* is_anomalous_price.
IsAnomalous(price, R) ==
    /\ Cardinality(R) >= MinSamples
    /\ AreBroken(price, Cardinality(R), Quartile(R, 1), Quartile(R, 3),
                 MapThenSumSet(LAMBDA r : r.price, R),
                 MapThenSumSet(LAMBDA r : r.price * r.price, R))

\* analyze_drop: the percentage is rounded before it is compared.
IsDrop(price, from) ==
    LET amount == from - price
    IN /\ from > 0 /\ amount > 0
       /\ amount >= MinDropAmount
       /\ (20000 * amount + from) \div (2 * from) >= MinDropPct

DealOf ==
    IF IsDrop(offer.price, last)
    THEN [price |-> offer.price, last |-> last,
          newLow |-> low > 0 /\ offer.price < low]
    ELSE NoDeal

(***************************************************************************)
(* The audit of one offer.                                                 *)
(***************************************************************************)

PriceInit ==
    /\ rows = {} /\ now = 0 /\ step = "idle" /\ offer = NoOffer
    /\ last = NoPriceKnown /\ low = NoPriceKnown /\ deal = NoDeal /\ everLow = NoPriceKnown
    /\ fallback \in BOOLEAN
    /\ legacyRows \in SUBSET [price : Prices, at : {0}]
    /\ \A q, r \in legacyRows : q = r

Kept == <<rows, legacyRows, fallback, now, everLow>>

\* validate_offer; an offer it refuses is counted as an error and left.
Validates(price, original) ==
    price > 0 /\ price <= MaxPrice /\ (original # NoPriceKnown => original >= price)

\* Urls are audited after all are parsed, in the order of the list: of two
\* offers for one product the later one may be audited first.
BeginAudit ==
    /\ step = "idle"
    /\ \E price \in Prices, original \in PriceOrNone, at \in {now - 1, now} \cap Nat :
        /\ Validates(price, original)
        /\ at > 0 /\ \A r \in rows : r.at # at
        /\ offer' = [price |-> price, at |-> at]
    /\ step' = "series"
    /\ last' = NoPriceKnown /\ low' = NoPriceKnown /\ deal' = NoDeal
    /\ UNCHANGED Kept

\* get_price_series, empty when the query fails; an anomalous price is not
\* stored.
ReadSeries ==
    /\ step = "series"
    /\ \E series \in {PriceSeries, {}} :
        step' = IF IsAnomalous(offer.price, series) THEN "idle" ELSE "last"
    /\ UNCHANGED <<Kept, offer, last, low, deal>>

\* get_last_price, None when the query fails; without it the low is not read.
ReadLast ==
    /\ step = "last"
    /\ last' \in {LastPrice, NoPriceKnown}
    /\ step' = IF last' = NoPriceKnown THEN "store" ELSE "low"
    /\ UNCHANGED <<Kept, offer, low, deal>>

ReadLow ==
    /\ step = "low"
    /\ low' \in {HistoricalLow, NoPriceKnown}
    /\ step' = "store"
    /\ UNCHANGED <<Kept, offer, last, deal>>

\* upsert_product and insert_price_point; the deal counts once they are in.
Store ==
    /\ step = "store"
    /\ rows' = rows \cup {offer}
    /\ everLow' = IF everLow = NoPriceKnown \/ offer.price < everLow
                  THEN offer.price ELSE everLow
    /\ deal' = DealOf
    /\ step' = "idle"
    /\ UNCHANGED <<legacyRows, fallback, now, offer, last, low>>

\* A database that stays locked, or the death of the process.
AbandonAudit ==
    /\ step # "idle"
    /\ step' = "idle"
    /\ UNCHANGED <<Kept, offer, last, low, deal>>

(***************************************************************************)
(* Maintenance and time.                                                   *)
(***************************************************************************)

\* Mutant: only the newest row is spared.
ThinnedByAge(R) == {r \in R : r.at >= now - Keep \/ IsNewest(r, R)}

Thinned(R) == {r \in R : r.at >= now - Keep \/ IsNewest(r, R) \/ IsLowest(r, R)}

\* cleanup_price_history.
CleanHistory ==
    /\ rows' = Thinned(rows) /\ legacyRows' = Thinned(legacyRows)
    /\ UNCHANGED <<fallback, now, step, offer, last, low, deal, everLow>>

PassTime ==
    /\ now < MaxNow
    /\ now' = now + 1
    /\ UNCHANGED <<rows, legacyRows, fallback, step, offer, last, low, deal, everLow>>

PriceNext ==
    \/ BeginAudit \/ ReadSeries \/ ReadLast \/ ReadLow \/ Store \/ AbandonAudit
    \/ CleanHistory \/ PassTime

PriceSpec == PriceInit /\ [][PriceNext]_priceVars

(***************************************************************************)
(* Properties.                                                             *)
(***************************************************************************)

\* Maintenance changes no answer: the last price, the historical low and the
\* samples are the same before and after it, whatever it takes away, and so
\* it may run between any two queries of an audit (_DELETE_OLD_PRICE_HISTORY
\* against the four SELECTs).
CleaningIsInvisible ==
    [][rows' # rows /\ now' = now /\ step' = step =>
        /\ LastPrice' = LastPrice
        /\ HistoricalLow' = HistoricalLow
        /\ PriceSeries' = PriceSeries]_priceVars

\* A deal that claims a new low is below every price ever stored for the
\* product, also those that maintenance has taken away since (analyze_drop).
NewLowIsLow ==
    [][deal' # deal /\ deal'.newLow =>
        everLow = NoPriceKnown \/ deal'.price < everLow]_priceVars

\* A price that more than a quarter of the samples have is never refused as
\* an anomaly: the rules may not shut out a regular price (is_anomalous_price
\* and its quartiles).
RegularPricePasses ==
    [][step = "series" /\ step' = "idle" /\ IsAnomalous(offer.price, PriceSeries) =>
        4 * Cardinality({r \in PriceSeries : r.price = offer.price})
            <= Cardinality(PriceSeries)]_priceVars

\* Retention and the audits may interleave in any way, and a low is a low.
LowsAreTrue == CleaningIsInvisible /\ NewLowIsLow
=================================================================================
