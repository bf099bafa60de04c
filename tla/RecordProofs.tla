----------------------------- MODULE RecordProofs -----------------------------
(***************************************************************************)
(* What is read, what is kept, and what is concluded from it. A deal's new *)
(* low is the lowest price ever stored, although maintenance throws rows   *)
(* away: the one row Thinned spares for its price carries the whole memory *)
(* of the rows that are gone, and a regular price is never refused. The    *)
(* version of the schema is never ahead of its columns. What is in the     *)
(* folders agrees with the index and the boards. What is read off a        *)
(* product page is what the page says, and what a provider makes of a run  *)
(* is shown only where the run bears it out. The report on the runs alarms *)
(* for what the runs show, the decision of a group is the best of its      *)
(* candidates, and the replay of the failures tells each of them once and  *)
(* as it went. For any prices, ages and settings, any shops and pages, any *)
(* page a store may serve, any answer of a provider, any members of a      *)
(* group and any failures in the index. Last, MCRecords runs each of them  *)
(* as its own specification.                                               *)
(***************************************************************************)
EXTENDS MCRecords, MonitorRowProofs, SetLemmas, SequenceTheorems, TLAPS

-------------------------------------------------------------------------------
(* The price history.                                                        *)

\* The rows that the queries of the last price and of the low return.
HasNewest(R) == R = {} \/ \E r \in R : IsNewest(r, R)
HasLowest(R) == R = {} \/ \E r \in R : IsLowest(r, R)

\* The lowest price ever stored is the price of a row that is still there.
LowIsKept ==
    IF everLow = NoPriceKnown THEN rows = {}
    ELSE \E r \in rows : IsLowest(r, rows) /\ r.price = everLow

\* Before the low is read there is none; once it is, it is the lowest ever,
\* unless the query failed or the product had no rows of its own.
LowIsRead ==
    /\ step \in {"series", "last", "low"} => low = NoPriceKnown
    /\ step = "store" => low = NoPriceKnown \/ everLow = NoPriceKnown \/ low = everLow

PriceInv ==
    /\ PriceTypeOK
    /\ HasNewest(rows) /\ HasNewest(legacyRows) /\ HasLowest(legacyRows)
    /\ LowIsKept /\ LowIsRead

-----------------------------------------------------------------------------
(* The queries and the thinning.                                           *)

\* Two rows the query of the low might return have one price
\* (_SELECT_HISTORICAL_LOW).
LEMMA LowestPriceIs ==
    ASSUME NEW R, R \subseteq PricePoint, NEW r \in R, IsLowest(r, R)
    PROVE  LowestPrice(R) = r.price
<1> DEFINE c == CHOOSE q \in R : IsLowest(q, R)
<1>1. c \in R /\ IsLowest(c, R)
  OBVIOUS
<1>2. r.price \in Nat /\ c.price \in Nat
  BY <1>1, PricesAssumption DEF PricePoint
<1>3. c.price = r.price
  BY <1>1, <1>2 DEF IsLowest
<1> QED
  BY <1>3 DEF LowestPrice

\* Thinning spares the lowest row, which stays the lowest of those left, and
\* so the query of the low returns the same (_DELETE_OLD_PRICE_HISTORY).
LEMMA ThinningKeepsLowest ==
    ASSUME NEW R, R \subseteq PricePoint, NEW r \in R, IsLowest(r, R)
    PROVE  r \in Thinned(R) /\ IsLowest(r, Thinned(R))
BY DEF Thinned, IsLowest

\* The answer of the query of the low, and that it has one, before and after.
LEMMA ThinningKeepsLow ==
    ASSUME NEW R, R \subseteq PricePoint, HasLowest(R)
    PROVE  LowestPrice(Thinned(R)) = LowestPrice(R) /\ HasLowest(Thinned(R))
<1>1. CASE R = {}
  <2>1. Thinned(R) = {}
    BY <1>1 DEF Thinned
  <2> QED
    BY <1>1, <2>1 DEF HasLowest
<1>2. CASE R # {}
  <2>1. PICK r \in R : IsLowest(r, R)
    BY <1>2 DEF HasLowest
  <2>2. r \in Thinned(R) /\ IsLowest(r, Thinned(R))
    BY <2>1, ThinningKeepsLowest
  <2>3. Thinned(R) \subseteq PricePoint
    BY DEF Thinned
  <2>4. LowestPrice(R) = r.price
    BY <2>1, LowestPriceIs
  <2>5. LowestPrice(Thinned(R)) = r.price
    BY <2>2, <2>3, LowestPriceIs
  <2> QED
    BY <2>2, <2>4, <2>5 DEF HasLowest
<1> QED
  BY <1>1, <1>2

\* Thinning spares the newest row too.
LEMMA ThinningKeepsNewest ==
    ASSUME NEW R, R \subseteq PricePoint, HasNewest(R)
    PROVE  HasNewest(Thinned(R))
BY DEF HasNewest, IsNewest, Thinned

\* Thinning takes nothing from a window no longer than the age it keeps.
LEMMA ThinningKeepsRecent ==
    ASSUME NEW R, R \subseteq PricePoint, NEW age \in Nat, age <= Keep, now \in Nat
    PROVE  Recent(Thinned(R), age) = Recent(R, age)
<1>1. \A r \in R : r.at >= now - age => r.at >= now - Keep
  BY SettingsAssumption DEF PricePoint
<1> QED
  BY <1>1 DEF Recent, Thinned

\* The query of the last price returns a price or none (_SELECT_LAST_PRICE).
LEMMA NewestPriceType ==
    ASSUME NEW R, R \subseteq PricePoint, HasNewest(R), NEW age \in Nat, now \in Nat
    PROVE  NewestPrice(Recent(R, age)) \in PriceOrNone
<1> DEFINE W == Recent(R, age)
<1>1. CASE W = {}
  BY <1>1 DEF NewestPrice, PriceOrNone
<1>2. CASE W # {}
  <2>1. PICK w \in R : w.at >= now - age
    BY <1>2 DEF Recent
  <2>2. PICK r \in R : IsNewest(r, R)
    BY <2>1 DEF HasNewest
  <2>3. w.at <= r.at /\ w.at \in Nat /\ r.at \in Nat
    BY <2>1, <2>2 DEF IsNewest, PricePoint
  <2>4. r \in W
    BY <2>1, <2>2, <2>3 DEF Recent
  <2>5. IsNewest(r, W)
    BY <2>2 DEF IsNewest, Recent
  <2>6. (CHOOSE q \in W : IsNewest(q, W)) \in W
    BY <2>4, <2>5
  <2>7. W \subseteq PricePoint
    BY DEF Recent
  <2> QED
    BY <1>2, <2>6, <2>7 DEF NewestPrice, PriceOrNone, PricePoint
<1> QED
  BY <1>1, <1>2

\* The query of the low returns a price or none (_SELECT_HISTORICAL_LOW).
LEMMA LowestPriceType ==
    ASSUME NEW R, R \subseteq PricePoint, HasLowest(R)
    PROVE  LowestPrice(R) \in PriceOrNone
<1>1. CASE R = {}
  BY <1>1 DEF LowestPrice, PriceOrNone
<1>2. CASE R # {}
  <2>1. PICK r \in R : IsLowest(r, R)
    BY <1>2 DEF HasLowest
  <2>2. LowestPrice(R) = r.price
    BY <2>1, LowestPriceIs
  <2> QED
    BY <2>2 DEF PriceOrNone, PricePoint
<1> QED
  BY <1>1, <1>2

\* What the kept low says of the query.
LEMMA LowIsHistorical ==
    ASSUME PriceInv
    PROVE  /\ everLow # NoPriceKnown => HistoricalLow = everLow
           /\ HistoricalLow \in PriceOrNone
           /\ HasLowest(rows)
<1>1. rows \subseteq PricePoint /\ legacyRows \subseteq PricePoint
  BY DEF PriceInv, PriceTypeOK
<1>2. HasLowest(rows)
  BY DEF PriceInv, LowIsKept, HasLowest
<1>3. ASSUME everLow # NoPriceKnown PROVE HistoricalLow = everLow
  <2>1. PICK r \in rows : IsLowest(r, rows) /\ r.price = everLow
    BY <1>3 DEF PriceInv, LowIsKept
  <2>2. LowestPrice(rows) = everLow
    BY <1>1, <2>1, LowestPriceIs
  <2> QED
    BY <1>3, <2>2 DEF HistoricalLow
<1>4. HistoricalLow \in PriceOrNone
  <2>1. LowestPrice(rows) \in PriceOrNone
    BY <1>1, <1>2, LowestPriceType
  <2>2. LowestPrice(legacyRows) \in PriceOrNone
    BY <1>1, LowestPriceType DEF PriceInv
  <2> QED
    BY <2>1, <2>2 DEF HistoricalLow
<1> QED
  BY <1>2, <1>3, <1>4
-----------------------------------------------------------------------------
(* The invariant.                                                          *)

\* A product without rows, with one legacy row at most, satisfies it.
LEMMA InitLemma == PriceInit => PriceInv
<1> SUFFICES ASSUME PriceInit PROVE PriceInv
  OBVIOUS
<1>1. PriceTypeOK
  BY DEF PriceInit, PriceTypeOK, NoOffer, NoDeal, PriceOrNone, PricePoint
<1>2. legacyRows \subseteq PricePoint
  BY <1>1 DEF PriceTypeOK
<1>3. \A r \in legacyRows : r.at \in Nat /\ r.price \in Nat
  BY <1>2, PricesAssumption DEF PricePoint
<1>4. HasNewest(legacyRows) /\ HasLowest(legacyRows)
  BY <1>3 DEF PriceInit, HasNewest, HasLowest, IsNewest, IsLowest
<1>5. HasNewest(rows) /\ LowIsKept /\ LowIsRead
  BY DEF PriceInit, HasNewest, LowIsKept, LowIsRead
<1> QED
  BY <1>1, <1>4, <1>5 DEF PriceInv

\* A new row is the newest or leaves the newest what it was, and so for the
\* lowest (insert_price_point).
LEMMA StoreKeepsRows ==
    ASSUME PriceInv, Store
    PROVE  HasNewest(rows)' /\ LowIsKept'
<1>1. rows \subseteq PricePoint /\ offer \in PricePoint /\ everLow \in PriceOrNone
  BY DEF PriceInv, PriceTypeOK, Store
<1>2. /\ \A r \in rows : r.at \in Nat /\ r.price \in Nat
      /\ offer.at \in Nat /\ offer.price \in Nat
  BY <1>1, PricesAssumption DEF PricePoint
<1>3. rows' = rows \cup {offer} /\ offer' = offer
  BY DEF Store
<1>4. \E r \in rows' : IsNewest(r, rows')
  <2>1. CASE rows = {}
    BY <1>2, <1>3, <2>1 DEF IsNewest
  <2>2. CASE rows # {}
    <3>1. PICK r \in rows : IsNewest(r, rows)
      BY <2>2 DEF PriceInv, HasNewest
    <3>2. CASE r.at <= offer.at
      BY <1>2, <1>3, <3>1, <3>2 DEF IsNewest
    <3>3. CASE offer.at <= r.at
      BY <1>2, <1>3, <3>1, <3>3 DEF IsNewest
    <3> QED
      BY <1>2, <3>2, <3>3
  <2> QED
    BY <2>1, <2>2
<1>5. everLow' # NoPriceKnown /\ \E r \in rows' : IsLowest(r, rows') /\ r.price = everLow'
  <2>1. CASE everLow = NoPriceKnown
    <3>1. rows = {} /\ everLow' = offer.price
      BY <2>1 DEF PriceInv, LowIsKept, Store
    <3> QED
      BY <1>2, <1>3, <3>1 DEF IsLowest, NoPriceKnown
  <2>2. CASE everLow # NoPriceKnown
    <3>1. PICK r \in rows : IsLowest(r, rows) /\ r.price = everLow
      BY <2>2 DEF PriceInv, LowIsKept
    <3>2. CASE offer.price < r.price
      <4>1. everLow' = offer.price
        BY <3>1, <3>2 DEF Store
      <4>2. IsLowest(offer, rows')
        BY <1>2, <1>3, <3>1, <3>2 DEF IsLowest
      <4> QED
        BY <1>2, <1>3, <4>1, <4>2 DEF NoPriceKnown
    <3>3. CASE r.price < offer.price \/ (r.price = offer.price /\ offer.at <= r.at)
      <4>1. everLow' = r.price
        BY <1>2, <2>2, <3>1, <3>3 DEF Store
      <4>2. IsLowest(r, rows')
        BY <1>2, <1>3, <3>1, <3>3 DEF IsLowest
      <4> QED
        BY <1>2, <1>3, <4>1, <4>2 DEF NoPriceKnown
    <3>4. CASE r.price = offer.price /\ r.at <= offer.at
      <4>1. everLow' = offer.price
        BY <1>2, <2>2, <3>1, <3>4 DEF Store
      <4>2. IsLowest(offer, rows')
        BY <1>2, <1>3, <3>1, <3>4 DEF IsLowest
      <4> QED
        BY <1>2, <1>3, <4>1, <4>2 DEF NoPriceKnown
    <3> QED
      BY <1>2, <3>2, <3>3, <3>4
  <2> QED
    BY <2>1, <2>2
<1> QED
  BY <1>4, <1>5 DEF HasNewest, LowIsKept

\* Thinning leaves the rows that the queries return (cleanup_price_history).
LEMMA CleanKeepsRows ==
    ASSUME PriceInv, CleanHistory
    PROVE  /\ HasNewest(rows)' /\ LowIsKept'
           /\ HasNewest(legacyRows)' /\ HasLowest(legacyRows)'
<1>1. rows \subseteq PricePoint /\ legacyRows \subseteq PricePoint
  BY DEF PriceInv, PriceTypeOK
<1>2. rows' = Thinned(rows) /\ legacyRows' = Thinned(legacyRows) /\ everLow' = everLow
  BY DEF CleanHistory
<1>3. HasNewest(Thinned(rows)) /\ HasNewest(Thinned(legacyRows))
  BY <1>1, ThinningKeepsNewest DEF PriceInv
<1>4. HasLowest(Thinned(legacyRows))
  BY <1>1, ThinningKeepsLow DEF PriceInv
<1>5. LowIsKept'
  <2>1. CASE everLow = NoPriceKnown
    BY <1>2, <2>1 DEF PriceInv, LowIsKept, Thinned
  <2>2. CASE everLow # NoPriceKnown
    <3>1. PICK r \in rows : IsLowest(r, rows) /\ r.price = everLow
      BY <2>2 DEF PriceInv, LowIsKept
    <3>2. r \in Thinned(rows) /\ IsLowest(r, Thinned(rows))
      BY <1>1, <3>1, ThinningKeepsLowest
    <3> QED
      BY <1>2, <2>2, <3>1, <3>2 DEF LowIsKept
  <2> QED
    BY <2>1, <2>2
<1> QED
  BY <1>2, <1>3, <1>4, <1>5 DEF HasNewest, HasLowest

\* Every query, every store, every thinning and the clock preserve it.
LEMMA StepLemma == PriceInv /\ [PriceNext]_priceVars => PriceInv'
<1> SUFFICES ASSUME PriceInv, [PriceNext]_priceVars PROVE PriceInv'
  OBVIOUS
<1> USE DEF PriceInv
<1> DEFINE RowsAreKept == /\ HasNewest(rows)' /\ LowIsKept'
                          /\ HasNewest(legacyRows)' /\ HasLowest(legacyRows)'
<1>1. ASSUME UNCHANGED <<rows, legacyRows, everLow>> PROVE RowsAreKept
  BY <1>1 DEF HasNewest, HasLowest, LowIsKept
<1>2. CASE BeginAudit
  <2>1. PriceTypeOK'
    BY <1>2, SettingsAssumption DEF BeginAudit, PriceTypeOK, Kept, NoDeal, PriceOrNone, PricePoint
  <2>2. LowIsRead'
    BY <1>2 DEF BeginAudit, LowIsRead
  <2> QED
    BY <1>1, <1>2, <2>1, <2>2 DEF BeginAudit, Kept
<1>3. CASE ReadSeries
  <2>1. step' \in {"idle", "last"}
    BY <1>3 DEF ReadSeries
  <2>2. PriceTypeOK'
    BY <1>3, <2>1 DEF ReadSeries, PriceTypeOK, Kept
  <2>3. LowIsRead'
    BY <1>3, <2>1 DEF ReadSeries, LowIsRead
  <2> QED
    BY <1>1, <1>3, <2>2, <2>3 DEF ReadSeries, Kept
<1>4. CASE ReadLast
  <2>1. NewestPrice(Recent(rows, Keep)) \in PriceOrNone
    BY NewestPriceType, SettingsAssumption DEF PriceTypeOK
  <2>2. NewestPrice(Recent(legacyRows, Keep)) \in PriceOrNone
    BY NewestPriceType, SettingsAssumption DEF PriceTypeOK
  <2>3. last' \in PriceOrNone
    BY <1>4, <2>1, <2>2 DEF ReadLast, LastPrice, PriceOrNone
  <2>4. step' \in {"store", "low"}
    BY <1>4 DEF ReadLast
  <2>5. PriceTypeOK'
    BY <1>4, <2>3, <2>4 DEF ReadLast, PriceTypeOK, Kept
  <2>6. LowIsRead'
    BY <1>4, <2>4 DEF ReadLast, LowIsRead
  <2> QED
    BY <1>1, <1>4, <2>5, <2>6 DEF ReadLast, Kept
<1>5. CASE ReadLow
  <2>1. low' \in PriceOrNone
    BY <1>5, LowIsHistorical DEF ReadLow, PriceOrNone
  <2>2. PriceTypeOK'
    BY <1>5, <2>1 DEF ReadLow, PriceTypeOK, Kept
  <2>3. LowIsRead'
    BY <1>5, LowIsHistorical DEF ReadLow, LowIsRead, Kept
  <2> QED
    BY <1>1, <1>5, <2>2, <2>3 DEF ReadLow, Kept
<1>6. CASE Store
  <2>1. DealOf \in [price : PriceOrNone, last : PriceOrNone, newLow : BOOLEAN]
    BY <1>6 DEF DealOf, NoDeal, PriceTypeOK, PriceOrNone
  <2>2. PriceTypeOK'
    BY <1>6, <2>1 DEF Store, PriceTypeOK, PricePoint, PriceOrNone
  <2>3. LowIsRead'
    BY <1>6 DEF Store, LowIsRead
  <2>4. HasNewest(legacyRows)' /\ HasLowest(legacyRows)'
    BY <1>6 DEF Store, HasNewest, HasLowest
  <2> QED
    BY <1>6, <2>2, <2>3, <2>4, StoreKeepsRows
<1>7. CASE AbandonAudit
  BY <1>1, <1>7 DEF AbandonAudit, Kept, PriceTypeOK, LowIsRead
<1>8. CASE CleanHistory
  <2>1. PriceTypeOK'
    BY <1>8 DEF CleanHistory, PriceTypeOK, Thinned
  <2>2. LowIsRead'
    BY <1>8 DEF CleanHistory, LowIsRead
  <2> QED
    BY <1>8, <2>1, <2>2, CleanKeepsRows
<1>9. CASE PassTime
  <2>1. PriceTypeOK'
    BY <1>9 DEF PassTime, PriceTypeOK
  <2>2. LowIsRead'
    BY <1>9 DEF PassTime, LowIsRead
  <2> QED
    BY <1>1, <1>9, <2>1, <2>2 DEF PassTime
<1>10. CASE UNCHANGED priceVars
  BY <1>1, <1>10 DEF priceVars, PriceTypeOK, LowIsRead
<1> QED
  BY <1>2, <1>3, <1>4, <1>5, <1>6, <1>7, <1>8, <1>9, <1>10 DEF PriceNext

\* So it holds of every behaviour.
LEMMA InvLemma == PriceSpec => []PriceInv
BY InitLemma, StepLemma, PTL DEF PriceSpec

\* The queries and the audit keep to their types.
THEOREM PriceTypeCorrect == PriceSpec => []PriceTypeOK
<1>1. PriceInv => PriceTypeOK
  BY DEF PriceInv
<1> QED
  BY <1>1, InvLemma, PTL

-----------------------------------------------------------------------------
(* The two properties.                                                     *)

\* A deal that claims a new low is below every price ever stored, whatever
\* maintenance has taken away since (analyze_drop, cleanup_price_history).
THEOREM NewLowsAreLow == PriceSpec => NewLowIsLow
<1>1. ASSUME PriceInv, [PriceNext]_priceVars, deal' # deal, deal'.newLow
      PROVE  everLow = NoPriceKnown \/ deal'.price < everLow
  <2>1. BeginAudit \/ Store
    BY <1>1 DEF PriceNext, priceVars, ReadSeries, ReadLast, ReadLow, AbandonAudit,
                CleanHistory, PassTime
  <2>2. ~BeginAudit
    BY <1>1 DEF BeginAudit, NoDeal
  <2>3. deal' = DealOf /\ step = "store"
    BY <2>1, <2>2 DEF Store
  <2>4. low > 0 /\ offer.price < low /\ deal'.price = offer.price
    BY <1>1, <2>3 DEF DealOf, NoDeal
  <2>5. low = NoPriceKnown \/ everLow = NoPriceKnown \/ low = everLow
    BY <1>1, <2>3 DEF PriceInv, LowIsRead
  <2> QED
    BY <2>4, <2>5 DEF NoPriceKnown
<1> QED
  BY <1>1, InvLemma, PTL DEF PriceSpec, NewLowIsLow

\* Maintenance may run between any two queries of an audit: it changes the
\* answer of none (_DELETE_OLD_PRICE_HISTORY against the SELECTs).
THEOREM CleaningIsUnseen == PriceSpec => CleaningIsInvisible
<1>1. ASSUME PriceInv, [PriceNext]_priceVars, rows' # rows, now' = now, step' = step
      PROVE  LastPrice' = LastPrice /\ HistoricalLow' = HistoricalLow /\ PriceSeries' = PriceSeries
  <2>1. CleanHistory
    BY <1>1 DEF PriceNext, priceVars, Kept, BeginAudit, ReadSeries, ReadLast, ReadLow, Store,
                AbandonAudit, PassTime
  <2>2. /\ rows' = Thinned(rows) /\ legacyRows' = Thinned(legacyRows)
        /\ now' = now /\ fallback' = fallback
    BY <2>1 DEF CleanHistory
  <2>3. rows \subseteq PricePoint /\ legacyRows \subseteq PricePoint /\ now \in Nat
    BY <1>1 DEF PriceInv, PriceTypeOK
  <2>4. Recent(rows, Keep)' = Recent(rows, Keep)
    BY <2>2, <2>3, ThinningKeepsRecent, SettingsAssumption DEF Recent
  <2>5. Recent(legacyRows, Keep)' = Recent(legacyRows, Keep)
    BY <2>2, <2>3, ThinningKeepsRecent, SettingsAssumption DEF Recent
  <2>6. Recent(rows, Lookback)' = Recent(rows, Lookback)
    BY <2>2, <2>3, ThinningKeepsRecent, SettingsAssumption DEF Recent
  <2>7. LastPrice' = LastPrice
    BY <2>2, <2>4, <2>5 DEF LastPrice, NewestPrice
  <2>8. PriceSeries' = PriceSeries
    BY <2>6 DEF PriceSeries
  <2>9. LowestPrice(rows') = LowestPrice(rows)
    BY <1>1, <2>2, <2>3, ThinningKeepsLow, LowIsHistorical
  <2>10. LowestPrice(legacyRows') = LowestPrice(legacyRows)
    BY <1>1, <2>2, <2>3, ThinningKeepsLow DEF PriceInv
  <2>11. HistoricalLow' = HistoricalLow
    BY <2>2, <2>9, <2>10 DEF HistoricalLow, LowestPrice
  <2> QED
    BY <2>7, <2>8, <2>11
<1> QED
  BY <1>1, InvLemma, PTL DEF PriceSpec, CleaningIsInvisible

\* Retention and the audits may interleave in any way, and a low is a low.
THEOREM LowsStayTrue == PriceSpec => LowsAreTrue
BY NewLowsAreLow, CleaningIsUnseen DEF LowsAreTrue

-------------------------------------------------------------------------------
(* The rules against odd prices.                                             *)

\* How many samples are below v, and how many are not above it.
Less(R, v) == Cardinality({r \in R : r.price < v})
Most(R, v) == Cardinality({r \in R : r.price <= v})

\* The two counts, of one price and of two.
LEMMA CountsOfPrices ==
    ASSUME NEW R, IsFiniteSet(R), R \subseteq PricePoint
    PROVE  /\ \A v \in Nat : /\ Less(R, v) \in Nat /\ Most(R, v) \in Nat
                             /\ Most(R, v) = Less(R, v) + Cardinality({r \in R : r.price = v})
                             /\ Most(R, v) <= Cardinality(R)
                             /\ Less(R, v + 1) = Most(R, v)
           /\ \A v, w \in Nat : v < w => Most(R, v) <= Less(R, w)
<1>1. \A r \in R : r.price \in Nat
  BY PricesAssumption DEF PricePoint
<1>2. \A T \in SUBSET R : /\ IsFiniteSet(T) /\ Cardinality(T) \in Nat
                          /\ Cardinality(T) <= Cardinality(R)
  BY FS_Subset, FS_CardinalityType
<1>3. ASSUME NEW v \in Nat
      PROVE  /\ Less(R, v) \in Nat /\ Most(R, v) \in Nat
             /\ Most(R, v) = Less(R, v) + Cardinality({r \in R : r.price = v})
             /\ Most(R, v) <= Cardinality(R)
             /\ Less(R, v + 1) = Most(R, v)
  <2> DEFINE L == {r \in R : r.price < v}
             E == {r \in R : r.price = v}
             M == {r \in R : r.price <= v}
  <2>1. L \in SUBSET R /\ E \in SUBSET R /\ M \in SUBSET R
    OBVIOUS
  <2>2. M = L \cup E /\ L \cap E = {}
    BY <1>1
  <2>3. {r \in R : r.price < v + 1} = M
    BY <1>1
  <2> HIDE DEF L, E, M
  <2>4. Cardinality(L \cup E) = Cardinality(L) + Cardinality(E)
    <3>1. Cardinality(L \cup E) = Cardinality(L) + Cardinality(E) - Cardinality(L \cap E)
      BY <1>2, <2>1, FS_Union
    <3> QED
      BY <1>2, <2>1, <2>2, <3>1, FS_EmptySet
  <2> QED
    BY <1>2, <2>1, <2>2, <2>3, <2>4 DEF Less, Most, L, E, M
<1>4. ASSUME NEW v \in Nat, NEW w \in Nat, v < w PROVE Most(R, v) <= Less(R, w)
  <2> DEFINE L == {r \in R : r.price < w}
             M == {r \in R : r.price <= v}
  <2>1. M \in SUBSET L /\ L \in SUBSET R
    BY <1>1, <1>4
  <2> HIDE DEF L, M
  <2>2. Cardinality(M) <= Cardinality(L)
    BY <1>2, <2>1, FS_Subset
  <2> QED
    BY <2>2 DEF Less, Most, L, M
<1> QED
  BY <1>3, <1>4

\* Every place of the sorted samples has a price (_percentile).
LEMMA NthIs ==
    ASSUME NEW R, IsFiniteSet(R), R \subseteq PricePoint, NEW k \in Nat, k < Cardinality(R)
    PROVE  Nth(R, k) \in Nat /\ Less(R, Nth(R, k)) <= k /\ Most(R, Nth(R, k)) > k
<1> DEFINE V == {v \in Nat : Most(R, v) > k}
           f == [r \in R |-> r.price]
<1>1. \A r \in R : r.price \in Nat /\ r.price \in Prices
  BY PricesAssumption DEF PricePoint
<1>2. V # {}
  <2>1. \A r \in R : f[r] \in Nat
    BY <1>1
  <2> HIDE DEF f
  <2>2. Total(f, R) \in Nat /\ \A r \in R : f[r] <= Total(f, R)
    <3>1. ASSUME NEW r \in R PROVE f[r] <= Total(f, R)
      <4>1. IsFiniteSet(R \ {r}) /\ f[r] \in Nat
        BY <2>1, FS_RemoveElement
      <4>2. Total(f, R) = f[r] + Total(f, R \ {r})
        BY <2>1, TotalTakes
      <4>3. Total(f, R \ {r}) \in Nat
        BY <2>1, <4>1, TotalIsNat
      <4> QED
        BY <4>1, <4>2, <4>3
    <3> QED
      BY <2>1, <3>1, TotalIsNat
  <2>3. \A r \in R : r.price <= Total(f, R)
    BY <2>2 DEF f
  <2>4. {r \in R : r.price <= Total(f, R)} = R
    BY <2>3
  <2>5. Most(R, Total(f, R)) > k
    BY <2>4, FS_CardinalityType DEF Most
  <2> QED
    BY <2>2, <2>5
<1>3. PICK m \in Nat : m \in V /\ \A v \in V : m <= v
  <2>1. V \in SUBSET Nat
    OBVIOUS
  <2> HIDE DEF V
  <2> QED
    BY <1>2, <2>1, NatHasMin
<1>4. Most(R, m) > k /\ Less(R, m) <= k
  <2>1. Most(R, m) > k
    BY <1>3
  <2>2. CASE m = 0
    <3>1. {r \in R : r.price < m} = {}
      BY <1>1, <2>2
    <3> QED
      BY <2>1, <3>1, FS_EmptySet DEF Less
  <2>3. CASE m > 0
    <3>1. PICK u \in Nat : m = u + 1
      <4>1. m - 1 \in Nat /\ m = (m - 1) + 1
        BY <2>3
      <4> QED
        BY <4>1
    <3>2. u \notin V
      BY <1>3, <3>1
    <3>3. ~(Most(R, u) > k)
      BY <3>2
    <3>4. Less(R, m) = Most(R, u) /\ Most(R, u) \in Nat
      BY <3>1, CountsOfPrices
    <3> QED
      BY <2>1, <3>3, <3>4
  <2> QED
    BY <1>3, <2>2, <2>3
<1>5. m \in Prices
  <2>1. SUFFICES ASSUME m \notin Prices PROVE FALSE
    OBVIOUS
  <2>2. {r \in R : r.price <= m} = {r \in R : r.price < m}
    BY <1>1, <2>1
  <2>3. Most(R, m) = Less(R, m) /\ Less(R, m) \in Nat
    BY <2>2, CountsOfPrices DEF Less, Most
  <2> QED
    BY <1>4, <2>3
<1>6. \E p \in Prices : Less(R, p) <= k /\ Most(R, p) > k
  BY <1>4, <1>5
<1>7. Nth(R, k) = CHOOSE p \in Prices : Less(R, p) <= k /\ Most(R, p) > k
  BY DEF Nth, Less, Most
<1> QED
  BY <1>6, <1>7, PricesAssumption

\* The places of the samples: their prices rise, and those of price p lie
\* together, after the ones below it.
LEMMA PlacesOfPrice ==
    ASSUME NEW R, IsFiniteSet(R), R \subseteq PricePoint, NEW p \in Nat
    PROVE  /\ \A k, l \in 0 .. Cardinality(R) - 1 : k <= l => Nth(R, k) <= Nth(R, l)
           /\ \A k \in 0 .. Cardinality(R) - 1 : /\ k < Most(R, p) => Nth(R, k) <= p
                                                 /\ k >= Less(R, p) => Nth(R, k) >= p
<1>1. Cardinality(R) \in Nat
  BY FS_CardinalityType
<1> DEFINE N == 0 .. Cardinality(R) - 1
           q(k) == Nth(R, k)
<1>2. \A k \in N : k \in Nat /\ q(k) \in Nat /\ Less(R, q(k)) <= k /\ Most(R, q(k)) > k
  BY <1>1, NthIs
<1>3. \A v \in Nat : Less(R, v) \in Nat /\ Most(R, v) \in Nat
  BY CountsOfPrices
<1>4. \A v, w \in Nat : v < w => Most(R, v) <= Less(R, w)
  BY CountsOfPrices
<1> HIDE DEF N, q
<1>5. ASSUME NEW k \in N, NEW l \in N, k <= l PROVE q(k) <= q(l)
  <2>1. SUFFICES ASSUME q(l) < q(k) PROVE FALSE
    BY <1>2
  <2>2. Most(R, q(l)) <= Less(R, q(k))
    BY <1>2, <1>4, <2>1
  <2> QED
    BY <1>2, <1>3, <1>5, <2>2
<1>6. ASSUME NEW k \in N, k < Most(R, p) PROVE q(k) <= p
  <2>1. SUFFICES ASSUME p < q(k) PROVE FALSE
    BY <1>2
  <2>2. Most(R, p) <= Less(R, q(k))
    BY <1>2, <1>4, <2>1
  <2> QED
    BY <1>2, <1>3, <1>6, <2>2
<1>7. ASSUME NEW k \in N, k >= Less(R, p) PROVE q(k) >= p
  <2>1. SUFFICES ASSUME q(k) < p PROVE FALSE
    BY <1>2
  <2>2. Most(R, q(k)) <= Less(R, p)
    BY <1>2, <1>4, <2>1
  <2> QED
    BY <1>2, <1>3, <1>7, <2>2
<1> QED
  BY <1>5, <1>6, <1>7 DEF N, q

\* The quartiles of 4 * i + e + 1 samples are weighed from the prices at these
\* places (_percentile).
LEMMA QuartilesAre ==
    ASSUME NEW R, NEW i \in Nat, NEW e \in 0 .. 3, Cardinality(R) = 4 * i + e + 1,
           \A k \in 0 .. Cardinality(R) - 1 : Nth(R, k) \in Nat
    PROVE  /\ e = 0 => /\ Quartile(R, 1) = 4 * Nth(R, i)
                       /\ Quartile(R, 3) = 4 * Nth(R, 3 * i)
           /\ e = 1 => /\ Quartile(R, 1) = 3 * Nth(R, i) + Nth(R, i + 1)
                       /\ Quartile(R, 3) = Nth(R, 3 * i) + 3 * Nth(R, 3 * i + 1)
           /\ e = 2 => /\ Quartile(R, 1) = 2 * Nth(R, i) + 2 * Nth(R, i + 1)
                       /\ Quartile(R, 3) = 2 * Nth(R, 3 * i + 1) + 2 * Nth(R, 3 * i + 2)
           /\ e = 3 => /\ Quartile(R, 1) = Nth(R, i) + 3 * Nth(R, i + 1)
                       /\ Quartile(R, 3) = 3 * Nth(R, 3 * i + 2) + Nth(R, 3 * i + 3)
<1> DEFINE q(k) == Nth(R, k)
           Weighed(j, rest) == LET upper == IF rest = 0 THEN q(j) ELSE q(j + 1)
                               IN  4 * q(j) + (upper - q(j)) * rest
<1>1. ASSUME NEW j \in Nat, NEW rest \in 0 .. 3, NEW k \in Nat,
             (Cardinality(R) - 1) * k = 4 * j + rest
      PROVE  Quartile(R, k) = Weighed(j, rest)
  <2>1. (4 * j + rest) \div 4 = j /\ (4 * j + rest) % 4 = rest
    OBVIOUS
  <2> QED
    BY <1>1, <2>1 DEF Quartile
<1>2. \A k \in 0 .. Cardinality(R) - 1 : q(k) \in Nat
  OBVIOUS
<1>3. /\ e = 0 => 3 * i = 3 * i
      /\ e = 0 => (Cardinality(R) - 1) * 1 = 4 * i + 0 /\ (Cardinality(R) - 1) * 3 = 4 * (3 * i) + 0
      /\ e = 1 => (Cardinality(R) - 1) * 1 = 4 * i + 1 /\ (Cardinality(R) - 1) * 3 = 4 * (3 * i) + 3
      /\ e = 2 => (Cardinality(R) - 1) * 1 = 4 * i + 2 /\ (Cardinality(R) - 1) * 3 = 4 * (3 * i + 1) + 2
      /\ e = 3 => (Cardinality(R) - 1) * 1 = 4 * i + 3 /\ (Cardinality(R) - 1) * 3 = 4 * (3 * i + 2) + 1
  OBVIOUS
<1> HIDE DEF q, Weighed
<1>4. 3 * i \in Nat /\ 3 * i + 1 \in Nat /\ 3 * i + 2 \in Nat
  OBVIOUS
<1>5. CASE e = 0
  <2>1. Quartile(R, 1) = Weighed(i, 0) /\ Quartile(R, 3) = Weighed(3 * i, 0)
    BY <1>1, <1>3, <1>4, <1>5
  <2>2. q(i) \in Nat /\ q(3 * i) \in Nat
    BY <1>2, <1>5
  <2> QED
    BY <1>5, <2>1, <2>2 DEF Weighed, q
<1>6. CASE e = 1
  <2>1. Quartile(R, 1) = Weighed(i, 1) /\ Quartile(R, 3) = Weighed(3 * i, 3)
    BY <1>1, <1>3, <1>4, <1>6
  <2>2. q(i) \in Nat /\ q(i + 1) \in Nat /\ q(3 * i) \in Nat /\ q(3 * i + 1) \in Nat
    BY <1>2, <1>6
  <2> QED
    BY <1>6, <2>1, <2>2 DEF Weighed, q
<1>7. CASE e = 2
  <2>1. Quartile(R, 1) = Weighed(i, 2) /\ Quartile(R, 3) = Weighed(3 * i + 1, 2)
    BY <1>1, <1>3, <1>4, <1>7
  <2>2. q(i) \in Nat /\ q(i + 1) \in Nat /\ q(3 * i + 1) \in Nat /\ q(3 * i + 2) \in Nat
    BY <1>2, <1>7
  <2>3. 3 * i + 1 + 1 = 3 * i + 2
    OBVIOUS
  <2> QED
    BY <1>7, <2>1, <2>2, <2>3 DEF Weighed, q
<1>8. CASE e = 3
  <2>1. Quartile(R, 1) = Weighed(i, 3) /\ Quartile(R, 3) = Weighed(3 * i + 2, 1)
    BY <1>1, <1>3, <1>4, <1>8
  <2>2. q(i) \in Nat /\ q(i + 1) \in Nat /\ q(3 * i + 2) \in Nat /\ q(3 * i + 3) \in Nat
    BY <1>2, <1>8
  <2>3. 3 * i + 2 + 1 = 3 * i + 3
    OBVIOUS
  <2> QED
    BY <1>8, <2>1, <2>2, <2>3 DEF Weighed, q
<1> QED
  BY <1>5, <1>6, <1>7, <1>8

\* With more than a quarter of the samples at p, p is no further outside the
\* quartiles than they are apart.
LEMMA QuartilesHoldPrice ==
    ASSUME NEW R, IsFiniteSet(R), R \subseteq PricePoint, NEW p \in Nat,
           4 * Cardinality({r \in R : r.price = p}) > Cardinality(R)
    PROVE  /\ Quartile(R, 1) \in Nat /\ Quartile(R, 3) \in Nat
           /\ 2 * Quartile(R, 1) - Quartile(R, 3) <= 4 * p
           /\ 4 * p <= 2 * Quartile(R, 3) - Quartile(R, 1)
<1> DEFINE n == Cardinality(R)
           m == Cardinality({r \in R : r.price = p})
           a == Less(R, p)
           q(k) == Nth(R, k)
<1>1. n \in Nat /\ m \in Nat /\ a \in Nat /\ a + m <= n /\ Most(R, p) = a + m /\ 4 * m > n
  <2>1. n \in Nat /\ m \in Nat
    BY FS_CardinalityType, FS_Subset
  <2>2. a \in Nat /\ Most(R, p) = a + m /\ Most(R, p) <= n
    BY CountsOfPrices
  <2> QED
    BY <2>1, <2>2
<1>2. \A k \in 0 .. n - 1 : q(k) \in Nat
  BY <1>1, NthIs
<1>3. /\ \A k, l \in 0 .. n - 1 : k <= l => q(k) <= q(l)
      /\ \A k \in 0 .. n - 1 : (k < a + m => q(k) <= p) /\ (k >= a => q(k) >= p)
  <2>1. /\ \A k, l \in 0 .. n - 1 : k <= l => q(k) <= q(l)
        /\ \A k \in 0 .. n - 1 : (k < Most(R, p) => q(k) <= p) /\ (k >= Less(R, p) => q(k) >= p)
    BY PlacesOfPrice
  <2> QED
    BY <1>1, <2>1
<1>4. PICK i \in Nat, e \in 0 .. 3 : n = 4 * i + e + 1
  <2>1. PICK x \in Nat : n = x + 1
    <3>1. n - 1 \in Nat /\ n = (n - 1) + 1
      BY <1>1
    <3> HIDE DEF n
    <3> QED
      BY <3>1
  <2>2. x \div 4 \in Nat /\ x % 4 \in 0 .. 3 /\ x = 4 * (x \div 4) + (x % 4)
    OBVIOUS
  <2> HIDE DEF n
  <2> QED
    BY <2>1, <2>2
<1>5. /\ e = 0 => Quartile(R, 1) = 4 * q(i) /\ Quartile(R, 3) = 4 * q(3 * i)
      /\ e = 1 => /\ Quartile(R, 1) = 3 * q(i) + q(i + 1)
                  /\ Quartile(R, 3) = q(3 * i) + 3 * q(3 * i + 1)
      /\ e = 2 => /\ Quartile(R, 1) = 2 * q(i) + 2 * q(i + 1)
                  /\ Quartile(R, 3) = 2 * q(3 * i + 1) + 2 * q(3 * i + 2)
      /\ e = 3 => /\ Quartile(R, 1) = q(i) + 3 * q(i + 1)
                  /\ Quartile(R, 3) = 3 * q(3 * i + 2) + q(3 * i + 3)
  BY <1>2, <1>4, QuartilesAre
<1> HIDE DEF n, m, a, q
<1> DEFINE Good(x, y) == x \in Nat /\ y \in Nat /\ 2 * x - y <= 4 * p /\ 4 * p <= 2 * y - x
<1>6. CASE e = 0
  <2>1. q(i) \in Nat /\ q(3 * i) \in Nat /\ q(i) <= q(3 * i)
    BY <1>2, <1>3, <1>4, <1>6
  <2>2. /\ i < a + m => q(i) <= p
        /\ 3 * i >= a => q(3 * i) >= p
        /\ i >= a => q(i) >= p
        /\ 3 * i < a + m => q(3 * i) <= p
    BY <1>1, <1>3, <1>4, <1>6
  <2>3. m >= i + 1 /\ a + m <= 4 * i + 1
    BY <1>1, <1>4, <1>6
  <2> QED
    BY <1>1, <1>4, <1>5, <1>6, <2>1, <2>2, <2>3
<1>7. CASE e = 1
  <2>1. /\ q(i) \in Nat /\ q(i + 1) \in Nat /\ q(3 * i) \in Nat /\ q(3 * i + 1) \in Nat
        /\ q(i) <= q(i + 1) /\ q(i) <= q(3 * i) /\ q(3 * i) <= q(3 * i + 1) /\ q(i + 1) <= q(3 * i + 1)
    BY <1>2, <1>3, <1>4, <1>7
  <2>2. /\ i < a + m => q(i) <= p
        /\ i + 1 < a + m => q(i + 1) <= p
        /\ i >= a => q(i) >= p
        /\ i + 1 >= a => q(i + 1) >= p
        /\ 3 * i < a + m => q(3 * i) <= p
        /\ 3 * i >= a => q(3 * i) >= p
        /\ 3 * i + 1 >= a => q(3 * i + 1) >= p
        /\ 3 * i + 1 < a + m => q(3 * i + 1) <= p
    BY <1>1, <1>3, <1>4, <1>7
  <2>3. m >= i + 1 /\ a + m <= 4 * i + 2
    BY <1>1, <1>4, <1>7
  <2>4. CASE i = 0
    <3>1. q(3 * i) = q(i) /\ q(3 * i + 1) = q(i + 1)
      BY <2>4
    <3> QED
      BY <1>1, <1>5, <1>7, <2>1, <2>2, <2>3, <2>4, <3>1
  <2>5. CASE i > 0
    <3>1. q(i + 1) <= q(3 * i)
      BY <1>3, <1>4, <1>7, <2>5
    <3> QED
      BY <1>1, <1>5, <1>7, <2>1, <2>2, <2>3, <2>5, <3>1
  <2> QED
    BY <1>4, <2>4, <2>5
<1>8. CASE e = 2
  <2>1. /\ q(i) \in Nat /\ q(i + 1) \in Nat /\ q(3 * i + 1) \in Nat /\ q(3 * i + 2) \in Nat
        /\ q(i) <= q(i + 1) /\ q(i + 1) <= q(3 * i + 1) /\ q(3 * i + 1) <= q(3 * i + 2)
    BY <1>2, <1>3, <1>4, <1>8
  <2>2. /\ i < a + m => q(i) <= p
        /\ i + 1 < a + m => q(i + 1) <= p
        /\ i >= a => q(i) >= p
        /\ i + 1 >= a => q(i + 1) >= p
        /\ 3 * i + 1 < a + m => q(3 * i + 1) <= p
        /\ 3 * i + 1 >= a => q(3 * i + 1) >= p
        /\ 3 * i + 2 >= a => q(3 * i + 2) >= p
        /\ 3 * i + 2 < a + m => q(3 * i + 2) <= p
    BY <1>1, <1>3, <1>4, <1>8
  <2>3. m >= i + 1 /\ a + m <= 4 * i + 3
    BY <1>1, <1>4, <1>8
  <2> QED
    BY <1>1, <1>4, <1>5, <1>8, <2>1, <2>2, <2>3
<1>9. CASE e = 3
  <2>1. /\ q(i) \in Nat /\ q(i + 1) \in Nat /\ q(3 * i + 2) \in Nat /\ q(3 * i + 3) \in Nat
        /\ q(i) <= q(i + 1) /\ q(i + 1) <= q(3 * i + 2) /\ q(3 * i + 2) <= q(3 * i + 3)
    BY <1>2, <1>3, <1>4, <1>9
  <2>2. /\ i < a + m => q(i) <= p
        /\ i + 1 < a + m => q(i + 1) <= p
        /\ 3 * i + 2 >= a => q(3 * i + 2) >= p
        /\ 3 * i + 3 >= a => q(3 * i + 3) >= p
    BY <1>1, <1>3, <1>4, <1>9
  <2>3. m >= i + 2 /\ a + m <= 4 * i + 4
    BY <1>1, <1>4, <1>9
  <2> QED
    BY <1>1, <1>4, <1>5, <1>9, <2>1, <2>2, <2>3
<1> QED
  BY <1>6, <1>7, <1>8, <1>9

-----------------------------------------------------------------------------
(* The rules.                                                              *)

\* The sums that is_anomalous_price makes of the samples.
LEMMA SumsOfPrices ==
    ASSUME NEW R, IsFiniteSet(R), R \subseteq PricePoint
    PROVE  /\ MapThenSumSet(LAMBDA r : r.price, R) = Total([r \in R |-> r.price], R)
           /\ MapThenSumSet(LAMBDA r : r.price * r.price, R) = Total([r \in R |-> r.price * r.price], R)
<1> DEFINE f == [r \in R |-> r.price]
           q == [r \in R |-> r.price * r.price]
<1>1. MapThenSumSet(LAMBDA r : r.price, R) = Total(f, R)
  <2> DEFINE IsSums(g) == g = [U \in SUBSET R |-> IF U = {} THEN 0
                                                  ELSE Picked(U).price + g[U \ {Picked(U)}]]
  <2>1. MapThenSumSet(LAMBDA r : r.price, R) = (CHOOSE g : IsSums(g))[R]
    BY DEF MapThenSumSet, MapThenFoldSet, Picked
  <2>2. \A U \in SUBSET R : U # {} => Picked(U).price = f[Picked(U)]
    BY PickedIsIn
  <2> HIDE DEF f
  <2>3. ASSUME NEW g PROVE IsSums(g) <=> IsTable(g, f, R)
    BY <2>2 DEF IsTable
  <2>4. (CHOOSE g : IsSums(g)) = CHOOSE g : IsTable(g, f, R)
    BY <2>3
  <2> QED
    BY <2>1, <2>4 DEF Total
<1>2. MapThenSumSet(LAMBDA r : r.price * r.price, R) = Total(q, R)
  <2> DEFINE IsSums(g) == g = [U \in SUBSET R |-> IF U = {} THEN 0
                                 ELSE Picked(U).price * Picked(U).price + g[U \ {Picked(U)}]]
  <2>1. MapThenSumSet(LAMBDA r : r.price * r.price, R) = (CHOOSE g : IsSums(g))[R]
    BY DEF MapThenSumSet, MapThenFoldSet, Picked
  <2>2. \A U \in SUBSET R : U # {} => Picked(U).price * Picked(U).price = q[Picked(U)]
    BY PickedIsIn
  <2> HIDE DEF q
  <2>3. ASSUME NEW g PROVE IsSums(g) <=> IsTable(g, q, R)
    BY <2>2 DEF IsTable
  <2>4. (CHOOSE g : IsSums(g)) = CHOOSE g : IsTable(g, q, R)
    BY <2>3
  <2> QED
    BY <2>1, <2>4 DEF Total
<1> QED
  BY <1>1, <1>2

\* What the settings must be: their defaults are 3.0, 4.0, 0.5 and 1.0, and
\* nothing in config.py keeps an operator from others.
SettingsAreUsual ==
    IqrMultiplier >= 1 /\ ZScore >= 2 /\ ZeroVarAbs >= 1 /\ ZeroVarPct >= 1

\* The rules are asked about the number of the samples, their quartiles and sums.
LEMMA AnomalyIs ==
    ASSUME NEW R, IsFiniteSet(R), R \subseteq PricePoint, NEW p
    PROVE  IsAnomalous(p, R) <=>
              /\ Cardinality(R) >= MinSamples
              /\ AreBroken(p, Cardinality(R), Quartile(R, 1), Quartile(R, 3),
                           Total([r \in R |-> r.price], R),
                           Total([r \in R |-> r.price * r.price], R))
<1>1. ASSUME NEW s, NEW t, MapThenSumSet(LAMBDA r : r.price, R) = s,
             MapThenSumSet(LAMBDA r : r.price * r.price, R) = t
      PROVE  IsAnomalous(p, R) <=>
                /\ Cardinality(R) >= MinSamples
                /\ AreBroken(p, Cardinality(R), Quartile(R, 1), Quartile(R, 3), s, t)
  BY <1>1, Zenon DEF IsAnomalous
<1> QED
  BY <1>1, SumsOfPrices, Zenon

\* The rules by themselves: a price of more than a quarter of the samples passes
\* the quartiles, the deviation and, where all samples are the same, the shift.
LEMMA RegularIsUsual ==
    ASSUME SettingsAreUsual, NEW R, IsFiniteSet(R), R \subseteq PricePoint, NEW p \in Nat,
           4 * Cardinality({r \in R : r.price = p}) > Cardinality(R)
    PROVE  ~IsAnomalous(p, R)
<1> DEFINE n == Cardinality(R)
           m == Cardinality({r \in R : r.price = p})
           f == [r \in R |-> r.price]
           g == [r \in R |-> r.price * r.price]
           s == Total(f, R)
           t == Total(g, R)
           spread == n * t - s * s
           delta == Magnitude(n * p - s)
           q1 == Quartile(R, 1)
           q3 == Quartile(R, 3)
<1>1. n \in Nat /\ m \in Nat /\ 4 * m > n /\ m > 0 /\ n > 0
  <2>1. {r \in R : r.price = p} \in SUBSET R
    OBVIOUS
  <2>2. n \in Nat /\ m \in Nat /\ m <= n
    BY <2>1, FS_CardinalityType, FS_Subset
  <2> QED
    BY <2>2
<1>2. \A r \in R : r.price \in Nat /\ r.price * r.price \in Nat
  <2>1. \A r \in R : r.price \in Nat
    BY PricesAssumption DEF PricePoint
  <2>2. \A z \in Nat : z * z \in Nat
    OBVIOUS
  <2> QED
    BY <2>1, <2>2
<1>3. s \in Nat /\ t \in Nat
  <2>1. (\A r \in R : f[r] \in Nat) /\ (\A r \in R : g[r] \in Nat)
    BY <1>2
  <2> HIDE DEF f, g
  <2> QED
    BY <2>1, TotalIsNat
<1>4. m * ((n * p - s) * (n * p - s)) <= n * spread
  <2>1. /\ \A r \in R : f[r] \in Nat
        /\ \A r \in R : g[r] = f[r] * f[r]
        /\ {r \in R : f[r] = p} = {r \in R : r.price = p}
    BY <1>2
  <2> HIDE DEF f, g
  <2>2. m = Cardinality({r \in R : f[r] = p})
    BY <2>1
  <2> HIDE DEF m, n
  <2> QED
    BY <1>1, <1>3, <2>1, <2>2, SquaresWeigh DEF n
<1>5. delta \in Nat /\ delta * delta = (n * p - s) * (n * p - s)
  <2>1. n * p - s \in Int
    BY <1>1, <1>3
  <2>2. ASSUME NEW z \in Int PROVE Magnitude(z) \in Nat /\ Magnitude(z) * Magnitude(z) = z * z
    BY DEF Magnitude
  <2> QED
    BY <2>1, <2>2
<1>6. /\ q1 \in Nat /\ q3 \in Nat
      /\ 2 * q1 - q3 <= 4 * p /\ 4 * p <= 2 * q3 - q1
  BY QuartilesHoldPrice
<1>7. spread \in Int
  BY <1>1, <1>3
<1>8. IsAnomalous(p, R) <=>
        /\ n >= MinSamples
        /\ \/ /\ q3 - q1 > 0
              /\ 4 * p < q1 - IqrMultiplier * (q3 - q1) \/ 4 * p > q3 + IqrMultiplier * (q3 - q1)
           \/ spread > 0 /\ delta * delta >= ZScore * ZScore * spread
           \/ /\ spread = 0 /\ s > 0
              /\ delta >= n * ZeroVarAbs \/ 10000 * delta >= ZeroVarPct * s
  <2>1. IsAnomalous(p, R) <=> n >= MinSamples /\ AreBroken(p, n, q1, q3, s, t)
    BY AnomalyIs, Zenon
  <2> HIDE DEF n, s, t, q1, q3
  <2> QED
    BY <2>1 DEF AreBroken, spread, delta
<1> HIDE DEF n, m, f, g, s, t, spread, delta, q1, q3
<1>9. ~(/\ q3 - q1 > 0
        /\ 4 * p < q1 - IqrMultiplier * (q3 - q1) \/ 4 * p > q3 + IqrMultiplier * (q3 - q1))
  <2>1. SUFFICES ASSUME q3 - q1 > 0 PROVE /\ 4 * p >= q1 - IqrMultiplier * (q3 - q1)
                                          /\ 4 * p <= q3 + IqrMultiplier * (q3 - q1)
    BY <1>6, SettingsAssumption
  <2>2. PICK d \in Nat : d = q3 - q1
    BY <1>6, <2>1
  <2>3. IqrMultiplier * d >= d /\ IqrMultiplier * d \in Nat
    <3>1. ASSUME NEW k \in Nat, k >= 1 PROVE k * d >= d /\ k * d \in Nat
      BY <3>1
    <3> QED
      BY <3>1, SettingsAssumption DEF SettingsAreUsual
  <2> QED
    BY <1>6, <2>2, <2>3
<1>10. ~(spread > 0 /\ delta * delta >= ZScore * ZScore * spread)
  <2>1. SUFFICES ASSUME spread > 0, delta * delta >= ZScore * ZScore * spread PROVE FALSE
    OBVIOUS
  <2>2. PICK w \in Nat : w = spread /\ w > 0
    BY <1>7, <2>1
  <2>3. PICK d \in Nat : d = delta * delta
    BY <1>5
  <2>4. d >= 4 * w
    <3>1. ASSUME NEW z \in Nat, z >= 2 PROVE z * z * w >= 4 * w
      <4>1. z * z >= 4 /\ z * z \in Nat
        BY <3>1
      <4>2. ASSUME NEW x \in Nat, x >= 4 PROVE x * w >= 4 * w
        BY <4>2
      <4> QED
        BY <4>1, <4>2
    <3>2. ZScore * ZScore * w >= 4 * w
      BY <3>1, SettingsAssumption DEF SettingsAreUsual
    <3> QED
      BY <2>1, <2>2, <2>3, <3>2, SettingsAssumption
  <2>5. m * d <= n * w
    BY <1>4, <1>5, <2>2, <2>3
  <2>6. m * d >= m * (4 * w)
    BY <1>1, <2>4
  <2>7. m * (4 * w) > n * w
    BY <1>1, <2>2
  <2>8. m * d \in Nat /\ n * w \in Nat /\ m * (4 * w) \in Nat
    BY <1>1
  <2> QED
    BY <2>5, <2>6, <2>7, <2>8
<1>11. ~(/\ spread = 0 /\ s > 0
         /\ delta >= n * ZeroVarAbs \/ 10000 * delta >= ZeroVarPct * s)
  <2>1. SUFFICES ASSUME spread = 0, s > 0
                 PROVE  ~(delta >= n * ZeroVarAbs) /\ ~(10000 * delta >= ZeroVarPct * s)
    OBVIOUS
  <2>2. delta = 0
    <3>1. m * (delta * delta) <= 0
      BY <1>1, <1>4, <1>5, <2>1
    <3> QED
      BY <1>1, <1>5, <3>1
  <2>3. /\ n * ZeroVarAbs > 0 /\ ZeroVarPct * s > 0
        /\ n * ZeroVarAbs \in Nat /\ ZeroVarPct * s \in Nat
    <3>1. ASSUME NEW x \in Nat, NEW y \in Nat, x > 0, y > 0 PROVE x * y > 0 /\ x * y \in Nat
      BY <3>1
    <3>2. ZeroVarAbs \in Nat /\ ZeroVarPct \in Nat /\ ZeroVarAbs > 0 /\ ZeroVarPct > 0
      BY SettingsAssumption DEF SettingsAreUsual
    <3> QED
      BY <1>1, <1>3, <2>1, <3>1, <3>2
  <2> QED
    BY <2>2, <2>3
<1> QED
  BY <1>8, <1>9, <1>10, <1>11

\* A product has only so many rows.
LEMMA RowsStayFew == PriceSpec => []IsFiniteSet(rows)
<1>1. PriceInit => IsFiniteSet(rows)
  BY FS_EmptySet DEF PriceInit
<1>2. IsFiniteSet(rows) /\ [PriceNext]_priceVars => IsFiniteSet(rows)'
  <2> SUFFICES ASSUME IsFiniteSet(rows), [PriceNext]_priceVars PROVE IsFiniteSet(rows')
    OBVIOUS
  <2>1. CASE Store
    BY <2>1, FS_AddElement DEF Store
  <2>2. CASE CleanHistory
    <3>1. Thinned(rows) \in SUBSET rows
      BY DEF Thinned
    <3> QED
      BY <2>2, <3>1, FS_Subset DEF CleanHistory
  <2>3. CASE rows' = rows
    BY <2>3
  <2> QED
    BY <2>1, <2>2, <2>3 DEF PriceNext, BeginAudit, ReadSeries, ReadLast, ReadLow, AbandonAudit,
                            PassTime, Kept, priceVars
<1> QED
  BY <1>1, <1>2, PTL DEF PriceSpec

\* RegularPricePasses, for any prices and any number of samples: the audits of a
\* shop's own regular price are never all refused (is_anomalous_price).
THEOREM RegularPricesPass ==
    ASSUME SettingsAreUsual
    PROVE  PriceSpec => RegularPricePasses
<1>1. ASSUME PriceTypeOK, IsFiniteSet(rows), step = "series", IsAnomalous(offer.price, PriceSeries)
      PROVE  4 * Cardinality({r \in PriceSeries : r.price = offer.price}) <= Cardinality(PriceSeries)
  <2>1. PriceSeries \in SUBSET rows
    BY DEF PriceSeries, Recent
  <2>2. PriceSeries \subseteq PricePoint /\ offer.price \in Nat
    BY <1>1, <2>1, PricesAssumption DEF PriceTypeOK, PricePoint
  <2>3. IsFiniteSet(PriceSeries)
    BY <1>1, <2>1, FS_Subset
  <2>4. {r \in PriceSeries : r.price = offer.price} \in SUBSET PriceSeries
    OBVIOUS
  <2>5. /\ Cardinality(PriceSeries) \in Nat
        /\ Cardinality({r \in PriceSeries : r.price = offer.price}) \in Nat
    BY <2>3, <2>4, FS_Subset, FS_CardinalityType
  <2>6. ~(4 * Cardinality({r \in PriceSeries : r.price = offer.price}) > Cardinality(PriceSeries))
    BY <1>1, <2>2, <2>3, RegularIsUsual
  <2> QED
    BY <2>5, <2>6
<1>2. PriceInv => PriceTypeOK
  BY DEF PriceInv
<1>3. PriceTypeOK /\ IsFiniteSet(rows) /\ [PriceNext]_priceVars =>
        [step = "series" /\ step' = "idle" /\ IsAnomalous(offer.price, PriceSeries) =>
           4 * Cardinality({r \in PriceSeries : r.price = offer.price})
               <= Cardinality(PriceSeries)]_priceVars
  BY <1>1
<1> QED
  BY <1>2, <1>3, InvLemma, RowsStayFew, PTL DEF PriceSpec, RegularPricePasses

-------------------------------------------------------------------------------
(* The upgrade of the schema.                                                *)

\* What initialize comes to next is behind the columns it has added, and only
\* the end of it writes the version.
ColumnsComeFirst ==
    /\ at \in {"backfill", "skipped", "version", "ready"} => "store" \in columns
    /\ at \in {"version", "ready"} => "skipped" \in columns

\* What the version rests on.
SchemaInv == SchemaTypeOK /\ ColumnsComeFirst /\ VersionIsHonest

\* A database of any age is honest before the first upgrade of this version.
LEMMA SchemaInitLemma == SchemaInit => SchemaInv
BY TargetAssumption DEF SchemaInit, SchemaInv, SchemaTypeOK, ColumnsComeFirst,
   VersionIsHonest, Detected

\* Every statement of initialize, and its death at any of them, preserves it.
LEMMA SchemaStepLemma == SchemaInv /\ [SchemaNext]_schemaVars => SchemaInv'
<1> SUFFICES ASSUME SchemaInv, [SchemaNext]_schemaVars PROVE SchemaInv'
  OBVIOUS
<1> USE TargetAssumption DEF SchemaInv, SchemaTypeOK, ColumnsComeFirst, VersionIsHonest
<1>1. CASE Start
  BY <1>1 DEF Start
<1>2. CASE AddStoreColumn
  BY <1>2 DEF AddStoreColumn
<1>3. CASE Backfill
  BY <1>3 DEF Backfill
<1>4. CASE AddSkippedColumn
  BY <1>4 DEF AddSkippedColumn
<1>5. CASE WriteVersion
  BY <1>5 DEF WriteVersion
<1>6. CASE DieUpgrading
  BY <1>6 DEF DieUpgrading
<1>7. CASE UNCHANGED schemaVars
  BY <1>7 DEF schemaVars
<1> QED
  BY <1>1, <1>2, <1>3, <1>4, <1>5, <1>6, <1>7 DEF SchemaNext

\* The version a database claims never runs ahead of its columns, wherever an
\* upgrade dies and however often it is started again (DatabaseRepository.initialize).
THEOREM VersionStaysHonest == SchemaSpec => [](SchemaTypeOK /\ VersionIsHonest)
<1>1. SchemaInv => SchemaTypeOK /\ VersionIsHonest
  BY DEF SchemaInv
<1> QED
  BY <1>1, SchemaInitLemma, SchemaStepLemma, PTL DEF SchemaSpec

-------------------------------------------------------------------------------
(* The run folders.                                                          *)

\* What is where: the types, as functions.
FolderIsTyped ==
    /\ FolderTypeOK
    /\ scratch \in [Shops \cup {"runtime"} -> SUBSET PageTasks]
    /\ alone \in [PageTasks -> BOOLEAN]
    /\ index \in [Days -> Seq(Entry)] /\ deals \in [Days -> SUBSET (Shops \cup {"all"})]
    /\ DOMAIN board = Days

\* The index of day d has an entry of page t.
IsFiled(t, d) == \E i \in 1 .. Len(index[d]) : index[d][i].page = t

\* A page has a folder once it has failed or was blocked, is filed in it, and is
\* not touched after that.
FilingIsOrdered ==
    /\ \A t \in PageTasks :
          /\ parse[t] \in {"waiting", "parsing"} => folder[t] = 0
          /\ parse[t] \in InHand \cup {"blocked"} => folder[t] \in Days
          /\ parse[t] = "over" /\ folder[t] # 0 => IsFiled(t, folder[t])
    /\ \A d \in Days : \A i \in 1 .. Len(index[d]) : parse[index[d][i].page] = "over"

\* While a page is alone in hand the notes of its parser are its own, and nobody
\* is there to add to them.
NotesAreOwn ==
    \A t \in PageTasks : alone[t] /\ parse[t] \in {"parsing"} \cup InHand =>
        scratch[t[1]] = {t} /\ \A v \in Siblings(t) : parse[v] # "parsing"

\* A store is saved when its pages are over, and the last of all when all are.
SavedAreOver ==
    /\ \A t \in PageTasks : t[1] \in saved => parse[t] = "over"
    /\ shop # "none" => shop \notin saved /\ "all" \notin saved /\ draft = NoBoard
    /\ "all" \in saved => Shops \subseteq saved
    /\ \A d \in Days : deals[d] \subseteq saved

\* The pages that the entries es are of.
PagesOf(es) == {es[i].page : i \in 1 .. Len(es)}

\* What dashboard b tells of the folder of day d, which has the entries es, the
\* deals of the stores ds and the pages that fo sends to it.
IsTrueOf(b, d, es, ds, fo) ==
    /\ b.entries \in Seq(Entry) /\ IsPrefix(b.entries, es)
    /\ b.deals \subseteq ds
    /\ \A t \in PageTasks : t[1] \in b.deals /\ fo[t] = d => t \in PagesOf(b.entries)
    /\ "all" \in b.deals =>
          /\ ds = b.deals
          /\ \A i \in 1 .. Len(es) : es[i].page[1] \in Shops => es[i].page \in PagesOf(b.entries)

\* The dashboards are true, and the one to come forgets nothing.
BoardsAreTrue ==
    /\ \A d \in Days : IsTrueOf(board[d], d, index[d], deals[d], folder)
    /\ draft # NoBoard =>
          /\ draft.on \in Days
          /\ IsTrueOf(draft, draft.on, index[draft.on], deals[draft.on], folder)
          /\ IsPrefix(board[draft.on].entries, draft.entries)
          /\ board[draft.on].deals \subseteq draft.deals

\* The entries y are the entries x, or those and one of page t.
FilesOnly(t, x, y) == y = x \/ \E e \in Entry : e.page = t /\ y = Append(x, e)

\* The folders fo and go differ for page t alone.
MovesOnly(t, fo, go) == \A u \in PageTasks \ {t} : go[u] = fo[u]

\* What the folder of a day rests on.
FolderInv ==
    /\ FolderIsTyped /\ FilingIsOrdered /\ NotesAreOwn /\ SavedAreOver /\ BoardsAreTrue
    /\ EntryLiesByItsFiles /\ LoneFailureExplainsItself

-----------------------------------------------------------------------------
\* A prefix agrees with the whole as far as it goes.
LEMMA PrefixAgrees ==
    ASSUME NEW T, NEW s \in Seq(T), NEW u \in Seq(T), IsPrefix(s, u)
    PROVE  Len(s) <= Len(u) /\ \A i \in 1 .. Len(s) : s[i] = u[i]
<1>1. Len(s) \in Nat /\ Len(u) \in Nat /\ SubSeq(s, 1, Len(s)) = s
  OBVIOUS
<1>2. Len(s) <= Len(u) /\ s = SubSeq(u, 1, Len(s))
  BY <1>1 DEF IsPrefix
<1>3. \A i \in 1 .. Len(s) : SubSeq(u, 1, Len(s))[i] = u[i]
  BY <1>1, <1>2
<1> QED
  BY <1>2, <1>3

\* What agrees as far as it goes is a prefix.
LEMMA PrefixMade ==
    ASSUME NEW T, NEW s \in Seq(T), NEW u \in Seq(T), Len(s) <= Len(u),
           \A i \in 1 .. Len(s) : s[i] = u[i]
    PROVE  IsPrefix(s, u)
<1>1. Len(s) \in Nat /\ Len(u) \in Nat /\ SubSeq(s, 1, Len(s)) = s
  OBVIOUS
<1>2. /\ SubSeq(u, 1, Len(s)) \in Seq(T) /\ Len(SubSeq(u, 1, Len(s))) = Len(s)
      /\ \A i \in 1 .. Len(s) : SubSeq(u, 1, Len(s))[i] = u[i]
  BY <1>1
<1>3. ASSUME NEW v \in Seq(T), Len(v) = Len(s), \A i \in 1 .. Len(s) : v[i] = s[i] PROVE v = s
  BY <1>3
<1> QED
  BY <1>1, <1>2, <1>3 DEF IsPrefix

\* What is appended leaves the prefixes as they are.
LEMMA PrefixStays ==
    ASSUME NEW T, NEW s \in Seq(T), NEW u \in Seq(T), NEW e \in T, IsPrefix(s, u)
    PROVE  IsPrefix(s, Append(u, e))
<1>1. Append(u, e) \in Seq(T) /\ Len(Append(u, e)) = Len(u) + 1
      /\ \A i \in 1 .. Len(u) : Append(u, e)[i] = u[i]
  OBVIOUS
<1>2. Len(s) <= Len(u) /\ \A i \in 1 .. Len(s) : s[i] = u[i]
  BY PrefixAgrees, Zenon
<1>3. Len(s) \in Nat /\ Len(u) \in Nat
  OBVIOUS
<1>4. Len(s) <= Len(Append(u, e)) /\ \A i \in 1 .. Len(s) : s[i] = Append(u, e)[i]
  BY <1>1, <1>2, <1>3
<1> QED
  BY <1>1, <1>4, PrefixMade, Zenon

\* What is appended comes last, and after what was there.
LEMMA AppendIs ==
    ASSUME NEW T, NEW u \in Seq(T), NEW v, NEW e \in T, v = Append(u, e)
    PROVE  /\ Len(v) = Len(u) + 1 /\ v[Len(u) + 1] = e /\ Len(u) + 1 \in 1 .. Len(v)
           /\ \A k \in 1 .. Len(u) : v[k] = u[k] /\ k \in 1 .. Len(v)
  OBVIOUS

\* A dashboard stays true while a page that it does not list is filed.
LEMMA TruthLasts ==
    ASSUME NEW b, NEW d, NEW x \in Seq(Entry), NEW y \in Seq(Entry), NEW ds, NEW fo, NEW go,
           NEW t \in PageTasks, IsTrueOf(b, d, x, ds, fo),
           t[1] \notin ds, "all" \in ds => t[1] \notin Shops,
           MovesOnly(t, fo, go), FilesOnly(t, x, y)
    PROVE  IsTrueOf(b, d, y, ds, go)
<1>1. b.entries \in Seq(Entry) /\ IsPrefix(b.entries, x) /\ b.deals \subseteq ds
  BY DEF IsTrueOf
<1>2. IsPrefix(b.entries, y)
  <2>1. CASE y = x
    BY <1>1, <2>1
  <2>2. ASSUME NEW e \in Entry, y = Append(x, e) PROVE IsPrefix(b.entries, y)
    BY <1>1, <2>2, PrefixStays, Zenon
  <2> QED
    BY <2>1, <2>2 DEF FilesOnly
<1>3. ASSUME NEW u \in PageTasks, u[1] \in b.deals, go[u] = d PROVE u \in PagesOf(b.entries)
  <2>1. u # t
    BY <1>1, <1>3
  <2> QED
    BY <1>3, <2>1 DEF IsTrueOf, MovesOnly
<1>4. ASSUME "all" \in b.deals, NEW i \in 1 .. Len(y), y[i].page[1] \in Shops
      PROVE  y[i].page \in PagesOf(b.entries)
  <2>1. "all" \in ds
    BY <1>1, <1>4
  <2>2. CASE y = x
    BY <1>4, <2>2 DEF IsTrueOf
  <2>3. ASSUME NEW e \in Entry, e.page = t, y = Append(x, e) PROVE y[i].page \in PagesOf(b.entries)
    <3>1. Len(y) = Len(x) + 1 /\ y[Len(y)] = e /\ \A k \in 1 .. Len(x) : y[k] = x[k]
      BY <2>3
    <3>2. i # Len(y)
      BY <1>4, <2>1, <2>3, <3>1
    <3>3. i \in 1 .. Len(x) /\ y[i] = x[i]
      BY <3>1, <3>2
    <3> QED
      BY <1>4, <3>3 DEF IsTrueOf
  <2> QED
    BY <2>2, <2>3 DEF FilesOnly
<1> QED
  BY <1>1, <1>2, <1>3, <1>4 DEF IsTrueOf

-----------------------------------------------------------------------------
\* An empty folder tells no lie.
LEMMA FolderInitLemma == FolderInit => FolderInv
<1> SUFFICES ASSUME FolderInit PROVE FolderInv
  OBVIOUS
<1>1. 1 \in Days /\ MaxDay \in Nat
  BY FolderAssumption DEF Days
<1>2. FolderIsTyped
  <2>1. \A t \in PageTasks : t[1] \in Shops \cup {"runtime"}
    BY DEF PageTasks
  <2>2. <<>> \in Seq(Entry)
    OBVIOUS
  <2> QED
    BY <1>1, <2>1, <2>2 DEF FolderInit, FolderIsTyped, FolderTypeOK, NoBoard
<1>3. FilingIsOrdered /\ NotesAreOwn /\ EntryLiesByItsFiles /\ LoneFailureExplainsItself
  BY DEF FolderInit, FilingIsOrdered, NotesAreOwn, EntryLiesByItsFiles, LoneFailureExplainsItself, InHand
<1>4. SavedAreOver
  BY DEF FolderInit, SavedAreOver
<1>5. BoardsAreTrue
  <2>1. \A d \in Days : board[d] = NoBoard /\ index[d] = <<>> /\ deals[d] = {}
    BY DEF FolderInit
  <2>2. IsPrefix(<<>>, <<>>) /\ <<>> \in Seq(Entry)
    BY DEF IsPrefix
  <2>3. draft = NoBoard
    BY DEF FolderInit
  <2> QED
    BY <2>1, <2>2, <2>3, FolderAssumption DEF BoardsAreTrue, IsTrueOf, NoBoard, PageTasks, FolderInit
<1> QED
  BY <1>2, <1>3, <1>4, <1>5 DEF FolderInv

-----------------------------------------------------------------------------
\* What a page does next, and what it leaves alone.
LEMMA PageStepIs ==
    ASSUME FolderInv, NEW t \in PageTasks, PageNext(t)
    PROVE  /\ UNCHANGED <<day, Crawled>> /\ parse[t] # "over"
           /\ parse' \in [PageTasks -> {"waiting", "parsing", "blocked", "over"} \cup InHand]
           /\ folder' \in [PageTasks -> 0 .. MaxDay] /\ kept' \in [PageTasks -> BOOLEAN]
           /\ \A u \in PageTasks \ {t} :
                 parse'[u] = parse[u] /\ folder'[u] = folder[u] /\ kept'[u] = kept[u]
<1>a. /\ parse \in [PageTasks -> {"waiting", "parsing", "blocked", "over"} \cup InHand]
      /\ folder \in [PageTasks -> 0 .. MaxDay] /\ kept \in [PageTasks -> BOOLEAN]
      /\ day \in 0 .. MaxDay
  BY FolderAssumption DEF FolderInv, FolderIsTyped, FolderTypeOK, Days
<1>1. CASE StartParse(t) \/ NoteWhileParsing(t) \/ ParseEnds(t)
  BY <1>a, <1>1 DEF StartParse, NoteWhileParsing, ParseEnds, Crawled
<1>2. CASE FailToParse(t) \/ FindBlocked(t)
  BY <1>a, <1>2 DEF FailToParse, FindBlocked, Crawled, InHand
<1>3. CASE SaveHtml(t) \/ SaveScreenshot(t) \/ FileAway(t)
  BY <1>a, <1>3 DEF SaveHtml, SaveScreenshot, FileAway, Crawled, InHand
<1>4. CASE RecordBlocked(t)
  BY <1>a, <1>4 DEF RecordBlocked, Crawled
<1> QED
  BY <1>1, <1>2, <1>3, <1>4 DEF PageNext

\* The saved stores have no page in hand, so nothing that they or a dashboard
\* rest on moves while pages do.
LEMMA SavedOutlastsPages ==
    ASSUME FolderInv, NEW t \in PageTasks, PageNext(t), index' \in [Days -> Seq(Entry)],
           \A d \in Days : FilesOnly(t, index[d], index'[d])
    PROVE  SavedAreOver' /\ BoardsAreTrue'
<1>1. /\ UNCHANGED <<shop, saved, deals, draft, board>> /\ parse[t] # "over"
      /\ \A u \in PageTasks \ {t} : parse'[u] = parse[u] /\ folder'[u] = folder[u]
  BY PageStepIs DEF Crawled
<1>2. SavedAreOver /\ BoardsAreTrue /\ index \in [Days -> Seq(Entry)]
  BY DEF FolderInv, FolderIsTyped
<1>3. t[1] \notin saved
  BY <1>1, <1>2 DEF SavedAreOver
<1>4. SavedAreOver'
  BY <1>1, <1>2, <1>3 DEF SavedAreOver
<1>5. \A d \in Days : t[1] \notin deals[d] /\ ("all" \in deals[d] => t[1] \notin Shops)
  BY <1>2, <1>3 DEF SavedAreOver
<1>6. ASSUME NEW b, NEW d \in Days, IsTrueOf(b, d, index[d], deals[d], folder)
      PROVE  IsTrueOf(b, d, index'[d], deals[d], folder')
  <2>1. index[d] \in Seq(Entry) /\ index'[d] \in Seq(Entry)
    BY <1>2
  <2>2. FilesOnly(t, index[d], index'[d])
    OBVIOUS
  <2>3. t[1] \notin deals[d]
    BY <1>5
  <2>4. "all" \in deals[d] => t[1] \notin Shops
    BY <1>5
  <2>5. MovesOnly(t, folder, folder')
    BY <1>1 DEF MovesOnly
  <2> QED
    BY <1>6, <2>1, <2>2, <2>3, <2>4, <2>5, TruthLasts, Zenon
<1>7. \A d \in Days : IsTrueOf(board[d], d, index'[d], deals[d], folder')
  BY <1>2, <1>6, Zenon DEF BoardsAreTrue
<1>8. draft # NoBoard => /\ draft.on \in Days
                        /\ IsTrueOf(draft, draft.on, index'[draft.on], deals[draft.on], folder')
                        /\ IsPrefix(board[draft.on].entries, draft.entries)
                        /\ board[draft.on].deals \subseteq draft.deals
  BY <1>2, <1>6, Zenon DEF BoardsAreTrue
<1>9. BoardsAreTrue'
  BY <1>1, <1>7, <1>8 DEF BoardsAreTrue
<1> QED
  BY <1>4, <1>9

\* While nothing is filed the entries are of pages that are over.
LEMMA FiledStaysTrue ==
    ASSUME FolderInv, NEW t \in PageTasks, PageNext(t), UNCHANGED index
    PROVE  /\ SavedAreOver' /\ BoardsAreTrue' /\ EntryLiesByItsFiles' /\ LoneFailureExplainsItself'
           /\ \A d \in Days : \A i \in 1 .. Len(index[d]) : parse'[index[d][i].page] = "over"
<1>1. /\ FilingIsOrdered /\ EntryLiesByItsFiles /\ LoneFailureExplainsItself
      /\ index \in [Days -> Seq(Entry)]
  BY DEF FolderInv, FolderIsTyped
<1>2. ASSUME NEW d \in Days, NEW i \in 1 .. Len(index[d])
      PROVE  /\ index[d][i] \in Entry /\ index[d][i].page \in PageTasks \ {t}
             /\ parse[index[d][i].page] = "over"
  <2>1. index[d] \in Seq(Entry)
    BY <1>1
  <2>2. index[d][i] \in Entry
    BY <2>1
  <2> QED
    BY <1>1, <2>2, PageStepIs DEF FilingIsOrdered, Entry
<1>3. EntryLiesByItsFiles'
  <2>1. ASSUME NEW d \in Days, NEW i \in 1 .. Len(index[d])
        PROVE  folder'[index[d][i].page] = d /\ (index[d][i].html <=> kept'[index[d][i].page])
    <3>1. /\ folder'[index[d][i].page] = folder[index[d][i].page]
          /\ kept'[index[d][i].page] = kept[index[d][i].page]
      BY <1>2, PageStepIs
    <3>2. folder[index[d][i].page] = d /\ (index[d][i].html <=> kept[index[d][i].page])
      BY <1>1, Zenon DEF EntryLiesByItsFiles
    <3> QED
      BY <3>1, <3>2
  <2> QED
    BY <2>1, Zenon DEF EntryLiesByItsFiles
<1>4. LoneFailureExplainsItself'
  BY <1>1 DEF LoneFailureExplainsItself
<1>5. \A d \in Days : \A i \in 1 .. Len(index[d]) : parse'[index[d][i].page] = "over"
  BY <1>2, PageStepIs
<1>6. SavedAreOver' /\ BoardsAreTrue'
  BY <1>1, SavedOutlastsPages DEF FilesOnly
<1> QED
  BY <1>3, <1>4, <1>5, <1>6

-----------------------------------------------------------------------------
\* The notes of a page that is alone in hand stay its own.
LEMMA NotesStayOwn ==
    ASSUME FolderInv, NEW t \in PageTasks, PageNext(t)
    PROVE  NotesAreOwn'
<1>1. /\ NotesAreOwn /\ scratch \in [Shops \cup {"runtime"} -> SUBSET PageTasks]
      /\ alone \in [PageTasks -> BOOLEAN]
      /\ parse \in [PageTasks -> {"waiting", "parsing", "blocked", "over"} \cup InHand]
  BY DEF FolderInv, FolderIsTyped, FolderTypeOK
<1>2. \A u \in PageTasks : u[1] \in Shops \cup {"runtime"}
  BY DEF PageTasks
<1> SUFFICES ASSUME NEW u \in PageTasks, alone'[u], parse'[u] \in {"parsing"} \cup InHand
             PROVE  scratch'[u[1]] = {u} /\ \A v \in Siblings(u) : parse'[v] # "parsing"
  BY DEF NotesAreOwn, Siblings
<1>3. CASE StartParse(t)
  <2>1. parse[t] = "waiting" /\ parse' = [parse EXCEPT ![t] = "parsing"]
        /\ scratch' = [scratch EXCEPT ![t[1]] = {t}]
        /\ alone'[u] = IF u = t THEN \A v \in Siblings(t) : parse[v] # "parsing"
                       ELSE alone[u] /\ ~(u \in Siblings(t) /\ parse[u] \in {"parsing"} \cup InHand)
    BY <1>3 DEF StartParse
  <2>2. CASE u = t
    <3>1. scratch'[u[1]] = {u}
      BY <1>1, <1>2, <2>1, <2>2
    <3>2. ASSUME NEW v \in Siblings(u) PROVE parse'[v] # "parsing"
      <4>1. v # t /\ v \in PageTasks
        BY <2>2, <3>2 DEF Siblings
      <4> QED
        BY <1>1, <2>1, <2>2, <3>2, <4>1
    <3> QED
      BY <3>1, <3>2
  <2>3. CASE u # t
    <3>1. parse'[u] = parse[u]
      BY <1>1, <2>1, <2>3
    <3>2. alone[u] /\ u \notin Siblings(t)
      BY <2>1, <2>3, <3>1
    <3>3. u[1] # t[1]
      BY <2>3, <3>2 DEF Siblings
    <3>4. scratch'[u[1]] = scratch[u[1]]
      BY <1>1, <1>2, <2>1, <3>3
    <3>5. scratch[u[1]] = {u} /\ \A v \in Siblings(u) : parse[v] # "parsing"
      BY <1>1, <3>1, <3>2 DEF NotesAreOwn
    <3>6. ASSUME NEW v \in Siblings(u) PROVE parse'[v] = parse[v]
      <4>1. v # t /\ v \in PageTasks
        BY <3>3, <3>6 DEF Siblings
      <4> QED
        BY <1>1, <2>1, <4>1
    <3> QED
      BY <3>4, <3>5, <3>6
  <2> QED
    BY <2>2, <2>3
<1>4. CASE NoteWhileParsing(t)
  <2>1. parse[t] = "parsing" /\ scratch' = [scratch EXCEPT ![t[1]] = @ \cup {t}]
        /\ parse' = parse /\ alone' = alone
    BY <1>4 DEF NoteWhileParsing
  <2>2. scratch[u[1]] = {u} /\ \A v \in Siblings(u) : parse[v] # "parsing"
    BY <1>1, <2>1 DEF NotesAreOwn
  <2>3. t \notin Siblings(u)
    BY <2>1, <2>2
  <2>4. u = t \/ u[1] # t[1]
    BY <2>3 DEF Siblings
  <2>5. scratch'[u[1]] = {u}
    BY <1>1, <1>2, <2>1, <2>2, <2>4
  <2> QED
    BY <2>1, <2>2, <2>5
<1>5. CASE \/ ParseEnds(t) \/ FailToParse(t) \/ SaveHtml(t) \/ SaveScreenshot(t)
          \/ FileAway(t) \/ FindBlocked(t) \/ RecordBlocked(t)
  <2>1. scratch' = scratch /\ alone' = alone
    BY <1>5 DEF ParseEnds, FailToParse, SaveHtml, SaveScreenshot, FileAway, FindBlocked, RecordBlocked
  <2>2. /\ parse'[t] # "parsing"
        /\ parse'[t] \in InHand => parse[t] \in {"parsing"} \cup InHand
    BY <1>1, <1>5 DEF ParseEnds, FailToParse, SaveHtml, SaveScreenshot, FileAway, FindBlocked,
         RecordBlocked, InHand
  <2>3. \A v \in PageTasks \ {t} : parse'[v] = parse[v]
    BY PageStepIs
  <2>4. parse[u] \in {"parsing"} \cup InHand
    BY <2>2, <2>3
  <2>5. scratch[u[1]] = {u} /\ \A v \in Siblings(u) : parse[v] # "parsing"
    BY <1>1, <2>1, <2>4 DEF NotesAreOwn
  <2>6. \A v \in Siblings(u) : parse'[v] # "parsing"
    BY <2>2, <2>3, <2>5 DEF Siblings
  <2> QED
    BY <2>1, <2>5, <2>6
<1> QED
  BY <1>3, <1>4, <1>5 DEF PageNext

\* A page that moves leaves everything of its type.
LEMMA PagesStayTyped ==
    ASSUME FolderInv, NEW t \in PageTasks, PageNext(t), index' \in [Days -> Seq(Entry)]
    PROVE  FolderIsTyped'
<1>1. /\ FolderIsTyped /\ FolderTypeOK
      /\ scratch \in [Shops \cup {"runtime"} -> SUBSET PageTasks] /\ alone \in [PageTasks -> BOOLEAN]
  BY DEF FolderInv, FolderIsTyped
<1>2. \A u \in PageTasks : u[1] \in Shops \cup {"runtime"}
  BY DEF PageTasks
<1>3. /\ UNCHANGED <<day, shop, saved, deals, draft, board>>
      /\ parse' \in [PageTasks -> {"waiting", "parsing", "blocked", "over"} \cup InHand]
      /\ folder' \in [PageTasks -> 0 .. MaxDay] /\ kept' \in [PageTasks -> BOOLEAN]
  BY PageStepIs DEF Crawled
<1>4. scratch' \in [Shops \cup {"runtime"} -> SUBSET PageTasks]
  <2>1. CASE StartParse(t)
    BY <1>1, <1>2, <2>1 DEF StartParse
  <2>2. CASE NoteWhileParsing(t)
    BY <1>1, <1>2, <2>2 DEF NoteWhileParsing
  <2>3. CASE scratch' = scratch
    BY <1>1, <2>3
  <2> QED
    BY <2>1, <2>2, <2>3 DEF PageNext, ParseEnds, FailToParse, SaveHtml, SaveScreenshot, FileAway,
         FindBlocked, RecordBlocked
<1>5. alone' \in [PageTasks -> BOOLEAN]
  <2>1. CASE StartParse(t)
    <3>1. \A u \in PageTasks :
             (IF u = t THEN \A v \in Siblings(t) : parse[v] # "parsing"
              ELSE alone[u] /\ ~(u \in Siblings(t) /\ parse[u] \in {"parsing"} \cup InHand)) \in BOOLEAN
      BY Zenon
    <3> QED
      BY <2>1, <3>1 DEF StartParse
  <2>2. CASE alone' = alone
    BY <1>1, <2>2
  <2> QED
    BY <2>1, <2>2 DEF PageNext, NoteWhileParsing, ParseEnds, FailToParse, SaveHtml, SaveScreenshot,
         FileAway, FindBlocked, RecordBlocked
<1> QED
  BY <1>1, <1>2, <1>3, <1>4, <1>5 DEF FolderIsTyped, FolderTypeOK

\* A page that moves and is not filed yet: a step of its own.
LEMMA UnfiledPageStep ==
    ASSUME FolderInv, NEW t \in PageTasks,
           \/ StartParse(t) \/ NoteWhileParsing(t) \/ ParseEnds(t) \/ FailToParse(t)
           \/ SaveHtml(t) \/ SaveScreenshot(t) \/ FindBlocked(t)
    PROVE  FolderInv'
<1>1. PageNext(t)
  BY DEF PageNext
<1>2. UNCHANGED index
  BY DEF StartParse, NoteWhileParsing, ParseEnds, FailToParse, SaveHtml, SaveScreenshot, FindBlocked
<1>3. /\ FilingIsOrdered /\ FolderIsTyped /\ FolderTypeOK /\ index \in [Days -> Seq(Entry)]
      /\ parse \in [PageTasks -> {"waiting", "parsing", "blocked", "over"} \cup InHand]
      /\ folder \in [PageTasks -> 0 .. MaxDay] /\ day \in Days
  BY DEF FolderInv, FolderIsTyped, FolderTypeOK
<1>4. 0 \notin Days
  BY FolderAssumption DEF Days
<1>5. FolderIsTyped'
  BY <1>1, <1>2, <1>3, PagesStayTyped
<1>6. NotesAreOwn'
  BY <1>1, NotesStayOwn
<1>7. /\ SavedAreOver' /\ BoardsAreTrue' /\ EntryLiesByItsFiles' /\ LoneFailureExplainsItself'
      /\ \A d \in Days : \A i \in 1 .. Len(index[d]) : parse'[index[d][i].page] = "over"
  BY <1>1, <1>2, FiledStaysTrue
<1>8. ASSUME NEW u \in PageTasks
      PROVE  /\ parse'[u] \in {"waiting", "parsing"} => folder'[u] = 0
             /\ parse'[u] \in InHand \cup {"blocked"} => folder'[u] \in Days
             /\ parse'[u] = "over" /\ folder'[u] # 0 => IsFiled(u, folder'[u])
  <2>1. CASE u # t
    BY <1>1, <1>3, <2>1, PageStepIs DEF FilingIsOrdered
  <2>2. CASE u = t
    <3>1. CASE StartParse(t) \/ NoteWhileParsing(t) \/ ParseEnds(t)
      BY <1>3, <2>2, <3>1 DEF FilingIsOrdered, StartParse, NoteWhileParsing, ParseEnds, InHand
    <3>2. CASE FailToParse(t) \/ FindBlocked(t)
      BY <1>3, <2>2, <3>2 DEF FilingIsOrdered, FailToParse, FindBlocked, InHand
    <3>3. CASE SaveHtml(t) \/ SaveScreenshot(t)
      BY <1>3, <2>2, <3>3 DEF FilingIsOrdered, SaveHtml, SaveScreenshot, InHand
    <3> QED
      BY <3>1, <3>2, <3>3
  <2> QED
    BY <2>1, <2>2
<1>9. FilingIsOrdered'
  BY <1>2, <1>7, <1>8 DEF FilingIsOrdered, IsFiled
<1> QED
  BY <1>5, <1>6, <1>7, <1>9 DEF FolderInv

-----------------------------------------------------------------------------
\* A page is filed once, in its own folder, with the notes of its parser.
LEMMA FilingIs ==
    ASSUME FolderInv, NEW t \in PageTasks, FileAway(t) \/ RecordBlocked(t)
    PROVE  /\ folder[t] \in Days /\ folder' = folder /\ parse'[t] = "over"
           /\ \E e \in Entry : /\ e.page = t /\ (e.html <=> kept'[t])
                               /\ e.why = "failed" /\ e.lone => e.notes = {t}
                               /\ index' = [index EXCEPT ![folder[t]] = Append(@, e)]
<1>1. /\ FilingIsOrdered /\ NotesAreOwn /\ kept \in [PageTasks -> BOOLEAN]
      /\ scratch \in [Shops \cup {"runtime"} -> SUBSET PageTasks] /\ alone \in [PageTasks -> BOOLEAN]
      /\ parse \in [PageTasks -> {"waiting", "parsing", "blocked", "over"} \cup InHand]
  BY DEF FolderInv, FolderIsTyped, FolderTypeOK
<1>2. t[1] \in Shops \cup {"runtime"}
  BY DEF PageTasks
<1>3. CASE FileAway(t)
  <2>1. folder[t] \in Days /\ folder' = folder /\ parse'[t] = "over" /\ kept' = kept
        /\ index' = [index EXCEPT ![folder[t]] = Append(@, Listed(t, "failed"))]
    BY <1>1, <1>3 DEF FileAway, FilingIsOrdered, InHand
  <2>2. Listed(t, "failed") = [page |-> t, why |-> "failed", html |-> kept[t],
                               notes |-> scratch[t[1]], lone |-> alone[t]]
    BY DEF Listed
  <2>3. alone[t] => scratch[t[1]] = {t}
    BY <1>1, <1>3 DEF FileAway, NotesAreOwn, InHand
  <2>4. Listed(t, "failed") \in Entry
    BY <1>1, <1>2, <2>2 DEF Entry
  <2>5. /\ Listed(t, "failed").page = t /\ (Listed(t, "failed").html <=> kept'[t])
        /\ Listed(t, "failed").lone => Listed(t, "failed").notes = {t}
    BY <2>1, <2>2, <2>3
  <2> QED
    BY <2>1, <2>4, <2>5
<1>4. CASE RecordBlocked(t)
  <2>1. folder[t] \in Days /\ folder' = folder /\ parse'[t] = "over"
    BY <1>1, <1>4 DEF RecordBlocked, FilingIsOrdered
  <2>2. PICK written \in BOOLEAN :
          /\ kept' = [kept EXCEPT ![t] = written]
          /\ index' = [index EXCEPT ![folder[t]] =
                         Append(@, [Listed(t, "blocked") EXCEPT !.html = written])]
    BY <1>4 DEF RecordBlocked
  <2>3. [Listed(t, "blocked") EXCEPT !.html = written]
          = [page |-> t, why |-> "blocked", html |-> written, notes |-> {}, lone |-> alone[t]]
    BY DEF Listed
  <2> DEFINE e == [page |-> t, why |-> "blocked", html |-> written, notes |-> {}, lone |-> alone[t]]
  <2>4. e \in Entry
    BY <1>1 DEF Entry
  <2>5. e.page = t /\ (e.html <=> kept'[t]) /\ e.why # "failed"
    BY <1>1, <2>2
  <2>6. index' = [index EXCEPT ![folder[t]] = Append(@, e)]
    BY <2>2, <2>3
  <2> QED
    BY <2>1, <2>4, <2>5, <2>6
<1> QED
  BY <1>3, <1>4

\* A page that is filed.
LEMMA FiledPageStep ==
    ASSUME FolderInv, NEW t \in PageTasks, FileAway(t) \/ RecordBlocked(t)
    PROVE  FolderInv'
<1>1. PageNext(t)
  BY DEF PageNext
<1>2. /\ FilingIsOrdered /\ EntryLiesByItsFiles /\ LoneFailureExplainsItself
      /\ index \in [Days -> Seq(Entry)]
  BY DEF FolderInv, FolderIsTyped
<1>3. /\ folder[t] \in Days /\ folder' = folder /\ parse'[t] = "over" /\ parse[t] # "over"
      /\ \A u \in PageTasks \ {t} : parse'[u] = parse[u] /\ kept'[u] = kept[u]
  BY <1>1, FilingIs, PageStepIs
<1>4. PICK e \in Entry : /\ e.page = t /\ (e.html <=> kept'[t])
                         /\ e.why = "failed" /\ e.lone => e.notes = {t}
                         /\ index' = [index EXCEPT ![folder[t]] = Append(@, e)]
  BY FilingIs, Zenon
<1>a. e \in Entry /\ e.page = t /\ index' = [index EXCEPT ![folder[t]] = Append(@, e)]
  BY <1>4, Zenon
<1>d. e \in Entry
  BY <1>4, Zenon
<1>b. e.why = "failed" /\ e.lone => e.notes = {t}
  BY <1>4, Zenon
<1>c. e.html <=> kept'[t]
  BY <1>4, Zenon
<1>5. index' \in [Days -> Seq(Entry)]
  BY <1>2, <1>3, <1>a
<1>6. \A d \in Days : index'[d] = IF d = folder[t] THEN Append(index[d], e) ELSE index[d]
  BY <1>2, <1>3, <1>a
<1>7. \A d \in Days : FilesOnly(t, index[d], index'[d])
  BY <1>a, <1>6 DEF FilesOnly
<1>8. FolderIsTyped' /\ NotesAreOwn' /\ SavedAreOver' /\ BoardsAreTrue'
  BY <1>1, <1>5, <1>7, PagesStayTyped, NotesStayOwn, SavedOutlastsPages
<1>9. ASSUME NEW d \in Days, NEW i \in 1 .. Len(index'[d])
      PROVE  \/ index'[d][i] = e /\ d = folder[t]
             \/ /\ i \in 1 .. Len(index[d]) /\ index'[d][i] = index[d][i]
                /\ index[d][i].page \in PageTasks \ {t} /\ parse[index[d][i].page] = "over"
  <2>1. index[d] \in Seq(Entry)
    BY <1>2
  <2>2. ASSUME i \in 1 .. Len(index[d])
        PROVE  index[d][i].page \in PageTasks \ {t} /\ parse[index[d][i].page] = "over"
    <3>1. index[d][i] \in Entry
      BY <2>1, <2>2
    <3> QED
      BY <1>2, <1>3, <2>2, <3>1 DEF FilingIsOrdered, Entry
  <2>3. CASE d = folder[t]
    <3>1. Len(index'[d]) = Len(index[d]) + 1 /\ index'[d][Len(index[d]) + 1] = e
          /\ \A k \in 1 .. Len(index[d]) : index'[d][k] = index[d][k]
      <4>1. index'[d] = Append(index[d], e)
        BY <1>6, <2>3
      <4> QED
        BY <1>d, <2>1, <4>1
    <3>2. i = Len(index[d]) + 1 \/ i \in 1 .. Len(index[d])
      BY <2>1, <3>1
    <3> QED
      BY <2>2, <2>3, <3>1, <3>2
  <2>4. CASE d # folder[t]
    BY <1>6, <2>2, <2>4
  <2> QED
    BY <2>3, <2>4
<1>10. FilingIsOrdered'
  <2>1. \A d \in Days : \A i \in 1 .. Len(index'[d]) : parse'[index'[d][i].page] = "over"
    BY <1>3, <1>a, <1>9
  <2>2. ASSUME NEW u \in PageTasks, NEW d \in Days, IsFiled(u, d) PROVE IsFiled(u, d)'
    <3>1. PICK i \in 1 .. Len(index[d]) : index[d][i].page = u
      BY <2>2 DEF IsFiled
    <3>2. index[d] \in Seq(Entry)
      BY <1>2
    <3>3. i \in 1 .. Len(index'[d]) /\ index'[d][i] = index[d][i]
      <4>1. CASE d = folder[t]
        <5>1. index'[d] = Append(index[d], e)
          BY <1>6, <4>1
        <5> QED
          BY <1>d, <3>1, <3>2, <5>1
      <4> QED
        BY <1>6, <4>1
    <3> QED
      BY <3>1, <3>3 DEF IsFiled
  <2>3. IsFiled(t, folder[t])'
    <3>1. index[folder[t]] \in Seq(Entry)
      BY <1>2, <1>3
    <3>2. Len(index[folder[t]]) + 1 \in 1 .. Len(index'[folder[t]])
          /\ index'[folder[t]][Len(index[folder[t]]) + 1] = e
      <4>1. index'[folder[t]] = Append(index[folder[t]], e)
        BY <1>3, <1>6
      <4> QED
        BY <1>d, <3>1, <4>1
    <3> QED
      BY <1>3, <1>a, <3>2 DEF IsFiled
  <2>4. \A u \in PageTasks : folder[u] \in 0 .. MaxDay
    BY DEF FolderInv, FolderIsTyped, FolderTypeOK
  <2>5. \A u \in PageTasks : folder[u] # 0 => folder[u] \in Days
    BY <2>4, FolderAssumption DEF Days
  <2>6. ASSUME NEW u \in PageTasks
        PROVE  /\ parse'[u] \in {"waiting", "parsing"} => folder'[u] = 0
               /\ parse'[u] \in InHand \cup {"blocked"} => folder'[u] \in Days
               /\ parse'[u] = "over" /\ folder'[u] # 0 => IsFiled(u, folder[u])'
    <3>1. CASE u = t
      BY <1>3, <2>3, <3>1 DEF InHand
    <3>2. CASE u # t
      BY <1>2, <1>3, <2>2, <2>5, <3>2 DEF FilingIsOrdered
    <3> QED
      BY <3>1, <3>2
  <2> QED
    BY <2>1, <2>6 DEF FilingIsOrdered
<1>11. EntryLiesByItsFiles'
  <2>1. ASSUME NEW d \in Days, NEW i \in 1 .. Len(index'[d])
        PROVE  folder'[index'[d][i].page] = d
    BY <1>2, <1>3, <1>a, <1>9 DEF EntryLiesByItsFiles
  <2>2. ASSUME NEW d \in Days, NEW i \in 1 .. Len(index'[d])
        PROVE  index'[d][i].html <=> kept'[index'[d][i].page]
    <3>1. CASE index'[d][i] = e
      BY <1>a, <1>c, <3>1, Zenon
    <3>2. CASE /\ i \in 1 .. Len(index[d]) /\ index'[d][i] = index[d][i]
               /\ index[d][i].page \in PageTasks \ {t}
      <4>1. index[d][i].html <=> kept[index[d][i].page]
        BY <1>2, <3>2, Zenon DEF EntryLiesByItsFiles
      <4>2. kept'[index[d][i].page] = kept[index[d][i].page]
        BY <1>3, <3>2, Zenon
      <4> QED
        BY <3>2, <4>1, <4>2, Zenon
    <3> QED
      BY <1>9, <3>1, <3>2, Zenon
  <2> QED
    BY <2>1, <2>2, Zenon DEF EntryLiesByItsFiles
<1>12. LoneFailureExplainsItself'
  BY <1>2, <1>a, <1>b, <1>9 DEF LoneFailureExplainsItself
<1> QED
  BY <1>8, <1>10, <1>11, <1>12 DEF FolderInv

-----------------------------------------------------------------------------
\* What holds of the pages and of their entries holds while neither moves.
LEMMA PagesAtRest ==
    ASSUME FolderInv, UNCHANGED <<parse, folder, kept, scratch, alone, index>>
    PROVE  FilingIsOrdered' /\ NotesAreOwn' /\ EntryLiesByItsFiles' /\ LoneFailureExplainsItself'
BY DEF FolderInv, FilingIsOrdered, IsFiled, NotesAreOwn, Siblings, EntryLiesByItsFiles,
       LoneFailureExplainsItself

\* A sequence is a prefix of itself.
LEMMA PrefixOfItself ==
    ASSUME NEW T, NEW s \in Seq(T)
    PROVE  IsPrefix(s, s)
<1>1. Len(s) <= Len(s) /\ \A i \in 1 .. Len(s) : s[i] = s[i]
  OBVIOUS
<1> QED
  BY <1>1, PrefixMade, Zenon

\* A store is saved: its deals are added, and the dashboard that is built lists
\* every page of the stores that it has the deals of.
LEMMA DealsAreSaved ==
    ASSUME FolderInv, NEW name \in Shops \cup {"all"}, SaveDeals(name),
           draft = NoBoard, "all" \notin saved, saved' = saved \cup {name},
           \A t \in PageTasks : t[1] = name => parse[t] = "over",
           UNCHANGED <<day, parse, folder, kept, scratch, alone, index, board>>
    PROVE  /\ deals' \in [Days -> SUBSET (Shops \cup {"all"})]
           /\ \A d \in Days : deals'[d] \subseteq saved'
           /\ draft' # NoBoard => draft'.on \in Days /\ draft'.deals \subseteq Shops \cup {"all"}
           /\ BoardsAreTrue'
<1>1. /\ deals \in [Days -> SUBSET (Shops \cup {"all"})] /\ index \in [Days -> Seq(Entry)] /\ day \in Days
      /\ FilingIsOrdered /\ SavedAreOver /\ BoardsAreTrue
  BY DEF FolderInv, FolderIsTyped, FolderTypeOK
<1>2. \A d \in Days : deals'[d] = deals[d] \/ (d = day /\ deals'[d] = deals[d] \cup {name})
  BY <1>1 DEF SaveDeals
<1>3. deals' \in [Days -> SUBSET (Shops \cup {"all"})]
  <2>1. \/ deals' = deals \/ deals' = [deals EXCEPT ![day] = @ \cup {name}]
    BY DEF SaveDeals
  <2>2. CASE deals' = deals
    BY <1>1, <2>2
  <2>3. CASE deals' = [deals EXCEPT ![day] = @ \cup {name}]
    BY <1>1, <2>3
  <2> QED
    BY <2>1, <2>2, <2>3
<1>4. \A d \in Days : deals[d] \subseteq saved /\ deals'[d] \subseteq saved'
  BY <1>1, <1>2 DEF SavedAreOver
<1>5. ASSUME NEW d \in Days PROVE IsTrueOf(board[d], d, index[d], deals'[d], folder)
  <2>1. IsTrueOf(board[d], d, index[d], deals[d], folder)
    BY <1>1 DEF BoardsAreTrue
  <2>2. board[d].deals \subseteq deals[d] /\ deals[d] \subseteq deals'[d]
    BY <1>2, <2>1 DEF IsTrueOf
  <2>3. "all" \notin board[d].deals
    BY <1>4, <2>2
  <2> QED
    BY <2>1, <2>2, <2>3 DEF IsTrueOf
<1>6. \/ draft' = NoBoard
      \/ draft' = Built(day, deals[day] \cup {name}) /\ deals'[day] = deals[day] \cup {name}
  BY <1>1 DEF SaveDeals
<1>7. ASSUME draft' # NoBoard
      PROVE  /\ draft'.on \in Days /\ draft'.deals \subseteq Shops \cup {"all"}
             /\ IsTrueOf(draft', draft'.on, index[draft'.on], deals'[draft'.on], folder)
             /\ IsPrefix(board[draft'.on].entries, draft'.entries)
             /\ board[draft'.on].deals \subseteq draft'.deals
  <2>1. /\ draft'.on = day /\ draft'.entries = index[day]
        /\ draft'.deals = deals[day] \cup {name} /\ deals'[day] = deals[day] \cup {name}
    BY <1>6, <1>7 DEF Built
  <2>2. index[day] \in Seq(Entry) /\ IsPrefix(index[day], index[day])
    BY <1>1, PrefixOfItself
  <2>3. ASSUME NEW t \in PageTasks, t[1] \in deals[day] \cup {name}, folder[t] = day
        PROVE  t \in PagesOf(index[day])
    <3>1. parse[t] = "over"
      BY <1>1, <1>4, <2>3 DEF SavedAreOver
    <3>2. folder[t] # 0
      BY <1>1, <2>3, FolderAssumption DEF Days
    <3>3. IsFiled(t, day)
      BY <1>1, <2>3, <3>1, <3>2 DEF FilingIsOrdered
    <3> QED
      BY <3>3 DEF IsFiled, PagesOf
  <2>4. \A i \in 1 .. Len(index[day]) : index[day][i].page \in PagesOf(index[day])
    BY DEF PagesOf
  <2>5. IsTrueOf(draft', day, index[day], deals'[day], folder)
    BY <2>1, <2>2, <2>3, <2>4 DEF IsTrueOf
  <2>6. IsTrueOf(board[day], day, index[day], deals[day], folder)
    BY <1>1 DEF BoardsAreTrue
  <2>7. IsPrefix(board[day].entries, index[day]) /\ board[day].deals \subseteq deals[day]
    BY <2>6 DEF IsTrueOf
  <2> QED
    BY <1>1, <1>3, <2>1, <2>5, <2>7
<1>8. BoardsAreTrue'
  <2>1. \A d \in Days : IsTrueOf(board'[d], d, index'[d], deals'[d], folder')
    BY <1>5
  <2>2. draft' # NoBoard =>
          /\ draft'.on \in Days
          /\ IsTrueOf(draft', draft'.on, index'[draft'.on], deals'[draft'.on], folder')
          /\ IsPrefix(board'[draft'.on].entries, draft'.entries)
          /\ board'[draft'.on].deals \subseteq draft'.deals
    BY <1>7
  <2> QED
    BY <2>1, <2>2, Zenon DEF BoardsAreTrue, NoBoard
<1> QED
  BY <1>3, <1>4, <1>7, <1>8

\* The crawl opens a store, is done with one, saves all, or the day ends.
LEMMA CrawlStep ==
    ASSUME FolderInv, (\E s \in Shops : OpenShop(s)) \/ CloseShop \/ SaveAll \/ Midnight
    PROVE  FolderInv'
<1>1. /\ FolderIsTyped /\ FolderTypeOK /\ SavedAreOver /\ BoardsAreTrue
      /\ shop \in Shops \cup {"none"} /\ saved \subseteq Shops \cup {"all"} /\ day \in Days
  BY DEF FolderInv, FolderIsTyped, FolderTypeOK
<1>2. MaxDay \in Nat /\ "none" \notin Shops /\ "all" \notin Shops /\ "runtime" \notin Shops
  BY FolderAssumption
<1>3. UNCHANGED <<parse, folder, kept, scratch, alone, index, board>>
  BY DEF OpenShop, CloseShop, SaveAll, Midnight
<1>4. FilingIsOrdered' /\ NotesAreOwn' /\ EntryLiesByItsFiles' /\ LoneFailureExplainsItself'
  BY <1>3, PagesAtRest
<1>5. CASE \E s \in Shops : OpenShop(s)
  <2>1. PICK s \in Shops : OpenShop(s)
    BY <1>5
  <2>2. /\ shop' = s /\ s \notin saved /\ "all" \notin saved /\ draft = NoBoard
        /\ UNCHANGED <<day, saved, deals, draft, board>>
    BY <2>1 DEF OpenShop
  <2>a. shop' \in Shops \cup {"none"}
    BY <2>1, <2>2
  <2>b. UNCHANGED <<day, saved, deals, draft>>
    BY <2>2
  <2>3. FolderIsTyped'
    BY <1>1, <1>3, <2>a, <2>b DEF FolderIsTyped, FolderTypeOK
  <2>4. SavedAreOver'
    BY <1>1, <1>3, <2>2 DEF SavedAreOver
  <2>5. BoardsAreTrue'
    BY <1>1, <1>3, <2>2 DEF BoardsAreTrue, IsTrueOf, PagesOf
  <2> QED
    BY <1>4, <2>3, <2>4, <2>5 DEF FolderInv
<1>6. CASE CloseShop
  <2>1. /\ shop # "none" /\ shop \in Shops /\ SaveDeals(shop) /\ shop' = "none" /\ day' = day
        /\ saved' = saved \cup {shop}
        /\ \A t \in PageTasks : t[1] = shop => parse[t] = "over"
    BY <1>1, <1>6 DEF CloseShop
  <2>2. draft = NoBoard /\ "all" \notin saved
    BY <1>1, <2>1 DEF SavedAreOver
  <2>3. /\ deals' \in [Days -> SUBSET (Shops \cup {"all"})]
        /\ \A d \in Days : deals'[d] \subseteq saved'
        /\ draft' # NoBoard => draft'.on \in Days /\ draft'.deals \subseteq Shops \cup {"all"}
        /\ BoardsAreTrue'
    BY <1>3, <2>1, <2>2, DealsAreSaved
  <2>4. FolderIsTyped'
    BY <1>1, <1>2, <1>3, <2>1, <2>3 DEF FolderIsTyped, FolderTypeOK, NoBoard, Days
  <2>5. SavedAreOver'
    BY <1>1, <1>2, <1>3, <2>1, <2>2, <2>3 DEF SavedAreOver
  <2> QED
    BY <1>4, <2>3, <2>4, <2>5 DEF FolderInv
<1>7. CASE SaveAll
  <2>1. /\ shop = "none" /\ draft = NoBoard /\ Shops \subseteq saved /\ "all" \notin saved
        /\ SaveDeals("all") /\ saved' = saved \cup {"all"} /\ shop' = shop /\ day' = day
    BY <1>7 DEF SaveAll
  <2>2. \A t \in PageTasks : t[1] # "all"
    BY <1>2 DEF PageTasks
  <2>3. /\ deals' \in [Days -> SUBSET (Shops \cup {"all"})]
        /\ \A d \in Days : deals'[d] \subseteq saved'
        /\ draft' # NoBoard => draft'.on \in Days /\ draft'.deals \subseteq Shops \cup {"all"}
        /\ BoardsAreTrue'
    BY <1>3, <2>1, <2>2, DealsAreSaved
  <2>4. FolderIsTyped'
    BY <1>1, <1>2, <1>3, <2>1, <2>3 DEF FolderIsTyped, FolderTypeOK, NoBoard, Days
  <2>5. SavedAreOver'
    BY <1>1, <1>2, <1>3, <2>1, <2>2, <2>3 DEF SavedAreOver
  <2> QED
    BY <1>4, <2>3, <2>4, <2>5 DEF FolderInv
<1>8. CASE Midnight
  <2>1. day' = day + 1 /\ day < MaxDay /\ UNCHANGED <<shop, saved, deals, draft, board>>
    BY <1>8 DEF Midnight
  <2>2. day' \in Days
    BY <1>1, <1>2, <2>1 DEF Days
  <2>3. FolderIsTyped'
    BY <1>1, <1>3, <2>1, <2>2 DEF FolderIsTyped, FolderTypeOK
  <2>4. SavedAreOver'
    BY <1>1, <1>3, <2>1 DEF SavedAreOver
  <2>5. BoardsAreTrue'
    BY <1>1, <1>3, <2>1, SMTT(90) DEF BoardsAreTrue, IsTrueOf, PagesOf
  <2> QED
    BY <1>4, <2>3, <2>4, <2>5 DEF FolderInv
<1> QED
  BY <1>5, <1>6, <1>7, <1>8

\* The dashboard that was built takes its place.
LEMMA DashboardStep ==
    ASSUME FolderInv, WriteDashboard
    PROVE  FolderInv'
<1>1. /\ FolderIsTyped /\ FolderTypeOK /\ SavedAreOver /\ BoardsAreTrue /\ DOMAIN board = Days
      /\ \A b \in {draft} \cup {board[d] : d \in Days} :
            b.on \in 0 .. MaxDay /\ b.deals \subseteq Shops \cup {"all"}
  BY DEF FolderInv, FolderIsTyped, FolderTypeOK
<1>2. /\ UNCHANGED <<parse, folder, kept, scratch, alone, index>>
      /\ UNCHANGED <<day, shop, saved, deals>>
      /\ draft # NoBoard /\ draft' = NoBoard /\ board' = [board EXCEPT ![draft.on] = draft]
  BY DEF WriteDashboard
<1>3. FilingIsOrdered' /\ NotesAreOwn' /\ EntryLiesByItsFiles' /\ LoneFailureExplainsItself'
  BY <1>2, PagesAtRest
<1>4. \A d \in Days : board'[d] = IF d = draft.on THEN draft ELSE board[d]
  BY <1>1, <1>2
<1>5. FolderIsTyped'
  <2>1. \A b \in {draft'} \cup {board'[d] : d \in Days} :
            b.on \in 0 .. MaxDay /\ b.deals \subseteq Shops \cup {"all"}
    BY <1>1, <1>2, <1>4, FolderAssumption DEF NoBoard
  <2>2. DOMAIN board' = Days
    BY <1>1, <1>2
  <2> QED
    BY <1>1, <1>2, <2>1, <2>2 DEF FolderIsTyped, FolderTypeOK
<1>6. SavedAreOver'
  BY <1>1, <1>2 DEF SavedAreOver
<1>7. BoardsAreTrue'
  <2>1. ASSUME NEW d \in Days PROVE IsTrueOf(board'[d], d, index[d], deals[d], folder)
    <3>1. CASE d = draft.on
      BY <1>1, <1>2, <1>4, <3>1, Zenon DEF BoardsAreTrue
    <3>2. CASE d # draft.on
      BY <1>1, <1>4, <3>2, Zenon DEF BoardsAreTrue
    <3> QED
      BY <3>1, <3>2
  <2>2. \A d \in Days : IsTrueOf(board'[d], d, index'[d], deals'[d], folder')
    BY <1>2, <2>1
  <2> QED
    BY <1>2, <2>2, Zenon DEF BoardsAreTrue, NoBoard
<1> QED
  BY <1>3, <1>5, <1>6, <1>7 DEF FolderInv

\* A step keeps the folder true, and no dashboard forgets.
LEMMA FolderStep ==
    ASSUME FolderInv, [FolderNext]_folderVars
    PROVE  FolderInv' /\ \A d \in Days : /\ IsPrefix(board[d].entries, board'[d].entries)
                                         /\ board[d].deals \subseteq board'[d].deals
<1>1. FolderInv'
  <2>1. ASSUME NEW t \in PageTasks, PageNext(t) PROVE FolderInv'
    BY <2>1, UnfiledPageStep, FiledPageStep DEF PageNext
  <2>2. CASE UNCHANGED folderVars
    <3>1. UNCHANGED <<parse, folder, kept, scratch, alone, index>>
      BY <2>2 DEF folderVars
    <3>2. FilingIsOrdered' /\ NotesAreOwn' /\ EntryLiesByItsFiles' /\ LoneFailureExplainsItself'
      BY <3>1, PagesAtRest
    <3> QED
      BY <2>2, <3>2, SMTT(90) DEF folderVars, FolderInv, FolderIsTyped, FolderTypeOK, SavedAreOver, BoardsAreTrue,
         IsTrueOf, PagesOf
  <2> QED
    BY <2>1, <2>2, CrawlStep, DashboardStep DEF FolderNext
<1>2. BoardsAreTrue /\ DOMAIN board = Days
  BY DEF FolderInv, FolderIsTyped
<1>3. \A d \in Days : board[d].entries \in Seq(Entry)
  BY <1>2 DEF BoardsAreTrue, IsTrueOf
<1>4. CASE WriteDashboard
  <2>1. \A d \in Days : board'[d] = IF d = draft.on THEN draft ELSE board[d]
    BY <1>2, <1>4 DEF WriteDashboard
  <2>2. IsPrefix(board[draft.on].entries, draft.entries) /\ board[draft.on].deals \subseteq draft.deals
    BY <1>2, <1>4 DEF WriteDashboard, BoardsAreTrue
  <2>3. \A d \in Days : IsPrefix(board[d].entries, board[d].entries)
    BY <1>3, PrefixOfItself
  <2> QED
    BY <1>1, <2>1, <2>2, <2>3
<1>5. CASE UNCHANGED board
  BY <1>1, <1>3, <1>5, PrefixOfItself
<1>6. ~WriteDashboard => UNCHANGED board
  <2>1. ASSUME NEW t \in PageTasks, PageNext(t) PROVE UNCHANGED board
    BY <2>1, PageStepIs DEF Crawled
  <2>2. (\E s \in Shops : OpenShop(s)) \/ CloseShop \/ SaveAll \/ Midnight => UNCHANGED board
    BY DEF OpenShop, CloseShop, SaveAll, Midnight
  <2>3. UNCHANGED folderVars => UNCHANGED board
    BY DEF folderVars
  <2> QED
    BY <2>1, <2>2, <2>3 DEF FolderNext
<1> QED
  BY <1>4, <1>5, <1>6

\* What the boards rest on makes them know their stores.
LEMMA BoardsKnow ==
    ASSUME FolderInv
    PROVE  DashboardKnowsItsStores
BY DEF FolderInv, BoardsAreTrue, IsTrueOf, PagesOf, DashboardKnowsItsStores

\* FolderIsTrue, for any stores, pages of a store and days: over midnight, with
\* the pages of a store in hand at the same time and the runtime's beside them,
\* an entry lies by the files it names, a failure that was alone is explained by
\* its own notes, and a dashboard lists what its stores had and forgets nothing.
THEOREM FolderStaysTrue == FolderSpec => []FolderTypeOK /\ FolderIsTrue
<1>1. FolderInit => FolderInv
  BY FolderInitLemma
<1>2. FolderInv /\ [FolderNext]_folderVars => FolderInv'
  BY FolderStep
<1>3. FolderInv => /\ FolderTypeOK
                   /\ EntryLiesByItsFiles /\ LoneFailureExplainsItself /\ DashboardKnowsItsStores
  BY BoardsKnow DEF FolderInv, FolderIsTyped
<1>4. FolderInv /\ [FolderNext]_folderVars =>
        [\A d \in Days : /\ IsPrefix(board[d].entries, board'[d].entries)
                         /\ board[d].deals \subseteq board'[d].deals]_folderVars
  BY FolderStep
<1> QED
  BY <1>1, <1>2, <1>3, <1>4, PTL DEF FolderSpec, FolderIsTrue, DashboardForgetsNothing

-------------------------------------------------------------------------------
(* A product page.                                                           *)

\* What is made of page p.
Parsed(p) == CASE p.store = "weee"    -> ReadWeee(p)
               [] p.store = "target"  -> ReadTarget(p)
               [] p.store = "ranch99" -> ReadRanch(p)
               [] OTHER               -> ReadSchema(p)

\* Verdict v of page p is sound; hold tells whether there is a verdict.
IsSkipped(p, v) ==
    /\ p.store = "weee" /\ p.sources # <<>> =>
          (Head(p.sources).stock = "out" /\ Head(p.sources).by # "embedded" => v.end = "skip")
    /\ p.store = "target" /\ (p.urlKey \/ p.textKey) => (p.first.out => v.end = "skip")
    /\ p.store \in {"safeway", "walmart"} /\ v.end # "missed" =>
          ((\A i \in 1 .. Len(p.offers) : p.offers[i].stock = "out") <=> v.end = "skip")
    /\ p.store = "ranch99" => (p.stock = "out" => v.end \in {"skip", "missed", "error"})

\* An offer v of page p is of one product, but for a stranger's.
IsOfOne(p, v) ==
    v.end = "offer" =>
        \/ v.title = v.price /\ v.price = v.key
        \/ p.store = "weee" /\ Payload(p).whose = "other"
           /\ ~(Payload(p).id /\ Payload(p).priced /\ Payload(p).named)
        \/ p.store = "target" /\ ~p.urlKey
        \/ p.store = "safeway" /\ p.whose = "other" /\ ~p.id
        \/ p.store = "walmart" /\ p.whose = "other" /\ p.urlKey

\* The original price of v goes with its price.
GoesWith(v) ==
    /\ v.before > 0 => v.before > v.amount
    /\ v.beforeFrom # "none" => v.beforeFrom = v.from

\* A verdict has the fields a parser may give it, and an offer all of its own.
IsVerdict(v) ==
    /\ v.end \in {"none", "offer", "skip", "missed", "error"}
    /\ {v.title, v.price, v.key} \subseteq {"none", "own", "other"}
    /\ {v.amount, v.before} \subseteq Amount
    /\ v.end = "offer" => "none" \notin {v.title, v.price, v.key}

\* An original price is a price.
LEMMA OriginalIsAmount ==
    ASSUME NEW regular \in Amount, NEW amount
    PROVE  Original(regular, amount) \in Amount
BY DEF Original, Amount

\* An ending shows nothing.
LEMMA EndingIs ==
    ASSUME NEW how
    PROVE  /\ Ending(how).end = how /\ Ending(how).before = 0 /\ Ending(how).beforeFrom = "none"
           /\ GoesWith(Ending(how))
           /\ how \in {"skip", "missed", "error"} => IsVerdict(Ending(how))
BY DEF Ending, Blank, GoesWith, IsVerdict, Amount

\* The product that a Weee page is read by is its own or another's.
LEMMA PayloadIs ==
    ASSUME NEW w \in WeeePages
    PROVE  Payload(w).whose \in {"own", "other"}
<1>1. ASSUME NEW by, NEW whose \in SUBSET {"own", "other"}, NEW named, NEW bases, NEW inners,
             NEW p \in Product(by, whose, named, bases, inners)
      PROVE  p.whose \in {"own", "other"}
  BY <1>1 DEF Product
<1>2. ASSUME NEW p \in NextProducts \cup LdProducts \cup EmbeddedProducts PROVE p.whose \in {"own", "other"}
  BY <1>1, <1>2 DEF NextProducts, LdProducts, EmbeddedProducts
<1>3. ASSUME NEW p \in Product("search", {"own", "other"}, {TRUE}, {FALSE}, {FALSE})
      PROVE  p.whose \in {"own", "other"}
  BY <1>1, <1>3
<1>4. w.sources \in Sources
  BY DEF WeeePages
<1>5. w.sources # <<>> => Head(w.sources).whose \in {"own", "other"}
  <2>1. CASE \E p \in NextProducts \cup LdProducts \cup EmbeddedProducts : w.sources = <<p>>
    BY <1>2, <2>1
  <2>2. CASE \E p \in Product("search", {"own", "other"}, {TRUE}, {FALSE}, {FALSE}), q \in LdProducts :
                w.sources = <<p, q>>
    BY <1>3, <2>2
  <2> QED
    BY <1>4, <2>1, <2>2 DEF Sources
<1> QED
  BY <1>5 DEF Payload, NoProduct

\* Weee.
LEMMA WeeeIsSound ==
    ASSUME NEW p \in WeeePages
    PROVE  /\ p.store = "weee" /\ IsVerdict(ReadWeee(p))
           /\ IsSkipped(p, ReadWeee(p)) /\ IsOfOne(p, ReadWeee(p)) /\ GoesWith(ReadWeee(p))
<1>1. p.store = "weee"
  BY DEF WeeePages
<1>2. Payload(p).whose \in {"own", "other"}
  BY PayloadIs
<1> DEFINE v == ReadWeee(p)
           title == IF Payload(p).named THEN Payload(p).whose
                    ELSE IF p.h1 \/ p.head THEN "own" ELSE "none"
           prices == WeeePrices(p)
<1>3. \/ WeeeSoldOut(p) /\ v = Ending("skip")
      \/ ~WeeeSoldOut(p) /\ v = Ending("missed")
      \/ /\ ~WeeeSoldOut(p) /\ ~(prices.from = "none" \/ title = "none" \/ WeeeKey(p) = "none")
         /\ v = [end |-> "offer", title |-> title, key |-> WeeeKey(p),
                 price |-> IF prices.from = "dom" THEN "own" ELSE Payload(p).whose,
                 from |-> prices.from, beforeFrom |-> prices.beforeFrom, amount |-> 0, before |-> 0]
  BY DEF ReadWeee, Blank
<1>4. p.sources # <<>> /\ Head(p.sources).stock = "out" /\ Head(p.sources).by # "embedded" => WeeeSoldOut(p)
  BY DEF WeeeSoldOut, Payload
<1>5. IsSkipped(p, v)
  BY <1>1, <1>3, <1>4, EndingIs DEF IsSkipped
<1>6. /\ prices.beforeFrom # "none" /\ prices.from # "none" => prices.beforeFrom = prices.from
      /\ prices.from # "dom" /\ prices.from # "none" => Payload(p).priced \/ Payload(p).inner
      /\ Payload(p).priced => prices.from = "payload"
  BY DEF WeeePrices
<1>7. WeeeKey(p) # "none" => WeeeKey(p) = IF Payload(p).id THEN Payload(p).whose ELSE "own"
  BY DEF WeeeKey
<1>8. title # "none" => title = IF Payload(p).named THEN Payload(p).whose ELSE "own"
  OBVIOUS
<1> HIDE DEF v, title, prices
<1>9. IsOfOne(p, v)
  BY <1>1, <1>2, <1>3, <1>6, <1>7, <1>8, EndingIs DEF IsOfOne
<1>10. GoesWith(v)
  BY <1>3, <1>6, EndingIs DEF GoesWith
<1>11. IsVerdict(v)
  BY <1>2, <1>3, <1>7, <1>8, EndingIs DEF IsVerdict, Amount
<1> QED
  BY <1>1, <1>5, <1>9, <1>10, <1>11 DEF v

\* Target.
LEMMA TargetIsSound ==
    ASSUME NEW p \in TargetPages
    PROVE  /\ p.store = "target" /\ IsVerdict(ReadTarget(p))
           /\ IsSkipped(p, ReadTarget(p)) /\ IsOfOne(p, ReadTarget(p)) /\ GoesWith(ReadTarget(p))
<1>1. p.store = "target"
  BY DEF TargetPages
<1> DEFINE v == ReadTarget(p)
           r == TargetPrice(p)
<1>2. \/ p.first.out /\ (p.urlKey \/ p.textKey) /\ v = Ending("skip")
      \/ ~(p.first.out /\ (p.urlKey \/ p.textKey)) /\ v = Ending("missed")
      \/ /\ ~p.first.out
         /\ v = [end |-> "offer", title |-> "own", price |-> "own", key |-> IF p.urlKey THEN "own" ELSE "other",
                 from |-> r.from, beforeFrom |-> "none", amount |-> r.amount,
                 before |-> Original(r.text.regular, r.amount)]
  BY DEF ReadTarget, TargetSoldOut, Blank
<1>3. IsSkipped(p, v)
  BY <1>1, <1>2, EndingIs DEF IsSkipped
<1>4. IsOfOne(p, v)
  BY <1>1, <1>2, EndingIs DEF IsOfOne
<1>5. Original(r.text.regular, r.amount) > 0 => Original(r.text.regular, r.amount) > r.amount
  BY DEF Original
<1>6. GoesWith(v)
  BY <1>2, <1>5, EndingIs DEF GoesWith
<1>7. r.amount \in Amount /\ Original(r.text.regular, r.amount) \in Amount
  <2>1. p.first \in Text /\ p.later \in Text /\ p.shown \in Amount /\ p.shownLater \in Amount
    BY DEF TargetPages
  <2>2. \A t \in Text : t.price \in Amount /\ t.regular \in Amount
    BY DEF Text
  <2>3. r.amount \in Amount /\ r.text \in {p.first, p.later}
    BY <2>1, <2>2 DEF TargetPrice, ParseOne, Amount
  <2> QED
    BY <2>1, <2>2, <2>3, OriginalIsAmount
<1>8. IsVerdict(v)
  <2> HIDE DEF v, r
  <2> QED
    BY <1>2, <1>7, EndingIs DEF IsVerdict
<1> QED
  BY <1>1, <1>3, <1>4, <1>6, <1>8

\* Safeway and Walmart.
LEMMA SchemaIsSound ==
    ASSUME NEW p \in SchemaPages
    PROVE  /\ p.store \in {"safeway", "walmart"} /\ IsVerdict(ReadSchema(p))
           /\ IsSkipped(p, ReadSchema(p)) /\ IsOfOne(p, ReadSchema(p)) /\ GoesWith(ReadSchema(p))
<1>1. p.store \in {"safeway", "walmart"} /\ p.whose \in {"own", "other"}
  BY DEF SchemaPages
<1> DEFINE v == ReadSchema(p)
           allOut == \A i \in 1 .. Len(p.offers) : p.offers[i].stock = "out"
<1>2. \/ SchemaSoldOut(p) /\ v = Ending("skip")
      \/ v = Ending("missed")
      \/ /\ ~SchemaSoldOut(p) /\ SchemaPrice(p) # 0 /\ SchemaKey(p) # "none"
         /\ v = [end |-> "offer", title |-> p.whose, price |-> p.whose, key |-> SchemaKey(p),
                 from |-> "offer", beforeFrom |-> "none", amount |-> SchemaPrice(p), before |-> 0]
  BY DEF ReadSchema, Blank
<1>3. SchemaSoldOut(p) => allOut
  BY DEF SchemaSoldOut
<1>4. SchemaPrice(p) # 0 => p.offers # <<>>
  <2>1. p.offers = <<>> => Priced(p) = {}
    BY DEF Priced
  <2> QED
    BY <2>1 DEF SchemaPrice
<1>5. ~SchemaSoldOut(p) /\ p.offers # <<>> => ~allOut
  BY DEF SchemaSoldOut
<1>6. SchemaKey(p) # "none" =>
         SchemaKey(p) = IF p.id /\ (p.store = "safeway" \/ ~p.urlKey) THEN p.whose ELSE "own"
  BY DEF SchemaKey
<1> HIDE DEF v, allOut
<1>7. v.end # "missed" => (allOut <=> v.end = "skip")
  BY <1>2, <1>3, <1>4, <1>5, EndingIs
<1>8. IsSkipped(p, v)
  BY <1>1, <1>7 DEF IsSkipped, allOut
<1>9. IsOfOne(p, v)
  <2>1. CASE v.end # "offer"
    BY <2>1 DEF IsOfOne
  <2>2. CASE v.end = "offer"
    <3>1. v.title = p.whose /\ v.price = p.whose /\ v.key = SchemaKey(p) /\ SchemaKey(p) # "none"
      BY <1>2, <2>2, EndingIs
    <3>2. p.whose = "own" => SchemaKey(p) = p.whose
      BY <3>1 DEF SchemaKey
    <3>3. p.store = "safeway" => SchemaKey(p) = p.whose \/ ~p.id
      BY DEF SchemaKey
    <3>4. p.store = "walmart" => SchemaKey(p) = p.whose \/ p.urlKey
      BY <3>1 DEF SchemaKey
    <3> QED
      BY <1>1, <3>1, <3>2, <3>3, <3>4 DEF IsOfOne
  <2> QED
    BY <2>1, <2>2
<1>10. GoesWith(v)
  BY <1>2, EndingIs DEF GoesWith
<1>11. SchemaPrice(p) \in Amount
  <2>1. Priced(p) \in SUBSET Nat /\ \A i \in Priced(p) : p.offers[i].price \in Amounts
    BY DEF Priced
  <2>2. CASE Priced(p) = {}
    BY <2>2 DEF SchemaPrice, Amount
  <2>3. CASE Priced(p) # {}
    <3>1. \E i \in Priced(p) : \A j \in Priced(p) : i <= j
      BY <2>1, <2>3, NatHasMin
    <3>2. PICK i \in Priced(p) : SchemaPrice(p) = p.offers[i].price
      BY <2>3, <3>1 DEF SchemaPrice
    <3> QED
      BY <2>1, <3>2 DEF Amount
  <2> QED
    BY <2>2, <2>3
<1>12. IsVerdict(v)
  BY <1>1, <1>2, <1>6, <1>11, EndingIs DEF IsVerdict, Amount
<1> QED
  BY <1>1, <1>8, <1>9, <1>10, <1>12 DEF v

\* 99 Ranch.
LEMMA RanchIsSound ==
    ASSUME NEW p \in RanchPages
    PROVE  /\ p.store = "ranch99" /\ IsVerdict(ReadRanch(p))
           /\ IsSkipped(p, ReadRanch(p)) /\ IsOfOne(p, ReadRanch(p)) /\ GoesWith(ReadRanch(p))
<1>1. p.store = "ranch99"
  BY DEF RanchPages
<1> DEFINE v == ReadRanch(p)
<1>2. \/ \E how \in {"missed", "error", "skip"} : v = Ending(how)
      \/ /\ p.stock # "out" /\ RanchPrice(p) # Odd /\ p.retail # Odd
         /\ v = [end |-> "offer", title |-> "own", price |-> "own", key |-> "own", from |-> "variant",
                 beforeFrom |-> "none", amount |-> RanchPrice(p), before |-> Original(p.retail, RanchPrice(p))]
  BY DEF ReadRanch, Blank
<1>3. Original(p.retail, RanchPrice(p)) > 0 => Original(p.retail, RanchPrice(p)) > RanchPrice(p)
  BY DEF Original
<1> HIDE DEF v
<1>4. IsSkipped(p, v)
  BY <1>1, <1>2, EndingIs DEF IsSkipped
<1>5. IsOfOne(p, v)
  BY <1>1, <1>2, EndingIs DEF IsOfOne
<1>6. GoesWith(v)
  BY <1>2, <1>3, EndingIs DEF GoesWith
<1>7. /\ RanchPrice(p) # Odd => RanchPrice(p) \in Amount
      /\ p.retail # Odd => Original(p.retail, RanchPrice(p)) \in Amount
  <2>1. p.sale \in Amount \cup {Odd} /\ p.price \in Amount /\ p.retail \in Amount \cup {Odd}
    BY DEF RanchPages
  <2> QED
    BY <2>1, OriginalIsAmount DEF RanchPrice
<1>8. IsVerdict(v)
  BY <1>2, <1>7, EndingIs DEF IsVerdict, Amount
<1> QED
  BY <1>1, <1>4, <1>5, <1>6, <1>8 DEF v

\* The verdict is that of the page, once it is read.
ReadInv ==
    /\ page \in WeeePages \cup TargetPages \cup SchemaPages \cup RanchPages
    /\ hold \in {"open", "read", "closed"} /\ captured \in BOOLEAN
    /\ hold = "open" => verdict = Blank
    /\ hold # "open" => verdict = Parsed(page)

\* A step keeps it.
LEMMA ReadStep == ReadInv /\ [ReadNext]_readVars => ReadInv'
<1> SUFFICES ASSUME ReadInv, [ReadNext]_readVars PROVE ReadInv'
  OBVIOUS
<1>1. CASE ReadPage
  <2>1. hold' = "read" /\ page' = page /\ captured' = captured /\ verdict' = Parsed(page)
    BY <1>1, Zenon DEF ReadPage, Parsed
  <2>2. Parsed(page)' = Parsed(page)
    BY <2>1
  <2> QED
    BY <2>1, <2>2 DEF ReadInv
<1>2. CASE LeavePage
  <2>1. /\ hold = "read" /\ hold' = "closed" /\ page' = page /\ verdict' = verdict
        /\ captured' \in BOOLEAN
    BY <1>2 DEF LeavePage
  <2> QED
    BY <2>1 DEF ReadInv
<1>3. CASE UNCHANGED readVars
  BY <1>3 DEF readVars, ReadInv
<1> QED
  BY <1>1, <1>2, <1>3 DEF ReadNext

\* A verdict of a page is sound, and before there is one nothing is claimed.
LEMMA ParsedIsSound ==
    ASSUME NEW p \in WeeePages \cup TargetPages \cup SchemaPages \cup RanchPages
    PROVE  IsVerdict(Parsed(p)) /\ IsSkipped(p, Parsed(p)) /\ IsOfOne(p, Parsed(p)) /\ GoesWith(Parsed(p))
<1>1. CASE p \in WeeePages
  BY <1>1, WeeeIsSound DEF Parsed
<1>2. CASE p \in TargetPages
  BY <1>2, TargetIsSound DEF Parsed
<1>3. CASE p \in SchemaPages
  BY <1>3, SchemaIsSound DEF Parsed
<1>4. CASE p \in RanchPages
  BY <1>4, RanchIsSound DEF Parsed
<1> QED
  BY <1>1, <1>2, <1>3, <1>4

\* ReadingIsSound, for any amounts and any number of sellers: whichever places of
\* a page a parser finds first, a page that says it is sold out is skipped, an
\* offer is of one product but for the strangers it names, and an original price
\* goes with the price; and a verdict has the fields it may have.
THEOREM ReadingStaysSound == ReadSpec => [](ReadTypeOK /\ ReadingIsSound)
<1>1. ReadInit => ReadInv
  BY DEF ReadInit, ReadInv
<1>2. ReadInv => ReadingIsSound
  <2> SUFFICES ASSUME ReadInv PROVE ReadingIsSound
    OBVIOUS
  <2>1. CASE hold = "open"
    BY <2>1 DEF ReadInv, Blank, ReadingIsSound, SoldOutIsSkipped, OfferIsOfOneProduct, OriginalGoesWithPrice
  <2>2. CASE hold # "open"
    <3>1. IsSkipped(page, verdict) /\ IsOfOne(page, verdict) /\ GoesWith(verdict)
      BY <2>2, ParsedIsSound DEF ReadInv
    <3> QED
      BY <3>1, Zenon DEF IsSkipped, IsOfOne, GoesWith, ReadingIsSound, SoldOutIsSkipped,
         OfferIsOfOneProduct, OriginalGoesWithPrice
  <2> QED
    BY <2>1, <2>2
<1>3. ReadInv => ReadTypeOK
  <2> SUFFICES ASSUME ReadInv PROVE ReadTypeOK
    OBVIOUS
  <2>1. IsVerdict(verdict)
    <3>1. CASE hold = "open"
      BY <3>1 DEF ReadInv, Blank, IsVerdict, Amount
    <3>2. CASE hold # "open"
      BY <3>2, ParsedIsSound DEF ReadInv
    <3> QED
      BY <3>1, <3>2
  <2> QED
    BY <2>1, Zenon DEF ReadInv, IsVerdict, ReadTypeOK
<1> QED
  BY <1>1, <1>2, <1>3, ReadStep, PTL DEF ReadSpec

-------------------------------------------------------------------------------
(* The narrative.                                                            *)

\* The first elements of a sequence.
LEMMA FirstAre ==
    ASSUME NEW T, NEW s \in Seq(T), NEW n \in Nat, n <= Len(s)
    PROVE  /\ SubSeq(s, 1, n) \in Seq(T) /\ Len(SubSeq(s, 1, n)) = n
           /\ \A i \in 1 .. n : SubSeq(s, 1, n)[i] = s[i]
OBVIOUS

\* A list that is as long as the limit or shorter is not cut, and what is cut
\* keeps its first elements.
LEMMA UpToIs ==
    ASSUME NEW T, NEW s \in Seq(T), NEW n \in Nat
    PROVE  /\ UpTo(n, s) \in Seq(T) /\ Len(UpTo(n, s)) <= n /\ Len(UpTo(n, s)) <= Len(s)
           /\ Len(s) <= n => UpTo(n, s) = s
           /\ \A i \in 1 .. Len(UpTo(n, s)) : UpTo(n, s)[i] = s[i]
           /\ \A i \in 1 .. Len(s) : i <= n => i \in 1 .. Len(UpTo(n, s))
<1>1. Len(s) \in Nat /\ SubSeq(s, 1, Len(s)) = s
  OBVIOUS
<1>2. CASE Len(s) < n
  BY <1>1, <1>2 DEF UpTo
<1>3. CASE ~(Len(s) < n)
  <2>1. n <= Len(s)
    BY <1>1, <1>3
  <2>2. PICK v : v = SubSeq(s, 1, n)
    OBVIOUS
  <2>3. v \in Seq(T) /\ Len(v) = n /\ \A i \in 1 .. n : v[i] = s[i]
    BY <2>1, <2>2, FirstAre
  <2>4. Len(s) <= n => v = s
    <3>1. ASSUME NEW k \in Nat, NEW m \in Nat, k <= m, m <= k PROVE m = k
      BY <3>1
    <3>2. Len(s) <= n => n = Len(s)
      BY <1>1, <2>1, <3>1, Zenon
    <3> QED
      BY <1>1, <2>2, <3>2, Zenon
  <2>5. /\ Len(v) <= n /\ Len(v) <= Len(s) /\ \A i \in 1 .. Len(v) : v[i] = s[i]
        /\ \A i \in 1 .. Len(s) : i <= n => i \in 1 .. Len(v)
    BY <1>1, <2>1, <2>3
  <2>6. UpTo(n, s) = v
    BY <1>3, <2>2 DEF UpTo
  <2> QED
    BY <2>3, <2>4, <2>5, <2>6, Zenon
<1> QED
  BY <1>2, <1>3

\* What is short enough is kept whole.
LEMMA ShortIsWhole ==
    ASSUME NEW T, NEW s \in Seq(T), NEW n \in Nat, Len(s) <= n
    PROVE  UpTo(n, s) = s
  BY UpToIs

\* A line of a request: its kind and its number.
RankedLines == Kinds \X Nat

\* A line of a kind.
LEMMA LineIs ==
    ASSUME NEW kind \in Kinds
    PROVE  Line(kind) \in RankedLines /\ Line(kind)[1] = kind
BY DEF Line, RankedLines

\* The numbered lines of a kind.
LEMMA NumberedIs ==
    ASSUME NEW kind \in Kinds, NEW n \in Nat
    PROVE  /\ Numbered(kind, n) \in Seq(RankedLines) /\ Len(Numbered(kind, n)) = n
           /\ \A i \in 1 .. n : Numbered(kind, n)[i] = <<kind, i>>
<1>1. \A i \in 1 .. n : <<kind, i>> \in RankedLines
  BY DEF RankedLines
<1>2. Numbered(kind, n) \in [1 .. n -> RankedLines]
  BY <1>1 DEF Numbered
<1>3. ASSUME NEW T, NEW f \in [1 .. n -> T] PROVE f \in Seq(T) /\ Len(f) = n
  OBVIOUS
<1>4. \A i \in 1 .. n : Numbered(kind, n)[i] = <<kind, i>>
  BY DEF Numbered
<1> QED
  BY <1>2, <1>3, <1>4

\* A request fits its envelope, and the risks it anchors are among the cautions
\* that the envelope keeps.
FitsEnvelope(r) ==
    /\ r.refs \in Seq(RankedLines) /\ Len(r.refs) <= 6 /\ r.refs # <<>>
    /\ r.bullets \in Seq(RankedLines) /\ Len(r.bullets) <= 4
    /\ r.cautions \in Seq(RankedLines)
    /\ \A i \in Nat : <<"risk", i>> \in ToSet(r.refs) => <<"risk", i>> \in ToSet(UpTo(4, r.cautions))

\* The first m of them.
LEMMA KeptAre ==
    ASSUME NEW kind \in Kinds, NEW n \in Nat, NEW m \in Nat
    PROVE  /\ UpTo(m, Numbered(kind, n)) \in Seq(RankedLines)
           /\ Len(UpTo(m, Numbered(kind, n))) <= m /\ Len(UpTo(m, Numbered(kind, n))) <= n
           /\ \A i \in 1 .. n : i <= m => i \in 1 .. Len(UpTo(m, Numbered(kind, n)))
           /\ \A i \in 1 .. Len(UpTo(m, Numbered(kind, n))) : UpTo(m, Numbered(kind, n))[i] = <<kind, i>>
<1> DEFINE s == Numbered(kind, n)
           u == UpTo(m, s)
<1>1. s \in Seq(RankedLines) /\ Len(s) = n /\ \A i \in 1 .. n : s[i] = <<kind, i>>
  BY NumberedIs
<1> HIDE DEF s
<1>2. /\ u \in Seq(RankedLines) /\ Len(u) <= m /\ Len(u) <= n
      /\ \A i \in 1 .. Len(u) : u[i] = s[i]
      /\ \A i \in 1 .. n : i <= m => i \in 1 .. Len(u)
  BY <1>1, UpToIs
<1> HIDE DEF u
<1>3. \A i \in 1 .. Len(u) : u[i] = <<kind, i>>
  <2> TAKE i \in 1 .. Len(u)
  <2>1. Len(u) \in Nat /\ i \in 1 .. n
    BY <1>2
  <2> QED
    BY <1>1, <1>2, <2>1
<1> QED
  BY <1>2, <1>3 DEF u, s

\* The references fit, and the risks among them are among the first four.
Anchored(refs, n) ==
    /\ refs \in Seq(RankedLines) /\ Len(refs) <= 6 /\ refs # <<>>
    /\ \A i \in Nat : <<"risk", i>> \in ToSet(refs) =>
          <<"risk", i>> \in ToSet(UpTo(4, Numbered("risk", n)))

\* Two lines, an optional third, and the first three risks.
LEMMA AnchorsFit ==
    ASSUME NEW a \in RankedLines, NEW b \in RankedLines, NEW c \in RankedLines, NEW third \in BOOLEAN,
           NEW n \in Nat, "risk" \notin {a[1], b[1], c[1]}
    PROVE  Anchored(<<a, b>> \o If(third, <<c>>) \o UpTo(3, Numbered("risk", n)), n)
<1> DEFINE top == If(third, <<c>>)
           risks == UpTo(3, Numbered("risk", n))
           held == UpTo(4, Numbered("risk", n))
<1>1. top \in Seq(RankedLines) /\ Len(top) <= 1 /\ \A i \in 1 .. Len(top) : top[i] = c
  BY DEF If
<1>2. "risk" \in Kinds
  BY DEF Kinds
<1>3. /\ risks \in Seq(RankedLines) /\ Len(risks) <= 3 /\ Len(risks) <= n
      /\ \A i \in 1 .. Len(risks) : risks[i] = <<"risk", i>>
  BY <1>2, KeptAre
<1>4. /\ held \in Seq(RankedLines) /\ Len(held) <= n
      /\ \A i \in 1 .. n : i <= 4 => i \in 1 .. Len(held)
      /\ \A i \in 1 .. Len(held) : held[i] = <<"risk", i>>
  BY <1>2, KeptAre
<1> HIDE DEF top, risks, held
<1> DEFINE refs == <<a, b>> \o top \o risks
<1>5. refs \in Seq(RankedLines) /\ Len(refs) = 2 + Len(top) + Len(risks)
      /\ \A k \in 1 .. Len(refs) :
            \/ refs[k] \in {a, b} \/ \E j \in 1 .. Len(top) : refs[k] = top[j]
            \/ \E j \in 1 .. Len(risks) : refs[k] = risks[j]
  <2> DEFINE head == <<a, b>> \o top
  <2>1. head \in Seq(RankedLines) /\ Len(head) = 2 + Len(top)
        /\ \A k \in 1 .. Len(head) : head[k] \in {a, b} \/ \E j \in 1 .. Len(top) : head[k] = top[j]
    BY <1>1
  <2> HIDE DEF head
  <2>2. head \o risks \in Seq(RankedLines) /\ Len(head \o risks) = Len(head) + Len(risks)
        /\ \A k \in 1 .. Len(head \o risks) :
              (k \in 1 .. Len(head) /\ (head \o risks)[k] = head[k])
              \/ \E j \in 1 .. Len(risks) : (head \o risks)[k] = risks[j]
    <3>1. /\ head \o risks \in Seq(RankedLines) /\ Len(head \o risks) = Len(head) + Len(risks)
          /\ \A k \in 1 .. Len(head) : (head \o risks)[k] = head[k]
          /\ \A k \in 1 .. Len(head \o risks) : k > Len(head) =>
                k - Len(head) \in 1 .. Len(risks) /\ (head \o risks)[k] = risks[k - Len(head)]
      BY <1>3, <2>1
    <3> QED
      BY <2>1, <3>1
  <2>3. refs = head \o risks
    BY DEF head
  <2>4. Len(refs) = 2 + Len(top) + Len(risks)
    <3>1. Len(top) \in Nat /\ Len(risks) \in Nat
      BY <1>1, <1>3
    <3> QED
      BY <2>1, <2>2, <2>3, <3>1
  <2>5. ASSUME NEW k \in 1 .. Len(head \o risks)
        PROVE  \/ (head \o risks)[k] \in {a, b} \/ \E j \in 1 .. Len(top) : (head \o risks)[k] = top[j]
               \/ \E j \in 1 .. Len(risks) : (head \o risks)[k] = risks[j]
    <3>1. CASE \E j \in 1 .. Len(risks) : (head \o risks)[k] = risks[j]
      BY <3>1
    <3>2. CASE k \in 1 .. Len(head) /\ (head \o risks)[k] = head[k]
      BY <2>1, <3>2
    <3> QED
      BY <2>2, <3>1, <3>2
  <2> HIDE DEF refs
  <2> QED
    BY <2>2, <2>3, <2>4, <2>5, Zenon
<1> HIDE DEF refs
<1>6. Len(refs) <= 6 /\ refs # <<>>
  BY <1>1, <1>3, <1>5
<1>7. ASSUME NEW i \in Nat, <<"risk", i>> \in ToSet(refs) PROVE <<"risk", i>> \in ToSet(held)
  <2>1. PICK k \in 1 .. Len(refs) : refs[k] = <<"risk", i>>
    BY <1>5, <1>7 DEF ToSet
  <2>2. <<"risk", i>> \notin {a, b, c}
    <3>1. <<"risk", i>>[1] = "risk"
      OBVIOUS
    <3> QED
      BY <3>1
  <2>3. PICK j \in 1 .. Len(risks) : <<"risk", i>> = risks[j]
    BY <1>1, <1>5, <2>1, <2>2
  <2>4. i = j
    BY <1>3, <2>3
  <2>5. i \in 1 .. n /\ i <= 4
    BY <1>3, <2>4
  <2>6. i \in 1 .. Len(held) /\ held[i] = <<"risk", i>>
    BY <1>4, <2>5
  <2> QED
    <3>1. DOMAIN held = 1 .. Len(held)
      BY <1>4
    <3> QED
      BY <2>6, <3>1, Zenon DEF ToSet
<1>8. refs = <<a, b>> \o If(third, <<c>>) \o UpTo(3, Numbered("risk", n)) /\ held = UpTo(4, Numbered("risk", n))
  BY DEF refs, top, risks, held
<1>9. Anchored(refs, n)
  BY <1>5, <1>6, <1>7, <1>8, Zenon DEF Anchored
<1> QED
  BY <1>8, <1>9, Zenon

\* Two bullets and an optional third.
LEMMA BulletsFit ==
    ASSUME NEW a \in RankedLines, NEW b \in RankedLines, NEW c \in RankedLines, NEW third \in BOOLEAN
    PROVE  <<a, b>> \o If(third, <<c>>) \in Seq(RankedLines) /\ Len(<<a, b>> \o If(third, <<c>>)) <= 4
BY DEF If

\* The inbox: one line and four monitors, among which no risk is.
LEMMA InboxFits ==
    ASSUME NEW tasks \in Nat, NEW groups \in Nat, NEW reasons \in Nat
    PROVE  FitsEnvelope(InboxRequest(tasks, groups, reasons))
<1> DEFINE first == UpTo(2, Numbered("task", tasks))
           others == UpTo(2, Numbered("group", groups))
           top == first \o others
<1>1. "task" \in Kinds /\ "group" \in Kinds
  BY DEF Kinds
<1>2. /\ first \in Seq(RankedLines) /\ Len(first) <= 2 /\ Len(first) <= tasks
      /\ \A i \in 1 .. Len(first) : first[i] = <<"task", i>>
  BY <1>1, KeptAre
<1>3. /\ others \in Seq(RankedLines) /\ Len(others) <= 2 /\ Len(others) <= groups
      /\ \A i \in 1 .. Len(others) : others[i] = <<"group", i>>
  BY <1>1, KeptAre
<1> HIDE DEF first, others
<1>4. top \in Seq(RankedLines) /\ Len(top) <= 4 /\ \A k \in 1 .. Len(top) : top[k][1] \in {"task", "group"}
  <2>1. /\ top \in Seq(RankedLines) /\ Len(top) = Len(first) + Len(others)
        /\ \A k \in 1 .. Len(first) : top[k] = first[k]
        /\ \A k \in 1 .. Len(top) : k > Len(first) =>
              k - Len(first) \in 1 .. Len(others) /\ top[k] = others[k - Len(first)]
    BY <1>2, <1>3
  <2>2. \A k \in 1 .. Len(first) : first[k][1] = "task"
    BY <1>2
  <2>3. \A k \in 1 .. Len(others) : others[k][1] = "group"
    BY <1>3
  <2> QED
    BY <1>2, <1>3, <2>1, <2>2, <2>3
<1> HIDE DEF top
<1>5. UpTo(4, top) = top /\ UpTo(3, top) \in Seq(RankedLines) /\ Len(UpTo(3, top)) <= 3
  BY <1>4, UpToIs
<1> DEFINE r == InboxRequest(tasks, groups, reasons)
<1>6. /\ r.refs = <<Line("size")>> \o top /\ r.bullets = <<Line("counts")>> \o UpTo(3, top)
      /\ r.cautions = Numbered("cause", IF reasons < Len(top) THEN reasons ELSE Len(top))
  BY <1>5 DEF InboxRequest, top, first, others
<1> HIDE DEF r
<1>7. Line("size") \in RankedLines /\ Line("counts") \in RankedLines /\ Line("size")[1] = "size"
  BY DEF Line, RankedLines, Kinds
<1>8. /\ r.refs \in Seq(RankedLines) /\ Len(r.refs) <= 6 /\ r.refs # <<>>
      /\ \A k \in 1 .. Len(r.refs) : r.refs[k][1] # "risk"
  <2>1. /\ <<Line("size")>> \o top \in Seq(RankedLines) /\ Len(<<Line("size")>> \o top) = 1 + Len(top)
        /\ (<<Line("size")>> \o top)[1] = Line("size")
        /\ \A k \in 1 .. Len(<<Line("size")>> \o top) : k > 1 =>
              k - 1 \in 1 .. Len(top) /\ (<<Line("size")>> \o top)[k] = top[k - 1]
    BY <1>4, <1>7
  <2>2. Len(top) \in Nat /\ Len(top) <= 4 /\ \A k \in 1 .. Len(top) : top[k][1] # "risk"
    BY <1>4
  <2> DEFINE u == <<Line("size")>> \o top
  <2>3. /\ u \in Seq(RankedLines) /\ Len(u) = 1 + Len(top) /\ u[1] = Line("size")
        /\ \A k \in 1 .. Len(u) : k > 1 => k - 1 \in 1 .. Len(top) /\ u[k] = top[k - 1]
    BY <2>1
  <2>4. r.refs = u
    BY <1>6
  <2> HIDE DEF u
  <2>5. \A k \in 1 .. Len(u) : u[k][1] # "risk"
    BY <1>7, <2>2, <2>3
  <2>6. Len(u) <= 6 /\ u # <<>>
    BY <2>2, <2>3
  <2> QED
    BY <2>3, <2>4, <2>5, <2>6
<1>9. r.bullets \in Seq(RankedLines) /\ Len(r.bullets) <= 4
  BY <1>5, <1>6, <1>7
<1>10. r.cautions \in Seq(RankedLines)
  <2>1. (IF reasons < Len(top) THEN reasons ELSE Len(top)) \in Nat
    BY <1>4
  <2>2. "cause" \in Kinds
    BY DEF Kinds
  <2> QED
    BY <1>6, <2>1, <2>2, NumberedIs
<1>11. ASSUME NEW i \in Nat PROVE <<"risk", i>> \notin ToSet(r.refs)
  <2>1. <<"risk", i>>[1] = "risk"
    OBVIOUS
  <2> QED
    BY <1>8, <2>1 DEF ToSet
<1> QED
  BY <1>8, <1>9, <1>10, <1>11 DEF FitsEnvelope, r

\* Every request fits.
LEMMA RequestsFit ==
    ASSUME NEW r \in Requests
    PROVE  FitsEnvelope(r)
<1>1. ASSUME NEW pair \in BOOLEAN, NEW risks \in 0 .. MaxRisks PROVE FitsEnvelope(CompareRequest(pair, risks))
  <2>a. risks \in Nat /\ "risk" \in Kinds
    BY NarrativeAssumption DEF Kinds
  <2>1. risks \in Nat /\ Numbered("risk", risks) \in Seq(RankedLines)
    BY <2>a, NumberedIs
  <2>2. /\ {Line("next step"), Line("action"), Line("pair"), Line("resolved"), Line("score")} \subseteq RankedLines
        /\ "risk" \notin {Line("next step")[1], Line("action")[1], Line("pair")[1]}
    <3>1. {"next step", "action", "pair", "resolved", "score"} \subseteq Kinds
      BY DEF Kinds
    <3> QED
      BY <3>1, LineIs
  <2>3. Anchored(<<Line("next step"), Line("action")>> \o If(pair, <<Line("pair")>>)
                  \o UpTo(3, Numbered("risk", risks)), risks)
    BY <2>1, <2>2, AnchorsFit
  <2>4. LET bullets == <<Line("resolved"), Line("next step")>> \o If(pair, <<Line("score")>>)
        IN  bullets \in Seq(RankedLines) /\ Len(bullets) <= 4
    BY <2>2, BulletsFit
  <2> QED
    BY <2>1, <2>3, <2>4, Zenon DEF FitsEnvelope, Anchored, CompareRequest
<1>2. ASSUME NEW w \in BOOLEAN, NEW runner \in BOOLEAN, NEW risks \in 0 .. MaxRisks
      PROVE  FitsEnvelope(GroupRequest(w, w /\ runner, risks))
  <2>a. risks \in Nat /\ "risk" \in Kinds
    BY NarrativeAssumption DEF Kinds
  <2>1. risks \in Nat /\ Numbered("risk", risks) \in Seq(RankedLines) /\ (w /\ runner) \in BOOLEAN
    BY <2>a, NumberedIs
  <2>2. /\ {Line("reason"), Line("winner"), Line("runner-up"), Line("headline"), Line("reliability"),
            Line("title")} \subseteq RankedLines
        /\ "risk" \notin {Line("reason")[1], Line("winner")[1], Line("runner-up")[1]}
    <3>1. {"reason", "winner", "runner-up", "headline", "reliability", "title"} \subseteq Kinds
      BY DEF Kinds
    <3> QED
      BY <3>1, LineIs
  <2>3. Anchored(<<Line("reason"), Line("winner")>> \o If(w /\ runner, <<Line("runner-up")>>)
                  \o UpTo(3, Numbered("risk", risks)), risks)
    BY <2>1, <2>2, AnchorsFit
  <2>4. LET bullets == <<Line("headline"), Line("reliability")>> \o If(w, <<Line("title")>>)
        IN  bullets \in Seq(RankedLines) /\ Len(bullets) <= 4
    BY <2>2, BulletsFit
  <2> QED
    BY <2>1, <2>3, <2>4, Zenon DEF FitsEnvelope, Anchored, GroupRequest
<1>3. ASSUME NEW t \in 0 .. MaxItems, NEW g \in 0 .. MaxItems, NEW reasons \in 1 .. 4
      PROVE  FitsEnvelope(InboxRequest(t, g, reasons))
  BY InboxFits
<1>4. \/ \E pair \in BOOLEAN, risks \in 0 .. MaxRisks : r = CompareRequest(pair, risks)
      \/ \E w \in BOOLEAN, runner \in BOOLEAN, risks \in 0 .. MaxRisks : r = GroupRequest(w, w /\ runner, risks)
      \/ \E t \in 0 .. MaxItems, g \in 0 .. MaxItems, reasons \in 1 .. 4 : r = InboxRequest(t, g, reasons)
  BY DEF Requests
<1> QED
  BY <1>1, <1>2, <1>3, <1>4

-----------------------------------------------------------------------------
\* What the parts of the envelope are.
Tellings == Codes \cup {"nothing", "no provider", "failed", "draft"}

\* Every answer has an outcome of the list.
LEMMA OutcomesAreTold ==
    ASSUME NEW a
    PROVE  Outcome(a) \in Codes \cup {"failed", "draft"}
<1>1. SwitchyardRefusal(a) \in Codes \cup {"failed"}
  BY DEF SwitchyardRefusal, Codes
<1>2. OpenAiRefusal(a) \in Codes
  <2>1. OpenAiRefusal(a) \in {"misconfigured", "deprecated_model", "rate_limited", "overloaded", "provider_error"}
    BY DEF OpenAiRefusal
  <2> QED
    BY <2>1 DEF Codes
<1>3. Refusal(a) \in Codes \cup {"failed"}
  BY <1>1, <1>2 DEF Refusal
<1>4. Outcome(a) \in {"timeout", "unavailable", "draft", "failed", "invalid_response", Refusal(a)}
  BY DEF Outcome
<1> QED
  BY <1>3, <1>4 DEF Codes

\* The empty request names nothing, and one that was made does.
LEMMA RequestsDiffer ==
    ASSUME NEW q, FitsEnvelope(q)
    PROVE  /\ q # NoRequest
           /\ {q.refs, q.bullets, q.cautions} \subseteq Seq(Kinds \X Nat)
<1>1. q.refs # <<>> /\ NoRequest.refs = <<>>
  BY DEF FitsEnvelope, NoRequest
<1> QED
  BY <1>1 DEF FitsEnvelope, RankedLines

-----------------------------------------------------------------------------
\* The page has asked for something that fits, and has what it asked for.
NarrativeInv ==
    /\ setup \in Setups
    /\ stage \in {"quiet", "asked", "waiting", "told"}
    /\ IF stage = "quiet" THEN request = NoRequest ELSE FitsEnvelope(request)
    /\ envelope.status \in Statuses /\ envelope.told \in Tellings
    /\ stage = "told" =>
          /\ envelope.refs = UpTo(6, request.refs)
          /\ envelope.cautions = UpTo(4, request.cautions)
          /\ envelope.status # "ok" => envelope.bullets = UpTo(4, request.bullets)

\* A step keeps it.
LEMMA NarrativeStep == NarrativeInv /\ [AiNext]_aiVars => NarrativeInv'
<1> SUFFICES ASSUME NarrativeInv, [AiNext]_aiVars PROVE NarrativeInv'
  OBVIOUS
<1>1. CASE AskNarrative
  <2>1. FitsEnvelope(request')
    BY <1>1, RequestsFit DEF AskNarrative
  <2> QED
    BY <1>1, <2>1 DEF AskNarrative, NarrativeInv
<1>2. CASE AnswerWithoutProvider
  <2>1. PICK status \in Statuses, said \in Tellings : Tell(Envelope(status, said, request.bullets))
    BY <1>2 DEF AnswerWithoutProvider, Statuses, Tellings
  <2> QED
    BY <1>2, <2>1 DEF AnswerWithoutProvider, NarrativeInv, Tell, Envelope
<1>3. CASE AskProvider
  BY <1>3 DEF AskProvider, NarrativeInv
<1>4. CASE HearRefusal
  <2>1. PICK outcome \in Tellings : Tell(Downgraded(outcome))
    BY <1>4, OutcomesAreTold DEF HearRefusal, Tellings, Codes
  <2>2. {"error", "unavailable"} \subseteq Statuses
    BY DEF Statuses
  <2> QED
    BY <1>4, <2>1, <2>2 DEF HearRefusal, NarrativeInv, Tell, Downgraded, Envelope
<1>5. CASE HearDraft
  <2>1. PICK bullets : Tell(Envelope("ok", "draft", bullets))
    BY <1>5 DEF HearDraft
  <2>2. "ok" \in Statuses /\ "draft" \in Tellings
    BY DEF Statuses, Tellings
  <2> QED
    BY <1>5, <2>1, <2>2 DEF HearDraft, NarrativeInv, Tell, Envelope
<1>6. CASE UNCHANGED aiVars
  BY <1>6 DEF aiVars, NarrativeInv
<1> QED
  BY <1>1, <1>2, <1>3, <1>4, <1>5, <1>6 DEF AiNext

\* What fits is whole.
LEMMA EnvelopeIsWhole == NarrativeInv => AnchorsAreWhole /\ AnchoredRisksAreCautioned
<1> SUFFICES ASSUME NarrativeInv, stage = "told"
             PROVE  /\ envelope.refs = request.refs
                    /\ envelope.status # "ok" => envelope.bullets = request.bullets
                    /\ \A i \in 1 .. MaxRisks : <<"risk", i>> \in ToSet(envelope.refs) =>
                          <<"risk", i>> \in ToSet(envelope.cautions)
  BY DEF AnchorsAreWhole, AnchoredRisksAreCautioned
<1>1. FitsEnvelope(request)
  BY DEF NarrativeInv
<1>2. UpTo(6, request.refs) = request.refs /\ UpTo(4, request.bullets) = request.bullets
  <2>1. request.refs \in Seq(RankedLines) /\ Len(request.refs) <= 6
    BY <1>1 DEF FitsEnvelope
  <2>2. request.bullets \in Seq(RankedLines) /\ Len(request.bullets) <= 4
    BY <1>1 DEF FitsEnvelope
  <2>3. UpTo(6, request.refs) = request.refs
    BY <2>1, ShortIsWhole
  <2>4. UpTo(4, request.bullets) = request.bullets
    BY <2>2, ShortIsWhole
  <2> QED
    BY <2>3, <2>4
<1>3. \A i \in 1 .. MaxRisks : i \in Nat
  OBVIOUS
<1> QED
  BY <1>1, <1>2, <1>3 DEF NarrativeInv, FitsEnvelope

\* No outcome of a slow, busy or limiting server blames the settings.
LEMMA LoadIsNotBlamed == NoBlameForLoad
<1> SUFFICES ASSUME NEW a \in Answers, a.status \in {0, 429, 500, 503} PROVE Outcome(a) \notin Blames
  BY DEF NoBlameForLoad
<1>1. CASE a.status = 0
  <2>1. a.type \in {"timeout", "unreachable"}
    <3>1. a \in Silences \/ a \in Refusals \/ a \in Replies
      BY DEF Answers
    <3>2. ASSUME a \in Silences PROVE a.type \in {"timeout", "unreachable"}
      BY <3>2 DEF Silences
    <3>3. ASSUME a \in Refusals PROVE a.status # 0
      BY <3>3 DEF Refusals
    <3>4. ASSUME a \in Replies PROVE a.status # 0
      <4> DEFINE types == {"not json", "odd", "empty", "broken", "off schema", "draft"}
      <4>1. Replies = [status : {200}, type : types]
        BY DEF Replies
      <4> HIDE DEF types
      <4> QED
        BY <3>4, <4>1
    <3> QED
      BY <1>1, <3>1, <3>2, <3>3, <3>4
  <2> QED
    BY <1>1, <2>1 DEF Outcome, Blames
<1>2. CASE a.status \in {429, 500, 503}
  <2>1. Outcome(a) = Refusal(a)
    BY <1>2 DEF Outcome
  <2>2. SwitchyardRefusal(a) \notin Blames
    BY <1>2 DEF SwitchyardRefusal, Blames
  <2>3. OpenAiRefusal(a) \notin Blames
    BY <1>2 DEF OpenAiRefusal, Blames
  <2> QED
    BY <2>1, <2>2, <2>3 DEF Refusal
<1> QED
  BY <1>1, <1>2

\* NarrativeIsSound, for any number of risks and of monitors: the limits of the
\* envelope cut no anchor and no line of the page's own truth, an anchored risk
\* is among the cautions, and no provider's load blames the settings.
THEOREM NarrativeStaysSound == AiSpec => [](AiTypeOK /\ NarrativeIsSound)
<1>1. AiInit => NarrativeInv
  BY DEF AiInit, NarrativeInv, NoEnvelope, Statuses, Tellings
<1>2. NarrativeInv => NarrativeIsSound
  BY EnvelopeIsWhole, LoadIsNotBlamed DEF NarrativeIsSound
<1>3. NarrativeInv => AiTypeOK
  <2> SUFFICES ASSUME NarrativeInv PROVE AiTypeOK
    OBVIOUS
  <2>1. stage = "quiet" <=> request = NoRequest
    BY RequestsDiffer DEF NarrativeInv
  <2>2. {request.refs, request.bullets, request.cautions} \subseteq Seq(Kinds \X Nat)
    <3>1. CASE stage = "quiet"
      <4>1. request.refs = <<>> /\ request.bullets = <<>> /\ request.cautions = <<>>
        BY <3>1 DEF NarrativeInv, NoRequest
      <4>2. <<>> \in Seq(Kinds \X Nat)
        OBVIOUS
      <4> QED
        BY <4>1, <4>2
    <3>2. CASE stage # "quiet"
      BY <3>2, RequestsDiffer DEF NarrativeInv
    <3> QED
      BY <3>1, <3>2
  <2> QED
    BY <2>1, <2>2 DEF NarrativeInv, AiTypeOK, Tellings
<1> QED
  BY <1>1, <1>2, <1>3, NarrativeStep, PTL DEF AiSpec

-------------------------------------------------------------------------------
(* The report on the runs.                                                   *)

\* What the report rests on: the rows are finitely many, a report was made from
\* the rows there were, and its alarms are those of the rows it was given.
TrendsInv ==
    /\ hour \in 1 .. LastHour /\ asked \in 0 .. LastHour
    /\ IsFiniteSet(crawls) /\ crawls \subseteq Crawl
    /\ IsFiniteSet(stats) /\ stats \subseteq Stat
    /\ there = {} => alarms = {} /\ given = {}
    /\ there # {} => /\ asked # 0 /\ there \subseteq stats
                     /\ given \in RowsFor(there) /\ alarms = Alarmed(given)

\* What runs may come to is counted in numbers.
LEMMA OutcomesCount ==
    ASSUME NEW o \in Outcomes,
           NEW count \in {"discovered", "parsed", "errors", "confirmed", "skipped"}
    PROVE  o[count] \in Nat
<1>1. Found \in Nat
  BY TrendsAssumption
<1>2. o.discovered \in Nat /\ o.parsed \in Nat /\ o.errors \in Nat /\ o.confirmed \in Nat /\ o.skipped \in Nat
  BY <1>1 DEF Outcomes, Empty
<1> QED
  BY <1>2

\* The sum of a count is a number, and that of no pages is none.
LEMMA SumsCount ==
    ASSUME NEW listed \in SUBSET Stat, IsFiniteSet(listed), NEW s,
           NEW count \in {"discovered", "parsed", "errors", "confirmed", "skipped"}
    PROVE  /\ SumOf(listed, s, count) \in Nat
           /\ (\A r \in listed : r.store = s => r.of[count] = 0) => SumOf(listed, s, count) = 0
<1> DEFINE T == {r \in listed : r.store = s}
           f == [r \in T |-> r.of[count]]
<1>1. IsFiniteSet(T) /\ \A r \in T : r.of \in Outcomes
  BY FS_Subset DEF Stat
<1>2. \A r \in T : f[r] \in Nat
  BY <1>1, OutcomesCount
<1>3. SumOf(listed, s, count) = Total(f, T)
  <2> DEFINE IsSums(g) == g = [U \in SUBSET T |-> IF U = {} THEN 0
                                                  ELSE Picked(U).of[count] + g[U \ {Picked(U)}]]
  <2>1. SumOf(listed, s, count) = (CHOOSE g : IsSums(g))[T]
    BY DEF SumOf, MapThenSumSet, MapThenFoldSet, Picked
  <2>2. \A U \in SUBSET T : U # {} => Picked(U).of[count] = f[Picked(U)]
    BY PickedIsIn
  <2> HIDE DEF T, f
  <2>3. ASSUME NEW g PROVE IsSums(g) <=> IsTable(g, f, T)
    BY <2>2 DEF IsTable
  <2>4. (CHOOSE g : IsSums(g)) = CHOOSE g : IsTable(g, f, T)
    BY <2>3
  <2> QED
    BY <2>1, <2>4 DEF Total
<1> QED
  BY <1>1, <1>2, <1>3, TotalIsNat

\* A store of which no page was parsed has no share of parsed pages, and a store
\* that has such a share has rows.
LEMMA ParseRate ==
    ASSUME NEW listed \in SUBSET Stat, IsFiniteSet(listed), NEW s
    PROVE  /\ Rate(listed, s, "parse") \in Nat
           /\ (\A r \in listed : r.store = s => r.of.parsed = 0) => Rate(listed, s, "parse") = 0
<1>1. Rate(listed, s, "parse") =
         Share(SumOf(listed, s, "parsed"), SumOf(listed, s, "discovered") - SumOf(listed, s, "skipped"))
  BY DEF Rate
<1>2. /\ SumOf(listed, s, "parsed") \in Nat
      /\ (\A r \in listed : r.store = s => r.of.parsed = 0) => SumOf(listed, s, "parsed") = 0
  <2>1. (\A r \in listed : r.store = s => r.of["parsed"] = 0) => SumOf(listed, s, "parsed") = 0
    BY SumsCount
  <2>2. SumOf(listed, s, "parsed") \in Nat
    BY SumsCount
  <2> QED
    BY <2>1, <2>2
<1>3. SumOf(listed, s, "discovered") \in Nat /\ SumOf(listed, s, "skipped") \in Nat
  BY SumsCount
<1>4. ASSUME NEW part \in Nat, NEW whole \in Int
      PROVE  /\ Share(part, whole) \in Nat
             /\ part = 0 => Share(part, whole) = 0
  BY DEF Share
<1>5. SumOf(listed, s, "discovered") - SumOf(listed, s, "skipped") \in Int
  BY <1>3
<1> QED
  BY <1>1, <1>2, <1>4, <1>5

\* The report is given rows that are there, and all of them unless it is given as
\* many as it asked for.
LEMMA RowsAreThere ==
    ASSUME NEW listed, IsFiniteSet(listed), NEW some \in RowsFor(listed)
    PROVE  /\ some \subseteq listed /\ IsFiniteSet(some)
           /\ \A r \in some, q \in listed \ some : q.began <= r.began
           /\ Cardinality(some) = RowLimit \/ some = listed
<1>1. /\ some \in SUBSET listed /\ Cardinality(some) = Min({RowLimit, Cardinality(listed)})
      /\ \A r \in some, q \in listed \ some : q.began <= r.began
  BY DEF RowsFor
<1>2. RowLimit \in Nat /\ Cardinality(listed) \in Nat
  BY TrendsAssumption, FS_CardinalityType
<1>3. Min({RowLimit, Cardinality(listed)}) \in {RowLimit, Cardinality(listed)}
  BY <1>2, NatHasMin
<1>4. IsFiniteSet(some) /\ (Cardinality(listed) = Cardinality(some) => listed = some)
  BY <1>1, FS_Subset
<1> QED
  BY <1>1, <1>3, <1>4

\* With a row of the baseline among those given, every recent one is.
LEMMA RecentComesFirst ==
    ASSUME TrendsInv, there # {}, BaselineOf(given) # {}
    PROVE  RecentOf(there) \subseteq given
<1>1. PICK b \in given : b.began < asked - RecentDays
  BY DEF BaselineOf, Within
<1>2. SUFFICES ASSUME NEW q \in there, q.began >= asked - RecentDays, q \notin given PROVE FALSE
  BY DEF RecentOf, Within
<1>3. IsFiniteSet(there) /\ there \subseteq Stat /\ given \in RowsFor(there)
  BY FS_Subset DEF TrendsInv
<1>4. given \subseteq there /\ q.began <= b.began
  BY <1>1, <1>2, <1>3, RowsAreThere
<1>5. q.began \in Int /\ b.began \in Int /\ asked - RecentDays \in Int
  <2>1. \A r \in Stat : r.began \in Int
    BY DEF Stat
  <2>2. asked \in Int /\ RecentDays \in Int
    BY TrendsAssumption DEF TrendsInv
  <2> QED
    BY <1>1, <1>2, <1>3, <1>4, <2>1, <2>2
<1> QED
  BY <1>1, <1>2, <1>4, <1>5

\* A report is a true one.
LEMMA ReportIsTrue ==
    ASSUME TrendsInv
    PROVE  ReportIsEarned
<1>1. CASE there = {}
  BY <1>1 DEF TrendsInv, ReportIsEarned, RecentIsWhole, WindowsPartTheRuns, AlarmsAreEarned, DeadStoreIsNoticed
<1>2. CASE there # {}
  <2>1. /\ there \subseteq Stat /\ IsFiniteSet(there) /\ given \subseteq there /\ IsFiniteSet(given)
        /\ alarms = Alarmed(given) /\ (Cardinality(given) = RowLimit \/ given = there)
    <3>1. there \subseteq Stat /\ IsFiniteSet(there) /\ given \in RowsFor(there) /\ alarms = Alarmed(given)
      BY <1>2, FS_Subset DEF TrendsInv
    <3> QED
      BY <3>1, RowsAreThere
  <2>2. asked \in Nat /\ RecentDays \in Nat /\ BaselineDays \in Nat /\ ParseDrop \in Nat \ {0}
    BY TrendsAssumption DEF TrendsInv
  <2>3. \A r \in there : r.began \in Nat
    <3>1. \A r \in Stat : r.began \in Nat
      BY DEF Stat
    <3> QED
      BY <2>1, <3>1
  <2>4. RecentIsWhole
    BY <1>2, RecentComesFirst DEF RecentIsWhole
  <2>5. WindowsPartTheRuns
    <3>1. RecentOf(given) \cap BaselineOf(given) = {}
      BY <2>1, <2>2, <2>3 DEF RecentOf, BaselineOf, Within
    <3>2. \A r \in there \ (RecentOf(given) \cup BaselineOf(given)) :
             \/ r.began >= asked \/ r.began < asked - RecentDays - BaselineDays
             \/ r \notin given /\ Cardinality(given) = RowLimit
      BY <2>1, <2>2, <2>3 DEF RecentOf, BaselineOf, Within
    <3> QED
      BY <3>1, <3>2 DEF WindowsPartTheRuns
  <2>6. /\ RecentOf(given) \subseteq RecentOf(there) /\ BaselineOf(given) \subseteq BaselineOf(there)
        /\ BaselineOf(given) # {} => RecentOf(given) = RecentOf(there)
    <3>1. RecentOf(given) \subseteq RecentOf(there) /\ BaselineOf(given) \subseteq BaselineOf(there)
      BY <2>1 DEF RecentOf, BaselineOf, Within
    <3>2. BaselineOf(given) # {} => RecentOf(there) \subseteq RecentOf(given)
      BY <1>2, RecentComesFirst DEF RecentOf, Within
    <3> QED
      BY <3>1, <3>2
  <2>7. AlarmsAreEarned
    <3> SUFFICES ASSUME NEW a \in Alarmed(given)
                 PROVE  /\ a[1] \in StoresIn(RecentOf(there)) /\ a[1] \in StoresIn(BaselineOf(there))
                        /\ BaselineOf(there) \subseteq given =>
                              IsAlarm(Rate(RecentOf(there), a[1], a[2]), Rate(BaselineOf(there), a[1], a[2]),
                                      a[2])
      BY <2>1 DEF AlarmsAreEarned
    <3>1. /\ a[1] \in StoresIn(RecentOf(given)) /\ a[1] \in StoresIn(BaselineOf(given))
          /\ IsAlarm(Rate(RecentOf(given), a[1], a[2]), Rate(BaselineOf(given), a[1], a[2]), a[2])
      BY DEF Alarmed
    <3>2. BaselineOf(given) # {}
      BY <3>1 DEF StoresIn
    <3>3. a[1] \in StoresIn(RecentOf(there)) /\ a[1] \in StoresIn(BaselineOf(there))
      BY <2>6, <3>1 DEF StoresIn
    <3>4. BaselineOf(there) \subseteq given => BaselineOf(there) = BaselineOf(given)
      BY <2>1 DEF BaselineOf, Within
    <3> QED
      BY <2>6, <3>1, <3>2, <3>3, <3>4
  <2>8. DeadStoreIsNoticed
    <3> SUFFICES ASSUME NEW s \in StoresIn(RecentOf(there)),
                        \A r \in RecentOf(there) : r.store = s => r.of.parsed = 0,
                        Rate(BaselineOf(given), s, "parse") >= ParseDrop
                 PROVE  \E a \in alarms : a[1] = s
      BY DEF DeadStoreIsNoticed
    <3>1. /\ BaselineOf(given) \in SUBSET Stat /\ IsFiniteSet(BaselineOf(given))
          /\ RecentOf(given) \in SUBSET Stat /\ IsFiniteSet(RecentOf(given))
      <4>1. BaselineOf(given) \in SUBSET given /\ RecentOf(given) \in SUBSET given
        BY DEF BaselineOf, RecentOf, Within
      <4> QED
        BY <2>1, <4>1, FS_Subset
    <3>2. Rate(BaselineOf(given), s, "parse") \in Nat /\ Rate(BaselineOf(given), s, "parse") # 0
      BY <2>2, <3>1, ParseRate
    <3>3. \E r \in BaselineOf(given) : r.store = s
      BY <3>1, <3>2, ParseRate
    <3>4. s \in StoresIn(BaselineOf(given)) /\ RecentOf(given) = RecentOf(there)
      BY <2>6, <3>3 DEF StoresIn
    <3>5. Rate(RecentOf(given), s, "parse") = 0
      BY <3>1, <3>4, ParseRate
    <3>6. IsAlarm(Rate(RecentOf(given), s, "parse"), Rate(BaselineOf(given), s, "parse"), "parse")
      <4>1. ASSUME NEW n, NEW b PROVE IsAlarm(n, b, "parse") <=> b - n >= ParseDrop
        BY DEF IsAlarm
      <4>2. Rate(BaselineOf(given), s, "parse") - 0 >= ParseDrop
        BY <2>2, <3>2
      <4> QED
        BY <3>5, <4>1, <4>2
    <3>7. <<s, "parse">> \in Alarmed(given)
      BY <3>4, <3>6 DEF Alarmed
    <3> QED
      BY <2>1, <3>7
  <2> QED
    BY <2>4, <2>5, <2>7, <2>8 DEF ReportIsEarned
<1> QED
  BY <1>1, <1>2

\* Type correctness, and: an alarm of the report is earned by rows that were there, its windows lose no
\* recent run to the past or to one another, and a store of which nothing can be
\* parsed any more is noticed, whatever runs end while the report is made and for
\* any windows, limits and thresholds (RunReportJob).
THEOREM ReportsStayEarned == TrendsSpec => [](TrendsTypeOK /\ ReportIsEarned)
<1>1. TrendsInit => TrendsInv
  BY FS_EmptySet, TrendsAssumption DEF TrendsInit, TrendsInv
<1>2. TrendsInv /\ [TrendsNext]_trendVars => TrendsInv'
  <2> SUFFICES ASSUME TrendsInv, [TrendsNext]_trendVars PROVE TrendsInv'
    OBVIOUS
  <2>0. LastHour \in Nat \ {0}
    BY TrendsAssumption
  <2>1. CASE UNCHANGED trendVars
    BY <2>1 DEF TrendsInv, trendVars, Alarmed, RecentOf, BaselineOf
  <2>2. CASE Elapse \/ (\E s \in CrawledStores : BeginCrawl(s)) \/ (\E c \in crawls : LoseCrawl(c))
    <3>1. UNCHANGED <<stats, asked, given, there, alarms>>
      BY <2>2 DEF Elapse, BeginCrawl, LoseCrawl
    <3>2. hour' \in 1 .. LastHour
      BY <2>0, <2>2 DEF Elapse, BeginCrawl, LoseCrawl, TrendsInv
    <3>3. IsFiniteSet(crawls') /\ crawls' \subseteq Crawl
      <4>1. CASE Elapse
        BY <4>1 DEF Elapse, TrendsInv
      <4>2. CASE \E s \in CrawledStores : BeginCrawl(s)
        <5>1. PICK s \in CrawledStores : BeginCrawl(s)
          BY <4>2
        <5> DEFINE n == Cardinality(crawls) + Cardinality(stats) + 1
        <5>2. n \in 1 .. MaxCrawls
          <6>1. Cardinality(crawls) \in Nat /\ Cardinality(stats) \in Nat /\ MaxCrawls \in Nat
            BY FS_CardinalityType, TrendsAssumption DEF TrendsInv
          <6>2. n <= MaxCrawls
            BY <5>1, Zenon DEF BeginCrawl
          <6> QED
            BY <6>1, <6>2
        <5>3. crawls' = crawls \cup {[n |-> n, store |-> s, began |-> hour]}
          BY <5>1 DEF BeginCrawl
        <5> HIDE DEF n
        <5>4. [n |-> n, store |-> s, began |-> hour] \in Crawl
          BY <5>2 DEF Crawl, TrendsInv
        <5> QED
          BY <5>3, <5>4, FS_AddElement DEF TrendsInv
      <4>3. CASE \E c \in crawls : LoseCrawl(c)
        BY <4>3, FS_RemoveElement DEF LoseCrawl, TrendsInv
      <4> QED
        BY <2>2, <4>1, <4>2, <4>3
    <3>4. Alarmed(given)' = Alarmed(given)
      BY <3>1 DEF Alarmed, RecentOf, BaselineOf
    <3> QED
      BY <3>1, <3>2, <3>3, <3>4 DEF TrendsInv, RowsFor
  <2>3. CASE \E c \in crawls : \E o \in Outcomes : EndCrawl(c, o)
    <3>1. PICK c \in crawls, o \in Outcomes : EndCrawl(c, o)
      BY <2>3
    <3>2. /\ stats' = stats \cup {[n |-> c.n, store |-> c.store, began |-> c.began, of |-> o]}
          /\ UNCHANGED <<hour, asked, given, there, alarms>>
      BY <3>1 DEF EndCrawl
    <3>3. IsFiniteSet(stats') /\ stats' \subseteq Stat /\ stats \subseteq stats'
      <4>1. [n |-> c.n, store |-> c.store, began |-> c.began, of |-> o] \in Stat
        BY DEF TrendsInv, Crawl, Stat
      <4> QED
        BY <3>2, <4>1, FS_AddElement DEF TrendsInv
    <3>4. IsFiniteSet(crawls') /\ crawls' \subseteq Crawl
      BY <3>1, FS_RemoveElement DEF EndCrawl, TrendsInv
    <3>5. Alarmed(given)' = Alarmed(given)
      BY <3>2 DEF Alarmed, RecentOf, BaselineOf
    <3> QED
      BY <3>2, <3>3, <3>4, <3>5 DEF TrendsInv, RowsFor
  <2>4. CASE AskReport
    BY <2>4 DEF AskReport, TrendsInv
  <2>5. CASE ForgetReport
    BY <2>0, <2>5 DEF ForgetReport, TrendsInv
  <2>6. CASE \E listed \in SUBSET stats : LoadReport(listed)
    <3>1. PICK listed \in SUBSET stats : LoadReport(listed)
      BY <2>6
    <3>2. asked # 0 /\ there = {} /\ listed \in RowsFor(stats) /\ UNCHANGED <<hour, crawls, stats>>
      BY <3>1 DEF LoadReport
    <3>3. CASE RecentOf(listed) = {}
      BY <2>0, <3>1, <3>2, <3>3 DEF LoadReport, TrendsInv
    <3>4. CASE RecentOf(listed) # {}
      <4>1. asked' = asked /\ given' = listed /\ there' = stats /\ alarms' = Alarmed(listed)
        BY <3>1, <3>4 DEF LoadReport
      <4>2. listed # {}
        BY <3>4 DEF RecentOf, Within
      <4>3. Alarmed(listed)' = Alarmed(listed)
        BY <4>1 DEF Alarmed, RecentOf, BaselineOf
      <4>4. stats # {}
        BY <4>2
      <4> QED
        BY <3>2, <4>1, <4>3, <4>4 DEF TrendsInv
    <3> QED
      BY <3>3, <3>4
  <2> QED
    BY <2>1, <2>2, <2>3, <2>4, <2>5, <2>6 DEF TrendsNext
<1>3. TrendsInv => TrendsTypeOK /\ ReportIsEarned
  <2> SUFFICES ASSUME TrendsInv PROVE TrendsTypeOK
    BY ReportIsTrue
  <2>1. given \subseteq there
    BY RowsAreThere, FS_Subset DEF TrendsInv
  <2>2. alarms \subseteq CrawledStores \X {"parse", "errors", "deals"}
    <3>1. CASE there = {}
      BY <3>1 DEF TrendsInv
    <3>2. CASE there # {}
      <4>1. StoresIn(BaselineOf(given)) \subseteq CrawledStores
        BY <2>1 DEF StoresIn, BaselineOf, Within, Stat, TrendsInv
      <4> QED
        BY <3>2, <4>1 DEF Alarmed, TrendsInv
    <3> QED
      BY <3>1, <3>2
  <2> QED
    BY <2>1, <2>2 DEF TrendsTypeOK, TrendsInv
<1> QED
  BY <1>1, <1>2, <1>3, PTL DEF TrendsSpec

-------------------------------------------------------------------------------
(* The decision of a group.                                                  *)

\* A run that found a winner decided by the ranking of its results.
RestsOnRanking(run) ==
    LET able     == Succeeded(run.results)
        ranking == Ranking(run.results)
        unique  == Cardinality(able) = 1
    IN  /\ able # {}
        /\ run.status \in {"succeeded", "failed"}
        /\ run.winner = ranking[1]
        /\ run.price = Effective(run.results[run.winner])
        /\ run.runnerUp = IF unique THEN NoMember ELSE ranking[2]
        /\ run.spread = IF unique THEN NoPrice
                        ELSE Spread(run.results[run.winner], run.results[run.runnerUp])

\* What the page rests on: a run without a winner had no price to choose from,
\* one with a winner followed the ranking, and a mail that failed has left its
\* mark on the group, which no PATCH wipes away.
DecisionInv ==
    /\ TypeOK
    /\ mail = "failed" => row.health = "degraded"
    /\ latest.winner = NoMember =>
           /\ Succeeded(latest.results) = {} /\ latest.runnerUp = NoMember
           /\ latest.price = NoPrice /\ latest.spread = NoPrice
           /\ latest.status # "succeeded"
    /\ latest.winner # NoMember => RestsOnRanking(latest)

-----------------------------------------------------------------------------
(* The ranking.                                                             *)

\* The order of the ranking.
Ahead(results) == {p \in Member \X Member : Before(results, p[1], p[2])}

\* A fetch gives numbers.
LEMMA ResultNumbers ==
    ASSUME NEW results \in [Member -> Result], NEW m \in Succeeded(results)
    PROVE  /\ m \in Member /\ results[m].listed \in Nat /\ results[m].cashback \in Nat
           /\ Effective(results[m]) \in Nat
<1>1. m \in Member /\ results[m] \in Result /\ results[m].status = "succeeded"
  BY DEF Succeeded
<1>2. results[m].listed \in Nat /\ results[m].cashback \in Nat
  BY <1>1, DecisionAssumption DEF Result
<1> QED
  BY <1>1, <1>2 DEF Effective, Greater

\* Every member has a place of its own.
LEMMA Places ==
    /\ \A m \in Member : Place[m] \in Nat
    /\ \A a, b \in Member : Place[a] = Place[b] => a = b
<1>1. \A m \in Member : Place[m] \in DOMAIN Order /\ Order[Place[m]] = m
  BY DecisionAssumption DEF Place
<1>2. DOMAIN Order \subseteq Nat
  <2>1. Cardinality(Member) \in Nat
    BY DecisionAssumption, FS_CardinalityType
  <2> QED
    BY <2>1, DecisionAssumption
<1> QED
  BY <1>1, <1>2

\* The ranking's order puts the fetched members in one line.
LEMMA AheadOrders ==
    ASSUME NEW results \in [Member -> Result]
    PROVE  Orders(Ahead(results), Succeeded(results))
<1> DEFINE S == Succeeded(results)
           P(m) == Effective(results[m])
           L(m) == results[m].listed
<1>1. \A m \in S : m \in Member /\ P(m) \in Nat /\ L(m) \in Nat /\ StoreOf[m] \in Nat /\ Place[m] \in Nat
  BY ResultNumbers, Places, DecisionAssumption
<1>2. \A a, b \in S : <<a, b>> \in Ahead(results) <=> Before(results, a, b)
  BY <1>1 DEF Ahead
<1>3. \A a, b \in S : Before(results, a, b) <=>
         \/ P(a) < P(b)
         \/ P(a) = P(b) /\ L(a) < L(b)
         \/ P(a) = P(b) /\ L(a) = L(b) /\ StoreOf[a] < StoreOf[b]
         \/ P(a) = P(b) /\ L(a) = L(b) /\ StoreOf[a] = StoreOf[b] /\ Place[a] < Place[b]
  <2> TAKE a, b \in S
  <2>1. P(a) \in Nat /\ P(b) \in Nat /\ L(a) \in Nat /\ L(b) \in Nat /\ StoreOf[a] \in Nat /\ StoreOf[b] \in Nat
        /\ Place[a] \in Nat /\ Place[b] \in Nat
    BY <1>1
  <2> QED
    BY <2>1 DEF Before, Cheaper
<1>4. \A a, b \in S : Place[a] = Place[b] => a = b
  BY <1>1, Places
<1> HIDE DEF S, P, L
<1>5. \A x \in S : <<x, x>> \notin Ahead(results)
  <2> TAKE x \in S
  <2> QED
    BY <1>1, <1>2, <1>3
<1>6. \A x, y \in S : x # y => <<x, y>> \in Ahead(results) \/ <<y, x>> \in Ahead(results)
  <2> TAKE x, y \in S
  <2> QED
    BY <1>1, <1>2, <1>3, <1>4
<1>7. \A x, y, z \in S : <<x, y>> \in Ahead(results) /\ <<y, z>> \in Ahead(results) => <<x, z>> \in Ahead(results)
  <2> TAKE x, y, z \in S
  <2>1. SUFFICES ASSUME Before(results, x, y), Before(results, y, z) PROVE Before(results, x, z)
    BY <1>2
  <2> QED
    BY <1>1, <1>3, <2>1
<1> QED
  BY <1>5, <1>6, <1>7 DEF Orders, S

\* The ranking is the fetched members in that order.
LEMMA RankingLists ==
    ASSUME NEW results \in [Member -> Result]
    PROVE  /\ IsFiniteSet(Succeeded(results))
           /\ Lists(Ranking(results), Succeeded(results), Ahead(results))
<1> DEFINE S == Succeeded(results)
           n == Cardinality(S)
           Fits(s) == \A i, j \in DOMAIN s : i < j => s[i] # s[j] /\ Before(results, s[i], s[j])
<1>0. \A a, b : <<a, b>> \in Ahead(results) => Before(results, a, b)
  BY DEF Ahead
<1>1. IsFiniteSet(S)
  BY DecisionAssumption, FS_Subset DEF Succeeded
<1>2. PICK s : Lists(s, S, Ahead(results))
  BY <1>1, AheadOrders, SetSorts
<1>3. /\ s \in [1 .. n -> S]
      /\ \A i, j \in 1 .. n : i < j => <<s[i], s[j]>> \in Ahead(results)
  BY <1>2 DEF Lists
<1>4. \A i, j \in 1 .. n : s[i] = s[j] => i = j
  BY <1>1, <1>2, AheadOrders, SortedIsAll
<1>5. n \in Nat
  BY <1>1, FS_CardinalityType
<1>6. Fits(s)
  <2> HIDE DEF n, S
  <2>1. DOMAIN s = 1 .. n
    BY <1>3
  <2> TAKE i, j \in DOMAIN s
  <2>2. i # j => s[i] # s[j]
    BY <2>1, <1>4
  <2>3. i \in 1 .. n /\ j \in 1 .. n
    BY <2>1
  <2>4. i < j => i # j
    BY <2>3, <1>5
  <2>5. i < j => <<s[i], s[j]>> \in Ahead(results)
    BY <2>3, <1>3
  <2> QED
    BY <2>2, <2>4, <2>5, <1>0
<1>7. Ranking(results) \in [1 .. n -> S] /\ Fits(Ranking(results))
  <2>1. Ranking(results) = CHOOSE t \in [1 .. n -> S] : Fits(t)
    BY DEF Ranking
  <2> HIDE DEF Fits, n, S
  <2> QED
    BY <1>3, <1>6, <2>1
<1>8. \A i, j \in 1 .. n : i < j => <<Ranking(results)[i], Ranking(results)[j]>> \in Ahead(results)
  BY <1>7 DEF Ahead, Succeeded
<1> QED
  BY <1>1, <1>7, <1>8 DEF Lists

\* What a decision that rests on the ranking knows of its winner and of the
\* runner-up.
LEMMA RankedIsBest ==
    ASSUME NEW results \in [Member -> Result], Succeeded(results) # {}
    PROVE  LET able == Succeeded(results)
               r   == Ranking(results)
           IN  /\ Cardinality(able) \in Nat \ {0}
               /\ r[1] \in able /\ \A m \in able \ {r[1]} : Before(results, r[1], m)
               /\ Cardinality(able) # 1 =>
                     /\ r[2] \in able /\ r[2] # r[1]
                     /\ \A m \in able \ {r[1], r[2]} : Before(results, r[2], m)
<1> DEFINE able == Succeeded(results)
           r   == Ranking(results)
           n   == Cardinality(able)
<1>1. IsFiniteSet(able) /\ Lists(r, able, Ahead(results)) /\ Orders(Ahead(results), able)
  BY RankingLists, AheadOrders
<1>2. /\ n \in Nat
      /\ \A i, j \in 1 .. n : r[i] = r[j] => i = j
      /\ \A x \in able : \E i \in 1 .. n : r[i] = x
  <2> HIDE DEF able, r
  <2> QED
    BY <1>1, SortedIsAll
<1>3. n # 0
  BY <1>1, FS_EmptySet
<1>4. r \in [1 .. n -> able] /\ \A i, j \in 1 .. n : i < j => Before(results, r[i], r[j])
  BY <1>1 DEF Lists, Ahead
<1> SUFFICES /\ n \in Nat \ {0}
             /\ r[1] \in able /\ \A m \in able \ {r[1]} : Before(results, r[1], m)
             /\ n # 1 => /\ r[2] \in able /\ r[2] # r[1]
                         /\ \A m \in able \ {r[1], r[2]} : Before(results, r[2], m)
  OBVIOUS
<1> HIDE DEF n, r, able
<1>5. 1 \in 1 .. n /\ (n # 1 => 2 \in 1 .. n)
  BY <1>2, <1>3
<1>6. \A m \in able \ {r[1]} : Before(results, r[1], m)
  <2> TAKE m \in able \ {r[1]}
  <2>1. PICK i \in 1 .. n : r[i] = m
    BY <1>2
  <2>2. 1 < i
    BY <2>1, <1>2
  <2> QED
    BY <1>4, <1>5, <2>1, <2>2
<1>7. ASSUME n # 1, NEW m \in able \ {r[1], r[2]} PROVE Before(results, r[2], m)
  <2>1. PICK i \in 1 .. n : r[i] = m
    BY <1>2
  <2>2. i # 1 /\ i # 2
    BY <2>1
  <2>3. 2 < i
    BY <2>2, <1>2
  <2> QED
    BY <1>4, <1>5, <1>7, <2>1, <2>3
<1> QED
  BY <1>2, <1>3, <1>4, <1>5, <1>6, <1>7

-----------------------------------------------------------------------------
(* What the page says.                                                      *)

\* What is known of a run with a winner: it has the ranking's first two.
LEMMA WinnerFacts ==
    ASSUME DecisionInv, latest.winner # NoMember
    PROVE  LET able == Succeeded(latest.results)
               w   == latest.winner
               u   == latest.runnerUp
           IN  /\ Cardinality(able) \in Nat \ {0} /\ able # {}
               /\ w \in able /\ \A m \in able \ {w} : Before(latest.results, w, m)
               /\ Cardinality(able) # 1 =>
                     /\ u \in able /\ u # w /\ u # NoMember
                     /\ latest.spread = Effective(latest.results[u]) - Effective(latest.results[w])
                     /\ \A m \in able \ {w, u} : Before(latest.results, u, m)
               /\ Cardinality(able) = 1 => u = NoMember /\ latest.spread = NoPrice
               /\ latest.price = Effective(latest.results[w])
<1> DEFINE able == Succeeded(latest.results)
           r   == Ranking(latest.results)
           B(a, b) == Before(latest.results, a, b)
<1>1. latest.results \in [Member -> Result] /\ able # {}
  BY DEF DecisionInv, TypeOK, RestsOnRanking
<1>2. /\ Cardinality(able) \in Nat \ {0}
      /\ r[1] \in able /\ \A m \in able \ {r[1]} : B(r[1], m)
      /\ Cardinality(able) # 1 => /\ r[2] \in able /\ r[2] # r[1]
                                 /\ \A m \in able \ {r[1], r[2]} : B(r[2], m)
  BY <1>1, RankedIsBest
<1>3. able \subseteq Member /\ NoMember \notin Member
  BY DecisionAssumption DEF Succeeded
<1>4. /\ latest.winner = r[1]
      /\ latest.price = Effective(latest.results[latest.winner])
      /\ latest.runnerUp = IF Cardinality(able) = 1 THEN NoMember ELSE r[2]
      /\ latest.spread = IF Cardinality(able) = 1 THEN NoPrice
           ELSE Effective(latest.results[latest.runnerUp]) - Effective(latest.results[latest.winner])
  BY DEF DecisionInv, RestsOnRanking, Spread
<1> HIDE DEF able, r, B
<1>5. /\ Cardinality(able) \in Nat \ {0} /\ able # {}
      /\ latest.winner \in able /\ \A m \in able \ {latest.winner} : B(latest.winner, m)
      /\ latest.price = Effective(latest.results[latest.winner])
  BY <1>1, <1>2, <1>4
<1>6. Cardinality(able) = 1 => latest.runnerUp = NoMember /\ latest.spread = NoPrice
  BY <1>4
<1>7. Cardinality(able) # 1 =>
        /\ latest.runnerUp \in able /\ latest.runnerUp # latest.winner /\ latest.runnerUp # NoMember
        /\ latest.spread = Effective(latest.results[latest.runnerUp]) - Effective(latest.results[latest.winner])
        /\ \A m \in able \ {latest.winner, latest.runnerUp} : B(latest.runnerUp, m)
  BY <1>2, <1>3, <1>4
<1> QED
  BY <1>5, <1>6, <1>7 DEF able, B

\* Who comes before another is not undercut by it.
LEMMA BeforeIsNoDearer ==
    ASSUME NEW results \in [Member -> Result],
           NEW a \in Succeeded(results), NEW b \in Succeeded(results), Before(results, a, b)
    PROVE  /\ ~Cheaper(results, b, a)
           /\ \/ Effective(results[a]) < Effective(results[b])
              \/ /\ Effective(results[a]) = Effective(results[b])
                 /\ \/ results[a].listed < results[b].listed
                    \/ results[a].listed = results[b].listed /\ StoreOf[a] <= StoreOf[b]
<1>1. /\ Effective(results[a]) \in Nat /\ Effective(results[b]) \in Nat
      /\ results[a].listed \in Nat /\ results[b].listed \in Nat
      /\ StoreOf[a] \in Nat /\ StoreOf[b] \in Nat
  BY ResultNumbers, DecisionAssumption
<1>2. Cheaper(results, a, b) \/ ~Cheaper(results, b, a)
  BY DEF Before
<1> QED
  BY <1>1, <1>2 DEF Cheaper

\* The first two of the ranking are the best.
LEMMA WinnerIsRight == ASSUME DecisionInv PROVE WinnerIsBest
<1> DEFINE able == Succeeded(latest.results)
           w   == latest.winner
           u   == latest.runnerUp
           Best(m, among) ==
             \A o \in among :
                \/ Effective(latest.results[m]) < Effective(latest.results[o])
                \/ /\ Effective(latest.results[m]) = Effective(latest.results[o])
                   /\ \/ latest.results[m].listed < latest.results[o].listed
                      \/ /\ latest.results[m].listed = latest.results[o].listed
                         /\ StoreOf[m] <= StoreOf[o]
<1>1. SUFFICES ASSUME w # NoMember
               PROVE  Best(w, able) /\ (u # NoMember => Best(u, able \ {w}))
  BY DEF WinnerIsBest
<1>2. latest.results \in [Member -> Result]
  BY DEF DecisionInv, TypeOK
<1>3. /\ w \in able /\ \A m \in able \ {w} : Before(latest.results, w, m)
      /\ u # NoMember => /\ u \in able
                         /\ \A m \in able \ {w, u} : Before(latest.results, u, m)
  BY <1>1, WinnerFacts
<1>4. \A m \in able : Best(m, {m})
  <2> TAKE m \in able
  <2>1. StoreOf[m] \in Nat
    BY DecisionAssumption DEF Succeeded
  <2> QED
    BY <2>1
<1>5. \A m, o \in able : Before(latest.results, m, o) => Best(m, {o})
  BY <1>2, BeforeIsNoDearer
<1> HIDE DEF able, w, u
<1>6. ASSUME NEW m, NEW A, NEW C, Best(m, {m}), \A o \in A : Best(m, {o}), C \subseteq A \cup {m}
      PROVE  Best(m, C)
  BY <1>6
<1>7. Best(w, able)
  <2>1. \A o \in able \ {w} : Best(w, {o})
    BY <1>3, <1>5
  <2> QED
    BY <1>3, <1>4, <1>6, <2>1
<1>8. u # NoMember => Best(u, able \ {w})
  <2>1. SUFFICES ASSUME u # NoMember PROVE Best(u, able \ {w})
    OBVIOUS
  <2>2. \A o \in able \ {w, u} : Best(u, {o})
    BY <1>3, <1>5, <2>1
  <2> QED
    BY <1>3, <1>4, <1>6, <2>1, <2>2
<1> QED
  BY <1>7, <1>8

\* The explanation is that of the ranking.
LEMMA ExplanationIsRight == ASSUME DecisionInv PROVE ExplanationAgrees
<1> DEFINE able == Succeeded(latest.results)
           w   == latest.winner
           u   == latest.runnerUp
           n   == Cardinality(able)
<1>1. latest.results \in [Member -> Result] /\ With("succeeded") = able
  BY DEF DecisionInv, TypeOK, With, Succeeded
<1>2. CASE w = NoMember
  <2>1. able = {} /\ n = 0
    BY <1>2, FS_EmptySet DEF DecisionInv
  <2>2. Headline = IF latest.status = "absent" THEN "no_decision_yet" ELSE "no_winner"
    BY <1>2 DEF Headline
  <2>3. Headline # "leads" /\ Headline # "only_candidate"
    BY <2>2
  <2>4. \A m \in Member : MemberOutcome(m) # "considered"
    <3> TAKE m \in Member
    <3>1. latest.results[m].status # "considered"
      BY <1>1 DEF Result
    <3> QED
      BY <1>1, <2>1, <3>1 DEF MemberOutcome
  <2> QED
    BY <1>1, <2>1, <2>3, <2>4 DEF ExplanationAgrees
<1>3. CASE w # NoMember
  <2>1. /\ n \in Nat \ {0} /\ able # {} /\ w \in able
        /\ \A m \in able \ {w} : Before(latest.results, w, m)
        /\ n # 1 =>
              /\ u \in able /\ u # w /\ u # NoMember
              /\ latest.spread = Effective(latest.results[u]) - Effective(latest.results[w])
              /\ \A m \in able \ {w, u} : Before(latest.results, u, m)
        /\ n = 1 => u = NoMember /\ latest.spread = NoPrice
    BY <1>3, WinnerFacts
  <2>2. latest.status # "absent"
    BY <1>3 DEF DecisionInv, RestsOnRanking
  <2>3. Headline = IF n = 1 THEN "only_candidate" ELSE "leads"
    BY <1>3, <2>1, <2>2 DEF Headline
  <2>4. ASSUME n # 1
        PROVE  /\ latest.spread >= 0
               /\ \E m \in Member : MemberOutcome(m) = "runner_up"
               /\ LossReason = "effective_price" <=> latest.spread > 0
               /\ LossReason = "store_key" => StoreOf[w] <= StoreOf[u]
    <3>1. u \in able \ {w} /\ Before(latest.results, w, u) /\ u \in Member
      BY <2>1, <2>4 DEF Succeeded
    <3>2. /\ Effective(latest.results[w]) \in Nat /\ Effective(latest.results[u]) \in Nat
          /\ latest.results[w].listed \in Nat /\ latest.results[u].listed \in Nat
      BY <1>1, <2>1, <3>1, ResultNumbers
    <3>3. \/ Effective(latest.results[w]) < Effective(latest.results[u])
          \/ /\ Effective(latest.results[w]) = Effective(latest.results[u])
             /\ \/ latest.results[w].listed < latest.results[u].listed
                \/ /\ latest.results[w].listed = latest.results[u].listed
                   /\ StoreOf[w] <= StoreOf[u]
      BY <1>1, <2>1, <3>1, BeforeIsNoDearer
    <3>4. latest.spread = Effective(latest.results[u]) - Effective(latest.results[w])
      BY <2>1, <2>4
    <3>5. MemberOutcome(u) = "runner_up"
      BY <3>1 DEF MemberOutcome
    <3>6. LossReason \in {"effective_price", "listed_price", "store_key"}
      BY DEF LossReason
    <3>7. LossReason = "effective_price" <=> latest.spread > 0
      BY <3>2, <3>4 DEF LossReason
    <3>8. LossReason = "store_key" => StoreOf[w] <= StoreOf[u]
      BY <3>2, <3>3 DEF LossReason
    <3>9. latest.spread >= 0
      BY <3>2, <3>3, <3>4
    <3> QED
      BY <3>1, <3>5, <3>7, <3>8, <3>9
  <2>5. ASSUME NEW m \in Member, MemberOutcome(m) = "considered"
        PROVE  ~Cheaper(latest.results, m, u)
    <3>1. latest.results[m].status # "considered"
      BY <1>1 DEF Result
    <3>2. m # w /\ m # u /\ m \in able
      BY <1>1, <2>5, <3>1 DEF MemberOutcome
    <3>3. n # 1
      <4>1. SUFFICES ASSUME n = 1 PROVE FALSE
        OBVIOUS
      <4>2. IsFiniteSet(able)
        BY <1>1, RankingLists
      <4>3. Cardinality(able \ {m}) = 0
        BY <3>2, <4>1, <4>2, FS_RemoveElement
      <4>4. able \ {m} = {}
        BY <4>2, <4>3, FS_EmptySet, FS_Subset
      <4> QED
        BY <2>1, <3>2, <4>4
    <3>4. u \in able /\ Before(latest.results, u, m)
      BY <2>1, <3>2, <3>3
    <3> QED
      BY <1>1, <3>2, <3>4, BeforeIsNoDearer
  <2>6. Headline = "leads" => n # 1
    BY <2>3
  <2>7. Headline = "only_candidate" <=> Cardinality(With("succeeded")) = 1
    BY <1>1, <2>3
  <2> HIDE DEF n, able
  <2> QED
    BY <2>4, <2>5, <2>6, <2>7 DEF ExplanationAgrees
<1> QED
  BY <1>2, <1>3

\* What is called strong is.
LEMMA StrongIsRight == ASSUME DecisionInv PROVE StrongIsEarned
<1>1. SUFFICES ASSUME Reliability = "strong"
               PROVE  /\ Succeeded(latest.results) = Member
                      /\ mail # "failed"
                      /\ RiskNotes \subseteq {"close_price_spread"}
  BY DEF StrongIsEarned
<1>2. /\ latest.status = "succeeded" /\ ~row.mir
      /\ With("blocked") = {} /\ With("failed") = {}
      /\ ~(Cardinality(With("succeeded")) < 2) /\ row.health = "healthy"
  BY <1>1 DEF Reliability
<1>3. mail # "failed"
  BY <1>2 DEF DecisionInv
<1>4. Succeeded(latest.results) = Member
  <2>1. latest.results \in [Member -> Result]
    BY DEF DecisionInv, TypeOK
  <2>2. ASSUME NEW m \in Member PROVE latest.results[m].status = "succeeded"
    <3>1. latest.results[m].status \in {"succeeded", "failed", "blocked"}
      BY <2>1 DEF Result
    <3> QED
      BY <1>2, <3>1 DEF With
  <2> QED
    BY <2>2 DEF Succeeded
<1>5. RiskNotes \subseteq {"close_price_spread"}
  BY <1>2 DEF RiskNotes
<1> QED
  BY <1>3, <1>4, <1>5

-----------------------------------------------------------------------------
(* The steps.                                                               *)

\* What a run or a PATCH makes of the row is a row, and a PATCH leaves a
\* degraded group degraded.
LEMMA RowStaysRow ==
    ASSUME NEW x \in Row
    PROVE  /\ ApplySuccess(x) \in Row
           /\ \A k \in Kind : ApplyFailure(x, k) \in Row
           /\ ApplyDeliveryFailure(x) \in Row /\ ApplyDeliveryFailure(x).health = "degraded"
           /\ \A s \in EditStatus : /\ ApplyPatch(x, s) \in Row
                                    /\ x.health = "degraded" => ApplyPatch(x, s).health = "degraded"
<1>1. ApplySuccess(x) \in Row
  BY BackoffAssumption DEF ApplySuccess, Row, RowWith, NoTime, Status, Health, Kind
<1>2. ASSUME NEW k \in Kind PROVE ApplyFailure(x, k) \in Row
  <2>1. x.failures + 1 \in Nat
    BY DEF Row, RowWith
  <2>2. BackoffUntil(x.failures + 1, k) \in Nat
    BY <2>1, BackoffType
  <2> QED
    BY <2>1, <2>2 DEF ApplyFailure, Row, RowWith, Status, Health
<1>3. ApplyDeliveryFailure(x) \in Row /\ ApplyDeliveryFailure(x).health = "degraded"
  BY DEF ApplyDeliveryFailure, Row, RowWith, Health, Kind
<1>4. ASSUME NEW s \in EditStatus
      PROVE  /\ ApplyPatch(x, s) \in Row
             /\ x.health = "degraded" => ApplyPatch(x, s).health = "degraded"
  BY DEF ApplyPatch, EditStatus, Row, RowWith, Status, Health, NoTime
<1> QED
  BY <1>1, <1>2, <1>3, <1>4

\* A decision is what its ranking says, and typed.
LEMMA DecidedRests ==
    ASSUME TypeOK, NEW results \in [Member -> Result], Succeeded(results) # {}
    PROVE  LET run == Decided(latest, results)
           IN  /\ RestsOnRanking(run) /\ run.results = results
               /\ run.winner \in Succeeded(results)
               /\ run.winner \in Member /\ run.runnerUp \in Member \cup {NoMember}
               /\ run.price = Effective(results[run.winner]) /\ run.price \in Nat
               /\ run.spread \in Nat \cup {NoPrice}
               /\ run.reason \in Reason /\ run.status \in {"succeeded", "failed"}
<1> DEFINE run == Decided(latest, results)
           able == Succeeded(results)
           r   == Ranking(results)
           n   == Cardinality(able)
<1>1. /\ n \in Nat \ {0}
      /\ r[1] \in able /\ \A m \in able \ {r[1]} : Before(results, r[1], m)
      /\ n # 1 => r[2] \in able /\ r[2] # r[1]
  BY RankedIsBest
<1>2. able \subseteq Member
  BY DEF Succeeded
<1>3. /\ run.results = results /\ run.winner = r[1]
      /\ run.price = Effective(results[r[1]])
      /\ run.runnerUp = IF n = 1 THEN NoMember ELSE r[2]
      /\ run.spread = IF n = 1 THEN NoPrice ELSE Spread(results[r[1]], results[r[2]])
      /\ run.status \in {"succeeded", "failed"}
  BY DEF Decided
<1>4. run.reason \in Reason
  BY DEF Decided, DecisionReason, Reason
<1>5. \A m \in able : Effective(results[m]) \in Nat
  BY ResultNumbers
<1>6. n # 1 => Spread(results[r[1]], results[r[2]]) \in Nat
  <2>1. SUFFICES ASSUME n # 1 PROVE Spread(results[r[1]], results[r[2]]) \in Nat
    OBVIOUS
  <2>2. /\ r[1] \in able /\ r[2] \in able /\ Before(results, r[1], r[2])
        /\ Effective(results[r[1]]) \in Nat /\ Effective(results[r[2]]) \in Nat
    BY <1>1, <1>5, <2>1
  <2>3. Effective(results[r[1]]) <= Effective(results[r[2]])
    BY <2>2, BeforeIsNoDearer
  <2> QED
    BY <2>2, <2>3 DEF Spread
<1>7. RestsOnRanking(run)
  <2> HIDE DEF run
  <2> QED
    BY <1>3 DEF RestsOnRanking
<1> HIDE DEF run, able, r, n
<1>8. /\ run.winner \in able /\ run.winner \in Member /\ run.runnerUp \in Member \cup {NoMember}
      /\ run.price = Effective(results[run.winner]) /\ run.price \in Nat
      /\ run.spread \in Nat \cup {NoPrice}
  BY <1>1, <1>2, <1>3, <1>5, <1>6
<1> QED
  BY <1>3, <1>4, <1>7, <1>8 DEF run, able

\* A run in which nothing was fetched has nothing to say.
LEMMA NoSuccessRests ==
    ASSUME NEW results
    PROVE  LET run == NoSuccess(results)
           IN  /\ run.results = results /\ run.status \in {"failed", "blocked"}
               /\ run.winner = NoMember /\ run.runnerUp = NoMember
               /\ run.price = NoPrice /\ run.spread = NoPrice /\ run.reason = "none"
BY DEF NoSuccess, NoRun

\* A new group has decided nothing.
LEMMA DecisionInitLemma == Init => DecisionInv
<1> SUFFICES ASSUME Init PROVE DecisionInv
  OBVIOUS
<1>1. latest = NoRun /\ mail = "none" /\ row = FreshRow /\ known = NoDecision /\ left = Runs
      /\ threshold \in ThresholdTypes
  BY DEF Init
<1>2. /\ NoRun.results \in [Member -> Result] /\ NoRun.status = "absent" /\ NoRun.winner = NoMember
      /\ NoRun.runnerUp = NoMember /\ NoRun.price = NoPrice /\ NoRun.spread = NoPrice
      /\ NoRun.reason = "none"
  BY DEF NoRun, NoResults, Result, NoPrice
<1>3. Succeeded(NoRun.results) = {}
  BY DEF NoRun, NoResults, Succeeded
<1>4. TypeOK
  BY <1>1, <1>2, NewRowType, DecisionAssumption DEF TypeOK, Reason, NoDecision
<1> QED
  BY <1>1, <1>2, <1>3, <1>4 DEF DecisionInv

\* A run keeps it, and mails of a fall only if there was one.
LEMMA RunKeepsDecision ==
    ASSUME DecisionInv, RunGroup
    PROVE  /\ DecisionInv'
           /\ mail' # "none" /\ threshold = "price_drop_percent" =>
                /\ latest'.price <= known'.price
                /\ ThresholdValue > 0 => latest'.price < known'.price
<1>1. TypeOK /\ row \in Row /\ left \in 0 .. Runs /\ left > 0 /\ left' = left - 1 /\ threshold' = threshold
  BY DEF DecisionInv, TypeOK, RunGroup
<1>2. PICK results \in [Member -> Result] :
        LET run == IF Succeeded(results) = {} THEN NoSuccess(results) ELSE Decided(latest, results)
            healed == Verdict(run)
        IN  /\ latest' = run
            /\ \/ mail' = "none" /\ row' = healed
               \/ /\ run.status = "succeeded"
                  /\ ShouldNotify(latest, results[run.winner])
                  /\ \/ mail' = "sent" /\ row' = healed
                     \/ mail' = "failed" /\ row' = ApplyDeliveryFailure(healed)
  BY DEF RunGroup
<1> DEFINE run    == IF Succeeded(results) = {} THEN NoSuccess(results) ELSE Decided(latest, results)
           healed == Verdict(run)
<1>3. /\ latest' = run
      /\ \/ mail' = "none" /\ row' = healed
         \/ /\ run.status = "succeeded"
            /\ ShouldNotify(latest, results[run.winner])
            /\ \/ mail' = "sent" /\ row' = healed
               \/ mail' = "failed" /\ row' = ApplyDeliveryFailure(healed)
  BY <1>2
<1>4. known' = IF latest.winner = NoMember THEN known
               ELSE [winner |-> latest.winner, price |-> latest.price]
  BY DEF RunGroup
<1>5. Succeeded(results) = {} =>
        /\ run.results = results /\ run.status \in {"failed", "blocked"}
        /\ run.winner = NoMember /\ run.runnerUp = NoMember
        /\ run.price = NoPrice /\ run.spread = NoPrice /\ run.reason \in Reason
  BY NoSuccessRests DEF Reason
<1>6. Succeeded(results) # {} =>
        /\ RestsOnRanking(run) /\ run.results = results
        /\ run.winner \in Succeeded(results)
        /\ run.winner \in Member /\ run.runnerUp \in Member \cup {NoMember}
        /\ run.price = Effective(results[run.winner]) /\ run.price \in Nat
        /\ run.spread \in Nat \cup {NoPrice}
        /\ run.reason \in Reason /\ run.status \in {"succeeded", "failed"}
  BY <1>1, DecidedRests
<1> HIDE DEF run
<1>7. healed \in Row
  <2>1. ApplySuccess(row) \in Row /\ \A x \in Row, k \in Kind : ApplyFailure(x, k) \in Row
    BY <1>1, RowStaysRow
  <2> QED
    BY <1>1, <2>1 DEF Verdict, Kind
<1> HIDE DEF healed
<1>8. row' \in Row /\ (mail' = "failed" => row'.health = "degraded") /\ mail' \in {"none", "sent", "failed"}
  BY <1>3, <1>7, RowStaysRow
<1>9. TypeOK'
  <2>1. latest'.status \in {"absent", "succeeded", "failed", "blocked"} /\ latest'.results \in [Member -> Result]
        /\ latest'.winner \in Member \cup {NoMember} /\ latest'.runnerUp \in Member \cup {NoMember}
        /\ latest'.price \in Nat \cup {NoPrice} /\ latest'.spread \in Nat \cup {NoPrice} /\ latest'.reason \in Reason
    BY <1>3, <1>5, <1>6
  <2>2. known'.winner \in Member \cup {NoMember}
    BY <1>1, <1>4 DEF TypeOK
  <2>3. left' \in 0 .. Runs
    BY <1>1, DecisionAssumption
  <2>4. threshold' \in ThresholdTypes
    BY <1>1 DEF TypeOK
  <2> QED
    BY <1>8, <2>1, <2>2, <2>3, <2>4 DEF TypeOK
<1>10. DecisionInv'
  <2>1. latest'.winner = NoMember => Succeeded(results) = {}
    BY <1>3, <1>6, DecisionAssumption
  <2>2. latest'.winner # NoMember => RestsOnRanking(latest')
    BY <1>3, <1>5, <1>6
  <2>3. latest'.winner = NoMember =>
          /\ Succeeded(latest'.results) = {} /\ latest'.runnerUp = NoMember
          /\ latest'.price = NoPrice /\ latest'.spread = NoPrice
          /\ latest'.status # "succeeded"
    BY <1>3, <1>5, <2>1
  <2> QED
    BY <1>8, <1>9, <2>2, <2>3 DEF DecisionInv
<1>11. ASSUME mail' # "none", threshold = "price_drop_percent"
       PROVE  /\ latest'.price <= known'.price
              /\ ThresholdValue > 0 => latest'.price < known'.price
  <2>1. run.status = "succeeded" /\ ShouldNotify(latest, results[run.winner])
    BY <1>3, <1>11
  <2>2. DropReached(latest, results[run.winner])
    BY <1>11, <2>1 DEF ShouldNotify
  <2>3. run.price = Effective(results[run.winner]) /\ run.price \in Nat
    BY <1>5, <1>6, <2>1
  <2>4. latest.price \in Nat \cup {NoPrice} /\ latest.price > 0
    BY <1>1, <2>2 DEF DropReached, TypeOK
  <2>5. latest.price \in Nat \ {0} /\ latest.winner # NoMember
    BY <2>4 DEF NoPrice, DecisionInv
  <2>6. known'.price = latest.price
    BY <1>4, <2>5
  <2>7. (latest.price - run.price) * 100 >= ThresholdValue * latest.price
    BY <2>2, <2>3 DEF DropReached
  <2> DEFINE p == latest.price
             q == run.price
             t == ThresholdValue
  <2>8. p \in Nat \ {0} /\ q \in Nat /\ t \in Nat /\ (p - q) * 100 >= t * p
    BY <2>3, <2>5, <2>7, DecisionAssumption
  <2> HIDE DEF p, q, t
  <2>9. t * p \in Nat /\ (t > 0 => t * p > 0)
    BY <2>8, SMT
  <2>10. q <= p /\ (t > 0 => q < p)
    BY <2>8, <2>9, SMT
  <2> QED
    BY <1>3, <2>6, <2>10 DEF p, q, t
<1> QED
  BY <1>10, <1>11

\* A PATCH changes the row and the threshold only.
LEMMA UpdateKeepsDecision == ASSUME DecisionInv, UpdateGroup PROVE DecisionInv'
<1>1. PICK status \in EditStatus, type \in ThresholdTypes :
        row' = ApplyPatch(row, status) /\ threshold' = type
  BY DEF UpdateGroup
<1>2. latest' = latest /\ mail' = mail /\ known' = known /\ left' = left
  BY DEF UpdateGroup
<1>3. row' \in Row /\ (row.health = "degraded" => row'.health = "degraded")
  BY <1>1, RowStaysRow DEF DecisionInv, TypeOK
<1>4. TypeOK'
  BY <1>1, <1>2, <1>3 DEF DecisionInv, TypeOK
<1>5. RestsOnRanking(latest') = RestsOnRanking(latest)
  BY <1>2
<1> QED
  BY <1>2, <1>3, <1>4 DEF DecisionInv

\* Every step of a group keeps it.
LEMMA DecisionStepLemma == DecisionInv /\ [Next]_vars => DecisionInv'
<1> SUFFICES ASSUME DecisionInv, [Next]_vars PROVE DecisionInv'
  OBVIOUS
<1>1. CASE RunGroup
  BY <1>1, RunKeepsDecision
<1>2. CASE UpdateGroup
  BY <1>2, UpdateKeepsDecision
<1>3. CASE UNCHANGED vars
  BY <1>3 DEF vars, DecisionInv, TypeOK
<1> QED
  BY <1>1, <1>2, <1>3 DEF Next

\* What a group decides, says on its page and mails is borne out by the results
\* of its runs, for any members, stores, prices and thresholds: the winner is
\* the best of the fetched, the explanation is that of the ranking, a decision
\* called strong is, and a mail about a fall follows one (run_watch_group,
\* build_watch_group_decision_explain, should_notify_group).
THEOREM DecisionsAreSound == Spec => []TypeOK /\ DecisionIsSound
<1>1. DecisionInv => TypeOK /\ WinnerIsBest /\ ExplanationAgrees /\ StrongIsEarned
  BY WinnerIsRight, ExplanationIsRight, StrongIsRight DEF DecisionInv
<1>2. DecisionInv /\ [Next]_vars =>
        [left' < left /\ mail' # "none" /\ threshold = "price_drop_percent" =>
           /\ latest'.price <= known'.price
           /\ ThresholdValue > 0 => latest'.price < known'.price]_vars
  <2> SUFFICES ASSUME DecisionInv, [Next]_vars, left' < left
               PROVE  mail' # "none" /\ threshold = "price_drop_percent" =>
                        /\ latest'.price <= known'.price
                        /\ ThresholdValue > 0 => latest'.price < known'.price
    BY DEF vars
  <2>1. left \in Nat
    BY DEF DecisionInv, TypeOK
  <2>2. RunGroup
    BY <2>1 DEF Next, UpdateGroup, vars
  <2> QED
    BY <2>2, RunKeepsDecision
<1> QED
  BY DecisionInitLemma, DecisionStepLemma, <1>1, <1>2, PTL DEF Spec, DecisionIsSound, DropAlertsAreFalls

-------------------------------------------------------------------------------
(* The replay of the failures.                                               *)

\* Where an entry can be, and what can come of it.
Whereabouts == {"left", "queued", "fetching", "resting", "done", "raised"}
\* The results.
EndsOfFetch ==
    [status : {"none", "replayed", "fetch_failed", "budget_exhausted"},
     cause : {"none", "spent", "client", "error"}, at : Nat]

\* What a replay rests on: only the entries it took are anywhere, an entry is
\* done when it has its result, a retry is granted only for a failed fetch, and
\* what is granted is off the budget.
ReplayInv ==
    /\ replayStage \in {"idle", "replaying", "told", "nothing", "raised"}
    /\ lines \in SeqOf(Urls \cup {NoUrl}, MaxLines)
    /\ second \in 1 .. MaxSecond
    /\ fetch \in [Slot -> Whereabouts] /\ result \in [Slot -> EndsOfFetch]
    /\ tries \in [Slot -> Nat] /\ granted \in [Slot -> Nat]
    /\ budget \in 0 .. Budget
    /\ DOMAIN diffs = Urls \X (1 .. MaxSecond)
    /\ \A i \in Slot : /\ fetch[i] # "left" => i \in Taken
                       /\ fetch[i] = "done" <=> result[i].status # "none"
                       /\ granted[i] <= tries[i] /\ granted[i] <= MaxRetries
                       /\ tries[i] <= MaxRetries + 1
                       /\ fetch[i] \notin {"done", "raised"} => tries[i] <= MaxRetries
                       /\ result[i].status # "none" => result[i].at \in 1 .. MaxSecond
    /\ replayStage = "idle" => \A i \in Slot : fetch[i] = "left"
    /\ Budget > 0 => Total(granted, Slot) = Budget - budget
    /\ \A i \in Slot : result[i].cause = "spent" => Budget > 0 /\ budget = 0 /\ tries[i] <= MaxRetries
                                                     /\ fetch[i] = "done"
    /\ \A i \in Slot : result[i].status = "none" => result[i].cause = "none"
    /\ DiffIsOfItsPage
    /\ replayStage # "told" => told = <<>> /\ report = NoReport
    /\ replayStage = "told" =>
          /\ \A i \in Slot : fetch[i] = "done" <=> i \in Taken
          /\ told = InOrder /\ report = Summary

-----------------------------------------------------------------------------
(* The entries.                                                             *)

\* The slots are finitely many, and so are the entries with a page.
LEMMA SlotsFinite ==
    ASSUME lines \in SeqOf(Urls \cup {NoUrl}, MaxLines)
    PROVE  /\ MaxLines \in Nat /\ IsFiniteSet(Slot) /\ Slot \subseteq Nat
           /\ Len(lines) \in 0 .. MaxLines /\ DOMAIN lines = 1 .. Len(lines)
           /\ \A i \in 1 .. Len(lines) : lines[i] \in Urls \cup {NoUrl}
           /\ Paged \subseteq Slot /\ Taken \subseteq Paged
           /\ \A i \in Paged : lines[i] \in Urls
<1>1. MaxLines \in Nat
  BY ReplayAssumption
<1>2. IsFiniteSet(Slot) /\ Slot \subseteq Nat
  BY <1>1, FS_Interval DEF Slot
<1>3. PICK m \in 0 .. MaxLines : lines \in [1 .. m -> Urls \cup {NoUrl}]
  BY DEF SeqOf
<1>4. Len(lines) = m /\ DOMAIN lines = 1 .. m
  BY <1>1, <1>3
<1>5. Paged \subseteq Slot /\ Taken \subseteq Paged /\ \A i \in Paged : lines[i] \in Urls
  BY <1>1, <1>3, <1>4 DEF Paged, Taken, Slot
<1> QED
  BY <1>1, <1>2, <1>3, <1>4, <1>5

\* A replay takes no more entries than it may.
LEMMA TakenFew ==
    ASSUME lines \in SeqOf(Urls \cup {NoUrl}, MaxLines)
    PROVE  IsFiniteSet(Taken) /\ Cardinality(Taken) \in 0 .. MaxEntries
<1> DEFINE Upto(i) == {j \in Paged : j <= i}
           f == [i \in Taken |-> Cardinality(Upto(i))]
<1>1. MaxEntries \in Nat
  BY ReplayAssumption
<1>2. /\ IsFiniteSet(Slot) /\ Slot \subseteq Nat
      /\ Paged \subseteq Slot /\ Taken \subseteq Paged
  BY SlotsFinite
<1>3. \A i \in Paged : IsFiniteSet(Upto(i)) /\ Cardinality(Upto(i)) \in Nat \ {0}
  <2> TAKE i \in Paged
  <2>0. i \in Nat /\ i <= i
    BY <1>2
  <2>1. Upto(i) \in SUBSET Slot /\ i \in Upto(i)
    <3>1. Upto(i) \subseteq Paged
      OBVIOUS
    <3>2. i \in Upto(i)
      BY <2>0
    <3> QED
      BY <1>2, <3>1, <3>2
  <2> HIDE DEF Upto
  <2>2. IsFiniteSet(Upto(i)) /\ Cardinality(Upto(i)) \in Nat
    BY <1>2, <2>1, FS_Subset, FS_CardinalityType
  <2> QED
    BY <2>1, <2>2, FS_EmptySet
<1>4. \A i \in Taken : Cardinality(Upto(i)) <= MaxEntries
  BY DEF Taken
<1>5. \A i, k \in Taken : i < k => Cardinality(Upto(i)) < Cardinality(Upto(k))
  <2> TAKE i, k \in Taken
  <2>1. SUFFICES ASSUME i < k PROVE Cardinality(Upto(i)) < Cardinality(Upto(k))
    OBVIOUS
  <2>0. i \in Nat /\ k \in Nat /\ k \in Paged /\ Paged \subseteq Nat
    BY <1>2
  <2>2. Upto(i) \in SUBSET (Upto(k) \ {k}) /\ k \in Upto(k)
    <3>1. ASSUME NEW j \in Upto(i) PROVE j \in Upto(k) /\ j # k
      BY <2>0, <2>1, <3>1
    <3>2. k \in Upto(k)
      BY <2>0
    <3> HIDE DEF Upto
    <3> QED
      BY <3>1, <3>2
  <2> HIDE DEF Upto
  <2>3. IsFiniteSet(Upto(k) \ {k}) /\ Cardinality(Upto(k) \ {k}) = Cardinality(Upto(k)) - 1
    BY <1>2, <1>3, <2>2, FS_RemoveElement
  <2>4. Cardinality(Upto(i)) <= Cardinality(Upto(k)) - 1
    BY <2>2, <2>3, FS_Subset
  <2>5. Cardinality(Upto(i)) \in Nat /\ Cardinality(Upto(k)) \in Nat
    BY <1>2, <1>3
  <2> QED
    BY <2>4, <2>5
<1> HIDE DEF Upto
<1>6. f \in Injection(Taken, 1 .. MaxEntries)
  <2>1. f \in [Taken -> 1 .. MaxEntries]
    BY <1>1, <1>2, <1>3, <1>4
  <2>2. ASSUME NEW i \in Taken, NEW k \in Taken, f[i] = f[k] PROVE i = k
    <3>1. Cardinality(Upto(i)) \in Nat /\ Cardinality(Upto(i)) = Cardinality(Upto(k))
      BY <1>2, <1>3, <2>2
    <3>2. ~(i < k) /\ ~(k < i)
      BY <1>5, <3>1
    <3>3. i \in Nat /\ k \in Nat
      BY <1>2
    <3> QED
      BY <3>2, <3>3
  <2> HIDE DEF f
  <2> QED
    BY <2>1, <2>2 DEF Injection, IsInjective
<1>7. IsFiniteSet(1 .. MaxEntries) /\ Cardinality(1 .. MaxEntries) = MaxEntries
  BY <1>1, FS_Interval
<1> HIDE DEF f
<1>8. IsFiniteSet(Taken) /\ Cardinality(Taken) <= MaxEntries
  BY <1>6, <1>7, FS_Injection
<1> QED
  BY <1>1, <1>8, FS_CardinalityType

\* The numbers in their order.
Rising == {p \in Nat \X Nat : p[1] < p[2]}

\* What is told of is what was done, each once and in order.
LEMMA ToldInOrder ==
    ASSUME NEW D \in SUBSET Nat, IsFiniteSet(D)
    PROVE  LET s == CHOOSE s \in [1 .. Cardinality(D) -> D] : \A i, j \in DOMAIN s : i < j => s[i] < s[j]
           IN  /\ s \in [1 .. Cardinality(D) -> D] /\ Len(s) = Cardinality(D)
               /\ ToSet(s) = D
               /\ \A i, j \in 1 .. Len(s) : i < j => s[i] < s[j]
<1> DEFINE n == Cardinality(D)
           Fits(t) == \A i, j \in DOMAIN t : i < j => t[i] < t[j]
           s == CHOOSE t \in [1 .. n -> D] : Fits(t)
<1>1. n \in Nat
  BY FS_CardinalityType
<1>2. Orders(Rising, D)
  BY DEF Orders, Rising
<1>3. PICK t : Lists(t, D, Rising)
  BY <1>2, SetSorts
<1>4. t \in [1 .. n -> D] /\ \A i, j \in 1 .. n : i < j => t[i] < t[j]
  BY <1>3 DEF Lists, Rising
<1>5. Fits(t)
  BY <1>4
<1> HIDE DEF Fits, n
<1>6. s \in [1 .. n -> D] /\ Fits(s)
  BY <1>4, <1>5
<1> HIDE DEF s
<1>7. DOMAIN s = 1 .. n
  BY <1>6
<1>8. \A i, j \in 1 .. n : i < j => s[i] < s[j]
  BY <1>6, <1>7 DEF Fits
<1>9. Lists(s, D, Rising)
  BY <1>6, <1>8 DEF Lists, Rising, n
<1>10. \A x \in D : \E i \in 1 .. n : s[i] = x
  BY <1>2, <1>9, SortedIsAll DEF n
<1>11. ToSet(s) = D
  BY <1>6, <1>7, <1>10 DEF ToSet
<1>12. Len(s) = n
  BY <1>1, <1>6
<1> QED
  BY <1>6, <1>8, <1>11, <1>12 DEF s, n, Fits

-----------------------------------------------------------------------------
(* What follows.                                                            *)

\* The sum of the retries is the library's.
LEMMA GrantedTotal == MapThenSumSet(LAMBDA i : granted[i], Slot) = Total(granted, Slot)
BY TotalIsFold

\* The types.
LEMMA ReplayIsTyped == ASSUME ReplayInv PROVE ReplayTypeOK
<1>1. lines \in SeqOf(Urls \cup {NoUrl}, MaxLines)
  BY DEF ReplayInv
<1>2. /\ Len(lines) \in 0 .. MaxLines /\ MaxLines \in Nat /\ IsFiniteSet(Slot) /\ Slot \subseteq Nat
      /\ \A i \in 1 .. Len(lines) : lines[i] \in Urls \cup {NoUrl}
      /\ Taken \subseteq Slot
  BY <1>1, SlotsFinite
<1>3. MaxRetries \in Nat /\ Budget \in Nat /\ MaxEntries \in Nat
  BY ReplayAssumption
<1>4. \A i \in Slot : tries[i] \in 0 .. MaxRetries + 1 /\ granted[i] \in 0 .. MaxRetries
  BY <1>3 DEF ReplayInv
<1>5. \A i \in Slot : /\ result[i].status \in {"none", "replayed", "fetch_failed", "budget_exhausted"}
                      /\ result[i].cause \in {"none", "spent", "client", "error"}
  BY DEF ReplayInv, EndsOfFetch
<1>6. CASE replayStage # "told"
  <2>1. told = <<>> /\ report.total = 0 /\ report.used = 0
    BY <1>6 DEF ReplayInv, NoReport
  <2>2. Len(told) = 0
    <3>1. ASSUME NEW s, s = <<>> PROVE Len(s) = 0
      BY <3>1
    <3> QED
      BY <2>1, <3>1
  <2>3. \A i \in 1 .. Len(told) : told[i] \in Slot
    BY <2>2
  <2> QED
    BY <1>2, <1>3, <1>4, <1>5, <2>1, <2>3 DEF ReplayInv, ReplayTypeOK, Whereabouts
<1>7. CASE replayStage = "told"
  <2> DEFINE D == {i \in Slot : fetch[i] = "done"}
  <2>1. D = Taken
    BY <1>2, <1>7 DEF ReplayInv
  <2>2. IsFiniteSet(D) /\ Cardinality(D) \in 0 .. MaxEntries
    BY <1>1, <2>1, TakenFew
  <2>3. told \in [1 .. Cardinality(D) -> D] /\ Len(told) = Cardinality(D)
    <3>1. D \in SUBSET Nat
      BY <1>2
    <3>2. told = CHOOSE s \in [1 .. Cardinality(D) -> D] : \A i, j \in DOMAIN s : i < j => s[i] < s[j]
      BY <1>7 DEF ReplayInv, InOrder
    <3> HIDE DEF D
    <3> QED
      BY <2>2, <3>1, <3>2, ToldInOrder
  <2>4. report.total = Cardinality(D) /\ report.used = IF Budget = 0 THEN 0 ELSE Budget - budget
    BY <1>7 DEF ReplayInv, Summary
  <2>5. report.used \in 0 .. Budget
    BY <1>3, <2>4 DEF ReplayInv
  <2>6. \A i \in 1 .. Len(told) : told[i] \in Slot
    BY <2>3
  <2> HIDE DEF D
  <2> QED
    BY <1>2, <1>3, <1>4, <1>5, <2>2, <2>4, <2>5, <2>6 DEF ReplayInv, ReplayTypeOK, Whereabouts
<1> QED
  BY <1>6, <1>7

\* What is told.
LEMMA ToldIsWhole == ASSUME ReplayInv PROVE ReplayTellsEachOnce /\ RetriesArePaid
<1>1. lines \in SeqOf(Urls \cup {NoUrl}, MaxLines)
  BY DEF ReplayInv
<1>2. Slot \subseteq Nat /\ Taken \subseteq Slot
  BY <1>1, SlotsFinite
<1>3. ReplayTellsEachOnce
  <2>1. SUFFICES ASSUME replayStage = "told"
                 PROVE  /\ ToSet(told) = Taken /\ Len(told) = Cardinality(Taken)
                        /\ \A i, j \in 1 .. Len(told) : i < j => told[i] < told[j]
                        /\ report.total = Len(told)
                        /\ report.replayed = Cardinality({i \in Taken : result[i].status = "replayed"})
    BY DEF ReplayTellsEachOnce
  <2> DEFINE D == {i \in Slot : fetch[i] = "done"}
  <2>2. D = Taken /\ told = InOrder /\ report = Summary
    BY <1>2, <2>1 DEF ReplayInv
  <2>3. report.total = Cardinality(D) /\ report.replayed = Cardinality({i \in Slot : result[i].status = "replayed"})
    BY <2>2 DEF Summary
  <2>4. {i \in Slot : result[i].status = "replayed"} = {i \in Taken : result[i].status = "replayed"}
    BY <1>2, <2>1 DEF ReplayInv
  <2>5. told = CHOOSE s \in [1 .. Cardinality(D) -> D] : \A i, j \in DOMAIN s : i < j => s[i] < s[j]
    BY <2>2 DEF InOrder
  <2>6. IsFiniteSet(D) /\ D \in SUBSET Nat
    BY <1>1, <1>2, <2>2, TakenFew
  <2> HIDE DEF D
  <2>7. /\ ToSet(told) = D /\ Len(told) = Cardinality(D)
        /\ \A i, j \in 1 .. Len(told) : i < j => told[i] < told[j]
    BY <2>5, <2>6, ToldInOrder
  <2> QED
    BY <2>2, <2>3, <2>4, <2>7
<1>4. RetriesArePaid
  <2>1. Budget > 0 => Total(granted, Slot) = Budget - budget
    BY DEF ReplayInv
  <2>2. replayStage = "told" /\ Budget > 0 => report.used = Budget - budget
    BY DEF ReplayInv, Summary
  <2>3. \A i \in Slot : result[i].cause = "spent" => budget = 0 /\ tries[i] <= MaxRetries
    BY DEF ReplayInv
  <2> QED
    BY <2>1, <2>2, <2>3, GrantedTotal DEF RetriesArePaid
<1> QED
  BY <1>3, <1>4

-----------------------------------------------------------------------------
(* The steps.                                                               *)

\* Nothing has been replayed yet.
LEMMA ReplayInitLemma == ReplayInit => ReplayInv
<1> SUFFICES ASSUME ReplayInit PROVE ReplayInv
  OBVIOUS
<1>1. /\ replayStage = "idle" /\ lines \in SeqOf(Urls \cup {NoUrl}, MaxLines) /\ second = 1
      /\ fetch = [i \in Slot |-> "left"] /\ tries = [i \in Slot |-> 0] /\ granted = [i \in Slot |-> 0]
      /\ budget = Budget /\ result = [i \in Slot |-> NoResult]
      /\ diffs = [f \in Urls \X (1 .. MaxSecond) |-> 0] /\ told = <<>> /\ report = NoReport
  BY DEF ReplayInit
<1>2. MaxSecond \in Nat \ {0} /\ Budget \in Nat /\ MaxRetries \in Nat
  BY ReplayAssumption
<1>3. NoResult \in EndsOfFetch /\ NoResult.status = "none" /\ NoResult.cause = "none"
  BY DEF NoResult, EndsOfFetch
<1>4. fetch \in [Slot -> Whereabouts] /\ result \in [Slot -> EndsOfFetch] /\ tries \in [Slot -> Nat]
      /\ granted \in [Slot -> Nat]
  BY <1>1, <1>3 DEF Whereabouts
<1>5. \A i \in Slot : fetch[i] = "left" /\ result[i] = NoResult /\ tries[i] = 0 /\ granted[i] = 0
  BY <1>1
<1>6. Total(granted, Slot) = 0
  <2>1. IsFiniteSet(Slot)
    BY <1>1, SlotsFinite
  <2> QED
    BY <1>5, <2>1, TotalIsNat
<1>7. DiffIsOfItsPage
  BY <1>3, <1>5 DEF DiffIsOfItsPage
<1>8. DOMAIN diffs = Urls \X (1 .. MaxSecond)
  BY <1>1
<1>9. \A i \in Slot : /\ fetch[i] = "done" <=> result[i].status # "none"
                      /\ granted[i] <= tries[i] /\ granted[i] <= MaxRetries
                      /\ tries[i] <= MaxRetries + 1 /\ tries[i] <= MaxRetries
                      /\ result[i].status = "none" /\ result[i].cause # "spent"
  BY <1>2, <1>3, <1>5
<1> QED
  BY <1>1, <1>2, <1>3, <1>4, <1>5, <1>6, <1>7, <1>8, <1>9 DEF ReplayInv

\* An entry that moves without a result, and may get a retry.
LEMMA MovingKeepsReplay ==
    ASSUME ReplayInv, replayStage = "replaying", NEW i \in Slot, i \in Taken,
           fetch[i] # "done", NEW w \in Whereabouts \ {"left", "done"},
           fetch' = [fetch EXCEPT ![i] = w],
           replayStage' \in {"replaying", "raised"},
           UNCHANGED <<lines, second, result, diffs, told, report>>,
           tries' \in [Slot -> Nat], granted' \in [Slot -> Nat], budget' \in 0 .. Budget,
           \A j \in Slot \ {i} : tries'[j] = tries[j] /\ granted'[j] = granted[j],
           tries'[i] <= MaxRetries + 1, w # "raised" => tries'[i] <= MaxRetries,
           granted'[i] <= tries'[i], granted'[i] <= MaxRetries,
           Budget > 0 => budget' - budget = granted[i] - granted'[i],
           budget = 0 => budget' = 0
    PROVE  ReplayInv'
<1>1. /\ lines' = lines /\ second' = second /\ result' = result /\ diffs' = diffs /\ told' = told
      /\ report' = report /\ Taken' = Taken
  BY DEF Taken, Paged
<1>2. /\ fetch' \in [Slot -> Whereabouts] /\ fetch'[i] = w
      /\ \A j \in Slot \ {i} : fetch'[j] = fetch[j]
  BY DEF ReplayInv
<1>3. \A j \in Slot : /\ fetch'[j] # "left" => j \in Taken
                      /\ fetch'[j] = "done" <=> fetch[j] = "done"
  BY <1>2 DEF ReplayInv
<1>4. \A j \in Slot : /\ granted'[j] <= tries'[j] /\ granted'[j] <= MaxRetries
                      /\ tries'[j] <= MaxRetries + 1
                      /\ fetch'[j] \notin {"done", "raised"} => tries'[j] <= MaxRetries
  <2> TAKE j \in Slot
  <2>1. CASE j = i
    BY <1>2, <2>1
  <2>2. CASE j # i
    BY <1>2, <2>2 DEF ReplayInv
  <2> QED
    BY <2>1, <2>2
<1>5. Budget > 0 => Total(granted', Slot) = Budget - budget'
  <2>1. SUFFICES ASSUME Budget > 0 PROVE Total(granted', Slot) = Budget - budget'
    OBVIOUS
  <2>2. IsFiniteSet(Slot) /\ Total(granted, Slot) = Budget - budget
    BY <2>1, SlotsFinite DEF ReplayInv
  <2>3. \A j \in Slot : granted[j] \in Nat /\ granted'[j] \in Nat
    BY DEF ReplayInv
  <2>4. Total(granted', Slot) + granted[i] = Total(granted, Slot) + granted'[i]
    BY <2>2, <2>3, TotalGrows
  <2>5. Total(granted', Slot) \in Nat
    BY <2>2, <2>3, TotalIsNat
  <2>6. Budget \in Nat /\ budget \in Nat /\ budget' \in Nat
    BY ReplayAssumption DEF ReplayInv
  <2>7. granted[i] \in Nat /\ granted'[i] \in Nat /\ budget' - budget = granted[i] - granted'[i]
    BY <2>1, <2>3
  <2> QED
    BY <2>2, <2>4, <2>5, <2>6, <2>7
<1>6. \A j \in Slot : result'[j].cause = "spent" => Budget > 0 /\ budget' = 0 /\ tries'[j] <= MaxRetries
                                                    /\ fetch'[j] = "done"
  <2> TAKE j \in Slot
  <2>1. SUFFICES ASSUME result[j].cause = "spent" PROVE Budget > 0 /\ budget' = 0 /\ tries'[j] <= MaxRetries
                                                        /\ fetch'[j] = "done"
    BY <1>1
  <2>2. fetch[j] = "done" /\ budget = 0 /\ Budget > 0 /\ tries[j] <= MaxRetries
    BY <2>1 DEF ReplayInv
  <2> QED
    BY <1>3, <2>2
<1>7. DiffIsOfItsPage'
  <2>1. DiffIsOfItsPage
    BY DEF ReplayInv
  <2> QED
    BY <1>1, <2>1, ZenonT(60) DEF DiffIsOfItsPage
<1>8. \A j \in Slot : /\ fetch'[j] = "done" <=> result'[j].status # "none"
                      /\ result'[j].status # "none" => result'[j].at \in 1 .. MaxSecond
                      /\ result'[j].status = "none" => result'[j].cause = "none"
  BY <1>1, <1>3 DEF ReplayInv
<1>9. told' = <<>> /\ report' = NoReport
  BY <1>1 DEF ReplayInv
<1>10. /\ lines' \in SeqOf(Urls \cup {NoUrl}, MaxLines) /\ second' \in 1 .. MaxSecond
       /\ result' \in [Slot -> EndsOfFetch] /\ DOMAIN diffs' = Urls \X (1 .. MaxSecond)
  BY <1>1 DEF ReplayInv
<1> QED
  BY <1>1, <1>2, <1>3, <1>4, <1>5, <1>6, <1>7, <1>8, <1>9, <1>10 DEF ReplayInv

\* An entry that gets its result.
LEMMA ResultKeepsReplay ==
    ASSUME ReplayInv, replayStage = "replaying", NEW i \in Slot, fetch[i] = "fetching",
           NEW s \in {"replayed", "fetch_failed", "budget_exhausted"},
           NEW c \in {"none", "spent", "client", "error"},
           Resolve(i, s, c), UNCHANGED <<replayStage, lines, second, granted, budget, told, report>>,
           tries' \in [Slot -> Nat], \A j \in Slot \ {i} : tries'[j] = tries[j],
           tries[i] <= tries'[i], tries'[i] <= MaxRetries + 1,
           c = "spent" => Budget > 0 /\ budget = 0 /\ tries'[i] <= MaxRetries,
           s # "replayed" => UNCHANGED diffs,
           s = "replayed" => diffs' = [diffs EXCEPT ![<<lines[i], second>>] = i]
    PROVE  ReplayInv'
<1>1. /\ replayStage' = "replaying" /\ lines' = lines /\ second' = second /\ granted' = granted
      /\ budget' = budget /\ told' = told /\ report' = report /\ Taken' = Taken
  BY DEF Taken, Paged
<1>2. /\ fetch' = [fetch EXCEPT ![i] = "done"]
      /\ result' = [result EXCEPT ![i] = [status |-> s, cause |-> c, at |-> second]]
  BY DEF Resolve
<1>3. /\ fetch' \in [Slot -> Whereabouts] /\ fetch'[i] = "done"
      /\ \A j \in Slot \ {i} : fetch'[j] = fetch[j]
  BY <1>2 DEF ReplayInv, Whereabouts
<1>4. second \in 1 .. MaxSecond /\ second \in Nat
  BY ReplayAssumption DEF ReplayInv
<1>5. /\ result' \in [Slot -> EndsOfFetch]
      /\ result'[i].status = s /\ result'[i].cause = c /\ result'[i].at = second
      /\ \A j \in Slot \ {i} : result'[j] = result[j]
  <2>1. [status |-> s, cause |-> c, at |-> second] \in EndsOfFetch
    BY <1>4 DEF EndsOfFetch
  <2> QED
    BY <1>2, <2>1 DEF ReplayInv
<1>6. i \in Taken
  BY DEF ReplayInv
<1>7. \A j \in Slot : /\ fetch'[j] # "left" => j \in Taken
                      /\ fetch'[j] = "done" <=> result'[j].status # "none"
                      /\ granted[j] <= tries'[j] /\ granted[j] <= MaxRetries
                      /\ tries'[j] <= MaxRetries + 1
                      /\ fetch'[j] \notin {"done", "raised"} => tries'[j] <= MaxRetries
                      /\ result'[j].status # "none" => result'[j].at \in 1 .. MaxSecond
                      /\ result'[j].status = "none" => result'[j].cause = "none"
                      /\ result'[j].cause = "spent" => Budget > 0 /\ budget = 0 /\ tries'[j] <= MaxRetries
                                                       /\ fetch'[j] = "done"
  <2> TAKE j \in Slot
  <2>1. CASE j = i
    <3>1. granted[i] \in Nat /\ tries[i] \in Nat /\ tries'[i] \in Nat /\ granted[i] <= tries[i]
          /\ granted[i] <= MaxRetries
      BY DEF ReplayInv
    <3> QED
      BY <1>3, <1>4, <1>5, <1>6, <2>1, <3>1
  <2>2. CASE j # i
    BY <1>3, <1>5, <2>2 DEF ReplayInv
  <2> QED
    BY <2>1, <2>2
<1>8. DOMAIN diffs' = Urls \X (1 .. MaxSecond)
  BY DEF ReplayInv
<1>9. DiffIsOfItsPage'
  <2>1. SUFFICES ASSUME NEW j \in Slot, result'[j].status = "replayed"
                 PROVE  LET holder == diffs'[<<lines[j], result'[j].at>>]
                        IN  holder = j \/ /\ holder \in Taken /\ lines[holder] = lines[j]
                                          /\ result'[holder].at = result'[j].at
                                          /\ result'[holder].status = "replayed"
    BY <1>1 DEF DiffIsOfItsPage
  <2> DEFINE key(k) == <<lines[k], result'[k].at>>
  <2>2. \A k \in Taken : k \in Slot /\ lines[k] \in Urls
    BY SlotsFinite DEF ReplayInv
  <2>3. key(i) = <<lines[i], second>> /\ key(i) \in DOMAIN diffs
    BY <1>4, <1>5, <1>6, <2>2 DEF ReplayInv
  <2>4. CASE j = i
    BY <1>5, <2>1, <2>3, <2>4
  <2>5. CASE j # i
    <3>1. result[j].status = "replayed" /\ result'[j] = result[j]
      BY <1>5, <2>1, <2>5
    <3> DEFINE old == diffs[key(j)]
    <3>2. old = j \/ /\ old \in Taken /\ lines[old] = lines[j]
                     /\ result[old].at = result[j].at /\ result[old].status = "replayed"
      <4>1. DiffIsOfItsPage
        BY DEF ReplayInv
      <4> QED
        BY <3>1, <4>1, ZenonT(60) DEF DiffIsOfItsPage
    <3>3. result[i].status = "none"
      BY DEF ReplayInv
    <3>4. old # i
      BY <2>5, <3>2, <3>3
    <3>5. old \in Slot /\ result'[old] = result[old]
      BY <1>5, <2>2, <3>2, <3>4
    <3>6. CASE s = "replayed" /\ key(j) = key(i)
      <4>1. diffs'[key(j)] = i
        BY <2>3, <3>6
      <4>2. lines[i] = lines[j] /\ result'[i].at = result'[j].at
        BY <3>6
      <4> QED
        BY <1>5, <1>6, <3>6, <4>1, <4>2
    <3>7. CASE ~(s = "replayed" /\ key(j) = key(i))
      <4>1. diffs'[key(j)] = old
        <5>1. CASE s # "replayed"
          BY <5>1
        <5>2. CASE s = "replayed" /\ key(j) # key(i)
          <6>1. j \in Taken
            <7>1. fetch[j] = "done"
              BY <3>1 DEF ReplayInv
            <7> QED
              BY <7>1 DEF ReplayInv
          <6>2. key(j) \in DOMAIN diffs
            <7>1. result[j].at \in 1 .. MaxSecond
              BY <3>1 DEF ReplayInv
            <7> QED
              BY <2>2, <3>1, <6>1, <7>1 DEF ReplayInv
          <6> HIDE DEF key
          <6> QED
            BY <2>3, <5>2, <6>2 DEF key
        <5> QED
          BY <3>7, <5>1, <5>2
      <4> HIDE DEF old
      <4> QED
        BY <3>1, <3>2, <3>5, <4>1
    <3> QED
      BY <3>6, <3>7
  <2> QED
    BY <2>4, <2>5
<1>10. /\ lines' \in SeqOf(Urls \cup {NoUrl}, MaxLines) /\ second' \in 1 .. MaxSecond
       /\ granted' \in [Slot -> Nat] /\ budget' \in 0 .. Budget
       /\ Budget > 0 => Total(granted', Slot) = Budget - budget'
       /\ told' = <<>> /\ report' = NoReport
  BY <1>1 DEF ReplayInv
<1> QED
  BY <1>1, <1>3, <1>5, <1>7, <1>8, <1>9, <1>10 DEF ReplayInv

\* A replay that begins queues the entries it takes, or ends at once.
LEMMA BeginKeepsReplay == ASSUME ReplayInv, BeginReplay PROVE ReplayInv'
<1>1. /\ UNCHANGED <<lines, second, tries, granted, budget, result, diffs, told, report>>
      /\ Taken' = Taken /\ replayStage = "idle"
      /\ \/ replayStage' = "nothing" /\ fetch' = fetch
         \/ /\ replayStage' = "replaying"
            /\ fetch' = [i \in Slot |-> IF i \in Taken THEN "queued" ELSE "left"]
  BY DEF BeginReplay, Taken, Paged
<1>2. \A i \in Slot : /\ fetch[i] = "left" /\ fetch[i] # "done" /\ result[i].status = "none"
                      /\ result[i].cause = "none" /\ tries[i] <= MaxRetries
  BY <1>1 DEF ReplayInv
<1>3. /\ fetch' \in [Slot -> Whereabouts]
      /\ \A i \in Slot : fetch'[i] \in {"left", "queued"} /\ (fetch'[i] # "left" => i \in Taken)
  BY <1>1, <1>2 DEF ReplayInv, Whereabouts
<1>4. \A i \in Slot : fetch'[i] # "done" /\ fetch'[i] # "raised"
  BY <1>3
<1>5. DiffIsOfItsPage'
  BY <1>1, <1>2 DEF DiffIsOfItsPage
<1>6. \A i \in Slot : /\ fetch'[i] # "left" => i \in Taken'
                      /\ fetch'[i] = "done" <=> result'[i].status # "none"
                      /\ granted'[i] <= tries'[i] /\ granted'[i] <= MaxRetries
                      /\ tries'[i] <= MaxRetries + 1
                      /\ fetch'[i] \notin {"done", "raised"} => tries'[i] <= MaxRetries
                      /\ result'[i].status # "none" => result'[i].at \in 1 .. MaxSecond
                      /\ result'[i].cause # "spent"
                      /\ result'[i].status = "none" => result'[i].cause = "none"
  BY <1>1, <1>2, <1>3, <1>4 DEF ReplayInv
<1>7. /\ lines' \in SeqOf(Urls \cup {NoUrl}, MaxLines) /\ second' \in 1 .. MaxSecond
      /\ result' \in [Slot -> EndsOfFetch] /\ tries' \in [Slot -> Nat]
      /\ granted' \in [Slot -> Nat] /\ budget' \in 0 .. Budget
      /\ DOMAIN diffs' = Urls \X (1 .. MaxSecond)
      /\ Budget > 0 => Total(granted', Slot) = Budget - budget'
      /\ told' = <<>> /\ report' = NoReport
  BY <1>1 DEF ReplayInv
<1> QED
  BY <1>1, <1>3, <1>5, <1>6, <1>7 DEF ReplayInv

\* A fetch fails: the entry rests if it may try again, or it is given up.
LEMMA FailureKeepsReplay ==
    ASSUME ReplayInv, NEW i \in Slot, NEW kind \in Failure, FetchFails(i, kind)
    PROVE  ReplayInv'
<1>1. /\ replayStage = "replaying" /\ fetch[i] = "fetching"
      /\ tries' = [tries EXCEPT ![i] = @ + 1]
      /\ UNCHANGED <<lines, second, diffs, told, report>>
  BY DEF FetchFails
<1>2. /\ i \in Taken /\ tries[i] \in Nat /\ tries[i] <= MaxRetries /\ MaxRetries \in Nat
      /\ granted[i] \in Nat /\ granted[i] <= tries[i] /\ granted[i] <= MaxRetries
      /\ budget \in 0 .. Budget /\ Budget \in Nat /\ granted \in [Slot -> Nat]
  BY <1>1, ReplayAssumption DEF ReplayInv
<1>3. /\ tries' \in [Slot -> Nat] /\ tries'[i] = tries[i] + 1
      /\ \A j \in Slot \ {i} : tries'[j] = tries[j]
  BY <1>1 DEF ReplayInv
<1>4. CASE Tired(i)
  <2>1. GiveUp(i, kind) /\ UNCHANGED <<granted, budget>>
    BY <1>4 DEF FetchFails
  <2>2. CASE kind = "error" /\ Resolve(i, "fetch_failed", "error") /\ UNCHANGED replayStage
    <3> DEFINE s == "fetch_failed"
               c == "error"
    <3>1. /\ s \in {"replayed", "fetch_failed", "budget_exhausted"} /\ s # "replayed"
          /\ c \in {"none", "spent", "client", "error"} /\ Resolve(i, s, c)
          /\ c = "spent" => Budget > 0 /\ budget = 0 /\ tries'[i] <= MaxRetries
      BY <2>2
    <3>2. UNCHANGED <<replayStage, lines, second, granted, budget, diffs, told, report>>
      BY <1>1, <2>1, <2>2
    <3>3. tries[i] <= tries'[i] /\ tries'[i] <= MaxRetries + 1
      BY <1>2, <1>3
    <3> HIDE DEF s, c
    <3> QED
      BY <1>1, <1>3, <3>1, <3>2, <3>3, ResultKeepsReplay
  <2>3. CASE kind = "client" /\ Resolve(i, "budget_exhausted", "client") /\ UNCHANGED replayStage
    <3> DEFINE s == "budget_exhausted"
               c == "client"
    <3>1. /\ s \in {"replayed", "fetch_failed", "budget_exhausted"} /\ s # "replayed"
          /\ c \in {"none", "spent", "client", "error"} /\ Resolve(i, s, c)
          /\ c = "spent" => Budget > 0 /\ budget = 0 /\ tries'[i] <= MaxRetries
      BY <2>3
    <3>2. UNCHANGED <<replayStage, lines, second, granted, budget, diffs, told, report>>
      BY <1>1, <2>1, <2>3
    <3>3. tries[i] <= tries'[i] /\ tries'[i] <= MaxRetries + 1
      BY <1>2, <1>3
    <3> HIDE DEF s, c
    <3> QED
      BY <1>1, <1>3, <3>1, <3>2, <3>3, ResultKeepsReplay
  <2>4. CASE kind = "runtime" /\ replayStage' = "raised"
             /\ fetch' = [fetch EXCEPT ![i] = "raised"] /\ UNCHANGED result
    <3>1. granted' = granted /\ budget' = budget
      BY <2>1
    <3>2. granted'[i] <= tries'[i] /\ tries'[i] <= MaxRetries + 1
      BY <1>2, <1>3, <3>1
    <3>3. budget' - budget = granted[i] - granted'[i]
      BY <1>2, <3>1
    <3> DEFINE w == "raised"
    <3>4. w \in Whereabouts \ {"left", "done"} /\ w = "raised" /\ fetch[i] # "done"
          /\ fetch' = [fetch EXCEPT ![i] = w] /\ replayStage' \in {"replaying", "raised"}
      BY <1>1, <2>4 DEF Whereabouts
    <3>5. UNCHANGED <<lines, second, result, diffs, told, report>>
      BY <1>1, <2>4
    <3> HIDE DEF w
    <3> QED
      BY <1>1, <1>2, <1>3, <3>1, <3>2, <3>3, <3>4, <3>5, MovingKeepsReplay
  <2> QED
    BY <2>1, <2>2, <2>3, <2>4 DEF GiveUp
<1>5. CASE ~Tired(i) /\ Budget > 0 /\ budget = 0
  <2>1. Resolve(i, "budget_exhausted", "spent") /\ UNCHANGED <<replayStage, granted, budget>>
    BY <1>5 DEF FetchFails
  <2>2. tries'[i] <= MaxRetries
    BY <1>2, <1>3, <1>5 DEF Tired
  <2> QED
    <3> DEFINE s == "budget_exhausted"
               c == "spent"
    <3>1. /\ s \in {"replayed", "fetch_failed", "budget_exhausted"} /\ s # "replayed"
          /\ c \in {"none", "spent", "client", "error"} /\ Resolve(i, s, c)
          /\ c = "spent" => Budget > 0 /\ budget = 0 /\ tries'[i] <= MaxRetries
      BY <1>5, <2>1, <2>2
    <3>2. UNCHANGED <<replayStage, lines, second, granted, budget, diffs, told, report>>
      BY <1>1, <2>1
    <3>3. tries[i] <= tries'[i] /\ tries'[i] <= MaxRetries + 1
      BY <1>2, <1>3
    <3> HIDE DEF s, c
    <3> QED
      BY <1>1, <1>3, <3>1, <3>2, <3>3, ResultKeepsReplay
<1>6. CASE ~Tired(i) /\ ~(Budget > 0 /\ budget = 0)
  <2>1. /\ fetch' = [fetch EXCEPT ![i] = "resting"]
        /\ granted' = [granted EXCEPT ![i] = @ + 1]
        /\ budget' = IF Budget = 0 THEN 0 ELSE budget - 1
        /\ UNCHANGED <<replayStage, result>>
    BY <1>6 DEF FetchFails
  <2>2. tries'[i] <= MaxRetries
    BY <1>2, <1>3, <1>6 DEF Tired
  <2>3. /\ granted' \in [Slot -> Nat] /\ granted'[i] = granted[i] + 1
        /\ \A j \in Slot \ {i} : granted'[j] = granted[j]
    BY <1>2, <2>1
  <2>4. /\ budget' \in 0 .. Budget /\ (budget = 0 => budget' = 0)
        /\ Budget > 0 => budget' - budget = granted[i] - granted'[i]
    BY <1>2, <1>6, <2>1, <2>3
  <2>5. granted'[i] <= tries'[i] /\ granted'[i] <= MaxRetries /\ tries'[i] <= MaxRetries + 1
    BY <1>2, <1>3, <2>2, <2>3
  <2> DEFINE w == "resting"
  <2>6. w \in Whereabouts \ {"left", "done"} /\ w # "raised" /\ fetch[i] # "done"
        /\ fetch' = [fetch EXCEPT ![i] = w] /\ replayStage' \in {"replaying", "raised"}
    BY <1>1, <2>1 DEF Whereabouts
  <2>7. UNCHANGED <<lines, second, result, diffs, told, report>>
    BY <1>1, <2>1
  <2> HIDE DEF w
  <2> QED
    BY <1>1, <1>2, <1>3, <2>2, <2>3, <2>4, <2>5, <2>6, <2>7, MovingKeepsReplay
<1> QED
  BY <1>4, <1>5, <1>6

\* An entry takes its slot, or wakes.
LEMMA TakingKeepsReplay ==
    ASSUME ReplayInv, NEW i \in Slot, TakeSlot(i) \/ Wake(i)
    PROVE  ReplayInv'
<1> DEFINE w == "fetching"
<1>1. /\ replayStage = "replaying" /\ fetch[i] \in {"queued", "resting"}
      /\ fetch' = [fetch EXCEPT ![i] = w]
      /\ UNCHANGED <<replayStage, lines, second, tries, granted, budget, result, diffs, told, report>>
  BY DEF TakeSlot, Wake
<1>2. /\ i \in Taken /\ tries[i] \in Nat /\ tries[i] <= MaxRetries /\ MaxRetries \in Nat
      /\ granted[i] \in Nat /\ granted[i] <= tries[i] /\ granted[i] <= MaxRetries
      /\ budget \in 0 .. Budget /\ Budget \in Nat /\ granted \in [Slot -> Nat] /\ tries \in [Slot -> Nat]
  BY <1>1, ReplayAssumption DEF ReplayInv
<1>3. w \in Whereabouts \ {"left", "done"} /\ w # "raised" /\ fetch[i] # "done"
      /\ replayStage' \in {"replaying", "raised"}
  BY <1>1 DEF Whereabouts
<1>4. /\ tries' = tries /\ granted' = granted /\ budget' = budget
      /\ budget' - budget = granted[i] - granted'[i] /\ tries[i] <= MaxRetries + 1
  BY <1>1, <1>2
<1>5. UNCHANGED <<lines, second, result, diffs, told, report>>
  BY <1>1
<1> HIDE DEF w
<1> QED
  BY <1>1, <1>2, <1>3, <1>4, <1>5, MovingKeepsReplay

\* A page is fetched, and its comparison filed.
LEMMA FetchKeepsReplay == ASSUME ReplayInv, NEW i \in Slot, Fetched(i) PROVE ReplayInv'
<1>1. /\ replayStage = "replaying" /\ fetch[i] = "fetching" /\ Resolve(i, "replayed", "none")
      /\ diffs' = [diffs EXCEPT ![<<lines[i], second>>] = i]
      /\ UNCHANGED <<replayStage, lines, second, tries, granted, budget, told, report>>
  BY DEF Fetched
<1>2. tries \in [Slot -> Nat] /\ tries[i] <= tries[i] /\ tries[i] <= MaxRetries + 1
  BY DEF ReplayInv
<1> QED
  BY <1>1, <1>2, ResultKeepsReplay

\* The words of a replay are said when every entry has its result.
LEMMA TellingKeepsReplay == ASSUME ReplayInv, TellEntry PROVE ReplayInv'
<1>1. /\ \A i \in Taken : fetch[i] = "done"
      /\ told' = InOrder /\ report' = Summary /\ replayStage' = "told"
      /\ UNCHANGED <<lines, second, fetch, tries, granted, budget, result, diffs>>
  BY DEF TellEntry
<1>2. Taken' = Taken /\ InOrder' = InOrder /\ Summary' = Summary /\ Taken \subseteq Slot
  BY <1>1, SlotsFinite DEF Taken, Paged, InOrder, Summary, ReplayInv
<1>3. \A i \in Slot : fetch[i] = "done" <=> i \in Taken
  BY <1>1 DEF ReplayInv
<1>4. DiffIsOfItsPage'
  BY <1>1, <1>2 DEF ReplayInv, DiffIsOfItsPage
<1> QED
  BY <1>1, <1>2, <1>3, <1>4 DEF ReplayInv

\* Time passes.
LEMMA TickKeepsReplay == ASSUME ReplayInv, Tick PROVE ReplayInv'
<1>1. /\ replayStage = "replaying" /\ second < MaxSecond /\ second' = second + 1
      /\ UNCHANGED <<replayStage, lines, fetch, tries, granted, budget, result, diffs, told, report>>
  BY DEF Tick
<1>2. second' \in 1 .. MaxSecond /\ Taken' = Taken
  BY <1>1, ReplayAssumption DEF ReplayInv, Taken, Paged
<1>3. DiffIsOfItsPage'
  BY <1>1, <1>2 DEF ReplayInv, DiffIsOfItsPage
<1> QED
  BY <1>1, <1>2, <1>3 DEF ReplayInv

\* Every step of a replay keeps it.
LEMMA ReplayStepLemma == ReplayInv /\ [ReplayNext]_replayVars => ReplayInv'
<1> SUFFICES ASSUME ReplayInv, [ReplayNext]_replayVars PROVE ReplayInv'
  OBVIOUS
<1>1. CASE BeginReplay
  BY <1>1, BeginKeepsReplay
<1>2. CASE TellEntry
  BY <1>2, TellingKeepsReplay
<1>3. CASE Tick
  BY <1>3, TickKeepsReplay
<1>4. CASE \E i \in Slot : TakeSlot(i) \/ Fetched(i) \/ Wake(i)
  BY <1>4, TakingKeepsReplay, FetchKeepsReplay
<1>5. CASE \E i \in Slot, kind \in Failure : FetchFails(i, kind)
  BY <1>5, FailureKeepsReplay
<1>6. CASE UNCHANGED replayVars
  <2>1. Taken' = Taken /\ InOrder' = InOrder /\ Summary' = Summary
    BY <1>6 DEF replayVars, Taken, Paged, InOrder, Summary
  <2>2. DiffIsOfItsPage'
    BY <1>6, <2>1 DEF ReplayInv, DiffIsOfItsPage, replayVars
  <2> QED
    BY <1>6, <2>1, <2>2 DEF ReplayInv, replayVars
<1> QED
  BY <1>1, <1>2, <1>3, <1>4, <1>5, <1>6 DEF ReplayNext

\* A replay of a day's failures accounts for its entries, its retries and its
\* files, for any pages, limits and order in which the fetches end: it tells of
\* the first entries that have a page, each once and in order, the retries are
\* those the budget paid for, and a file holds the comparison of its own page
\* (FailureReplayJob.run, _fetch_with_retry, _build_report_data).
THEOREM ReplaysAreTrue == ReplaySpec => [](ReplayTypeOK /\ ReplayIsTrue)
<1>1. ReplayInv => ReplayTypeOK /\ ReplayIsTrue
  <2>1. ReplayInv => DiffIsOfItsPage
    BY DEF ReplayInv
  <2> QED
    BY <2>1, ReplayIsTyped, ToldIsWhole DEF ReplayIsTrue
<1> QED
  BY ReplayInitLemma, ReplayStepLemma, <1>1, PTL DEF ReplaySpec

-------------------------------------------------------------------------------
(* The records side by side.                                                 *)

\* Each lane is the specification of its module, which rests while another
\* lane has the steps.
LEMMA RecordsAreTheirParts ==
    LaneSpec => /\ PriceSpec /\ SchemaSpec /\ FolderSpec /\ ReplaySpec
                /\ TrendsSpec /\ Spec /\ ReadSpec /\ AiSpec
<1>1. LaneInit => /\ PriceInit /\ SchemaInit /\ FolderInit /\ ReplayInit
                  /\ TrendsInit /\ Init /\ ReadInit /\ AiInit
  BY DEF LaneInit
<1>2. ASSUME [LaneNext]_all
      PROVE  /\ [PriceNext]_priceVars /\ [SchemaNext]_schemaVars /\ [FolderNext]_folderVars
             /\ [ReplayNext]_replayVars /\ [TrendsNext]_trendVars /\ [Next]_vars
             /\ [ReadNext]_readVars /\ [AiNext]_aiVars
  <2>1. CASE PriceLane(PriceNext)
    BY <2>1 DEF PriceLane
  <2>2. CASE SchemaLane(SchemaNext)
    BY <2>2 DEF SchemaLane
  <2>3. CASE FolderLane(FolderNext)
    BY <2>3 DEF FolderLane
  <2>4. CASE ReplayLane(ReplayNext)
    BY <2>4 DEF ReplayLane
  <2>5. CASE TrendsLane(TrendsNext)
    BY <2>5 DEF TrendsLane
  <2>6. CASE DecisionLane(Next)
    BY <2>6 DEF DecisionLane
  <2>7. CASE ReadLane(ReadNext)
    BY <2>7 DEF ReadLane
  <2>8. CASE AiLane(AiNext)
    BY <2>8 DEF AiLane
  <2>9. CASE UNCHANGED all
    BY <2>9 DEF all
  <2> QED
    BY <1>2, <2>1, <2>2, <2>3, <2>4, <2>5, <2>6, <2>7, <2>8, <2>9 DEF LaneNext
<1> QED
  BY <1>1, <1>2, PTL
     DEF LaneSpec, PriceSpec, SchemaSpec, FolderSpec, ReplaySpec, TrendsSpec, Spec, ReadSpec, AiSpec

\* RecordsTyped, for any prices, ages and settings, any shops, pages and days,
\* any members of a group, any failures in the index and any evidence: what the
\* product writes down keeps every type, one module beside the other.
THEOREM RecordsStayTyped == LaneSpec => []RecordsTyped
<1>1. /\ PriceTypeOK /\ SchemaTypeOK /\ FolderTypeOK /\ ReplayTypeOK
      /\ TrendsTypeOK /\ TypeOK /\ ReadTypeOK /\ AiTypeOK
      => RecordsTyped
  BY DEF RecordsTyped
<1> QED
  BY <1>1, RecordsAreTheirParts, PriceTypeCorrect, VersionStaysHonest, FolderStaysTrue,
     ReplaysAreTrue, ReportsStayEarned, DecisionsAreSound, ReadingStaysSound,
     NarrativeStaysSound, PTL
===============================================================================
