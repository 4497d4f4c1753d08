--------------------------- MODULE MockCatalogue ---------------------------
(***************************************************************************)
(* What the partner plugin mock (pp-mock/handlers) finds for a request:    *)
(* the filters, the searches of its three industries in three versions,    *)
(* the product lists, prices and cancellation penalties, as functions of   *)
(* the request, the mock data and the time.                                *)
(*                                                                         *)
(* A product has the fields of all industries: [name, codes, supplier,     *)
(* service, place, languages, rooms, from, to, departs, arrives, segments, *)
(* modified, price, seatMap, shared].  It is shared when it is the data's  *)
(* own object, which every request sees, and not a copy.  A request for    *)
(* products is [industry, version, currency, period, travellers, queries], *)
(* where each query has the criteria of its industry; an empty set is a    *)
(* criterion that is not given.  Days are counted from today.              *)
(***************************************************************************)
EXTENDS Integers, Sequences, SequencesExt

CONSTANTS
  Unset,             \* a field that is not set
  PerNight,          \* DefaultPricePerNight
  BaseUnits,         \* RealisticNativeBaseUnits
  DayLength,         \* length of a day in units of time
  FreeDays,          \* FreeCancellationDuration in days
  MaxStayDays        \* TravelPeriodMaxDuration in days

ASSUME DaysAssumption == DayLength \in Nat \ {0} /\ FreeDays \in Nat \ {0}

ASSUME AmountsAssumption == PerNight \in Nat /\ BaseUnits \in Nat

-----------------------------------------------------------------------------
(* Copies.                                                                 *)

\* Mutant: the data's own object is handed out.
CloneNothing(p) == p

CloneProto(p) == [p EXCEPT !.shared = FALSE]

CloneProtoSlice(ps) == [i \in DOMAIN ps |-> CloneProto(ps[i])]

-----------------------------------------------------------------------------
(* Prices: [value, decimals, currency], currency = [kind, id].             *)

IsPrice(p) == p = [value |-> p.value, decimals |-> p.decimals, currency |-> p.currency]

NativeDecimals == 2
ISODecimals == 1

\* A currency that names no token and no ISO currency is lost on the way back.
PriceToUnifiedPrice(p) ==
  [price |-> p.value, decimals |-> p.decimals,
   isNative |-> p.currency.kind = "native",
   iso |-> IF p.currency.kind = "iso" THEN p.currency.id ELSE 0,
   token |-> IF p.currency.kind = "token" THEN p.currency.id ELSE 0]

ExtractCurrency(u) ==
  IF u.isNative THEN [kind |-> "native", id |-> 0]
  ELSE IF u.iso # 0 THEN [kind |-> "iso", id |-> u.iso]
  ELSE IF u.token # 0 THEN [kind |-> "token", id |-> u.token] ELSE Unset

\* What survives the way there and back.
Named(currency) ==
  /\ currency # Unset
  /\ \/ currency.kind = "native" /\ currency.id = 0
     \/ currency.kind \in {"iso", "token"} /\ currency.id # 0

ToPrice(u) == [value |-> u.price, decimals |-> u.decimals, currency |-> ExtractCurrency(u)]

\* On-chain prices become a fixed small amount; ISO prices stay.
NormalizeRealistic(u) ==
  IF u.isNative \/ u.token # 0 THEN [u EXCEPT !.price = BaseUnits, !.decimals = NativeDecimals]
                               ELSE u

Unified(p, realistic) ==
  IF realistic THEN NormalizeRealistic(PriceToUnifiedPrice(p)) ELSE PriceToUnifiedPrice(p)

ShownAs(p, realistic) == IF realistic THEN ToPrice(Unified(p, TRUE)) ELSE p

\* Total of the trips' prices, when every one can be given in as many decimals.
TotalDecimals(currency) == IF currency.kind = "iso" THEN ISODecimals ELSE NativeDecimals

Summable(ps, decimals) == \A i \in DOMAIN ps : ps[i].price.decimals <= decimals

TotalValue(ps, decimals) ==
  LET Add(sum, p) == sum + p.price.value * 10 ^ (decimals - p.price.decimals)
  IN FoldLeft(Add, 0, ps)

TotalPrice(ps, currency) ==
  [value |-> TotalValue(ps, TotalDecimals(currency)), decimals |-> TotalDecimals(currency),
   currency |-> currency]

-----------------------------------------------------------------------------
(* Dates.                                                                  *)

\* Mutant: a stay may begin today.
AllowedFromToday(period) ==
  period.start >= 0 /\ period.end <= 1 + MaxStayDays /\ period.start < period.end

IsTravelPeriodAllowed(period) ==
  period.start >= 1 /\ period.end <= 1 + MaxStayDays /\ period.start < period.end

AreTravelDatesValid(trip) == trip.departs <= trip.arrives

Nights(period) == period.end - period.start

-----------------------------------------------------------------------------
(* Filters.  Each keeps the order of the products and copies what it keeps. *)

\* The elements at some of the indices.
Picked(ps, kept) == FlattenSeq([i \in DOMAIN ps |-> IF i \in kept THEN <<ps[i]>> ELSE <<>>])

MeetsAny(wanted, has) == wanted = {} \/ wanted \cap has # {}

\* Every part of the location that is given is the product's.
InGeoTree(place, at) ==
  \/ \A part \in DOMAIN place : place[part] = 0
  \/ at # Unset /\ \A part \in DOMAIN place : place[part] \in {0, at[part]}

AccommodationFiltersV3(ps, q) ==
  CloneProtoSlice(Picked(ps, {i \in DOMAIN ps :
    /\ InGeoTree(q.place, ps[i].place) /\ MeetsAny(q.codes, ps[i].codes)
    /\ MeetsAny(q.suppliers, {ps[i].supplier})}))

\* The criteria of the whole request; version 5 also skips a missing address.
AccommodationFiltersV4(ps, r) == AccommodationFiltersV3(ps, r)
AccommodationFiltersV5(ps, r) == AccommodationFiltersV3(ps, r)

\* The first segment's departure and the last one's arrival; an arrival is optional.
TripFiltersV3(ps, q, currency) ==
  CloneProtoSlice(Picked(ps, {i \in DOMAIN ps :
    LET p == ps[i]
    IN /\ p.price.currency = currency
       /\ \A trip \in q.trips :
            /\ p.segments > 0
            /\ p.departs = trip.departs /\ trip.arrives \in {Unset, p.arrives}
            /\ p.from \in trip.from /\ p.to \in trip.to
            /\ MeetsAny(trip.codes, p.codes)
            /\ trip.maxSegments = 0 \/ p.segments <= trip.maxSegments}))

\* From version 4 on an arrival date is wanted, and suppliers take the place of codes.
TripFiltersV4(ps, q, currency) ==
  CloneProtoSlice(Picked(ps, {i \in DOMAIN ps :
    LET p == ps[i]
    IN /\ p.price.currency = currency
       /\ \A trip \in q.trips :
            /\ p.departs = trip.departs /\ p.arrives = trip.arrives
            /\ p.from \in trip.from /\ p.to \in trip.to
            /\ MeetsAny(trip.suppliers, {p.supplier})
            /\ trip.maxSegments = 0 \/ p.segments <= trip.maxSegments}))

TripFiltersV5(ps, q, currency) ==
  TripFiltersV4(Picked(ps, {i \in DOMAIN ps : q.trips = {} \/ ps[i].segments > 0}), q, currency)

ActivityFiltersV3(ps, r) ==
  CloneProtoSlice(Picked(ps, {i \in DOMAIN ps :
    /\ MeetsAny(r.codes, ps[i].codes) /\ MeetsAny(r.services, {ps[i].service})
    /\ ps[i].price.currency = r.currency}))

ActivityFiltersV4(ps, r) ==
  CloneProtoSlice(Picked(ps, {i \in DOMAIN ps :
    /\ MeetsAny(r.suppliers, {ps[i].supplier}) /\ MeetsAny(r.services, {ps[i].service})
    /\ ps[i].price.currency = r.currency}))

ActivityFiltersV5(ps, r) == ActivityFiltersV4(ps, r)

-----------------------------------------------------------------------------
(* Searches.  Refused, or the prices of the results in their order.        *)

Refused == [refused |-> TRUE, items |-> <<>>]
Found(items) == [refused |-> FALSE, items |-> items]
Priced(p, price) == [p EXCEPT !.price = price]

SameTravellers(r) ==
  \A i, j \in DOMAIN r.queries : r.queries[i].travellers = r.queries[j].travellers

StayPrice(r, period, decimals) ==
  [value |-> PerNight * Nights(period), decimals |-> decimals, currency |-> r.currency]

\* One result for each property and query.
AccommodationSearchV3(ps, r) ==
  IF \/ r.queries = <<>> \/ r.currency = Unset
     \/ \E i \in DOMAIN r.queries :
          r.queries[i].period = Unset \/ ~IsTravelPeriodAllowed(r.queries[i].period)
     \/ ~SameTravellers(r)
  THEN Refused
  ELSE Found(FlattenSeq([i \in DOMAIN r.queries |->
         LET q == r.queries[i]
             found == AccommodationFiltersV3(ps, q)
         IN [j \in DOMAIN found |-> Priced(found[j], StayPrice(r, q.period, 2))]]))

\* One result for each room.
RoomResults(p, price) == [k \in 1..p.rooms |-> Priced(p, price)]

AccommodationSearchV4(ps, r) ==
  IF ~IsTravelPeriodAllowed(r.period) THEN Refused
  ELSE LET found == AccommodationFiltersV4(ps, r)
       IN Found(FlattenSeq([j \in DOMAIN found |-> RoomResults(found[j], StayPrice(r, r.period, 0))]))

AccommodationSearchV5(ps, r) ==
  IF r.currency = Unset \/ r.period = Unset \/ ~IsTravelPeriodAllowed(r.period) THEN Refused
  ELSE LET found == AccommodationFiltersV5(ps, r)
       IN Found(FlattenSeq([j \in DOMAIN found |-> RoomResults(found[j], StayPrice(r, r.period, 0))]))

\* One result, with the price of all its trips, for each query that finds one.
TripResults(r, trips) ==
  LET found == Picked(trips, {i \in DOMAIN trips : trips[i] # <<>>})
  IN IF r.currency.kind = "token" THEN Refused
     ELSE IF \E i \in DOMAIN found : ~Summable(found[i], TotalDecimals(r.currency)) THEN Refused
     ELSE Found([i \in DOMAIN found |-> Priced(found[i][1], TotalPrice(found[i], r.currency))])

TransportSearchV3(ps, r) ==
  IF \/ r.queries = <<>> \/ r.currency = Unset \/ ~SameTravellers(r)
     \/ \E i \in DOMAIN r.queries : \E trip \in r.queries[i].trips :
          \/ trip.departs = Unset \/ trip.from = {} \/ trip.to = {}
          \/ trip.arrives # Unset /\ ~AreTravelDatesValid(trip)
  THEN Refused
  ELSE TripResults(r, [i \in DOMAIN r.queries |-> TripFiltersV3(ps, r.queries[i], r.currency)])

TripQueriesValid(r) ==
  /\ SameTravellers(r)
  /\ \A i, j \in DOMAIN r.queries : i # j => r.queries[i].id # r.queries[j].id
  /\ \A i \in DOMAIN r.queries : \A trip \in r.queries[i].trips : AreTravelDatesValid(trip)

TransportSearchV4(ps, r) ==
  IF ~TripQueriesValid(r) THEN Refused
  ELSE TripResults(r, [i \in DOMAIN r.queries |-> TripFiltersV4(ps, r.queries[i], r.currency)])

TransportSearchV5(ps, r) ==
  IF r.currency = Unset \/ ~TripQueriesValid(r) THEN Refused
  ELSE TripResults(r, [i \in DOMAIN r.queries |-> TripFiltersV5(ps, r.queries[i], r.currency)])

\* The copies of the activities are the results: they get their number and price.
ActivitySearchV3(ps, r) ==
  IF \/ r.currency = Unset \/ r.period = Unset \/ ~IsTravelPeriodAllowed(r.period)
     \/ r.travellers = {}
  THEN Refused ELSE Found(ActivityFiltersV3(ps, r))

ActivitySearchV4(ps, r) ==
  IF ~IsTravelPeriodAllowed(r.period) THEN Refused ELSE Found(ActivityFiltersV4(ps, r))

ActivitySearchV5(ps, r) ==
  IF r.currency = Unset \/ r.period = Unset \/ ~IsTravelPeriodAllowed(r.period) THEN Refused
  ELSE Found(ActivityFiltersV5(ps, r))

SearchOf(ps, r) ==
  CASE r.industry = "accommodation" /\ r.version = 3 -> AccommodationSearchV3(ps, r)
    [] r.industry = "accommodation" /\ r.version = 4 -> AccommodationSearchV4(ps, r)
    [] r.industry = "accommodation" /\ r.version = 5 -> AccommodationSearchV5(ps, r)
    [] r.industry = "transport" /\ r.version = 3 -> TransportSearchV3(ps, r)
    [] r.industry = "transport" /\ r.version = 4 -> TransportSearchV4(ps, r)
    [] r.industry = "transport" /\ r.version = 5 -> TransportSearchV5(ps, r)
    [] r.industry = "activity" /\ r.version = 3 -> ActivitySearchV3(ps, r)
    [] r.industry = "activity" /\ r.version = 4 -> ActivitySearchV4(ps, r)
    [] r.industry = "activity" /\ r.version = 5 -> ActivitySearchV5(ps, r)

\* The first result's number.
FirstResultID(r) == IF r.version = 3 THEN 1 ELSE 0

-----------------------------------------------------------------------------
(* Product lists.                                                          *)

\* The names in the languages asked for; what has none of them is left out.
InLanguages(ps, languages) ==
  LET named == [i \in DOMAIN ps |->
        [ps[i] EXCEPT !.languages = IF languages = {} THEN @ ELSE @ \cap languages]]
  IN Picked(named, {i \in DOMAIN ps : languages = {} \/ named[i].languages # {}})

BySupplierCodes(ps, l) ==
  CloneProtoSlice(Picked(ps, {i \in DOMAIN ps : MeetsAny(l.suppliers, {ps[i].supplier})}))

\* What was not modified before the time, and what was modified after it.
NotModifiedBefore(ps, l) ==
  CloneProtoSlice(Picked(ps, {i \in DOMAIN ps : ps[i].modified >= l.modifiedAfter}))
ModifiedAfter(ps, l) ==
  CloneProtoSlice(Picked(ps, {i \in DOMAIN ps : ps[i].modified > l.modifiedAfter}))

\* Information: by supplier and language; version 3 activities also by time.
AccommodationProductInfoV3(ps, l) == InLanguages(BySupplierCodes(ps, l), l.languages)
AccommodationProductInfoV4(ps, l) == InLanguages(BySupplierCodes(ps, l), l.languages)
AccommodationProductInfoV5(ps, l) == InLanguages(BySupplierCodes(ps, l), l.languages)
ActivityProductInfoV3(ps, l) ==
  InLanguages(NotModifiedBefore(BySupplierCodes(ps, l), l), l.languages)
ActivityProductInfoV4(ps, l) == InLanguages(BySupplierCodes(ps, l), l.languages)
ActivityProductInfoV5(ps, l) == InLanguages(BySupplierCodes(ps, l), l.languages)

\* Lists: by time in version 3 and for trips, else by supplier.  The list of all
\* version 5 trips is the data's own.
AccommodationProductListV3(ps, l) == NotModifiedBefore(ps, l)
AccommodationProductListV4(ps, l) == BySupplierCodes(ps, l)
AccommodationProductListV5(ps, l) == BySupplierCodes(ps, l)
ActivityProductListV3(ps, l) == NotModifiedBefore(ps, l)
ActivityProductListV4(ps, l) == BySupplierCodes(ps, l)
ActivityProductListV5(ps, l) == BySupplierCodes(ps, l)
TransportProductListV3(ps, l) == NotModifiedBefore(ps, l)
TransportProductListV4(ps, l) == NotModifiedBefore(ps, l)
TransportProductListV5(ps, l) ==
  IF l.modifiedAfter = Unset THEN ps ELSE NotModifiedBefore(ps, l)

\* Short lists: by time.
AccommodationProductShortListV4(ps, l) == ModifiedAfter(ps, l)
AccommodationProductShortListV5(ps, l) == ModifiedAfter(ps, l)
ActivityProductShortListV4(ps, l) == ModifiedAfter(ps, l)
ActivityProductShortListV5(ps, l) == ModifiedAfter(ps, l)

ListOf(ps, l) ==
  LET Is(list, industry, version) == <<l.list, l.industry, l.version>> = <<list, industry, version>>
  IN CASE Is("info", "accommodation", 3) -> AccommodationProductInfoV3(ps, l)
       [] Is("info", "accommodation", 4) -> AccommodationProductInfoV4(ps, l)
       [] Is("info", "accommodation", 5) -> AccommodationProductInfoV5(ps, l)
       [] Is("info", "activity", 3) -> ActivityProductInfoV3(ps, l)
       [] Is("info", "activity", 4) -> ActivityProductInfoV4(ps, l)
       [] Is("info", "activity", 5) -> ActivityProductInfoV5(ps, l)
       [] Is("list", "accommodation", 3) -> AccommodationProductListV3(ps, l)
       [] Is("list", "accommodation", 4) -> AccommodationProductListV4(ps, l)
       [] Is("list", "accommodation", 5) -> AccommodationProductListV5(ps, l)
       [] Is("list", "activity", 3) -> ActivityProductListV3(ps, l)
       [] Is("list", "activity", 4) -> ActivityProductListV4(ps, l)
       [] Is("list", "activity", 5) -> ActivityProductListV5(ps, l)
       [] Is("list", "transport", 3) -> TransportProductListV3(ps, l)
       [] Is("list", "transport", 4) -> TransportProductListV4(ps, l)
       [] Is("list", "transport", 5) -> TransportProductListV5(ps, l)
       [] Is("short", "accommodation", 4) -> AccommodationProductShortListV4(ps, l)
       [] Is("short", "accommodation", 5) -> AccommodationProductShortListV5(ps, l)
       [] Is("short", "activity", 4) -> ActivityProductShortListV4(ps, l)
       [] Is("short", "activity", 5) -> ActivityProductShortListV5(ps, l)

-----------------------------------------------------------------------------
(* Cancellation penalties of an accommodation, from version 4 on.          *)

CancelPenaltiesV4(now, period, price) ==
  LET start == period.start * DayLength
      free == start - FreeDays * DayLength
      Window(a, b, v) == [start |-> a, end |-> b, value |-> v]
  IN (IF start > now + FreeDays * DayLength THEN <<Window(now, free, 0)>> ELSE <<>>)
     \o << Window(IF free > now THEN free ELSE now, start, price.value \div 10),
           Window(start, period.end * DayLength, price.value) >>

CancelPenaltiesV5(now, period, price) == CancelPenaltiesV4(now, period, price)
=============================================================================
