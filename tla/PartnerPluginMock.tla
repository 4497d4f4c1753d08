------------------------- MODULE PartnerPluginMock -------------------------
(***************************************************************************)
(* The partner plugin mock (pp-mock): its handlers, the store that links   *)
(* search, validation and mint (pp-mock/handlers/state), and the goroutine *)
(* that removes old entries.  What a search finds is in MockCatalogue.     *)
(*                                                                         *)
(* Handlers run concurrently; one that uses the store twice reads one map  *)
(* and adds to another, so it is one step.  All versions share the store.  *)
(* A request that is refused or finds nothing gets no id and changes       *)
(* nothing, as does a read of the store that misses.                       *)
(***************************************************************************)
EXTENDS MockCatalogue, FiniteSets

CONSTANTS
  MockProducts,   \* the mock data: a sequence of products for each industry
  MockSeatMaps,   \* the mock data: [shared, sections], a section by its languages
  SearchRequests, ListRequests,
  EntryTimeout,   \* time that an entry is kept
  BuyableFor,     \* BuyableUntilDefault
  MaxClock,       \* bound on the clock
  MaxSearches,    \* bound on the number of searches that find something
  MaxIssued       \* bound on the number of ids that are handed out

\* "Must be bigger than config.BuyableUntilDefault"
ASSUME MockAssumption ==
  BuyableFor \in Nat /\ EntryTimeout \in Nat /\ BuyableFor < EntryTimeout

Industries == {"accommodation", "transport", "activity"}
Versions == 3..5

\* Products have what the handlers write to, and prices all their fields.
ASSUME DataAssumption ==
  /\ \A industry \in Industries :
       /\ MockProducts[industry] \in Seq(Range(MockProducts[industry]))
       /\ \A p \in Range(MockProducts[industry]) :
            /\ {"shared", "languages", "price"} \subseteq DOMAIN p /\ p.rooms \in Nat
            /\ IsPrice(p.price)
  /\ \A id \in DOMAIN MockSeatMaps : DOMAIN MockSeatMaps[id] = {"shared", "sections"}

\* There is no information on transports, and a stay is given in days.
ASSUME RequestAssumption ==
  /\ \A r \in SearchRequests :
       /\ r.industry \in Industries /\ r.version \in Versions
       /\ r.currency = Unset \/ r.currency = [kind |-> r.currency.kind, id |-> r.currency.id]
       /\ r.period = Unset \/ (r.period.start \in Int /\ r.period.end \in Int)
       /\ r.queries \in Seq(Range(r.queries))
  /\ \A l \in ListRequests :
       /\ l.industry \in Industries /\ l.version \in Versions
       /\ l.list = "info" => l.industry # "transport"

VARIABLES
  realistic,      \* RealisticPriceEnabled
  moment,         \* time of the day, in units of DayLength
  clock,
  swept,          \* when the last sweep ended
  catalogue,      \* <<version, industry>> |-> the mock data, if it was written to
  seatMaps,
  searchResults,  \* id |-> [prices, seatMap, createdAt]
  validationResults, \* id |-> [price, seatMap, createdAt]
  mintResults,    \* id |-> [seatMap, createdAt, bought]
  issued,         \* the responses with an id, in their order; the position is the id
  reported        \* the mints that the bot has reported as expired (ghost)

storeVars == <<searchResults, validationResults, mintResults>>
mockVars == <<realistic, moment, clock, swept, catalogue, seatMaps, storeVars, issued, reported>>

Data(v, industry) ==
  IF <<v, industry>> \in DOMAIN catalogue THEN catalogue[<<v, industry>>] ELSE MockProducts[industry]

MockInit ==
  /\ realistic \in BOOLEAN
  /\ moment \in 0..(DayLength - 1)
  /\ clock = 0 /\ swept = 0
  /\ catalogue = <<>>
  /\ seatMaps = MockSeatMaps
  /\ searchResults = <<>> /\ validationResults = <<>> /\ mintResults = <<>>
  /\ issued = <<>> /\ reported = {}

-----------------------------------------------------------------------------
(* The store.                                                              *)

NewID == Len(issued) + 1
With(map, id, entry) == [x \in DOMAIN map \cup {id} |-> IF x = id THEN entry ELSE map[x]]
Without(map, ids) == [x \in DOMAIN map \ ids |-> map[x]]

AddSearchResult(id, prices, seatMap) ==
  searchResults' = With(searchResults, id,
    [prices |-> prices, seatMap |-> seatMap, createdAt |-> clock])

GetSearchResult(id) == id \in DOMAIN searchResults

AddValidationResult(id, search, price) ==
  validationResults' = With(validationResults, id,
    [price |-> price, seatMap |-> searchResults[search].seatMap, createdAt |-> clock])

GetValidationResult(id) == id \in DOMAIN validationResults

AddMintResult(id, seatMap) ==
  mintResults' = With(mintResults, id,
    [seatMap |-> seatMap, createdAt |-> clock, bought |-> FALSE])

\* A mint that is not there any more is only logged.
SetMintBought(id) ==
  mintResults' = IF id \in DOMAIN mintResults
                 THEN [mintResults EXCEPT ![id].bought = TRUE] ELSE mintResults

RemoveMintResult(id) == mintResults' = Without(mintResults, {id})

GetMintResult(id) == id \in DOMAIN mintResults

\* Mutant: entries are removed when they have been there as long as a sweep takes.
ExpiredEarly(entry) == clock - entry.createdAt + 1 >= EntryTimeout

Expired(entry) == clock - entry.createdAt > EntryTimeout

cleanupExpiredEntries ==
  LET old(map) == {id \in DOMAIN map : Expired(map[id])}
  IN /\ clock >= swept + EntryTimeout
     /\ swept' = clock
     /\ searchResults' = Without(searchResults, old(searchResults))
     /\ validationResults' = Without(validationResults, old(validationResults))
     /\ mintResults' = Without(mintResults, old(mintResults))
     /\ UNCHANGED <<realistic, moment, clock, catalogue, seatMaps, issued, reported>>

Elapse ==
  /\ clock < MaxClock /\ clock' = clock + 1
  /\ UNCHANGED <<realistic, moment, swept, catalogue, seatMaps, storeVars, issued, reported>>

-----------------------------------------------------------------------------
(* Requests and their interceptors.                                        *)

\* From version 4 on the protocol itself makes currency and period mandatory;
\* a response is validated too.
protoValidateInterceptor(r) ==
  r.version = 3 \/ (r.currency # Unset /\ (r.industry = "transport" \/ r.period # Unset))

Issue(response) == issued' = Append(issued, response) /\ UNCHANGED reported

\* An id expires after EntryTimeout, from version 4 on.
NewExpiringUUID(version) == IF version = 3 THEN 0 ELSE clock + EntryTimeout

\* What a search shows of its results: numbers, prices and penalties.
ResultsShown(r, items) ==
  [i \in DOMAIN items |->
     LET price == ShownAs(items[i].price, realistic)
     IN [id |-> FirstResultID(r) + i - 1, price |-> price,
         penalties |-> IF r.industry # "accommodation" \/ r.version = 3 THEN <<>>
                       ELSE IF r.version = 4 THEN CancelPenaltiesV4(moment, r.period, price)
                       ELSE CancelPenaltiesV5(moment, r.period, price)]]

\* Results that are not copies are the mock data: what is written to them stays.
Written(products, items) ==
  {i \in DOMAIN products : \E j \in DOMAIN items : items[j].shared /\ items[j].name = products[i].name}

WriteResults(r, items) ==
  LET old == Data(r.version, r.industry)
      written == IF r.industry = "activity" THEN Written(old, items) ELSE {}
  IN catalogue' =
       IF written = {} THEN catalogue
       ELSE With(catalogue, <<r.version, r.industry>>,
              [i \in DOMAIN old |-> IF i \in written
                 THEN [old[i] EXCEPT !.price = ShownAs(@, realistic)] ELSE old[i]])

\* The first result's seat map is the search's.
SearchSeatMap(r, items) == IF r.version = 3 THEN Unset ELSE items[1].seatMap

Search(r) ==
  /\ NewID <= MaxIssued /\ Cardinality({id \in DOMAIN issued : issued[id].kind = "search"}) < MaxSearches
  /\ protoValidateInterceptor(r)
  /\ LET out == SearchOf(Data(r.version, r.industry), r)
     IN /\ ~out.refused /\ out.items # <<>>
        /\ WriteResults(r, out.items)
        /\ AddSearchResult(NewID,
             [i \in DOMAIN out.items |-> Unified(out.items[i].price, realistic)],
             SearchSeatMap(r, out.items))
        /\ Issue([kind |-> "search", request |-> r, expires |-> NewExpiringUUID(r.version),
                  results |-> ResultsShown(r, out.items),
                  seatMap |-> SearchSeatMap(r, out.items)])
  /\ UNCHANGED <<realistic, moment, clock, swept, seatMaps, validationResults, mintResults>>

\* Product lists are read from the same data, and their copies changed.
BrowseProducts(l) ==
  /\ LET old == Data(l.version, l.industry)
         written == IF l.list = "info" THEN Written(old, ListOf(old, l)) ELSE {}
     IN catalogue' =
          IF written = {} THEN catalogue
          ELSE With(catalogue, <<l.version, l.industry>>,
                 [i \in DOMAIN old |-> IF i \in written /\ l.languages # {}
                    THEN [old[i] EXCEPT !.languages = @ \cap l.languages] ELSE old[i]])
  /\ UNCHANGED <<realistic, moment, clock, swept, seatMaps, storeVars, issued, reported>>

\* The sections' names in the languages asked for; they are removed from the copy.
filterSeatMapLocalization(map, languages) ==
  [CloneProto(map) EXCEPT !.sections =
     IF languages = {} THEN @ ELSE {names \cap languages : names \in @}]

SeatMap(id, languages) ==
  /\ LET map == filterSeatMapLocalization(CloneProto(seatMaps[id]), languages)
     IN seatMaps' = IF map.shared THEN [seatMaps EXCEPT ![id] = map] ELSE seatMaps
  /\ UNCHANGED <<realistic, moment, clock, swept, catalogue, storeVars, issued, reported>>

\* The seat map by the id of a search or of a mint.
SeatMapAvailability(id) ==
  IF GetSearchResult(id) THEN searchResults[id].seatMap
  ELSE IF GetMintResult(id) THEN mintResults[id].seatMap ELSE Unset

-----------------------------------------------------------------------------
(* Validation and mint.                                                    *)

\* Index of a result in the stored prices, from 1, or 0 for an error.
\* Mutant: version 3 takes the number for the index, as the later versions do.
ValidationV3Unshifted(search, result) ==
  IF result = 0 \/ result >= Len(searchResults[search].prices) THEN 0 ELSE result + 1

ValidationV3(search, result) ==
  IF result = 0 \/ result - 1 >= Len(searchResults[search].prices) THEN 0 ELSE result

ValidationV4(search, result) ==
  IF result >= Len(searchResults[search].prices) THEN 0 ELSE result + 1

ValidationV5(search, result) == ValidationV4(search, result)

ValidationIndex(version, search, result) ==
  IF version = 3 THEN ValidationV3(search, result)
  ELSE IF version = 4 THEN ValidationV4(search, result) ELSE ValidationV5(search, result)

Validation(version, search, result) ==
  /\ NewID <= MaxIssued
  /\ GetSearchResult(search)
  /\ LET index == ValidationIndex(version, search, result)
         price == searchResults[search].prices[index]
     IN /\ index # 0
        /\ AddValidationResult(NewID, search, price)
        /\ Issue([kind |-> "validation", search |-> search, result |-> result,
                  first |-> IF version = 3 THEN 1 ELSE 0,
                  expires |-> NewExpiringUUID(version), price |-> ToPrice(price)])
  /\ UNCHANGED <<realistic, moment, clock, swept, catalogue, seatMaps, searchResults, mintResults>>

BookingTokenPrice == [value |-> 1, decimals |-> 0, currency |-> [kind |-> "native", id |-> 0]]

MintV3(v) == IF realistic THEN ToPrice(validationResults[v].price) ELSE BookingTokenPrice
MintV4(v) == MintV3(v)
MintV5(v) == MintV3(v)
MintPrice(version, v) ==
  IF version = 3 THEN MintV3(v) ELSE IF version = 4 THEN MintV4(v) ELSE MintV5(v)

MintMock(version, v) ==
  /\ NewID <= MaxIssued
  /\ GetValidationResult(v)
  /\ AddMintResult(NewID, validationResults[v].seatMap)
  /\ Issue([kind |-> "mint", validation |-> v, expires |-> clock + BuyableFor,
            price |-> MintPrice(version, v)])
  /\ UNCHANGED <<realistic, moment, clock, swept, catalogue, seatMaps, searchResults, validationResults>>

-----------------------------------------------------------------------------
(* Notifications of the bot.  Cancellations change nothing.                *)

Minted == {id \in DOMAIN issued : issued[id].kind = "mint"}

TokenBoughtNotification(id) ==
  /\ SetMintBought(id)
  /\ UNCHANGED <<realistic, moment, clock, swept, catalogue, seatMaps, searchResults,
                 validationResults, issued, reported>>

\* The mock takes the bot's word for it: no time is looked at.
TokenReservationExpiredNotification(id) ==
  /\ RemoveMintResult(id)
  /\ reported' = reported \cup {id}
  /\ UNCHANGED <<realistic, moment, clock, swept, catalogue, seatMaps, searchResults,
                 validationResults, issued>>

-----------------------------------------------------------------------------
IssuedIDs == DOMAIN issued

MockNext ==
  \/ Elapse \/ cleanupExpiredEntries
  \/ \E r \in SearchRequests : Search(r)
  \/ \E l \in ListRequests : BrowseProducts(l)
  \/ \E id \in DOMAIN seatMaps : \E languages \in {{}, {"en"}} : SeatMap(id, languages)
  \/ \E version \in Versions, id \in IssuedIDs :
       \/ MintMock(version, id)
       \/ \E result \in 0..2 : Validation(version, id, result)
  \/ \E id \in Minted : TokenBoughtNotification(id) \/ TokenReservationExpiredNotification(id)

MockSpec == MockInit /\ [][MockNext]_mockVars

-----------------------------------------------------------------------------
ValidatedResult(v) ==
  {x \in Range(issued[v.search].results) : x.id = v.result}

ValidatedAsShown ==
  \A id \in IssuedIDs : issued[id].kind = "validation" =>
    LET v == issued[id]
        r == issued[v.search].request
    IN v.first = FirstResultID(r) /\ Named(r.currency) =>
         \E x \in ValidatedResult(v) : x.price = v.price

MintedAsValidated ==
  realistic =>
    \A id \in IssuedIDs : issued[id].kind = "mint" =>
      issued[id].price = issued[issued[id].validation].price

\* A price holds from search to mint: a validation returns the price that the
\* search has shown for the number, unless search and validation are of versions
\* that count results differently or the request's currency names none, and a
\* realistic mint asks for just that price.
ShownPriceHolds == ValidatedAsShown /\ MintedAsValidated

\* What was handed out and has not expired is known to the handlers that are
\* given it: a search to be validated, a validation to be minted, a mint that can
\* be bought, with the seat map its search had.  Only a mint that the bot has
\* reported as expired may be gone earlier (the bot does so when it reads its timer
\* late, see TokenBoughtListener's NeverTooEarly): no sweep and no other handler
\* takes it.
UnexpiredIsKept ==
  \A id \in IssuedIDs :
    clock < issued[id].expires =>
      CASE issued[id].kind = "search" -> GetSearchResult(id)
        [] issued[id].kind = "validation" -> GetValidationResult(id)
        [] issued[id].kind = "mint" ->
             id \notin reported =>
             /\ GetMintResult(id)
             /\ SeatMapAvailability(id) = issued[issued[issued[id].validation].search].seatMap

\* A request is answered as if it were the first one: no handler changes the mock
\* data that the next one reads, although results, their numbers, prices and names
\* are written in place.
AnswersRepeat ==
  \/ catalogue = <<>> /\ seatMaps = MockSeatMaps
  \/ /\ \A r \in SearchRequests :
          protoValidateInterceptor(r) =>
            LET now == SearchOf(Data(r.version, r.industry), r)
                first == SearchOf(MockProducts[r.industry], r)
            IN ResultsShown(r, now.items) = ResultsShown(r, first.items)
     /\ \A l \in ListRequests : ListOf(Data(l.version, l.industry), l) = ListOf(MockProducts[l.industry], l)
     /\ seatMaps = MockSeatMaps

\* Windows of time that follow each other without gap or overlap, at a penalty
\* that never falls.
Covers(p, from, to) ==
  /\ p # <<>> /\ p[1].start = from /\ p[Len(p)].end = to
  /\ \A i \in DOMAIN p : p[i].start < p[i].end
  /\ \A i \in 1..(Len(p) - 1) : p[i].end = p[i + 1].start /\ p[i].value <= p[i + 1].value

\* The penalties of a stay follow each other without gap or overlap from the search
\* to the end of the stay, and never fall.
PenaltiesCoverStay ==
  \A id \in IssuedIDs : issued[id].kind = "search" =>
    \A x \in Range(issued[id].results) :
      x.penalties # <<>> =>
        Covers(x.penalties, moment, issued[id].request.period.end * DayLength)
=============================================================================
