----------------------------- MODULE MCServices -----------------------------
(***************************************************************************)
(* Seven components that share no state, each checked on its own: a run    *)
(* chooses one of them at the start and takes steps of that one only.  The *)
(* others stay in one of their initial states.                             *)
(***************************************************************************)
EXTENDS CancellationProposal, MessageCodec, MatrixRooms, ServiceAccess, PartnerPluginMock,
        MockEvents, JobScheduler, TLC

VARIABLE comp

Components == {"proposal", "codec", "rooms", "access", "mock", "events", "scheduler"}

servicesVars ==
  <<comp, proposalVars, codecVars, roomsVars, accessVars, mockVars, eventVars, schedulerVars>>

-----------------------------------------------------------------------------
(* Proposals: four calls, enough for a proposal, a counter, its acceptance *)
(* and a finalization, or for a call that a check refuses; two refunds.    *)

CONSTANTS c1, c2, c3, c4

MCBy == (c1 :> "owner" @@ c2 :> "supplier" @@ c3 :> "owner" @@ c4 :> "supplier")

Ask(ops, versions, valids, refunds, reasons) ==
  [op : ops, version : versions, valid : valids, refund : refunds, reason : reasons]

MCAsked ==
  (c1 :> Ask({"initiate"}, {3}, {TRUE}, {1, 2}, {0})
         \cup Ask({"counter", "accept", "reject", "finalize"}, {1}, {TRUE}, {Nil},
                  {MaxReason + 1})
         \cup Ask({"initiate", "accept", "withdraw"}, {2}, BOOLEAN, {Nil},
                  {MaxReason + 1}) @@
   c2 :> Ask({"counter", "reject"}, {2}, {TRUE}, {1}, {MaxReason}) @@
   c3 :> Ask({"accept", "withdraw"}, {1}, {TRUE}, {1}, {0}) @@
   c4 :> Ask({"finalize"}, {3}, {TRUE}, {1}, {0}))

-----------------------------------------------------------------------------
(* Requests of two versions, one with no header and one with no address.   *)

MCAsks ==
  { [service |-> "v4", template |-> 2, body |-> "valid", addressed |-> TRUE],
    [service |-> "v3", template |-> 1, body |-> "no header", addressed |-> TRUE],
    [service |-> "v3", template |-> 1, body |-> "valid", addressed |-> TRUE],
    [service |-> "new", template |-> 2, body |-> "valid", addressed |-> FALSE] }

\* Accounts with no service, with known ones, and with one the bot was not built for.
MCSupported == {{}, {"v3"}, {"v4", "new"}}

-----------------------------------------------------------------------------
(* The mock's data: three products, two of them in one currency; requests  *)
(* of all industries and versions, some of which are refused.              *)

Native == [kind |-> "native", id |-> 0]
Fiat == [kind |-> "iso", id |-> 1]
Token == [kind |-> "token", id |-> 1]
Unspecified == [kind |-> "iso", id |-> 0]
\* A location of which nothing is given.
Nowhere == [country |-> 0, city |-> 0]
MockPrice(v, d, c) == [value |-> v, decimals |-> d, currency |-> c]
MockProduct(n, price) ==
  [name |-> n, codes |-> {n}, supplier |-> n, service |-> n, place |-> [country |-> 1, city |-> n],
   languages |-> {"en", "de"}, rooms |-> n, from |-> 1, to |-> 2, departs |-> 1, arrives |-> 1 + n,
   segments |-> n, modified |-> n, price |-> price, seatMap |-> n, shared |-> TRUE]
MCProducts ==
  [industry \in Industries |->
     <<MockProduct(1, MockPrice(30, 1, Native)), MockProduct(2, MockPrice(50, 1, Fiat)),
       MockProduct(3, MockPrice(70, 2, Native))>>]
MCSeatMaps == [id \in {1} |-> [shared |-> TRUE, sections |-> {{"en", "de"}, {"de"}}]]
Trip(m) == [departs |-> 1, arrives |-> Unset, from |-> {1}, to |-> {2}, codes |-> {}, suppliers |-> {},
            maxSegments |-> m]
Query(id) == [id |-> id, travellers |-> {"ann"}, period |-> [start |-> 1, end |-> 2 + id],
              place |-> Nowhere, codes |-> {}, suppliers |-> {}, trips |-> {}]
Request(industry, version, currency, period) ==
  [industry |-> industry, version |-> version, currency |-> currency, period |-> period,
   travellers |-> {"ann"}, queries |-> <<Query(1), Query(2)>>, place |-> [Nowhere EXCEPT !.country = 1],
   codes |-> {}, suppliers |-> {}, services |-> {}]
Days(a, b) == [start |-> a, end |-> b]
MCSearches ==
  { Request(i, v, Native, Days(1, 3)) : i \in Industries, v \in Versions }
  \cup { Request("accommodation", 4, Token, Days(2, 3)), Request("accommodation", 5, Native, Days(0, 2)),
         Request("activity", 3, Unset, Days(1, 3)), Request("transport", 4, Fiat, Unset),
         Request("accommodation", 3, Unspecified, Days(1, 3)) }
  \cup { [Request("transport", 3, Native, Unset) EXCEPT
            !.queries = <<[Query(1) EXCEPT !.trips = {Trip(0)}], [Query(2) EXCEPT !.trips = {Trip(1)}]>>] }
List(i, v, k) ==
  [industry |-> i, version |-> v, list |-> k, suppliers |-> {}, languages |-> {"en"}, modifiedAfter |-> 2]
MCLists ==
  { List("accommodation", 3, "info"), List("activity", 3, "info"), List("activity", 3, "list"),
    List("accommodation", 5, "list"), List("transport", 4, "list"), List("transport", 5, "list"),
    List("activity", 4, "short") }

-----------------------------------------------------------------------------
(* A job of three units, which the table takes for two, so that it runs    *)
(* three times in one start, and one of less than a second.                *)

CONSTANTS j1, j2

MCPeriods == (j1 :> {3} @@ j2 :> {1})

-----------------------------------------------------------------------------
Init ==
  /\ comp \in Components
  /\ ProposalInit /\ CodecInit /\ RoomsInit /\ AccessInit /\ MockInit /\ EventsInit
  /\ SchedulerInit
  /\ comp # "rooms" => invites = {} /\ \A r \in Rooms : joined[r] = {}
  /\ comp # "access" => supported = {} /\ permitted /\ plugin
  /\ comp = "access" => supported \in MCSupported /\ (plugin \/ supported = {"v3"})
  /\ comp # "mock" => realistic /\ moment = 0

Next ==
  \/ /\ comp = "proposal" /\ ProposalNext
     /\ UNCHANGED <<comp, codecVars, roomsVars, accessVars, mockVars, eventVars, schedulerVars>>
  \/ /\ comp = "codec" /\ CodecNext
     /\ UNCHANGED <<comp, proposalVars, roomsVars, accessVars, mockVars, eventVars, schedulerVars>>
  \/ /\ comp = "rooms" /\ RoomsNext
     /\ UNCHANGED <<comp, proposalVars, codecVars, accessVars, mockVars, eventVars, schedulerVars>>
  \/ /\ comp = "access" /\ AccessNext
     /\ UNCHANGED <<comp, proposalVars, codecVars, roomsVars, mockVars, eventVars, schedulerVars>>
  \/ /\ comp = "mock" /\ MockNext
     /\ UNCHANGED <<comp, proposalVars, codecVars, roomsVars, accessVars, eventVars, schedulerVars>>
  \/ /\ comp = "events" /\ EventsNext
     /\ UNCHANGED <<comp, proposalVars, codecVars, roomsVars, accessVars, mockVars, schedulerVars>>
  \/ /\ comp = "scheduler" /\ SchedulerNext
     /\ UNCHANGED <<comp, proposalVars, codecVars, roomsVars, accessVars, mockVars, eventVars>>

Spec == Init /\ [][Next]_servicesVars
=============================================================================
