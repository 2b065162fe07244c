--------------------------- MODULE UniverseServer ---------------------------
(***************************************************************************)
(* The game server as the in-memory universe implements it, for the        *)
(* requests of one ship.  A request maps the world of the server to the    *)
(* worlds it may leave behind; a refused request has none.  Credits are    *)
(* left out.  Charts and contracts, which the in-memory universe leaves    *)
(* open, follow the answers the agent expects of the real server.          *)
(*                                                                         *)
(* The clock: flying and hot say that the arrival and the end of the       *)
(* cooldown a copy of the ship knows of are still to come.                 *)
(***************************************************************************)
EXTENDS ContractTickets

CONSTANTS Asteroids,     \* waypoints of the two asteroid types
          Minerals,      \* what an extraction yields there
          Gases,         \* what a siphon yields
          Yield,         \* units of an extraction or a siphoning
          Shipyards,     \* where the wanted ships are sold
          Materials,     \* what the construction site requires, by good
          SiteAt,        \* and where it is
          SurveyYields   \* extractions until a survey is exhausted

ASSUME UniverseAssumption ==
  /\ Asteroids \subseteq Waypoints /\ Shipyards \subseteq Waypoints /\ SiteAt \in Waypoints
  /\ Minerals \subseteq Goods /\ Gases \subseteq Goods /\ Yield \in Nat \ {0}
  /\ Materials \in [Goods -> Nat] /\ SurveyYields \in Nat \ {0}

Statuses == {"Docked", "InOrbit", "InTransit"}

\* the parts of a ship the behaviours read
Ships == [wp : Waypoints, status : Statuses, mode : {"Burn", "Cruise", "Drift"},
          flying : BOOLEAN, hot : BOOLEAN, fuel : Int, tank : Tanks,
          hold : Nat, cargo : Cargos]

NoSurvey == 0

Offers == [required : [Goods -> Nat], to : Waypoints]

NothingRequired == [g \in Goods |-> 0]

Offered(offer) ==
  [signed |-> "offered", required |-> offer.required, to |-> offer.to, delivered |-> NothingRequired]

NoContract == [Offered([required |-> NothingRequired, to |-> SiteAt]) EXCEPT !.signed = "none"]

InFlight(s) == s.status = "InTransit" /\ s.flying

\* the ship is over a waypoint, also when nobody has told it so
HasArrived(s) == s.status # "Docked" /\ ~InFlight(s)

Given(condition, world) == IF condition THEN {world} ELSE {}

-----------------------------------------------------------------------------
(* Navigation *)

DockShip(w) == Given(HasArrived(w.ship), [w EXCEPT !.ship.status = "Docked"])

OrbitShip(w) == Given(w.ship.status = "Docked", [w EXCEPT !.ship.status = "InOrbit"])

SetFlightMode(w, mode) ==
  Given(HasArrived(w.ship), [w EXCEPT !.ship.mode = mode, !.ship.status = "InOrbit"])

\* a ship that has arrived may leave, and so may any ship with enough fuel; the
\* ship is at its destination from the departure on
NavigateShip(w, to) ==
  LET fuel == FuelConsumption(w.ship.mode, Distance[w.ship.wp, to])
  IN  Given(HasArrived(w.ship) \/ w.ship.fuel >= fuel,
         [w EXCEPT !.ship.status = "InTransit", !.ship.flying = TRUE, !.ship.wp = to,
                   !.ship.fuel = @ - fuel])

\* check_refuel_facts: the market trades fuel, whether the ship is docked or
\* not; the agent never asks to refuel from its cargo
CanRefuel(w) == w.ship.wp \in Stations

RefuelShip(w, units) ==
  Given(CanRefuel(w), [w EXCEPT !.ship.fuel = LowerOf(@ + units, w.ship.tank)])

-----------------------------------------------------------------------------
(* Cargo *)

\* perform_purchase_trade_good
PurchaseTradeGood(w, good, units) ==
  Given(/\ w.ship.status = "Docked"
        /\ good \in Supplies[w.ship.wp] /\ units <= Volume[good]
        /\ Fits(w.ship.cargo, w.ship.hold, units),
        [w EXCEPT !.ship.cargo = Changed(@, good, units)])

\* perform_sell_trade_good
SellTradeGood(w, good, units) ==
  Given(/\ w.ship.status = "Docked"
        /\ good \in Demands[w.ship.wp] /\ units <= Volume[good]
        /\ good \in InCargo(w.ship.cargo) /\ HasInCargo(w.ship.cargo, good, units),
        [w EXCEPT !.ship.cargo = Changed(@, good, -units)])

\* perform_supply_construction_site
SupplyConstructionSite(w, good, units, wp) ==
  Given(/\ w.ship.status = "Docked" /\ w.ship.wp = wp /\ wp = SiteAt
        /\ w.site # Materials /\ Materials[good] > 0
        /\ units <= Materials[good] - w.site[good]
        /\ good \in InCargo(w.ship.cargo) /\ HasInCargo(w.ship.cargo, good, units),
        [w EXCEPT !.ship.cargo = Changed(@, good, -units), !.site[good] = @ + units])

JettisonCargo(w, good, units) ==
  Given(good \in InCargo(w.ship.cargo) /\ HasInCargo(w.ship.cargo, good, units),
        [w EXCEPT !.ship.cargo = Changed(@, good, -units)])

SiphonResources(w) ==
  {[w EXCEPT !.ship.cargo = Changed(@, g, Yield)] :
     g \in {h \in Gases : Fits(w.ship.cargo, w.ship.hold, Yield)}}

\* CheckCondition::ShipIsInOrbit: an arrival alone does not count
CanExtract(w) ==
  /\ w.ship.status = "InOrbit" /\ ~w.ship.hot /\ w.ship.wp \in Asteroids
  /\ Fits(w.ship.cargo, w.ship.hold, Yield)

Extracted(w, good) == [w EXCEPT !.ship.cargo = Changed(@, good, Yield), !.ship.hot = TRUE]

\* perform_extraction
ExtractResources(w) == {Extracted(w, g) : g \in {h \in Minerals : CanExtract(w)}}

\* perform_extraction_with_survey, of a survey that is not exhausted
ExtractResourcesWithSurvey(w) ==
  {[Extracted(w, g) EXCEPT !.survey = @ - 1] :
     g \in {h \in Minerals : CanExtract(w) /\ w.survey # NoSurvey}}

\* the new surveys replace the ones of before; the cooldown is in the answer only
Survey(w) ==
  Given(w.ship.status = "InOrbit" /\ w.ship.wp \in Asteroids, [w EXCEPT !.survey = SurveyYields])

PurchaseShip(w, wp) ==
  Given(w.ship.status = "Docked" /\ w.ship.wp = wp /\ wp \in Shipyards, [w EXCEPT !.bought = @ + 1])

-----------------------------------------------------------------------------
(* The requests the in-memory universe leaves open *)

CreateChart(w) ==
  Given(w.ship.wp \notin w.charted, [w EXCEPT !.charted = @ \cup {w.ship.wp}])

NegotiateContract(w, offer) ==
  Given(~InFlight(w.ship) /\ w.contract.signed \in {"none", "fulfilled"},
        [w EXCEPT !.contract = Offered(offer)])

AcceptContract(w) ==
  Given(w.contract.signed = "offered", [w EXCEPT !.contract.signed = "accepted"])

DeliverCargoToContract(w, good, units) ==
  Given(/\ w.ship.status = "Docked" /\ w.ship.wp = w.contract.to
        /\ w.contract.signed = "accepted" /\ units <= Open(w.contract, good)
        /\ good \in InCargo(w.ship.cargo) /\ HasInCargo(w.ship.cargo, good, units),
        [w EXCEPT !.ship.cargo = Changed(@, good, -units), !.contract.delivered[good] = @ + units])

FulfillContract(w) ==
  Given(w.contract.signed = "accepted" /\ w.contract.delivered = w.contract.required,
        [w EXCEPT !.contract.signed = "fulfilled"])
=============================================================================
