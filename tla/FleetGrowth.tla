----------------------------- MODULE FleetGrowth -----------------------------
(***************************************************************************)
(* The plan of FleetPlan over the life of an agent that works off its       *)
(* shopping lists, goes from phase to phase and is restarted.               *)
(*                                                                         *)
(* An entry leaves the demand when its purchase ticket is created; the ship *)
(* is bought much later, by another task, and joins the admiral later still,*)
(* with the report of the purchase.  The demand is computed from the ships  *)
(* the admiral has: a start or a new phase in between counts the entry      *)
(* again.                                                                  *)
(***************************************************************************)
EXTENDS FleetPlan

CONSTANTS InitialShips,
          MaxUnderway \* bound on tickets and coming ships

ASSUME GrowthAssumption == InitialShips \subseteq Ships /\ MaxUnderway \in Nat

VARIABLES ships,     \* all_ships
          completed, \* what the phase is computed from: completed_fleet_tasks and the facts
          demand,    \* ship_purchase_demand
          tickets,   \* the types with an active purchase ticket, one ticket a type
          coming,    \* ships that were bought for a ticket and are not in all_ships yet
          drifted    \* since the demand was computed an entry was lost, or it was
                     \* computed while a ticket was active or a ship was coming
vars == <<ships, completed, demand, tickets, coming, drifted>>

PhaseNow == PhaseOf(FALSE, FALSE, completed)
List == ShoppingList(PhaseNow)

Init == /\ ships = InitialShips /\ completed = {}
        /\ demand = NextShipPurchases(ships, PhaseNow)
        /\ tickets = {} /\ coming = {} /\ drifted = FALSE

\* mutant of CreateTicket: the entry stays in the demand
CreateTicketAndKeep ==
    /\ demand # <<>> /\ Head(demand).type \notin tickets
    /\ Cardinality(tickets) + Cardinality(coming) < MaxUnderway
    /\ tickets' = tickets \cup {Head(demand).type}
    /\ UNCHANGED <<ships, completed, demand, coming, drifted>>

\* create_ship_purchase_ticket takes the first entry off.  It comes back, and
\* nothing has changed, when its type has a ticket or the money is too little.
CreateTicket ==
    /\ demand # <<>> /\ Head(demand).type \notin tickets
    /\ Cardinality(tickets) + Cardinality(coming) < MaxUnderway
    /\ demand' = Tail(demand) /\ tickets' = tickets \cup {Head(demand).type}
    /\ UNCHANGED <<ships, completed, coming, drifted>>

\* no shipyard, fleet or purchaser is found: the entry does not come back
LoseEntry ==
    /\ demand # <<>> /\ Head(demand).type \notin tickets
    /\ demand' = Tail(demand) /\ drifted' = TRUE
    /\ UNCHANGED <<ships, completed, tickets, coming>>

\* A ship executes the ticket and completes it.  (When the completion fails the
\* ticket stays, and the ship never gets to the admiral.)
Purchase(s) ==
    /\ s \notin ships \cup coming /\ ShipTypeOf[s] \in tickets
    /\ coming' = coming \cup {s} /\ tickets' = tickets \ {ShipTypeOf[s]}
    /\ UNCHANGED <<ships, completed, demand, drifted>>

\* The report of the purchase is handled.  (When it gets lost the ship is coming
\* until the next start.)
Register(s) ==
    /\ s \in coming
    /\ ships' = ships \cup {s} /\ coming' = coming \ {s}
    /\ UNCHANGED <<completed, demand, tickets, drifted>>

\* the first fleet of the phase has done its task
Finished == completed \cup {Head(PhaseTasks(PhaseNow))}

\* its fleets are dismantled
Advance == /\ PhaseNow # "TradeProfitably"
           /\ completed' = Finished
           /\ demand' = NextShipPurchases(ships, PhaseNow')
           /\ drifted' = (tickets # {} \/ coming # {})
           /\ UNCHANGED <<ships, tickets, coming>>

\* load_admiral: the ships that were stored, the phase of the facts, and the
\* tickets of the ledger, unless a difference in credits resets it.
Restart == \E stored \in SUBSET coming, kept \in {tickets, {}} :
    /\ ships' = ships \cup stored /\ coming' = {} /\ tickets' = kept
    /\ \/ completed' = completed
       \/ PhaseNow # "TradeProfitably" /\ completed' = Finished
    /\ demand' = NextShipPurchases(ships', PhaseNow')
    /\ drifted' = (kept # {})

Next == \/ CreateTicket \/ LoseEntry \/ Advance \/ Restart
        \/ \E s \in Ships : (Purchase(s) \/ Register(s))

Spec == Init /\ [][Next]_vars

-----------------------------------------------------------------------------
Place(i) == Cardinality({j \in 1..i : List[j].type = List[i].type})

\* the ships the agent has, and those it is about to get
Expected == [t \in ShipTypes |-> Cardinality(OfType(ships \cup coming, t)) + (IF t \in tickets THEN 1 ELSE 0)]

NothingUnderway == tickets = {} /\ coming = {}

\* the entries that come after as many of their type as there are such ships
Lacking == {i \in DOMAIN List : Place(i) > Expected[List[i].type]}

\* Entries leave the demand from its front, at the creation of a ticket; their
\* ships join later and in any order.  As long as no entry was lost, and the demand
\* was computed with nothing on its way, it holds entry by entry what the list asks
\* for beyond the ships, the coming ships and the tickets: of every type as many
\* entries as are too few, and of these the last ones, in order.  Once nothing is
\* on its way it is what a start would compute.
DemandIsWhatTheShipsLack ==
    ~drifted =>
        /\ Len(demand) = Cardinality(Lacking)
        /\ \A i \in Lacking : demand[Cardinality(Lacking \cap 1..i)] = List[i]
        /\ NothingUnderway => demand = NextShipPurchases(ships, PhaseNow)

Homeless(sent) == {s \in ships : sent[s] = NoFleet}
Surplus == Max({0, Cardinality(OfType(ships, "hauler")) - 3})

\* what is left to buy is the end of what there was to buy
BoughtInOrder == IsSuffix(NextShipPurchases(ships, PhaseNow), NextShipPurchases(InitialShips, PhaseNow))

\* What assign_ships leaves without a fleet while the gate is under construction
\* are haulers beyond the three that the construction fleet picks, for an agent that
\* has bought its ships in the order of the list, and no more of the other types
\* than are listed.  (Out of that order a fleet stops picking at the first type
\* of which there is no ship.)
OnlyHaulersAreLeftOut ==
    PhaseNow = "ConstructJumpGate" /\ NothingUnderway /\ BoughtInOrder =>
        \A order \in SetToSeqs(Range(PhaseTasks(PhaseNow))) :
        \A sent \in ShipAssignments(order, ships, List) :
            Homeless(sent) \subseteq OfType(ships, "hauler") /\ Cardinality(Homeless(sent)) = Surplus
=============================================================================
