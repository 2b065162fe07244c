--------------------------- MODULE ShipBehaviors ---------------------------
(***************************************************************************)
(* The behaviour trees of the ships (ship_behaviors.rs), as data for the   *)
(* engine.  Leaves that only write to the log are left out.                *)
(***************************************************************************)
EXTENDS BehaviorTree

Leaf(name) == Action(name)

wait_for_arrival_bt ==
  Sequence(<<Leaf("WaitForArrival"), Leaf("FixNavStatusIfNecessary"),
             Leaf("MarkTravelActionAsCompleteIfPossible")>>)

wait_for_cooldown_bt == Sequence(<<Leaf("WaitForCooldown")>>)

\* mutant of orbit_if_necessary: the ship is ready when it is docked
dock_instead == Select(<<Leaf("IsDocked"), Leaf("Orbit")>>)

orbit_if_necessary == Select(<<Leaf("IsInOrbit"), Leaf("Orbit")>>)

dock_if_necessary == Select(<<Leaf("IsDocked"), Leaf("Dock")>>)

adjust_flight_mode_if_necessary == Select(<<Leaf("IsCorrectFlightMode"), Leaf("SetFlightMode")>>)

execute_navigate_travel_action ==
  Sequence(<<Leaf("IsNavigationAction"), wait_for_arrival_bt, orbit_if_necessary,
             adjust_flight_mode_if_necessary, Leaf("NavigateToWaypoint"), Leaf("WaitForArrival")>>)

execute_refuel_travel_action ==
  Sequence(<<Leaf("IsRefuelAction"), wait_for_arrival_bt,
             Select(<<Leaf("CanSkipRefueling"),
                      Sequence(<<dock_if_necessary, Leaf("Refuel"), orbit_if_necessary>>)>>)>>)

travel_action_behavior == Select(<<execute_navigate_travel_action, execute_refuel_travel_action>>)

while_condition_travel_action == Sequence(<<wait_for_arrival_bt, Leaf("HasTravelActionEntry")>>)

follow_travel_actions ==
  While(while_condition_travel_action,
        Sequence(<<wait_for_arrival_bt, Select(<<travel_action_behavior>>)>>))

navigate_to_destination ==
  Select(<<Leaf("IsAtDestination"),
           Sequence(<<Leaf("FixNavStatusIfNecessary"), Leaf("HasDestination"), wait_for_arrival_bt,
                      Select(<<Leaf("HasRouteToDestination"), Leaf("ComputePathToDestination"),
                               Leaf("PrintTravelActions")>>),
                      follow_travel_actions,
                      Leaf("FixNavStatusIfNecessary"), Leaf("RemoveDestination")>>)>>)

purchase_ship_if_has_ticket ==
  Select(<<Invert(Leaf("HasShipPurchaseTicketForWaypoint")),
           Sequence(<<dock_if_necessary, Leaf("PerformTradeActionAndMarkAsCompleted"),
                      Leaf("CollectWaypointInfos"), orbit_if_necessary>>)>>)

prime_explorer_destination_with_first_explorer_location ==
  Select(<<Invert(Leaf("PrintExploreLocations")), Leaf("HasDestination"),
           Leaf("PopExploreLocationAsDestination")>>)

while_condition_explorer == Select(<<Leaf("HasDestination"), Leaf("HasExploreLocationEntry")>>)

process_explorer_queue_until_empty ==
  While(while_condition_explorer,
        Sequence(<<wait_for_arrival_bt, navigate_to_destination, Leaf("CollectWaypointInfos"),
                   purchase_ship_if_has_ticket, Leaf("PopExploreLocationAsDestination")>>))

explorer_behavior ==
  Sequence(<<prime_explorer_destination_with_first_explorer_location,
             process_explorer_queue_until_empty>>)

observe_waypoint_if_necessary_or_sleep ==
  Select(<<Sequence(<<Leaf("IsLateEnoughForWaypointObservation"),
                      Sequence(<<Leaf("CollectWaypointInfos"), Leaf("SetNextObservationTime")>>)>>),
           Leaf("SleepUntilNextObservationTimeOrShipPurchaseTicketHasBeenAssigned")>>)

stationary_probe_behavior ==
  Sequence(<<Select(<<Leaf("HasDestination"),
                      Sequence(<<Leaf("HasPermanentExploreLocationEntry"),
                                 Leaf("SetPermanentExploreLocationAsDestination")>>)>>),
             navigate_to_destination, dock_if_necessary,
             While(Leaf("IsAtObservationWaypoint"),
                   Sequence(<<Select(<<Invert(Leaf("HasShipPurchaseTicketForWaypoint")),
                                       Sequence(<<Leaf("PerformTradeActionAndMarkAsCompleted"),
                                                  Leaf("CollectWaypointInfos")>>)>>),
                              observe_waypoint_if_necessary_or_sleep>>))>>)

go_and_trade ==
  <<Leaf("SetNextTradeStopAsDestination"), navigate_to_destination, wait_for_arrival_bt,
    dock_if_necessary, Leaf("PerformTradeActionAndMarkAsCompleted"), Leaf("CollectWaypointInfos")>>

trading_behavior == Sequence(<<While(Leaf("HasUncompletedTrade"), Sequence(go_and_trade))>>)

fulfill_contract_if_possible ==
  Select(<<Invert(Leaf("IsContractDeliveryComplete")), Leaf("FulfilContract")>>)

accept_contract_if_necessary_and_within_budget ==
  Sequence(<<Leaf("HasActiveContract"),
             Select(<<Leaf("HasAcceptedContract"), Invert(Leaf("CanAffordContract")),
                      Sequence(<<Leaf("AcceptContract"), Leaf("CreateContractTicketsIfNecessary")>>)>>)>>)

negotiate_contract_if_necessary ==
  Select(<<Leaf("HasActiveContract"), Sequence(<<wait_for_arrival_bt, Leaf("NegotiateContract")>>)>>)

purchase_and_deliver_contract_materials ==
  While(Leaf("HasUncompletedTrade"), Sequence(Append(go_and_trade, fulfill_contract_if_possible)))

contractor_behavior ==
  Sequence(<<Leaf("FixNavStatusIfNecessary"), fulfill_contract_if_possible,
             negotiate_contract_if_necessary, accept_contract_if_necessary_and_within_budget,
             Leaf("CreateContractTicketsIfNecessary"), purchase_and_deliver_contract_materials>>)

go_to_siphoning_site_if_necessary ==
  Select(<<Sequence(<<Leaf("FixNavStatusIfNecessary"), Leaf("IsAtSiphoningSite")>>),
           Sequence(<<Leaf("SetSiphoningSiteAsDestination"), navigate_to_destination>>)>>)

go_to_mining_site_if_necessary ==
  Select(<<Sequence(<<Leaf("FixNavStatusIfNecessary"), Leaf("IsAtMiningSite")>>),
           Sequence(<<Leaf("SetMiningSiteAsDestination"), navigate_to_destination>>)>>)

siphon_until_full_behavior ==
  Sequence(<<go_to_siphoning_site_if_necessary, wait_for_arrival_bt,
             Leaf("JettisonInvaluableCarboHydrates"),
             While(Leaf("HasCargoSpaceForSiphoning"),
                   Sequence(<<wait_for_cooldown_bt, orbit_if_necessary, Leaf("SiphonResources"),
                              Leaf("JettisonInvaluableCarboHydrates")>>))>>)

deliver_all_goods_behavior ==
  Sequence(<<Leaf("CreateSellTicketsForAllCargoItems"), trading_behavior>>)

siphoning_behavior == Sequence(<<siphon_until_full_behavior, deliver_all_goods_behavior>>)

survey_if_necessary ==
  Select(<<Invert(Leaf("IsSurveyNecessary")), Invert(Leaf("IsSurveyCapable")),
           Sequence(<<wait_for_arrival_bt, wait_for_cooldown_bt, Leaf("Survey")>>)>>)

extract_resources ==
  Sequence(<<wait_for_arrival_bt, wait_for_cooldown_bt, orbit_if_necessary,
             Leaf("ExtractResources"), Leaf("JettisonInvaluableMinerals")>>)

mine_if_necessary == Sequence(<<survey_if_necessary, extract_resources>>)

mining_hauler_behavior ==
  Select(<<Sequence(<<Leaf("IsHaulerFilledEnoughForDelivery"), deliver_all_goods_behavior>>),
           Sequence(<<go_to_mining_site_if_necessary, wait_for_arrival_bt, orbit_if_necessary,
                      Leaf("AnnounceHaulerReadyForPickup"), deliver_all_goods_behavior>>)>>)

miner_behavior ==
  Sequence(<<go_to_mining_site_if_necessary, wait_for_arrival_bt, orbit_if_necessary,
             While(Invert(Leaf("HasCargoSpaceForMining")), Leaf("AttemptCargoTransfer")),
             While(Leaf("HasAsteroidReachedCriticalLimit"),
                   Sequence(<<Leaf("SleepForNextWaypointCriticalLimitCheck"),
                              Leaf("CollectWaypointInfos")>>)),
             mine_if_necessary>>)

surveyor_behavior ==
  Sequence(<<go_to_mining_site_if_necessary, wait_for_arrival_bt, orbit_if_necessary,
             While(Leaf("IsAtMiningSite"), Sequence(<<wait_for_cooldown_bt, Leaf("Survey")>>))>>)

\* the behaviour of each kind of task (FleetRunner::behavior_runner)
Programs ==
  [preposition |-> Compile(navigate_to_destination),
   explore     |-> Compile(explorer_behavior),
   observe     |-> Compile(stationary_probe_behavior),
   trade       |-> Compile(trading_behavior),
   contract    |-> Compile(contractor_behavior),
   siphon      |-> Compile(siphoning_behavior),
   haul        |-> Compile(mining_hauler_behavior),
   mine        |-> Compile(miner_behavior),
   survey      |-> Compile(surveyor_behavior)]
=============================================================================
