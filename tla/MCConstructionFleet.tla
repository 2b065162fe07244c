------------------------ MODULE MCConstructionFleet ------------------------
(***************************************************************************)
(* A small system for TLC: M digs ore, F makes fabmats of it and G circuits.*)
(* The gate J requires both.                                                *)
(***************************************************************************)
EXTENDS ConstructionFleet

MCDistance == [<<a, b>> \in Waypoints \X Waypoints |->
                 CASE a = b -> 0 [] {a, b} = {"M", "F"} -> 1 [] OTHER -> 2]

Entry(wp, good, type, volume, buy, sell) ==
  [at |-> wp, good |-> good, type |-> type, trade_volume |-> volume,
   purchase_price |-> buy, sell_price |-> sell]

MCEntries == <<Entry("M", "ore", "EXPORT", 1, 1, 1), Entry("F", "ore", "IMPORT", 1, 2, 2),
               Entry("F", "fabmats", "EXPORT", 2, 1, 1), Entry("M", "circuits", "EXPORT", 1, 1, 1)>>

MCBoosts == <<[from |-> "M", to |-> "F", good |-> "ore", source_volume |-> 1, volume |-> 1,
               price |-> 1, sell |-> 2, allowed |-> 1]>>

MCLimitOf == [g \in Goods |-> IF g = "circuits" THEN 4 ELSE 2]

\* a ship that cannot take all of what is missing
SmallShip == CHOOSE s \in InitialFleet : TRUE

MCCapacity == [s \in Ships |-> IF s = SmallShip THEN 1 ELSE 2]

Load(good) == [units |-> 1, inv |-> [g \in Goods |-> IF g = good THEN 1 ELSE 0]]

\* the first ships carry a unit of material and one of ore
MCLeftovers == [s \in Ships |-> {IF s = SmallShip THEN Load("fabmats")
                                 ELSE IF s \in InitialFleet THEN Load("ore") ELSE EmptyCargo}]

MCNoLeftovers == [s \in Ships |-> {EmptyCargo}]

MCStockLevels == {{}, MaterialExports}

MCRequired == [g \in Goods |-> CASE g = "fabmats" -> 2 [] g = "circuits" -> 1 [] OTHER -> 0]
=============================================================================
