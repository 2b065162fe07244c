------------------------------- MODULE Cargo -------------------------------
(***************************************************************************)
(* The cargo of a ship (st_model.rs, struct Cargo): the inventory, one     *)
(* entry per good, and the total that the code keeps beside it.  An entry  *)
(* of 0 units is one that is not in the inventory.  The order of the       *)
(* entries is left out.                                                    *)
(***************************************************************************)
EXTENDS Integers, Sequences

CONSTANT Goods  \* the goods of trade

Inventories == [Goods -> Nat]

Cargos == [units : Nat, inv : Inventories]

EmptyCargo == [units |-> 0, inv |-> [g \in Goods |-> 0]]

\* the goods with an entry in the inventory
InCargo(cargo) == {g \in Goods : cargo.inv[g] > 0}

SpaceLeft(cargo, capacity) == capacity - cargo.units

HasInCargo(cargo, good, units) == cargo.inv[good] >= units

Changed(cargo, good, units) ==
  [units |-> cargo.units + units,
   inv   |-> [cargo.inv EXCEPT ![good] = @ + units]]

Fits(cargo, capacity, units) == units <= SpaceLeft(cargo, capacity)

\* Cargo::with_item_added_mut: refused when the space is smaller
WithItemAdded(cargo, capacity, good, units) ==
  IF Fits(cargo, capacity, units) THEN Changed(cargo, good, units) ELSE cargo

\* Cargo::with_units_removed_mut: refused when the entry is smaller
WithUnitsRemoved(cargo, good, units) ==
  IF HasInCargo(cargo, good, units) THEN Changed(cargo, good, -units) ELSE cargo

-----------------------------------------------------------------------------
(* A cargo sold in batches (lib.rs) *)

LowerOf(a, b) == IF a <= b THEN a ELSE b

\* mutant of Batches: the rest of the last batch is rounded away
BatchesWithoutRest(n, volume) ==
  IF n <= volume THEN (IF n = 0 THEN <<>> ELSE <<n>>) ELSE [i \in 1..(n \div volume) |-> volume]

\* mutant of Batches: the rest is a whole batch
BatchesFull(n, volume) ==
  IF n <= volume THEN (IF n = 0 THEN <<>> ELSE <<n>>) ELSE [i \in 1..(n \div volume + 1) |-> volume]

\* calc_batches_based_on_volume_constraint: above the volume the rest is a batch
\* of its own, of 0 units when the volume divides n
Batches(n, volume) ==
  CASE n = 0            -> <<>>
    [] n \in 1..volume -> <<n>>
    [] OTHER            -> [i \in 1..(n \div volume) |-> volume] \o <<n % volume>>

=============================================================================
