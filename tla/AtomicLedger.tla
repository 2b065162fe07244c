---------------------------- MODULE AtomicLedger ----------------------------
(***************************************************************************)
(* What the callers of the treasurer rely on, and what module Treasurer     *)
(* assumes of a call: a call that returns Ok adds its ledger entries to the *)
(* treasurer in memory and, but for those the database refuses, to the      *)
(* archive, in one step; a call that returns Err adds what it has processed *)
(* to the memory only; a crash leaves the archive, to which it may have     *)
(* added the first entries of a call under way, and the next start makes a  *)
(* treasurer out of it.                                                     *)
(*                                                                         *)
(* An entry is its number: `made` entries have been made so far.           *)
(***************************************************************************)
EXTENDS Naturals, Sequences

CONSTANTS MaxEntries,   \* bound on the entries made
          MaxPerCall    \* the most entries that one call makes

VARIABLES made, memory, archive, refused

vars == <<made, memory, archive, refused>>

NewEntries(n) == [i \in 1..n |-> made + i]

Init == made = 0 /\ memory = <<>> /\ archive = <<>> /\ refused = {}

\* sequences without repetition of elements of a set of numbers, in order
Ordered(numbers, len) ==
    {rows \in [1..len -> numbers] : \A i, j \in 1..len : i < j => rows[i] < rows[j]}

\* The database stores the entries numbered up to `last`, in order, but for some
\* it refuses.
Archive(last) ==
    \E len \in 0 .. last - made : \E rows \in Ordered(made + 1 .. last, len) :
        /\ archive' = archive \o rows
        /\ refused' = refused \cup {e \in made + 1 .. last : \A i \in 1..len : rows[i] # e}

OkCall(n) == /\ made' = made + n
             /\ memory' = memory \o NewEntries(n)
             /\ Archive(made + n)

FailedCall(n) == /\ made' = made + n
                 /\ memory' = memory \o NewEntries(n)
                 /\ UNCHANGED <<archive, refused>>

Crash(n) == /\ made' = made + n
            /\ \E last \in made .. made + n : Archive(last)
            /\ memory' = <<>>

Replay == memory' = archive /\ UNCHANGED <<made, archive, refused>>

Next == \/ \E n \in 0..MaxPerCall :
              made + n <= MaxEntries /\ (OkCall(n) \/ FailedCall(n) \/ Crash(n))
        \/ memory = <<>> /\ Replay

Spec == Init /\ [][Next]_vars
=============================================================================
