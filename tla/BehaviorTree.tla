---------------------------- MODULE BehaviorTree ----------------------------
(***************************************************************************)
(* The behaviour tree engine (behavior_tree.rs).  A tree is compiled into  *)
(* a table: the preorder index of each leaf, as update_indices numbers the *)
(* nodes, and the leaf that runs next after a success and after an error.  *)
(* A program counter in the table replaces the recursion of run.  The      *)
(* messages on state_changed_tx and the pause between two iterations of a  *)
(* loop are left out.                                                      *)
(***************************************************************************)
EXTENDS Integers, Sequences, TLC

Action(name)   == [kind |-> "action", name |-> name, kids |-> <<>>]
Invert(b)      == [kind |-> "invert", kids |-> <<b>>]
Select(bs)     == [kind |-> "select", kids |-> bs]
Sequence(bs)   == [kind |-> "sequence", kids |-> bs]
While(cond, b) == [kind |-> "while", kids |-> <<cond, b>>]

Ok     == 0    \* the tree has returned Ok
Failed == -1   \* the tree has returned an error

RECURSIVE Size(_), Index(_, _, _), FirstLeaf(_, _), Rows(_, _, _, _)

\* the number of nodes
Size(b) ==
  LET size[i \in 0..Len(b.kids)] == IF i = 0 THEN 1 ELSE size[i - 1] + Size(b.kids[i])
  IN  size[Len(b.kids)]

\* the index of the i-th child of the node with index n
Index(b, n, i) == IF i = 1 THEN n + 1 ELSE Index(b, n, i - 1) + Size(b.kids[i - 1])

\* where the execution of the node with index n starts
FirstLeaf(b, n) == IF b.kids = <<>> THEN n ELSE FirstLeaf(b.kids[1], n + 1)

\* where the execution of the i-th child starts
Start(b, n, i) == FirstLeaf(b.kids[i], Index(b, n, i))

\* where the node with index n continues when its i-th child has succeeded; ok
\* and err are where its parent wants it to continue
AfterOk(b, n, i, ok, err) ==
  CASE b.kind = "invert"   -> err
    [] b.kind = "select"   -> ok
    [] b.kind = "sequence" -> IF i = Len(b.kids) THEN ok ELSE Start(b, n, i + 1)
    [] b.kind = "while"    -> Start(b, n, 3 - i)

\* mutant of AfterError: an error of its body ends a loop the way its condition does
AfterErrorForgiving(b, n, i, ok, err) ==
  CASE b.kind = "select"   -> IF i = Len(b.kids) THEN err ELSE Start(b, n, i + 1)
    [] b.kind = "sequence" -> err
    [] OTHER               -> ok

\* ... and when it has failed
AfterError(b, n, i, ok, err) ==
  CASE b.kind = "invert"   -> ok
    [] b.kind = "select"   -> IF i = Len(b.kids) THEN err ELSE Start(b, n, i + 1)
    [] b.kind = "sequence" -> err
    [] b.kind = "while"    -> IF i = 1 THEN ok ELSE err

\* the rows of the leaves of a node
Rows(b, n, ok, err) ==
  LET rows[i \in 0..Len(b.kids)] ==
        IF i = 0 THEN <<>>
        ELSE rows[i - 1] @@ Rows(b.kids[i], Index(b, n, i),
                                 AfterOk(b, n, i, ok, err), AfterError(b, n, i, ok, err))
  IN IF b.kids = <<>> THEN n :> [name |-> b.name, ok |-> ok, err |-> err]
                      ELSE rows[Len(b.kids)]

\* the program of a tree
Compile(b) == [start |-> FirstLeaf(b, 1), rows |-> Rows(b, 1, Ok, Failed)]
=============================================================================
