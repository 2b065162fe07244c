---------------------------- MODULE LedgerArchive ----------------------------
(***************************************************************************)
(* ThreadSafeTreasurer::with_treasurer and the archiver task that           *)
(* FleetAdmiral::initialize_treasurer spawns.                               *)
(*                                                                         *)
(* A caller waits for the mutex of the treasurer, runs its operation, and   *)
(* keeps the mutex while it sends the new ledger entries, one by one, to    *)
(* the archiver and waits for the answer to each.  Tokio's mutex serves the *)
(* callers in the order they came.                                          *)
(*                                                                         *)
(* What an operation does to the budgets is module Treasurer's subject;     *)
(* here it makes some new entries, which are numbers, and returns Ok or Err.*)
(***************************************************************************)
EXTENDS Naturals, Sequences, FiniteSets, Functions

CONSTANTS Callers,      \* the fibers of the ships and the admiral
          NoCaller,
          MaxEntries,   \* bound on the entries made
          MaxPerCall    \* the most entries that one call makes

ASSUME CallerAssumption ==
    /\ NoCaller \notin Callers
    /\ MaxEntries \in Nat /\ MaxPerCall \in Nat

NoEntry == 0    \* entries are numbered from 1

VARIABLES up,               \* the process runs
          made,             \* the number of entries made so far
          ledger_entries,   \* the entries of the treasurer in memory
          archive,          \* the table ledger_entries, in the order of its ids
          refused,          \* history: the entries whose insert has failed
          queue,            \* the callers that wait for the mutex
          holder,           \* the caller that has it
          starting_idx,     \* the length of ledger_entries when it got it
          unsent,           \* the entries it has yet to send
          tasks,            \* the channel of LedgerArchiveTasks
          inserting,        \* the entry the archiver has received and not answered
          answered          \* the response channel of the last task has an answer

call_vars == <<holder, starting_idx, unsent>>
archiver_vars == <<tasks, inserting, answered>>
vars == <<up, made, ledger_entries, archive, refused, queue, call_vars, archiver_vars>>

Entries == 1..MaxEntries

TypeOK == /\ up \in BOOLEAN
          /\ made \in 0..MaxEntries
          /\ ledger_entries \in Seq(Entries)
          /\ archive \in Seq(Entries)
          /\ refused \subseteq Entries
          /\ queue \in Seq(Callers)
          /\ holder \in Callers \cup {NoCaller}
          /\ starting_idx \in Nat
          /\ unsent \in Seq(Entries)
          /\ tasks \in Seq(Entries)
          /\ inserting \in Entries \cup {NoEntry}
          /\ answered \in BOOLEAN

Init == /\ up = TRUE /\ made = 0
        /\ ledger_entries = <<>> /\ archive = <<>> /\ refused = {}
        /\ queue = <<>>
        /\ holder = NoCaller /\ starting_idx = 0 /\ unsent = <<>>
        /\ tasks = <<>> /\ inserting = NoEntry /\ answered = FALSE

-----------------------------------------------------------------------------
Calling(c) == holder = c \/ c \in Range(queue)

\* mutant of Enqueue: a mutex that serves the last to come
EnqueueFirst(waiting, c) == <<c>> \o waiting

Enqueue(waiting, c) == Append(waiting, c)

Lock(c) == /\ up /\ ~Calling(c)
           /\ queue' = Enqueue(queue, c)
           /\ UNCHANGED <<up, made, ledger_entries, archive, refused, call_vars, archiver_vars>>

NewEntries(n) == [i \in 1..n |-> made + i]

\* mutant of RangeFrom: the index is forgotten
WholeRange(entries, idx) == entries

\* ledger_entries.range(starting_idx..ending_idx)
RangeFrom(entries, idx) == SubSeq(entries, idx + 1, Len(entries))

\* The operation: Ok or Err, with n new entries.  Only a call that returns Ok
\* and has made entries goes on to archive them; the others let go of the mutex.
Operate(n, ok) ==
    /\ up /\ holder = NoCaller /\ queue # <<>>
    /\ queue' = Tail(queue)
    /\ made + n <= MaxEntries
    /\ made' = made + n
    /\ ledger_entries' = ledger_entries \o NewEntries(n)
    /\ IF ok /\ n > 0
       THEN /\ holder' = Head(queue) /\ starting_idx' = Len(ledger_entries)
            /\ unsent' = RangeFrom(ledger_entries', Len(ledger_entries))
       ELSE UNCHANGED call_vars
    /\ UNCHANGED <<up, archive, refused, archiver_vars>>

\* task_sender.send: the channel is unbounded
SendTask == /\ up /\ holder # NoCaller /\ unsent # <<>>
            /\ tasks = <<>> /\ inserting = NoEntry /\ ~answered
            /\ tasks' = Append(tasks, Head(unsent))
            /\ unsent' = Tail(unsent)
            /\ UNCHANGED <<up, made, ledger_entries, archive, refused, queue, holder,
                           starting_idx, inserting, answered>>

-----------------------------------------------------------------------------
(* The archiver.                                                             *)

ReceiveTask == /\ up /\ inserting = NoEntry /\ tasks # <<>>
               /\ inserting' = Head(tasks)
               /\ tasks' = Tail(tasks)
               /\ UNCHANGED <<up, made, ledger_entries, archive, refused, queue, call_vars,
                              answered>>

\* mutant of InsertAndAnswer: an answer without a task
InsertAnything == /\ up /\ ~answered
                  /\ archive' = Append(archive, inserting)
                  /\ inserting' = NoEntry
                  /\ answered' = TRUE
                  /\ UNCHANGED <<up, made, ledger_entries, refused, queue, call_vars, tasks>>

\* archive_ledger_entry, then the Result is sent back, Ok or not
InsertAndAnswer == /\ up /\ inserting # NoEntry
                   /\ \/ archive' = Append(archive, inserting) /\ UNCHANGED refused
                      \/ refused' = refused \cup {inserting} /\ UNCHANGED archive
                   /\ inserting' = NoEntry
                   /\ answered' = TRUE
                   /\ UNCHANGED <<up, made, ledger_entries, queue, call_vars, tasks>>

\* mutant of ReceiveAnswer: the call returns after the first answer
ReceiveOnlyAnswer == /\ up /\ holder # NoCaller /\ answered
                     /\ answered' = FALSE
                     /\ holder' = NoCaller /\ starting_idx' = 0 /\ unsent' = <<>>
                     /\ UNCHANGED <<up, made, ledger_entries, archive, refused, queue, tasks,
                                    inserting>>

\* the caller ignores the Result; with nothing left to send it returns Ok
ReceiveAnswer == /\ up /\ holder # NoCaller /\ answered
                 /\ answered' = FALSE
                 /\ IF unsent = <<>>
                    THEN holder' = NoCaller /\ starting_idx' = 0
                    ELSE UNCHANGED <<holder, starting_idx>>
                 /\ UNCHANGED <<up, made, ledger_entries, archive, refused, queue, unsent,
                                tasks, inserting>>

-----------------------------------------------------------------------------
\* The database keeps the archive.  An insert under way has been committed (then
\* InsertAndAnswer comes before) or not.
Crash == /\ up /\ up' = FALSE
         /\ ledger_entries' = <<>> /\ queue' = <<>>
         /\ holder' = NoCaller /\ starting_idx' = 0 /\ unsent' = <<>>
         /\ tasks' = <<>> /\ inserting' = NoEntry /\ answered' = FALSE
         /\ UNCHANGED <<made, archive, refused>>

\* get_ledger_entries_in_order, from_replayed_ledger_log
Replay == /\ ~up /\ up' = TRUE
          /\ ledger_entries' = archive
          /\ UNCHANGED <<made, archive, refused, queue, call_vars, archiver_vars>>

Next == \/ \E c \in Callers : Lock(c)
        \/ \E n \in 0..MaxPerCall, ok \in BOOLEAN : Operate(n, ok)
        \/ SendTask \/ ReceiveTask \/ InsertAndAnswer \/ ReceiveAnswer
        \/ Crash \/ Replay

Spec == Init /\ [][Next]_vars

\* Tokio polls every task that can go on, and an insert ends: with a row, or
\* with an Err once the pool's timeouts are over.  Nothing makes a fiber call.
Fairness == /\ WF_vars(\E n \in 0..MaxPerCall, ok \in BOOLEAN : Operate(n, ok))
            /\ WF_vars(SendTask) /\ WF_vars(ReceiveTask)
            /\ WF_vars(InsertAndAnswer) /\ WF_vars(ReceiveAnswer)

FairSpec == Spec /\ Fairness

-----------------------------------------------------------------------------
(* Properties.                                                               *)

\* The archive holds entries in the order in which the treasurer processed
\* them, across calls of different fibers, failed inserts and restarts: what
\* from_ledger replays is never reordered, and no entry is there twice.
ArchivedInOrder == \A i, j \in DOMAIN archive : i < j => archive[i] < archive[j]

\* the entries of the call under way
InCall == IF holder = NoCaller THEN {}
          ELSE Range(RangeFrom(ledger_entries, starting_idx))

\* what there is without the entries of the call under way, which are the last ones
SettledMade == IF InCall = {} THEN made ELSE ledger_entries[starting_idx + 1] - 1

SettledMemory == IF InCall = {} THEN ledger_entries ELSE SubSeq(ledger_entries, 1, starting_idx)

SettledArchive == SubSeq(archive, 1, Cardinality({i \in DOMAIN archive : archive[i] \notin InCall}))

Atomic == INSTANCE AtomicLedger WITH
            memory <- SettledMemory, archive <- SettledArchive,
            refused <- refused \ InCall, made <- SettledMade

\* Waiting for one answer per entry under the mutex makes a call one step for
\* everybody else, but for a crash, which may leave a beginning of it; and an entry
\* of a call that has returned Ok is in the archive unless the database refused it.
CallsAreAtomic == Atomic!Spec

\* A fiber that calls the treasurer gets its answer, however many others do, and
\* whatever the database does: no caller starves and nothing deadlocks.
EveryCallReturns == \A c \in Callers : Calling(c) ~> ~Calling(c)
=============================================================================
