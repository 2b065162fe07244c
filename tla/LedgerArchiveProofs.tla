------------------------ MODULE LedgerArchiveProofs ------------------------
(***************************************************************************)
(* ArchivedInOrder and CallsAreAtomic for any number of callers and entries. *)
(*                                                                         *)
(* The first inductive invariant, IInv, says that the archive, the entry    *)
(* that is being inserted, the one in the channel and the unsent ones come   *)
(* in this order, and that nothing is under way when nobody holds the mutex. *)
(* The second, CallInv, says where the entries of the call under way are;    *)
(* with it every step is a step of module AtomicLedger or is hidden.         *)
(***************************************************************************)
EXTENDS LedgerArchive, SequenceTheorems, FiniteSetTheorems, TLAPS

Increasing(entries) == \A i, j \in DOMAIN entries : i < j => entries[i] < entries[j]

Below(entries, e) == \A i \in DOMAIN entries : entries[i] < e

OneUnderWay == /\ Len(tasks) <= 1
               /\ tasks # <<>> => inserting = NoEntry
               /\ holder = NoCaller => /\ unsent = <<>> /\ tasks = <<>>
                                       /\ inserting = NoEntry /\ ~answered
               /\ answered => tasks = <<>> /\ inserting = NoEntry

InOrder == /\ Increasing(archive)
           /\ Increasing(unsent)
           /\ inserting # NoEntry => Below(archive, inserting)
           /\ \A i \in DOMAIN tasks : Below(archive, tasks[i])
           /\ \A i \in DOMAIN unsent : /\ Below(archive, unsent[i])
                                       /\ inserting < unsent[i]
                                       /\ Below(tasks, unsent[i])

AllMade == /\ Below(archive, made + 1) /\ Below(unsent, made + 1)
           /\ Below(tasks, made + 1) /\ inserting <= made

IInv == TypeOK /\ OneUnderWay /\ InOrder /\ AllMade

\* What with_treasurer cuts out of the log: the entries of the operation.
LEMMA CutEntries ==
    ASSUME NEW S, NEW log \in Seq(S), NEW new \in Seq(S)
    PROVE  RangeFrom(log \o new, Len(log)) = new
<1> DEFINE cut == RangeFrom(log \o new, Len(log))
<1>1. /\ log \o new \in Seq(S) /\ Len(log \o new) = Len(log) + Len(new)
      /\ Len(log) \in Nat /\ Len(new) \in Nat
      /\ \A i \in 1..Len(new) : (log \o new)[Len(log) + i] = new[i]
  OBVIOUS
<1>2. \A i \in (Len(log) + 1)..(Len(log) + Len(new)) : (log \o new)[i] \in S
  BY <1>1, ElementOfSeq
<1>3. /\ cut \in Seq(S) /\ Len(cut) = Len(new)
      /\ \A i \in 1..Len(new) : cut[i] = (log \o new)[Len(log) + 1 + i - 1]
  <2>1. Len(log) + 1 \in Int /\ Len(log) + Len(new) \in Int BY <1>1
  <2>2. cut = SubSeq(log \o new, Len(log) + 1, Len(log) + Len(new)) BY <1>1 DEF RangeFrom
  <2> HIDE DEF cut
  <2> QED BY <1>1, <1>2, <2>1, <2>2, SubSeqProperties
<1>4. \A i \in 1..Len(new) : cut[i] = new[i]
  <2> HIDE DEF cut
  <2> QED BY <1>1, <1>3
<1> HIDE DEF cut
<1> QED
  <2>1. cut = new BY <1>3, <1>4, SeqEqual
  <2> QED BY <2>1 DEF cut

\* The entries of an operation are numbered upwards from those made before.
LEMMA NewEntriesIncrease ==
    ASSUME made \in 0..MaxEntries, NEW n \in Nat, made + n <= MaxEntries
    PROVE  /\ NewEntries(n) \in Seq(Entries)
           /\ Len(NewEntries(n)) = n
           /\ \A i \in 1..n : NewEntries(n)[i] = made + i
<1>1. NewEntries(n) \in [1..n -> Entries]
  BY CallerAssumption DEF NewEntries, Entries
<1>2. NewEntries(n) \in Seq(Entries) BY <1>1
<1>3. DOMAIN NewEntries(n) = 1..n BY DEF NewEntries
<1>4. Len(NewEntries(n)) = n BY <1>2, <1>3
<1> QED BY <1>2, <1>4 DEF NewEntries

\* An empty archive with nothing under way is in order.
LEMMA Initially == Init => IInv
<1> SUFFICES ASSUME Init PROVE IInv OBVIOUS
<1>1. DOMAIN <<>> = {} OBVIOUS
<1>2. TypeOK
  <2>1. up \in BOOLEAN /\ answered \in BOOLEAN BY DEF Init
  <2>2. <<>> \in Seq(Entries) /\ <<>> \in Seq(Callers) BY EmptySeq
  <2>3. made \in 0..MaxEntries /\ refused \subseteq Entries BY CallerAssumption DEF Init
  <2>4. starting_idx \in Nat BY DEF Init
  <2> QED BY <2>1, <2>2, <2>3, <2>4 DEF Init, TypeOK
<1>3. OneUnderWay BY DEF Init, OneUnderWay
<1>4. InOrder BY <1>1 DEF Init, InOrder, Increasing, Below
<1>5. AllMade BY <1>1 DEF Init, AllMade, Below, NoEntry
<1> QED BY <1>2, <1>3, <1>4, <1>5 DEF IInv

\* Taking the first entry off a sequence keeps what holds of all its entries.
LEMMA TailKeeps ==
    ASSUME NEW entries \in Seq(Entries), entries # <<>>, Increasing(entries)
    PROVE  /\ Tail(entries) \in Seq(Entries) /\ Head(entries) \in Entries
           /\ Increasing(Tail(entries))
           /\ \A i \in DOMAIN Tail(entries) :
                i + 1 \in DOMAIN entries /\ Tail(entries)[i] = entries[i + 1]
           /\ 1 \in DOMAIN entries /\ Head(entries) = entries[1]
           /\ \A i \in DOMAIN Tail(entries) : Head(entries) < Tail(entries)[i]
<1>1. /\ Tail(entries) \in Seq(Entries) /\ Head(entries) \in Entries
      /\ Len(Tail(entries)) = Len(entries) - 1
      /\ \A i \in 1..Len(Tail(entries)) : Tail(entries)[i] = entries[i + 1]
  BY HeadTailProperties
<1>2. /\ DOMAIN entries = 1..Len(entries) /\ DOMAIN Tail(entries) = 1..(Len(entries) - 1)
      /\ Len(entries) \in Nat \ {0}
  BY <1>1, LenProperties, EmptySeq
<1>3. Head(entries) = entries[1] BY <1>2
<1> QED BY <1>1, <1>2, <1>3 DEF Increasing

\* No step of a caller, of the archiver or of a restart disturbs the order.
LEMMA StepKeeps == IInv /\ [Next]_vars => IInv'
<1> SUFFICES ASSUME IInv, [Next]_vars PROVE IInv' OBVIOUS
<1> USE DEF IInv
<1>t. /\ archive \in Seq(Entries) /\ unsent \in Seq(Entries) /\ tasks \in Seq(Entries)
      /\ ledger_entries \in Seq(Entries) /\ queue \in Seq(Callers)
      /\ made \in Nat /\ inserting \in Nat /\ Entries \subseteq Nat
  BY DEF TypeOK, Entries, NoEntry
<1>0. DOMAIN <<>> = {} OBVIOUS
<1>1. CASE \E c \in Callers : Lock(c)
  <2> PICK c \in Callers : Lock(c) BY <1>1
  <2>1. queue' \in Seq(Callers)
    BY <1>t, AppendProperties DEF Lock, Enqueue
  <2>2. TypeOK' BY <2>1 DEF Lock, TypeOK, call_vars, archiver_vars
  <2>3. OneUnderWay' BY DEF OneUnderWay, Lock, call_vars, archiver_vars
  <2>4. InOrder' BY DEF InOrder, Increasing, Below, Lock, call_vars, archiver_vars
  <2>5. AllMade' BY DEF AllMade, Below, Lock, call_vars, archiver_vars
  <2> QED BY <2>2, <2>3, <2>4, <2>5
<1>2. ASSUME NEW n \in 0..MaxPerCall, NEW ok \in BOOLEAN, Operate(n, ok)
      PROVE  IInv'
  <2>n. n \in Nat BY CallerAssumption
  <2>1. made + n <= MaxEntries /\ made' = made + n /\ made \in 0..MaxEntries
    BY <1>2 DEF Operate, TypeOK
  <2>2. /\ NewEntries(n) \in Seq(Entries) /\ Len(NewEntries(n)) = n
        /\ \A i \in 1..n : NewEntries(n)[i] = made + i
    BY <2>n, <2>1, NewEntriesIncrease
  <2>3. ledger_entries' = ledger_entries \o NewEntries(n) /\ ledger_entries' \in Seq(Entries)
    BY <1>2, <1>t, <2>2, ConcatProperties DEF Operate
  <2>4. queue' \in Seq(Callers) /\ (queue # <<>> => Head(queue) \in Callers)
    BY <1>2, <1>t, HeadTailProperties DEF Operate
  <2>5. /\ holder = NoCaller /\ unsent = <<>> /\ tasks = <<>> /\ inserting = NoEntry /\ ~answered
        /\ UNCHANGED <<up, archive, refused>> /\ UNCHANGED <<tasks, inserting, answered>>
    BY <1>2 DEF Operate, OneUnderWay, archiver_vars
  <2>6. CASE ok /\ n > 0
    <3>1. holder' \in Callers /\ holder' # NoCaller /\ starting_idx' \in Nat
          /\ unsent' = NewEntries(n)
      BY <1>2, <1>t, <2>2, <2>3, <2>4, <2>6, CutEntries, CallerAssumption, LenProperties
         DEF Operate
    <3>2. DOMAIN unsent' = 1..n BY <2>2, <3>1, LenProperties
    <3>3. TypeOK' BY <2>1, <2>2, <2>3, <2>4, <2>5, <2>n, <3>1, CallerAssumption DEF TypeOK
    <3>4. OneUnderWay' BY <2>5, <3>1 DEF OneUnderWay
    <3>5. InOrder'
      <4>1. Increasing(unsent)' BY <2>2, <3>1, <3>2, <1>t DEF Increasing
      <4>2. \A i \in DOMAIN unsent' : Below(archive, unsent[i])' /\ inserting' < unsent'[i]
        <5>1. \A j \in DOMAIN archive : archive[j] \in Nat /\ archive[j] < made + 1
          BY <1>t, ElementOfSeq, LenProperties DEF AllMade, Below
        <5>2. archive' = archive /\ inserting' = 0 BY <2>5 DEF NoEntry
        <5>3. \A i \in DOMAIN unsent' : unsent'[i] = made + i /\ i \in 1..n
          BY <2>2, <3>1, <3>2
        <5> QED BY <1>t, <2>n, <5>1, <5>2, <5>3 DEF Below
      <4>3. \A i \in DOMAIN unsent' : Below(tasks, unsent[i])'
        BY <1>0, <2>5 DEF Below
      <4> QED BY <1>0, <2>5, <4>1, <4>2, <4>3 DEF InOrder, Increasing, Below
    <3>6. AllMade'
      <4>1. Below(unsent, made + 1)' BY <1>t, <2>1, <2>2, <3>1, <3>2, <2>n DEF Below
      <4>2. Below(archive, made + 1)'
        <5>1. \A i \in DOMAIN archive : archive[i] \in Nat
          BY <1>t, ElementOfSeq, LenProperties
        <5> QED BY <5>1, <1>t, <2>1, <2>5, <2>n DEF AllMade, Below
      <4> QED BY <1>0, <1>t, <2>1, <2>5, <2>n, <4>1, <4>2 DEF AllMade, Below, NoEntry
    <3> QED BY <3>3, <3>4, <3>5, <3>6
  <2>7. CASE ~(ok /\ n > 0)
    <3>1. UNCHANGED <<holder, starting_idx, unsent>> BY <1>2, <2>7 DEF Operate, call_vars
    <3>3. TypeOK' BY <2>1, <2>2, <2>3, <2>4, <2>5, <2>n, <3>1, CallerAssumption DEF TypeOK
    <3>4. OneUnderWay' BY <2>5, <3>1 DEF OneUnderWay
    <3>5. InOrder' BY <2>5, <3>1 DEF InOrder, Increasing, Below
    <3>6. AllMade'
      <4>1. \A i \in DOMAIN archive : archive[i] \in Nat
        BY <1>t, ElementOfSeq, LenProperties
      <4> QED BY <4>1, <1>0, <1>t, <2>1, <2>5, <2>n, <3>1 DEF AllMade, Below, NoEntry
    <3> QED BY <3>3, <3>4, <3>5, <3>6
  <2> QED BY <2>6, <2>7
<1>3. CASE SendTask
  <2>1. /\ unsent # <<>> /\ tasks = <<>> /\ inserting = NoEntry /\ ~answered
        /\ unsent' = Tail(unsent)
        /\ UNCHANGED <<up, made, ledger_entries, archive, refused, queue, holder,
                       starting_idx, inserting, answered>>
    BY <1>3 DEF SendTask
  <2>2. /\ Tail(unsent) \in Seq(Entries) /\ Head(unsent) \in Entries
        /\ Increasing(Tail(unsent))
        /\ \A i \in DOMAIN Tail(unsent) :
             i + 1 \in DOMAIN unsent /\ Tail(unsent)[i] = unsent[i + 1]
        /\ 1 \in DOMAIN unsent /\ Head(unsent) = unsent[1]
        /\ \A i \in DOMAIN Tail(unsent) : Head(unsent) < Tail(unsent)[i]
    BY <1>t, <2>1, TailKeeps DEF InOrder
  <2>3. tasks' = <<Head(unsent)>> /\ DOMAIN tasks' = {1} /\ tasks'[1] = Head(unsent)
        /\ tasks' \in Seq(Entries) /\ Len(tasks') = 1
    BY <1>3, <2>1, <2>2 DEF SendTask
  <2>4. holder # NoCaller BY <2>1 DEF OneUnderWay
  <2>5. TypeOK' BY <2>1, <2>2, <2>3 DEF TypeOK
  <2>6. OneUnderWay' BY <2>1, <2>3, <2>4 DEF OneUnderWay
  <2>7. InOrder'
    <3>1. \A i \in DOMAIN tasks' : Below(archive, tasks[i])'
      BY <2>1, <2>2, <2>3 DEF InOrder, Below
    <3>2. \A i \in DOMAIN unsent' : Below(archive, unsent[i])' /\ inserting' < unsent'[i]
      BY <2>1, <2>2 DEF InOrder, Below
    <3>3. \A i \in DOMAIN unsent' : Below(tasks, unsent[i])'
      BY <2>1, <2>2, <2>3 DEF Below
    <3> QED BY <2>1, <2>2, <3>1, <3>2, <3>3 DEF InOrder, Increasing, Below
  <2>8. AllMade' BY <2>1, <2>2, <2>3 DEF AllMade, Below
  <2> QED BY <2>5, <2>6, <2>7, <2>8
<1>4. CASE ReceiveTask
  <2>1. /\ tasks # <<>> /\ inserting = NoEntry /\ inserting' = Head(tasks)
        /\ tasks' = Tail(tasks)
        /\ UNCHANGED <<up, made, ledger_entries, archive, refused, queue, answered>>
        /\ UNCHANGED <<holder, starting_idx, unsent>>
    BY <1>4 DEF ReceiveTask, call_vars
  <2>2. Len(tasks) = 1 /\ DOMAIN tasks = {1}
    <3>1. Len(tasks) \in Nat /\ DOMAIN tasks = 1..Len(tasks) BY <1>t, LenProperties
    <3>2. Len(tasks) # 0 BY <1>t, <2>1, EmptySeq
    <3>3. Len(tasks) <= 1 BY DEF OneUnderWay
    <3> QED BY <3>1, <3>2, <3>3
  <2>3. Head(tasks) \in Entries /\ Head(tasks) = tasks[1] /\ Tail(tasks) = <<>>
    <3>1. /\ Len(Tail(tasks)) = Len(tasks) - 1
          /\ Tail(tasks) \in Seq(Entries) /\ Head(tasks) \in Entries
      BY <1>t, <2>1, HeadTailProperties
    <3>2. Tail(tasks) = <<>>
      <4>1. \A seq \in Seq(Entries) : Len(seq) = 0 => seq = <<>> BY EmptySeq
      <4>2. Len(Tail(tasks)) = 0 BY <2>2, <3>1
      <4> QED BY <3>1, <4>1, <4>2
    <3>3. Head(tasks) = tasks[1] BY <1>t, <2>2
    <3> QED BY <3>1, <3>2, <3>3
  <2>4. TypeOK' BY <1>t, <2>1, <2>3 DEF TypeOK
  <2>5. OneUnderWay' BY <2>1, <2>3 DEF OneUnderWay
  <2>6. InOrder' BY <1>0, <2>1, <2>2, <2>3 DEF InOrder, Increasing, Below
  <2>7. AllMade'
    <3>1. tasks[1] < made + 1 /\ tasks[1] \in Nat BY <1>t, <2>2, <2>3 DEF AllMade, Below
    <3>2. inserting' <= made' BY <1>t, <2>1, <2>3, <3>1
    <3> QED BY <1>0, <2>1, <2>3, <3>2 DEF AllMade, Below
  <2> QED BY <2>4, <2>5, <2>6, <2>7
<1>5. CASE InsertAndAnswer
  <2>1. /\ inserting # NoEntry /\ inserting' = NoEntry /\ answered'
        /\ UNCHANGED <<up, made, ledger_entries, queue, tasks>>
        /\ UNCHANGED <<holder, starting_idx, unsent>>
        /\ tasks = <<>> /\ holder # NoCaller
    BY <1>5 DEF InsertAndAnswer, call_vars, OneUnderWay
  <2>2. inserting \in Entries BY <2>1 DEF TypeOK
  <2>3. CASE archive' = Append(archive, inserting) /\ UNCHANGED refused
    <3>1. /\ archive' \in Seq(Entries) /\ DOMAIN archive = 1..Len(archive)
          /\ Len(archive) \in Nat
          /\ DOMAIN archive' = 1..(Len(archive) + 1)
          /\ \A i \in 1..Len(archive) : archive'[i] = archive[i]
          /\ archive'[Len(archive) + 1] = inserting
      BY <1>t, <2>2, <2>3, AppendProperties, LenProperties
    <3>2. \A i \in 1..Len(archive) : archive[i] \in Nat /\ archive[i] < inserting
      BY <1>t, <2>1, <3>1, ElementOfSeq DEF InOrder, Below
    <3>3. TypeOK' BY <2>1, <2>3, <3>1 DEF TypeOK
    <3>4. OneUnderWay' BY <2>1 DEF OneUnderWay
    <3>5. InOrder'
      <4>1. Increasing(archive)'
        BY <3>1, <3>2, <1>t DEF InOrder, Increasing
      <4>2. \A i \in DOMAIN unsent' : Below(archive, unsent[i])'
        BY <2>1, <3>1 DEF InOrder, Below
      <4>3. \A i \in DOMAIN unsent' : inserting' < unsent'[i]
        <5>1. \A i \in DOMAIN unsent : unsent[i] \in Entries
          BY <1>t, ElementOfSeq, LenProperties
        <5> QED BY <2>1, <5>1 DEF NoEntry, Entries
      <4> QED BY <1>0, <2>1, <4>1, <4>2, <4>3 DEF InOrder, Increasing, Below
    <3>6. AllMade'
      <4>1. Below(archive, made + 1)' BY <1>t, <2>1, <3>1, <3>2 DEF AllMade, Below
      <4> QED BY <1>0, <1>t, <2>1, <4>1 DEF AllMade, Below, NoEntry
    <3> QED BY <3>3, <3>4, <3>5, <3>6
  <2>4. CASE refused' = refused \cup {inserting} /\ UNCHANGED archive
    <3>1. TypeOK' BY <2>1, <2>2, <2>4 DEF TypeOK
    <3>2. OneUnderWay' BY <2>1 DEF OneUnderWay
    <3>3. InOrder'
      <4>1. \A i \in DOMAIN unsent' : inserting' < unsent'[i]
        <5>1. \A i \in DOMAIN unsent : unsent[i] \in Entries
          BY <1>t, ElementOfSeq, LenProperties
        <5> QED BY <2>1, <5>1 DEF NoEntry, Entries
      <4> QED BY <2>1, <2>4, <4>1 DEF InOrder, Increasing, Below
    <3>4. AllMade' BY <1>t, <2>1, <2>4 DEF AllMade, Below, NoEntry
    <3> QED BY <3>1, <3>2, <3>3, <3>4
  <2> QED BY <1>5, <2>3, <2>4 DEF InsertAndAnswer
<1>6. CASE ReceiveAnswer
  <2>1. /\ answered /\ ~answered' /\ tasks = <<>> /\ inserting = NoEntry
        /\ UNCHANGED <<up, made, ledger_entries, archive, refused, queue, unsent, tasks,
                       inserting>>
    BY <1>6 DEF ReceiveAnswer, OneUnderWay, TypeOK
  <2>2. \/ unsent = <<>> /\ holder' = NoCaller /\ starting_idx' = 0
        \/ holder # NoCaller /\ UNCHANGED <<holder, starting_idx>>
    BY <1>6 DEF ReceiveAnswer
  <2>3. TypeOK'
    <3>1. answered' \in BOOLEAN BY <1>6 DEF ReceiveAnswer
    <3>2. starting_idx' \in Nat /\ holder' \in Callers \cup {NoCaller} BY <2>2 DEF TypeOK
    <3> QED BY <2>1, <3>1, <3>2 DEF TypeOK
  <2>4. OneUnderWay' BY <2>1, <2>2 DEF OneUnderWay
  <2>5. InOrder' BY <2>1 DEF InOrder, Increasing, Below
  <2>6. AllMade' BY <2>1 DEF AllMade, Below
  <2> QED BY <2>3, <2>4, <2>5, <2>6
<1>7. CASE Crash
  <2>1. /\ UNCHANGED <<made, archive, refused>> /\ ledger_entries' = <<>> /\ queue' = <<>>
        /\ holder' = NoCaller /\ starting_idx' = 0 /\ unsent' = <<>>
        /\ tasks' = <<>> /\ inserting' = NoEntry /\ answered' = FALSE /\ up' = FALSE
    BY <1>7 DEF Crash
  <2>2. TypeOK'
    <3>1. <<>> \in Seq(Entries) /\ <<>> \in Seq(Callers) BY EmptySeq
    <3>2. up' \in BOOLEAN /\ answered' \in BOOLEAN BY <2>1
    <3>3. starting_idx' \in Nat BY <2>1
    <3> QED BY <2>1, <3>1, <3>2, <3>3 DEF TypeOK
  <2>3. OneUnderWay'
    <3>1. Len(<<>>) = 0 OBVIOUS
    <3> QED BY <2>1, <3>1 DEF OneUnderWay
  <2>4. InOrder' BY <1>0, <2>1 DEF InOrder, Increasing, Below
  <2>5. AllMade' BY <1>0, <1>t, <2>1 DEF AllMade, Below, NoEntry
  <2> QED BY <2>2, <2>3, <2>4, <2>5
<1>8. CASE Replay
  <2>1. TypeOK' BY <1>8, <1>t DEF TypeOK, Replay, call_vars, archiver_vars
  <2>2. OneUnderWay' BY <1>8 DEF OneUnderWay, Replay, call_vars, archiver_vars
  <2>3. InOrder' BY <1>8 DEF InOrder, Increasing, Below, Replay, call_vars, archiver_vars
  <2>4. AllMade' BY <1>8 DEF AllMade, Below, Replay, call_vars, archiver_vars
  <2> QED BY <2>1, <2>2, <2>3, <2>4
<1>9. CASE UNCHANGED vars
  BY <1>9 DEF vars, call_vars, archiver_vars, TypeOK, OneUnderWay, InOrder, AllMade,
              Increasing, Below
<1> QED BY <1>1, <1>2, <1>3, <1>4, <1>5, <1>6, <1>7, <1>8, <1>9 DEF Next

\* Every reachable state is well typed and keeps all entries that are archived or
\* under way in the order in which they were made.
THEOREM Invariance == Spec => []IInv
BY Initially, StepKeeps, PTL DEF Spec

\* Every reachable state of with_treasurer and the archiver is well typed.
THEOREM TypeCorrect == Spec => []TypeOK
<1>1. IInv => TypeOK BY DEF IInv
<1> QED BY <1>1, Invariance, PTL

\* What from_ledger replays has the order in which the treasurer processed it,
\* for any number of callers, and whether or not inserts fail.
THEOREM InOrderAlways == Spec => []ArchivedInOrder
<1>1. IInv => ArchivedInOrder BY DEF IInv, InOrder, Increasing, ArchivedInOrder
<1> QED BY <1>1, Invariance, PTL

-----------------------------------------------------------------------------
(* with_treasurer implements one step for everybody else.  What this needs   *)
(* to know of a call under way: its entries are the last ones made, in       *)
(* memory one after the other; those that have been processed are a          *)
(* beginning of them, and each of these is a row or has been refused.        *)

Processed == made - Len(unsent) - (IF tasks # <<>> \/ inserting # NoEntry THEN 1 ELSE 0)

CallLen == Len(ledger_entries) - starting_idx

First == made - CallLen + 1

\* the rows of the call are those after the first `before`
RowsAfter(before) ==
    /\ \A i \in 1..before : archive[i] < First
    /\ \A i \in before + 1 .. Len(archive) : archive[i] \in First..Processed
    /\ Len(archive) - before <= Processed - First + 1
    /\ \A e \in First..Processed :
           e \in refused <=> \A i \in before + 1 .. Len(archive) : archive[i] # e

UnderWay ==
    /\ CallLen \in 1..MaxPerCall
    /\ \A i \in 1..CallLen : ledger_entries[starting_idx + i] = First + i - 1
    /\ \A i \in DOMAIN unsent : unsent[i] = made - Len(unsent) + i
    /\ \A i \in DOMAIN tasks : tasks[i] = made - Len(unsent)
    /\ inserting # NoEntry => inserting = made - Len(unsent)
    /\ First - 1 <= Processed
    /\ \A e \in refused : e <= Processed
    /\ \E before \in 0..Len(archive) : RowsAfter(before)

CallInv == /\ ~up => holder = NoCaller /\ ledger_entries = <<>>
           /\ \A e \in refused : e <= made
           /\ holder # NoCaller => UnderWay

\* the numbers behind the types
LEMMA Numbers ==
    ASSUME TypeOK
    PROVE  /\ archive \in Seq(Entries) /\ unsent \in Seq(Entries) /\ tasks \in Seq(Entries)
           /\ ledger_entries \in Seq(Entries)
           /\ made \in Nat /\ inserting \in Nat /\ starting_idx \in Nat
           /\ Entries \subseteq Nat \ {0} /\ refused \subseteq Entries
           /\ Len(archive) \in Nat /\ Len(unsent) \in Nat /\ Len(ledger_entries) \in Nat
           /\ DOMAIN archive = 1..Len(archive) /\ DOMAIN unsent = 1..Len(unsent)
           /\ DOMAIN ledger_entries = 1..Len(ledger_entries)
           /\ \A i \in 1..Len(archive) : archive[i] \in Entries
           /\ \A i \in 1..Len(ledger_entries) : ledger_entries[i] \in Entries
           /\ CallLen \in Int /\ First \in Int /\ Processed \in Int
<1>1. /\ archive \in Seq(Entries) /\ unsent \in Seq(Entries) /\ tasks \in Seq(Entries)
      /\ ledger_entries \in Seq(Entries)
      /\ made \in Nat /\ inserting \in Nat /\ starting_idx \in Nat
      /\ Entries \subseteq Nat \ {0} /\ refused \subseteq Entries
  BY DEF TypeOK, Entries, NoEntry
<1>2. /\ Len(archive) \in Nat /\ Len(unsent) \in Nat /\ Len(ledger_entries) \in Nat
      /\ DOMAIN archive = 1..Len(archive) /\ DOMAIN unsent = 1..Len(unsent)
      /\ DOMAIN ledger_entries = 1..Len(ledger_entries)
  BY <1>1, LenProperties
<1>3. \A i \in 1..Len(archive) : archive[i] \in Entries BY <1>1, ElementOfSeq
<1>4. \A i \in 1..Len(ledger_entries) : ledger_entries[i] \in Entries BY <1>1, ElementOfSeq
<1>5. CallLen \in Int BY <1>1, <1>2 DEF CallLen
<1>6. First \in Int BY <1>1, <1>5 DEF First
<1>7. Processed \in Int BY <1>1, <1>2 DEF Processed
<1> QED BY <1>1, <1>2, <1>3, <1>4, <1>5, <1>6, <1>7

\* A call begins with all its entries unsent.
LEMMA OperateBooks ==
    ASSUME IInv, CallInv, NEW n \in 0..MaxPerCall, NEW ok \in BOOLEAN, Operate(n, ok), IInv'
    PROVE  CallInv'
<1> USE DEF IInv
<1>1. /\ up /\ up' = up /\ holder = NoCaller /\ made' = made + n /\ made + n <= MaxEntries
      /\ ledger_entries' = ledger_entries \o NewEntries(n)
      /\ tasks = <<>> /\ inserting = NoEntry
      /\ UNCHANGED <<archive, refused, tasks, inserting>>
  BY DEF Operate, archiver_vars, OneUnderWay
<1>2. n \in Nat /\ n <= MaxPerCall BY CallerAssumption
<1>3. /\ NewEntries(n) \in Seq(Entries) /\ Len(NewEntries(n)) = n
      /\ \A i \in 1..n : NewEntries(n)[i] = made + i
  BY <1>1, <1>2, NewEntriesIncrease DEF TypeOK
<1>4. \A e \in refused' : e <= made' /\ e <= made /\ e \in Nat
  BY <1>1, <1>2, Numbers DEF CallInv
<1>5. CASE ok /\ n > 0
  <2>1. /\ starting_idx' = Len(ledger_entries) /\ unsent' = NewEntries(n)
    BY <1>1, <1>3, <1>5, CutEntries, Numbers DEF Operate
  <2>2. /\ Len(ledger_entries') = Len(ledger_entries) + n
        /\ \A i \in 1..n : ledger_entries'[Len(ledger_entries) + i] = made + i
    <3> DEFINE log == ledger_entries
               new == NewEntries(n)
    <3>1. log \in Seq(Entries) /\ new \in Seq(Entries) BY <1>3, Numbers
    <3> HIDE DEF log, new
    <3>2. /\ Len(log \o new) = Len(log) + Len(new)
          /\ \A i \in 1..Len(new) : (log \o new)[Len(log) + i] = new[i]
      BY <3>1
    <3> QED BY <1>1, <1>3, <3>2 DEF log, new
  <2>3. CallLen' = n /\ First' = made + 1 /\ Processed' = made /\ Len(unsent') = n
    BY <1>1, <1>2, <1>3, <2>1, <2>2, Numbers DEF CallLen, First, Processed, NoEntry
  <2>4. \A i \in DOMAIN unsent' : unsent'[i] = made' - Len(unsent') + i
    <3>1. DOMAIN unsent' = 1..n BY <1>3, <2>1, LenProperties
    <3> QED BY <1>1, <1>2, <1>3, <2>1, <2>3, <3>1, Numbers
  <2>5. RowsAfter(Len(archive))'
    <3>1. \A i \in 1..Len(archive) : archive[i] < made + 1 BY Numbers DEF AllMade, Below
    <3>2. Len(archive)' + 1 .. Len(archive') = {} BY <1>1, Numbers
    <3>3. First' .. Processed' = {} BY <2>3, Numbers
    <3> QED BY <1>1, <2>3, <3>1, <3>2, <3>3, Numbers DEF RowsAfter
  <2>6. Len(archive)' \in 0..Len(archive') BY <1>1, Numbers
  <2>7. \A i \in 1..CallLen' : ledger_entries'[starting_idx' + i] = First' + i - 1
    <3> SUFFICES ASSUME NEW i \in 1..n PROVE ledger_entries'[starting_idx' + i] = First' + i - 1
      BY <2>3
    <3>1. ledger_entries'[starting_idx' + i] = made + i BY <2>1, <2>2
    <3>2. made + i = (made + 1) + i - 1 BY <1>2, Numbers
    <3> QED BY <2>3, <3>1, <3>2
  <2>8. /\ \A i \in DOMAIN tasks' : tasks'[i] = made' - Len(unsent')
        /\ inserting' = NoEntry
    <3>1. DOMAIN <<>> = {} OBVIOUS
    <3> QED BY <1>1, <3>1
  <2>9. First' - 1 <= Processed' BY <2>3, Numbers
  <2>10. CallLen' \in 1..MaxPerCall BY <1>2, <1>5, <2>3, CallerAssumption
  <2>11. \A e \in refused' : e <= Processed' BY <1>4, <2>3
  <2>12. UnderWay' BY <2>4, <2>5, <2>6, <2>7, <2>8, <2>9, <2>10, <2>11 DEF UnderWay
  <2> QED BY <1>1, <1>4, <2>12 DEF CallInv
<1>6. CASE ~(ok /\ n > 0)
  <2>1. holder' = NoCaller BY <1>1, <1>6 DEF Operate, call_vars
  <2> QED BY <1>1, <1>4, <2>1 DEF CallInv
<1> QED BY <1>5, <1>6

\* Sending and receiving an entry processes nothing.
LEMMA PassingKeeps ==
    ASSUME IInv, CallInv, holder # NoCaller, CallLen' = CallLen, First' = First,
           Processed' = Processed, Len(unsent') \in Nat,
           \A i \in DOMAIN unsent' : unsent'[i] = made - Len(unsent') + i,
           \A i \in DOMAIN tasks' : tasks'[i] = made - Len(unsent'),
           inserting' # NoEntry => inserting' = made - Len(unsent'),
           UNCHANGED <<up, made, ledger_entries, archive, refused, holder, starting_idx>>
    PROVE  CallInv'
<1>1. UnderWay BY DEF CallInv
<1>2. \A before : RowsAfter(before)' <=> RowsAfter(before) BY DEF RowsAfter
<1>3. UnderWay' BY <1>1, <1>2 DEF UnderWay
<1> QED BY <1>3 DEF CallInv

LEMMA SendTaskBooks ==
    ASSUME IInv, CallInv, SendTask
    PROVE  CallInv'
<1> USE DEF IInv
<1>1. /\ holder # NoCaller /\ unsent # <<>> /\ tasks = <<>> /\ inserting = NoEntry
      /\ tasks' = Append(tasks, Head(unsent)) /\ unsent' = Tail(unsent)
      /\ UNCHANGED <<up, made, ledger_entries, archive, refused, holder, starting_idx, inserting>>
  BY DEF SendTask
<1>2. /\ Tail(unsent) \in Seq(Entries)
      /\ \A i \in DOMAIN Tail(unsent) :
           i + 1 \in DOMAIN unsent /\ Tail(unsent)[i] = unsent[i + 1]
      /\ 1 \in DOMAIN unsent /\ Head(unsent) = unsent[1] /\ Head(unsent) \in Entries
  BY <1>1, TailKeeps, Numbers DEF InOrder
<1>3. Len(unsent') = Len(unsent) - 1 /\ DOMAIN unsent' = 1..(Len(unsent) - 1) /\ Len(unsent') \in Nat
  <2>1. Len(Tail(unsent)) = Len(unsent) - 1 BY <1>1, HeadTailProperties, Numbers
  <2> QED BY <1>1, <1>2, <2>1, LenProperties
<1>4. tasks' = <<Head(unsent)>> /\ DOMAIN tasks' = {1} /\ tasks'[1] = unsent[1] /\ tasks' # <<>>
  BY <1>1, <1>2
<1>5. \A i \in DOMAIN unsent : unsent[i] = made - Len(unsent) + i
  BY <1>1 DEF CallInv, UnderWay
<1>6. \A i \in DOMAIN unsent' : unsent'[i] = made - Len(unsent') + i
  <2> TAKE i \in DOMAIN unsent'
  <2>1. unsent'[i] = made - Len(unsent) + (i + 1) /\ i \in Nat BY <1>1, <1>2, <1>3, <1>5
  <2> QED BY <1>3, <2>1, Numbers
<1>7. \A i \in DOMAIN tasks' : tasks'[i] = made - Len(unsent')
  <2>1. unsent[1] = made - Len(unsent) + 1 BY <1>2, <1>5
  <2>2. made - Len(unsent) + 1 = made - Len(unsent') BY <1>3, Numbers
  <2> QED BY <1>4, <2>1, <2>2
<1>8. Processed' = Processed BY <1>1, <1>3, <1>4, Numbers DEF Processed
<1>9. CallLen' = CallLen /\ First' = First BY <1>1 DEF CallLen, First
<1> QED BY <1>1, <1>3, <1>6, <1>7, <1>8, <1>9, PassingKeeps

LEMMA ReceiveTaskBooks ==
    ASSUME IInv, CallInv, ReceiveTask, IInv'
    PROVE  CallInv'
<1> USE DEF IInv
<1>1. /\ tasks # <<>> /\ inserting = NoEntry /\ inserting' = Head(tasks) /\ tasks' = Tail(tasks)
      /\ holder # NoCaller
      /\ UNCHANGED <<up, made, ledger_entries, archive, refused, holder, starting_idx, unsent>>
  BY DEF ReceiveTask, call_vars, OneUnderWay
<1>2. /\ Head(tasks) \in Entries /\ Len(Tail(tasks)) = Len(tasks) - 1
      /\ Tail(tasks) \in Seq(Entries) /\ Len(tasks) \in Nat /\ DOMAIN tasks = 1..Len(tasks)
      /\ Len(tasks) # 0
  BY <1>1, HeadTailProperties, LenProperties, EmptySeq, Numbers
<1>3. Len(tasks) = 1 /\ Head(tasks) = tasks[1] /\ 1 \in DOMAIN tasks
  <2>1. Len(tasks) <= 1 BY DEF OneUnderWay
  <2> QED BY <1>1, <1>2, <2>1
<1>4. DOMAIN tasks' = {} BY <1>1, <1>2, <1>3, LenProperties
<1>5. inserting' # NoEntry /\ inserting' = made - Len(unsent)
  <2>1. \A i \in DOMAIN tasks : tasks[i] = made - Len(unsent) BY <1>1 DEF CallInv, UnderWay
  <2> QED BY <1>1, <1>2, <1>3, <2>1, Numbers DEF NoEntry
<1>6. Processed' = Processed BY <1>1, <1>5 DEF Processed
<1>7. CallLen' = CallLen /\ First' = First BY <1>1 DEF CallLen, First
<1>8. \A i \in DOMAIN unsent : unsent[i] = made - Len(unsent) + i
  BY <1>1 DEF CallInv, UnderWay
<1> QED BY <1>1, <1>4, <1>5, <1>6, <1>7, <1>8, Numbers, PassingKeeps

\* An insert processes the next entry: it becomes the last row, or is refused.
LEMMA InsertBooks ==
    ASSUME IInv, CallInv, InsertAndAnswer
    PROVE  CallInv'
<1> USE DEF IInv
<1>1. /\ inserting # NoEntry /\ inserting' = NoEntry /\ tasks = <<>> /\ holder # NoCaller
      /\ UNCHANGED <<up, made, ledger_entries, holder, starting_idx, unsent, tasks>>
      /\ \/ archive' = Append(archive, inserting) /\ UNCHANGED refused
         \/ refused' = refused \cup {inserting} /\ UNCHANGED archive
  BY DEF InsertAndAnswer, call_vars, OneUnderWay
<1>2. UnderWay BY <1>1 DEF CallInv
<1>3. inserting = made - Len(unsent) /\ inserting \in Entries /\ inserting <= made
  BY <1>1, <1>2 DEF UnderWay, TypeOK, AllMade
<1>4. /\ Processed' = Processed + 1 /\ Processed' = inserting
      /\ CallLen' = CallLen /\ First' = First
  BY <1>1, <1>3, Numbers DEF Processed, CallLen, First, NoEntry
<1>5. \A e \in refused : e <= Processed BY <1>2 DEF UnderWay
<1>6. \A e \in refused' : e <= Processed' /\ e <= made'
  <2> TAKE e \in refused'
  <2>1. CASE e = inserting BY <1>1, <1>3, <1>4, <2>1, Numbers
  <2>2. CASE e # inserting
    <3>1. e \in refused /\ e \in Nat BY <1>1, <2>2, Numbers
    <3>2. e <= Processed /\ e <= made BY <1>5, <3>1 DEF CallInv
    <3>3. e <= Processed + 1 BY <3>1, <3>2, Numbers
    <3> QED BY <1>1, <1>4, <3>2, <3>3
  <2> QED BY <2>1, <2>2
<1>7. First - 1 <= Processed' BY <1>2, <1>4, Numbers DEF UnderWay
<1>8. PICK before \in 0..Len(archive) : RowsAfter(before) BY <1>2 DEF UnderWay
<1>9. RowsAfter(before)' /\ before \in 0..Len(archive')
  <2>0. /\ \A i \in 1..before : archive[i] < First
        /\ \A i \in before + 1 .. Len(archive) : archive[i] \in First..Processed
        /\ Len(archive) - before <= Processed - First + 1
        /\ \A e \in First..Processed :
               e \in refused <=> \A i \in before + 1 .. Len(archive) : archive[i] # e
    BY <1>8 DEF RowsAfter
  <2>n. before \in Nat /\ before <= Len(archive) /\ Len(archive) \in Nat BY Numbers
  <2>1. CASE archive' = Append(archive, inserting) /\ UNCHANGED refused
    <3>1. /\ Len(archive') = Len(archive) + 1
          /\ \A i \in 1..Len(archive) : archive'[i] = archive[i]
          /\ archive'[Len(archive) + 1] = inserting
      BY <1>3, <2>1, AppendProperties, Numbers
    <3>2. \A i \in 1..before : archive'[i] < First' BY <1>4, <2>0, <2>n, <3>1
    <3>3. \A i \in before + 1 .. Len(archive') :
            \/ i \in before + 1 .. Len(archive) /\ archive'[i] = archive[i]
            \/ i = Len(archive) + 1 /\ archive'[i] = inserting
      BY <2>n, <3>1
    <3>4. \A i \in before + 1 .. Len(archive') : archive'[i] \in First'..Processed'
      <4> TAKE i \in before + 1 .. Len(archive')
      <4>1. CASE i \in before + 1 .. Len(archive) /\ archive'[i] = archive[i]
        <5>1. archive[i] \in First..Processed BY <2>0, <4>1
        <5> QED BY <1>4, <4>1, <5>1, Numbers
      <4>2. CASE archive'[i] = inserting BY <1>2, <1>4, <4>2, Numbers DEF UnderWay
      <4> QED BY <3>3, <4>1, <4>2
    <3>5. Len(archive') - before <= Processed' - First' + 1 BY <1>4, <2>0, <2>n, <3>1, Numbers
    <3>6. \A e \in First'..Processed' :
            e \in refused' <=> \A i \in before + 1 .. Len(archive') : archive'[i] # e
      <4> TAKE e \in First'..Processed'
      <4>1. CASE e = inserting
        <5>1. e \notin refused' BY <1>4, <1>5, <2>1, <4>1, Numbers
        <5>2. Len(archive) + 1 \in before + 1 .. Len(archive') BY <2>n, <3>1
        <5> QED BY <3>1, <4>1, <5>1, <5>2
      <4>2. CASE e # inserting
        <5>1. e \in First..Processed BY <1>4, <4>2, Numbers
        <5>2. \A i \in before + 1 .. Len(archive) : i \in before + 1 .. Len(archive') /\ archive'[i] = archive[i]
          BY <2>n, <3>1
        <5>3. (\A i \in before + 1 .. Len(archive') : archive'[i] # e)
                <=> (\A i \in before + 1 .. Len(archive) : archive[i] # e)
          BY <3>3, <4>2, <5>2
        <5> QED BY <2>0, <2>1, <5>1, <5>3
      <4> QED BY <4>1, <4>2
    <3>7. before \in 0..Len(archive') BY <2>n, <3>1
    <3> QED BY <3>2, <3>4, <3>5, <3>6, <3>7 DEF RowsAfter
  <2>2. CASE refused' = refused \cup {inserting} /\ UNCHANGED archive
    <3>1. \A i \in before + 1 .. Len(archive') : archive'[i] \in First'..Processed' /\ archive'[i] # inserting
      BY <1>4, <2>0, <2>2, Numbers
    <3>2. Len(archive') - before <= Processed' - First' + 1 BY <1>4, <2>0, <2>2, <2>n, Numbers
    <3>3. \A e \in First'..Processed' :
            e \in refused' <=> \A i \in before + 1 .. Len(archive') : archive'[i] # e
      <4> TAKE e \in First'..Processed'
      <4>1. CASE e = inserting BY <2>2, <3>1, <4>1
      <4>2. CASE e # inserting
        <5>1. e \in First..Processed BY <1>4, <4>2, Numbers
        <5> QED BY <2>0, <2>2, <4>2, <5>1
      <4> QED BY <4>1, <4>2
    <3> QED BY <1>4, <2>0, <2>2, <3>1, <3>2, <3>3 DEF RowsAfter
  <2> QED BY <1>1, <2>1, <2>2
<1>10. UnderWay' BY <1>1, <1>2, <1>4, <1>6, <1>7, <1>9 DEF UnderWay
<1> QED BY <1>1, <1>6, <1>10 DEF CallInv

\* No step of a caller, of the archiver or of a restart loses track of a call.
LEMMA CallStepKeeps == IInv /\ CallInv /\ [Next]_vars /\ IInv' => CallInv'
<1> SUFFICES ASSUME IInv, CallInv, [Next]_vars, IInv' PROVE CallInv' OBVIOUS
<1> DEFINE call == <<up, made, ledger_entries, archive, refused, holder, starting_idx,
                     unsent, tasks, inserting>>
<1>u. ASSUME UNCHANGED call PROVE CallInv'
  <2>1. Processed' = Processed /\ CallLen' = CallLen /\ First' = First
    BY <1>u DEF Processed, CallLen, First
  <2>2. \A before : RowsAfter(before)' <=> RowsAfter(before) BY <1>u, <2>1 DEF RowsAfter
  <2>3. UnderWay' <=> UnderWay BY <1>u, <2>1, <2>2 DEF UnderWay
  <2> QED BY <1>u, <2>3 DEF CallInv
<1>1. CASE \E c \in Callers : Lock(c)
  <2>1. UNCHANGED call BY <1>1 DEF Lock, call_vars, archiver_vars
  <2> QED BY <1>u, <2>1
<1>2. ASSUME NEW n \in 0..MaxPerCall, NEW ok \in BOOLEAN, Operate(n, ok) PROVE CallInv'
  BY <1>2, OperateBooks
<1>3. CASE SendTask BY <1>3, SendTaskBooks
<1>4. CASE ReceiveTask BY <1>4, ReceiveTaskBooks
<1>5. CASE InsertAndAnswer BY <1>5, InsertBooks
<1>6. CASE ReceiveAnswer
  <2>1. CASE unsent = <<>>
    <3>1. holder' = NoCaller /\ UNCHANGED <<up, made, refused>> /\ up
      BY <1>6, <2>1 DEF ReceiveAnswer
    <3> QED BY <3>1 DEF CallInv
  <2>2. CASE unsent # <<>>
    <3>1. UNCHANGED call BY <1>6, <2>2 DEF ReceiveAnswer
    <3> QED BY <1>u, <3>1
  <2> QED BY <2>1, <2>2
<1>7. CASE Crash BY <1>7 DEF Crash, CallInv
<1>8. CASE Replay
  <2>1. holder' = NoCaller /\ up' /\ UNCHANGED <<made, refused>>
    BY <1>8 DEF Replay, CallInv, call_vars
  <2> QED BY <2>1 DEF CallInv
<1>9. CASE UNCHANGED vars
  <2>1. UNCHANGED call BY <1>9 DEF vars, call_vars, archiver_vars
  <2> QED BY <1>u, <2>1
<1> QED BY <1>1, <1>2, <1>3, <1>4, <1>5, <1>6, <1>7, <1>8, <1>9 DEF Next

\* At the start no call is under way.
LEMMA NoCallYet == Init => CallInv
  BY DEF Init, CallInv

-----------------------------------------------------------------------------
(* What the refinement mapping makes of a state.                             *)

\* The entries of the call under way are the last ones made.
LEMMA CallEntries ==
    ASSUME IInv, CallInv, holder # NoCaller
    PROVE  /\ InCall = First..made /\ InCall # {}
           /\ ledger_entries[starting_idx + 1] = First
           /\ First \in Nat \ {0} /\ First <= made
           /\ SettledMade = First - 1
           /\ SettledMemory = SubSeq(ledger_entries, 1, starting_idx)
<1> DEFINE cut == RangeFrom(ledger_entries, starting_idx)
<1>t. TypeOK BY DEF IInv
<1>1. /\ CallLen \in 1..MaxPerCall /\ CallLen \in Nat
      /\ \A i \in 1..CallLen : ledger_entries[starting_idx + i] = First + i - 1
  BY CallerAssumption DEF CallInv, UnderWay
<1>2. /\ Len(ledger_entries) = starting_idx + CallLen /\ made = First + CallLen - 1
      /\ starting_idx \in Nat /\ Len(ledger_entries) \in Nat /\ CallLen >= 1
      /\ First \in Int /\ made \in Nat
  <2>1. /\ starting_idx \in Nat /\ Len(ledger_entries) \in Nat /\ made \in Nat
        /\ First \in Int
    BY <1>t, Numbers
  <2>2. Len(ledger_entries) = starting_idx + CallLen BY <2>1 DEF CallLen
  <2>3. made = First + CallLen - 1 BY <1>1, <2>1 DEF First
  <2> QED BY <1>1, <2>1, <2>2, <2>3
<1>3. ledger_entries[starting_idx + 1] = First
  <2>1. 1 \in 1..CallLen /\ First + 1 - 1 = First BY <1>1, <1>2
  <2> QED BY <1>1, <2>1
<1>4. starting_idx + 1 \in 1..Len(ledger_entries) BY <1>1, <1>2
<1>5. First \in Nat \ {0} BY <1>t, <1>3, <1>4, Numbers
<1>6. /\ Len(cut) = CallLen /\ DOMAIN cut = 1..CallLen
      /\ \A i \in 1..CallLen : cut[i] = First + i - 1
  <2>1. cut = SubSeq(ledger_entries, starting_idx + 1, starting_idx + CallLen)
    BY <1>2 DEF RangeFrom
  <2>2. /\ starting_idx + 1 \in Int /\ starting_idx + CallLen \in Int
        /\ \A i \in starting_idx + 1 .. starting_idx + CallLen : ledger_entries[i] \in Entries
    BY <1>t, <1>1, <1>2, Numbers
  <2> HIDE DEF cut
  <2>3. /\ cut \in Seq(Entries)
        /\ Len(cut) = CallLen
        /\ \A i \in 1..CallLen : cut[i] = ledger_entries[starting_idx + 1 + i - 1]
    <3> DEFINE from == starting_idx + 1
               to == starting_idx + CallLen
    <3>0. /\ from \in Int /\ to \in Int /\ from <= to /\ to - from + 1 = CallLen
          /\ cut = SubSeq(ledger_entries, from, to)
          /\ \A i \in from..to : ledger_entries[i] \in Entries
      BY <1>1, <1>2, <2>1, <2>2
    <3>f. from = starting_idx + 1 OBVIOUS
    <3> HIDE DEF from, to
    <3>1. /\ cut \in Seq(Entries)
          /\ Len(cut) = IF from <= to THEN to - from + 1 ELSE 0
          /\ \A i \in 1..(to - from + 1) : cut[i] = ledger_entries[from + i - 1]
      BY <3>0, SubSeqProperties
    <3> QED BY <3>0, <3>1, <3>f
  <2>4. \A i \in 1..CallLen : starting_idx + 1 + i - 1 = starting_idx + i BY <1>1, <1>2
  <2>5. \A i \in 1..CallLen : cut[i] = First + i - 1 BY <1>1, <2>3, <2>4
  <2> QED BY <2>3, <2>5, LenProperties
<1>7. InCall = First..made
  <2>1. InCall = {cut[i] : i \in 1..CallLen} BY <1>6 DEF InCall, Range
  <2> HIDE DEF cut
  <2>2. \A i \in 1..CallLen : cut[i] \in First..made BY <1>1, <1>2, <1>6
  <2>3. \A e \in First..made : e - First + 1 \in 1..CallLen /\ cut[e - First + 1] = e
    <3> TAKE e \in First..made
    <3>1. e - First + 1 \in 1..CallLen BY <1>1, <1>2
    <3>2. cut[e - First + 1] = First + (e - First + 1) - 1 BY <1>6, <3>1
    <3> QED BY <1>1, <1>2, <3>1, <3>2
  <2>4. \A e \in First..made : e \in InCall BY <2>1, <2>3
  <2> QED BY <2>1, <2>2, <2>4
<1>8. First <= made BY <1>1, <1>2
<1>9. First \in InCall BY <1>2, <1>7, <1>8
<1> QED BY <1>3, <1>5, <1>7, <1>8, <1>9 DEF SettledMade, SettledMemory

\* The settled part of an archive whose first `before` rows are older than the call.
LEMMA SettledRows ==
    ASSUME IInv, CallInv, holder # NoCaller, NEW before \in 0..Len(archive), RowsAfter(before)
    PROVE  /\ SettledArchive = SubSeq(archive, 1, before)
           /\ Cardinality({i \in DOMAIN archive : archive[i] \notin InCall}) = before
<1> DEFINE old == {i \in DOMAIN archive : archive[i] \notin InCall}
<1>t. TypeOK BY DEF IInv
<1>1. InCall = First..made /\ First \in Nat BY CallEntries
<1>2. /\ \A i \in 1..before : archive[i] < First
      /\ \A i \in before + 1 .. Len(archive) : archive[i] \in First..Processed
  BY DEF RowsAfter
<1>3. Processed <= made BY <1>t, Numbers DEF Processed
<1>4. \A i \in 1..before : archive[i] \notin First..made
  <2> TAKE i \in 1..before
  <2>1. archive[i] < First /\ i \in 1..Len(archive) BY <1>2, <1>t, Numbers
  <2>2. archive[i] \in Nat BY <1>t, <2>1, Numbers
  <2> QED BY <1>1, <2>1, <2>2
<1>5. \A i \in before + 1 .. Len(archive) : archive[i] \in First..made
  BY <1>t, <1>1, <1>2, <1>3, Numbers
<1>6. old = 1..before
  <2>1. \A i \in 1..Len(archive) : i \in 1..before \/ i \in before + 1 .. Len(archive)
    BY <1>t, Numbers
  <2>2. 1..before \subseteq 1..Len(archive) BY <1>t, Numbers
  <2> QED BY <1>t, <1>1, <1>4, <1>5, <2>1, <2>2, Numbers
<1>7. Cardinality(1..before) = before
  <2>1. 1 \in Int /\ before \in Int /\ before >= 0 BY <1>t, Numbers
  <2> QED BY <2>1, FS_Interval
<1> QED BY <1>6, <1>7 DEF SettledArchive

\* All of a sequence.
LEMMA WholeSequence ==
    ASSUME NEW S, NEW seq \in Seq(S)
    PROVE  SubSeq(seq, 1, Len(seq)) = seq
<1> DEFINE part == SubSeq(seq, 1, Len(seq))
<1>1. Len(seq) \in Nat /\ \A i \in 1..Len(seq) : seq[i] \in S BY ElementOfSeq, LenProperties
<1>2. /\ part \in Seq(S) /\ Len(part) = IF 1 <= Len(seq) THEN Len(seq) - 1 + 1 ELSE 0
      /\ \A i \in 1..(Len(seq) - 1 + 1) : part[i] = seq[1 + i - 1]
  <2>1. 1 \in Int /\ Len(seq) \in Int BY <1>1
  <2> QED BY <1>1, <2>1, SubSeqProperties
<1> HIDE DEF part
<1>3. Len(part) = Len(seq) /\ \A i \in 1..Len(seq) : part[i] = seq[i] BY <1>1, <1>2
<1>4. part = seq BY <1>2, <1>3, SeqEqual
<1> QED BY <1>4 DEF part

\* Without a call everything is settled.
LEMMA AllSettled ==
    ASSUME TypeOK, holder = NoCaller
    PROVE  /\ InCall = {} /\ SettledMade = made /\ SettledMemory = ledger_entries
           /\ SettledArchive = archive /\ refused \ InCall = refused
<1>1. InCall = {} BY DEF InCall
<1>2. {i \in DOMAIN archive : archive[i] \notin InCall} = 1..Len(archive) BY <1>1, Numbers
<1>3. Cardinality(1..Len(archive)) = Len(archive)
  <2>1. 1 \in Int /\ Len(archive) \in Int /\ Len(archive) >= 0 BY Numbers
  <2> QED BY <2>1, FS_Interval
<1>4. SettledArchive = archive BY <1>2, <1>3, WholeSequence, Numbers DEF SettledArchive
<1> QED BY <1>1, <1>4 DEF SettledMade, SettledMemory

\* The same of the next state.
LEMMA AllSettledNext ==
    (IInv /\ holder = NoCaller =>
        /\ InCall = {} /\ SettledMade = made /\ SettledMemory = ledger_entries
        /\ SettledArchive = archive /\ refused \ InCall = refused)'
<1>1. IInv /\ holder = NoCaller =>
        /\ InCall = {} /\ SettledMade = made /\ SettledMemory = ledger_entries
        /\ SettledArchive = archive /\ refused \ InCall = refused
  BY AllSettled DEF IInv
<1> QED BY <1>1, PTL

\* The beginning of a sequence is not changed by what comes after it.
LEMMA Beginning ==
    ASSUME NEW S, NEW seq \in Seq(S), NEW more \in Seq(S), NEW n \in 0..Len(seq)
    PROVE  SubSeq(seq \o more, 1, n) = SubSeq(seq, 1, n)
<1> DEFINE long == SubSeq(seq \o more, 1, n)
           short == SubSeq(seq, 1, n)
<1>1. /\ Len(seq) \in Nat /\ n \in Nat /\ n <= Len(seq)
      /\ \A i \in 1..n : (seq \o more)[i] = seq[i] /\ seq[i] \in S
  <2>1. Len(seq) \in Nat BY LenProperties
  <2>2. \A i \in 1..Len(seq) : (seq \o more)[i] = seq[i] /\ seq[i] \in S
    BY ElementOfSeq, ConcatProperties
  <2> QED BY <2>1, <2>2
<1>2. /\ long \in Seq(S) /\ Len(long) = IF 1 <= n THEN n - 1 + 1 ELSE 0
      /\ \A i \in 1..(n - 1 + 1) : long[i] = (seq \o more)[1 + i - 1]
  <2>1. 1 \in Int /\ n \in Int BY <1>1
  <2> QED BY <1>1, <2>1, SubSeqProperties
<1>3. /\ short \in Seq(S) /\ Len(short) = IF 1 <= n THEN n - 1 + 1 ELSE 0
      /\ \A i \in 1..(n - 1 + 1) : short[i] = seq[1 + i - 1]
  <2>1. 1 \in Int /\ n \in Int BY <1>1
  <2> QED BY <1>1, <2>1, SubSeqProperties
<1> HIDE DEF long, short
<1>4. /\ Len(long) = n /\ Len(short) = n
      /\ \A i \in 1..n : long[i] = short[i]
  BY <1>1, <1>2, <1>3
<1>5. long = short BY <1>2, <1>3, <1>4, SeqEqual
<1> QED BY <1>5 DEF long, short

\* A sequence is its beginning followed by the rest.
LEMMA BeginningAndRest ==
    ASSUME NEW S, NEW seq \in Seq(S), NEW n \in 0..Len(seq),
           NEW rest, rest = [i \in 1..(Len(seq) - n) |-> seq[n + i]]
    PROVE  rest \in Seq(S) /\ Len(rest) = Len(seq) - n /\ seq = SubSeq(seq, 1, n) \o rest
<1> DEFINE short == SubSeq(seq, 1, n)
           m == Len(seq) - n
<1>1. /\ Len(seq) \in Nat /\ n \in Nat /\ n <= Len(seq) /\ m \in Nat
      /\ \A i \in 1..Len(seq) : seq[i] \in S
  <2>1. Len(seq) \in Nat /\ \A i \in 1..Len(seq) : seq[i] \in S BY ElementOfSeq, LenProperties
  <2> QED BY <2>1
<1>2. /\ short \in Seq(S) /\ Len(short) = n
      /\ \A i \in 1..n : short[i] = seq[i]
  <2>1. 1 \in Int /\ n \in Int /\ \A i \in 1..n : seq[i] \in S BY <1>1
  <2>2. /\ short \in Seq(S) /\ Len(short) = IF 1 <= n THEN n - 1 + 1 ELSE 0
        /\ \A i \in 1..(n - 1 + 1) : short[i] = seq[1 + i - 1]
    BY <2>1, SubSeqProperties
  <2> HIDE DEF short
  <2> QED BY <1>1, <2>2
<1>3. rest \in Seq(S) /\ Len(rest) = m /\ \A i \in 1..m : rest[i] = seq[n + i]
  <2>1. \A i \in 1..m : n + i \in 1..Len(seq) BY <1>1
  <2>2. rest \in [1..m -> S] BY <1>1, <2>1
  <2>3. rest \in Seq(S) BY <1>1, <2>2
  <2>4. Len(rest) = m BY <1>1, <2>2, <2>3, LenProperties
  <2> QED BY <2>3, <2>4
<1> HIDE DEF short
<1>4. /\ short \o rest \in Seq(S) /\ Len(short \o rest) = Len(seq)
      /\ \A i \in 1..Len(seq) : (short \o rest)[i] = seq[i]
  <2>1. /\ short \o rest \in Seq(S) /\ Len(short \o rest) = n + m
        /\ \A i \in 1..(n + m) : (short \o rest)[i] = IF i <= n THEN short[i] ELSE rest[i - n]
    <3>0. short \in Seq(S) /\ rest \in Seq(S) BY <1>2, <1>3
    <3>1. /\ short \o rest \in Seq(S) /\ Len(short \o rest) = Len(short) + Len(rest)
          /\ \A i \in 1..(Len(short) + Len(rest)) :
                (short \o rest)[i] = IF i <= Len(short) THEN short[i] ELSE rest[i - Len(short)]
      BY <3>0, ConcatProperties
    <3>2. Len(short) = n /\ Len(rest) = m BY <1>2, <1>3
    <3> HIDE DEF m
    <3> QED BY <3>1, <3>2
  <2>2. n + m = Len(seq) BY <1>1
  <2>3. \A i \in 1..Len(seq) : ~(i <= n) => i - n \in 1..m /\ n + (i - n) = i BY <1>1
  <2>4. \A i \in 1..Len(seq) : (short \o rest)[i] = seq[i]
    <3> TAKE i \in 1..Len(seq)
    <3>1. CASE i <= n BY <1>1, <1>2, <2>1, <2>2, <3>1
    <3>2. CASE ~(i <= n) BY <1>3, <2>1, <2>2, <2>3, <3>2
    <3> QED BY <3>1, <3>2
  <2> QED BY <2>1, <2>2, <2>4
<1>5. seq = short \o rest BY <1>4, SeqEqual
<1> QED BY <1>3, <1>5 DEF short

\* The rows of the call under way and its refused entries are what the database
\* has made of the entries processed so far.
LEMMA RowsOfCall ==
    ASSUME IInv, CallInv, holder # NoCaller
    PROVE  \E len \in 0..(Processed - SettledMade) :
             \E rows \in Atomic!Ordered(SettledMade + 1 .. Processed, len) :
               /\ archive = SettledArchive \o rows
               /\ refused = (refused \ InCall)
                             \cup {e \in SettledMade + 1 .. Processed : \A i \in 1..len : rows[i] # e}
<1>t. TypeOK /\ Increasing(archive) BY DEF IInv, InOrder
<1>1. /\ InCall = First..made /\ SettledMade = First - 1 /\ First \in Nat \ {0}
      /\ First - 1 + 1 = First
  BY CallEntries
<1>2. PICK before \in 0..Len(archive) : RowsAfter(before) BY DEF CallInv, UnderWay
<1>3. SettledArchive = SubSeq(archive, 1, before) BY <1>2, SettledRows
<1> DEFINE len == Len(archive) - before
           rows == [i \in 1..len |-> archive[before + i]]
<1>4. /\ Len(archive) \in Nat /\ before \in Nat /\ before <= Len(archive)
      /\ len \in Nat /\ Processed \in Int
      /\ \A i \in 1..len : before + i \in before + 1 .. Len(archive) /\ before + i \in 1..Len(archive)
      /\ \A i \in before + 1 .. Len(archive) : i - before \in 1..len /\ before + (i - before) = i
  BY <1>t, Numbers
<1>5. /\ \A i \in before + 1 .. Len(archive) : archive[i] \in First..Processed
      /\ len <= Processed - First + 1
      /\ \A e \in First..Processed :
             e \in refused <=> \A i \in before + 1 .. Len(archive) : archive[i] # e
  BY <1>2 DEF RowsAfter
<1>6. archive = SubSeq(archive, 1, before) \o rows
  <2>1. archive \in Seq(Entries) BY <1>t, Numbers
  <2>2. rows = [i \in 1..(Len(archive) - before) |-> archive[before + i]] OBVIOUS
  <2> HIDE DEF rows, len
  <2> QED BY <2>1, <2>2, BeginningAndRest
<1>7. len \in 0..(Processed - SettledMade) BY <1>1, <1>4, <1>5
<1>r. /\ DOMAIN rows = 1..len /\ \A i \in 1..len : rows[i] = archive[before + i]
      /\ rows = [i \in 1..len |-> rows[i]]
  OBVIOUS
<1> HIDE DEF len, rows
<1>8. rows \in Atomic!Ordered(SettledMade + 1 .. Processed, len)
  <2>1. \A i \in 1..len : rows[i] \in First..Processed BY <1>4, <1>5, <1>r
  <2>2. rows \in [1..len -> First..Processed] BY <1>r, <2>1
  <2>3. \A i, j \in 1..len : i < j => rows[i] < rows[j]
    <3> SUFFICES ASSUME NEW i \in 1..len, NEW j \in 1..len, i < j PROVE rows[i] < rows[j] OBVIOUS
    <3>1. before + i \in 1..Len(archive) /\ before + j \in 1..Len(archive) /\ before + i < before + j
      BY <1>4
    <3>2. archive[before + i] < archive[before + j] BY <1>t, <3>1, Numbers DEF Increasing
    <3> QED BY <1>r, <3>2
  <2> QED BY <1>1, <2>2, <2>3 DEF Atomic!Ordered
<1>9. refused = (refused \ InCall) \cup {e \in First .. Processed : \A i \in 1..len : rows[i] # e}
  <2>1. \A e \in refused : e <= Processed /\ e \in Nat
    BY <1>t, Numbers DEF CallInv, UnderWay
  <2>2. Processed <= made /\ made \in Nat BY <1>t, Numbers DEF Processed
  <2>3. \A e \in First .. Processed :
          (\A i \in 1..len : rows[i] # e) <=> (\A i \in before + 1 .. Len(archive) : archive[i] # e)
    <3> TAKE e \in First .. Processed
    <3>1. ASSUME \A i \in 1..len : rows[i] # e, NEW i \in before + 1 .. Len(archive)
          PROVE  archive[i] # e
      <4>1. rows[i - before] = archive[i] /\ i - before \in 1..len BY <1>4, <1>r
      <4> QED BY <3>1, <4>1
    <3>2. ASSUME \A i \in before + 1 .. Len(archive) : archive[i] # e, NEW i \in 1..len
          PROVE  rows[i] # e
      BY <1>4, <1>r, <3>2
    <3> QED BY <3>1, <3>2
  <2>4. \A e \in refused \cap InCall : e \in First..Processed BY <1>1, <1>4, <2>1
  <2>5. \A e \in First..Processed : e \in refused <=> \A i \in 1..len : rows[i] # e
    BY <1>5, <2>3
  <2> QED BY <2>4, <2>5
<1> QED BY <1>1, <1>3, <1>6, <1>7, <1>8, <1>9

\* What others see does not change.
Stutter == UNCHANGED <<SettledMade, SettledMemory, SettledArchive, refused \ InCall>>

\* The memory, its rows and the call stay as they are.
LEMMA PassingIsHidden ==
    ASSUME UNCHANGED <<made, ledger_entries, archive, refused, holder, starting_idx>>
    PROVE  Stutter
<1>1. InCall' = InCall BY DEF InCall
<1> QED BY <1>1 DEF Stutter, SettledMade, SettledMemory, SettledArchive

\* Nobody sees the beginning of a call that goes on to archive its entries.
LEMMA BeginningIsHidden ==
    ASSUME IInv, CallInv, NEW n \in 0..MaxPerCall, n > 0, Operate(n, TRUE)
    PROVE  Stutter
<1>t. TypeOK BY DEF IInv
<1>1. /\ holder = NoCaller /\ made' = made + n /\ made + n <= MaxEntries
      /\ ledger_entries' = ledger_entries \o NewEntries(n)
      /\ starting_idx' = Len(ledger_entries)
      /\ queue # <<>> /\ holder' = Head(queue)
      /\ UNCHANGED <<archive, refused>>
  BY DEF Operate
<1>2. n \in Nat /\ n <= MaxPerCall BY CallerAssumption
<1>3. /\ NewEntries(n) \in Seq(Entries) /\ Len(NewEntries(n)) = n
      /\ \A i \in 1..n : NewEntries(n)[i] = made + i
  BY <1>t, <1>1, <1>2, NewEntriesIncrease DEF TypeOK
<1>4. holder' # NoCaller
  <2>1. queue \in Seq(Callers) BY <1>t DEF TypeOK
  <2>2. Head(queue) \in Callers BY <1>1, <2>1, HeadTailProperties
  <2> QED BY <1>1, <2>2, CallerAssumption
<1>5. InCall' = {NewEntries(n)[i] : i \in 1..n}
  <2>1. RangeFrom(ledger_entries', starting_idx') = NewEntries(n)
    BY <1>t, <1>1, <1>3, CutEntries, Numbers
  <2>2. DOMAIN NewEntries(n) = 1..n BY <1>3, LenProperties
  <2> QED BY <1>4, <2>1, <2>2 DEF InCall, Range
<1>6. \A e \in InCall' : e > made BY <1>t, <1>2, <1>3, <1>5, Numbers
<1>7. InCall' # {} BY <1>2, <1>5
<1>8. /\ InCall = {} /\ SettledMade = made /\ SettledMemory = ledger_entries
      /\ SettledArchive = archive /\ refused \ InCall = refused
  BY <1>t, <1>1, AllSettled
<1>9. SettledMade' = made
  <2>1. ledger_entries'[Len(ledger_entries) + 1] = made + 1
    <3> DEFINE log == ledger_entries
               new == NewEntries(n)
    <3>1. log \in Seq(Entries) /\ new \in Seq(Entries) BY <1>t, <1>3, Numbers
    <3>2. 1 \in 1..Len(new) /\ new[1] = made + 1 BY <1>2, <1>3
    <3> HIDE DEF log, new
    <3>3. (log \o new)[Len(log) + 1] = new[1] BY <3>1, <3>2
    <3> QED BY <1>1, <3>2, <3>3 DEF log, new
  <2>2. made \in Nat BY <1>t, Numbers
  <2>3. ledger_entries'[starting_idx' + 1] = made + 1 BY <1>1, <2>1
  <2>4. ledger_entries'[starting_idx' + 1] - 1 = made BY <2>2, <2>3
  <2> QED BY <1>7, <2>4 DEF SettledMade
<1>10. SettledMemory' = ledger_entries
  <2> DEFINE log == ledger_entries
             new == NewEntries(n)
  <2>1. log \in Seq(Entries) /\ new \in Seq(Entries) /\ Len(log) \in 0..Len(log)
    BY <1>t, <1>3, Numbers
  <2> HIDE DEF log, new
  <2>2. SubSeq(log \o new, 1, Len(log)) = SubSeq(log, 1, Len(log)) BY <2>1, Beginning
  <2>3. SubSeq(log, 1, Len(log)) = log BY <2>1, WholeSequence
  <2> QED BY <1>1, <1>7, <2>2, <2>3 DEF SettledMemory, log, new
<1>11. SettledArchive' = archive
  <2>1. \A i \in DOMAIN archive : archive[i] \in Nat /\ archive[i] <= made
    BY <1>t, Numbers DEF IInv, AllMade, Below
  <2>2. \A i \in DOMAIN archive : archive[i] \notin InCall'
    <3> SUFFICES ASSUME NEW i \in DOMAIN archive, archive[i] \in InCall' PROVE FALSE OBVIOUS
    <3>1. archive[i] > made /\ archive[i] <= made /\ archive[i] \in Nat BY <1>6, <2>1
    <3> QED BY <1>t, <3>1, Numbers
  <2>3. {i \in DOMAIN archive' : archive'[i] \notin InCall'}
           = {i \in DOMAIN archive : archive[i] \notin InCall}
    BY <1>1, <1>8, <2>2
  <2>4. SettledArchive' = SettledArchive BY <1>1, <2>3 DEF SettledArchive
  <2> QED BY <1>8, <2>4
<1>12. (refused \ InCall)' = refused
  <2>1. \A e \in refused : e \in Nat /\ e <= made BY <1>t, Numbers DEF CallInv
  <2>2. \A e \in refused : e \notin InCall'
    <3> SUFFICES ASSUME NEW e \in refused, e \in InCall' PROVE FALSE OBVIOUS
    <3>1. e > made /\ e <= made /\ e \in Nat BY <1>6, <2>1
    <3> QED BY <1>t, <3>1, Numbers
  <2> QED BY <1>1, <2>2
<1> QED BY <1>8, <1>9, <1>10, <1>11, <1>12 DEF Stutter

\* A row of the call under way is not settled, nor is a refusal.
LEMMA InsertIsHidden ==
    ASSUME IInv, CallInv, InsertAndAnswer
    PROVE  Stutter
<1>t. TypeOK BY DEF IInv
<1>1. /\ inserting # NoEntry /\ holder # NoCaller
      /\ UNCHANGED <<made, ledger_entries, holder, starting_idx>>
      /\ \/ archive' = Append(archive, inserting) /\ UNCHANGED refused
         \/ refused' = refused \cup {inserting} /\ UNCHANGED archive
  BY DEF InsertAndAnswer, call_vars, IInv, OneUnderWay
<1>2. InCall' = InCall BY <1>1 DEF InCall
<1>3. InCall = First..made BY <1>1, CallEntries
<1>4. inserting \in InCall /\ inserting \in Entries
  <2>1. inserting = made - Len(unsent) /\ First - 1 <= Processed /\ tasks = <<>>
    BY <1>1 DEF CallInv, UnderWay, IInv, OneUnderWay
  <2>2. Processed = inserting - 1 BY <1>t, <1>1, <2>1, Numbers DEF Processed
  <2>3. inserting \in First..made BY <1>t, <2>1, <2>2, Numbers
  <2> QED BY <1>t, <1>1, <1>3, <2>3 DEF TypeOK
<1>5. SettledMade' = SettledMade /\ SettledMemory' = SettledMemory
  BY <1>1, <1>2 DEF SettledMade, SettledMemory
<1>6. CASE archive' = Append(archive, inserting) /\ UNCHANGED refused
  <2>0. PICK before \in 0..Len(archive) : RowsAfter(before) BY <1>1 DEF CallInv, UnderWay
  <2>1. /\ SettledArchive = SubSeq(archive, 1, before)
        /\ Cardinality({i \in DOMAIN archive : archive[i] \notin InCall}) = before
    BY <1>1, <2>0, SettledRows
  <2>2. /\ DOMAIN archive = 1..Len(archive) /\ Len(archive) \in Nat
        /\ DOMAIN archive' = 1..(Len(archive) + 1)
        /\ \A i \in 1..Len(archive) : archive'[i] = archive[i]
        /\ archive'[Len(archive) + 1] = inserting
    BY <1>t, <1>4, <1>6, AppendProperties, LenProperties, Numbers
  <2>3. {i \in DOMAIN archive' : archive'[i] \notin InCall'}
           = {i \in DOMAIN archive : archive[i] \notin InCall}
    BY <1>2, <1>4, <2>2
  <2>4. SettledArchive' = SubSeq(archive', 1, before) BY <2>1, <2>3 DEF SettledArchive
  <2>5. SubSeq(archive', 1, before) = SubSeq(archive, 1, before)
    <3>1. <<inserting>> \in Seq(Entries) /\ archive \in Seq(Entries) BY <1>t, <1>4, Numbers
    <3>2. archive' = archive \o <<inserting>> BY <1>4, <1>6, <3>1, AppendIsConcat
    <3> QED BY <3>1, <3>2, Beginning
  <2> QED BY <1>2, <1>5, <1>6, <2>1, <2>4, <2>5 DEF Stutter
<1>7. CASE refused' = refused \cup {inserting} /\ UNCHANGED archive
  <2>1. SettledArchive' = SettledArchive BY <1>2, <1>7 DEF SettledArchive
  <2>2. (refused \ InCall)' = refused \ InCall BY <1>2, <1>4, <1>7
  <2> QED BY <1>5, <2>1, <2>2 DEF Stutter
<1> QED BY <1>1, <1>6, <1>7

-----------------------------------------------------------------------------
(* The steps that others see: the end of a call, a failed call, a crash and a *)
(* restart.                                                                  *)

\* What a call under way has processed is archived when everything is settled.
LEMMA CallIsArchived ==
    ASSUME IInv, CallInv, holder # NoCaller,
           SettledArchive' = archive, (refused \ InCall)' = refused
    PROVE  Atomic!Archive(Processed)
  BY RowsOfCall DEF Atomic!Archive

\* The memory during a call: the settled part and the entries of the call.
LEMMA CallMemory ==
    ASSUME IInv, CallInv, holder # NoCaller
    PROVE  /\ ledger_entries = SettledMemory \o Atomic!NewEntries(CallLen)
           /\ made = SettledMade + CallLen
           /\ CallLen \in 0..MaxPerCall
<1>t. TypeOK BY DEF IInv
<1>1. /\ SettledMade = First - 1 /\ SettledMemory = SubSeq(ledger_entries, 1, starting_idx)
      /\ First \in Nat
  BY CallEntries
<1>2. /\ CallLen \in 1..MaxPerCall /\ MaxPerCall \in Nat
      /\ \A i \in 1..CallLen : ledger_entries[starting_idx + i] = First + i - 1
  BY CallerAssumption DEF CallInv, UnderWay
<1>3. /\ made \in Nat /\ starting_idx \in Nat /\ Len(ledger_entries) \in Nat
      /\ ledger_entries \in Seq(Entries)
  BY <1>t, Numbers
<1>4. Len(ledger_entries) - starting_idx = CallLen BY DEF CallLen
<1>5. starting_idx \in 0..Len(ledger_entries) BY <1>2, <1>3, <1>4
<1>6. Atomic!NewEntries(CallLen)
         = [i \in 1..(Len(ledger_entries) - starting_idx) |-> ledger_entries[starting_idx + i]]
  <2>1. \A i \in 1..CallLen : SettledMade + i = ledger_entries[starting_idx + i]
    <3> TAKE i \in 1..CallLen
    <3>1. i \in Nat BY <1>2
    <3>2. First - 1 + i = First + i - 1 BY <1>1, <3>1
    <3> QED BY <1>1, <1>2, <3>2
  <2> QED BY <1>4, <2>1 DEF Atomic!NewEntries
<1> DEFINE new == Atomic!NewEntries(CallLen)
<1>7. new = [i \in 1..(Len(ledger_entries) - starting_idx) |-> ledger_entries[starting_idx + i]]
  BY <1>6
<1> HIDE DEF new
<1>8. ledger_entries = SubSeq(ledger_entries, 1, starting_idx) \o new
  BY <1>3, <1>5, <1>7, BeginningAndRest
<1>9. made = SettledMade + CallLen
  <2>1. First = made - CallLen + 1 BY DEF First
  <2> QED BY <1>1, <1>2, <1>3, <2>1
<1>10. ledger_entries = SettledMemory \o new BY <1>1, <1>8
<1>11. CallLen \in 0..MaxPerCall BY <1>2
<1>12. ledger_entries = SettledMemory \o Atomic!NewEntries(CallLen) BY <1>10 DEF new
<1> QED BY <1>9, <1>11, <1>12

\* The last answer: the call has added its entries, all archived or refused.
LEMMA LastAnswerIsTheCall ==
    ASSUME IInv, CallInv, IInv', ReceiveAnswer, unsent = <<>>
    PROVE  Atomic!Next
<1>t. TypeOK BY DEF IInv
<1>1. /\ holder # NoCaller /\ holder' = NoCaller /\ tasks = <<>> /\ inserting = NoEntry
      /\ UNCHANGED <<made, ledger_entries, archive, refused>>
  BY DEF ReceiveAnswer, IInv, OneUnderWay
<1>2. /\ SettledMade' = made /\ SettledMemory' = ledger_entries
      /\ SettledArchive' = archive /\ (refused \ InCall)' = refused
  BY <1>1, AllSettledNext
<1>3. /\ ledger_entries = SettledMemory \o Atomic!NewEntries(CallLen)
      /\ made = SettledMade + CallLen /\ CallLen \in 0..MaxPerCall
  BY <1>1, CallMemory
<1>4. Processed = made
  <2>1. Len(unsent) = 0 OBVIOUS
  <2> QED BY <1>t, <1>1, <2>1, Numbers DEF Processed
<1>5. Atomic!Archive(SettledMade + CallLen) BY <1>1, <1>2, <1>3, <1>4, CallIsArchived
<1>6. Atomic!OkCall(CallLen) BY <1>2, <1>3, <1>5 DEF Atomic!OkCall
<1>7. SettledMade + CallLen <= MaxEntries
  <2>1. made <= MaxEntries BY <1>t, CallerAssumption DEF TypeOK
  <2> QED BY <1>3, <2>1
<1> QED BY <1>3, <1>6, <1>7 DEF Atomic!Next

\* An operation with nothing to archive: its entries are in memory only.
LEMMA OperationAloneIsACall ==
    ASSUME IInv, CallInv, IInv', NEW n \in 0..MaxPerCall, NEW ok \in BOOLEAN,
           ~(ok /\ n > 0), Operate(n, ok)
    PROVE  Atomic!Next
<1>t. TypeOK BY DEF IInv
<1>1. /\ holder = NoCaller /\ holder' = NoCaller /\ made' = made + n /\ made + n <= MaxEntries
      /\ ledger_entries' = ledger_entries \o NewEntries(n)
      /\ UNCHANGED <<archive, refused>>
  BY DEF Operate, call_vars
<1>2. /\ SettledMade' = made' /\ SettledMemory' = ledger_entries'
      /\ SettledArchive' = archive' /\ (refused \ InCall)' = refused'
  BY <1>1, AllSettledNext
<1>3. /\ SettledMade = made /\ SettledMemory = ledger_entries
      /\ SettledArchive = archive /\ refused \ InCall = refused
  BY <1>t, <1>1, AllSettled
<1>4. Atomic!NewEntries(n) = NewEntries(n) BY <1>3 DEF Atomic!NewEntries, NewEntries
<1>5. Atomic!FailedCall(n) BY <1>1, <1>2, <1>3, <1>4 DEF Atomic!FailedCall
<1>6. SettledMade + n <= MaxEntries BY <1>1, <1>3
<1> QED BY <1>5, <1>6 DEF Atomic!Next

\* A crash: of the call under way, the database keeps what has been processed.
LEMMA CrashIsACrash ==
    ASSUME IInv, CallInv, IInv', Crash
    PROVE  Atomic!Next
<1>t. TypeOK BY DEF IInv
<1>1. /\ holder' = NoCaller /\ ledger_entries' = <<>>
      /\ UNCHANGED <<made, archive, refused>>
  BY DEF Crash
<1>2. /\ SettledMade' = made /\ SettledMemory' = <<>>
      /\ SettledArchive' = archive /\ (refused \ InCall)' = refused
  BY <1>1, AllSettledNext
<1>3. CASE holder = NoCaller
  <2>1. /\ SettledMade = made /\ SettledArchive = archive /\ refused \ InCall = refused
    BY <1>t, <1>3, AllSettled
  <2>2. made \in Nat /\ made <= MaxEntries /\ 0 \in 0..MaxPerCall
    BY <1>t, CallerAssumption DEF TypeOK
  <2> DEFINE none == [i \in 1..0 |-> 0]
  <2>3. none \in Atomic!Ordered(SettledMade + 1 .. SettledMade, 0)
    BY DEF Atomic!Ordered
  <2>4. archive \o none = archive
    <3>1. none = <<>> OBVIOUS
    <3> QED BY <1>t, <3>1, Numbers
  <2>5. {e \in SettledMade + 1 .. SettledMade : \A i \in 1..0 : none[i] # e} = {}
    <3>1. SettledMade + 1 .. SettledMade = {} BY <2>1, <2>2
    <3> QED BY <3>1
  <2>6. 0 \in 0..SettledMade - SettledMade BY <2>1, <2>2
  <2> HIDE DEF none
  <2>7. Atomic!Archive(SettledMade) BY <1>2, <2>1, <2>3, <2>4, <2>5, <2>6 DEF Atomic!Archive
  <2>8. SettledMade + 0 = made /\ SettledMade \in SettledMade .. SettledMade + 0 BY <2>1, <2>2
  <2>9. Atomic!Crash(0) BY <1>2, <2>7, <2>8 DEF Atomic!Crash
  <2> QED BY <2>2, <2>8, <2>9 DEF Atomic!Next
<1>4. CASE holder # NoCaller
  <2>1. made = SettledMade + CallLen /\ CallLen \in 0..MaxPerCall BY <1>4, CallMemory
  <2>2. Atomic!Archive(Processed) BY <1>2, <1>4, CallIsArchived
  <2>3. Processed \in SettledMade .. SettledMade + CallLen
    <3>1. SettledMade = First - 1 /\ First - 1 <= Processed
      BY <1>4, CallEntries DEF CallInv, UnderWay
    <3>2. Processed <= made /\ Processed \in Int /\ First \in Int /\ made \in Int
      <4>1. /\ made \in Nat /\ Len(unsent) \in Nat /\ First \in Int /\ Processed \in Int
        BY <1>t, Numbers
      <4>2. Processed <= made BY <4>1 DEF Processed
      <4> QED BY <4>1, <4>2
    <3> QED BY <2>1, <3>1, <3>2
  <2>4. Atomic!Crash(CallLen) BY <1>2, <2>1, <2>2, <2>3 DEF Atomic!Crash
  <2>5. SettledMade + CallLen <= MaxEntries
    <3>1. made <= MaxEntries BY <1>t, CallerAssumption DEF TypeOK
    <3> QED BY <2>1, <3>1
  <2> QED BY <2>1, <2>4, <2>5 DEF Atomic!Next
<1> QED BY <1>3, <1>4

\* A restart replays the archive.
LEMMA ReplayIsAReplay ==
    ASSUME IInv, CallInv, IInv', Replay
    PROVE  Atomic!Next
<1>t. TypeOK BY DEF IInv
<1>1. /\ holder = NoCaller /\ holder' = NoCaller
      /\ ledger_entries = <<>> /\ ledger_entries' = archive
      /\ UNCHANGED <<made, archive, refused>>
  BY DEF Replay, CallInv, call_vars
<1>2. /\ SettledMade' = made /\ SettledMemory' = archive
      /\ SettledArchive' = archive /\ (refused \ InCall)' = refused
  BY <1>1, AllSettledNext
<1>3. /\ SettledMade = made /\ SettledMemory = ledger_entries
      /\ SettledArchive = archive /\ refused \ InCall = refused
  BY <1>t, <1>1, AllSettled
<1>4. SettledMemory = <<>> /\ Atomic!Replay BY <1>1, <1>2, <1>3 DEF Atomic!Replay
<1> QED BY <1>4 DEF Atomic!Next

-----------------------------------------------------------------------------
LEMMA AtomicInit == Init => Atomic!Init
<1> SUFFICES ASSUME Init PROVE Atomic!Init OBVIOUS
<1>1. IInv BY Initially
<1>2. /\ SettledMade = made /\ SettledMemory = ledger_entries
      /\ SettledArchive = archive /\ refused \ InCall = refused
  BY <1>1, AllSettled DEF Init, IInv
<1> QED BY <1>2 DEF Init, Atomic!Init

\* Every step is a step of the atomic calls, or is hidden from those who wait.
LEMMA AtomicStep ==
    IInv /\ CallInv /\ IInv' /\ [Next]_vars => [Atomic!Next]_(Atomic!vars)
<1> SUFFICES ASSUME IInv, CallInv, IInv', [Next]_vars
             PROVE  Atomic!Next \/ UNCHANGED (Atomic!vars)
  OBVIOUS
<1> DEFINE seen == <<made, ledger_entries, archive, refused, holder, starting_idx>>
<1>s. ASSUME Stutter PROVE UNCHANGED (Atomic!vars) BY <1>s DEF Stutter, Atomic!vars
<1>u. ASSUME UNCHANGED seen PROVE UNCHANGED (Atomic!vars) BY <1>s, <1>u, PassingIsHidden
<1>1. CASE \E c \in Callers : Lock(c)
  <2>1. UNCHANGED seen BY <1>1 DEF Lock, call_vars
  <2> QED BY <1>u, <2>1
<1>2. ASSUME NEW n \in 0..MaxPerCall, NEW ok \in BOOLEAN, Operate(n, ok)
      PROVE  Atomic!Next \/ UNCHANGED (Atomic!vars)
  <2>1. CASE ok /\ n > 0
    <3>1. ok = TRUE BY <2>1
    <3>2. Operate(n, TRUE) BY <1>2, <3>1
    <3>3. Stutter BY <2>1, <3>2, BeginningIsHidden
    <3> QED BY <1>s, <3>3
  <2>2. CASE ~(ok /\ n > 0) BY <1>2, <2>2, OperationAloneIsACall
  <2> QED BY <2>1, <2>2
<1>3. CASE SendTask
  <2>1. UNCHANGED seen BY <1>3 DEF SendTask
  <2> QED BY <1>u, <2>1
<1>4. CASE ReceiveTask
  <2>1. UNCHANGED seen BY <1>4 DEF ReceiveTask, call_vars
  <2> QED BY <1>u, <2>1
<1>5. CASE InsertAndAnswer BY <1>5, <1>s, InsertIsHidden
<1>6. CASE ReceiveAnswer
  <2>1. CASE unsent = <<>> BY <1>6, <2>1, LastAnswerIsTheCall
  <2>2. CASE unsent # <<>>
    <3>1. UNCHANGED seen BY <1>6, <2>2 DEF ReceiveAnswer
    <3> QED BY <1>u, <3>1
  <2> QED BY <2>1, <2>2
<1>7. CASE Crash BY <1>7, CrashIsACrash
<1>8. CASE Replay BY <1>8, ReplayIsAReplay
<1>9. CASE UNCHANGED vars
  <2>1. UNCHANGED seen BY <1>9 DEF vars, call_vars
  <2> QED BY <1>u, <2>1
<1> QED BY <1>1, <1>2, <1>3, <1>4, <1>5, <1>6, <1>7, <1>8, <1>9 DEF Next

\* In every reachable state the entries of the call under way are the last ones
\* made, and each one processed so far is a row or has been refused.
THEOREM CallsAreTracked == Spec => []CallInv
<1>1. Spec => []IInv BY Invariance
<1>2. Init => CallInv BY NoCallYet
<1>3. IInv /\ CallInv /\ [Next]_vars /\ IInv' => CallInv' BY CallStepKeeps
<1> QED BY <1>1, <1>2, <1>3, PTL DEF Spec

\* with_treasurer and the archiver implement calls that are one step, for any
\* number of callers, entries per call and failed inserts, and across crashes.
THEOREM Atomicity == Spec => CallsAreAtomic
<1>1. Spec => []IInv BY Invariance
<1>2. Spec => []CallInv BY CallsAreTracked
<1>3. Init => Atomic!Init BY AtomicInit
<1>4. IInv /\ CallInv /\ IInv' /\ [Next]_vars => [Atomic!Next]_(Atomic!vars) BY AtomicStep
<1> QED BY <1>1, <1>2, <1>3, <1>4, PTL DEF Spec, CallsAreAtomic, Atomic!Spec
=============================================================================
