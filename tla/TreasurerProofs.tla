--------------------------- MODULE TreasurerProofs ---------------------------
(***************************************************************************)
(* Theorems of Treasurer, in three parts.                                   *)
(*                                                                         *)
(* The first is about ImprovedTreasurer alone: what one ledger entry does   *)
(* to a treasurer (it keeps the types, moves the treasury's fund only with  *)
(* transfers, and changes the agent's credits by CreditDelta), and what     *)
(* every call keeps, as lemmas on call records.                             *)
(*                                                                         *)
(* The second is about credits: types, a treasury that is never overdrawn,  *)
(* books that are reconciled after a start and balanced while the agent     *)
(* runs.                                                                    *)
(*                                                                         *)
(* The third is about tickets: one that a ship has executed stays active    *)
(* until the ship reports it, and the capital a fleet has reserved moves    *)
(* with the allocations of its active tickets.                              *)
(***************************************************************************)
EXTENDS Treasurer, FiniteSums, SequenceTheorems, TLAPS

-----------------------------------------------------------------------------
(* Types.                                                                    *)

\* The updates of a map of budgets are again maps of budgets.
LEMMA AmountsType ==
    ASSUME NEW amounts \in [Fleets -> Int], NEW f \in Fleets, NEW x \in Int
    PROVE  /\ Plus(amounts, f, x) \in [Fleets -> Int]
           /\ Put(amounts, f, x) \in [Fleets -> Int]
BY DEF Plus, Put

\* The fields of a treasurer.
LEMMA Fields ==
    ASSUME NEW t \in Treasurers
    PROVE  /\ t.fund \in Int /\ t.fleets \in SUBSET Fleets
           /\ t.current_capital \in [Fleets -> Int]
           /\ t.reserved_capital \in [Fleets -> Int]
           /\ t.budget \in [Fleets -> Int]
           /\ t.operating_reserve \in [Fleets -> Int]
           /\ t.active \in SUBSET FinanceTicket
           /\ t.completed \in SUBSET FinanceTicket
BY DEF Treasurers

\* process_ledger_entry keeps the shape of the treasurer.
LEMMA ProcessType ==
    ASSUME NEW t \in Treasurers, NEW e \in LedgerEntries
    PROVE  Process(t, e) \in Treasurers
<1> USE Fields
<1>1. CASE e.kind \in {"TreasuryCreated", "TreasuryReset"}
  <2>1. e.credits \in Int
    BY <1>1 DEF LedgerEntries
  <2>2. CASE e.kind = "TreasuryCreated"
    BY <2>1, <2>2 DEF Process, Treasurers
  <2>3. CASE e.kind = "TreasuryReset"
    BY <2>1, <2>3 DEF Process, Treasurers
  <2>4. QED
    BY <1>1, <2>2, <2>3
<1>2. CASE e.kind \in {"FleetCreated", "FundsFromTreasuryToFleet", "FundsFromFleetToTreasury",
                       "SetNewTotalCapital", "SetNewOperatingReserve", "ExpenseLogged",
                       "IncomeLogged"}
  <2>1. e.fleet \in Fleets /\ e.credits \in Int /\ -e.credits \in Int
    BY <1>2 DEF LedgerEntries
  <2>2. \A amounts \in [Fleets -> Int] :
          /\ Plus(amounts, e.fleet, e.credits) \in [Fleets -> Int]
          /\ Plus(amounts, e.fleet, -e.credits) \in [Fleets -> Int]
          /\ Put(amounts, e.fleet, e.credits) \in [Fleets -> Int]
          /\ Put(amounts, e.fleet, 0) \in [Fleets -> Int]
    <3> TAKE amounts \in [Fleets -> Int]
    <3>1. Plus(amounts, e.fleet, e.credits) \in [Fleets -> Int]
      BY <2>1, AmountsType
    <3>2. Plus(amounts, e.fleet, -e.credits) \in [Fleets -> Int]
      BY <2>1, AmountsType
    <3>3. Put(amounts, e.fleet, e.credits) \in [Fleets -> Int]
      BY <2>1, AmountsType
    <3>4. Put(amounts, e.fleet, 0) \in [Fleets -> Int]
      BY <2>1, AmountsType
    <3>5. QED
      BY <3>1, <3>2, <3>3, <3>4
  <2>3. CASE e.kind = "FleetCreated"
    BY <2>1, <2>2, <2>3 DEF Process, Treasurers
  <2>4. CASE e.kind = "FundsFromTreasuryToFleet"
    <3>1. t.fund - e.credits \in Int
      BY <2>1
    <3>2. QED
      BY <2>1, <2>2, <2>4, <3>1 DEF Process, Treasurers
  <2>5. CASE e.kind = "FundsFromFleetToTreasury"
    <3>1. t.fund + e.credits \in Int
      BY <2>1
    <3>2. QED
      BY <2>1, <2>2, <2>5, <3>1 DEF Process, Treasurers
  <2>6. CASE e.kind = "SetNewTotalCapital"
    BY <2>1, <2>2, <2>6 DEF Process, Treasurers
  <2>7. CASE e.kind = "SetNewOperatingReserve"
    BY <2>1, <2>2, <2>7 DEF Process, Treasurers
  <2>8. CASE e.kind = "ExpenseLogged"
    BY <2>1, <2>2, <2>8 DEF Process, Treasurers
  <2>9. CASE e.kind = "IncomeLogged"
    BY <2>1, <2>2, <2>9 DEF Process, Treasurers
  <2>10. QED
    BY <1>2, <2>3, <2>4, <2>5, <2>6, <2>7, <2>8, <2>9
<1>3. CASE e.kind \in {"TicketCreated", "BrokenTicketDeleted", "TicketCompleted"}
  <2>1. e.fleet \in Fleets /\ e.ticket \in FinanceTicket
    BY <1>3 DEF LedgerEntries
  <2>2. e.ticket.allocated \in Int
    BY <2>1 DEF FinanceTicket
  <2>3. -Released(e.ticket) \in Int
    BY <2>2 DEF Released
  <2>4. \A amounts \in [Fleets -> Int] :
          /\ Plus(amounts, e.fleet, e.ticket.allocated) \in [Fleets -> Int]
          /\ Plus(amounts, e.fleet, -Released(e.ticket)) \in [Fleets -> Int]
    BY <2>1, <2>2, <2>3, AmountsType
  <2>5. \A T \in SUBSET FinanceTicket :
          /\ Without(T, e.ticket.id) \in SUBSET FinanceTicket
          /\ Without(T, e.ticket.id) \cup {e.ticket} \in SUBSET FinanceTicket
    BY <2>1 DEF Without
  <2>6. CASE e.kind = "TicketCreated"
    BY <2>4, <2>5, <2>6 DEF Process, Treasurers
  <2>7. CASE e.kind = "BrokenTicketDeleted"
    BY <2>4, <2>5, <2>7 DEF Process, Treasurers
  <2>8. CASE e.kind = "TicketCompleted"
    <3>1. e.credits \in Int
      BY <2>8 DEF LedgerEntries
    <3>2. \A amounts \in [Fleets -> Int] : Plus(amounts, e.fleet, e.credits) \in [Fleets -> Int]
      BY <2>1, <3>1, AmountsType
    <3>3. QED
      BY <2>4, <2>5, <2>8, <3>2 DEF Process, Treasurers
  <2>9. QED
    BY <1>3, <2>6, <2>7, <2>8
<1>4. CASE e.kind = "ArchivedFleetBudget"
  <2>1. e.fleet \in Fleets
    BY <1>4 DEF LedgerEntries
  <2>2. \A amounts \in [Fleets -> Int] : Put(amounts, e.fleet, 0) \in [Fleets -> Int]
    BY <2>1, AmountsType
  <2>3. QED
    BY <1>4, <2>2 DEF Process, Treasurers
<1>5. QED
  BY <1>1, <1>2, <1>3, <1>4 DEF LedgerEntries

-----------------------------------------------------------------------------
(* What one entry does to the credits.                                       *)

\* an entry that neither creates nor resets the treasury
Ordinary(e) == e.kind \notin {"TreasuryCreated", "TreasuryReset"}

FundDelta(e) == CASE e.kind = "FundsFromTreasuryToFleet" -> -e.credits
                  [] e.kind = "FundsFromFleetToTreasury" -> e.credits
                  [] OTHER -> 0

\* what an entry adds to the credits of the treasury and the fleets together
CreditDelta(t, e) ==
    CASE e.kind \in {"TicketCompleted", "IncomeLogged"} -> e.credits
      [] e.kind = "ExpenseLogged" -> -e.credits
      [] e.kind = "BrokenTicketDeleted" -> e.ticket.allocated
      [] e.kind = "ArchivedFleetBudget" -> -t.current_capital[e.fleet]
      [] OTHER -> 0

\* no capital is kept for a fleet that does not exist
Tidy(t) == \A f \in Fleets \ t.fleets : t.current_capital[f] = 0

\* The treasury fund moves only with transfers.
LEMMA ProcessFund ==
    ASSUME NEW t \in Treasurers, NEW e \in LedgerEntries, Ordinary(e)
    PROVE  Process(t, e).fund = t.fund + FundDelta(e) /\ FundDelta(e) \in Int
<1> USE Fields
<1>1. CASE e.kind = "FundsFromTreasuryToFleet"
  <2>1. e.credits \in Int
    BY <1>1 DEF LedgerEntries
  <2>2. Process(t, e).fund = t.fund - e.credits
    BY <1>1 DEF Process, Treasurers
  <2>3. FundDelta(e) = -e.credits
    BY <1>1 DEF FundDelta
  <2>4. QED
    BY <2>1, <2>2, <2>3
<1>2. CASE e.kind = "FundsFromFleetToTreasury"
  <2>1. e.credits \in Int
    BY <1>2 DEF LedgerEntries
  <2>2. Process(t, e).fund = t.fund + e.credits
    BY <1>2 DEF Process, Treasurers
  <2>3. FundDelta(e) = e.credits
    BY <1>2 DEF FundDelta
  <2>4. QED
    BY <2>1, <2>2, <2>3
<1>3. CASE e.kind \notin {"FundsFromTreasuryToFleet", "FundsFromFleetToTreasury"}
  <2>1. FundDelta(e) = 0
    BY <1>3 DEF FundDelta
  <2>2. Process(t, e).fund = t.fund
    BY <1>3 DEF Process, Treasurers, LedgerEntries, Ordinary
  <2>3. QED
    BY <2>1, <2>2
<1>4. QED
  BY <1>1, <1>2, <1>3

\* Changing what one fleet has changes the total by as much.
LEMMA CapitalChange ==
    ASSUME NEW amounts \in [Fleets -> Int], NEW changed \in [Fleets -> Int], NEW f \in Fleets,
           \A g \in Fleets \ {f} : changed[g] = amounts[g]
    PROVE  /\ SumFunctionOnSet(amounts, Fleets) \in Int
           /\ SumFunctionOnSet(changed, Fleets)
                = SumFunctionOnSet(amounts, Fleets) - amounts[f] + changed[f]
<1>1. IsFiniteSet(Fleets)
  BY FiniteAssumption DEF FiniteAssumption
<1>2. Sum(changed, Fleets) = Sum(amounts, Fleets) - amounts[f] + changed[f]
  BY <1>1, SumChange
<1>3. Sum(amounts, Fleets) \in Int
  BY <1>1, SumType
<1>4. QED
  BY <1>2, <1>3 DEF Sum

\* Adding credits to a fleet adds them to the total of all fleets.
LEMMA CapitalPlus ==
    ASSUME NEW amounts \in [Fleets -> Int], NEW f \in Fleets, NEW x \in Int
    PROVE  SumFunctionOnSet(Plus(amounts, f, x), Fleets) = SumFunctionOnSet(amounts, Fleets) + x
<1> DEFINE changed == Plus(amounts, f, x)
<1>1. /\ changed \in [Fleets -> Int]
      /\ changed[f] = amounts[f] + x
      /\ \A g \in Fleets \ {f} : changed[g] = amounts[g]
  BY DEF Plus
<1> HIDE DEF changed
<1>2. /\ SumFunctionOnSet(amounts, Fleets) \in Int
      /\ SumFunctionOnSet(changed, Fleets)
           = SumFunctionOnSet(amounts, Fleets) - amounts[f] + changed[f]
  BY <1>1, CapitalChange
<1>3. QED
  BY <1>1, <1>2 DEF changed

\* Setting the capital of a fleet to 0 takes it out of the total.
LEMMA CapitalCleared ==
    ASSUME NEW amounts \in [Fleets -> Int], NEW f \in Fleets
    PROVE  SumFunctionOnSet(Put(amounts, f, 0), Fleets)
             = SumFunctionOnSet(amounts, Fleets) - amounts[f]
<1> DEFINE changed == Put(amounts, f, 0)
<1>1. /\ changed \in [Fleets -> Int]
      /\ changed[f] = 0
      /\ \A g \in Fleets \ {f} : changed[g] = amounts[g]
  BY DEF Put
<1> HIDE DEF changed
<1>2. /\ SumFunctionOnSet(amounts, Fleets) \in Int
      /\ SumFunctionOnSet(changed, Fleets)
           = SumFunctionOnSet(amounts, Fleets) - amounts[f] + changed[f]
  BY <1>1, CapitalChange
<1>3. QED
  BY <1>1, <1>2 DEF changed

\* The total of the capital of all fleets is a number.
LEMMA CapitalType ==
    ASSUME NEW amounts \in [Fleets -> Int]
    PROVE  SumFunctionOnSet(amounts, Fleets) \in Int
<1>1. IsFiniteSet(Fleets)
  BY FiniteAssumption DEF FiniteAssumption
<1>2. QED
  BY <1>1, SumType DEF Sum

\* What an entry does to the capital of the fleets, together.
LEMMA ProcessCapital ==
    ASSUME NEW t \in Treasurers, NEW e \in LedgerEntries, Ordinary(e), Accepts(t, e), Tidy(t)
    PROVE  /\ CreditDelta(t, e) \in Int
           /\ SumFunctionOnSet(Process(t, e).current_capital, Fleets)
                = SumFunctionOnSet(t.current_capital, Fleets) + CreditDelta(t, e) - FundDelta(e)
<1> DEFINE cc == t.current_capital
<1>1. cc \in [Fleets -> Int]
  BY Fields
<1>2. SumFunctionOnSet(cc, Fleets) \in Int
  BY <1>1, CapitalType
<1>3. ASSUME e.fleet \in Fleets, NEW x \in Int, CreditDelta(t, e) \in Int, FundDelta(e) \in Int,
             CreditDelta(t, e) - FundDelta(e) = x,
             Process(t, e).current_capital = Plus(cc, e.fleet, x)
      PROVE  SumFunctionOnSet(Process(t, e).current_capital, Fleets)
                = SumFunctionOnSet(cc, Fleets) + CreditDelta(t, e) - FundDelta(e)
  <2>1. SumFunctionOnSet(Plus(cc, e.fleet, x), Fleets) = SumFunctionOnSet(cc, Fleets) + x
    BY <1>1, <1>3, CapitalPlus
  <2>2. QED
    BY <1>2, <1>3, <2>1
<1>4. ASSUME CreditDelta(t, e) = 0, FundDelta(e) = 0, Process(t, e).current_capital = cc
      PROVE  /\ CreditDelta(t, e) \in Int
             /\ SumFunctionOnSet(Process(t, e).current_capital, Fleets)
                  = SumFunctionOnSet(cc, Fleets) + CreditDelta(t, e) - FundDelta(e)
  BY <1>2, <1>4
<1>5. CASE e.kind = "FleetCreated"
  <2>1. e.fleet \in Fleets /\ CreditDelta(t, e) = 0 /\ FundDelta(e) = 0
    BY <1>5 DEF LedgerEntries, CreditDelta, FundDelta
  <2>2. cc[e.fleet] = 0
    BY <1>5, <2>1 DEF Accepts, Tidy
  <2>3. Process(t, e).current_capital = Put(cc, e.fleet, 0)
    BY <1>5 DEF Process, Treasurers
  <2>4. SumFunctionOnSet(Put(cc, e.fleet, 0), Fleets) = SumFunctionOnSet(cc, Fleets) - 0
    BY <1>1, <2>1, <2>2, CapitalCleared
  <2>5. QED
    BY <1>2, <2>1, <2>3, <2>4
<1>6. CASE e.kind = "ArchivedFleetBudget"
  <2>1. e.fleet \in Fleets /\ CreditDelta(t, e) = -cc[e.fleet] /\ FundDelta(e) = 0
    BY <1>6 DEF LedgerEntries, CreditDelta, FundDelta
  <2>2. cc[e.fleet] \in Int
    BY <1>1, <2>1
  <2>3. Process(t, e).current_capital = Put(cc, e.fleet, 0)
    BY <1>6 DEF Process, Treasurers
  <2>4. SumFunctionOnSet(Put(cc, e.fleet, 0), Fleets) = SumFunctionOnSet(cc, Fleets) - cc[e.fleet]
    BY <1>1, <2>1, CapitalCleared
  <2>5. QED
    BY <1>2, <2>1, <2>2, <2>3, <2>4
<1>7. CASE e.kind = "FundsFromTreasuryToFleet"
  <2>1. /\ e.fleet \in Fleets /\ e.credits \in Int
        /\ CreditDelta(t, e) = 0 /\ FundDelta(e) = -e.credits
    BY <1>7 DEF LedgerEntries, CreditDelta, FundDelta
  <2>2. Process(t, e).current_capital = Plus(cc, e.fleet, e.credits)
    BY <1>7 DEF Process, Treasurers
  <2>3. QED
    BY <1>3, <2>1, <2>2
<1>8. CASE e.kind = "FundsFromFleetToTreasury"
  <2>1. /\ e.fleet \in Fleets /\ e.credits \in Int /\ -e.credits \in Int
        /\ CreditDelta(t, e) = 0 /\ FundDelta(e) = e.credits
    BY <1>8 DEF LedgerEntries, CreditDelta, FundDelta
  <2>2. Process(t, e).current_capital = Plus(cc, e.fleet, -e.credits)
    BY <1>8 DEF Process, Treasurers
  <2>3. QED
    BY <1>3, <2>1, <2>2
<1>9. CASE e.kind \in {"TicketCompleted", "IncomeLogged"}
  <2>1. /\ e.fleet \in Fleets /\ e.credits \in Int
        /\ CreditDelta(t, e) = e.credits /\ FundDelta(e) = 0
    BY <1>9 DEF LedgerEntries, CreditDelta, FundDelta
  <2>2. Process(t, e).current_capital = Plus(cc, e.fleet, e.credits)
    BY <1>9 DEF Process, Treasurers
  <2>3. QED
    BY <1>3, <2>1, <2>2
<1>10. CASE e.kind = "ExpenseLogged"
  <2>1. /\ e.fleet \in Fleets /\ e.credits \in Int /\ -e.credits \in Int
        /\ CreditDelta(t, e) = -e.credits /\ FundDelta(e) = 0
    BY <1>10 DEF LedgerEntries, CreditDelta, FundDelta
  <2>2. Process(t, e).current_capital = Plus(cc, e.fleet, -e.credits)
    BY <1>10 DEF Process, Treasurers
  <2>3. QED
    BY <1>3, <2>1, <2>2
<1>11. CASE e.kind = "BrokenTicketDeleted"
  <2>1. /\ e.fleet \in Fleets /\ e.ticket.allocated \in Int
        /\ CreditDelta(t, e) = e.ticket.allocated /\ FundDelta(e) = 0
    BY <1>11 DEF LedgerEntries, CreditDelta, FundDelta, FinanceTicket
  <2>2. Process(t, e).current_capital = Plus(cc, e.fleet, e.ticket.allocated)
    BY <1>11 DEF Process, Treasurers
  <2>3. QED
    BY <1>3, <2>1, <2>2
<1>12. CASE e.kind \in {"TicketCreated", "SetNewTotalCapital", "SetNewOperatingReserve"}
  <2>1. CreditDelta(t, e) = 0 /\ FundDelta(e) = 0
    BY <1>12 DEF CreditDelta, FundDelta
  <2>2. Process(t, e).current_capital = cc
    BY <1>12 DEF Process, Treasurers
  <2>3. QED
    BY <1>4, <2>1, <2>2
<1>13. QED
  BY <1>5, <1>6, <1>7, <1>8, <1>9, <1>10, <1>11, <1>12 DEF LedgerEntries, Ordinary

\* An entry changes the agent's credits by CreditDelta: transfers between the
\* treasury and a fleet change nothing.
LEMMA ProcessCredits ==
    ASSUME NEW t \in Treasurers, NEW e \in LedgerEntries, Ordinary(e), Accepts(t, e), Tidy(t)
    PROVE  /\ current_agent_credits(t) \in Int /\ CreditDelta(t, e) \in Int
           /\ current_agent_credits(Process(t, e)) = current_agent_credits(t) + CreditDelta(t, e)
<1>1. t.fund \in Int /\ SumFunctionOnSet(t.current_capital, Fleets) \in Int
  BY Fields, CapitalType
<1>2. Process(t, e).fund = t.fund + FundDelta(e) /\ FundDelta(e) \in Int
  BY ProcessFund
<1>3. /\ CreditDelta(t, e) \in Int
      /\ SumFunctionOnSet(Process(t, e).current_capital, Fleets)
           = SumFunctionOnSet(t.current_capital, Fleets) + CreditDelta(t, e) - FundDelta(e)
  BY ProcessCapital
<1>4. QED
  BY <1>1, <1>2, <1>3 DEF current_agent_credits

\* An accepted entry leaves no capital with a fleet that does not exist.
LEMMA ProcessTidy ==
    ASSUME NEW t \in Treasurers, NEW e \in LedgerEntries, Ordinary(e), Accepts(t, e), Tidy(t)
    PROVE  Tidy(Process(t, e))
<1>1. t.current_capital \in [Fleets -> Int] /\ t.fleets \in SUBSET Fleets
  BY Fields
<1>2. e.fleet \in Fleets
  BY DEF LedgerEntries, Ordinary
<1>3. CASE e.kind = "FleetCreated"
  <2>1. /\ Process(t, e).fleets = t.fleets \cup {e.fleet}
        /\ Process(t, e).current_capital = Put(t.current_capital, e.fleet, 0)
    BY <1>3 DEF Process, Treasurers
  <2>2. QED
    BY <1>1, <2>1 DEF Tidy, Put
<1>4. CASE e.kind = "ArchivedFleetBudget"
  <2>1. /\ Process(t, e).fleets = t.fleets \ {e.fleet}
        /\ Process(t, e).current_capital = Put(t.current_capital, e.fleet, 0)
    BY <1>4 DEF Process, Treasurers
  <2>2. QED
    BY <1>1, <1>2, <2>1 DEF Tidy, Put
<1>5. CASE e.kind \notin {"FleetCreated", "ArchivedFleetBudget"}
  <2>1. e.fleet \in t.fleets
    BY <1>5 DEF Accepts, LedgerEntries, Ordinary
  <2>2. Process(t, e).fleets = t.fleets
    BY <1>5 DEF Process, Treasurers, LedgerEntries, Ordinary
  <2>3. \A f \in Fleets \ {e.fleet} :
          Process(t, e).current_capital[f] = t.current_capital[f]
    BY <1>1, <1>5 DEF Process, Treasurers, LedgerEntries, Ordinary, Plus
  <2>4. QED
    BY <1>2, <2>1, <2>2, <2>3 DEF Tidy
<1>6. QED
  BY <1>3, <1>4, <1>5

-----------------------------------------------------------------------------
(* Calls.                                                                    *)

Calls == [ok : BOOLEAN, t : Treasurers, a : Treasurers, replays : BOOLEAN]

\* A call that began with `funds` in the treasury and has brought the agent's
\* credits to `credits`: the treasury is not overdrawn, the archive would not
\* have less in it, and a call that has failed has not added to it.
Sane(c, funds, credits) ==
    /\ c \in Calls
    /\ Tidy(c.t) /\ Tidy(c.a)
    /\ c.t.fund >= 0
    /\ c.ok /\ c.replays => c.a.fund >= c.t.fund
    /\ ~c.ok => c.t.fund <= funds
    /\ current_agent_credits(c.t) = credits

\* The fields of a call.
LEMMA CallFields ==
    ASSUME NEW c \in Calls
    PROVE  /\ c.ok \in BOOLEAN /\ c.replays \in BOOLEAN
           /\ c.t \in Treasurers /\ c.a \in Treasurers
           /\ c.t.fund \in Int /\ c.a.fund \in Int
           /\ c.t.fleets \in SUBSET Fleets
           /\ \A f \in Fleets : /\ c.t.current_capital[f] \in Int
                                /\ c.t.reserved_capital[f] \in Int
                                /\ c.t.budget[f] \in Int
                                /\ c.t.operating_reserve[f] \in Int
<1>1. c.ok \in BOOLEAN /\ c.replays \in BOOLEAN /\ c.t \in Treasurers /\ c.a \in Treasurers
  BY DEF Calls
<1>2. QED
  BY <1>1, Fields

\* An early return with Err changes nothing.
LEMMA FailSane ==
    ASSUME NEW c, NEW funds \in Int, NEW credits \in Int, Sane(c, funds, credits),
           c.t.fund <= funds
    PROVE  Sane(Fail(c), funds, credits)
<1>1. c \in Calls
  BY DEF Sane
<1>2. Fail(c).ok = FALSE /\ Fail(c).t = c.t /\ Fail(c).a = c.a /\ Fail(c).replays = c.replays
  BY <1>1 DEF Fail, Calls
<1>3. Fail(c) \in Calls
  BY <1>1 DEF Fail, Calls
<1>4. QED
  BY <1>2, <1>3 DEF Sane

\* One ledger entry, processed by the `?` of the code.
LEMMA StepSane ==
    ASSUME NEW c, NEW funds \in Int, NEW credits \in Int, NEW credits_after \in Int,
           Sane(c, funds, credits),
           NEW e \in LedgerEntries, Ordinary(e),
           c.ok /\ Accepts(c.t, e) => /\ c.t.fund + FundDelta(e) >= 0
                                      /\ credits_after = credits + CreditDelta(c.t, e),
           c.ok /\ ~Accepts(c.t, e) => c.t.fund <= funds,
           ~(c.ok /\ Accepts(c.t, e)) => credits_after = credits
    PROVE  Sane(Step(c, e), funds, credits_after)
<1>1. c \in Calls
  BY DEF Sane
<1>2. CASE ~(c.ok /\ Accepts(c.t, e))
  <2>1. c.t.fund <= funds
    BY <1>2 DEF Sane
  <2>2. Step(c, e) = Fail(c)
    BY <1>2 DEF Step
  <2>3. Sane(Fail(c), funds, credits)
    BY <2>1, FailSane
  <2>4. QED
    BY <1>2, <2>2, <2>3
<1>3. CASE c.ok /\ Accepts(c.t, e)
  <2> DEFINE t == Process(c.t, e)
             still == c.replays /\ Accepts(c.a, e)
             a == IF still THEN Process(c.a, e) ELSE c.a
  <2>1. Step(c, e) = [ok |-> TRUE, t |-> t, a |-> a, replays |-> still]
    BY <1>3 DEF Step
  <2>2. t \in Treasurers /\ Process(c.a, e) \in Treasurers
    BY <1>1, CallFields, ProcessType
  <2>3. t.fund = c.t.fund + FundDelta(e) /\ Process(c.a, e).fund = c.a.fund + FundDelta(e)
        /\ FundDelta(e) \in Int
    BY <1>1, CallFields, ProcessFund
  <2>4. Tidy(t)
    BY <1>1, <1>3, CallFields, ProcessTidy DEF Sane
  <2>5. Tidy(a)
    BY <1>1, CallFields, ProcessTidy DEF Sane
  <2>6. current_agent_credits(t) = credits_after
    <3>1. current_agent_credits(t) = current_agent_credits(c.t) + CreditDelta(c.t, e)
      BY <1>1, <1>3, CallFields, ProcessCredits DEF Sane
    <3>2. QED
      BY <1>3, <3>1 DEF Sane
  <2>7. still \in BOOLEAN /\ a \in Treasurers
    BY <1>1, <2>2, CallFields
  <2>8. still => a.fund >= t.fund
    BY <1>1, <1>3, <2>3, CallFields DEF Sane
  <2>9. t.fund >= 0
    BY <1>3, <2>3
  <2> HIDE DEF t, a, still
  <2>10. Step(c, e) \in Calls
    BY <2>1, <2>2, <2>7 DEF Calls
  <2>11. QED
    BY <2>1, <2>2, <2>4, <2>5, <2>6, <2>7, <2>8, <2>9, <2>10 DEF Sane
<1>4. QED
  BY <1>2, <1>3

-----------------------------------------------------------------------------
(* The kinds of entries.                                                     *)

\* Entries that move no credits.
LEMMA QuietSane ==
    ASSUME NEW c, NEW funds \in Int, NEW credits \in Int, Sane(c, funds, credits),
           c.t.fund <= funds, NEW e \in LedgerEntries,
           e.kind \in {"FleetCreated", "TicketCreated", "SetNewTotalCapital",
                       "SetNewOperatingReserve"}
    PROVE  Sane(Step(c, e), funds, credits) /\ Step(c, e).t.fund = c.t.fund
<1>1. c \in Calls /\ c.t.fund >= 0 /\ c.t.fund \in Int /\ c.t \in Treasurers
  BY CallFields DEF Sane
<1>2. Ordinary(e) /\ FundDelta(e) = 0 /\ CreditDelta(c.t, e) = 0
  BY DEF Ordinary, FundDelta, CreditDelta
<1>3. Sane(Step(c, e), funds, credits)
  <2>1. c.t.fund + FundDelta(e) >= 0 /\ credits = credits + CreditDelta(c.t, e)
    BY <1>1, <1>2
  <2>2. QED
    BY <1>2, <2>1, StepSane
<1>4. Process(c.t, e).fund = c.t.fund
  BY <1>1, <1>2, ProcessFund
<1>5. Step(c, e).t.fund = c.t.fund
  BY <1>1, <1>4 DEF Step, Fail, Calls
<1>6. QED
  BY <1>3, <1>5

\* A transfer out of the treasury that its fund covers.
LEMMA PayOutSane ==
    ASSUME NEW c, NEW funds \in Int, NEW credits \in Int, Sane(c, funds, credits),
           c.t.fund <= funds, NEW f \in Fleets, NEW x \in Nat, x <= c.t.fund
    PROVE  LET e == Entry("FundsFromTreasuryToFleet", f, x)
           IN  Sane(Step(c, e), funds, credits) /\ Step(c, e).t.fund <= funds
<1> DEFINE e == Entry("FundsFromTreasuryToFleet", f, x)
<1>1. c \in Calls /\ c.t.fund >= 0 /\ c.t.fund \in Int /\ c.t \in Treasurers
  BY CallFields DEF Sane
<1>2. e \in LedgerEntries /\ Ordinary(e) /\ FundDelta(e) = -x /\ CreditDelta(c.t, e) = 0
  BY DEF LedgerEntries, Entry, Ordinary, FundDelta, CreditDelta
<1> HIDE DEF e
<1>3. Sane(Step(c, e), funds, credits)
  <2>1. c.t.fund + FundDelta(e) >= 0 /\ credits = credits + CreditDelta(c.t, e)
    BY <1>1, <1>2
  <2>2. QED
    BY <1>2, <2>1, StepSane
<1>4. Process(c.t, e).fund = c.t.fund - x
  <2>1. Process(c.t, e).fund = c.t.fund + FundDelta(e)
    BY <1>1, <1>2, ProcessFund
  <2>2. QED
    BY <1>1, <1>2, <2>1
<1>5. Step(c, e).t.fund <= funds
  BY <1>1, <1>4 DEF Step, Fail, Calls
<1>6. QED
  BY <1>3, <1>5 DEF e

\* A transfer of a positive amount into the treasury.
LEMMA PayInSane ==
    ASSUME NEW c, NEW funds \in Int, NEW credits \in Int, Sane(c, funds, credits),
           c.t.fund <= funds, NEW f \in Fleets, NEW x \in Nat
    PROVE  Sane(Step(c, Entry("FundsFromFleetToTreasury", f, x)), funds, credits)
<1> DEFINE e == Entry("FundsFromFleetToTreasury", f, x)
<1>1. c.t.fund >= 0 /\ c.t.fund \in Int
  BY CallFields DEF Sane
<1>2. e \in LedgerEntries /\ Ordinary(e) /\ FundDelta(e) = x /\ CreditDelta(c.t, e) = 0
  BY DEF LedgerEntries, Entry, Ordinary, FundDelta, CreditDelta
<1> HIDE DEF e
<1>3. c.t.fund + FundDelta(e) >= 0 /\ credits = credits + CreditDelta(c.t, e)
  BY <1>1, <1>2
<1>4. Sane(Step(c, e), funds, credits)
  BY <1>2, <1>3, StepSane
<1>5. QED
  BY <1>4 DEF e

\* An entry that books credits with a fleet; it is accepted iff the fleet exists.
LEMMA BookingSane ==
    ASSUME NEW c, NEW funds \in Int, NEW credits \in Int, Sane(c, funds, credits),
           c.t.fund <= funds, NEW e \in LedgerEntries, NEW x \in Int,
           \/ e.kind \in {"TicketCompleted", "IncomeLogged"} /\ e.credits = x
           \/ e.kind = "ExpenseLogged" /\ e.credits = -x
           \/ e.kind = "ArchivedFleetBudget" /\ c.t.current_capital[e.fleet] = -x
    PROVE  /\ Sane(Step(c, e), funds,
                    IF c.ok /\ e.fleet \in c.t.fleets THEN credits + x ELSE credits)
           /\ Step(c, e).t.fund = c.t.fund
           /\ Step(c, e).ok <=> c.ok /\ e.fleet \in c.t.fleets
<1>1. /\ c \in Calls /\ c.t.fund >= 0 /\ c.t.fund \in Int /\ c.t \in Treasurers
      /\ e.fleet \in Fleets => c.t.current_capital[e.fleet] \in Int
  BY CallFields DEF Sane
<1>2. Ordinary(e) /\ FundDelta(e) = 0 /\ e.fleet \in Fleets
  BY DEF Ordinary, FundDelta, LedgerEntries
<1>3. CreditDelta(c.t, e) = x
  BY <1>1, <1>2 DEF CreditDelta, LedgerEntries
<1>4. Accepts(c.t, e) <=> e.fleet \in c.t.fleets
  BY DEF Accepts
<1> DEFINE after == IF c.ok /\ e.fleet \in c.t.fleets THEN credits + x ELSE credits
<1>5. after \in Int
  OBVIOUS
<1>6. /\ c.ok /\ Accepts(c.t, e) => after = credits + CreditDelta(c.t, e)
      /\ ~(c.ok /\ Accepts(c.t, e)) => after = credits
  BY <1>3, <1>4
<1> HIDE DEF after
<1>7. c.t.fund + FundDelta(e) >= 0
  BY <1>1, <1>2
<1>8. Sane(Step(c, e), funds, after)
  BY <1>2, <1>5, <1>6, <1>7, StepSane
<1>9. Process(c.t, e).fund = c.t.fund
  BY <1>1, <1>2, ProcessFund
<1>10. Step(c, e).t.fund = c.t.fund
  BY <1>1, <1>9 DEF Step, Fail, Calls
<1>11. Step(c, e).ok <=> c.ok /\ e.fleet \in c.t.fleets
  BY <1>1, <1>4 DEF Step, Fail, Calls
<1>12. QED
  BY <1>8, <1>10, <1>11 DEF after

-----------------------------------------------------------------------------
(* The operations on budgets.                                                *)

\* An entry with a fleet and an amount.
LEMMA EntryType ==
    ASSUME NEW f \in Fleets, NEW x \in Int,
           NEW kind \in {"FleetCreated", "SetNewTotalCapital", "SetNewOperatingReserve",
                         "ExpenseLogged", "IncomeLogged"}
    PROVE  /\ Entry(kind, f, x) \in LedgerEntries
           /\ Entry(kind, f, x).kind = kind
           /\ Entry(kind, f, x).fleet = f
           /\ Entry(kind, f, x).credits = x
BY DEF LedgerEntries, Entry

\* create_fleet moves no credits: the new fleet starts with none.
LEMMA CreateFleetSane ==
    ASSUME NEW c, NEW funds \in Int, NEW credits \in Int, Sane(c, funds, credits),
           c.t.fund <= funds, NEW f \in Fleets, NEW x \in Int
    PROVE  Sane(create_fleet(c, f, x), funds, credits)
BY EntryType, QuietSane DEF create_fleet

\* set_new_operating_reserve moves no credits.
LEMMA SetReserveSane ==
    ASSUME NEW c, NEW funds \in Int, NEW credits \in Int, Sane(c, funds, credits),
           c.t.fund <= funds, NEW f \in Fleets, NEW x \in Int
    PROVE  Sane(set_new_operating_reserve(c, f, x), funds, credits)
BY EntryType, QuietSane DEF set_new_operating_reserve

\* reimburse_expense pays a fleet out of the treasury, or fails if the fund does
\* not cover it.
LEMMA ReimburseSane ==
    ASSUME NEW c, NEW funds \in Int, NEW credits \in Int, Sane(c, funds, credits),
           c.t.fund <= funds, NEW f \in Fleets, NEW x \in Nat
    PROVE  /\ Sane(reimburse_expense(c, f, x), funds, credits)
           /\ reimburse_expense(c, f, x).t.fund <= funds
<1>1. c \in Calls /\ c.t.fund \in Int
  BY CallFields DEF Sane
<1>2. CASE f \notin c.t.fleets \/ x > c.t.fund
  <2>1. reimburse_expense(c, f, x) = Fail(c)
    BY <1>2 DEF reimburse_expense
  <2>2. Fail(c).t = c.t
    BY <1>1 DEF Fail, Calls
  <2>3. QED
    BY <2>1, <2>2, FailSane
<1>3. CASE ~(f \notin c.t.fleets \/ x > c.t.fund)
  <2>1. x <= c.t.fund
    BY <1>1, <1>3
  <2>2. reimburse_expense(c, f, x) = Step(c, Entry("FundsFromTreasuryToFleet", f, x))
    BY <1>3 DEF reimburse_expense
  <2>3. QED
    BY <2>1, <2>2, PayOutSane
<1>4. QED
  BY <1>2, <1>3

\* The top-up of a fleet takes at most what the treasury has.
LEMMA TopUpSane ==
    ASSUME NEW c, NEW funds \in Int, NEW credits \in Int, Sane(c, funds, credits),
           c.t.fund <= funds, NEW f \in Fleets
    PROVE  Sane(transfer_funds_to_fleet_to_top_up_available_capital(c, f), funds, credits)
<1> DEFINE diff == c.t.budget[f] - c.t.current_capital[f]
           result == transfer_funds_to_fleet_to_top_up_available_capital(c, f)
<1>1. c.t.fund \in Int /\ c.t.fund >= 0 /\ diff \in Int
  BY CallFields DEF Sane
<1>2. CASE f \notin c.t.fleets
  <2>1. result = Fail(c)
    BY <1>2 DEF transfer_funds_to_fleet_to_top_up_available_capital
  <2>2. QED
    BY <2>1, FailSane
<1>3. CASE f \in c.t.fleets /\ diff > 0
  <2> DEFINE x == MinOf(c.t.fund, diff)
  <2>1. result = Step(c, Entry("FundsFromTreasuryToFleet", f, x))
    BY <1>3 DEF transfer_funds_to_fleet_to_top_up_available_capital
  <2>2. x \in Nat /\ x <= c.t.fund
    BY <1>1, <1>3 DEF MinOf
  <2> HIDE DEF x, result
  <2>3. Sane(Step(c, Entry("FundsFromTreasuryToFleet", f, x)), funds, credits)
    BY <2>2, PayOutSane
  <2>4. QED
    BY <2>1, <2>3 DEF result
<1>4. CASE f \in c.t.fleets /\ ~(diff > 0)
  <2>1. result = c
    BY <1>4 DEF transfer_funds_to_fleet_to_top_up_available_capital
  <2>2. QED
    BY <2>1
<1>5. QED
  BY <1>2, <1>3, <1>4

\* The excess of a fleet over budget and reservations goes to the treasury.
LEMMA TransferExcessSane ==
    ASSUME NEW c, NEW funds \in Int, NEW credits \in Int, Sane(c, funds, credits),
           c.t.fund <= funds, NEW f \in Fleets
    PROVE  Sane(transfer_excess_funds_from_fleet_to_treasury_if_necessary(c, f), funds, credits)
<1> DEFINE excess == c.t.current_capital[f] - c.t.budget[f] - c.t.reserved_capital[f]
           result == transfer_excess_funds_from_fleet_to_treasury_if_necessary(c, f)
<1>1. excess \in Int
  BY CallFields DEF Sane
<1>2. CASE f \notin c.t.fleets
  <2>1. result = Fail(c)
    BY <1>2 DEF transfer_excess_funds_from_fleet_to_treasury_if_necessary
  <2>2. QED
    BY <2>1, FailSane
<1>3. CASE f \in c.t.fleets /\ excess > 0
  <2>1. result = Step(c, Entry("FundsFromFleetToTreasury", f, excess))
    BY <1>3 DEF transfer_excess_funds_from_fleet_to_treasury_if_necessary
  <2>2. excess \in Nat
    BY <1>1, <1>3
  <2> HIDE DEF excess, result
  <2>3. Sane(Step(c, Entry("FundsFromFleetToTreasury", f, excess)), funds, credits)
    BY <2>2, PayInSane
  <2>4. QED
    BY <2>1, <2>3 DEF result
<1>4. CASE f \in c.t.fleets /\ ~(excess > 0)
  <2>1. result = c
    BY <1>4 DEF transfer_excess_funds_from_fleet_to_treasury_if_necessary
  <2>2. QED
    BY <2>1
<1>5. QED
  BY <1>2, <1>3, <1>4

\* set_fleet_total_capital sets the budget and returns the excess over it.
LEMMA SetBudgetSane ==
    ASSUME NEW c, NEW funds \in Int, NEW credits \in Int, Sane(c, funds, credits),
           c.t.fund <= funds, NEW f \in Fleets, NEW x \in Int
    PROVE  Sane(set_fleet_total_capital(c, f, x), funds, credits)
<1> DEFINE e == Entry("SetNewTotalCapital", f, x)
<1>1. CASE f \notin c.t.fleets
  <2>1. set_fleet_total_capital(c, f, x) = Fail(c)
    BY <1>1 DEF set_fleet_total_capital
  <2>2. QED
    BY <2>1, FailSane
<1>2. CASE f \in c.t.fleets
  <2>1. set_fleet_total_capital(c, f, x)
          = transfer_excess_funds_from_fleet_to_treasury_if_necessary(Step(c, e), f)
    BY <1>2 DEF set_fleet_total_capital
  <2>2. Sane(Step(c, e), funds, credits) /\ Step(c, e).t.fund = c.t.fund
    BY EntryType, QuietSane
  <2> HIDE DEF e
  <2>3. Sane(transfer_excess_funds_from_fleet_to_treasury_if_necessary(Step(c, e), f),
             funds, credits)
    BY <2>2, TransferExcessSane
  <2>4. QED
    BY <2>1, <2>3
<1>3. QED
  BY <1>1, <1>2

-----------------------------------------------------------------------------
(* The operations on tickets.                                                *)

\* A ticket with other units and another allocation is a ticket.
LEMMA TicketType ==
    ASSUME NEW k \in FinanceTicket, NEW units \in Nat, NEW x \in Int
    PROVE  /\ [k EXCEPT !.units = units, !.allocated = x] \in FinanceTicket
           /\ [k EXCEPT !.allocated = x] \in FinanceTicket
BY DEF FinanceTicket

\* create_purchase cuts a purchase down to a number of units.
LEMMA AffordableUnitsType ==
    ASSUME NEW available \in Int, NEW price \in Nat \ {0}, NEW quantity \in Nat
    PROVE  /\ affordable_units(available, price, quantity) \in Nat
           /\ affordable_units(available, price, quantity) <= quantity
BY DEF affordable_units, MinOf

\* The ticket of a purchase that has been cut down is a ticket.
LEMMA PurchaseTicketType ==
    ASSUME NEW c \in Calls, NEW k \in FinanceTicket, k.price > 0
    PROVE  PurchaseTicket(c, k) \in FinanceTicket /\ PurchaseTicket(c, k).units \in Nat
<1>1. k.fleet \in Fleets /\ k.price \in Nat \ {0} /\ k.units \in Nat
  BY DEF FinanceTicket
<1>2. available_capital(c.t, k.fleet) \in Int
  BY <1>1, CallFields DEF available_capital
<1> DEFINE units == affordable_units(available_capital(c.t, k.fleet), k.price, k.units)
<1>3. units \in Nat
  BY <1>1, <1>2, AffordableUnitsType
<1>4. PurchaseTicket(c, k) = [k EXCEPT !.units = units, !.allocated = k.price * units]
  BY DEF PurchaseTicket
<1> HIDE DEF units
<1>5. k.price * units \in Int
  BY <1>1, <1>3
<1>6. PurchaseTicket(c, k) \in FinanceTicket
  BY <1>3, <1>4, <1>5, TicketType
<1>7. QED
  BY <1>6 DEF FinanceTicket

\* Creating one ticket.
LEMMA CreateTicketSane ==
    ASSUME NEW c, NEW funds \in Int, NEW credits \in Int, Sane(c, funds, credits),
           c.t.fund <= funds, NEW k \in FinanceTicket
    PROVE  /\ Sane(Step(c, TicketEntry("TicketCreated", k)), funds, credits)
           /\ Step(c, TicketEntry("TicketCreated", k)).t.fund = c.t.fund
<1>1. /\ TicketEntry("TicketCreated", k) \in LedgerEntries
      /\ TicketEntry("TicketCreated", k).kind = "TicketCreated"
  BY DEF TicketEntry, LedgerEntries, FinanceTicket
<1>2. QED
  BY <1>1, QuietSane

\* create_purchase_trade_goods_ticket reserves capital and moves none.
LEMMA CreatePurchaseSane ==
    ASSUME NEW c, NEW funds \in Int, NEW credits \in Int, Sane(c, funds, credits),
           c.t.fund <= funds, NEW k \in FinanceTicket, k.price > 0
    PROVE  Sane(create_purchase_trade_goods_ticket(c, k), funds, credits)
<1>1. PurchaseTicket(c, k) \in FinanceTicket
  BY PurchaseTicketType DEF Sane
<1>2. QED
  BY <1>1, CreateTicketSane DEF create_purchase_trade_goods_ticket

\* The tickets of sales and deliveries move no credits.
LEMMA CreateSellOrDeliverySane ==
    ASSUME NEW c, NEW funds \in Int, NEW credits \in Int, Sane(c, funds, credits),
           c.t.fund <= funds, NEW k \in FinanceTicket
    PROVE  Sane(create_sell_or_delivery_ticket(c, k), funds, credits)
<1>1. [k EXCEPT !.allocated = 0] \in FinanceTicket
  BY DEF FinanceTicket
<1>2. QED
  BY <1>1, CreateTicketSane DEF create_sell_or_delivery_ticket

\* create_multiple_tickets moves no credits, and may stop after a first ticket.
LEMMA CreateMultipleSane ==
    ASSUME NEW c, NEW funds \in Int, NEW credits \in Int, Sane(c, funds, credits),
           c.t.fund <= funds, NEW k1 \in FinanceTicket, NEW k2 \in FinanceTicket
    PROVE  Sane(create_multiple_tickets(c, k1, k2), funds, credits)
<1> DEFINE first == TicketEntry("TicketCreated", FullyAllocated(k1))
           second == TicketEntry("TicketCreated", FullyAllocated(k2))
           refused == \/ k1.fleet \notin c.t.fleets
                      \/ available_capital(c.t, k1.fleet)
                            < k1.price * k1.units + k2.price * k2.units
<1>1. \A k \in FinanceTicket : FullyAllocated(k) \in FinanceTicket
  <2> TAKE k \in FinanceTicket
  <2>1. k.price * k.units \in Int
    BY DEF FinanceTicket
  <2>2. QED
    BY <2>1, TicketType DEF FullyAllocated, FinanceTicket
<1>2. CASE refused
  <2>1. create_multiple_tickets(c, k1, k2) = Fail(c)
    BY <1>2 DEF create_multiple_tickets
  <2>2. QED
    BY <2>1, FailSane
<1>3. CASE ~refused
  <2>1. create_multiple_tickets(c, k1, k2) = Step(Step(c, first), second)
    BY <1>3 DEF create_multiple_tickets
  <2>2. Sane(Step(c, first), funds, credits) /\ Step(c, first).t.fund = c.t.fund
    BY <1>1, CreateTicketSane
  <2> HIDE DEF first
  <2>3. Sane(Step(Step(c, first), second), funds, credits)
    BY <1>1, <2>2, CreateTicketSane
  <2>4. QED
    BY <2>1, <2>3
<1>4. QED
  BY <1>2, <1>3

\* create_ship_purchase_ticket pays the price to the fleet only if something
\* is left in the treasury; its ticket may fail after that transfer.
LEMMA CreateShipPurchaseSane ==
    ASSUME NEW c, NEW funds \in Int, NEW credits \in Int, Sane(c, funds, credits),
           c.t.fund <= funds, NEW k \in FinanceTicket, k.price > 0
    PROVE  Sane(create_ship_purchase_ticket(c, k), funds, credits)
<1> DEFINE financed == try_finance_purchase_for_fleet(c, k.fleet, k.price)
           ticket == [k EXCEPT !.allocated = k.price]
<1>1. k.fleet \in Fleets /\ k.price \in Int /\ c.t.fund \in Int /\ c \in Calls
  BY CallFields DEF FinanceTicket, Sane
<1>2. Sane(financed, funds, credits) /\ financed.t.fund <= funds
  <2>1. CASE k.fleet \in c.t.fleets /\ c.t.fund - k.price > 0
    <3>1. financed = Step(c, Entry("FundsFromTreasuryToFleet", k.fleet, k.price))
      BY <1>1, <2>1 DEF try_finance_purchase_for_fleet
    <3>2. k.price \in Nat /\ k.price <= c.t.fund
      BY <1>1, <2>1
    <3> HIDE DEF financed
    <3>3. QED
      BY <1>1, <3>1, <3>2, PayOutSane
  <2>2. CASE ~(k.fleet \in c.t.fleets /\ c.t.fund - k.price > 0)
    <3>1. financed = Fail(c)
      BY <1>1, <2>2 DEF try_finance_purchase_for_fleet
    <3>2. Fail(c).t = c.t
      BY <1>1 DEF Fail, Calls
    <3> HIDE DEF financed
    <3>3. QED
      BY <3>1, <3>2, FailSane
  <2>3. QED
    BY <2>1, <2>2
<1>3. ticket \in FinanceTicket
  BY <1>1, TicketType
<1>4. create_ship_purchase_ticket(c, k) = Step(financed, TicketEntry("TicketCreated", ticket))
  BY DEF create_ship_purchase_ticket
<1> HIDE DEF financed, ticket
<1>5. QED
  BY <1>2, <1>3, <1>4, CreateTicketSane

\* complete_ticket books the actual price of the ticket's units iff the fleet
\* still exists, also when the reimbursement that follows fails.
LEMMA CompleteTicketSane ==
    ASSUME NEW c, NEW funds \in Int, NEW credits \in Int, Sane(c, funds, credits), c.ok,
           c.t.fund <= funds, NEW k \in FinanceTicket, NEW price \in Nat
    PROVE  LET total == price * k.units * signum(k.kind) IN
           /\ total \in Int
           /\ Sane(complete_ticket(c, k, price), funds,
                   IF k.fleet \in c.t.fleets THEN credits + total ELSE credits)
<1> DEFINE total == price * k.units * signum(k.kind)
           e == [kind |-> "TicketCompleted", fleet |-> k.fleet, ticket |-> k, credits |-> total]
           done == Step(c, e)
           after == IF k.fleet \in c.t.fleets THEN credits + total ELSE credits
<1>1. /\ k.fleet \in Fleets /\ k.units \in Nat /\ k.allocated \in Int
      /\ signum(k.kind) \in {-1, 0, 1}
  BY DEF FinanceTicket, Kinds, signum
<1>2. price * k.units \in Int
  BY <1>1
<1>3. total \in Int
  <2> DEFINE gross == price * k.units
             sign == signum(k.kind)
  <2>1. gross \in Int /\ sign \in {-1, 0, 1}
    BY <1>1, <1>2
  <2> HIDE DEF gross, sign
  <2>2. gross * sign \in Int
    BY <2>1
  <2>3. QED
    BY <2>2 DEF gross, sign
<1> HIDE DEF total
<1>4. e \in LedgerEntries /\ e.kind = "TicketCompleted" /\ e.fleet = k.fleet /\ e.credits = total
  BY <1>1, <1>3 DEF LedgerEntries
<1> HIDE DEF e
<1>5. /\ Sane(done, funds, after) /\ done.t.fund = c.t.fund
      /\ done.ok <=> k.fleet \in c.t.fleets
  <2>1. /\ Sane(done, funds, IF c.ok /\ e.fleet \in c.t.fleets
                             THEN credits + total ELSE credits)
        /\ done.t.fund = c.t.fund
        /\ done.ok <=> c.ok /\ e.fleet \in c.t.fleets
    BY <1>3, <1>4, BookingSane
  <2>2. QED
    BY <1>4, <2>1
<1>6. after \in Int
  BY <1>3
<1>7. complete_ticket(c, k, price)
        = IF ~done.ok THEN done
          ELSE IF signum(k.kind) < 0 /\ k.allocated < Abs(total)
               THEN reimburse_expense(done, k.fleet, Abs(total) - k.allocated)
               ELSE transfer_excess_funds_from_fleet_to_treasury_if_necessary(done, k.fleet)
  BY DEF complete_ticket, ActualTotal, total, e
<1> HIDE DEF done, after
<1>8. Sane(complete_ticket(c, k, price), funds, after)
  <2>1. CASE ~done.ok
    BY <1>5, <1>7, <2>1
  <2>2. CASE done.ok /\ signum(k.kind) < 0 /\ k.allocated < Abs(total)
    <3>1. Abs(total) - k.allocated \in Nat
      BY <1>1, <1>3, <2>2 DEF Abs
    <3>2. Sane(reimburse_expense(done, k.fleet, Abs(total) - k.allocated), funds, after)
      BY <1>1, <1>5, <1>6, <3>1, ReimburseSane
    <3>3. QED
      BY <1>7, <2>2, <3>2
  <2>3. CASE done.ok /\ ~(signum(k.kind) < 0 /\ k.allocated < Abs(total))
    <3>1. Sane(transfer_excess_funds_from_fleet_to_treasury_if_necessary(done, k.fleet),
               funds, after)
      BY <1>1, <1>5, <1>6, TransferExcessSane
    <3>2. QED
      BY <1>7, <2>3, <3>1
  <2>4. QED
    BY <2>1, <2>2, <2>3
<1>9. QED
  BY <1>3, <1>8 DEF total, after

\* report_expense books the expense iff the fleet exists, and reimburses it iff
\* the treasury covers it.
LEMMA ReportExpenseSane ==
    ASSUME NEW c, NEW funds \in Int, NEW credits \in Int, Sane(c, funds, credits), c.ok,
           c.t.fund <= funds, NEW f \in Fleets, NEW x \in Nat
    PROVE  Sane(report_expense(c, f, x), funds,
                IF f \in c.t.fleets THEN credits - x ELSE credits)
<1> DEFINE paid == IF c.t.fund >= x THEN reimburse_expense(c, f, x) ELSE c
           e == Entry("ExpenseLogged", f, x)
<1>1. c \in Calls /\ c.t.fund \in Int
  BY CallFields DEF Sane
<1>2. Sane(paid, funds, credits) /\ paid.t.fund <= funds
  BY ReimburseSane
<1>3. paid.ok /\ f \in paid.t.fleets <=> f \in c.t.fleets
  <2>1. CASE ~(c.t.fund >= x)
    BY <2>1
  <2>2. CASE c.t.fund >= x /\ f \in c.t.fleets
    <3> DEFINE transfer == Entry("FundsFromTreasuryToFleet", f, x)
    <3>1. paid = Step(c, transfer)
      BY <1>1, <2>2 DEF reimburse_expense
    <3>2. transfer.kind = "FundsFromTreasuryToFleet" /\ transfer.fleet = f
      BY DEF Entry
    <3> HIDE DEF transfer
    <3>3. Accepts(c.t, transfer)
      BY <2>2, <3>2 DEF Accepts
    <3>4. Process(c.t, transfer).fleets = c.t.fleets
      BY <1>1, <3>2, CallFields DEF Process, Treasurers
    <3>5. Step(c, transfer).ok /\ Step(c, transfer).t = Process(c.t, transfer)
      BY <3>3 DEF Step
    <3>6. QED
      BY <2>2, <3>1, <3>4, <3>5
  <2>3. CASE c.t.fund >= x /\ f \notin c.t.fleets
    <3>1. paid = Fail(c)
      BY <2>3 DEF reimburse_expense
    <3>2. ~Fail(c).ok
      BY <1>1 DEF Fail, Calls
    <3>3. QED
      BY <2>3, <3>1, <3>2
  <2>4. QED
    BY <2>1, <2>2, <2>3
<1>4. report_expense(c, f, x) = Step(paid, e)
  BY DEF report_expense
<1>5. /\ e \in LedgerEntries /\ e.kind = "ExpenseLogged" /\ e.fleet = f
      /\ e.credits = x
  BY EntryType
<1> HIDE DEF paid, e
<1>6. -x \in Int /\ e.credits = -(-x)
  BY <1>5
<1>7. Sane(Step(paid, e), funds,
           IF paid.ok /\ e.fleet \in paid.t.fleets THEN credits + (-x) ELSE credits)
  BY <1>2, <1>5, <1>6, BookingSane
<1>8. credits + (-x) = credits - x
  OBVIOUS
<1>9. QED
  BY <1>3, <1>4, <1>5, <1>7, <1>8

\* report_income books the reward iff the fleet exists.
LEMMA ReportIncomeSane ==
    ASSUME NEW c, NEW funds \in Int, NEW credits \in Int, Sane(c, funds, credits), c.ok,
           c.t.fund <= funds, NEW f \in Fleets, NEW x \in Nat
    PROVE  Sane(report_income(c, f, x), funds,
                IF f \in c.t.fleets THEN credits + x ELSE credits)
<1> DEFINE e == Entry("IncomeLogged", f, x)
<1>1. e \in LedgerEntries /\ e.kind = "IncomeLogged" /\ e.fleet = f /\ e.credits = x
  BY EntryType
<1>2. report_income(c, f, x) = Step(c, e)
  BY DEF report_income
<1> HIDE DEF e
<1>3. Sane(Step(c, e), funds, IF c.ok /\ e.fleet \in c.t.fleets THEN credits + x ELSE credits)
  BY <1>1, BookingSane
<1>4. QED
  BY <1>1, <1>2, <1>3

-----------------------------------------------------------------------------
(* Removing fleets and broken tickets.                                       *)

\* Archiving a fleet that exists takes its capital out of the books.
LEMMA ArchiveFleetSane ==
    ASSUME NEW c, NEW funds \in Int, NEW credits \in Int, Sane(c, funds, credits), c.ok,
           NEW f \in c.t.fleets
    PROVE  /\ c.t.current_capital[f] \in Int
           /\ Sane(Step(c, [kind |-> "ArchivedFleetBudget", fleet |-> f]), funds,
                   credits - c.t.current_capital[f])
<1> DEFINE e == [kind |-> "ArchivedFleetBudget", fleet |-> f]
<1>1. f \in Fleets /\ c.t.current_capital[f] \in Int /\ c.t.fund \in Int /\ c.t.fund >= 0
  BY CallFields DEF Sane
<1>2. e \in LedgerEntries /\ e.kind = "ArchivedFleetBudget" /\ e.fleet = f
  BY <1>1 DEF LedgerEntries
<1> HIDE DEF e
<1>3. /\ Ordinary(e) /\ FundDelta(e) = 0 /\ Accepts(c.t, e)
      /\ CreditDelta(c.t, e) = -c.t.current_capital[f]
  BY <1>2 DEF Ordinary, FundDelta, Accepts, CreditDelta
<1> DEFINE after == credits - c.t.current_capital[f]
<1>4. after \in Int /\ after = credits + CreditDelta(c.t, e) /\ c.t.fund + FundDelta(e) >= 0
  BY <1>1, <1>3
<1> HIDE DEF after
<1>5. Sane(Step(c, e), funds, after)
  BY <1>2, <1>3, <1>4, StepSane
<1>6. QED
  BY <1>1, <1>5 DEF e, after

\* remove_fleet loses credits only if the fleet is in debt.
LEMMA RemoveFleetSane ==
    ASSUME NEW c, NEW funds \in Int, NEW credits \in Int, Sane(c, funds, credits), c.ok,
           c.t.fund <= funds, NEW f \in Fleets
    PROVE  \E credits_after \in Int :
             /\ Sane(remove_fleet(c, f), funds, credits_after)
             /\ \/ f \in c.t.fleets /\ c.t.current_capital[f] < 0
                \/ credits_after = credits
<1> DEFINE cc == c.t.current_capital
           moved == transfer_all_funds_from_fleet_to_treasury(c, f)
           e == [kind |-> "ArchivedFleetBudget", fleet |-> f]
<1>1. c \in Calls /\ c.t \in Treasurers /\ cc[f] \in Int /\ c.t.fund \in Int
      /\ cc \in [Fleets -> Int] /\ c.t.fund >= 0
  BY CallFields, Fields DEF Sane
<1>2. remove_fleet(c, f) = Step(moved, e)
  BY DEF remove_fleet
<1>3. CASE f \notin c.t.fleets
  <2>1. moved = Fail(c)
    BY <1>3 DEF transfer_all_funds_from_fleet_to_treasury
  <2>2. ~moved.ok /\ Sane(moved, funds, credits)
    BY <1>1, <2>1, FailSane DEF Fail, Calls
  <2>3. Step(moved, e) = Fail(moved)
    BY <2>2 DEF Step
  <2>4. moved.t.fund <= funds
    BY <2>2 DEF Sane
  <2> HIDE DEF moved
  <2>5. Sane(Fail(moved), funds, credits)
    BY <2>2, <2>4, FailSane
  <2>6. QED
    BY <1>2, <2>3, <2>5
<1>4. CASE f \in c.t.fleets /\ ~(cc[f] > 0)
  <2>1. moved = c
    BY <1>4 DEF transfer_all_funds_from_fleet_to_treasury
  <2>2. Sane(Step(c, e), funds, credits - cc[f])
    BY <1>4, ArchiveFleetSane
  <2>3. credits - cc[f] \in Int /\ (cc[f] < 0 \/ credits - cc[f] = credits)
    BY <1>1, <1>4
  <2> HIDE DEF moved, e
  <2>4. QED
    BY <1>2, <1>4, <2>1, <2>2, <2>3
<1>5. CASE f \in c.t.fleets /\ cc[f] > 0
  <2> DEFINE transfer == Entry("FundsFromFleetToTreasury", f, cc[f])
  <2>1. moved = Step(c, transfer)
    BY <1>5 DEF transfer_all_funds_from_fleet_to_treasury
  <2>2. Sane(moved, funds, credits)
    BY <1>1, <1>5, <2>1, PayInSane
  <2>3. transfer.kind = "FundsFromFleetToTreasury" /\ transfer.fleet = f /\ transfer.credits = cc[f]
    BY DEF Entry
  <2> HIDE DEF transfer
  <2>4. Accepts(c.t, transfer)
    BY <1>1, <1>5, <2>3 DEF Accepts
  <2>5. moved.ok /\ moved.t = Process(c.t, transfer)
    BY <2>1, <2>4 DEF Step
  <2>6. /\ Process(c.t, transfer).fleets = c.t.fleets
        /\ Process(c.t, transfer).current_capital = Plus(cc, f, -cc[f])
    BY <1>1, <2>3 DEF Process, Treasurers
  <2>7. Plus(cc, f, -cc[f])[f] = 0
    BY <1>1 DEF Plus
  <2>8. f \in moved.t.fleets /\ moved.t.current_capital[f] = 0
    BY <1>5, <2>5, <2>6, <2>7
  <2> HIDE DEF moved
  <2>9. Sane(Step(moved, e), funds, credits - moved.t.current_capital[f])
    BY <2>2, <2>5, <2>8, ArchiveFleetSane
  <2>10. credits - moved.t.current_capital[f] = credits
    BY <2>8
  <2>11. QED
    BY <1>2, <2>9, <2>10
<1>6. QED
  BY <1>3, <1>4, <1>5

\* Deleting broken tickets moves no credits.
LEMMA RemoveBrokenTicketsSane ==
    ASSUME NEW c, NEW funds \in Int, NEW credits \in Int, Sane(c, funds, credits),
           c.t.fund <= funds, NEW gone
    PROVE  Sane(remove_tickets_with_0_units(c, gone), funds, credits)
<1> DEFINE without(t) == [t EXCEPT !.active = {k \in @ : \A b \in gone : k.id # b.id}]
           result == remove_tickets_with_0_units(c, gone)
<1>1. c \in Calls
  BY DEF Sane
<1>2. \A t \in Treasurers : /\ without(t) \in Treasurers
                           /\ without(t).fund = t.fund /\ without(t).fleets = t.fleets
                           /\ without(t).current_capital = t.current_capital
  BY DEF Treasurers
<1>3. /\ result.ok = (c.ok /\ gone = BrokenTickets(c.t))
      /\ result.t = without(c.t)
      /\ result.a = IF c.replays THEN without(c.a) ELSE c.a
      /\ result.replays = (c.replays /\ \A b \in gone : b.fleet \in c.a.fleets)
      /\ result = [ok |-> result.ok, t |-> result.t, a |-> result.a, replays |-> result.replays]
  BY DEF remove_tickets_with_0_units
<1> HIDE DEF result, without
<1>4. result.t \in Treasurers /\ result.a \in Treasurers
  BY <1>1, <1>2, <1>3, CallFields
<1>5. result \in Calls
  BY <1>3, <1>4 DEF Calls
<1>6. result.t.fund = c.t.fund /\ result.a.fund = c.a.fund
  BY <1>1, <1>2, <1>3, CallFields
<1>7. Tidy(result.t) /\ Tidy(result.a)
  BY <1>1, <1>2, <1>3, CallFields DEF Sane, Tidy
<1>8. current_agent_credits(result.t) = credits
  BY <1>1, <1>2, <1>3, CallFields DEF Sane, current_agent_credits
<1>9. QED
  BY <1>1, <1>3, <1>5, <1>6, <1>7, <1>8, CallFields DEF Sane, result

\* Clearing the amounts of fleets gives amounts again.
LEMMA ClearedType ==
    ASSUME NEW amounts \in [Fleets -> Int], NEW gone
    PROVE  Cleared(amounts, gone) \in [Fleets -> Int]
BY DEF Cleared

\* Removing fleets with what they have: the fields that result.
LEMMA DisbandType ==
    ASSUME NEW t \in Treasurers, NEW gone, NEW swept \in Int
    PROVE  /\ Disband(t, gone, swept) \in Treasurers
           /\ Disband(t, gone, swept).fund = t.fund + swept
           /\ Disband(t, gone, swept).fleets = t.fleets \ gone
           /\ Disband(t, gone, swept).current_capital = Cleared(t.current_capital, gone)
<1>1. t.fund + swept \in Int /\ t.fleets \ gone \in SUBSET Fleets
  BY Fields
<1>2. /\ Cleared(t.current_capital, gone) \in [Fleets -> Int]
      /\ Cleared(t.reserved_capital, gone) \in [Fleets -> Int]
      /\ Cleared(t.budget, gone) \in [Fleets -> Int]
      /\ Cleared(t.operating_reserve, gone) \in [Fleets -> Int]
  BY Fields, ClearedType
<1>3. QED
  BY <1>1, <1>2 DEF Disband, Treasurers

\* Removing fleets leaves no capital with fleets that do not exist.
LEMMA DisbandTidy ==
    ASSUME NEW t \in Treasurers, Tidy(t), NEW gone, NEW swept \in Int
    PROVE  Tidy(Disband(t, gone, swept))
<1> DEFINE after == Disband(t, gone, swept)
<1>1. /\ after.fleets = t.fleets \ gone
      /\ after.current_capital = Cleared(t.current_capital, gone)
  BY DisbandType
<1>2. \A f \in Fleets : Cleared(t.current_capital, gone)[f]
                         = IF f \in gone THEN 0 ELSE t.current_capital[f]
  BY DEF Cleared
<1> HIDE DEF after
<1>3. Tidy(after)
  BY <1>1, <1>2 DEF Tidy
<1>4. QED
  BY <1>3 DEF after

\* What transfer_all_funds_to_treasury moves is a natural number, and all there
\* is if no fleet is in debt.
LEMMA SurplusSum ==
    ASSUME NEW t \in Treasurers, Tidy(t)
    PROVE  /\ SumFunctionOnSet(Surplus(t), Fleets) \in Nat
           /\ (\A f \in t.fleets : t.current_capital[f] >= 0)
              => SumFunctionOnSet(Surplus(t), Fleets) = SumFunctionOnSet(t.current_capital, Fleets)
<1> DEFINE cc == t.current_capital
           surplus == Surplus(t)
<1>1. cc \in [Fleets -> Int] /\ IsFiniteSet(Fleets)
  BY Fields, FiniteAssumption DEF FiniteAssumption
<1>2. surplus \in [Fleets -> Int] /\ \A f \in Fleets : surplus[f] >= 0
  BY <1>1 DEF Surplus
<1>3. (\A f \in t.fleets : cc[f] >= 0) => \A f \in Fleets : surplus[f] = cc[f]
  BY <1>1 DEF Surplus, Tidy
<1> HIDE DEF surplus, cc
<1>4. Sum(surplus, Fleets) \in Int /\ Sum(surplus, Fleets) >= 0
  BY <1>1, <1>2, SumType, SumNonNegative
<1>5. (\A f \in t.fleets : cc[f] >= 0) => Sum(surplus, Fleets) = Sum(cc, Fleets)
  BY <1>1, <1>2, <1>3, SumSame
<1>6. QED
  BY <1>4, <1>5 DEF Sum, surplus, cc

\* Amounts that are all 0 add up to 0.
LEMMA SumOfNothing ==
    ASSUME NEW amounts \in [Fleets -> Int], \A f \in Fleets : amounts[f] = 0
    PROVE  SumFunctionOnSet(amounts, Fleets) = 0
<1>1. IsFiniteSet(Fleets) /\ \A f \in Fleets : amounts[f] = amounts[f] + amounts[f]
  BY FiniteAssumption DEF FiniteAssumption
<1>2. Sum(amounts, Fleets) = Sum(amounts, Fleets) + Sum(amounts, Fleets)
  BY <1>1, SumPlus
<1>3. Sum(amounts, Fleets) \in Int
  BY <1>1, SumType
<1>4. Sum(amounts, Fleets) = 0
  BY <1>2, <1>3
<1>5. QED
  BY <1>4 DEF Sum

\* remove_all_fleets removes every fleet, and loses credits only if a fleet is
\* in debt.
LEMMA RemoveAllFleetsSane ==
    ASSUME NEW c, NEW funds \in Int, NEW credits \in Int, Sane(c, funds, credits), c.ok,
           c.t.fund <= funds
    PROVE  /\ remove_all_fleets(c).t.fleets = {}
           /\ \E credits_after \in Int :
                /\ Sane(remove_all_fleets(c), funds, credits_after)
                /\ \/ \E f \in c.t.fleets : c.t.current_capital[f] < 0
                   \/ credits_after = credits
<1> DEFINE swept == SumFunctionOnSet(Surplus(c.t), Fleets)
           accepted == /\ c.replays
                       /\ c.t.fleets \subseteq c.a.fleets
                       /\ \A f \in c.t.fleets : Surplus(c.t)[f] <= Surplus(c.a)[f]
           t == Disband(c.t, c.t.fleets, swept)
           a == IF accepted THEN Disband(c.a, c.t.fleets, swept) ELSE c.a
           result == remove_all_fleets(c)
<1>1. /\ c \in Calls /\ c.t \in Treasurers /\ c.a \in Treasurers
      /\ c.t.fund \in Int /\ c.a.fund \in Int /\ c.t.fund >= 0
      /\ c.t.current_capital \in [Fleets -> Int] /\ c.t.fleets \in SUBSET Fleets
      /\ accepted \in BOOLEAN
  BY CallFields, Fields DEF Sane
<1>2. /\ swept \in Nat
      /\ (\A f \in c.t.fleets : c.t.current_capital[f] >= 0)
         => swept = SumFunctionOnSet(c.t.current_capital, Fleets)
  BY <1>1, SurplusSum DEF Sane
<1>3. result = [ok |-> TRUE, t |-> t, a |-> a, replays |-> accepted]
  BY DEF remove_all_fleets
<1> HIDE DEF swept, result
<1>4. /\ t \in Treasurers /\ t.fund = c.t.fund + swept /\ t.fleets = {}
      /\ t.current_capital = Cleared(c.t.current_capital, c.t.fleets)
  BY <1>1, <1>2, DisbandType
<1>5. Tidy(t)
  BY <1>1, <1>2, DisbandTidy DEF Sane
<1>6. a \in Treasurers /\ Tidy(a) /\ (accepted => a.fund >= t.fund)
  <2>1. CASE accepted
    <3>1. /\ Disband(c.a, c.t.fleets, swept) \in Treasurers
          /\ Disband(c.a, c.t.fleets, swept).fund = c.a.fund + swept
      BY <1>1, <1>2, DisbandType
    <3>2. Tidy(Disband(c.a, c.t.fleets, swept))
      BY <1>1, <1>2, DisbandTidy DEF Sane
    <3>3. c.a.fund >= c.t.fund
      BY <2>1 DEF Sane
    <3>4. QED
      BY <1>1, <1>2, <1>4, <2>1, <3>1, <3>2, <3>3
  <2>2. CASE ~accepted
    BY <1>1, <2>2 DEF Sane
  <2>3. QED
    BY <2>1, <2>2
<1>7. SumFunctionOnSet(t.current_capital, Fleets) = 0
  <2>1. Cleared(c.t.current_capital, c.t.fleets) \in [Fleets -> Int]
    BY <1>1, ClearedType
  <2>2. \A f \in Fleets : Cleared(c.t.current_capital, c.t.fleets)[f] = 0
    BY DEF Cleared, Sane, Tidy
  <2>3. QED
    BY <1>4, <2>1, <2>2, SumOfNothing
<1>8. current_agent_credits(t) = c.t.fund + swept
  BY <1>1, <1>2, <1>4, <1>7 DEF current_agent_credits
<1> HIDE DEF t, a, accepted
<1>9. result \in Calls
  BY <1>1, <1>3, <1>4, <1>6 DEF Calls
<1>10. Sane(result, funds, c.t.fund + swept)
  BY <1>1, <1>2, <1>3, <1>4, <1>5, <1>6, <1>8, <1>9 DEF Sane
<1>11. \/ \E f \in c.t.fleets : c.t.current_capital[f] < 0
       \/ c.t.fund + swept = credits
  <2>1. (\E f \in c.t.fleets : c.t.current_capital[f] < 0)
        \/ \A f \in c.t.fleets : c.t.current_capital[f] >= 0
    BY <1>1
  <2>2. QED
    BY <1>2, <2>1 DEF Sane, current_agent_credits
<1>12. c.t.fund + swept \in Int
  BY <1>1, <1>2
<1>13. result.t.fleets = {}
  BY <1>3, <1>4
<1>14. QED
  BY <1>10, <1>11, <1>12, <1>13 DEF result

-----------------------------------------------------------------------------
(* The books of the treasurer and of the archive.                              *)

\* The books: what the treasurer in memory and the archive have to agree on
\* for the treasury not to be overdrawn after a replay.  The entries of failed
\* calls are in memory only; they never add to the treasury.
BookInv == /\ treasurer \in Treasurers
           /\ archived \in Treasurers
           /\ replays \in BOOLEAN
           /\ Tidy(treasurer) /\ Tidy(archived)
           /\ treasurer.fund >= 0
           /\ replays => archived.fund >= treasurer.fund

ShipInv == /\ agent_credits \in Nat
           /\ my_fleet \in [Ships -> Fleets]
           /\ doing \in [Ships -> {"idle", "ticket", "fuel", "reward"}]
           /\ doing_ticket \in [Ships -> FinanceTicket \cup {NoTicket}]
           /\ \A s \in Ships : doing[s] = "ticket" => doing_ticket[s] \in FinanceTicket
           /\ response \in [Ships -> Nat]

\* before the first redistribution the admiral has nothing to do, so that no
\* call comes between the reset of the treasury and the deletion of tickets
AdmiralInv == /\ admiral \in {"idle", "rebalancing", "creating", "gone"}
              /\ todo \in Seq(AdmiralCalls)
              /\ phase \in {"down", "loaded", "resetting", "reset"}
                 => admiral = "idle" /\ todo = <<>>

\* a crash ends every flow, and the ships start after the first redistribution
RestInv == phase # "running" => \A s \in Ships : doing[s] = "idle"

ResetInv == phase = "reset" => treasurer.fleets = {}

IInv == /\ phase \in Phases
        /\ BookInv /\ ShipInv /\ AdmiralInv
        /\ RestInv /\ ResetInv /\ ReconciledAtStart

-----------------------------------------------------------------------------
(* Calls on the books.                                                       *)

\* A call starts from the books as they are.
LEMMA CallSane ==
    ASSUME BookInv
    PROVE  /\ current_agent_credits(treasurer) \in Int
           /\ treasurer.fund \in Int
           /\ Sane(Call, treasurer.fund, current_agent_credits(treasurer))
           /\ Call.ok /\ Call.t = treasurer /\ Call.t.fund <= treasurer.fund
<1>1. /\ Call.ok = TRUE /\ Call.t = treasurer /\ Call.a = archived /\ Call.replays = replays
      /\ Call = [ok |-> TRUE, t |-> treasurer, a |-> archived, replays |-> replays]
  BY DEF Call
<1>2. treasurer \in Treasurers /\ archived \in Treasurers /\ replays \in BOOLEAN
  BY DEF BookInv
<1>3. Call \in Calls
  BY <1>1, <1>2 DEF Calls
<1>4. treasurer.fund \in Int /\ SumFunctionOnSet(treasurer.current_capital, Fleets) \in Int
  BY <1>2, Fields, CapitalType
<1>5. current_agent_credits(treasurer) \in Int
  BY <1>4 DEF current_agent_credits
<1>6. Sane(Call, treasurer.fund, current_agent_credits(treasurer))
  BY <1>1, <1>3, <1>4 DEF Sane, BookInv
<1>7. QED
  BY <1>1, <1>4, <1>5, <1>6

\* with_treasurer keeps the books sane, whether the operation succeeded or not.
LEMMA CommitBooks ==
    ASSUME BookInv, NEW c, NEW credits \in Int, Sane(c, treasurer.fund, credits), Commit(c)
    PROVE  BookInv' /\ current_agent_credits(treasurer') = credits
<1>1. /\ treasurer' = c.t
      /\ archived' = IF c.ok THEN c.a ELSE archived
      /\ replays' = IF c.ok THEN c.replays ELSE replays
  BY DEF Commit
<1>2. /\ c.ok \in BOOLEAN /\ c.replays \in BOOLEAN /\ c.t \in Treasurers /\ c.a \in Treasurers
      /\ c.t.fund \in Int /\ c.a.fund \in Int
  BY CallFields DEF Sane
<1>3. treasurer.fund \in Int /\ archived.fund \in Int
  BY Fields DEF BookInv
<1>4. CASE c.ok
  BY <1>1, <1>2, <1>4 DEF Sane, BookInv
<1>5. CASE ~c.ok
  BY <1>1, <1>2, <1>3, <1>5 DEF Sane, BookInv
<1>6. QED
  BY <1>2, <1>4, <1>5

\* The books, and the agent's credits with them.
BooksKept == BookInv' /\ current_agent_credits(treasurer') = current_agent_credits(treasurer)

\* A call that moves no credits.
LEMMA CommitKept ==
    ASSUME BookInv, NEW c, Sane(c, treasurer.fund, current_agent_credits(treasurer)), Commit(c)
    PROVE  BooksKept
BY CallSane, CommitBooks DEF BooksKept

\* The tickets that the actions make.
LEMMA NewTicketType ==
    ASSUME NEW id \in TicketIds, NEW f \in Fleets, NEW s \in Ships, NEW kind \in Kinds,
           NEW units \in Nat, NEW price \in Int
    PROVE  /\ NewTicket(id, f, s, kind, units, price) \in FinanceTicket
           /\ NewTicket(id, f, s, kind, units, price).price = price
BY DEF NewTicket, FinanceTicket

\* The price of a ticket is a natural number.
LEMMA PriceOfType ==
    ASSUME NEW kind \in Kinds, NEW price \in Nat
    PROVE  PriceOf(kind, price) \in Nat
BY DEF PriceOf

-----------------------------------------------------------------------------
(* The calls of the admiral and of the ships that move no credits.           *)

\* Every call the admiral queues keeps the books.
LEMMA NextAdmiralCallKept ==
    ASSUME IInv, NextAdmiralCall
    PROVE  BooksKept /\ todo' \in Seq(AdmiralCalls)
<1> DEFINE call == Head(todo)
           c == AdmiralCall(Call, call)
           funds == treasurer.fund
           credits == current_agent_credits(treasurer)
<1>1. /\ todo # <<>> /\ Commit(c) /\ todo' = IF c.ok THEN Tail(todo) ELSE <<>>
  BY DEF NextAdmiralCall
<1>2. BookInv /\ todo \in Seq(AdmiralCalls)
  BY DEF IInv, AdmiralInv
<1>3. call \in AdmiralCalls /\ Tail(todo) \in Seq(AdmiralCalls) /\ <<>> \in Seq(AdmiralCalls)
  BY <1>1, <1>2
<1>4. /\ credits \in Int /\ funds \in Int /\ Sane(Call, funds, credits)
      /\ Call.t.fund <= funds
  BY <1>2, CallSane
<1>5. todo' \in Seq(AdmiralCalls)
  BY <1>1, <1>3
<1> HIDE DEF call, funds, credits
<1>6. Sane(c, funds, credits)
  <2>1. CASE call.op = "set_fleet_budget"
    <3>1. call.fleet \in Fleets /\ call.credits \in Int
      BY <1>3, <2>1 DEF AdmiralCalls
    <3>2. c = set_fleet_total_capital(Call, call.fleet, call.credits)
      BY <2>1 DEF AdmiralCall
    <3>3. QED
      BY <1>4, <3>1, <3>2, SetBudgetSane
  <2>2. CASE call.op = "set_new_operating_reserve"
    <3>1. call.fleet \in Fleets /\ call.credits \in Int
      BY <1>3, <2>2 DEF AdmiralCalls
    <3>2. c = set_new_operating_reserve(Call, call.fleet, call.credits)
      BY <2>2 DEF AdmiralCall
    <3>3. QED
      BY <1>4, <3>1, <3>2, SetReserveSane
  <2>3. CASE call.op = "top_up"
    <3>1. call.fleet \in Fleets
      BY <1>3, <2>3 DEF AdmiralCalls
    <3>2. c = transfer_funds_to_fleet_to_top_up_available_capital(Call, call.fleet)
      BY <2>3 DEF AdmiralCall
    <3>3. QED
      BY <1>4, <3>1, <3>2, TopUpSane
  <2>4. CASE call.op = "create_ticket"
    <3>1. call.ticket \in FinanceTicket
      BY <1>3, <2>4 DEF AdmiralCalls
    <3>2. c = create_sell_or_delivery_ticket(Call, call.ticket)
      BY <2>4 DEF AdmiralCall
    <3>3. QED
      BY <1>4, <3>1, <3>2, CreateSellOrDeliverySane
  <2>5. QED
    BY <1>3, <2>1, <2>2, <2>3, <2>4 DEF AdmiralCalls
<1>7. BooksKept
  BY <1>1, <1>2, <1>6, CommitKept DEF funds, credits
<1>8. QED
  BY <1>5, <1>7

\* Creating a fleet keeps the books, and queues well-formed calls.
LEMMA CreateFleetKept ==
    ASSUME IInv, NEW f \in Fleets, NEW budget \in Int, NEW reserve \in Int,
           CreateFleet(f, budget, reserve)
    PROVE  BooksKept /\ todo' \in Seq(AdmiralCalls)
<1>1. BookInv /\ Commit(create_fleet(Call, f, budget)) /\ todo' \in SetUpCalls(f, budget, reserve)
  BY DEF IInv, CreateFleet
<1>2. BooksKept
  BY <1>1, CallSane, CreateFleetSane, CommitKept
<1>3. TopUp(f) \in AdmiralCalls /\ SetReserve(f, reserve) \in AdmiralCalls
  BY DEF TopUp, SetReserve, AdmiralCalls
<1>4. SetUpCalls(f, budget, reserve) \subseteq Seq(AdmiralCalls)
  <2> DEFINE first == TopUp(f)
             second == SetReserve(f, reserve)
  <2>1. first \in AdmiralCalls /\ second \in AdmiralCalls
    BY <1>3
  <2>2. SetUpCalls(f, budget, reserve) \subseteq {<<>>, <<first>>, <<first, second>>, <<second, first>>}
    BY DEF SetUpCalls
  <2> HIDE DEF first, second
  <2>3. /\ <<>> \in Seq(AdmiralCalls) /\ <<first>> \in Seq(AdmiralCalls)
        /\ <<first, second>> \in Seq(AdmiralCalls) /\ <<second, first>> \in Seq(AdmiralCalls)
    BY <2>1
  <2>4. QED
    BY <2>2, <2>3
<1>5. QED
  BY <1>1, <1>2, <1>4

\* The tickets of a trade keep the books.
LEMMA CreateTradeTicketsKept ==
    ASSUME IInv, NEW s \in Ships, NEW id \in TicketIds, NEW next_id \in TicketIds,
           NEW units \in Nat, NEW price \in Nat \ {0}, NEW delivery \in Deliveries,
           NEW delivery_price \in Nat,
           CreateTradeTickets(s, id, next_id, units, price, delivery, delivery_price)
    PROVE  BooksKept /\ todo' \in Seq(AdmiralCalls)
<1> DEFINE k == NewTicket(id, my_fleet[s], s, "PurchaseTradeGoods", units, price)
           c == create_purchase_trade_goods_ticket(Call, k)
           afforded == PurchaseTicket(Call, k).units
           next == NewTicket(next_id, my_fleet[s], s, delivery, afforded,
                             PriceOf(delivery, delivery_price))
<1>1. /\ BookInv /\ my_fleet[s] \in Fleets /\ Commit(c)
      /\ todo' = IF c.ok /\ afforded > 0 THEN <<CreateTicket(next)>> ELSE <<>>
  BY DEF IInv, ShipInv, CreateTradeTickets
<1>2. k \in FinanceTicket /\ k.price > 0
  BY <1>1, NewTicketType DEF Kinds
<1>3. BooksKept
  BY <1>1, <1>2, CallSane, CreatePurchaseSane, CommitKept
<1>4. afforded \in Nat
  BY <1>1, <1>2, CallSane, PurchaseTicketType DEF Sane
<1>5. next \in FinanceTicket
  <2>1. delivery \in Kinds
    BY DEF Deliveries, Kinds
  <2>2. PriceOf(delivery, delivery_price) \in Nat
    BY <2>1, PriceOfType
  <2> HIDE DEF afforded
  <2>3. QED
    BY <1>1, <1>4, <2>1, <2>2, NewTicketType
<1> HIDE DEF next, c, afforded
<1>6. CreateTicket(next) \in AdmiralCalls
  BY <1>5 DEF CreateTicket, AdmiralCalls
<1>7. todo' \in Seq(AdmiralCalls)
  BY <1>1, <1>6
<1>8. QED
  BY <1>3, <1>7

\* A ticket for cargo in the hold keeps the books.
LEMMA CreateDeliveryTicketKept ==
    ASSUME IInv, NEW s \in Ships, NEW id \in TicketIds, NEW units \in Nat,
           NEW kind \in Deliveries, NEW price \in Nat,
           CreateDeliveryTicket(s, id, units, kind, price)
    PROVE  BooksKept
<1> DEFINE k == NewTicket(id, my_fleet[s], s, kind, units, PriceOf(kind, price))
<1>1. BookInv /\ my_fleet[s] \in Fleets /\ Commit(create_sell_or_delivery_ticket(Call, k))
  BY DEF IInv, ShipInv, CreateDeliveryTicket
<1>2. kind \in Kinds /\ PriceOf(kind, price) \in Nat
  BY PriceOfType DEF Deliveries, Kinds
<1>3. k \in FinanceTicket
  BY <1>1, <1>2, NewTicketType
<1> HIDE DEF k
<1>4. QED
  BY <1>1, <1>3, CallSane, CreateSellOrDeliverySane, CommitKept

\* The kinds of a contract's tickets.
LEMMA ContractKindsType ==
    ASSUME NEW kinds \in ContractKinds
    PROVE  kinds[1] \in Kinds /\ kinds[2] \in Kinds
BY DEF ContractKinds, Kinds

\* The tickets of a contract keep the books.
LEMMA CreateContractTicketsKept ==
    ASSUME IInv, NEW s \in Ships, NEW id \in TicketIds, NEW next_id \in TicketIds,
           NEW kinds \in ContractKinds, NEW units \in Nat, NEW price \in Nat,
           CreateContractTickets(s, id, next_id, kinds, units, price)
    PROVE  BooksKept
<1> DEFINE k1 == NewTicket(id, my_fleet[s], s, kinds[1], units, PriceOf(kinds[1], price))
           k2 == NewTicket(next_id, my_fleet[s], s, kinds[2], units, PriceOf(kinds[2], price))
<1>1. BookInv /\ my_fleet[s] \in Fleets /\ Commit(create_multiple_tickets(Call, k1, k2))
  BY DEF IInv, ShipInv, CreateContractTickets
<1>2. k1 \in FinanceTicket /\ k2 \in FinanceTicket
  BY <1>1, ContractKindsType, PriceOfType, NewTicketType
<1> HIDE DEF k1, k2
<1>3. QED
  BY <1>1, <1>2, CallSane, CreateMultipleSane, CommitKept

\* The ticket of a ship purchase keeps the books, also when it fails half way.
LEMMA CreateShipPurchaseTicketKept ==
    ASSUME IInv, NEW f \in Fleets, NEW s \in Ships, NEW id \in TicketIds,
           NEW price \in Nat \ {0}, CreateShipPurchaseTicket(f, s, id, price)
    PROVE  BooksKept
<1> DEFINE k == NewTicket(id, f, s, "PurchaseShip", 1, price)
<1>1. BookInv /\ Commit(create_ship_purchase_ticket(Call, k))
  BY DEF IInv, CreateShipPurchaseTicket
<1>2. k \in FinanceTicket /\ k.price > 0
  BY NewTicketType DEF Kinds
<1> HIDE DEF k
<1>3. QED
  BY <1>1, <1>2, CallSane, CreateShipPurchaseSane, CommitKept

\* Deleting tickets of 0 units at the start keeps the books.
LEMMA RemoveBrokenTicketsKept ==
    ASSUME IInv, RemoveBrokenTickets
    PROVE  BooksKept
<1>1. PICK gone \in Deletable(treasurer) : Commit(remove_tickets_with_0_units(Call, gone))
  BY DEF RemoveBrokenTickets
<1>2. BookInv
  BY DEF IInv
<1>3. QED
  BY <1>1, <1>2, CallSane, RemoveBrokenTicketsSane, CommitKept

-----------------------------------------------------------------------------
(* The calls that can lose credits, and the reports of the ships.            *)

\* remove_all_fleets leaves no fleet, and loses credits only with a debt.
LEMMA RemoveAllFleetsBooks ==
    ASSUME BookInv, Commit(remove_all_fleets(Call))
    PROVE  /\ BookInv' /\ treasurer'.fleets = {}
           /\ \/ \E f \in treasurer.fleets : treasurer.current_capital[f] < 0
              \/ current_agent_credits(treasurer') = current_agent_credits(treasurer)
<1> DEFINE c == remove_all_fleets(Call)
           funds == treasurer.fund
           credits == current_agent_credits(treasurer)
<1>1. /\ credits \in Int /\ funds \in Int /\ Sane(Call, funds, credits)
      /\ Call.ok /\ Call.t = treasurer /\ Call.t.fund <= funds
  BY CallSane
<1> HIDE DEF funds, credits
<1>2. /\ c.t.fleets = {}
      /\ \E credits_after \in Int :
            /\ Sane(c, funds, credits_after)
            /\ \/ \E f \in treasurer.fleets : treasurer.current_capital[f] < 0
               \/ credits_after = credits
  BY <1>1, RemoveAllFleetsSane
<1> HIDE DEF c
<1>3. PICK credits_after \in Int :
            /\ Sane(c, funds, credits_after)
            /\ \/ \E f \in treasurer.fleets : treasurer.current_capital[f] < 0
               \/ credits_after = credits
  BY <1>2
<1>4. Commit(c)
  BY DEF c
<1>5. BookInv' /\ current_agent_credits(treasurer') = credits_after
  BY <1>3, <1>4, CommitBooks DEF funds
<1>6. treasurer' = c.t
  BY <1>4 DEF Commit
<1>7. QED
  BY <1>2, <1>3, <1>5, <1>6 DEF credits

\* remove_fleet loses credits only with a debt.
LEMMA DismantleFleetBooks ==
    ASSUME BookInv, NEW f \in Fleets, Commit(remove_fleet(Call, f))
    PROVE  /\ BookInv'
           /\ \/ f \in treasurer.fleets /\ treasurer.current_capital[f] < 0
              \/ current_agent_credits(treasurer') = current_agent_credits(treasurer)
<1> DEFINE c == remove_fleet(Call, f)
           funds == treasurer.fund
           credits == current_agent_credits(treasurer)
<1>1. /\ credits \in Int /\ funds \in Int /\ Sane(Call, funds, credits)
      /\ Call.ok /\ Call.t = treasurer /\ Call.t.fund <= funds
  BY CallSane
<1> HIDE DEF funds, credits
<1>2. \E credits_after \in Int :
            /\ Sane(c, funds, credits_after)
            /\ \/ f \in treasurer.fleets /\ treasurer.current_capital[f] < 0
               \/ credits_after = credits
  BY <1>1, RemoveFleetSane
<1> HIDE DEF c
<1>3. PICK credits_after \in Int :
            /\ Sane(c, funds, credits_after)
            /\ \/ f \in treasurer.fleets /\ treasurer.current_capital[f] < 0
               \/ credits_after = credits
  BY <1>2
<1>4. Commit(c)
  BY DEF c
<1>5. BookInv' /\ current_agent_credits(treasurer') = credits_after
  BY <1>3, <1>4, CommitBooks DEF funds
<1>6. QED
  BY <1>3, <1>5 DEF credits

\* dismantle_fleets really archives the fleet whose debt it forgets
LEMMA RemoveFleetRemoves ==
    ASSUME BookInv, NEW f \in treasurer.fleets, treasurer.current_capital[f] < 0,
           Commit(remove_fleet(Call, f))
    PROVE  f \notin treasurer'.fleets
<1> DEFINE e == [kind |-> "ArchivedFleetBudget", fleet |-> f]
<1>1. /\ Call.ok /\ Call.t = treasurer /\ treasurer \in Treasurers
      /\ f \in Fleets /\ treasurer.current_capital[f] \in Int
  BY CallSane, Fields DEF BookInv
<1>2. transfer_all_funds_from_fleet_to_treasury(Call, f) = Call
  BY <1>1 DEF transfer_all_funds_from_fleet_to_treasury
<1>3. remove_fleet(Call, f) = Step(Call, e)
  BY <1>2 DEF remove_fleet
<1>4. e.kind = "ArchivedFleetBudget" /\ e.fleet = f
  OBVIOUS
<1> HIDE DEF e
<1>5. Accepts(treasurer, e)
  BY <1>4 DEF Accepts
<1>6. Step(Call, e).t = Process(treasurer, e)
  BY <1>1, <1>5 DEF Step
<1>7. Process(treasurer, e).fleets = treasurer.fleets \ {f}
  BY <1>1, <1>4 DEF Process, Treasurers
<1>8. QED
  BY <1>3, <1>6, <1>7 DEF Commit

\* The reports: booked iff the fleet exists.
LEMMA CompleteTicketBooks ==
    ASSUME BookInv, NEW k \in FinanceTicket, NEW price \in Nat,
           Commit(complete_ticket(Call, k, price))
    PROVE  /\ BookInv' /\ price * k.units * signum(k.kind) \in Int
           /\ current_agent_credits(treasurer')
                = IF k.fleet \in treasurer.fleets
                  THEN current_agent_credits(treasurer) + price * k.units * signum(k.kind)
                  ELSE current_agent_credits(treasurer)
<1> DEFINE total == price * k.units * signum(k.kind)
           credits == current_agent_credits(treasurer)
           after == IF k.fleet \in treasurer.fleets THEN credits + total ELSE credits
<1>1. /\ credits \in Int /\ treasurer.fund \in Int /\ Sane(Call, treasurer.fund, credits)
      /\ Call.ok /\ Call.t = treasurer /\ Call.t.fund <= treasurer.fund
  BY CallSane
<1> HIDE DEF credits
<1>2. total \in Int /\ Sane(complete_ticket(Call, k, price), treasurer.fund, after)
  BY <1>1, CompleteTicketSane
<1>3. after \in Int
  BY <1>1, <1>2
<1> HIDE DEF after, total
<1>4. BookInv' /\ current_agent_credits(treasurer') = after
  BY <1>2, <1>3, CommitBooks
<1>5. QED
  BY <1>2, <1>4 DEF after, total, credits

\* An expense is booked iff the fleet exists.
LEMMA ReportExpenseBooks ==
    ASSUME BookInv, NEW f \in Fleets, NEW x \in Nat, Commit(report_expense(Call, f, x))
    PROVE  /\ BookInv'
           /\ current_agent_credits(treasurer')
                = IF f \in treasurer.fleets THEN current_agent_credits(treasurer) - x
                  ELSE current_agent_credits(treasurer)
<1> DEFINE credits == current_agent_credits(treasurer)
           after == IF f \in treasurer.fleets THEN credits - x ELSE credits
<1>1. /\ credits \in Int /\ treasurer.fund \in Int /\ Sane(Call, treasurer.fund, credits)
      /\ Call.ok /\ Call.t = treasurer /\ Call.t.fund <= treasurer.fund
  BY CallSane
<1> HIDE DEF credits
<1>2. Sane(report_expense(Call, f, x), treasurer.fund, after) /\ after \in Int
  BY <1>1, ReportExpenseSane
<1> HIDE DEF after
<1>3. BookInv' /\ current_agent_credits(treasurer') = after
  BY <1>2, CommitBooks
<1>4. QED
  BY <1>3 DEF after, credits

\* A reward is booked iff the fleet exists.
LEMMA ReportIncomeBooks ==
    ASSUME BookInv, NEW f \in Fleets, NEW x \in Nat, Commit(report_income(Call, f, x))
    PROVE  /\ BookInv'
           /\ current_agent_credits(treasurer')
                = IF f \in treasurer.fleets THEN current_agent_credits(treasurer) + x
                  ELSE current_agent_credits(treasurer)
<1> DEFINE credits == current_agent_credits(treasurer)
           after == IF f \in treasurer.fleets THEN credits + x ELSE credits
<1>1. /\ credits \in Int /\ treasurer.fund \in Int /\ Sane(Call, treasurer.fund, credits)
      /\ Call.ok /\ Call.t = treasurer /\ Call.t.fund <= treasurer.fund
  BY CallSane
<1> HIDE DEF credits
<1>2. Sane(report_income(Call, f, x), treasurer.fund, after) /\ after \in Int
  BY <1>1, ReportIncomeSane
<1> HIDE DEF after
<1>3. BookInv' /\ current_agent_credits(treasurer') = after
  BY <1>2, CommitBooks
<1>4. QED
  BY <1>3 DEF after, credits

\* TreasuryReset: after remove_all_fleets all credits are in the treasury.
LEMMA ResetTreasuryBooks ==
    ASSUME BookInv, agent_credits \in Nat, treasurer.fleets = {},
           Commit(Step(Call, [kind |-> "TreasuryReset", credits |-> agent_credits]))
    PROVE  BookInv' /\ current_agent_credits(treasurer') = agent_credits
<1> DEFINE e == [kind |-> "TreasuryReset", credits |-> agent_credits]
           c == Step(Call, e)
           t == Process(treasurer, e)
           a == Process(archived, e)
<1>1. e \in LedgerEntries /\ e.kind = "TreasuryReset" /\ e.credits = agent_credits
  BY DEF LedgerEntries
<1>0. Commit(c)
  OBVIOUS
<1> HIDE DEF e
<1>2. /\ treasurer \in Treasurers /\ archived \in Treasurers /\ replays \in BOOLEAN
      /\ Accepts(treasurer, e) /\ Accepts(archived, e)
  BY <1>1 DEF BookInv, Accepts
<1>3. /\ Call.ok = TRUE /\ Call.t = treasurer /\ Call.a = archived /\ Call.replays = replays
  BY DEF Call
<1>4. c = [ok |-> TRUE, t |-> t, a |-> IF replays THEN a ELSE archived, replays |-> replays]
  BY <1>2, <1>3 DEF Step
<1>5. /\ t \in Treasurers /\ t.fund = agent_credits /\ t.fleets = treasurer.fleets
      /\ t.current_capital = treasurer.current_capital
      /\ a \in Treasurers /\ a.fund = agent_credits /\ a.fleets = archived.fleets
      /\ a.current_capital = archived.current_capital
  BY <1>1, <1>2, ProcessType DEF Process, Treasurers
<1> HIDE DEF t, a, c
<1>6. treasurer' = t /\ archived' = (IF replays THEN a ELSE archived) /\ replays' = replays
  BY <1>0, <1>4 DEF Commit
<1>7. Tidy(t) /\ Tidy(a)
  BY <1>5 DEF BookInv, Tidy
<1>8. BookInv'
  BY <1>2, <1>5, <1>6, <1>7 DEF BookInv
<1>9. SumFunctionOnSet(t.current_capital, Fleets) = 0
  <2>1. t.current_capital \in [Fleets -> Int] /\ \A f \in Fleets : t.current_capital[f] = 0
    BY <1>5, Fields DEF BookInv, Tidy
  <2>2. QED
    BY <2>1, SumOfNothing
<1>10. QED
  BY <1>5, <1>6, <1>8, <1>9 DEF current_agent_credits

-----------------------------------------------------------------------------
(* The inductive invariant.                                                  *)

\* The start: all the agent's credits are in the treasury.
LEMMA InitInvariant ==
    ASSUME Init
    PROVE  IInv
<1>1. NoCredits \in [Fleets -> Int] /\ \A f \in Fleets : NoCredits[f] = 0
  BY DEF NoCredits
<1>2. StartingCredits \in Nat /\ InitialFleet \in [Ships -> Fleets]
  BY TreasurerAssumption DEF TreasurerAssumption
<1>3. /\ treasurer \in Treasurers /\ treasurer.fund = StartingCredits
      /\ treasurer.current_capital = NoCredits /\ archived = treasurer /\ replays = TRUE
  BY <1>1, <1>2 DEF Init, EmptyTreasurer, Treasurers
<1>4. Tidy(treasurer)
  BY <1>1, <1>3 DEF Tidy
<1>5. BookInv
  BY <1>2, <1>3, <1>4 DEF BookInv
<1>6. SumFunctionOnSet(NoCredits, Fleets) = 0
  BY <1>1, SumOfNothing
<1>7. ReconciledAtStart
  BY <1>2, <1>3, <1>6 DEF ReconciledAtStart, current_agent_credits, Init
<1>8. ShipInv
  BY <1>2 DEF Init, ShipInv
<1>9. AdmiralInv /\ ResetInv /\ phase \in Phases
  BY DEF Init, AdmiralInv, ResetInv, Phases
<1>10. RestInv
  BY DEF Init, RestInv
<1>11. QED
  BY <1>5, <1>7, <1>8, <1>9, <1>10 DEF IInv

\* A step that stays outside the start-up has only the books, the ships and
\* the admiral to keep.
LEMMA AtWork ==
    ASSUME phase' \in Phases \ {"down", "loaded", "resetting", "reset"}, BookInv', ShipInv', RestInv',
           admiral' \in {"idle", "rebalancing", "creating", "gone"}, todo' \in Seq(AdmiralCalls)
    PROVE  IInv'
BY DEF IInv, AdmiralInv, ResetInv, ReconciledAtStart

\* Steps of the admiral and of the start-up leave the ships alone.
LEMMA ShipsUnchanged ==
    ASSUME ShipInv, UNCHANGED ship_vars
    PROVE  /\ ShipInv'
           /\ RestInv /\ (phase = "running" => phase' = "running") => RestInv'
BY DEF ShipInv, RestInv, ship_vars

\* Crash, Replay, the reset and the deletion of broken tickets.
LEMMA StartUpInvariant ==
    ASSUME IInv, StartUp
    PROVE  IInv'
<1>1. /\ BookInv /\ ShipInv /\ AdmiralInv /\ RestInv /\ ResetInv
      /\ ReconciledAtStart /\ treasurer \in Treasurers /\ archived \in Treasurers
      /\ treasurer.fund \in Int /\ archived.fund \in Int
  BY Fields DEF IInv, BookInv
<1>2. CASE Crash
  <2>1. NoCredits \in [Fleets -> Int] /\ \A f \in Fleets : NoCredits[f] = 0
    BY DEF NoCredits
  <2>2. /\ EmptyTreasurer \in Treasurers /\ EmptyTreasurer.fund = 0
        /\ EmptyTreasurer.current_capital = NoCredits
    BY <2>1 DEF EmptyTreasurer, Treasurers
  <2>3. Tidy(EmptyTreasurer)
    BY <2>1, <2>2 DEF Tidy
  <2>4. BookInv'
    BY <1>1, <1>2, <2>2, <2>3 DEF BookInv, Crash
  <2>5. ShipInv' /\ RestInv'
    BY <1>1, <1>2 DEF ShipInv, RestInv, Crash
  <2>6. AdmiralInv' /\ ResetInv' /\ ReconciledAtStart' /\ phase' \in Phases
    BY <1>2 DEF Crash, AdmiralInv, ResetInv, ReconciledAtStart, Phases
  <2>7. QED
    BY <2>4, <2>5, <2>6 DEF IInv
<1>3. CASE Replay
  <2>1. BookInv'
    BY <1>1, <1>3 DEF BookInv, Replay
  <2>2. ShipInv' /\ RestInv'
    BY <1>1, <1>3, ShipsUnchanged DEF Replay, Phases
  <2>3. AdmiralInv' /\ ResetInv' /\ phase' \in Phases
    BY <1>1, <1>3 DEF Replay, AdmiralInv, ResetInv, Phases, admiral_vars
  <2>4. ReconciledAtStart'
    BY <1>3 DEF Replay, ReconciledAtStart, ship_vars
  <2>5. QED
    BY <2>1, <2>2, <2>3, <2>4 DEF IInv
<1>4. CASE ReplayPanics
  <2>1. BookInv'
    BY <1>1, <1>4 DEF BookInv, ReplayPanics, book_vars
  <2>2. ShipInv' /\ RestInv'
    BY <1>1, <1>4, ShipsUnchanged DEF ReplayPanics, Phases
  <2>3. phase' = "panicked" /\ UNCHANGED <<admiral, todo>>
    BY <1>4 DEF ReplayPanics, admiral_vars
  <2>4. QED
    BY <1>1, <2>1, <2>2, <2>3, AtWork DEF AdmiralInv, Phases
<1>5. CASE ResetRemovesFleets
  <2>1. BookInv' /\ treasurer'.fleets = {}
    BY <1>1, <1>5, RemoveAllFleetsBooks DEF ResetRemovesFleets
  <2>2. ShipInv' /\ RestInv'
    BY <1>1, <1>5, ShipsUnchanged DEF ResetRemovesFleets, Phases
  <2>3. AdmiralInv' /\ ResetInv' /\ ReconciledAtStart' /\ phase' \in Phases
    BY <1>1, <1>5, <2>1
       DEF ResetRemovesFleets, AdmiralInv, ResetInv, ReconciledAtStart, Phases, admiral_vars
  <2>4. QED
    BY <2>1, <2>2, <2>3 DEF IInv
<1>6. CASE ResetTreasury
  <2>1. BookInv' /\ current_agent_credits(treasurer') = agent_credits
    BY <1>1, <1>6, ResetTreasuryBooks DEF ResetTreasury, ResetInv, ShipInv
  <2>2. ShipInv' /\ RestInv' /\ agent_credits' = agent_credits
    BY <1>1, <1>6, ShipsUnchanged DEF ResetTreasury, ship_vars
  <2>3. AdmiralInv' /\ ResetInv' /\ phase' \in Phases
    BY <1>1, <1>6 DEF ResetTreasury, AdmiralInv, ResetInv, Phases, admiral_vars
  <2>4. ReconciledAtStart'
    BY <2>1, <2>2 DEF ReconciledAtStart
  <2>5. QED
    BY <2>1, <2>2, <2>3, <2>4 DEF IInv
<1>7. CASE RemoveBrokenTickets
  <2>1. BookInv'
    BY <1>7, RemoveBrokenTicketsKept DEF BooksKept
  <2>2. ShipInv' /\ RestInv'
    BY <1>1, <1>7, ShipsUnchanged DEF RemoveBrokenTickets, Phases
  <2>3. /\ phase' \in {"starting", "failed"} /\ todo' = todo
        /\ admiral' \in {"rebalancing", "idle"}
    BY <1>7 DEF RemoveBrokenTickets
  <2>4. QED
    BY <1>1, <2>1, <2>2, <2>3, AtWork DEF AdmiralInv, Phases
<1>8. QED
  BY <1>2, <1>3, <1>4, <1>5, <1>6, <1>7 DEF StartUp

\* The admiral's calls.
LEMMA AdmiralInvariant ==
    ASSUME IInv, Admiral
    PROVE  IInv'
<1> DEFINE Active == Phases \ {"down", "loaded", "resetting", "reset"}
<1>1. /\ BookInv /\ ShipInv /\ RestInv /\ AdmiralInv /\ phase \in Phases
      /\ admiral \in {"idle", "rebalancing", "creating", "gone"} /\ todo \in Seq(AdmiralCalls)
      /\ admiral # "idle" \/ todo # <<>> => phase \in Active
  BY DEF IInv, AdmiralInv
<1>2. AdmiralIsIdle => phase \in Active
  BY DEF AdmiralIsIdle, Phases
<1> HIDE DEF Active
<1>3. ASSUME BookInv', UNCHANGED ship_vars, phase \in Active, phase' = phase,
             admiral' \in {"idle", "rebalancing", "creating", "gone"}, todo' \in Seq(AdmiralCalls)
      PROVE  IInv'
  BY <1>1, <1>3, AtWork, ShipsUnchanged DEF Active
<1>4. CASE RemoveAllFleets
  <2>1. BookInv'
    BY <1>1, <1>4, RemoveAllFleetsBooks DEF RemoveAllFleets
  <2>2. QED
    BY <1>1, <1>3, <1>4, <2>1 DEF RemoveAllFleets
<1>5. CASE FinishRebalancing
  <2>1. BookInv' /\ ShipInv' /\ RestInv'
    BY <1>1, <1>5, ShipsUnchanged DEF FinishRebalancing, BookInv, book_vars
  <2>2. phase' = "running" /\ admiral' = "idle" /\ todo' = todo
    BY <1>5 DEF FinishRebalancing
  <2>3. QED
    BY <1>1, <2>1, <2>2, AtWork DEF Phases
<1>6. CASE NextAdmiralCall
  <2>1. BookInv' /\ todo' \in Seq(AdmiralCalls)
    BY <1>6, NextAdmiralCallKept DEF BooksKept
  <2>2. QED
    BY <1>1, <1>3, <1>6, <2>1 DEF NextAdmiralCall
<1>7. CASE \E f \in Fleets, budget \in Budgets, reserve \in Reserves :
              CreateFleet(f, budget, reserve) \/ AdjustFleetBudget(f, budget, reserve)
  <2>1. PICK f \in Fleets, budget \in Budgets, reserve \in Reserves :
              CreateFleet(f, budget, reserve) \/ AdjustFleetBudget(f, budget, reserve)
    BY <1>7
  <2>2. budget \in Int /\ reserve \in Int
    BY TreasurerAssumption DEF TreasurerAssumption
  <2>3. CASE CreateFleet(f, budget, reserve)
    <3>1. BookInv' /\ todo' \in Seq(AdmiralCalls)
      BY <2>2, <2>3, CreateFleetKept DEF BooksKept
    <3>2. QED
      BY <1>1, <1>3, <2>3, <3>1 DEF CreateFleet
  <2>4. CASE AdjustFleetBudget(f, budget, reserve)
    <3> DEFINE first == SetBudget(f, budget)
               second == SetReserve(f, reserve)
               third == TopUp(f)
    <3>1. first \in AdmiralCalls /\ second \in AdmiralCalls /\ third \in AdmiralCalls
      BY <2>2 DEF SetBudget, SetReserve, TopUp, AdmiralCalls
    <3>2. todo' = <<first, second, third>>
      BY <2>4 DEF AdjustFleetBudget
    <3> HIDE DEF first, second, third
    <3>3. todo' \in Seq(AdmiralCalls)
      BY <3>1, <3>2
    <3>4. BookInv'
      BY <1>1, <2>4 DEF AdjustFleetBudget, BookInv, book_vars
    <3>5. QED
      BY <1>1, <1>2, <1>3, <2>4, <3>3, <3>4 DEF AdjustFleetBudget
  <2>5. QED
    BY <2>1, <2>3, <2>4
<1>8. CASE \E f \in Fleets, budget \in Budgets : RaiseConstructionBudget(f, budget)
  <2>1. PICK f \in Fleets, budget \in Budgets : RaiseConstructionBudget(f, budget)
    BY <1>8
  <2>2. budget \in Int
    BY TreasurerAssumption DEF TreasurerAssumption
  <2> DEFINE first == SetBudget(f, budget)
             second == TopUp(f)
  <2>3. first \in AdmiralCalls /\ second \in AdmiralCalls
    BY <2>2 DEF SetBudget, TopUp, AdmiralCalls
  <2>4. todo' = <<first, second>>
    BY <2>1 DEF RaiseConstructionBudget
  <2> HIDE DEF first, second
  <2>5. todo' \in Seq(AdmiralCalls)
    BY <2>3, <2>4
  <2>6. BookInv'
    BY <1>1, <2>1 DEF RaiseConstructionBudget, BookInv, book_vars
  <2>7. QED
    BY <1>1, <1>2, <1>3, <2>1, <2>5, <2>6 DEF RaiseConstructionBudget
<1>9. CASE \E s \in Ships, home \in Fleets \ Spawning : DismantleFleet(s, home)
  <2>1. PICK s \in Ships, home \in Fleets \ Spawning : DismantleFleet(s, home)
    BY <1>9
  <2>2. my_fleet[s] \in Fleets
    BY <1>1 DEF ShipInv
  <2>3. BookInv'
    BY <1>1, <2>1, <2>2, DismantleFleetBooks DEF DismantleFleet
  <2>4. ShipInv' /\ RestInv'
    BY <1>1, <2>1 DEF DismantleFleet, ShipInv, RestInv, AdmiralIsIdle
  <2>5. phase' \in Active /\ admiral' \in {"rebalancing", "gone"} /\ todo' = todo
    BY <1>2, <2>1 DEF DismantleFleet
  <2>6. QED
    BY <1>1, <2>3, <2>4, <2>5, AtWork DEF Active
<1>10. CASE \E f \in Fleets, s \in Ships, id \in TicketIds, price \in Prices :
              CreateShipPurchaseTicket(f, s, id, price)
  <2>1. PICK f \in Fleets, s \in Ships, id \in TicketIds, price \in Prices :
              CreateShipPurchaseTicket(f, s, id, price)
    BY <1>10
  <2>2. price \in Nat \ {0}
    BY TreasurerAssumption DEF TreasurerAssumption
  <2>3. BookInv'
    BY <2>1, <2>2, CreateShipPurchaseTicketKept DEF BooksKept
  <2>4. QED
    BY <1>1, <1>2, <1>3, <2>1, <2>3 DEF CreateShipPurchaseTicket, admiral_vars
<1>11. CASE \E s \in Ships, id, next_id \in TicketIds, units \in Quantities, price \in Prices,
              delivery \in Deliveries, delivery_price \in Prices :
              CreateTradeTickets(s, id, next_id, units, price, delivery, delivery_price)
  <2>1. PICK s \in Ships, id \in TicketIds, next_id \in TicketIds, units \in Quantities,
             price \in Prices, delivery \in Deliveries, delivery_price \in Prices :
              CreateTradeTickets(s, id, next_id, units, price, delivery, delivery_price)
    BY <1>11
  <2>2. price \in Nat \ {0} /\ units \in Nat /\ delivery_price \in Nat
    BY TreasurerAssumption DEF TreasurerAssumption
  <2>3. BookInv' /\ todo' \in Seq(AdmiralCalls)
    BY <2>1, <2>2, CreateTradeTicketsKept DEF BooksKept
  <2>4. QED
    BY <1>1, <1>2, <1>3, <2>1, <2>3 DEF CreateTradeTickets
<1>12. QED
  BY <1>4, <1>5, <1>6, <1>7, <1>8, <1>9, <1>10, <1>11 DEF Admiral

-----------------------------------------------------------------------------
(* The ships.                                                                *)

\* What the server books for a ticket is what complete_ticket will book for the
\* answer that the ship remembers.
LEMMA ServerTotalType ==
    ASSUME NEW k \in FinanceTicket, NEW price \in Nat
    PROVE  /\ ServerTotal(k, price) \in Int
           /\ ServerTotal(k, PriceOf(k.kind, price)) = ServerTotal(k, price)
           /\ price * k.units * signum(k.kind) = ServerTotal(k, price)
<1>1. k.kind \in Kinds /\ k.units \in Nat /\ price * k.units \in Nat
  BY DEF FinanceTicket
<1> DEFINE gross == price * k.units
<1>2. CASE k.kind = "SellTradeGoods"
  <2>1. signum(k.kind) = 1 /\ PriceOf(k.kind, price) = price /\ ServerTotal(k, price) = gross
    BY <1>2 DEF signum, PriceOf, ServerTotal
  <2> HIDE DEF gross
  <2>2. gross * 1 = gross /\ gross \in Int
    BY <1>1 DEF gross
  <2>3. QED
    BY <2>1, <2>2 DEF gross
<1>3. CASE k.kind \in {"PurchaseTradeGoods", "PurchaseShip", "RefuelShip"}
  <2>1. signum(k.kind) = -1 /\ PriceOf(k.kind, price) = price /\ ServerTotal(k, price) = -gross
    BY <1>3 DEF signum, PriceOf, ServerTotal
  <2> HIDE DEF gross
  <2>2. gross * (-1) = -gross /\ -gross \in Int
    BY <1>1 DEF gross
  <2>3. QED
    BY <2>1, <2>2 DEF gross
<1>4. CASE k.kind \in {"SupplyConstructionSite", "DeliverContractCargo"}
  <2>1. signum(k.kind) = 0 /\ \A x : ServerTotal(k, x) = 0
    BY <1>4 DEF signum, ServerTotal
  <2> HIDE DEF gross
  <2>2. gross * 0 = 0
    BY <1>1 DEF gross
  <2>3. QED
    BY <2>1, <2>2 DEF gross
<1>5. QED
  BY <1>1, <1>2, <1>3, <1>4 DEF Kinds

\* The flows under way of all ships.
Flows == SumFunctionOnSet([s \in Ships |-> Unbooked(s)], Ships)

\* What a ship has yet to report is a number.
LEMMA UnbookedType ==
    ASSUME ShipInv, NEW s \in Ships
    PROVE  Unbooked(s) \in Int
<1>1. doing[s] \in {"idle", "ticket", "fuel", "reward"} /\ response[s] \in Nat
  BY DEF ShipInv
<1>2. doing[s] = "ticket" => ServerTotal(doing_ticket[s], response[s]) \in Int
  BY <1>1, ServerTotalType DEF ShipInv
<1>3. QED
  BY <1>1, <1>2 DEF Unbooked

\* The flows of all ships are a number.
LEMMA FlowsType ==
    ASSUME ShipInv
    PROVE  Flows \in Int
<1>1. [s \in Ships |-> Unbooked(s)] \in [Ships -> Int] /\ IsFiniteSet(Ships)
  BY UnbookedType, FiniteAssumption DEF FiniteAssumption
<1>2. QED
  BY <1>1, SumType DEF Flows, Sum

\* A step of one ship changes the flows by that ship's.
LEMMA FlowsChange ==
    ASSUME ShipInv, ShipInv', NEW s \in Ships, NEW before \in Int, NEW after \in Int,
           Unbooked(s) = before, Unbooked(s)' = after,
           \A x \in Ships \ {s} : /\ doing'[x] = doing[x] /\ response'[x] = response[x]
                                  /\ doing_ticket'[x] = doing_ticket[x]
    PROVE  Flows' = Flows - before + after
<1> DEFINE f == [x \in Ships |-> Unbooked(x)]
           h == [x \in Ships |-> Unbooked(x)']
<1>1. IsFiniteSet(Ships)
  BY FiniteAssumption DEF FiniteAssumption
<1>2. f \in [Ships -> Int]
  BY UnbookedType
<1>3. h \in [Ships -> Int]
  <2>1. \A x \in Ships : Unbooked(x)' \in Int
    <3>1. ASSUME NEW x \in Ships PROVE Unbooked(x)' \in Int
      <4>1. doing'[x] \in {"idle", "ticket", "fuel", "reward"} /\ response'[x] \in Nat
        BY DEF ShipInv
      <4>2. doing'[x] = "ticket" => ServerTotal(doing_ticket'[x], response'[x]) \in Int
        BY <4>1, ServerTotalType DEF ShipInv
      <4>3. QED
        BY <4>1, <4>2 DEF Unbooked
    <3>2. QED
      BY <3>1
  <2>2. QED
    BY <2>1
<1>4. \A x \in Ships \ {s} : h[x] = f[x]
  <2>1. ASSUME NEW x \in Ships \ {s} PROVE Unbooked(x)' = Unbooked(x)
    <3>1. /\ doing'[x] = doing[x] /\ response'[x] = response[x]
          /\ doing_ticket'[x] = doing_ticket[x]
      OBVIOUS
    <3>2. doing[x] \in {"idle", "ticket", "fuel", "reward"}
      BY DEF ShipInv
    <3>3. CASE doing[x] = "ticket"
      BY <3>1, <3>3 DEF Unbooked
    <3>4. CASE doing[x] = "fuel"
      BY <3>1, <3>4 DEF Unbooked
    <3>5. CASE doing[x] = "reward"
      BY <3>1, <3>5 DEF Unbooked
    <3>6. CASE doing[x] = "idle"
      BY <3>1, <3>6 DEF Unbooked
    <3>7. QED
      BY <3>2, <3>3, <3>4, <3>5, <3>6
  <2>2. QED
    BY <2>1
<1>5. f[s] = before /\ h[s] = after
  OBVIOUS
<1>6. Flows = Sum(f, Ships) /\ Flows' = Sum(h, Ships)
  BY DEF Flows, Sum
<1> HIDE DEF f, h
<1>7. Sum(h, Ships) = Sum(f, Ships) - f[s] + h[s]
  BY <1>1, <1>2, <1>3, <1>4, SumChange
<1>8. QED
  BY <1>5, <1>6, <1>7

\* The flows change only with the ships.
LEMMA FlowsUnchanged ==
    ASSUME ShipInv, UNCHANGED ship_vars
    PROVE  Flows' = Flows /\ agent_credits' = agent_credits
<1>1. agent_credits' = agent_credits /\ doing' = doing /\ doing_ticket' = doing_ticket
      /\ response' = response
  BY DEF ship_vars
<1>2. QED
  BY <1>1 DEF Flows, Unbooked

\* Imbalance in terms of the flows.
LEMMA ImbalanceIs ==
    /\ Imbalance = current_agent_credits(treasurer) + Flows - agent_credits
    /\ Imbalance' = current_agent_credits(treasurer') + Flows' - agent_credits'
BY DEF Imbalance, Flows

\* A call that keeps the credits, while the ships do nothing, keeps the balance.
LEMMA KeptBalance ==
    ASSUME ShipInv, UNCHANGED ship_vars,
           current_agent_credits(treasurer') = current_agent_credits(treasurer)
    PROVE  Imbalance' = Imbalance
BY FlowsUnchanged, ImbalanceIs

\* A server call moves the agent's credits and starts a flow of as much.
LEMMA ServerCallInvariant ==
    ASSUME IInv, NEW s \in Ships, NEW amount \in Int, ServerMoves(s, amount),
           NEW activity \in {"ticket", "fuel", "reward"},
           NEW ticket \in FinanceTicket \cup {NoTicket},
           activity = "ticket" => ticket \in FinanceTicket, NEW answer \in Nat,
           Responded(s, activity, ticket, answer),
           amount = CASE activity = "ticket" -> ServerTotal(ticket, answer)
                      [] activity = "fuel" -> -answer
                      [] activity = "reward" -> answer
    PROVE  IInv' /\ Imbalance' = Imbalance
<1>1. /\ BookInv /\ ShipInv /\ admiral \in {"idle", "rebalancing", "creating", "gone"}
      /\ todo \in Seq(AdmiralCalls)
  BY DEF IInv, AdmiralInv
<1>2. /\ phase = "running" /\ phase' = phase /\ doing[s] = "idle"
      /\ agent_credits' = agent_credits + amount /\ agent_credits + amount >= 0
      /\ UNCHANGED <<treasurer, archived, replays, my_fleet, admiral, todo>>
  BY DEF ServerMoves, book_vars, admiral_vars
<1>3. /\ doing' = [doing EXCEPT ![s] = activity]
      /\ doing_ticket' = [doing_ticket EXCEPT ![s] = ticket]
      /\ response' = [response EXCEPT ![s] = answer]
  BY DEF Responded
<1>4. ShipInv'
  BY <1>1, <1>2, <1>3 DEF ShipInv
<1>5. BookInv'
  BY <1>1, <1>2 DEF BookInv
<1>6. IInv'
  BY <1>1, <1>2, <1>4, <1>5, AtWork DEF Phases, RestInv
<1>7. Unbooked(s) = 0
  BY <1>2 DEF Unbooked
<1>8. Unbooked(s)' = amount
  <2>1. doing'[s] = activity /\ doing_ticket'[s] = ticket /\ response'[s] = answer
    BY <1>1, <1>3 DEF ShipInv
  <2>2. CASE activity = "ticket"
    BY <2>1, <2>2 DEF Unbooked
  <2>3. CASE activity = "fuel"
    BY <2>1, <2>3 DEF Unbooked
  <2>4. CASE activity = "reward"
    BY <2>1, <2>4 DEF Unbooked
  <2>5. QED
    BY <2>2, <2>3, <2>4
<1>9. \A x \in Ships \ {s} : /\ doing'[x] = doing[x] /\ response'[x] = response[x]
                            /\ doing_ticket'[x] = doing_ticket[x]
  BY <1>1, <1>3 DEF ShipInv
<1>10. Flows' = Flows - 0 + amount
  BY <1>1, <1>4, <1>7, <1>8, <1>9, FlowsChange
<1>11. Flows \in Int /\ current_agent_credits(treasurer) \in Int /\ agent_credits \in Int
  BY <1>1, FlowsType, CallSane DEF ShipInv
<1>12. Imbalance' = Imbalance
  BY <1>2, <1>10, <1>11, ImbalanceIs
<1>13. QED
  BY <1>6, <1>12

\* A report ends a flow, and books as much unless the fleet is gone.
LEMMA ReportInvariant ==
    ASSUME IInv, NEW s \in Ships, doing[s] # "idle", Reported(s), BookInv', NEW amount \in Int, Unbooked(s) = amount,
           current_agent_credits(treasurer')
             = IF ReportsTo(s) \in treasurer.fleets
               THEN current_agent_credits(treasurer) + amount
               ELSE current_agent_credits(treasurer)
    PROVE  IInv' /\ (Imbalance' = Imbalance \/ FlowLost)
<1>1. /\ BookInv /\ ShipInv /\ admiral \in {"idle", "rebalancing", "creating", "gone"}
      /\ todo \in Seq(AdmiralCalls) /\ phase = "running"
  BY DEF IInv, AdmiralInv, RestInv
<1>2. /\ phase' = phase /\ agent_credits' = agent_credits
      /\ UNCHANGED <<my_fleet, admiral, todo>>
  BY DEF Reported, admiral_vars
<1>3. /\ doing' = [doing EXCEPT ![s] = "idle"]
      /\ doing_ticket' = [doing_ticket EXCEPT ![s] = NoTicket]
      /\ response' = [response EXCEPT ![s] = 0]
  BY DEF Reported, Responded
<1>4. ShipInv'
  BY <1>1, <1>2, <1>3 DEF ShipInv
<1>5. IInv'
  BY <1>1, <1>2, <1>4, AtWork DEF Phases, RestInv
<1>6. doing'[s] = "idle" /\ Unbooked(s)' = 0
  BY <1>1, <1>3 DEF ShipInv, Unbooked
<1>7. \A x \in Ships \ {s} : /\ doing'[x] = doing[x] /\ response'[x] = response[x]
                            /\ doing_ticket'[x] = doing_ticket[x]
  BY <1>1, <1>3 DEF ShipInv
<1>8. Flows' = Flows - amount + 0
  BY <1>1, <1>4, <1>6, <1>7, FlowsChange
<1>9. Flows \in Int /\ current_agent_credits(treasurer) \in Int /\ agent_credits \in Int
  BY <1>1, FlowsType, CallSane DEF ShipInv
<1>10. CASE ReportsTo(s) \in treasurer.fleets
  BY <1>2, <1>5, <1>8, <1>9, <1>10, ImbalanceIs
<1>11. CASE ReportsTo(s) \notin treasurer.fleets
  BY <1>5, <1>6, <1>11 DEF FlowLost
<1>12. QED
  BY <1>10, <1>11

\* Every action of a ship keeps the invariant and, unless a report finds its
\* fleet removed, the balance.
LEMMA ShipActionsInvariant ==
    ASSUME IInv, NEW s \in Ships, ShipActions(s)
    PROVE  IInv' /\ (Imbalance' = Imbalance \/ FlowLost)
<1>1. /\ BookInv /\ ShipInv /\ RestInv /\ admiral \in {"idle", "rebalancing", "creating", "gone"}
      /\ todo \in Seq(AdmiralCalls)
      /\ my_fleet[s] \in Fleets /\ response[s] \in Nat
  BY DEF IInv, AdmiralInv, ShipInv
<1>2. ASSUME BooksKept, UNCHANGED ship_vars, UNCHANGED admiral_vars,
             phase = "running", phase' = phase
      PROVE  IInv' /\ Imbalance' = Imbalance
  <2>1. ShipInv' /\ RestInv' /\ BookInv'
    BY <1>1, <1>2, ShipsUnchanged DEF BooksKept
  <2>2. IInv'
    BY <1>1, <1>2, <2>1, AtWork DEF Phases, admiral_vars
  <2>3. QED
    BY <1>1, <1>2, <2>2, KeptBalance DEF BooksKept
<1>3. CASE \E id \in TicketIds, units \in Quantities, kind \in Deliveries, price \in Prices :
              CreateDeliveryTicket(s, id, units, kind, price)
  <2>1. PICK id \in TicketIds, units \in Quantities, kind \in Deliveries, price \in Prices :
              CreateDeliveryTicket(s, id, units, kind, price)
    BY <1>3
  <2>2. units \in Nat /\ price \in Nat
    BY TreasurerAssumption DEF TreasurerAssumption
  <2>3. BooksKept
    BY <2>1, <2>2, CreateDeliveryTicketKept
  <2>4. QED
    BY <1>2, <2>1, <2>3 DEF CreateDeliveryTicket
<1>4. CASE \E id, next_id \in TicketIds, kinds \in ContractKinds, units \in Quantities, price \in Prices :
              CreateContractTickets(s, id, next_id, kinds, units, price)
  <2>1. PICK id \in TicketIds, next_id \in TicketIds, kinds \in ContractKinds, units \in Quantities,
             price \in Prices : CreateContractTickets(s, id, next_id, kinds, units, price)
    BY <1>4
  <2>2. units \in Nat /\ price \in Nat
    BY TreasurerAssumption DEF TreasurerAssumption
  <2>3. BooksKept
    BY <2>1, <2>2, CreateContractTicketsKept
  <2>4. QED
    BY <1>2, <2>1, <2>3 DEF CreateContractTickets
<1>5. CASE \E price \in Prices : PerformTradeAction(s, price)
  <2>1. PICK price \in Prices : PerformTradeAction(s, price)
    BY <1>5
  <2>2. PICK k \in treasurer.active :
              /\ ServerMoves(s, ServerTotal(k, price))
              /\ Responded(s, "ticket", k, PriceOf(k.kind, price))
    BY <2>1 DEF PerformTradeAction
  <2>3. k \in FinanceTicket /\ price \in Nat
    BY <1>1, Fields, TreasurerAssumption DEF BookInv, TreasurerAssumption
  <2>4. k.kind \in Kinds /\ PriceOf(k.kind, price) \in Nat
    BY <2>3, PriceOfType DEF FinanceTicket
  <2> DEFINE amount == ServerTotal(k, price)
  <2>5. amount \in Int /\ amount = ServerTotal(k, PriceOf(k.kind, price))
    BY <2>3, ServerTotalType
  <2> HIDE DEF amount
  <2>6. ServerMoves(s, amount)
    BY <2>2 DEF amount
  <2>7. QED
    BY <2>2, <2>3, <2>4, <2>5, <2>6, ServerCallInvariant
<1>6. CASE \E cost \in FuelCosts : Refuel(s, cost)
  <2>1. PICK cost \in FuelCosts : Refuel(s, cost)
    BY <1>6
  <2>2. cost \in Nat /\ -cost \in Int
    BY TreasurerAssumption DEF TreasurerAssumption
  <2>3. QED
    BY <2>1, <2>2, ServerCallInvariant DEF Refuel
<1>7. CASE \E reward \in Rewards : ReceiveReward(s, reward)
  <2>1. PICK reward \in Rewards : ReceiveReward(s, reward)
    BY <1>7
  <2>2. reward \in Nat /\ reward \in Int
    BY TreasurerAssumption DEF TreasurerAssumption
  <2>3. QED
    BY <2>1, <2>2, ServerCallInvariant DEF ReceiveReward
<1>8. CASE CompleteTicket(s)
  <2> DEFINE k == doing_ticket[s]
             amount == ServerTotal(k, response[s])
  <2>1. /\ doing[s] = "ticket" /\ k \in FinanceTicket /\ Reported(s)
        /\ Commit(complete_ticket(Call, k, response[s]))
    BY <1>1, <1>8 DEF CompleteTicket, ShipInv
  <2>2. amount \in Int /\ response[s] * k.units * signum(k.kind) = amount
    BY <1>1, <2>1, ServerTotalType
  <2>3. Unbooked(s) = amount /\ ReportsTo(s) = k.fleet
    BY <2>1 DEF Unbooked, ReportsTo
  <2> HIDE DEF amount, k
  <2>4. /\ BookInv'
        /\ current_agent_credits(treasurer')
             = IF k.fleet \in treasurer.fleets
               THEN current_agent_credits(treasurer) + amount
               ELSE current_agent_credits(treasurer)
    BY <1>1, <2>1, <2>2, CompleteTicketBooks
  <2>5. QED
    BY <2>1, <2>2, <2>3, <2>4, ReportInvariant
<1>9. CASE ReportExpense(s)
  <2> DEFINE amount == -response[s]
  <2>1. /\ doing[s] = "fuel" /\ Reported(s)
        /\ Commit(report_expense(Call, my_fleet[s], response[s]))
    BY <1>9 DEF ReportExpense
  <2>2. /\ amount \in Int /\ Unbooked(s) = amount /\ ReportsTo(s) = my_fleet[s]
        /\ current_agent_credits(treasurer) \in Int
    BY <1>1, <2>1, CallSane DEF Unbooked, ReportsTo
  <2>3. current_agent_credits(treasurer) - response[s]
          = current_agent_credits(treasurer) + amount
    BY <1>1, <2>2
  <2> HIDE DEF amount
  <2>4. /\ BookInv'
        /\ current_agent_credits(treasurer')
             = IF my_fleet[s] \in treasurer.fleets
               THEN current_agent_credits(treasurer) + amount
               ELSE current_agent_credits(treasurer)
    BY <1>1, <2>1, <2>3, ReportExpenseBooks
  <2>5. QED
    BY <2>1, <2>2, <2>4, ReportInvariant
<1>10. CASE ReportIncome(s)
  <2> DEFINE amount == response[s]
  <2>1. /\ doing[s] = "reward" /\ Reported(s)
        /\ Commit(report_income(Call, my_fleet[s], response[s]))
    BY <1>10 DEF ReportIncome
  <2>2. amount \in Int /\ Unbooked(s) = amount /\ ReportsTo(s) = my_fleet[s]
    BY <1>1, <2>1 DEF Unbooked, ReportsTo
  <2>3. /\ BookInv'
        /\ current_agent_credits(treasurer')
             = IF my_fleet[s] \in treasurer.fleets
               THEN current_agent_credits(treasurer) + amount
               ELSE current_agent_credits(treasurer)
    BY <1>1, <2>1, ReportIncomeBooks
  <2> HIDE DEF amount
  <2>4. QED
    BY <2>1, <2>2, <2>3, ReportInvariant
<1>11. QED
  BY <1>3, <1>4, <1>5, <1>6, <1>7, <1>8, <1>9, <1>10 DEF ShipActions

\* Every call of the admiral keeps the balance, or removes a fleet in debt.
LEMMA AdmiralBalance ==
    ASSUME IInv, Admiral
    PROVE  Imbalance' = Imbalance \/ DebtVoided
<1>1. BookInv /\ ShipInv
  BY DEF IInv
<1>2. ASSUME BooksKept, UNCHANGED ship_vars
      PROVE  Imbalance' = Imbalance
  BY <1>1, <1>2, KeptBalance DEF BooksKept
<1>3. ASSUME UNCHANGED book_vars, UNCHANGED ship_vars
      PROVE  Imbalance' = Imbalance
  BY <1>1, <1>3, KeptBalance DEF book_vars
<1>4. CASE RemoveAllFleets
  <2>1. /\ treasurer'.fleets = {}
        /\ \/ \E f \in treasurer.fleets : treasurer.current_capital[f] < 0
           \/ current_agent_credits(treasurer') = current_agent_credits(treasurer)
    BY <1>1, <1>4, RemoveAllFleetsBooks DEF RemoveAllFleets
  <2>2. UNCHANGED ship_vars
    BY <1>4 DEF RemoveAllFleets
  <2>3. QED
    BY <1>1, <2>1, <2>2, KeptBalance DEF DebtVoided
<1>5. CASE FinishRebalancing
  BY <1>3, <1>5 DEF FinishRebalancing
<1>6. CASE NextAdmiralCall
  BY <1>2, <1>6, NextAdmiralCallKept DEF NextAdmiralCall
<1>7. CASE \E f \in Fleets, budget \in Budgets, reserve \in Reserves :
              CreateFleet(f, budget, reserve) \/ AdjustFleetBudget(f, budget, reserve)
  <2>1. PICK f \in Fleets, budget \in Budgets, reserve \in Reserves :
              CreateFleet(f, budget, reserve) \/ AdjustFleetBudget(f, budget, reserve)
    BY <1>7
  <2>2. budget \in Int /\ reserve \in Int
    BY TreasurerAssumption DEF TreasurerAssumption
  <2>3. CASE CreateFleet(f, budget, reserve)
    BY <1>2, <2>2, <2>3, CreateFleetKept DEF CreateFleet
  <2>4. CASE AdjustFleetBudget(f, budget, reserve)
    BY <1>3, <2>4 DEF AdjustFleetBudget
  <2>5. QED
    BY <2>1, <2>3, <2>4
<1>8. CASE \E f \in Fleets, budget \in Budgets : RaiseConstructionBudget(f, budget)
  BY <1>3, <1>8 DEF RaiseConstructionBudget
<1>9. CASE \E s \in Ships, home \in Fleets \ Spawning : DismantleFleet(s, home)
  <2>1. PICK s \in Ships, home \in Fleets \ Spawning : DismantleFleet(s, home)
    BY <1>9
  <2> DEFINE f == my_fleet[s]
  <2>2. f \in Fleets /\ Commit(remove_fleet(Call, f))
    BY <1>1, <2>1 DEF DismantleFleet, ShipInv
  <2> HIDE DEF f
  <2>3. CASE f \in treasurer.fleets /\ treasurer.current_capital[f] < 0
    BY <1>1, <2>2, <2>3, RemoveFleetRemoves DEF DebtVoided
  <2>4. CASE current_agent_credits(treasurer') = current_agent_credits(treasurer)
    <3>1. /\ agent_credits' = agent_credits /\ doing' = doing
          /\ doing_ticket' = doing_ticket /\ response' = response
      BY <2>1 DEF DismantleFleet
    <3>2. Flows' = Flows
      BY <3>1 DEF Flows, Unbooked
    <3>3. QED
      BY <2>4, <3>1, <3>2, ImbalanceIs
  <2>5. QED
    BY <1>1, <2>2, <2>3, <2>4, DismantleFleetBooks
<1>10. CASE \E f \in Fleets, s \in Ships, id \in TicketIds, price \in Prices :
              CreateShipPurchaseTicket(f, s, id, price)
  <2>1. PICK f \in Fleets, s \in Ships, id \in TicketIds, price \in Prices :
              CreateShipPurchaseTicket(f, s, id, price)
    BY <1>10
  <2>2. price \in Nat \ {0}
    BY TreasurerAssumption DEF TreasurerAssumption
  <2>3. QED
    BY <1>2, <2>1, <2>2, CreateShipPurchaseTicketKept DEF CreateShipPurchaseTicket
<1>11. CASE \E s \in Ships, id, next_id \in TicketIds, units \in Quantities, price \in Prices,
              delivery \in Deliveries, delivery_price \in Prices :
              CreateTradeTickets(s, id, next_id, units, price, delivery, delivery_price)
  <2>1. PICK s \in Ships, id \in TicketIds, next_id \in TicketIds, units \in Quantities,
             price \in Prices, delivery \in Deliveries, delivery_price \in Prices :
              CreateTradeTickets(s, id, next_id, units, price, delivery, delivery_price)
    BY <1>11
  <2>2. price \in Nat \ {0} /\ units \in Nat /\ delivery_price \in Nat
    BY TreasurerAssumption DEF TreasurerAssumption
  <2>3. QED
    BY <1>2, <2>1, <2>2, CreateTradeTicketsKept DEF CreateTradeTickets
<1>12. QED
  BY <1>4, <1>5, <1>6, <1>7, <1>8, <1>9, <1>10, <1>11 DEF Admiral

-----------------------------------------------------------------------------
(* The theorems.                                                             *)

\* A step that changes nothing keeps the invariant.
LEMMA StutterInvariant ==
    ASSUME IInv, UNCHANGED vars
    PROVE  IInv'
BY DEF vars, IInv, BookInv, ShipInv, AdmiralInv, RestInv, ResetInv, ReconciledAtStart

\* The inductive invariant: it adds to the theorems below that the archive never
\* has less in the treasury than memory, that no capital belongs to a fleet that
\* does not exist, and what the start-up has done so far.
THEOREM Invariance == Spec => []IInv
<1>1. Init => IInv
  BY InitInvariant
<1>2. IInv /\ [Next]_vars => IInv'
  BY StartUpInvariant, AdmiralInvariant, ShipActionsInvariant, StutterInvariant DEF Next
<1>3. QED
  BY <1>1, <1>2, PTL DEF Spec

\* The treasurer, the archive, the ships and the admiral keep their types.
THEOREM TypeCorrect == Spec => []TypeOK
<1>1. IInv => TypeOK
  BY DEF IInv, BookInv, ShipInv, AdmiralInv, TypeOK
<1>2. QED
  BY <1>1, Invariance, PTL

\* The treasury is never overdrawn: not by reimbursements, top-ups and ship
\* purchases, and not after a restart from an archive without the entries of
\* the calls that failed half way.
THEOREM NeverOverdrawn == Spec => []TreasuryNeverOverdrawn
<1>1. IInv => TreasuryNeverOverdrawn
  BY DEF IInv, BookInv, TreasuryNeverOverdrawn
<1>2. QED
  BY <1>1, Invariance, PTL

\* The treasurer has the agent's credits when the admiral starts, whatever the
\* crash before that left unreported.
THEOREM Reconciled == Spec => []ReconciledAtStart
<1>1. IInv => ReconciledAtStart
  BY DEF IInv
<1>2. QED
  BY <1>1, Invariance, PTL

\* While the agent runs, no call creates or loses a credit, except by removing a
\* fleet in debt, or one to which a ship has yet to report.
THEOREM Balanced == Spec => BooksBalance
<1>1. IInv /\ [Next]_vars
        => [phase = "running" /\ phase' = "running"
            => Imbalance' = Imbalance \/ DebtVoided \/ FlowLost]_vars
  <2>1. ASSUME IInv, Next, phase = "running", phase' = "running"
        PROVE  Imbalance' = Imbalance \/ DebtVoided \/ FlowLost
    <3>1. CASE StartUp
      BY <2>1, <3>1 DEF StartUp, Crash, Replay, ReplayPanics, ResetRemovesFleets,
                        ResetTreasury, RemoveBrokenTickets
    <3>2. CASE Admiral
      BY <2>1, <3>2, AdmiralBalance
    <3>3. CASE \E s \in Ships : ShipActions(s)
      BY <2>1, <3>3, ShipActionsInvariant
    <3>4. QED
      BY <2>1, <3>1, <3>2, <3>3 DEF Next
  <2>2. QED
    BY <2>1
<1>2. QED
  BY <1>1, Invariance, PTL DEF Spec, BooksBalance

-----------------------------------------------------------------------------
(* The tickets of the ships, of the admiral and of the fleets.                 *)

\* a TicketId is the key of the HashMap of active tickets
OneTicketPerId(tickets) == \A k, l \in tickets : k.id = l.id => k = l

Kept(tickets) == IsFiniteSet(tickets) /\ OneTicketPerId(tickets)

\* A ticket in flight is active, and flown by the ship it is assigned to; the
\* ticket that the admiral has yet to create is not active, and nothing follows it.
TicketInv ==
    /\ Kept(treasurer.active) /\ Kept(archived.active)
    /\ \A s \in Ships : doing[s] = "ticket" =>
            doing_ticket[s] \in treasurer.active /\ doing_ticket[s].ship = s
    /\ \A i \in DOMAIN todo : todo[i].op = "create_ticket" =>
            /\ Len(todo) = 1
            /\ \A k \in treasurer.active : k.id # todo[i].ticket.id

-----------------------------------------------------------------------------
(* The allocations of the active tickets of a fleet.                         *)

LEMMA ReservedIs ==
    ASSUME NEW t, NEW f, NEW S \in SUBSET FinanceTicket, IsFiniteSet(S), t.active \subseteq S
    PROVE  /\ ReservedForTickets(t, f)
                = Sum([k \in S |-> Released(k)], {k \in t.active : k.fleet = f})
           /\ ReservedForTickets(t, f) \in Int
<1> DEFINE T == {k \in t.active : k.fleet = f}
           all == [k \in S |-> Released(k)]
           some == [k \in T |-> Released(k)]
<1>1. \A k \in S : Released(k) \in Int BY DEF Released, FinanceTicket
<1>2. T \in SUBSET S OBVIOUS
<1>3. ReservedForTickets(t, f) = Sum(some, T) BY DEF ReservedForTickets, Sum
<1> HIDE DEF T
<1>4. all \in [S -> Int] /\ some \in [T -> Int] /\ \A k \in T : some[k] = all[k]
  BY <1>1, <1>2
<1> HIDE DEF all, some
<1>5. Sum(some, T) = Sum(all, T) BY ONLY <1>2, <1>4, IsFiniteSet(S), SumRestrict
<1>6. Sum(all, T) \in Int BY ONLY <1>2, <1>4, IsFiniteSet(S), SumType
<1> QED BY <1>3, <1>5, <1>6 DEF all, T

\* One more ticket adds what it has allocated to the sum of its fleet.
LEMMA ReservedPlus ==
    ASSUME NEW t, NEW u, t.active \in SUBSET FinanceTicket, IsFiniteSet(t.active),
           NEW k \in FinanceTicket \ t.active, u.active = t.active \cup {k}
    PROVE  \A f : /\ ReservedForTickets(t, f) \in Int
                  /\ ReservedForTickets(u, f)
                       = ReservedForTickets(t, f) + IF k.fleet = f THEN Released(k) ELSE 0
<1> TAKE f
<1> DEFINE S == t.active \cup {k}
           all == [x \in S |-> Released(x)]
           T == {x \in t.active : x.fleet = f}
           U == {x \in u.active : x.fleet = f}
<1>1. IsFiniteSet(S) BY FS_AddElement
<1>2. S \in SUBSET FinanceTicket /\ t.active \subseteq S /\ u.active \subseteq S OBVIOUS
<1>3. ReservedForTickets(t, f) = Sum(all, T) /\ ReservedForTickets(t, f) \in Int
  BY ONLY <1>1, <1>2, ReservedIs
<1>4. ReservedForTickets(u, f) = Sum(all, U)
  BY ONLY <1>1, <1>2, ReservedIs
<1>5. Released(k) \in Int BY DEF Released, FinanceTicket
<1>6. CASE k.fleet = f
  <2>1. U \in SUBSET S /\ k \in U /\ U \ {k} = T BY <1>6
  <2>2. all \in [S -> Int] /\ all[k] = Released(k) BY <1>2 DEF Released, FinanceTicket
  <2> HIDE DEF U, T, S, all
  <2>3. Sum(all, U) = all[k] + Sum(all, U \ {k}) BY ONLY <1>1, <2>1, <2>2, SumSplit
  <2>4. ReservedForTickets(u, f) = Released(k) + ReservedForTickets(t, f)
    BY ONLY <1>3, <1>4, <2>1, <2>2, <2>3
  <2> QED BY <1>3, <1>5, <1>6, <2>4
<1>7. CASE k.fleet # f
  <2>1. U = T BY <1>7
  <2> HIDE DEF U, T, S, all
  <2>2. ReservedForTickets(u, f) = ReservedForTickets(t, f) BY <1>3, <1>4, <2>1
  <2> QED BY <1>3, <1>7, <2>2
<1> QED BY <1>6, <1>7

-----------------------------------------------------------------------------
(* One ledger entry.                                                         *)

\* the reservations that no active ticket accounts for
Unticketed(t, f) == t.reserved_capital[f] - ReservedForTickets(t, f)

\* A call that has touched no active tickets but those with these ids, and no
\* reservation but for them.
Follows(c, ids) ==
    /\ c \in Calls
    /\ Kept(c.t.active) /\ Kept(c.a.active)
    /\ \A k \in FinanceTicket : k.id \notin ids => (k \in c.t.active <=> k \in treasurer.active)
    /\ \A f \in c.t.fleets \cap treasurer.fleets : Unticketed(c.t, f) = Unticketed(treasurer, f)

\* The result of an entry is a call again.
LEMMA StepType ==
    ASSUME NEW c \in Calls, NEW e \in LedgerEntries
    PROVE  /\ Step(c, e) \in Calls /\ Fail(c) \in Calls
           /\ Fail(c).t = c.t /\ Fail(c).a = c.a
           /\ Step(c, e).t = IF c.ok /\ Accepts(c.t, e) THEN Process(c.t, e) ELSE c.t
           /\ Step(c, e).a \in {c.a, Process(c.a, e)}
           /\ Step(c, e).ok <=> c.ok /\ Accepts(c.t, e)
<1>1. c.t \in Treasurers /\ c.a \in Treasurers /\ c.ok \in BOOLEAN /\ c.replays \in BOOLEAN
  BY DEF Calls
<1>2. Process(c.t, e) \in Treasurers /\ Process(c.a, e) \in Treasurers BY <1>1, ProcessType
<1>3. Fail(c) \in Calls /\ Fail(c).t = c.t /\ Fail(c).a = c.a /\ Fail(c).ok = FALSE
  BY DEF Calls, Fail
<1>4. CASE ~c.ok \/ ~Accepts(c.t, e)
  <2>1. Step(c, e) = Fail(c) BY <1>4 DEF Step
  <2> QED BY <1>3, <1>4, <2>1
<1>5. CASE c.ok /\ Accepts(c.t, e)
  <2> DEFINE a == IF c.replays /\ Accepts(c.a, e) THEN Process(c.a, e) ELSE c.a
             replays_after == c.replays /\ Accepts(c.a, e)
  <2>1. Step(c, e) = [ok |-> TRUE, t |-> Process(c.t, e), a |-> a, replays |-> replays_after]
    BY <1>5 DEF Step
  <2>2. a \in {c.a, Process(c.a, e)} /\ a \in Treasurers /\ replays_after \in BOOLEAN BY <1>1, <1>2
  <2> HIDE DEF a, replays_after
  <2> QED BY <1>2, <1>3, <1>5, <2>1, <2>2 DEF Calls
<1> QED BY <1>4, <1>5

Quiet == {"FundsFromTreasuryToFleet", "FundsFromFleetToTreasury", "SetNewTotalCapital",
          "SetNewOperatingReserve", "ExpenseLogged", "IncomeLogged"}

\* A transfer, an expense or a new budget is not about tickets.
LEMMA QuietEntry ==
    ASSUME NEW t \in Treasurers, NEW e, e.kind \in Quiet
    PROVE  /\ Process(t, e).active = t.active
           /\ Process(t, e).fleets = t.fleets
           /\ Process(t, e).reserved_capital = t.reserved_capital
<1>1. CASE e.kind = "FundsFromTreasuryToFleet" BY <1>1 DEF Process, Treasurers
<1>2. CASE e.kind = "FundsFromFleetToTreasury" BY <1>2 DEF Process, Treasurers
<1>3. CASE e.kind = "SetNewTotalCapital" BY <1>3 DEF Process, Treasurers
<1>4. CASE e.kind = "SetNewOperatingReserve" BY <1>4 DEF Process, Treasurers
<1>5. CASE e.kind = "ExpenseLogged" BY <1>5 DEF Process, Treasurers
<1>6. CASE e.kind = "IncomeLogged" BY <1>6 DEF Process, Treasurers
<1> QED BY <1>1, <1>2, <1>3, <1>4, <1>5, <1>6 DEF Quiet

\* A fleet that comes or goes takes no ticket with it.
LEMMA FleetEntry ==
    ASSUME NEW t \in Treasurers, NEW e, e.kind \in {"FleetCreated", "ArchivedFleetBudget"}
    PROVE  /\ Process(t, e).active = t.active
           /\ Process(t, e).fleets \ {e.fleet} = t.fleets \ {e.fleet}
           /\ e.kind = "ArchivedFleetBudget" => e.fleet \notin Process(t, e).fleets
           /\ \A f \in Fleets \ {e.fleet} :
                Process(t, e).reserved_capital[f] = t.reserved_capital[f]
<1>1. CASE e.kind = "FleetCreated"
  <2>1. /\ Process(t, e).active = t.active
        /\ Process(t, e).fleets = t.fleets \cup {e.fleet}
        /\ Process(t, e).reserved_capital = Put(t.reserved_capital, e.fleet, 0)
    BY <1>1 DEF Process, Treasurers
  <2>2. t.reserved_capital \in [Fleets -> Int] BY Fields
  <2> QED BY <1>1, <2>1, <2>2 DEF Put
<1>2. CASE e.kind = "ArchivedFleetBudget"
  <2>1. /\ Process(t, e).active = t.active
        /\ Process(t, e).fleets = t.fleets \ {e.fleet}
        /\ Process(t, e).reserved_capital = Put(t.reserved_capital, e.fleet, 0)
    BY <1>2 DEF Process, Treasurers
  <2>2. t.reserved_capital \in [Fleets -> Int] BY Fields
  <2> QED BY <1>2, <2>1, <2>2 DEF Put
<1> QED BY <1>1, <1>2

\* An entry that is about no ticket.
LEMMA OtherFollows ==
    ASSUME NEW c, NEW ids, Follows(c, ids), NEW e \in LedgerEntries,
           \/ e.kind \in Quiet \cup {"ArchivedFleetBudget"}
           \/ e.kind = "FleetCreated" /\ e.fleet \notin treasurer.fleets
    PROVE  Follows(Step(c, e), ids)
<1>1. /\ c \in Calls /\ c.t \in Treasurers /\ c.a \in Treasurers
      /\ Kept(c.t.active) /\ Kept(c.a.active)
      /\ \A k \in FinanceTicket : k.id \notin ids => (k \in c.t.active <=> k \in treasurer.active)
      /\ \A f \in c.t.fleets \cap treasurer.fleets : Unticketed(c.t, f) = Unticketed(treasurer, f)
  BY DEF Follows, Calls
<1> DEFINE d == Step(c, e)
<1>2. /\ d \in Calls /\ d.t \in {c.t, Process(c.t, e)} /\ d.a \in {c.a, Process(c.a, e)}
  BY <1>1, StepType
<1>3. Process(c.t, e).active = c.t.active /\ Process(c.a, e).active = c.a.active
  BY <1>1, QuietEntry, FleetEntry
<1>4. \A f \in Process(c.t, e).fleets \cap treasurer.fleets :
        f \in c.t.fleets /\ Process(c.t, e).reserved_capital[f] = c.t.reserved_capital[f]
  <2>1. CASE e.kind \in Quiet BY <1>1, <2>1, QuietEntry
  <2>2. CASE e.kind = "ArchivedFleetBudget" BY <1>1, <2>2, FleetEntry, Fields
  <2>3. CASE e.kind = "FleetCreated" /\ e.fleet \notin treasurer.fleets
    BY <1>1, <2>3, FleetEntry, Fields
  <2> QED BY <2>1, <2>2, <2>3
<1> HIDE DEF d
<1>5. \A f \in d.t.fleets \cap treasurer.fleets :
        f \in c.t.fleets /\ Unticketed(d.t, f) = Unticketed(c.t, f)
  BY <1>2, <1>3, <1>4 DEF Unticketed, ReservedForTickets
<1>6. Follows(d, ids) BY <1>1, <1>2, <1>3, <1>5 DEF Follows
<1> QED BY <1>6 DEF d

\* An early return with Err.
LEMMA FailFollows ==
    ASSUME NEW c, NEW ids, Follows(c, ids)
    PROVE  Follows(Fail(c), ids)
<1>1. c \in Calls BY DEF Follows
<1>2. Fail(c) \in Calls /\ Fail(c).t = c.t /\ Fail(c).a = c.a BY <1>1 DEF Calls, Fail
<1> QED BY <1>2 DEF Follows

\* Taking a ticket out of the map, or putting one in.
LEMMA KeptWithout ==
    ASSUME NEW tickets, Kept(tickets), NEW id
    PROVE  /\ Kept(Without(tickets, id))
           /\ \A k : k.id = id => Kept(Without(tickets, id) \cup {k})
<1>1. Without(tickets, id) \subseteq tickets BY DEF Without
<1>2. IsFiniteSet(Without(tickets, id)) BY <1>1, FS_Subset DEF Kept
<1>3. OneTicketPerId(Without(tickets, id)) BY <1>1 DEF Kept, OneTicketPerId
<1>4. ASSUME NEW k, k.id = id PROVE Kept(Without(tickets, id) \cup {k})
  <2>1. IsFiniteSet(Without(tickets, id) \cup {k}) BY <1>2, FS_AddElement
  <2>2. OneTicketPerId(Without(tickets, id) \cup {k})
    BY <1>3, <1>4 DEF OneTicketPerId, Without
  <2> QED BY <2>1, <2>2 DEF Kept
<1> QED BY <1>2, <1>3, <1>4 DEF Kept

\* A fresh ticket and its reservation.
LEMMA CreatedFollows ==
    ASSUME NEW c, NEW ids, Follows(c, ids), NEW k \in FinanceTicket, k.allocated >= 0,
           k.id \notin ids, \A x \in treasurer.active : x.id # k.id
    PROVE  Follows(Step(c, TicketEntry("TicketCreated", k)), ids \cup {k.id})
<1> DEFINE e == TicketEntry("TicketCreated", k)
           d == Step(c, e)
           u == Process(c.t, e)
<1>1. /\ c \in Calls /\ c.t \in Treasurers /\ c.a \in Treasurers
      /\ Kept(c.t.active) /\ Kept(c.a.active)
      /\ \A x \in FinanceTicket : x.id \notin ids => (x \in c.t.active <=> x \in treasurer.active)
      /\ \A f \in c.t.fleets \cap treasurer.fleets : Unticketed(c.t, f) = Unticketed(treasurer, f)
  BY DEF Follows, Calls
<1>2. /\ e \in LedgerEntries /\ e.kind = "TicketCreated" /\ e.fleet = k.fleet /\ e.ticket = k
      /\ k.fleet \in Fleets /\ k.allocated \in Int
  BY DEF TicketEntry, LedgerEntries, FinanceTicket
<1> HIDE DEF e
<1>3. /\ d \in Calls /\ d.t \in {c.t, u} /\ d.a \in {c.a, Process(c.a, e)}
  BY <1>1, <1>2, StepType
<1>4. /\ u.active = Without(c.t.active, k.id) \cup {k}
      /\ u.fleets = c.t.fleets
      /\ u.reserved_capital = Plus(c.t.reserved_capital, k.fleet, k.allocated)
      /\ Process(c.a, e).active = Without(c.a.active, k.id) \cup {k}
  BY <1>1, <1>2 DEF Process, Treasurers
<1> HIDE DEF d, u
<1>5. c.t.active \in SUBSET FinanceTicket /\ c.t.reserved_capital \in [Fleets -> Int]
      /\ c.t.fleets \in SUBSET Fleets
  BY <1>1, Fields
<1>6. \A x \in c.t.active : x.id # k.id BY <1>1, <1>5
<1>7. u.active = c.t.active \cup {k} /\ k \notin c.t.active
  BY <1>4, <1>6 DEF Without
<1>8. Kept(u.active) /\ Kept(Process(c.a, e).active) BY <1>1, <1>4, KeptWithout
<1>9. \A x \in FinanceTicket : x.id \notin ids \cup {k.id} =>
          (x \in u.active <=> x \in treasurer.active)
  BY <1>1, <1>7
<1>10. \A f \in c.t.fleets : Unticketed(u, f) = Unticketed(c.t, f)
  <2> TAKE f \in c.t.fleets
  <2>1. /\ ReservedForTickets(c.t, f) \in Int
        /\ ReservedForTickets(u, f)
             = ReservedForTickets(c.t, f) + IF k.fleet = f THEN Released(k) ELSE 0
    <3>1. IsFiniteSet(c.t.active) BY <1>1 DEF Kept
    <3> QED BY <1>5, <1>7, <3>1, ReservedPlus
  <2>2. Released(k) = k.allocated BY <1>2 DEF Released
  <2>3. f \in Fleets /\ c.t.reserved_capital[f] \in Int BY <1>5
  <2>4. CASE k.fleet = f
    <3>1. u.reserved_capital[f] = c.t.reserved_capital[f] + k.allocated
      BY <1>4, <1>5, <2>3, <2>4 DEF Plus
    <3> QED BY <1>2, <2>1, <2>2, <2>3, <2>4, <3>1 DEF Unticketed
  <2>5. CASE k.fleet # f
    <3>1. u.reserved_capital[f] = c.t.reserved_capital[f]
      BY <1>4, <1>5, <2>3, <2>5 DEF Plus
    <3> QED BY <2>1, <2>3, <2>5, <3>1 DEF Unticketed
  <2> QED BY <2>4, <2>5
<1>11. /\ Kept(d.t.active) /\ Kept(d.a.active)
       /\ \A x \in FinanceTicket : x.id \notin ids \cup {k.id} =>
             (x \in d.t.active <=> x \in treasurer.active)
  BY <1>1, <1>3, <1>8, <1>9
<1>12. \A f \in d.t.fleets \cap treasurer.fleets : Unticketed(d.t, f) = Unticketed(treasurer, f)
  BY <1>1, <1>3, <1>4, <1>10
<1>13. Follows(d, ids \cup {k.id}) BY <1>3, <1>11, <1>12 DEF Follows
<1> QED BY <1>13 DEF d, e

\* A ticket that leaves the active ones releases its reservation.
LEMMA CompletedFollows ==
    ASSUME NEW c, Follows(c, {}), NEW k \in FinanceTicket, k \in treasurer.active, NEW x \in Int
    PROVE  Follows(Step(c, [kind |-> "TicketCompleted", fleet |-> k.fleet, ticket |-> k,
                            credits |-> x]), {k.id})
<1> DEFINE e == [kind |-> "TicketCompleted", fleet |-> k.fleet, ticket |-> k, credits |-> x]
           d == Step(c, e)
           u == Process(c.t, e)
<1>1. /\ c \in Calls /\ c.t \in Treasurers /\ c.a \in Treasurers
      /\ Kept(c.t.active) /\ Kept(c.a.active)
      /\ \A y \in FinanceTicket : y \in c.t.active <=> y \in treasurer.active
      /\ \A f \in c.t.fleets \cap treasurer.fleets : Unticketed(c.t, f) = Unticketed(treasurer, f)
  BY DEF Follows, Calls
<1>2. /\ e \in LedgerEntries /\ e.kind = "TicketCompleted" /\ e.fleet = k.fleet /\ e.ticket = k
      /\ k.fleet \in Fleets /\ Released(k) \in Int
  BY DEF LedgerEntries, FinanceTicket, Released
<1> HIDE DEF e
<1>3. /\ d \in Calls /\ d.t \in {c.t, u} /\ d.a \in {c.a, Process(c.a, e)}
  BY <1>1, <1>2, StepType
<1>4. /\ u.active = Without(c.t.active, k.id)
      /\ u.fleets = c.t.fleets
      /\ u.reserved_capital = Plus(c.t.reserved_capital, k.fleet, -Released(k))
      /\ Process(c.a, e).active = Without(c.a.active, k.id)
  BY <1>1, <1>2 DEF Process, Treasurers
<1> HIDE DEF d, u
<1>5. c.t.active \in SUBSET FinanceTicket /\ c.t.reserved_capital \in [Fleets -> Int]
      /\ c.t.fleets \in SUBSET Fleets
  BY <1>1, Fields
<1>6. k \in c.t.active /\ \A y \in c.t.active : y.id = k.id => y = k
  BY <1>1 DEF Kept, OneTicketPerId
<1>7. c.t.active = u.active \cup {k} /\ k \notin u.active /\ u.active \in SUBSET FinanceTicket
  BY <1>4, <1>5, <1>6 DEF Without
<1>8. Kept(u.active) /\ Kept(Process(c.a, e).active) BY <1>1, <1>4, KeptWithout
<1>9. \A y \in FinanceTicket : y.id \notin {k.id} => (y \in u.active <=> y \in treasurer.active)
  BY <1>1, <1>7
<1>10. \A f \in c.t.fleets : Unticketed(u, f) = Unticketed(c.t, f)
  <2> TAKE f \in c.t.fleets
  <2>1. /\ ReservedForTickets(u, f) \in Int
        /\ ReservedForTickets(c.t, f)
             = ReservedForTickets(u, f) + IF k.fleet = f THEN Released(k) ELSE 0
    <3>1. IsFiniteSet(u.active) BY <1>8 DEF Kept
    <3> QED BY <1>7, <3>1, ReservedPlus
  <2>3. f \in Fleets /\ c.t.reserved_capital[f] \in Int BY <1>5
  <2>4. CASE k.fleet = f
    <3>1. u.reserved_capital[f] = c.t.reserved_capital[f] - Released(k)
      BY <1>2, <1>4, <1>5, <2>3, <2>4 DEF Plus
    <3> QED BY <1>2, <2>1, <2>3, <2>4, <3>1 DEF Unticketed
  <2>5. CASE k.fleet # f
    <3>1. u.reserved_capital[f] = c.t.reserved_capital[f]
      BY <1>4, <1>5, <2>3, <2>5 DEF Plus
    <3> QED BY <2>1, <2>3, <2>5, <3>1 DEF Unticketed
  <2> QED BY <2>4, <2>5
<1>11. /\ Kept(d.t.active) /\ Kept(d.a.active)
       /\ \A y \in FinanceTicket : y.id \notin {k.id} => (y \in d.t.active <=> y \in treasurer.active)
  BY <1>1, <1>3, <1>8, <1>9
<1>12. \A f \in d.t.fleets \cap treasurer.fleets : Unticketed(d.t, f) = Unticketed(treasurer, f)
  BY <1>1, <1>3, <1>4, <1>10
<1>13. Follows(d, {k.id}) BY <1>3, <1>11, <1>12 DEF Follows
<1> QED BY <1>13 DEF d, e

-----------------------------------------------------------------------------
(* The operations of the treasurer.                                          *)

\* Transfers, new budgets and reserves, expenses and income.
LEMMA EntryFollows ==
    ASSUME NEW c, NEW ids, Follows(c, ids), NEW f \in Fleets, NEW x \in Int
    PROVE  /\ \A kind \in Quiet : Follows(Step(c, Entry(kind, f, x)), ids)
           /\ f \notin treasurer.fleets => Follows(Step(c, Entry("FleetCreated", f, x)), ids)
<1>1. \A kind \in Quiet \cup {"FleetCreated"} :
        /\ Entry(kind, f, x) \in LedgerEntries
        /\ Entry(kind, f, x).kind = kind /\ Entry(kind, f, x).fleet = f
  BY DEF LedgerEntries, Entry, Quiet
<1>2. ASSUME NEW kind \in Quiet PROVE Follows(Step(c, Entry(kind, f, x)), ids)
  <2>1. Entry(kind, f, x) \in LedgerEntries /\ Entry(kind, f, x).kind \in Quiet BY <1>1
  <2> QED BY <2>1, OtherFollows
<1>3. ASSUME f \notin treasurer.fleets PROVE Follows(Step(c, Entry("FleetCreated", f, x)), ids)
  <2> DEFINE e == Entry("FleetCreated", f, x)
  <2>1. e \in LedgerEntries /\ e.kind = "FleetCreated" /\ e.fleet = f BY <1>1
  <2> HIDE DEF e
  <2>2. Follows(Step(c, e), ids) BY <1>3, <2>1, OtherFollows
  <2> QED BY <2>2 DEF e
<1> QED BY <1>2, <1>3

\* The amounts of a call's fleets.
LEMMA FollowsFields ==
    ASSUME NEW c, NEW ids, Follows(c, ids)
    PROVE  /\ c \in Calls /\ c.t.fund \in Int /\ c.t.fleets \in SUBSET Fleets
           /\ \A f \in Fleets : /\ c.t.current_capital[f] \in Int
                                /\ c.t.reserved_capital[f] \in Int
                                /\ c.t.budget[f] \in Int
<1>1. c \in Calls /\ c.t \in Treasurers BY DEF Follows, Calls
<1> QED BY <1>1, Fields

LEMMA ReimburseFollows ==
    ASSUME NEW c, NEW ids, Follows(c, ids), NEW f \in Fleets, NEW x \in Int
    PROVE  Follows(reimburse_expense(c, f, x), ids)
<1>1. "FundsFromTreasuryToFleet" \in Quiet BY DEF Quiet
<1>2. Follows(Step(c, Entry("FundsFromTreasuryToFleet", f, x)), ids) BY <1>1, EntryFollows
<1>3. Follows(Fail(c), ids) BY FailFollows
<1> QED BY <1>2, <1>3 DEF reimburse_expense

LEMMA TopUpFollows ==
    ASSUME NEW c, NEW ids, Follows(c, ids), NEW f \in Fleets
    PROVE  Follows(transfer_funds_to_fleet_to_top_up_available_capital(c, f), ids)
<1> DEFINE x == MinOf(c.t.fund, c.t.budget[f] - c.t.current_capital[f])
<1>1. "FundsFromTreasuryToFleet" \in Quiet BY DEF Quiet
<1>2. x \in Int BY FollowsFields DEF MinOf
<1> HIDE DEF x
<1>3. Follows(Step(c, Entry("FundsFromTreasuryToFleet", f, x)), ids)
  BY <1>1, <1>2, EntryFollows
<1>4. Follows(Fail(c), ids) BY FailFollows
<1> QED BY <1>3, <1>4 DEF transfer_funds_to_fleet_to_top_up_available_capital, x

LEMMA TransferExcessFollows ==
    ASSUME NEW c, NEW ids, Follows(c, ids), NEW f \in Fleets
    PROVE  Follows(transfer_excess_funds_from_fleet_to_treasury_if_necessary(c, f), ids)
<1> DEFINE x == c.t.current_capital[f] - c.t.budget[f] - c.t.reserved_capital[f]
<1>1. "FundsFromFleetToTreasury" \in Quiet BY DEF Quiet
<1>2. x \in Int BY FollowsFields
<1> HIDE DEF x
<1>3. Follows(Step(c, Entry("FundsFromFleetToTreasury", f, x)), ids)
  BY <1>1, <1>2, EntryFollows
<1>4. Follows(Fail(c), ids) BY FailFollows
<1> QED BY <1>3, <1>4 DEF transfer_excess_funds_from_fleet_to_treasury_if_necessary, x

LEMMA SetBudgetFollows ==
    ASSUME NEW c, NEW ids, Follows(c, ids), NEW f \in Fleets, NEW x \in Int
    PROVE  Follows(set_fleet_total_capital(c, f, x), ids)
<1> DEFINE d == Step(c, Entry("SetNewTotalCapital", f, x))
<1>1. "SetNewTotalCapital" \in Quiet BY DEF Quiet
<1>2. Follows(d, ids) BY <1>1, EntryFollows
<1> HIDE DEF d
<1>3. Follows(transfer_excess_funds_from_fleet_to_treasury_if_necessary(d, f), ids)
  BY <1>2, TransferExcessFollows
<1>4. Follows(Fail(c), ids) BY FailFollows
<1> QED BY <1>3, <1>4 DEF set_fleet_total_capital, d

LEMMA SetReserveFollows ==
    ASSUME NEW c, NEW ids, Follows(c, ids), NEW f \in Fleets, NEW x \in Int
    PROVE  Follows(set_new_operating_reserve(c, f, x), ids)
<1>1. "SetNewOperatingReserve" \in Quiet BY DEF Quiet
<1> QED BY <1>1, EntryFollows DEF set_new_operating_reserve

LEMMA ReportExpenseFollows ==
    ASSUME NEW c, NEW ids, Follows(c, ids), NEW f \in Fleets, NEW x \in Int
    PROVE  Follows(report_expense(c, f, x), ids)
<1> DEFINE paid == IF c.t.fund >= x THEN reimburse_expense(c, f, x) ELSE c
<1>1. "ExpenseLogged" \in Quiet BY DEF Quiet
<1>2. Follows(paid, ids) BY ReimburseFollows
<1> HIDE DEF paid
<1>3. Follows(Step(paid, Entry("ExpenseLogged", f, x)), ids) BY <1>1, <1>2, EntryFollows
<1> QED BY <1>3 DEF report_expense, paid

LEMMA ReportIncomeFollows ==
    ASSUME NEW c, NEW ids, Follows(c, ids), NEW f \in Fleets, NEW x \in Int
    PROVE  Follows(report_income(c, f, x), ids)
<1>1. "IncomeLogged" \in Quiet BY DEF Quiet
<1> QED BY <1>1, EntryFollows DEF report_income

LEMMA RemoveFleetFollows ==
    ASSUME NEW c, NEW ids, Follows(c, ids), NEW f \in Fleets
    PROVE  Follows(remove_fleet(c, f), ids)
<1> DEFINE moved == transfer_all_funds_from_fleet_to_treasury(c, f)
           x == c.t.current_capital[f]
           e == [kind |-> "ArchivedFleetBudget", fleet |-> f]
<1>1. "FundsFromFleetToTreasury" \in Quiet BY DEF Quiet
<1>2. x \in Int BY FollowsFields
<1>3. e \in LedgerEntries /\ e.kind = "ArchivedFleetBudget" BY DEF LedgerEntries
<1>4. Follows(Fail(c), ids) BY FailFollows
<1> HIDE DEF x
<1>5. Follows(Step(c, Entry("FundsFromFleetToTreasury", f, x)), ids)
  BY <1>1, <1>2, EntryFollows
<1>6. Follows(moved, ids)
  BY <1>4, <1>5 DEF transfer_all_funds_from_fleet_to_treasury, x
<1> HIDE DEF moved, e
<1>7. Follows(Step(moved, e), ids) BY <1>3, <1>6, OtherFollows
<1> QED BY <1>7 DEF remove_fleet, moved, e

\* Removing all fleets leaves their tickets.
LEMMA RemoveAllFleetsFollows ==
    ASSUME NEW c, NEW ids, Follows(c, ids), c.ok
    PROVE  Follows(remove_all_fleets(c), ids)
<1> DEFINE swept == SumFunctionOnSet(Surplus(c.t), Fleets)
           accepted == /\ c.replays
                       /\ c.t.fleets \subseteq c.a.fleets
                       /\ \A f \in c.t.fleets : Surplus(c.t)[f] <= Surplus(c.a)[f]
           t == Disband(c.t, c.t.fleets, swept)
           b == Disband(c.a, c.t.fleets, swept)
           a == IF accepted THEN b ELSE c.a
           result == remove_all_fleets(c)
<1>1. /\ c \in Calls /\ c.t \in Treasurers /\ c.a \in Treasurers /\ accepted \in BOOLEAN
      /\ Kept(c.t.active) /\ Kept(c.a.active)
      /\ \A k \in FinanceTicket : k.id \notin ids => (k \in c.t.active <=> k \in treasurer.active)
  BY DEF Follows, Calls
<1>2. result = [ok |-> TRUE, t |-> t, a |-> a, replays |-> accepted]
  BY DEF remove_all_fleets
<1>3. swept \in Int
  <2>1. \A f \in Fleets : Surplus(c.t)[f] \in Int BY <1>1, Fields DEF Surplus
  <2>2. Surplus(c.t) \in [Fleets -> Int] BY <2>1 DEF Surplus
  <2> HIDE DEF swept
  <2>3. Sum(Surplus(c.t), Fleets) \in Int
    BY <2>2, SumType, FiniteAssumption DEF FiniteAssumption
  <2> QED BY <2>3 DEF swept, Sum
<1> HIDE DEF swept, result, accepted
<1>4. t \in Treasurers /\ b \in Treasurers /\ t.fleets = {}
  <2>1. t \in Treasurers /\ t.fleets = c.t.fleets \ c.t.fleets BY <1>1, <1>3, DisbandType
  <2>2. b \in Treasurers BY <1>1, <1>3, DisbandType
  <2> QED BY <2>1, <2>2
<1>5. t.active = c.t.active /\ b.active = c.a.active
  BY <1>1 DEF Disband, Treasurers
<1> HIDE DEF t, b
<1>6. a \in Treasurers /\ a.active = c.a.active BY <1>1, <1>4, <1>5
<1> HIDE DEF a
<1>7. result \in Calls /\ result.t = t /\ result.a = a BY <1>1, <1>2, <1>4, <1>6 DEF Calls
<1>8. Follows(result, ids) BY <1>1, <1>4, <1>5, <1>6, <1>7 DEF Follows
<1> QED BY <1>8 DEF result

\* no active ticket has this id
Unused(id) == \A x \in treasurer.active : x.id # id

LEMMA CreatePurchaseFollows ==
    ASSUME NEW c, Follows(c, {}), NEW k \in FinanceTicket, k.price > 0, Unused(k.id)
    PROVE  Follows(create_purchase_trade_goods_ticket(c, k), {k.id})
<1> DEFINE ticket == PurchaseTicket(c, k)
<1>1. c \in Calls /\ k.price \in Nat /\ k.units \in Nat BY DEF Follows, FinanceTicket
<1>2. ticket \in FinanceTicket /\ ticket.units \in Nat BY <1>1, PurchaseTicketType
<1>3. ticket.id = k.id /\ ticket.allocated = k.price * ticket.units
  BY DEF PurchaseTicket, FinanceTicket
<1> HIDE DEF ticket
<1>4. ticket.allocated >= 0
  <2> DEFINE x == k.price
             y == ticket.units
  <2>1. x \in Nat /\ y \in Nat BY <1>1, <1>2
  <2> HIDE DEF x, y
  <2>2. x * y >= 0 BY <2>1
  <2> QED BY <1>3, <2>2 DEF x, y
<1>5. Follows(Step(c, TicketEntry("TicketCreated", ticket)), {} \cup {ticket.id})
  BY <1>2, <1>3, <1>4, CreatedFollows DEF Unused
<1>6. {} \cup {ticket.id} = {k.id} BY <1>3
<1> QED BY <1>5, <1>6 DEF create_purchase_trade_goods_ticket, ticket

LEMMA CreateSellOrDeliveryFollows ==
    ASSUME NEW c, Follows(c, {}), NEW k \in FinanceTicket, Unused(k.id)
    PROVE  Follows(create_sell_or_delivery_ticket(c, k), {k.id})
<1> DEFINE ticket == [k EXCEPT !.allocated = 0]
<1>1. ticket \in FinanceTicket /\ ticket.id = k.id /\ ticket.allocated = 0 BY DEF FinanceTicket
<1> HIDE DEF ticket
<1>2. Follows(Step(c, TicketEntry("TicketCreated", ticket)), {} \cup {ticket.id})
  BY <1>1, CreatedFollows DEF Unused
<1>3. {} \cup {ticket.id} = {k.id} BY <1>1
<1> QED BY <1>2, <1>3 DEF create_sell_or_delivery_ticket, ticket

\* A ticket for which all of its price is set aside.
LEMMA FullyAllocatedType ==
    ASSUME NEW k \in FinanceTicket, k.price >= 0
    PROVE  /\ FullyAllocated(k) \in FinanceTicket /\ FullyAllocated(k).id = k.id
           /\ FullyAllocated(k).allocated >= 0
<1> DEFINE x == k.price
           y == k.units
<1>1. x \in Nat /\ y \in Nat BY DEF FinanceTicket
<1> HIDE DEF x, y
<1>2. x * y >= 0 /\ x * y \in Int BY <1>1
<1>3. FullyAllocated(k) = [k EXCEPT !.allocated = x * y] BY DEF FullyAllocated, x, y
<1> DEFINE z == x * y
<1>4. z \in Int /\ z >= 0 /\ FullyAllocated(k) = [k EXCEPT !.allocated = z] BY <1>2, <1>3
<1> HIDE DEF z
<1> QED BY <1>4 DEF FinanceTicket

LEMMA CreateMultipleFollows ==
    ASSUME NEW c, Follows(c, {}), NEW k1 \in FinanceTicket, NEW k2 \in FinanceTicket,
           k1.price >= 0, k2.price >= 0, Unused(k1.id), Unused(k2.id), k1.id # k2.id
    PROVE  Follows(create_multiple_tickets(c, k1, k2), {k1.id, k2.id})
<1> DEFINE first == FullyAllocated(k1)
           second == FullyAllocated(k2)
           d == Step(c, TicketEntry("TicketCreated", first))
<1>1. /\ first \in FinanceTicket /\ first.id = k1.id /\ first.allocated >= 0
      /\ second \in FinanceTicket /\ second.id = k2.id /\ second.allocated >= 0
  BY FullyAllocatedType
<1> HIDE DEF first, second
<1>2. Follows(d, {} \cup {first.id}) BY <1>1, CreatedFollows DEF Unused
<1>3. {} \cup {first.id} = {k1.id} /\ {k1.id} \cup {second.id} = {k1.id, k2.id} BY <1>1
<1>4. Follows(d, {k1.id}) BY <1>2, <1>3
<1> HIDE DEF d
<1>5. second.id \notin {k1.id} BY <1>1
<1>6. Follows(Step(d, TicketEntry("TicketCreated", second)), {k1.id} \cup {second.id})
  BY <1>1, <1>4, <1>5, CreatedFollows DEF Unused
<1>7. Follows(Fail(c), {}) BY FailFollows
<1>8. Follows(Fail(c), {k1.id, k2.id}) BY <1>7 DEF Follows
<1> QED BY <1>3, <1>6, <1>8 DEF create_multiple_tickets, d, first, second

LEMMA CreateShipPurchaseFollows ==
    ASSUME NEW c, Follows(c, {}), NEW k \in FinanceTicket, k.price >= 0, Unused(k.id)
    PROVE  Follows(create_ship_purchase_ticket(c, k), {k.id})
<1> DEFINE ticket == [k EXCEPT !.allocated = k.price]
           financed == try_finance_purchase_for_fleet(c, k.fleet, k.price)
<1>1. "FundsFromTreasuryToFleet" \in Quiet /\ k.fleet \in Fleets /\ k.price \in Int
  BY DEF Quiet, FinanceTicket
<1>2. Follows(Fail(c), {}) BY FailFollows
<1>3. Follows(Step(c, Entry("FundsFromTreasuryToFleet", k.fleet, k.price)), {})
  BY <1>1, EntryFollows
<1>4. Follows(financed, {}) BY <1>2, <1>3 DEF try_finance_purchase_for_fleet
<1>5. ticket \in FinanceTicket /\ ticket.id = k.id /\ ticket.allocated >= 0
  BY DEF FinanceTicket
<1> HIDE DEF ticket, financed
<1>6. Follows(Step(financed, TicketEntry("TicketCreated", ticket)), {} \cup {ticket.id})
  BY <1>4, <1>5, CreatedFollows DEF Unused
<1>7. {} \cup {ticket.id} = {k.id} BY <1>5
<1> QED BY <1>6, <1>7 DEF create_ship_purchase_ticket, ticket, financed

LEMMA CompleteTicketFollows ==
    ASSUME NEW c, Follows(c, {}), NEW k \in FinanceTicket, k \in treasurer.active,
           NEW price \in Nat
    PROVE  Follows(complete_ticket(c, k, price), {k.id})
<1> DEFINE total == ActualTotal(k, price)
           e == [kind |-> "TicketCompleted", fleet |-> k.fleet, ticket |-> k, credits |-> total]
           done == Step(c, e)
<1>1. /\ k.fleet \in Fleets /\ k.units \in Nat /\ k.allocated \in Int
      /\ signum(k.kind) \in {-1, 0, 1}
  BY DEF FinanceTicket, Kinds, signum
<1>2. total \in Int
  <2> DEFINE gross == price * k.units
             sign == signum(k.kind)
  <2>1. gross \in Int /\ sign \in {-1, 0, 1} BY <1>1
  <2> HIDE DEF gross, sign
  <2>2. gross * sign \in Int BY <2>1
  <2> QED BY <2>2 DEF gross, sign, ActualTotal
<1> HIDE DEF total
<1>3. Follows(done, {k.id}) BY <1>2, CompletedFollows
<1>4. complete_ticket(c, k, price)
        = IF ~done.ok THEN done
          ELSE IF signum(k.kind) < 0 /\ k.allocated < Abs(total)
               THEN reimburse_expense(done, k.fleet, Abs(total) - k.allocated)
               ELSE transfer_excess_funds_from_fleet_to_treasury_if_necessary(done, k.fleet)
  BY DEF complete_ticket, total
<1> HIDE DEF done
<1>5. Abs(total) - k.allocated \in Int BY <1>1, <1>2 DEF Abs
<1>6. Follows(reimburse_expense(done, k.fleet, Abs(total) - k.allocated), {k.id})
  BY <1>1, <1>3, <1>5, ReimburseFollows
<1>7. Follows(transfer_excess_funds_from_fleet_to_treasury_if_necessary(done, k.fleet), {k.id})
  BY <1>1, <1>3, TransferExcessFollows
<1> QED BY <1>3, <1>4, <1>6, <1>7

\* The calls that the admiral queues; only create_ticket is about a ticket.
LEMMA AdmiralCallFollows ==
    ASSUME NEW c, Follows(c, {}), NEW call \in AdmiralCalls,
           call.op = "create_ticket" => Unused(call.ticket.id)
    PROVE  Follows(AdmiralCall(c, call),
                   IF call.op = "create_ticket" THEN {call.ticket.id} ELSE {})
<1>1. CASE call.op = "set_fleet_budget"
  <2>1. call.fleet \in Fleets /\ call.credits \in Int BY <1>1 DEF AdmiralCalls
  <2>2. Follows(set_fleet_total_capital(c, call.fleet, call.credits), {})
    BY <2>1, SetBudgetFollows
  <2> QED BY <1>1, <2>2 DEF AdmiralCall
<1>2. CASE call.op = "set_new_operating_reserve"
  <2>1. call.fleet \in Fleets /\ call.credits \in Int BY <1>2 DEF AdmiralCalls
  <2>2. Follows(set_new_operating_reserve(c, call.fleet, call.credits), {})
    BY <2>1, SetReserveFollows
  <2> QED BY <1>2, <2>2 DEF AdmiralCall
<1>3. CASE call.op = "top_up"
  <2>1. call.fleet \in Fleets BY <1>3 DEF AdmiralCalls
  <2>2. Follows(transfer_funds_to_fleet_to_top_up_available_capital(c, call.fleet), {})
    BY <2>1, TopUpFollows
  <2> QED BY <1>3, <2>2 DEF AdmiralCall
<1>4. CASE call.op = "create_ticket"
  <2>1. call.ticket \in FinanceTicket BY <1>4 DEF AdmiralCalls
  <2>2. Follows(create_sell_or_delivery_ticket(c, call.ticket), {call.ticket.id})
    BY <1>4, <2>1, CreateSellOrDeliveryFollows
  <2> QED BY <1>4, <2>2 DEF AdmiralCall
<1> QED BY <1>1, <1>2, <1>3, <1>4 DEF AdmiralCalls

-----------------------------------------------------------------------------
(* The actions.                                                              *)

\* the step keeps what no ticket accounts for, in the fleets that stay
Steady == \A f \in treasurer.fleets \cap treasurer'.fleets :
            treasurer'.reserved_capital[f] - ReservedForTickets(treasurer', f)
              = treasurer.reserved_capital[f] - ReservedForTickets(treasurer, f)

\* the calls that the admiral is about to make create no ticket
NothingToCreate == \A i \in DOMAIN todo : todo[i].op # "create_ticket"

LEMMA CallFollows ==
    ASSUME IInv, TicketInv
    PROVE  Follows(Call, {}) /\ Call.ok
<1>1. Call = [ok |-> TRUE, t |-> treasurer, a |-> archived, replays |-> replays] BY DEF Call
<1>2. treasurer \in Treasurers /\ archived \in Treasurers /\ replays \in BOOLEAN
  BY DEF IInv, BookInv
<1>3. Call \in Calls /\ Call.ok /\ Call.t = treasurer /\ Call.a = archived
  BY <1>1, <1>2 DEF Calls
<1> QED BY <1>3 DEF Follows, TicketInv

\* A call that touches neither a ticket in flight nor the one to be created.
LEMMA CallKeeps ==
    ASSUME IInv, TicketInv, NEW c, NEW ids, Follows(c, ids), Commit(c),
           \A s \in Ships : doing'[s] = "ticket" =>
                /\ doing[s] = "ticket" /\ doing_ticket'[s] = doing_ticket[s]
                /\ doing_ticket[s].id \notin ids,
           \A i \in DOMAIN todo' : todo'[i].op = "create_ticket" =>
                /\ Len(todo') = 1 /\ todo'[i].ticket.id \notin ids
                /\ Unused(todo'[i].ticket.id)
    PROVE  TicketInv' /\ Steady
<1>1. /\ treasurer' = c.t /\ archived' \in {c.a, archived} BY DEF Commit
<1>2. /\ c.t \in Treasurers /\ Kept(c.t.active) /\ Kept(c.a.active)
      /\ \A k \in FinanceTicket : k.id \notin ids => (k \in c.t.active <=> k \in treasurer.active)
      /\ \A f \in c.t.fleets \cap treasurer.fleets : Unticketed(c.t, f) = Unticketed(treasurer, f)
  BY DEF Follows, Calls
<1>3. c.t.active \in SUBSET FinanceTicket BY <1>2, Fields
<1>4. Kept(treasurer'.active) /\ Kept(archived'.active) BY <1>1, <1>2 DEF TicketInv
<1>5. ASSUME NEW s \in Ships, doing'[s] = "ticket"
      PROVE  doing_ticket'[s] \in treasurer'.active /\ doing_ticket'[s].ship = s
  <2>1. /\ doing[s] = "ticket" /\ doing_ticket'[s] = doing_ticket[s]
        /\ doing_ticket[s].id \notin ids
    BY <1>5
  <2>2. /\ doing_ticket[s] \in treasurer.active /\ doing_ticket[s].ship = s
        /\ doing_ticket[s] \in FinanceTicket
    BY <2>1 DEF TicketInv, IInv, ShipInv
  <2> QED BY <1>1, <1>2, <2>1, <2>2
<1>6. ASSUME NEW i \in DOMAIN todo', todo'[i].op = "create_ticket"
      PROVE  Len(todo') = 1 /\ \A k \in treasurer'.active : k.id # todo'[i].ticket.id
  <2>1. /\ Len(todo') = 1 /\ todo'[i].ticket.id \notin ids /\ Unused(todo'[i].ticket.id)
    BY <1>6
  <2>2. ASSUME NEW k \in treasurer'.active PROVE k.id # todo'[i].ticket.id
    <3>1. k \in FinanceTicket /\ k \in c.t.active BY <1>1, <1>3, <2>2
    <3>2. CASE k.id \in ids BY <2>1, <3>2
    <3>3. CASE k.id \notin ids
      <4>1. k \in treasurer.active BY <1>2, <3>1, <3>3
      <4> QED BY <2>1, <4>1 DEF Unused
    <3> QED BY <3>2, <3>3
  <2> QED BY <2>1, <2>2
<1>7. Steady BY <1>1, <1>2 DEF Steady, Unticketed
<1> QED BY <1>4, <1>5, <1>6, <1>7 DEF TicketInv

\* A call that makes tickets with fresh ids, while the ships do nothing.
LEMMA FreshCallKeeps ==
    ASSUME IInv, TicketInv, NEW c, NEW ids, Follows(c, ids), Commit(c),
           \A id \in ids : Unused(id), UNCHANGED <<doing, doing_ticket>>,
           \A i \in DOMAIN todo' : todo'[i].op = "create_ticket" =>
                /\ Len(todo') = 1 /\ todo'[i].ticket.id \notin ids
                /\ Unused(todo'[i].ticket.id)
    PROVE  TicketInv' /\ Steady
<1>1. \A s \in Ships : doing'[s] = "ticket" =>
        /\ doing[s] = "ticket" /\ doing_ticket'[s] = doing_ticket[s]
        /\ doing_ticket[s].id \notin ids
  BY DEF TicketInv, Unused
<1> QED BY <1>1, CallKeeps

\* The ticket that the admiral has yet to create stays unused when todo is not touched.
LEMMA TodoUnused ==
    ASSUME TicketInv, NEW i \in DOMAIN todo, todo[i].op = "create_ticket"
    PROVE  Len(todo) = 1 /\ Unused(todo[i].ticket.id)
BY DEF TicketInv, Unused

\* An id that Fresh allows.
LEMMA FreshIsUnused ==
    ASSUME NEW id, Fresh(id)
    PROVE  /\ Unused(id)
           /\ \A i \in DOMAIN todo : todo[i].op = "create_ticket" => todo[i].ticket.id # id
BY DEF Fresh, UsedTickets, Unused

\* While the books stay as they are, only the flights and the calls to come count.
LEMMA BooksStay ==
    ASSUME TicketInv, treasurer' = treasurer, archived' = archived,
           \A s \in Ships : doing'[s] = "ticket" =>
                \/ doing[s] = "ticket" /\ doing_ticket'[s] = doing_ticket[s]
                \/ doing_ticket'[s] \in treasurer.active /\ doing_ticket'[s].ship = s,
           todo' = todo \/ NothingToCreate'
    PROVE  TicketInv' /\ Steady
<1>1. Steady BY DEF Steady
<1>2. \A s \in Ships : doing'[s] = "ticket" =>
        doing_ticket'[s] \in treasurer'.active /\ doing_ticket'[s].ship = s
  BY DEF TicketInv
<1>3. \A i \in DOMAIN todo' : todo'[i].op = "create_ticket" =>
            /\ Len(todo') = 1
            /\ \A k \in treasurer'.active : k.id # todo'[i].ticket.id
  BY DEF TicketInv, NothingToCreate
<1> QED BY <1>1, <1>2, <1>3 DEF TicketInv

\* When no ship flies and nothing is to be created, the maps need only be maps.
LEMMA NothingUnderWay ==
    ASSUME \A s \in Ships : doing'[s] = "idle", todo' = <<>>,
           Kept(treasurer'.active), Kept(archived'.active)
    PROVE  TicketInv'
<1>1. DOMAIN <<>> = {} OBVIOUS
<1> QED BY <1>1 DEF TicketInv

\* The part of a map is a map.
LEMMA KeptPart ==
    ASSUME NEW tickets, Kept(tickets), NEW part \in SUBSET tickets
    PROVE  Kept(part)
<1>1. IsFiniteSet(part) BY FS_Subset DEF Kept
<1> QED BY <1>1 DEF Kept, OneTicketPerId

\* Crash, Replay, the reset and the deletion of broken tickets.
LEMMA StartUpKeeps ==
    ASSUME IInv, TicketInv, StartUp
    PROVE  TicketInv'
<1>1. /\ treasurer \in Treasurers /\ archived \in Treasurers
      /\ Kept(treasurer.active) /\ Kept(archived.active)
      /\ phase # "running" => \A s \in Ships : doing[s] = "idle"
      /\ phase \in {"down", "loaded", "resetting", "reset"} => todo = <<>>
  BY DEF IInv, BookInv, RestInv, AdmiralInv, TicketInv
<1>2. Kept({}) BY FS_EmptySet DEF Kept, OneTicketPerId
<1>3. CASE Crash
  <2>1. /\ \A s \in Ships : doing'[s] = "idle"
        /\ todo' = <<>> /\ treasurer'.active = {} /\ archived' = archived
    BY <1>3 DEF Crash, EmptyTreasurer
  <2> QED BY <1>1, <1>2, <2>1, NothingUnderWay
<1>4. CASE Replay
  <2>1. /\ \A s \in Ships : doing'[s] = "idle"
        /\ todo' = <<>> /\ treasurer' = archived /\ archived' = archived
    BY <1>1, <1>4 DEF Replay, ship_vars, admiral_vars
  <2> QED BY <1>1, <2>1, NothingUnderWay
<1>5. CASE ReplayPanics
  <2>1. /\ \A s \in Ships : doing'[s] = "idle"
        /\ todo' = <<>> /\ treasurer' = treasurer /\ archived' = archived
    BY <1>1, <1>5 DEF ReplayPanics, ship_vars, admiral_vars, book_vars
  <2> QED BY <1>1, <2>1, NothingUnderWay
<1>6. CASE ResetRemovesFleets
  <2> DEFINE c == remove_all_fleets(Call)
  <2>1. /\ \A s \in Ships : doing'[s] = "idle"
        /\ todo' = <<>> /\ Commit(c)
    BY <1>1, <1>6 DEF ResetRemovesFleets, ship_vars, admiral_vars
  <2>2. Follows(c, {}) BY CallFollows, RemoveAllFleetsFollows
  <2> HIDE DEF c
  <2>3. Kept(treasurer'.active) /\ Kept(archived'.active)
    BY <1>1, <2>1, <2>2 DEF Follows, Commit
  <2> QED BY <2>1, <2>3, NothingUnderWay
<1>7. CASE ResetTreasury
  <2> DEFINE e == [kind |-> "TreasuryReset", credits |-> agent_credits]
             c == Step(Call, e)
  <2>1. /\ \A s \in Ships : doing'[s] = "idle"
        /\ todo' = <<>> /\ Commit(c)
    BY <1>1, <1>7 DEF ResetTreasury, ship_vars, admiral_vars
  <2>2. e \in LedgerEntries /\ e.kind = "TreasuryReset"
    BY DEF LedgerEntries, IInv, ShipInv
  <2>3. Call \in Calls /\ Call.t = treasurer /\ Call.a = archived
    <3>1. Call \in Calls BY CallFollows DEF Follows
    <3> QED BY <3>1 DEF Call
  <2> HIDE DEF e
  <2>4. /\ Process(treasurer, e).active = {} /\ Process(archived, e).active = {}
    BY <1>1, <2>2 DEF Process, Treasurers
  <2>5. /\ c.t \in {treasurer, Process(treasurer, e)}
        /\ c.a \in {archived, Process(archived, e)}
    BY <2>2, <2>3, StepType
  <2> HIDE DEF c
  <2>6. Kept(treasurer'.active) /\ Kept(archived'.active)
    BY <1>1, <1>2, <2>1, <2>4, <2>5 DEF Commit
  <2> QED BY <2>1, <2>6, NothingUnderWay
<1>8. CASE RemoveBrokenTickets
  <2>1. PICK gone \in Deletable(treasurer) : Commit(remove_tickets_with_0_units(Call, gone))
    BY <1>8 DEF RemoveBrokenTickets
  <2>2. /\ \A s \in Ships : doing'[s] = "idle"
        /\ todo' = <<>>
    BY <1>1, <1>8 DEF RemoveBrokenTickets, ship_vars
  <2>3. /\ treasurer'.active \in SUBSET treasurer.active
        /\ archived'.active \in SUBSET archived.active
    <3> DEFINE c == remove_tickets_with_0_units(Call, gone)
               without(t) == [t EXCEPT !.active = {k \in @ : \A b \in gone : k.id # b.id}]
    <3>1. \A t \in Treasurers : without(t).active \in SUBSET t.active BY DEF Treasurers
    <3>2. c.t = without(Call.t) /\ c.a \in {without(Call.a), Call.a}
      BY DEF remove_tickets_with_0_units
    <3>3. Call.t = treasurer /\ Call.a = archived BY DEF Call
    <3>4. treasurer' = c.t /\ archived' \in {c.a, archived} BY <2>1 DEF Commit
    <3> HIDE DEF c, without
    <3> QED BY <1>1, <3>1, <3>2, <3>3, <3>4
  <2>4. Kept(treasurer'.active) /\ Kept(archived'.active) BY <1>1, <2>3, KeptPart
  <2> QED BY <2>2, <2>4, NothingUnderWay
<1> QED BY <1>3, <1>4, <1>5, <1>6, <1>7, <1>8 DEF StartUp

\* The calls that the admiral queues next make no ticket.
LEMMA QueuedCalls ==
    ASSUME NEW f, NEW budget, NEW reserve
    PROVE  /\ SetBudget(f, budget).op # "create_ticket"
           /\ SetReserve(f, reserve).op # "create_ticket"
           /\ TopUp(f).op # "create_ticket"
BY DEF SetBudget, SetReserve, TopUp

LEMMA NextAdmiralCallKeeps ==
    ASSUME IInv, TicketInv, NextAdmiralCall
    PROVE  TicketInv' /\ Steady
<1> DEFINE call == Head(todo)
           c == AdmiralCall(Call, call)
           ids == IF call.op = "create_ticket" THEN {call.ticket.id} ELSE {}
<1>1. /\ todo # <<>> /\ Commit(c) /\ todo' = IF c.ok THEN Tail(todo) ELSE <<>>
      /\ UNCHANGED <<doing, doing_ticket>>
  BY DEF NextAdmiralCall, ship_vars
<1>2. todo \in Seq(AdmiralCalls) BY DEF IInv, AdmiralInv
<1>3. /\ call \in AdmiralCalls /\ call = todo[1] /\ 1 \in DOMAIN todo
      /\ Tail(todo) \in Seq(AdmiralCalls)
      /\ Len(Tail(todo)) = Len(todo) - 1 /\ Len(todo) \in Nat
      /\ \A i \in DOMAIN Tail(todo) : i + 1 \in DOMAIN todo /\ Tail(todo)[i] = todo[i + 1]
  <2> DEFINE rest == Tail(todo)
  <2>1. /\ Head(todo) \in AdmiralCalls /\ rest \in Seq(AdmiralCalls)
        /\ Len(rest) = Len(todo) - 1
        /\ \A i \in 1..Len(rest) : rest[i] = todo[i + 1]
    BY <1>1, <1>2, HeadTailProperties
  <2>2. Head(todo) = todo[1] OBVIOUS
  <2>3. DOMAIN rest = 1..Len(rest) /\ DOMAIN todo = 1..Len(todo) /\ Len(todo) \in Nat
        /\ Len(todo) # 0
    BY <1>1, <1>2, <2>1, LenProperties, EmptySeq
  <2> HIDE DEF rest
  <2>4. 1 \in DOMAIN todo /\ \A i \in DOMAIN rest : i + 1 \in DOMAIN todo BY <2>1, <2>3
  <2> QED BY <2>1, <2>2, <2>3, <2>4 DEF rest
<1>4. \A i \in DOMAIN todo : todo[i].op = "create_ticket" =>
         Len(todo) = 1 /\ Unused(todo[i].ticket.id)
  BY TodoUnused
<1>5. Follows(c, ids)
  <2>1. call.op = "create_ticket" => Unused(call.ticket.id) BY <1>3, <1>4
  <2> QED BY <1>3, <2>1, CallFollows, AdmiralCallFollows
<1>6. \A id \in ids : Unused(id) BY <1>3, <1>4
<1>7. NothingToCreate'
  <2>1. ASSUME NEW i \in DOMAIN Tail(todo) PROVE Tail(todo)[i].op # "create_ticket"
    <3>1. i + 1 \in DOMAIN todo /\ Tail(todo)[i] = todo[i + 1] BY <1>3, <2>1
    <3>2. todo[i + 1].op = "create_ticket" => Len(Tail(todo)) = 0 BY <1>3, <1>4, <3>1
    <3>3. DOMAIN Tail(todo) = 1..Len(Tail(todo)) BY <1>3, LenProperties
    <3> QED BY <2>1, <3>1, <3>2, <3>3
  <2>2. DOMAIN <<>> = {} OBVIOUS
  <2> HIDE DEF c
  <2>3. CASE c.ok BY <1>1, <2>1, <2>3 DEF NothingToCreate
  <2>4. CASE ~c.ok BY <1>1, <2>2, <2>4 DEF NothingToCreate
  <2> QED BY <2>3, <2>4
<1> HIDE DEF c, ids
<1> QED BY <1>1, <1>5, <1>6, <1>7, FreshCallKeeps DEF NothingToCreate

LEMMA CreateFleetKeeps ==
    ASSUME IInv, TicketInv, NEW f \in Fleets, NEW budget \in Int, NEW reserve \in Int,
           CreateFleet(f, budget, reserve)
    PROVE  TicketInv' /\ Steady
<1> DEFINE c == create_fleet(Call, f, budget)
<1>1. /\ f \notin treasurer.fleets /\ Commit(c) /\ todo' \in SetUpCalls(f, budget, reserve)
      /\ UNCHANGED <<doing, doing_ticket>>
  BY DEF CreateFleet, ship_vars
<1>2. Follows(c, {}) BY <1>1, CallFollows, EntryFollows DEF create_fleet
<1>3. NothingToCreate'
  <2> DEFINE first == TopUp(f)
             second == SetReserve(f, reserve)
  <2>1. first.op # "create_ticket" /\ second.op # "create_ticket" BY QueuedCalls
  <2>2. todo' \in {<<>>, <<first>>, <<first, second>>, <<second, first>>}
    BY <1>1 DEF SetUpCalls
  <2> HIDE DEF first, second
  <2> QED BY <2>1, <2>2 DEF NothingToCreate
<1> HIDE DEF c
<1> QED BY <1>1, <1>2, <1>3, FreshCallKeeps DEF NothingToCreate

LEMMA CreateTradeTicketsKeeps ==
    ASSUME IInv, TicketInv, NEW s \in Ships, NEW id \in TicketIds, NEW next_id \in TicketIds,
           NEW units \in Nat, NEW price \in Nat \ {0}, NEW delivery \in Deliveries,
           NEW delivery_price \in Nat,
           CreateTradeTickets(s, id, next_id, units, price, delivery, delivery_price)
    PROVE  TicketInv' /\ Steady
<1> DEFINE k == NewTicket(id, my_fleet[s], s, "PurchaseTradeGoods", units, price)
           c == create_purchase_trade_goods_ticket(Call, k)
           afforded == PurchaseTicket(Call, k).units
           next == NewTicket(next_id, my_fleet[s], s, delivery, afforded,
                             PriceOf(delivery, delivery_price))
<1>1. /\ my_fleet[s] \in Fleets /\ Fresh(id) /\ Fresh(next_id) /\ id # next_id /\ Commit(c)
      /\ todo' = IF c.ok /\ afforded > 0 THEN <<CreateTicket(next)>> ELSE <<>>
      /\ UNCHANGED <<doing, doing_ticket>>
  BY DEF IInv, ShipInv, CreateTradeTickets, ship_vars
<1>2. k \in FinanceTicket /\ k.price > 0 /\ k.id = id
  <2>1. k \in FinanceTicket /\ k.price = price BY <1>1, NewTicketType DEF Kinds
  <2> QED BY <2>1 DEF NewTicket
<1>3. Unused(id) /\ Unused(next_id) BY <1>1, FreshIsUnused
<1>4. CreateTicket(next).ticket.id = next_id BY DEF CreateTicket, NewTicket
<1> HIDE DEF k, afforded, next
<1>5. Follows(c, {id}) BY <1>2, <1>3, CallFollows, CreatePurchaseFollows
<1> HIDE DEF c
<1> DEFINE call == CreateTicket(next)
<1> HIDE DEF call
<1>6. todo' \in {<<call>>, <<>>} BY <1>1 DEF call
<1>7. \A i \in DOMAIN todo' : todo'[i] = call /\ Len(todo') = 1 BY <1>6
<1>8. \A i \in DOMAIN todo' : todo'[i].op = "create_ticket" =>
                /\ Len(todo') = 1 /\ todo'[i].ticket.id \notin {id}
                /\ Unused(todo'[i].ticket.id)
  <2>1. call.ticket.id = next_id BY <1>4 DEF call
  <2> QED BY <1>1, <1>3, <1>7, <2>1
<1> QED BY <1>1, <1>3, <1>5, <1>8, FreshCallKeeps

LEMMA CreateShipPurchaseTicketKeeps ==
    ASSUME IInv, TicketInv, NEW f \in Fleets, NEW s \in Ships, NEW id \in TicketIds,
           NEW price \in Nat \ {0}, CreateShipPurchaseTicket(f, s, id, price)
    PROVE  TicketInv' /\ Steady
<1> DEFINE k == NewTicket(id, f, s, "PurchaseShip", 1, price)
           c == create_ship_purchase_ticket(Call, k)
<1>1. Fresh(id) /\ Commit(c) /\ UNCHANGED <<doing, doing_ticket, todo>>
  BY DEF CreateShipPurchaseTicket, ship_vars, admiral_vars
<1>2. k \in FinanceTicket /\ k.price >= 0 /\ k.id = id
  <2>1. k \in FinanceTicket /\ k.price = price BY NewTicketType DEF Kinds
  <2> QED BY <2>1 DEF NewTicket
<1> HIDE DEF k
<1>3. Follows(c, {id}) BY <1>1, <1>2, CallFollows, FreshIsUnused, CreateShipPurchaseFollows
<1> HIDE DEF c
<1>4. \A i \in DOMAIN todo' : todo'[i].op = "create_ticket" =>
                /\ Len(todo') = 1 /\ todo'[i].ticket.id \notin {id}
                /\ Unused(todo'[i].ticket.id)
  BY <1>1, FreshIsUnused, TodoUnused
<1> QED BY <1>1, <1>3, <1>4, FreshIsUnused, FreshCallKeeps

LEMMA DismantleFleetKeeps ==
    ASSUME IInv, TicketInv, NEW s \in Ships, NEW home \in Fleets, DismantleFleet(s, home)
    PROVE  TicketInv' /\ Steady
<1> DEFINE c == remove_fleet(Call, my_fleet[s])
<1>1. my_fleet[s] \in Fleets /\ Commit(c) /\ UNCHANGED <<doing, doing_ticket, todo>>
  BY DEF DismantleFleet, IInv, ShipInv
<1>2. Follows(c, {}) BY <1>1, CallFollows, RemoveFleetFollows
<1> HIDE DEF c
<1> QED BY <1>1, <1>2, TodoUnused, FreshCallKeeps

LEMMA RemoveAllFleetsKeeps ==
    ASSUME IInv, TicketInv, RemoveAllFleets
    PROVE  TicketInv' /\ Steady
<1> DEFINE c == remove_all_fleets(Call)
<1>1. Commit(c) /\ UNCHANGED <<doing, doing_ticket, todo>> BY DEF RemoveAllFleets, ship_vars
<1>2. Follows(c, {}) BY CallFollows, RemoveAllFleetsFollows
<1> HIDE DEF c
<1> QED BY <1>1, <1>2, TodoUnused, FreshCallKeeps

\* Every step of the admiral.
LEMMA AdmiralKeeps ==
    ASSUME IInv, TicketInv, Admiral
    PROVE  TicketInv' /\ Steady
<1>1. CASE RemoveAllFleets BY <1>1, RemoveAllFleetsKeeps
<1>2. CASE FinishRebalancing
  BY <1>2, BooksStay DEF FinishRebalancing, book_vars, ship_vars
<1>3. CASE NextAdmiralCall BY <1>3, NextAdmiralCallKeeps
<1>4. CASE \E f \in Fleets, budget \in Budgets, reserve \in Reserves :
              CreateFleet(f, budget, reserve) \/ AdjustFleetBudget(f, budget, reserve)
  <2>1. PICK f \in Fleets, budget \in Budgets, reserve \in Reserves :
              CreateFleet(f, budget, reserve) \/ AdjustFleetBudget(f, budget, reserve)
    BY <1>4
  <2>2. budget \in Int /\ reserve \in Int BY TreasurerAssumption DEF TreasurerAssumption
  <2>3. CASE CreateFleet(f, budget, reserve) BY <2>2, <2>3, CreateFleetKeeps
  <2>4. CASE AdjustFleetBudget(f, budget, reserve)
    <3> DEFINE a == SetBudget(f, budget)
               b == SetReserve(f, reserve)
               d == TopUp(f)
    <3>1. a.op # "create_ticket" /\ b.op # "create_ticket" /\ d.op # "create_ticket"
      BY QueuedCalls
    <3>2. todo' = <<a, b, d>> BY <2>4 DEF AdjustFleetBudget
    <3> HIDE DEF a, b, d
    <3>3. NothingToCreate' BY <3>1, <3>2 DEF NothingToCreate
    <3> QED BY <2>4, <3>3, BooksStay DEF AdjustFleetBudget, book_vars, ship_vars
  <2> QED BY <2>1, <2>3, <2>4
<1>5. CASE \E f \in Fleets, budget \in Budgets : RaiseConstructionBudget(f, budget)
  <2>1. PICK f \in Fleets, budget \in Budgets : RaiseConstructionBudget(f, budget) BY <1>5
  <2> DEFINE a == SetBudget(f, budget)
             d == TopUp(f)
  <2>2. a.op # "create_ticket" /\ d.op # "create_ticket" BY QueuedCalls
  <2>3. todo' = <<a, d>> BY <2>1 DEF RaiseConstructionBudget
  <2> HIDE DEF a, d
  <2>4. NothingToCreate' BY <2>2, <2>3 DEF NothingToCreate
  <2> QED BY <2>1, <2>4, BooksStay DEF RaiseConstructionBudget, book_vars, ship_vars
<1>6. CASE \E s \in Ships, home \in Fleets \ Spawning : DismantleFleet(s, home)
  BY <1>6, DismantleFleetKeeps
<1>7. CASE \E f \in Fleets, s \in Ships, id \in TicketIds, price \in Prices :
              CreateShipPurchaseTicket(f, s, id, price)
  <2>1. \A price \in Prices : price \in Nat \ {0}
    BY TreasurerAssumption DEF TreasurerAssumption
  <2> QED BY <1>7, <2>1, CreateShipPurchaseTicketKeeps
<1>8. CASE \E s \in Ships, id, next_id \in TicketIds, units \in Quantities, price \in Prices,
              delivery \in Deliveries, delivery_price \in Prices :
              CreateTradeTickets(s, id, next_id, units, price, delivery, delivery_price)
  <2>1. PICK s \in Ships, id \in TicketIds, next_id \in TicketIds, units \in Quantities,
             price \in Prices, delivery \in Deliveries, delivery_price \in Prices :
              CreateTradeTickets(s, id, next_id, units, price, delivery, delivery_price)
    BY <1>8
  <2>2. price \in Nat \ {0} /\ units \in Nat /\ delivery_price \in Nat
    BY TreasurerAssumption DEF TreasurerAssumption
  <2> QED BY <2>1, <2>2, CreateTradeTicketsKeeps
<1> QED BY <1>1, <1>2, <1>3, <1>4, <1>5, <1>6, <1>7, <1>8 DEF Admiral

-----------------------------------------------------------------------------
(* The steps of the ships.                                                   *)

LEMMA CreateDeliveryTicketKeeps ==
    ASSUME IInv, TicketInv, NEW s \in Ships, NEW id \in TicketIds, NEW units \in Nat,
           NEW kind \in Deliveries, NEW price \in Nat,
           CreateDeliveryTicket(s, id, units, kind, price)
    PROVE  TicketInv' /\ Steady
<1> DEFINE k == NewTicket(id, my_fleet[s], s, kind, units, PriceOf(kind, price))
           c == create_sell_or_delivery_ticket(Call, k)
<1>1. /\ my_fleet[s] \in Fleets /\ Fresh(id) /\ Commit(c)
      /\ UNCHANGED <<doing, doing_ticket, todo>>
  BY DEF IInv, ShipInv, CreateDeliveryTicket, ship_vars, admiral_vars
<1>2. k \in FinanceTicket /\ k.id = id
  <2>1. kind \in Kinds /\ PriceOf(kind, price) \in Nat BY PriceOfType DEF Deliveries, Kinds
  <2>2. k \in FinanceTicket BY <1>1, <2>1, NewTicketType
  <2> QED BY <2>2 DEF NewTicket
<1> HIDE DEF k
<1>3. Follows(c, {id})
  BY <1>1, <1>2, CallFollows, FreshIsUnused, CreateSellOrDeliveryFollows
<1> HIDE DEF c
<1>4. \A i \in DOMAIN todo' : todo'[i].op = "create_ticket" =>
                /\ Len(todo') = 1 /\ todo'[i].ticket.id \notin {id}
                /\ Unused(todo'[i].ticket.id)
  BY <1>1, FreshIsUnused, TodoUnused
<1> QED BY <1>1, <1>3, <1>4, FreshIsUnused, FreshCallKeeps

LEMMA CreateContractTicketsKeeps ==
    ASSUME IInv, TicketInv, NEW s \in Ships, NEW id \in TicketIds, NEW next_id \in TicketIds,
           NEW kinds \in ContractKinds, NEW units \in Nat, NEW price \in Nat,
           CreateContractTickets(s, id, next_id, kinds, units, price)
    PROVE  TicketInv' /\ Steady
<1> DEFINE p1 == PriceOf(kinds[1], price)
           p2 == PriceOf(kinds[2], price)
           k1 == NewTicket(id, my_fleet[s], s, kinds[1], units, p1)
           k2 == NewTicket(next_id, my_fleet[s], s, kinds[2], units, p2)
           c == create_multiple_tickets(Call, k1, k2)
<1>1. /\ my_fleet[s] \in Fleets /\ Fresh(id) /\ Fresh(next_id) /\ id # next_id /\ Commit(c)
      /\ UNCHANGED <<doing, doing_ticket, todo>>
  BY DEF IInv, ShipInv, CreateContractTickets, ship_vars, admiral_vars
<1>2. /\ k1 \in FinanceTicket /\ k1.id = id /\ k1.price >= 0
      /\ k2 \in FinanceTicket /\ k2.id = next_id /\ k2.price >= 0
  <2>1. p1 \in Nat /\ p2 \in Nat BY ContractKindsType, PriceOfType
  <2> HIDE DEF p1, p2
  <2>2. k1 \in FinanceTicket /\ k1.price = p1 /\ k2 \in FinanceTicket /\ k2.price = p2
    BY <1>1, <2>1, ContractKindsType, NewTicketType
  <2> QED BY <2>1, <2>2 DEF NewTicket
<1> HIDE DEF k1, k2
<1>3. Unused(id) /\ Unused(next_id) BY <1>1, FreshIsUnused
<1>4. Follows(c, {id, next_id}) BY <1>1, <1>2, <1>3, CallFollows, CreateMultipleFollows
<1> HIDE DEF c
<1>5. \A i \in DOMAIN todo' : todo'[i].op = "create_ticket" =>
                /\ Len(todo') = 1 /\ todo'[i].ticket.id \notin {id, next_id}
                /\ Unused(todo'[i].ticket.id)
  BY <1>1, FreshIsUnused, TodoUnused
<1> QED BY <1>1, <1>3, <1>4, <1>5, FreshCallKeeps

\* A ship that calls the server takes up one of its own tickets, or none.
LEMMA ServerCallKeeps ==
    ASSUME IInv, TicketInv, NEW s \in Ships, NEW amount, NEW activity, NEW k, NEW answer,
           ServerMoves(s, amount), Responded(s, activity, k, answer),
           activity = "ticket" => k \in treasurer.active /\ k.ship = s
    PROVE  TicketInv' /\ Steady
<1>1. treasurer' = treasurer /\ archived' = archived /\ todo' = todo
  BY DEF ServerMoves, book_vars, admiral_vars
<1>2. /\ doing' = [doing EXCEPT ![s] = activity]
      /\ doing_ticket' = [doing_ticket EXCEPT ![s] = k]
      /\ DOMAIN doing = Ships /\ DOMAIN doing_ticket = Ships
  BY DEF Responded, IInv, ShipInv
<1>3. \A x \in Ships : doing'[x] = "ticket" =>
          \/ doing[x] = "ticket" /\ doing_ticket'[x] = doing_ticket[x]
          \/ doing_ticket'[x] \in treasurer.active /\ doing_ticket'[x].ship = x
  BY <1>2
<1> QED BY <1>1, <1>3, BooksStay

\* A report ends one flight.
LEMMA ReportKeeps ==
    ASSUME IInv, TicketInv, NEW s \in Ships, Reported(s), NEW c, NEW ids, Follows(c, ids),
           Commit(c), \A x \in Ships \ {s} : doing[x] = "ticket" => doing_ticket[x].id \notin ids,
           \A id \in ids : ~Unused(id)
    PROVE  TicketInv' /\ Steady
<1>1. /\ doing' = [doing EXCEPT ![s] = "idle"]
      /\ doing_ticket' = [doing_ticket EXCEPT ![s] = NoTicket]
      /\ DOMAIN doing = Ships /\ DOMAIN doing_ticket = Ships /\ todo' = todo
  BY DEF Reported, Responded, IInv, ShipInv, admiral_vars
<1>2. \A x \in Ships : doing'[x] = "ticket" =>
          /\ doing[x] = "ticket" /\ doing_ticket'[x] = doing_ticket[x]
          /\ doing_ticket[x].id \notin ids
  BY <1>1
<1>3. \A i \in DOMAIN todo' : todo'[i].op = "create_ticket" =>
                /\ Len(todo') = 1 /\ todo'[i].ticket.id \notin ids
                /\ Unused(todo'[i].ticket.id)
  BY <1>1, TodoUnused
<1> QED BY <1>2, <1>3, CallKeeps

LEMMA CompleteTicketKeeps ==
    ASSUME IInv, TicketInv, NEW s \in Ships, CompleteTicket(s)
    PROVE  TicketInv' /\ Steady
<1> DEFINE k == doing_ticket[s]
           c == complete_ticket(Call, k, response[s])
<1>1. doing[s] = "ticket" /\ Commit(c) /\ Reported(s) BY DEF CompleteTicket
<1>2. /\ k \in FinanceTicket /\ k \in treasurer.active /\ k.ship = s
      /\ response[s] \in Nat
  BY <1>1 DEF IInv, ShipInv, TicketInv
<1>3. Follows(c, {k.id}) BY <1>2, CallFollows, CompleteTicketFollows
<1>4. \A x \in Ships \ {s} : doing[x] = "ticket" => doing_ticket[x].id \notin {k.id}
  BY <1>2 DEF TicketInv, Kept, OneTicketPerId
<1>5. ~Unused(k.id) BY <1>2 DEF Unused
<1> HIDE DEF c, k
<1> QED BY <1>1, <1>3, <1>4, <1>5, ReportKeeps

\* Every step of a ship.
LEMMA ShipsKeep ==
    ASSUME IInv, TicketInv, NEW s \in Ships, ShipActions(s)
    PROVE  TicketInv' /\ Steady
<1>1. /\ \A units \in Quantities : units \in Nat
      /\ \A price \in Prices : price \in Nat
      /\ my_fleet[s] \in Fleets /\ response[s] \in Nat
  BY TreasurerAssumption DEF TreasurerAssumption, IInv, ShipInv
<1>2. CASE \E id \in TicketIds, units \in Quantities, kind \in Deliveries, price \in Prices :
              CreateDeliveryTicket(s, id, units, kind, price)
  BY <1>1, <1>2, CreateDeliveryTicketKeeps
<1>3. CASE \E id, next_id \in TicketIds, kinds \in ContractKinds, units \in Quantities, price \in Prices :
              CreateContractTickets(s, id, next_id, kinds, units, price)
  BY <1>1, <1>3, CreateContractTicketsKeeps
<1>4. CASE \E price \in Prices : PerformTradeAction(s, price)
  <2>1. PICK price \in Prices, k \in treasurer.active :
              /\ k.ship = s
              /\ ServerMoves(s, ServerTotal(k, price))
              /\ Responded(s, "ticket", k, PriceOf(k.kind, price))
    BY <1>4 DEF PerformTradeAction
  <2> QED BY <2>1, ServerCallKeeps
<1>5. CASE \E cost \in FuelCosts : Refuel(s, cost)
  <2>1. PICK cost \in FuelCosts :
              ServerMoves(s, -cost) /\ Responded(s, "fuel", NoTicket, cost)
    BY <1>5 DEF Refuel
  <2> QED BY <2>1, ServerCallKeeps
<1>6. CASE \E reward \in Rewards : ReceiveReward(s, reward)
  <2>1. PICK reward \in Rewards :
              ServerMoves(s, reward) /\ Responded(s, "reward", NoTicket, reward)
    BY <1>6 DEF ReceiveReward
  <2> QED BY <2>1, ServerCallKeeps
<1>7. CASE CompleteTicket(s) BY <1>7, CompleteTicketKeeps
<1>8. CASE ReportExpense(s)
  <2> DEFINE c == report_expense(Call, my_fleet[s], response[s])
  <2>1. Commit(c) /\ Reported(s) BY <1>8 DEF ReportExpense
  <2>2. Follows(c, {})
    <3>1. response[s] \in Int BY <1>1
    <3> QED BY <1>1, <3>1, CallFollows, ReportExpenseFollows
  <2> HIDE DEF c
  <2> QED BY <2>1, <2>2, ReportKeeps
<1>9. CASE ReportIncome(s)
  <2> DEFINE c == report_income(Call, my_fleet[s], response[s])
  <2>1. Commit(c) /\ Reported(s) BY <1>9 DEF ReportIncome
  <2>2. Follows(c, {})
    <3>1. response[s] \in Int BY <1>1
    <3> QED BY <1>1, <3>1, CallFollows, ReportIncomeFollows
  <2> HIDE DEF c
  <2> QED BY <2>1, <2>2, ReportKeeps
<1> QED BY <1>2, <1>3, <1>4, <1>5, <1>6, <1>7, <1>8, <1>9 DEF ShipActions

-----------------------------------------------------------------------------
(* The theorems.                                                             *)

\* At the first start the ledger is empty and nothing flies.
LEMMA InitTickets ==
    ASSUME Init
    PROVE  TicketInv
<1>1. /\ treasurer.active = {} /\ archived.active = {} /\ todo = <<>>
      /\ \A s \in Ships : doing[s] = "idle"
  BY DEF Init, EmptyTreasurer
<1>2. Kept({}) BY FS_EmptySet DEF Kept, OneTicketPerId
<1>3. DOMAIN <<>> = {} OBVIOUS
<1> QED BY <1>1, <1>2, <1>3 DEF TicketInv

\* The inductive invariant about tickets: besides what the next theorem states,
\* active tickets have distinct ids, a ship executes only tickets that are its
\* own, and the ticket that the admiral is about to create is a new one.
THEOREM TicketsTracked == Spec => []TicketInv
<1>1. Init => TicketInv BY InitTickets
<1>2. IInv /\ TicketInv /\ [Next]_vars => TicketInv'
  <2>1. ASSUME TicketInv, UNCHANGED vars PROVE TicketInv' BY <2>1 DEF vars, TicketInv
  <2> QED BY <2>1, StartUpKeeps, AdmiralKeeps, ShipsKeep DEF Next
<1> QED BY <1>1, <1>2, Invariance, PTL DEF Spec

\* A ticket that a ship has executed and not yet reported is still active,
\* whatever the admiral and the other ships do, and across crashes.
THEOREM InFlightIsActive == Spec => []TicketInFlightIsActive
<1>1. TicketInv => TicketInFlightIsActive BY DEF TicketInv, TicketInFlightIsActive
<1> QED BY <1>1, TicketsTracked, PTL

\* While the agent runs, the reserved capital of a fleet moves with the
\* allocations of its active tickets, by whatever path these come and go.
THEOREM ReservationsFollow == Spec => ReservationsFollowTickets
<1>1. /\ IInv
      /\ TicketInv
      /\ [Next]_vars
      => [phase = "running" /\ phase' = "running"
          => \A f \in treasurer.fleets \cap treasurer'.fleets :
               treasurer'.reserved_capital[f] - ReservedForTickets(treasurer', f)
                 = treasurer.reserved_capital[f] - ReservedForTickets(treasurer, f)]_vars
  <2>1. ASSUME IInv, TicketInv, Next, phase = "running", phase' = "running"
        PROVE  Steady
    <3>1. CASE StartUp
      BY <2>1, <3>1 DEF StartUp, Crash, Replay, ReplayPanics, ResetRemovesFleets,
                        ResetTreasury, RemoveBrokenTickets
    <3>2. CASE Admiral BY <2>1, <3>2, AdmiralKeeps
    <3>3. CASE \E s \in Ships : ShipActions(s) BY <2>1, <3>3, ShipsKeep
    <3> QED BY <2>1, <3>1, <3>2, <3>3 DEF Next
  <2> QED BY <2>1 DEF Steady
<1> QED BY <1>1, Invariance, TicketsTracked, PTL DEF Spec, ReservationsFollowTickets
=============================================================================
