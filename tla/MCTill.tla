-------------------------------- MODULE MCTill --------------------------------
(***************************************************************************)
(* The sales of a store side by side for TLC: TillApprovals,               *)
(* TillDiscounts, TillClosing, PosHistoryImport and DailyBudgets.  Each    *)
(* behaviour is about one of them.                                         *)
(***************************************************************************)
EXTENDS TillApprovals, TillDiscounts, TillClosing, PosHistoryImport,
        DailyBudgets, TLC

CONSTANTS Scenarios, r1, r2, k1, m1, m2

\* Sheets: an order over two days whose client comes last with a row without number in
\* between, rows without reference around one without date, an unknown article, and
\* nothing readable.
SomeHistories ==
    LET Row(x, d, r, c) == [reads |-> x, day |-> d, ref |-> r, client |-> c] IN
    {<<Row("good", 2, r1, NoClient), Row("no number", 1, r2, k1),
       Row("good", 1, r2, NoClient), Row("good", 1, r1, k1)>>,
     <<Row("good", 1, NoRef, NoClient), Row("no date", 1, r1, k1), Row("good", 1, NoRef, k1)>>,
     <<Row("missing", 1, r1, k1), Row("good", 1, r1, k1)>>,
     <<Row("no article", 1, r1, k1)>>}

\* Both bookings amount to the same.
Equal == m1 :> 1 @@ m2 :> 1

VARIABLE scenario

tillVars == <<scenario, approvalVars, discountVars, closingVars, historyVars, budgetVars>>

TillInit ==
    /\ scenario \in Scenarios
    /\ ApprovalInit /\ (setting.role = "superviseur" => setting.coded)
    /\ (scenario # "approvals" => setting.coded /\ setting.role = "caissiere")
    /\ DiscountInit /\ (scenario # "discounts" => promoted = {})
    /\ ClosingInit
    /\ HistoryInit
    /\ BudgetInit /\ (scenario # "budgets" => budget.from = 1 /\ budget.to = 1)

TillNext ==
    /\ UNCHANGED scenario
    /\ \/ scenario = "approvals" /\ ApprovalNext /\ UNCHANGED <<discountVars, closingVars, historyVars, budgetVars>>
       \/ scenario = "discounts" /\ DiscountNext /\ UNCHANGED <<approvalVars, closingVars, historyVars, budgetVars>>
       \/ scenario = "closing" /\ ClosingNext /\ UNCHANGED <<approvalVars, discountVars, historyVars, budgetVars>>
       \/ scenario = "history" /\ HistoryNext /\ UNCHANGED <<approvalVars, discountVars, closingVars, budgetVars>>
       \/ scenario = "budgets" /\ BudgetNext /\ UNCHANGED <<approvalVars, discountVars, closingVars, historyVars>>

TillSpec == TillInit /\ [][TillNext]_tillVars

\* Lines that were moved to another day or account.
Moved == {d \in DOMAIN days : days[d].on # d \/ days[d].account # OwnAnalytic}

\* Bounds: one of the tickets is paid; one code is accepted at a till without a code of
\* its own; one booking is enough once a native
\* budget is made; one line is moved, before amounts are entered, and forms saved late
\* when there are no bookings.
Within ==
    /\ Cardinality({t \in Tickets : ticket[t].state = "paid"}) <= 1
    /\ ~setting.coded => Len(codes) <= 1
    /\ natives # <<>> => Cardinality(DOMAIN bookings) <= 1
    /\ Moved # {} => /\ Cardinality(Moved) = 1 /\ natives = <<>> /\ late = {}
                     /\ \A d \in DOMAIN days : ~days[d].entered
    /\ late # {} => DOMAIN bookings = {}

\* Tickets are interchangeable, and so are bookings and popups.
Symmetry == Permutations(Tickets) \union Permutations(Bookings) \union Permutations(Popups)

-----------------------------------------------------------------------------
\* Invariant of the till: codes and their logs, discounts and their marks, counts
\* and closings, daily budgets.
TillInv == ApprovalInv /\ DiscountInv /\ ClosingInv /\ BudgetInv

\* What a step may do: a session is closed with the last count that was confirmed,
\* but for one confirmed when another had been read; no imported order is left without
\* payment unless the import says so, and the orders of an import that ended well are
\* those of its sheet.
TillSteps == ClosedAsCounted /\ DraftIsReported /\ HistoryIsWhole
=============================================================================
