----------------------------- MODULE FoodCredit -----------------------------
(***************************************************************************)
(* The food credit of one client company (custom_food_credit): credits of  *)
(* a month with a line for each employee, consumption at the tills, and    *)
(* invoices of what was consumed.                                          *)
(*                                                                         *)
(* The list's button and the wizard name the credit of a month             *)
(* differently, and credits are found by their name.  Every handler is one *)
(* transaction; a payment that finds its line changed by another           *)
(* transaction is run again, so that a payment is one step.                *)
(*                                                                         *)
(* Left out: the texts of the lines; what a manager types over in the form *)
(* of a credit (lines, dates, invoice) or an accountant in a draft invoice *)
(* (reference, amounts) or by a duplicate of one; and selections of the    *)
(* invoicing wizard that a screen keeps: any credit that has been in       *)
(* progress may be invoiced, which the handler allows.                     *)
(***************************************************************************)
EXTENDS Integers, FiniteSets, Functions

CONSTANTS
    Employees,    \* child contacts of the company
    Names,        \* names of credits
    ButtonName,   \* the one that the list's button uses
    Days,
    Period,       \* the days of a credit, by name
    Grants,       \* amounts that the company may grant, 0 for none
    MaxPaid,      \* bound: what an employee pays in all
    MaxGranted,   \* bound: what an employee is granted in all
    Invoices

ASSUME FoodAssumption ==
    /\ ButtonName \in Names
    /\ Period \in [Names -> SUBSET Days]
    /\ Grants \subseteq Nat
    /\ MaxPaid \in Nat /\ MaxGranted \in Nat
    /\ "none" \notin Names \cup Invoices
    /\ IsFiniteSet(Names) /\ IsFiniteSet(Employees) /\ IsFiniteSet(Invoices)

VARIABLES
    amountFood,   \* amount_food of the company
    staff,        \* its active children
    credit,       \* food.credit by name
    made,         \* <<m, n>>: the record of m is older than that of n
    lines,        \* food.credit.line, by credit and employee
    lined,        \* <<m, n>>: the lines of m are older than those of n
    invoice,      \* account.move with a food_id
    doubled,      \* those put back beside another that stands for the credit (history)
    paid,         \* what was paid with each credit by each employee, without the
                  \* refunds (history)
    refunded,     \* what each employee got back (history)
    granted       \* amounts of all the lines an employee ever had (history)

foodVars ==
    <<amountFood, staff, credit, made, lines, lined, invoice, doubled, paid, refunded, granted>>

CreditStates == {"none", "draft", "in_progress", "close", "done"}

\* invoiced, which nothing reads, is left out.
Credit == [state : CreditStates, move : Invoices \cup {"none"}]

NoCredit == [state |-> "none", move |-> "none"]

\* A credit has at most one line for an employee.
CreditLine == [on : BOOLEAN, amount : Nat, used : Int]

NoLine == [on |-> FALSE, amount |-> 0, used |-> 0]

\* charge: price_unit of the invoice line of each employee, 0 for no line.
Invoice == [state : {"none", "draft", "posted", "cancel"}, food : Names \cup {"none"},
            charge : [Employees -> Nat]]

NoInvoice == [state |-> "none", food |-> "none", charge |-> [e \in Employees |-> 0]]

FoodInit ==
    /\ amountFood \in Grants \ {0}
    /\ staff = Employees
    /\ credit = [n \in Names |-> NoCredit]
    /\ made = {} /\ lined = {}
    /\ lines = [n \in Names |-> [e \in Employees |-> NoLine]]
    /\ invoice = [v \in Invoices |-> NoInvoice]
    /\ doubled = {}
    /\ paid = [n \in Names |-> [e \in Employees |-> 0]]
    /\ refunded = [e \in Employees |-> 0]
    /\ granted = [e \in Employees |-> 0]

-----------------------------------------------------------------------------
(* Credits and their lines.                                                *)

NewLine == [on |-> TRUE, amount |-> amountFood, used |-> 0]

\* An order of names in which n comes last.
WithLast(order, n) ==
    {p \in order : n \notin {p[1], p[2]}} \cup ((Names \ {n}) \X {n})

\* _create_lines_for_credit: the lines, with what was consumed, are deleted, and
\* each active employee gets a new one.
CreateLines(n) ==
    /\ \A e \in staff : granted[e] + amountFood <= MaxGranted
    /\ lines' = [lines EXCEPT ![n] = [e \in Employees |-> IF e \in staff THEN NewLine ELSE NoLine]]
    /\ lined' = WithLast(lined, n)
    /\ granted' = [e \in Employees |-> granted[e] + (IF e \in staff THEN amountFood ELSE 0)]

\* A name that is not found is created.
CreateCredit(n) ==
    /\ credit[n].state = "none"
    /\ credit' = [credit EXCEPT ![n].state = "draft"]
    /\ made' = WithLast(made, n)
    /\ CreateLines(n)
    /\ UNCHANGED <<amountFood, staff, invoice, doubled, paid, refunded>>

\* action_generate_credits_with_lines: a credit that exists is skipped.
GenerateMonth ==
    /\ amountFood > 0
    /\ CreateCredit(ButtonName)

\* action_generate of the wizard, which can also overwrite, in any state; as does the
\* list's action_regenerate_selected_credits.
GenerateCredit(n) ==
    \/ CreateCredit(n)
    \/ /\ credit[n].state # "none"
       /\ CreateLines(n)
       /\ UNCHANGED <<amountFood, staff, credit, made, invoice, doubled, paid, refunded>>

HasLines(n) == \E e \in Employees : lines[n][e].on

SetCredit(n, state) ==
    /\ credit' = [credit EXCEPT ![n].state = state]
    /\ UNCHANGED <<amountFood, staff, made, lines, lined, invoice, doubled, paid, refunded, granted>>

\* action_in_progress: the handler looks at the lines only, and a form shows its
\* button as long as it has not heard of another state.
StartCredit(n) ==
    /\ credit[n].state # "none"
    /\ HasLines(n)
    /\ SetCredit(n, "in_progress")

\* action_close and action_done, in the list: whatever the states are.
CloseCredit(n) == credit[n].state # "none" /\ SetCredit(n, "close")

FinishCredit(n) == credit[n].state # "none" /\ SetCredit(n, "done")

\* unlink: a draft goes, and no payment finds the lines that it leaves.
DeleteCredit(n) ==
    /\ credit[n].state = "draft"
    /\ credit' = [credit EXCEPT ![n] = NoCredit]
    /\ lines' = [lines EXCEPT ![n] = [e \in Employees |-> NoLine]]
    /\ UNCHANGED <<amountFood, staff, made, lined, invoice, doubled, paid, refunded, granted>>

ChangeGrant ==
    /\ amountFood' \in Grants \ {amountFood}
    /\ UNCHANGED <<staff, credit, made, lines, lined, invoice, doubled, paid, refunded, granted>>

\* An employee is archived, deleted, or goes to another company, and loses the
\* lines; or comes.
MoveEmployee(e) ==
    /\ \/ /\ e \in staff
          /\ staff' = staff \ {e}
          /\ lines' = [n \in Names |-> [lines[n] EXCEPT ![e] = NoLine]]
       \/ /\ e \notin staff
          /\ staff' = staff \cup {e}
          /\ UNCHANGED lines
    /\ UNCHANGED <<amountFood, credit, made, lined, invoice, doubled, paid, refunded, granted>>

-----------------------------------------------------------------------------
(* Payments at the tills.                                                  *)

\* A line that a payment of the day may use.
Usable(n, e, day) ==
    /\ lines[n][e].on
    /\ day \in Period[n]
    /\ credit[n].state = "in_progress"

\* search with limit=1: the oldest line.
IsLineFor(n, e, day) ==
    Usable(n, e, day) /\ \A m \in Names \ {n} : Usable(m, e, day) => <<n, m>> \in lined

PaidBy(e) == SumFunctionOnSet([n \in Names |-> paid[n][e]], Names)

\* Variant: only what was granted is looked at.
Affordable_Each(l, amount) == amount <= l.amount

\* _check_food_credit_before_payment
Affordable(l, amount) == amount <= l.amount - l.used

\* pos.payment.create: the check and the update are in one transaction.
PayWithCredit(e) ==
    \E day \in Days, n \in Names, amount \in 1 .. MaxPaid - PaidBy(e) :
        /\ e \in staff
        /\ IsLineFor(n, e, day)
        /\ Affordable(lines[n][e], amount)
        /\ lines' = [lines EXCEPT ![n][e].used = @ + amount]
        /\ paid' = [paid EXCEPT ![n][e] = @ + amount]
        /\ UNCHANGED <<amountFood, staff, credit, made, lined, invoice, doubled, refunded, granted>>

\* A negative payment: the line of the day of the refund, be it another one.
RefundCredit(e) ==
    \E day \in Days, n \in Names, amount \in 1 .. PaidBy(e) - refunded[e] :
        /\ e \in staff
        /\ IsLineFor(n, e, day)
        /\ lines' = [lines EXCEPT ![n][e].used = @ - amount]
        /\ refunded' = [refunded EXCEPT ![e] = @ + amount]
        /\ UNCHANGED <<amountFood, staff, credit, made, lined, invoice, doubled, paid, granted>>

-----------------------------------------------------------------------------
(* Invoices.                                                               *)

AmountUsed(n) == SumFunctionOnSet([e \in Employees |-> lines[n][e].used], Employees)

Charge(n) == [e \in Employees |-> IF lines[n][e].used > 0 THEN lines[n][e].used ELSE 0]

\* Variant: a draft invoice does not count as an invoice.
Live_Posted == {"posted"}

\* States of an invoice that keep its credit from another.
Live == {"draft", "posted"}

Billable(n) ==
    /\ AmountUsed(n) > 0
    /\ \A v \in Invoices : ~(invoice[v].state \in Live /\ invoice[v].food = n)

\* The rank of n in a set of credits in the order of their ids.
Rank(S, n) == Cardinality({m \in S : <<m, n>> \in made})

\* The bill of a credit.
Bill(n) == [state |-> "draft", food |-> n, charge |-> Charge(n)]

\* action_generate_invoices: an invoice for each credit that has none; then the
\* i-th credit that is in no message of error gets the i-th invoice.  The
\* messages give the names of credits, and ids are looked for in them: a credit
\* is found in a message by chance (mentioned), and never found without one.
GenerateInvoices ==
    \E chosen \in SUBSET {n \in Names : credit[n].state \notin {"none", "draft"}} \ {{}} :
        LET billed == {n \in chosen : Billable(n)} IN
        /\ billed # {}
        /\ \E bill \in Injection(billed, {v \in Invoices : invoice[v].state = "none"}) :
              /\ invoice' = [v \in Invoices |->
                    IF \E n \in billed : bill[n] = v
                    THEN Bill(CHOOSE n \in billed : bill[n] = v)
                    ELSE invoice[v]]
              /\ \E mentioned \in SUBSET chosen :
                    LET linked == chosen \ mentioned
                        Paired(n) == {m \in billed : Rank(billed, m) = Rank(linked, n)} IN
                    /\ billed = chosen => mentioned = {}
                    /\ credit' = [n \in Names |->
                          IF n \in linked /\ Paired(n) # {}
                          THEN [credit[n] EXCEPT !.move = bill[CHOOSE m \in Paired(n) : TRUE]]
                          ELSE credit[n]]
        /\ UNCHANGED <<amountFood, staff, made, lines, lined, doubled, paid, refunded, granted>>

\* The accountant posts an invoice, puts it back to draft or cancels it.
ChangeInvoice(v) ==
    /\ \E s \in {"draft", "posted", "cancel"} :
          /\ <<invoice[v].state, s>> \in
                {<<"draft", "posted">>, <<"posted", "draft">>, <<"draft", "cancel">>}
          /\ invoice' = [invoice EXCEPT ![v].state = s]
          /\ doubled' = IF s = "cancel" THEN doubled \ {v} ELSE doubled
    /\ UNCHANGED <<amountFood, staff, credit, made, lines, lined, paid, refunded, granted>>

Standing == {v \in Invoices : invoice[v].state \in {"draft", "posted"}}

\* button_draft of a cancelled invoice: its credit may have been billed again since, which
\* nothing looks at.
ReviveInvoice(v) ==
    /\ invoice[v].state = "cancel"
    /\ invoice' = [invoice EXCEPT ![v].state = "draft"]
    /\ doubled' = IF \E w \in Standing \ doubled : invoice[w].food = invoice[v].food
                  THEN doubled \union {v} ELSE doubled
    /\ UNCHANGED <<amountFood, staff, credit, made, lines, lined, paid, refunded, granted>>

DeleteInvoice(v) ==
    /\ invoice[v].state \in {"draft", "cancel"}
    /\ invoice' = [invoice EXCEPT ![v] = NoInvoice]
    /\ doubled' = doubled \ {v}
    /\ credit' = [n \in Names |->
          IF credit[n].move = v THEN [credit[n] EXCEPT !.move = "none"] ELSE credit[n]]
    /\ UNCHANGED <<amountFood, staff, made, lines, lined, paid, refunded, granted>>

-----------------------------------------------------------------------------
FoodNext ==
    \/ GenerateMonth
    \/ \E n \in Names :
          \/ GenerateCredit(n) \/ DeleteCredit(n)
          \/ StartCredit(n) \/ CloseCredit(n) \/ FinishCredit(n)
    \/ ChangeGrant
    \/ \E e \in Employees : MoveEmployee(e) \/ PayWithCredit(e) \/ RefundCredit(e)
    \/ GenerateInvoices
    \/ \E v \in Invoices : ChangeInvoice(v) \/ ReviveInvoice(v) \/ DeleteInvoice(v)

FoodSpec == FoodInit /\ [][FoodNext]_foodVars

-----------------------------------------------------------------------------
\* Type invariant of credits, lines and invoices.
FoodTypeOK ==
    /\ amountFood \in Grants
    /\ staff \subseteq Employees
    /\ credit \in [Names -> Credit]
    /\ made \subseteq Names \X Names /\ lined \subseteq Names \X Names
    /\ lines \in [Names -> [Employees -> CreditLine]]
    /\ invoice \in [Invoices -> Invoice] /\ doubled \subseteq Invoices
    /\ paid \in [Names -> [Employees -> Nat]]
    /\ refunded \in [Employees -> Nat] /\ granted \in [Employees -> Nat]

\* What an employee paid at the tills, less what was refunded, was granted:
\* whatever lines were deleted, made again or left by a month, and whichever line
\* of two a payment or its refund found.
PaidIsGranted == \A e \in Employees : PaidBy(e) - refunded[e] <= granted[e]

\* No consumption is billed twice but by hand: the invoices that stand, drafts too, charge
\* for an employee no more than what the employee paid, though lines are made again,
\* invoices are cancelled and billed anew, and credits of one month overlap.  Only a
\* cancelled invoice put back beside the one that was made after it is billed twice.
BilledIsPaid ==
    \A e \in Employees :
        SumFunctionOnSet([v \in Invoices |-> invoice[v].charge[e]], Standing \ doubled)
            <= PaidBy(e)

\* The comment of the linking loop, "Lier les factures aux crédits alimentaires
\* via move_id": the invoice of a credit is the one that bills it.  The code pairs
\* the invoices with the wrong credits as soon as one credit is refused.
LinkedIsBilled ==
    \A n \in Names : credit[n].move # "none" => invoice[credit[n].move].food = n

\* The invariant of food credits: their types, and no employee spends more than was
\* granted, nor is charged more than was spent unless an invoice is put back by hand.
FoodInv == FoodTypeOK /\ PaidIsGranted /\ BilledIsPaid
=============================================================================
