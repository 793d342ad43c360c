---------------------------- MODULE SalesReports ----------------------------
(***************************************************************************)
(* What the reports tell of the same sales (custom_reports, custom_pos):   *)
(* the turnover of each day, the statistics of sales, the detailed report, *)
(* the recapitulation of the tills and the closing report of a session.    *)
(* Each searches and adds up for itself; the properties compare them.      *)
(*                                                                         *)
(* Amounts are whole units of the currency.  Margins, costs, quantities,   *)
(* averages and percentages are left out, and so are the screens and the   *)
(* filters by company, till, client and article; every line has an         *)
(* article, and every article a code.                                      *)
(***************************************************************************)
EXTENDS Integers, FiniteSets, Functions

CONSTANTS
    Orders,       \* pos.order, sale.order, and credit notes that come from no till
    Source,       \* Source[o]: "pos", "sale" or "refund"
    OrderDate,    \* its date, that of the invoice for a credit note
    Buyer,        \* its client
    Cashier,      \* the cashier of a ticket
    Drawer,       \* the session of a ticket
    Lines,        \* lines of orders
    OrderOf,      \* OrderOf[l]: the order of a line
    Sort,         \* Sort[l]: "plain", "reward" or "child" of a combo
    Rate,         \* Rate[l]: the rate of its taxes
    Article,      \* Article[l]: its product
    Settled,      \* pos.payment
    SettledOrder, \* SettledOrder[p]: the ticket it pays
    Flags,        \* Flags[p]: what the method of payment is marked as
    Bills,        \* customer invoices that come from no till
    BilledOrder,       \* BilledOrder[b]: the sale.order it invoices
    BillDate,
    Dates, Buyers, Cashiers, Drawers, TaxRates, Articles,
    Labels,       \* categories of clients
    LabelsOf,     \* LabelsOf[c]: those of a client
    DrawerDate,   \* day a session starts
    Holdings,     \* bound: Holdings[l], what a line may hold
    Tenders,      \* bound: amounts of payments
    Float, Counts \* bound: cash at the start and cash counted

MethodMarks == {"cash", "cheque", "card", "voucher", "food", "loyalty", "limit"}

ASSUME ReportsAssumption ==
    /\ IsFiniteSet(Orders) /\ IsFiniteSet(Lines) /\ IsFiniteSet(Settled) /\ IsFiniteSet(Bills)
    /\ IsFiniteSet(Dates) /\ IsFiniteSet(Buyers) /\ IsFiniteSet(Cashiers) /\ IsFiniteSet(Drawers)
    /\ IsFiniteSet(TaxRates) /\ IsFiniteSet(Articles) /\ IsFiniteSet(Labels)
    /\ Source \in [Orders -> {"pos", "sale", "refund"}]
    /\ OrderDate \in [Orders -> Dates] /\ Buyer \in [Orders -> Buyers]
    /\ Cashier \in [Orders -> Cashiers] /\ Drawer \in [Orders -> Drawers]
    /\ OrderOf \in [Lines -> Orders] /\ Rate \in [Lines -> TaxRates]
    /\ Article \in [Lines -> Articles] /\ Sort \in [Lines -> {"plain", "reward", "child"}]
    /\ SettledOrder \in [Settled -> {o \in Orders : Source[o] = "pos"}]
    /\ Flags \in [Settled -> SUBSET MethodMarks]
    /\ BilledOrder \in [Bills -> {o \in Orders : Source[o] = "sale"}]
    /\ BillDate \in [Bills -> Dates] /\ DrawerDate \in [Drawers -> Dates]
    /\ LabelsOf \in [Buyers -> SUBSET Labels]
    /\ Holdings \in [Lines -> SUBSET [quantity : Int, ht : Int, tva : Int]]
    /\ Tenders \subseteq Int /\ Float \in Int /\ Counts \subseteq Int

VARIABLES
    valid,        \* orders that are paid, confirmed or posted
    line,         \* line[l]: quantity, amount without taxes and taxes
    settled,      \* settled[p]: amount, 0 while the payment is not made
    billed,       \* posted invoices
    drawer        \* drawer[s]: cash at the start, and cash counted at the closing

reportVars == <<valid, line, settled, billed, drawer>>

NoLine == [quantity |-> 0, ht |-> 0, tva |-> 0]

ReportsInit ==
    /\ valid = {}
    /\ line = [l \in Lines |-> NoLine]
    /\ settled = [p \in Settled |-> 0]
    /\ billed = {}
    /\ drawer = [s \in Drawers |-> [start |-> 0, counted |-> 0]]

LinesOf(S) == {l \in Lines : OrderOf[l] \in S}
PaysOf(S)  == {p \in Settled : SettledOrder[p] \in S}

Ht   == [l \in Lines |-> line[l].ht]
Tva  == [l \in Lines |-> line[l].tva]

\* amount_total and amount_tax of an order.
AmountTotal(o) == SumFunctionOnSet([l \in Lines |-> line[l].ht + line[l].tva], LinesOf({o}))
AmountTax(o)   == SumFunctionOnSet(Tva, LinesOf({o}))

\* The lines of an order are entered.
Enter(o) ==
    /\ \A l \in LinesOf({o}) : line[l] = NoLine
    /\ \E held \in [LinesOf({o}) -> UNION {Holdings[l] : l \in LinesOf({o})}] :
          /\ \A l \in LinesOf({o}) : held[l] \in Holdings[l]
          /\ line' = [l \in Lines |-> IF OrderOf[l] = o THEN held[l] ELSE line[l]]

\* A ticket is paid, a sale confirmed, a credit note posted.
Validate(o) ==
    /\ o \notin valid /\ valid' = valid \union {o}
    /\ Enter(o)
    /\ \E paid \in [PaysOf({o}) -> Tenders] :
          /\ Source[o] = "pos" => SumFunctionOnSet(paid, PaysOf({o})) = AmountTotal(o)'
          /\ settled' = [p \in Settled |-> IF SettledOrder[p] = o THEN paid[p] ELSE settled[p]]
    /\ UNCHANGED <<billed, drawer>>

\* A ticket is entered and cancelled: it stays in its session.
Cancel(o) ==
    /\ Source[o] = "pos" /\ o \notin valid
    /\ Enter(o)
    /\ UNCHANGED <<valid, settled, billed, drawer>>

\* An invoice of a sale is posted; it may be about part of it.
PostBill(b) ==
    /\ b \notin billed /\ BilledOrder[b] \in valid
    /\ billed' = billed \union {b}
    /\ UNCHANGED <<valid, line, settled, drawer>>

\* The cash of a session is counted, again if need be.
CountDrawer(s, n) ==
    /\ drawer' = [drawer EXCEPT ![s] = [start |-> Float, counted |-> n]]
    /\ UNCHANGED <<valid, line, settled, billed>>

ReportsNext ==
    \/ \E o \in Orders : Validate(o) \/ Cancel(o)
    \/ \E b \in Bills : PostBill(b)
    \/ \E s \in Drawers, n \in Counts : CountDrawer(s, n)

ReportsSpec == ReportsInit /\ [][ReportsNext]_reportVars

-----------------------------------------------------------------------------
(* The turnover of each day, report_daily_sales_wizard.                    *)

Periods == SUBSET Dates
Reported == {"sale", "pos", "both"}

TicketsOf(D) == {o \in valid : Source[o] = "pos" /\ OrderDate[o] \in D}
CreditNotes(D)   == {o \in valid : Source[o] = "refund" /\ OrderDate[o] \in D}

\* The sale orders, whole, that an invoice of the period is about.
Invoiced(D) == {BilledOrder[b] : b \in {x \in billed : BillDate[x] \in D}}

CaHt == [o \in Orders |-> AmountTotal(o) - AmountTax(o)]

DailySales(d, type) ==
    (IF type # "pos" THEN SumFunctionOnSet(CaHt, Invoiced({d})) ELSE 0)
    + (IF type # "sale" THEN SumFunctionOnSet(CaHt, TicketsOf({d})) ELSE 0)
    - SumFunctionOnSet(CaHt, CreditNotes({d}))

Totaux(D, type) == SumFunctionOnSet([d \in Dates |-> DailySales(d, type)], D)

-----------------------------------------------------------------------------
(* The statistics of a period, sale_stat_report_wizard.                    *)

\* Variant: the credit notes with the sales only.
FetchOrders_OwnCreditNotes(D, type) ==
    (IF type # "sale" THEN TicketsOf(D) ELSE {}) \union
    (IF type # "pos" THEN Invoiced(D) \union CreditNotes(D) ELSE {})

\* Credit notes are fetched whatever the source.
FetchOrders(D, type) ==
    (IF type # "sale" THEN TicketsOf(D) ELSE {}) \union
    (IF type # "pos" THEN Invoiced(D) ELSE {}) \union CreditNotes(D)

SignedCa == [o \in Orders |-> IF Source[o] = "refund" THEN -CaHt[o] ELSE CaHt[o]]
SignedHt == [l \in Lines |-> IF Source[OrderOf[l]] = "refund" THEN -Ht[l] ELSE Ht[l]]

\* Grouped by client, by category of clients and by product: a client without
\* a category is in one of its own.
ByCustomer(D, type) ==
    [c \in Buyers |-> SumFunctionOnSet(SignedCa, {o \in FetchOrders(D, type) : Buyer[o] = c})]

NoCat == "no category"

LabelsIn(c) == IF LabelsOf[c] = {} THEN {NoCat} ELSE LabelsOf[c]

ByCustomerCategory(D, type) ==
    [g \in Labels \union {NoCat} |->
        SumFunctionOnSet(SignedCa, {o \in FetchOrders(D, type) : g \in LabelsIn(Buyer[o])})]

ByProduct(D, type) ==
    [a \in Articles |->
        SumFunctionOnSet(SignedHt, {l \in LinesOf(FetchOrders(D, type)) : Article[l] = a})]

-----------------------------------------------------------------------------
(* The detailed report, sale_vte_x3_report_wizard.                         *)

\* Confirmed orders by their own date, and no credit note.
Detailed(D, type) ==
    {l \in LinesOf(valid) : /\ Source[OrderOf[l]] \in (IF type = "both" THEN {"sale", "pos"} ELSE {type})
                            /\ OrderDate[OrderOf[l]] \in D}

\* Variant: the amount of a line of a ticket keeps its own sign as well.
MtHtSigne_Twice(l) == IF line[l].quantity < 0 THEN -line[l].ht ELSE line[l].ht

\* Of a ticket the absolute amount, with the sign of the quantity; of a sale order the
\* amount itself, with that sign once more.
MtHtSigne(l) ==
    LET mt_ht == IF Source[OrderOf[l]] = "pos" /\ line[l].ht < 0 THEN -line[l].ht ELSE line[l].ht
    IN IF line[l].quantity < 0 THEN -mt_ht ELSE mt_ht

DetailedTotal(D, type) == SumFunctionOnSet([l \in Lines |-> MtHtSigne(l)], Detailed(D, type))

-----------------------------------------------------------------------------
(* The recapitulation of the tills, recap_caisses_wizard.                  *)

\* Without cashiers in the filter, those of all.
RecapOrders(D, C) == {o \in TicketsOf(D) : C = {} \/ Cashier[o] \in C}

\* Variant: the sessions of the period, whoever sold in them.
RecapSessions_All(D, C) == {s \in Drawers : DrawerDate[s] \in D}

\* The sessions of the tickets if there is a filter, else those of the period.
RecapSessions(D, C) ==
    IF C = {} THEN {s \in Drawers : DrawerDate[s] \in D} ELSE {Drawer[o] : o \in RecapOrders(D, C)}

\* Variant: the lines of rewards are counted.
Counted_Rewards(S) == {l \in LinesOf(S) : Sort[l] # "child"}

Counted(S) == {l \in LinesOf(S) : Sort[l] = "plain"}

OrderCa(S) == SumFunctionOnSet(Ht, Counted(S))

\* A ticket with any payment on account is on account.
EnCompte(S) == {o \in S : \E p \in PaysOf({o}) : settled[p] # 0 /\ "limit" \in Flags[p]}

\* The base of a rate in the table of taxes.
BaseHt(S, r) == SumFunctionOnSet(Ht, {l \in Counted(S) : Rate[l] = r})

\* What the payments of some tickets with a mark come to.
PmtTotal(P, mark) == SumFunctionOnSet(settled, {p \in P : mark \in Flags[p]})

Start   == [s \in Drawers |-> drawer[s].start]
CashOut == [s \in Drawers |-> drawer[s].counted]

\* Total 1.
Comptants(P) ==
    PmtTotal(P, "cash") + PmtTotal(P, "cheque") + PmtTotal(P, "card") + PmtTotal(P, "voucher")
    + PmtTotal(P, "food") + PmtTotal(P, "loyalty")

\* Total général is Total 1 without what is paid with credits for food and cards, and with
\* what is put on account.
Recap(D, C) ==
    LET P == PaysOf(RecapOrders(D, C))
        prelev == SumFunctionOnSet(CashOut, RecapSessions(D, C))
    IN [comptant  |-> OrderCa(RecapOrders(D, C) \ EnCompte(RecapOrders(D, C))),
        en_compte |-> OrderCa(EnCompte(RecapOrders(D, C))),
        fdc_init  |-> SumFunctionOnSet(Start, RecapSessions(D, C)),
        especes   |-> PmtTotal(P, "cash"),
        ecart     |-> prelev - PmtTotal(P, "cash"),
        general   |-> Comptants(P) - (PmtTotal(P, "food") + PmtTotal(P, "loyalty")) + PmtTotal(P, "limit")]

-----------------------------------------------------------------------------
(* The closing report of a session, custom_pos.                            *)

SessionOrders(s) == {o \in valid : Source[o] = "pos" /\ Drawer[o] = s}

\* Food or a card, once.
Avoir(P) == SumFunctionOnSet(settled, {p \in P : "loyalty" \in Flags[p] \/ "food" \in Flags[p]})

Cloture(s) ==
    LET P == PaysOf(SessionOrders(s)) IN
    [especes   |-> PmtTotal(P, "cash"),
     avoir     |-> Avoir(P),
     total     |-> PmtTotal(P, "cash") + PmtTotal(P, "cheque") + PmtTotal(P, "card") + Avoir(P)
                     + PmtTotal(P, "voucher"),
     en_compte |-> PmtTotal(P, "limit"),
     fond      |-> drawer[s].start,
     ecart     |-> drawer[s].counted - PmtTotal(P, "cash")]

\* Its table of taxes leaves out the children of combos, and nothing that was cancelled.
ClotureHt(s, r) ==
    SumFunctionOnSet(Ht, {l \in Lines : /\ Source[OrderOf[l]] = "pos" /\ Drawer[OrderOf[l]] = s
                                        /\ Sort[l] # "child" /\ Rate[l] = r})

-----------------------------------------------------------------------------
(* Properties.                                                             *)

ReportsTypeOK ==
    /\ valid \subseteq Orders /\ billed \subseteq Bills
    /\ line \in [Lines -> [quantity : Int, ht : Int, tva : Int]]
    /\ settled \in [Settled -> Int]
    /\ drawer \in [Drawers -> [start : Int, counted : Int]]
    /\ \A b \in billed : BilledOrder[b] \in valid

SumOver(f) == SumFunctionOnSet(f, DOMAIN f)

BilledOnOneDay(D) ==
    \A a, b \in billed : BilledOrder[a] = BilledOrder[b] /\ BillDate[a] \in D /\ BillDate[b] \in D
                            => BillDate[a] = BillDate[b]

\* The statistics of a period tell the same turnover by client and by product, by
\* category too if no client has two, and that of the days they are about, if no
\* sale is invoiced on two of them: it counts whole on each.
StatisticsAgree ==
    \A D \in Periods, type \in Reported :
        /\ SumOver(ByCustomer(D, type)) = SumOver(ByProduct(D, type))
        /\ (\A o \in FetchOrders(D, type) : Cardinality(LabelsOf[Buyer[o]]) <= 1)
               => SumOver(ByCustomerCategory(D, type)) = SumOver(ByCustomer(D, type))
        /\ BilledOnOneDay(D) => SumOver(ByCustomer(D, type)) = Totaux(D, type)

\* The lines of the detailed report add up to the days without their credit notes: the
\* tickets if each line has the sign of its quantity, the sales if none has goods that
\* come back and each is invoiced on the day it is dated.
DetailAgrees ==
    \A D \in Periods :
        LET refunds == SumFunctionOnSet(CaHt, CreditNotes(D)) IN
        /\ (\A l \in Detailed(D, "pos") : line[l].quantity < 0 <=> line[l].ht < 0)
               => DetailedTotal(D, "pos") = Totaux(D, "pos") + refunds
        /\ BilledOnOneDay(D)
             /\ Invoiced(D) = {o \in valid : Source[o] = "sale" /\ OrderDate[o] \in D}
             /\ (\A l \in Detailed(D, "sale") : line[l].quantity >= 0)
               => DetailedTotal(D, "sale") = Totaux(D, "sale") + refunds

\* No cashier shared a session with another, and its tickets are of its own period.
OneCashier(D) ==
    \A o, u \in TicketsOf(D) : Drawer[o] = Drawer[u] => Cashier[o] = Cashier[u]

Aligned(D) ==
    \A o \in valid : Source[o] = "pos" => (OrderDate[o] \in D <=> DrawerDate[Drawer[o]] \in D)

LeftOut(S) == SumFunctionOnSet(Ht, {l \in LinesOf(S) : Sort[l] # "plain"})

\* The turnover of the recapitulation is that of the days but for rewards and children
\* of combos, its table of taxes adds up to it, and those of the cashiers add up to that of
\* all: in takings always, and in cash at the start if each had sessions of his own.
RecapAgrees ==
    \A D \in Periods :
        LET all == Recap(D, {})
            each == [c \in Cashiers |-> Recap(D, {c})]
        IN
        /\ all.comptant + all.en_compte + LeftOut(TicketsOf(D))
             = Totaux(D, "pos") + SumFunctionOnSet(CaHt, CreditNotes(D))
        /\ SumOver([r \in TaxRates |-> BaseHt(TicketsOf(D), r)]) = all.comptant + all.en_compte
        /\ all.comptant = SumOver([c \in Cashiers |-> each[c].comptant])
        /\ all.en_compte = SumOver([c \in Cashiers |-> each[c].en_compte])
        /\ all.general = SumOver([c \in Cashiers |-> each[c].general])
        /\ OneCashier(D) /\ Aligned(D)
             /\ (\A s \in Drawers : DrawerDate[s] \in D => \E o \in TicketsOf(D) : Drawer[o] = s)
             => /\ all.fdc_init = SumOver([c \in Cashiers |-> each[c].fdc_init])
                /\ all.ecart = SumOver([c \in Cashiers |-> each[c].ecart])

OneMark == \A p \in Settled : settled[p] # 0 => Cardinality(Flags[p]) <= 1

\* Lines of cancelled tickets that the closings of a period have, and lines of rewards.
Cancelled(D) ==
    {l \in Lines : /\ Source[OrderOf[l]] = "pos" /\ OrderOf[l] \notin valid
                   /\ DrawerDate[Drawer[OrderOf[l]]] \in D /\ Sort[l] # "child"}

RewardsOf(S) == {l \in LinesOf(S) : Sort[l] = "reward"}

\* What the sessions of a period were closed with adds up to its recapitulation, if no
\* session runs over its end: cash, what is missing, the table of taxes but for rewards
\* and cancelled tickets, and the general total.  That is every payment that is marked, but
\* for food and cards, once, if no method has two marks.
ClosingsAgree ==
    \A D \in Periods :
        LET all == Recap(D, {})
            sessions == {s \in Drawers : DrawerDate[s] \in D}
            closed == [s \in Drawers |-> Cloture(s)]
        IN
        Aligned(D) =>
        /\ all.especes = SumFunctionOnSet([s \in Drawers |-> closed[s].especes], sessions)
        /\ all.ecart = SumFunctionOnSet([s \in Drawers |-> closed[s].ecart], sessions)
        /\ all.fdc_init = SumFunctionOnSet([s \in Drawers |-> closed[s].fond], sessions)
        /\ \A r \in TaxRates :
              SumFunctionOnSet([s \in Drawers |-> ClotureHt(s, r)], sessions)
                = BaseHt(TicketsOf(D), r)
                  + SumFunctionOnSet(Ht, {l \in RewardsOf(TicketsOf(D)) : Rate[l] = r})
                  + SumFunctionOnSet(Ht, {l \in Cancelled(D) : Rate[l] = r})
        /\ all.general = SumFunctionOnSet(
              [s \in Drawers |-> closed[s].total - closed[s].avoir + closed[s].en_compte], sessions)
        /\ OneMark =>
              all.general = SumFunctionOnSet(settled,
                    {p \in PaysOf(TicketsOf(D)) : Flags[p] \notin {{}, {"food"}, {"loyalty"}}})

\* The invariant of the reports.
ReportsInv == ReportsTypeOK /\ StatisticsAgree /\ DetailAgrees /\ RecapAgrees /\ ClosingsAgree
=============================================================================
