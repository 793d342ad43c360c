---------------------------- MODULE MCAccounting ----------------------------
(***************************************************************************)
(* What leaves the accounts, side by side for TLC: AccountingEntries with  *)
(* a payment on account in its session, EntryLines with two tickets paid   *)
(* in several ways, SalesReports with two tickets, a sale and a credit     *)
(* note, and FneCertification with a credit note of its invoice.  They     *)
(* share no state.                                                         *)
(***************************************************************************)
EXTENDS AccountingEntries, EntryLines, SalesReports, FneCertification, TLC

CONSTANTS Scenarios, x1, p1, i1, n1, t1, t2, cash, card, limit, food, check, r18, r9, b1, b2,
    o1, o2, o3, o4, d1, d2, k1, k2, c1, c2, e1, e2, h1, h2, a1, a2, f1, f2

VARIABLE scenario

InSession == p1 :> x1
Reversed == n1 :> i1

TicketOfEach == (cash :> t1) @@ (card :> t1) @@ (limit :> t1) @@ (food :> t2) @@ (check :> t2)
KindOfEach == (cash :> "cash") @@ (card :> "grouped") @@ (limit :> "limit")
                 @@ (food :> "food") @@ (check :> "none")

\* Tickets of a sale and of a refund, one without taxes and one with taxes of both signs.
Held(ht, first, second, taxed) ==
    [ht |-> ht, tax |-> (r18 :> first) @@ (r9 :> second), taxed |-> taxed]
SomeBaskets == {Held(6, 1, 0, TRUE), Held(-6, -1, 0, TRUE), Held(4, 0, 0, FALSE), Held(5, 3, -1, TRUE)}
SomeAmounts == {-7, 0, 3, 4, 7}

Billed(untaxed, first, second, rounding) ==
    [untaxed |-> untaxed, tax |-> (r18 :> first) @@ (r9 :> second), rounding |-> rounding]
SomeContents == {Billed(6, 1, 0, 0), Billed(6, 1, -2, 1)}

\* Two tickets of two cashiers in one session, which starts the day before the second, and
\* a session without tickets; a sale invoiced in two parts and a credit note of a client
\* without a category.
Orders4 == {o1, o2, o3, o4}
SourceOf == (o1 :> "pos") @@ (o2 :> "pos") @@ (o3 :> "sale") @@ (o4 :> "refund")
DateOfEach == (o1 :> d1) @@ (o2 :> d2) @@ (o3 :> d1) @@ (o4 :> d2)
BuyerOf == (o1 :> k1) @@ (o2 :> k2) @@ (o3 :> k2) @@ (o4 :> k2)
CashierOf == (o1 :> c1) @@ (o2 :> c2) @@ (o3 :> c1) @@ (o4 :> c1)
DrawerOf == [o \in Orders4 |-> e1]
Lines6 == {<<o1, 1>>, <<o1, 2>>, <<o2, 1>>, <<o2, 2>>, <<o3, 1>>, <<o4, 1>>}
FirstOf == [l \in Lines6 |-> l[1]]
SortOf == [l \in Lines6 |-> IF l[2] = 1 THEN "plain" ELSE IF l[1] = o1 THEN "reward" ELSE "child"]
RateOf == [l \in Lines6 |-> IF l[1] = o1 THEN r18 ELSE r9]
ArticleOf == [l \in Lines6 |-> IF l[2] = 1 THEN a1 ELSE a2]
Settled4 == {<<o1, "cash">>, <<o1, "limit">>, <<o2, "cash">>, <<o2, "food">>}
PaidOf == [p \in Settled4 |-> p[1]]
FlagsOf == [p \in Settled4 |-> {p[2]}]
BilledOf == [b \in {f1, f2} |-> o3]
BillDateOf == (f1 :> d1) @@ (f2 :> d2)
LabelsOfEach == (k1 :> {h1, h2}) @@ (k2 :> {})
DrawerDateOf == (e1 :> d1) @@ (e2 :> d2)

Goods(quantity, ht, tva) == [quantity |-> quantity, ht |-> ht, tva |-> tva]
SomeHoldings == [l \in Lines6 |-> IF l[2] = 1 THEN {Goods(1, 5, 1), Goods(-1, -5, -1)}
                                   ELSE IF l[1] = o1 THEN {Goods(1, -2, 0)} ELSE {Goods(1, 2, 0)}]
SomeSums == {-8, -6, -2, 0, 4, 6, 8}

accountingVars == <<scenario, entryVars, lineVars, reportVars, fneVars>>

AccountingInit == scenario \in Scenarios /\ EntriesInit /\ LinesInit /\ ReportsInit /\ FneInit

AccountingNext ==
    /\ UNCHANGED scenario
    /\ \/ scenario = "entries" /\ EntriesNext /\ UNCHANGED <<lineVars, reportVars, fneVars>>
       \/ scenario = "lines" /\ LinesNext /\ UNCHANGED <<entryVars, reportVars, fneVars>>
       \/ scenario = "reports" /\ ReportsNext /\ UNCHANGED <<entryVars, lineVars, fneVars>>
       \/ scenario = "fne" /\ FneNext /\ UNCHANGED <<entryVars, lineVars, reportVars>>

AccountingSpec == AccountingInit /\ [][AccountingNext]_accountingVars

\* No action reads how often X3 booked something, and no property but that of the
\* types reads it for anything else than settlements.
View ==
    <<scenario, session, paid, flagged, posted, [s \in Settlements |-> booked[<<"ENCAI", s>>]],
      excused, sender, lineVars, reportVars, fneVars>>

Symmetry == Permutations(Senders) \union Permutations(Users)

-----------------------------------------------------------------------------
\* The entries of the day balance, and its cash and its sales are told by them as by its
\* tickets (LinesInv), and the reports on the sales agree (ReportsInv); only the
\* behaviours about tickets change what these speak of.
AmountsInv == /\ scenario = "lines" => LinesInv
              /\ scenario = "reports" => ReportsInv
=============================================================================
