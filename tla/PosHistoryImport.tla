-------------------------- MODULE PosHistoryImport --------------------------
(***************************************************************************)
(* The import of past till sales from a sheet (custom_import_excel,        *)
(* pos_import_wizard.py): rows are grouped into orders and orders into     *)
(* days, flattened into the lines of a preview, grouped again from these   *)
(* lines, and each order is made with its payment in a closed session of   *)
(* its day.  One transaction makes them all, but an error on one order is  *)
(* swallowed with what it had written.                                     *)
(*                                                                         *)
(* A row is told by its position in the sheet; amounts, taxes and costs    *)
(* are left out.                                                           *)
(***************************************************************************)
EXTENDS Naturals, Sequences, FiniteSets

CONSTANTS
    Histories,   \* the sheets users have
    Refs, NoRef, \* references of orders; a row may have none
    Clients, NoClient,
    Days,        \* numbers, in the order of time
    MaxMade      \* bound: orders made when an import begins

\* reads: what is found in the row, an error of the parser or an article Odoo lacks
\* included.
HistoryRow == [reads : {"good", "no date", "no article", "no number", "missing"},
               day : Days, ref : Refs \union {NoRef}, client : Clients \union {NoClient}]

ASSUME HistoryAssumption ==
    /\ Days \subseteq Nat
    /\ NoClient \notin Clients /\ NoRef \notin Refs
    /\ Histories \subseteq Seq(HistoryRow)

VARIABLES
    screen,   \* the wizard
    made,     \* the orders of the imports, in the order they were made
    sessions  \* days that have a session of the import

historyVars == <<screen, made, sessions>>

HistoryInit ==
    /\ screen = [pc |-> "draft", sheet |-> <<>>, preview |-> <<>>]
    /\ made = <<>>
    /\ sessions = {}

-----------------------------------------------------------------------------
(* From rows to orders.                                                    *)

\* Rows the parser keeps.  Its errors are shown only if it keeps none.
Kept(rows) == {n \in DOMAIN rows : rows[n].reads \in {"good", "missing"}}

\* The order of row n: a row without reference is an order of its own, named here by
\* its position.
RefOf(rows, n) == IF rows[n].ref = NoRef THEN n ELSE rows[n].ref

\* A line of an order, and of the preview.
LineOf(rows, n) == [row |-> n, ref |-> RefOf(rows, n), day |-> rows[n].day, client |-> rows[n].client]

\* An order has one more line, and takes the first client that is named.
Grown(o, l) == [o EXCEPT !.lines = Append(o.lines, l.row),
                         !.client = IF o.client = NoClient THEN l.client ELSE o.client]

\* A new order has the day of its first line.
Started(l) == [ref |-> l.ref, day |-> l.day, client |-> l.client, lines |-> <<l.row>>]

\* Variant: a row is added to the order only if it is of the same day.
Join_SameDay(orders, l) ==
    IF \A i \in DOMAIN orders : orders[i].ref # l.ref \/ orders[i].day # l.day
    THEN Append(orders, Started(l))
    ELSE [i \in DOMAIN orders |->
            IF orders[i].ref = l.ref /\ orders[i].day = l.day THEN Grown(orders[i], l) ELSE orders[i]]

\* A line joins the order of its reference.
Join(orders, l) ==
    IF \A i \in DOMAIN orders : orders[i].ref # l.ref THEN Append(orders, Started(l))
    ELSE [i \in DOMAIN orders |-> IF orders[i].ref = l.ref THEN Grown(orders[i], l) ELSE orders[i]]

\* The lines, numbered up to N, join one after the other.
Grouped(lines, N) ==
    LET orders[n \in 0 .. N] == IF n = 0 THEN <<>>
                                ELSE IF n \in DOMAIN lines THEN Join(orders[n - 1], lines[n])
                                ELSE orders[n - 1]
    IN  orders[N]

\* _parse_rows_to_orders.
Parsed(rows) == Grouped([n \in Kept(rows) |-> LineOf(rows, n)], Len(rows))

\* The lines of an order: the first one names its client, all have its day.
LinesOf(o) == [n \in DOMAIN o.lines |-> [row |-> o.lines[n], ref |-> o.ref, day |-> o.day,
                                         client |-> IF n = 1 THEN o.client ELSE NoClient]]

\* The lines of the orders of day d.
OfDay(orders, d) ==
    LET lines[i \in 0 .. Len(orders)] ==
            IF i = 0 THEN <<>>
            ELSE IF orders[i].day = d THEN lines[i - 1] \o LinesOf(orders[i]) ELSE lines[i - 1]
    IN  lines[Len(orders)]

\* The lines of the preview, day by day.
Flat(orders) ==
    LET days == {orders[i].day : i \in DOMAIN orders}
        last == CHOOSE d \in days : \A e \in days : e <= d
        lines[d \in 0 .. last] ==
            IF d = 0 THEN OfDay(orders, 0) ELSE lines[d - 1] \o OfDay(orders, d)
    IN  lines[last]

\* _build_data_from_preview.
Rebuilt(preview) == Grouped(preview, Len(preview))

-----------------------------------------------------------------------------
\* action_preview.
Preview(rows) ==
    /\ screen.pc = "draft"
    /\ Kept(rows) # {}
    /\ screen' = [pc |-> "preview", sheet |-> rows, preview |-> Flat(Parsed(rows))]
    /\ UNCHANGED <<made, sessions>>

\* action_back_to_draft, or the wizard is opened again.
Back ==
    /\ screen.pc # "draft"
    /\ screen' = [pc |-> "draft", sheet |-> <<>>, preview |-> <<>>]
    /\ UNCHANGED <<made, sessions>>

\* What is left of each order: an error before it exists leaves nothing, one on its
\* payment leaves it in draft.
Result(orders, outcome) ==
    LET left[i \in 0 .. Len(orders)] ==
            IF i = 0 THEN <<>>
            ELSE IF outcome[i] = "none" THEN left[i - 1]
            ELSE Append(left[i - 1], [order |-> orders[i], state |-> outcome[i]])
    IN  left[Len(orders)]

\* Variant: the import ends well if it made an order.
Verdict_Any(outcome) == IF \E i \in DOMAIN outcome : outcome[i] = "done" THEN "done" ELSE "error"

Verdict(outcome) == IF \A i \in DOMAIN outcome : outcome[i] = "done" THEN "done" ELSE "error"

\* action_import.  The session of a day is found or made, or its orders all fail.
ImportHistory ==
    /\ screen.pc = "preview"
    /\ Len(made) <= MaxMade
    /\ \A n \in DOMAIN screen.preview : screen.sheet[screen.preview[n].row].reads # "missing"
    /\ LET orders == Rebuilt(screen.preview) IN
       \E opened \in SUBSET {orders[i].day : i \in DOMAIN orders} :
       \E outcome \in [DOMAIN orders -> {"none", "draft", "done"}] :
          /\ \A i \in DOMAIN orders : orders[i].day \notin opened => outcome[i] = "none"
          /\ made' = made \o Result(orders, outcome)
          /\ screen' = [screen EXCEPT !.pc = Verdict(outcome)]
          /\ sessions' = sessions \union opened

HistoryNext == (\E rows \in Histories : Preview(rows)) \/ Back \/ ImportHistory

HistorySpec == HistoryInit /\ [][HistoryNext]_historyVars

-----------------------------------------------------------------------------
(* Properties.                                                             *)

\* The rows of a sheet that make the order of reference r, by definition.
RowsOf(rows, r) == {n \in DOMAIN rows : rows[n].reads = "good" /\ RefOf(rows, n) = r}

\* The references of a sheet.
RefsOf(rows) == {RefOf(rows, n) : n \in {m \in DOMAIN rows : rows[m].reads = "good"}}

\* The n last of some orders.
LastOf(orders, n) == SubSeq(orders, Len(orders) - n + 1, Len(orders))

\* Every variable has its type; an order of the import has the session of its day, and
\* an import that ended well has left, as its last orders, each reference of its sheet
\* once, with all its readable rows and no others, in the order of the sheet.
HistoryInv ==
    /\ screen.pc \in {"draft", "preview", "done", "error"}
    /\ screen.sheet \in Histories \union {<<>>}
    /\ sessions \subseteq Days
    /\ \A i \in DOMAIN made : made[i].order.day \in sessions
    /\ screen.pc = "done" =>
          LET refs == RefsOf(screen.sheet)
              last == LastOf(made, Cardinality(refs))
          IN  /\ Cardinality(refs) <= Len(made)
              /\ {last[i].order.ref : i \in DOMAIN last} = refs
              /\ \A i \in DOMAIN last :
                    LET lines == last[i].order.lines IN
                    /\ last[i].state = "done"
                    /\ {lines[n] : n \in DOMAIN lines} = RowsOf(screen.sheet, last[i].order.ref)
                    /\ \A m, n \in DOMAIN lines : m < n => lines[m] < lines[n]

\* So it is after every step.
HistoryIsWhole == [][HistoryInv']_historyVars

\* An order without payment is left only by an import that says it met errors.
DraftIsReported ==
    [][\A i \in DOMAIN made' \ DOMAIN made : made'[i].state = "draft" => screen'.pc = "error"]_historyVars
=============================================================================
