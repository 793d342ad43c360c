------------------------- MODULE PhysicalInventory -------------------------
(***************************************************************************)
(* One physical inventory of a store (custom_stock): lines made from the   *)
(* quants, counts typed in, quants adjusted to the counts, differences     *)
(* corrected afterwards by a wizard, and the missing quantities proposed   *)
(* for a supplier's credit note.  Goods move while the inventory goes on.  *)
(*                                                                         *)
(* Each click is one transaction.  The handlers look at no state of the    *)
(* inventory, the buttons at the state the screen shows: a button can be   *)
(* clicked as long as some state it is visible in has been shown, and a    *)
(* form that was opened before the validation can be saved after it: the   *)
(* lines are readonly in the view only.                                    *)
(*                                                                         *)
(* A place is what a quant is about: product, location and lot.  Left out: *)
(* prices (a line without price refuses the validation), the statuses that *)
(* select products, the alert on costs, the deletion of a line of a free   *)
(* inventory, and the document that the wizard makes of its proposal.      *)
(***************************************************************************)
EXTENDS Integers, Sequences, FiniteSets, Functions, SequencesExt

CONSTANTS
    Places,       \* product, location and lot
    ProductOf,    \* the product of a place
    LocationOf,   \* its location
    Main,         \* the location where a product without quant gets a line
    MaxQuantity,  \* bound: quantities are in 0 .. MaxQuantity
    MaxLines,     \* bound: lines of the inventory
    Missing,      \* a quant that does not exist
    Nothing       \* nothing is proposed by a wizard

ASSUME InventoryAssumption ==
    /\ MaxQuantity \in Nat \ {0} /\ MaxLines \in Nat \ {0}
    /\ Missing \notin Int
    /\ IsFiniteSet(Places)

VARIABLES
    quant,      \* stock.quant of each place
    state,      \* of the physical.inventory
    mode,       \* inventory_mode
    lines,      \* physical_line_ids, in the order of their ids
    opening,    \* stock at the date of the inventory
    wizard,     \* what the wizard that is open proposes; bound: one at a time
    shown,      \* states that a screen may still show
    sound       \* lines applied with a theoretical quantity that was right, and not
                \* written since (history)

inventoryVars ==
    <<quant, state, mode, lines, opening, wizard, shown, sound>>

Quantities == 0 .. MaxQuantity
States     == {"draft", "in_progress", "done"}

\* theoretical: the field quantity; fresh: it was read from the quant of the
\* place, and nothing but this inventory moved since; adjusted: what this
\* inventory moved since, as long as the line is fresh or sound (both history).
Line == [place : Places, counted : Quantities, theoretical : Int,
         fresh : BOOLEAN, adjusted : Int]

OnHand(p) == IF quant[p] = Missing THEN 0 ELSE quant[p]

Stock == [p \in Places |-> OnHand(p)]

\* qty_available of the product, in all places.
Available(p) == SumFunctionOnSet(Stock, {q \in Places : ProductOf[q] = ProductOf[p]})

InventoryInit ==
    /\ quant \in [Places -> Quantities \cup {Missing}]
    /\ state = "draft"
    /\ mode = "normal"
    /\ lines = <<>>
    /\ opening = Stock
    /\ wizard = Nothing
    /\ shown = {"draft"}
    /\ sound = {}

Offered(states) == shown \cap states # {}

Enter(s) ==
    /\ state' = s
    /\ shown' = shown \cup {s}

\* compute_qty_dif
Difference(l) == l.counted - l.theoretical

-----------------------------------------------------------------------------
(* Lines.                                                                  *)

\* Places that get a line: the quants, and one for a product without quant.
Listed ==
    {p \in Places :
        \/ quant[p] # Missing
        \/ /\ LocationOf[p] = Main
           /\ \A q \in Places : ProductOf[q] = ProductOf[p] => quant[q] = Missing}

\* A line that is made has not been counted, which is a count of zero.
Made(p, q, read) ==
    [place |-> p, counted |-> 0, theoretical |-> q, fresh |-> read, adjusted |-> 0]

\* Variant: a product without quant gets no theoretical quantity.
NewLine_NoQuant(p) == Made(p, quant[p], TRUE)

NewLine(p) == Made(p, OnHand(p), TRUE)

\* A line that is told a quantity which is not that of its quant.
Told(l, q) == [l EXCEPT !.theoretical = q, !.fresh = FALSE, !.adjusted = 0]

\* The quantity of the product is read again on every line.
ReadAgain(ls) == [i \in DOMAIN ls |-> Told(ls[i], Available(ls[i].place))]

\* create_line_physical: the lines of a free inventory are typed in; those of a
\* normal one are deleted, counts and all, and made anew.
Generate ==
    /\ Offered({"draft"})
    /\ \/ mode = "libre" /\ lines' = ReadAgain(lines) /\ sound' = {} /\ UNCHANGED <<wizard>>
       \/ /\ mode = "normal"
          /\ Cardinality(Listed) <= MaxLines
          /\ lines' = LET ps == SetToSeq(Listed) IN [i \in DOMAIN ps |-> NewLine(ps[i])]
          /\ sound' = {}
          /\ wizard' = Nothing
    /\ UNCHANGED <<quant, state, mode, opening, shown>>

\* inventory_mode can be changed in a form that shows a draft.
ChangeMode ==
    /\ Offered({"draft"})
    /\ mode' \in {"normal", "libre"} \ {mode}
    /\ UNCHANGED <<quant, state, lines, opening, wizard, shown, sound>>

\* A line is typed in, whatever the state: its theoretical quantity is not read.
AddLine ==
    /\ mode = "libre"
    /\ Len(lines) < MaxLines
    /\ \E p \in Places : lines' = Append(lines, Made(p, 0, FALSE))
    /\ UNCHANGED <<quant, state, mode, opening, wizard, shown, sound>>

\* A count, written by a form of then: nothing in write() looks at the state.
Counted(l, c) == [l EXCEPT !.counted = c, !.adjusted = IF l.fresh THEN l.adjusted ELSE 0]

Count ==
    /\ Offered({"draft", "in_progress"})
    /\ \E i \in DOMAIN lines, c \in Quantities :
          /\ c # lines[i].counted
          /\ lines' = [lines EXCEPT ![i] = Counted(lines[i], c)]
          /\ sound' = sound \ {i}
    /\ UNCHANGED <<quant, state, mode, opening, wizard, shown>>

\* The theoretical quantity is typed over, in a form that shows it.
TypeQuantity ==
    /\ Offered({"in_progress"})
    /\ \E i \in DOMAIN lines, q \in Quantities :
          /\ q # lines[i].theoretical
          /\ lines' = [lines EXCEPT ![i] = Told(lines[i], q)]
          /\ sound' = sound \ {i}
    /\ UNCHANGED <<quant, state, mode, opening, wizard, shown>>

-----------------------------------------------------------------------------
(* The inventory.                                                          *)

\* action_start: a free inventory reads its theoretical quantities here.
Start ==
    /\ Offered({"draft"})
    /\ lines # <<>>
    /\ \/ mode = "libre" /\ lines' = ReadAgain(lines) /\ sound' = {}
       \/ mode = "normal" /\ UNCHANGED <<lines, sound>>
    /\ Enter("in_progress")
    /\ UNCHANGED <<quant, mode, opening, wizard>>

\* action_draft
Reopen ==
    /\ Offered({"in_progress"})
    /\ Enter("draft")
    /\ UNCHANGED <<quant, mode, lines, opening, wizard, sound>>

LinesAt(p) == {i \in DOMAIN lines : lines[i].place = p}

\* Two lines of a free inventory may have one place: the last is applied.
Counts(i) == \A j \in DOMAIN lines : j > i => lines[j].place # lines[i].place

LastAt(p) == CHOOSE i \in LinesAt(p) : Counts(i)

\* Variant: the difference is applied to the quantity on hand.
Adjusted_ByDifference(p) ==
    LET d == OnHand(p) + Difference(lines[LastAt(p)]) IN
    IF LinesAt(p) = {} THEN quant[p]
    ELSE IF d \in Quantities THEN d ELSE 0

\* The last count of a place is applied; a quant that does not exist is made
\* for a count that is not zero.
Adjusted(p) ==
    IF LinesAt(p) = {} THEN quant[p]
    ELSE IF quant[p] = Missing /\ \A i \in LinesAt(p) : lines[i].counted = 0
    THEN Missing
    ELSE lines[LastAt(p)].counted

\* action_done: the quants are set to the counts, as they are now.
Validate ==
    /\ Offered({"in_progress"})
    /\ quant' = [p \in Places |-> Adjusted(p)]
    /\ lines' = [i \in DOMAIN lines |->
          LET p == lines[i].place
              moved == (IF Adjusted(p) = Missing THEN 0 ELSE Adjusted(p)) - OnHand(p)
          IN  [lines[i] EXCEPT !.adjusted =
                 IF lines[i].fresh THEN lines[i].adjusted + moved ELSE 0]]
    /\ sound' = {i \in DOMAIN lines : lines[i].fresh /\ Counts(i)}
    /\ Enter("done")
    /\ UNCHANGED <<mode, opening, wizard>>

\* unlink in draft; the next inventory starts with the stock of its own date.
Delete ==
    /\ state = "draft"
    /\ lines' = <<>> /\ sound' = {} /\ shown' = {"draft"}
    /\ mode' = "normal"
    /\ opening' = Stock
    /\ wizard' = Nothing
    /\ UNCHANGED <<quant, state>>

Disturbs(l, p) == l.place = p

\* A line whose quant was moved by others.
Disturbed(l, adjusted) == [l EXCEPT !.fresh = FALSE, !.adjusted = adjusted]

\* A sale, a receipt or a transfer.
MoveGoods ==
    \E p \in Places, q \in Quantities :
        /\ q # OnHand(p)
        /\ quant' = [quant EXCEPT ![p] = q]
        /\ lines' = [i \in DOMAIN lines |->
              IF Disturbs(lines[i], p)
              THEN Disturbed(lines[i], IF i \in sound THEN lines[i].adjusted ELSE 0)
              ELSE lines[i]]
        /\ UNCHANGED <<state, mode, opening, wizard, shown, sound>>

-----------------------------------------------------------------------------
(* The wizards.                                                            *)

\* Movements replayed up to a date, at the location chosen in the wizard: those
\* of the inventory bear its own date.
Replayed(p, date, location) ==
    LET places == {q \in Places : ProductOf[q] = ProductOf[p] /\ LocationOf[q] = location}
    IN  SumFunctionOnSet(IF date = "opening" THEN opening ELSE Stock, places)

\* action_search_lines: the lines whose difference has a value.
SearchCorrection ==
    LET chosen == {i \in DOMAIN lines : Difference(lines[i]) # 0} IN
    /\ chosen # {}
    /\ \E date \in {"opening", "now"}, location \in {LocationOf[p] : p \in Places} :
          wizard' = [date |-> date, quantity |-> [i \in chosen |-> Replayed(lines[i].place, date, location)]]
    /\ UNCHANGED <<quant, state, mode, lines, opening, shown, sound>>

\* action_apply, on the lines left ticked; no stock moves.
ApplyCorrection ==
    /\ wizard # Nothing /\ wizard.date # "claim"
    /\ \E chosen \in SUBSET DOMAIN wizard.quantity \ {{}} :
          /\ lines' = [i \in DOMAIN lines |->
                IF i \in chosen THEN Told(lines[i], wizard.quantity[i]) ELSE lines[i]]
          /\ sound' = sound \ chosen
    /\ wizard' = Nothing
    /\ UNCHANGED <<quant, state, mode, opening, shown>>

\* Variant: the surplus is claimed too.
Claimable_Any(l) == Difference(l) # 0

Claimable(l) == Difference(l) < 0

\* action_open_retour_inventaire: what is missing is proposed.
OpenClaim ==
    LET chosen == {i \in DOMAIN lines : Claimable(lines[i])} IN
    /\ state = "done"
    /\ chosen # {}
    /\ wizard' = [date |-> "claim", quantity |-> [i \in chosen |->
          IF Difference(lines[i]) < 0 THEN -Difference(lines[i]) ELSE Difference(lines[i])]]
    /\ UNCHANGED <<quant, state, mode, lines, opening, shown, sound>>

-----------------------------------------------------------------------------
InventoryNext ==
    \/ Generate \/ ChangeMode \/ AddLine \/ Count \/ TypeQuantity
    \/ Start \/ Reopen \/ Validate \/ Delete
    \/ MoveGoods
    \/ SearchCorrection \/ ApplyCorrection \/ OpenClaim

InventorySpec == InventoryInit /\ [][InventoryNext]_inventoryVars

-----------------------------------------------------------------------------
\* Type invariant of the inventory, its lines, the quants and the wizards.
InventoryTypeOK ==
    /\ quant \in [Places -> Quantities \cup {Missing}]
    /\ state \in States /\ shown \subseteq States
    /\ mode \in {"normal", "libre"}
    /\ lines \in Seq(Line) /\ Len(lines) <= MaxLines
    /\ opening \in [Places -> Quantities]
    /\ wizard # Nothing => /\ wizard.date \in {"opening", "now", "claim"}
                           /\ DOMAIN wizard.quantity \subseteq DOMAIN lines
    /\ sound \subseteq DOMAIN lines

\* What the inventory shows is what it did: on a line whose theoretical quantity
\* was read from its quant, with no sale or receipt before the validation, and that
\* no form, wizard or button has written since, the difference shown is the quantity
\* that the inventory moved, however often it was reopened, counted again and validated
\* again.
DifferenceIsAdjustment ==
    state = "done" => \A i \in sound : lines[i].adjusted = Difference(lines[i])

\* A supplier is asked to credit what the stock lost: on such a line, the
\* quantity proposed is the one that the inventory took off the stock.
ClaimIsLoss ==
    [][wizard' # wizard /\ wizard' # Nothing /\ wizard'.date = "claim" =>
          \A i \in DOMAIN wizard'.quantity \cap sound :
              wizard'.quantity[i] = -lines[i].adjusted]_inventoryVars

\* The invariant of an inventory: its types, and differences that are its adjustments.
InventoryInv == InventoryTypeOK /\ DifferenceIsAdjustment
=============================================================================
