--------------------------- MODULE LoyaltyPoints ---------------------------
(***************************************************************************)
(* The points of one client's loyalty card (custom_loyalty), which are     *)
(* money: orders of the tills pay with them and credit their change to     *)
(* them, the back office does both, and a sheet of balances is imported.   *)
(*                                                                         *)
(* Each handler is one transaction.  Left out: the points that Odoo's own  *)
(* programme gives for an order, the texts of the history, and the second  *)
(* card that a client may have, which no handler looks at.                 *)
(***************************************************************************)
EXTENDS Integers

CONSTANTS
    TillOrders,   \* pos.order of the client
    MaxPoints,    \* bound: points of the card
    MaxHistory,   \* bound: what the rows add up to
    MaxAmount     \* bound: one payment, or one change

ASSUME LoyaltyAssumption == MaxPoints \in Nat /\ MaxHistory \in Nat /\ MaxAmount \in Nat \ {0}

VARIABLES
    points,       \* of the loyalty.card
    history,      \* issued less used, over the rows of loyalty.history
    excluded,     \* no_loyalty_points of the client
    till,         \* the orders
    sheet,        \* points_new that the import wizard has loaded, or NoSheet
    told,         \* the balance of the last sheet that was confirmed (history variable)
    written       \* points less history, at that import (history variable)

loyaltyVars == <<points, history, excluded, till, sheet, told, written>>

\* A sheet holds any number, a negative one too.
Sheets == -MaxPoints .. MaxPoints

NoSheet == MaxPoints + 1

\* change: rendu_monnaie; credited: changes that the order has credited (history).
TillOrder == [state : {"none", "draft", "paid", "done"}, change : 0 .. MaxAmount, credited : Nat]

NoTillOrder == [state |-> "none", change |-> 0, credited |-> 0]

LoyaltyInit ==
    /\ points = 0 /\ history = 0 /\ told = 0 /\ written = 0
    /\ excluded = FALSE
    /\ till = [o \in TillOrders |-> NoTillOrder]
    /\ sheet = NoSheet

\* Variant: a refund makes no row.
Move_Unrecorded(amount, refund) ==
    /\ points + amount <= MaxPoints
    /\ points' = points + amount
    /\ history' = IF refund THEN history ELSE history + amount

\* points is written, and a row of history is made, in one transaction.
Move(amount, refund) ==
    /\ points + amount <= MaxPoints
    /\ history + amount \in -MaxHistory .. MaxHistory
    /\ points' = points + amount
    /\ history' = history + amount

\* Variant: the change given with the order may pay for it.
Spendable_Unchecked(amount) == amount <= points + MaxAmount

\* _check_loyalty_before_payment, _check_loyalty
Spendable(amount) == amount <= points

-----------------------------------------------------------------------------
(* Orders of the tills.                                                    *)

\* Variant: the change is credited whenever the order is saved.
SaveDraft_Credits(o) ==
    /\ till[o].state \in {"none", "draft"}
    /\ \E c \in 1 .. MaxAmount :
          /\ Move(c, FALSE)
          /\ till' = [till EXCEPT ![o].state = "draft", ![o].change = c, ![o].credited = @ + c]
    /\ UNCHANGED <<excluded, sheet, told, written>>

\* An order that is not paid is saved, with the change entered so far.
SaveDraft(o) ==
    /\ till[o].state \in {"none", "draft"}
    /\ \E c \in 0 .. MaxAmount : till' = [till EXCEPT ![o].state = "draft", ![o].change = c]
    /\ UNCHANGED <<points, history, excluded, sheet, told, written>>

\* What an order that is paid takes from the card, negative for a refund, and its change: a
\* refund gives none.
Amounts == {p \in (-MaxAmount .. MaxAmount) \X (0 .. MaxAmount) : p[1] < 0 => p[2] = 0}

\* _process_saved_order, _process_rendu_monnaie_loyalty
Creditable(after, change) == after = "paid" /\ change > 0 /\ ~excluded

\* The payment with the card, then the change; an order that is invoiced at once
\* is no longer paid when the change is looked at.  An order that was paid is
\* recognised when it is sent again (Odoo), and nothing is done.
PayTillOrder(o) ==
    /\ till[o].state \in {"none", "draft"}
    /\ \E p \in Amounts, after \in {"paid", "done"} :
          LET change == IF Creditable(after, p[2]) THEN p[2] ELSE 0 IN
          /\ Spendable(p[1])
          /\ Move(change - p[1], p[1] < 0)
          /\ till' = [till EXCEPT ![o] =
                [state |-> after, change |-> p[2], credited |-> @.credited + change]]
    /\ UNCHANGED <<excluded, sheet, told, written>>

-----------------------------------------------------------------------------
(* The back office.                                                        *)

\* action_create_payments with a journal of loyalty cards.
PayInvoice ==
    /\ \E a \in 1 .. MaxAmount : Spendable(a) /\ Move(-a, FALSE)
    /\ UNCHANGED <<excluded, till, sheet, told, written>>

\* update_loyalty_card: the change of a sale is typed in.
TypeChange ==
    /\ \E a \in 1 .. MaxAmount : Move(a, FALSE)
    /\ UNCHANGED <<excluded, till, sheet, told, written>>

ExcludeClient ==
    /\ excluded' = ~excluded
    /\ UNCHANGED <<points, history, till, sheet, told, written>>

\* action_load_file
LoadSheet ==
    /\ sheet' \in Sheets
    /\ UNCHANGED <<points, history, excluded, till, told, written>>

\* action_confirm: the balance of the sheet, without a row of history.
ConfirmSheet ==
    /\ sheet # NoSheet
    /\ points' = sheet
    /\ told' = sheet
    /\ written' = sheet - history
    /\ sheet' = NoSheet
    /\ UNCHANGED <<history, excluded, till>>

-----------------------------------------------------------------------------
LoyaltyNext ==
    \/ \E o \in TillOrders : SaveDraft(o) \/ PayTillOrder(o)
    \/ PayInvoice \/ TypeChange \/ ExcludeClient \/ LoadSheet \/ ConfirmSheet

LoyaltySpec == LoyaltyInit /\ [][LoyaltyNext]_loyaltyVars
-----------------------------------------------------------------------------
\* Type invariant of the card, its orders and the sheet.
LoyaltyTypeOK ==
    /\ points \in Sheets /\ told \in Sheets
    /\ history \in -MaxHistory .. MaxHistory
    /\ excluded \in BOOLEAN
    /\ till \in [TillOrders -> TillOrder]
    /\ sheet \in {NoSheet} \cup Sheets
    /\ written \in Int

\* Points, which are money, are never spent below zero, whichever of the tills and the
\* back office takes them: a balance is negative only as far as a sheet made it so.
PointsAreThere == points >= 0 \/ points >= told

\* The rows of the history explain the balance since the last import: payments,
\* refunds, changes and the back office leave a row for all they write.
BalanceIsExplained == points = history + written

\* The change of an order is on the card once, and only when the order is paid,
\* though the order is saved several times before, with other changes.
ChangeIsCreditedOnce ==
    \A o \in TillOrders :
        /\ till[o].state # "paid" => till[o].credited = 0
        /\ till[o].credited \in {0, till[o].change}

\* The invariant of a card: it is not overdrawn, its balance is told by its history, and
\* it got the change of each order once.
LoyaltyInv == LoyaltyTypeOK /\ PointsAreThere /\ BalanceIsExplained /\ ChangeIsCreditedOnce
=============================================================================
