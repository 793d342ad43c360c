----------------------------- MODULE Receptions -----------------------------
(***************************************************************************)
(* Receipts of one purchase order and its supplier bills (custom_stock):   *)
(* the validation of a receipt prices the order and bills what was         *)
(* received, whatever bills, credit notes and returns there are by then.   *)
(*                                                                         *)
(* One order line, billed on received quantities.  Each handler is one     *)
(* transaction; one that raises is undone and is no step.  So are two      *)
(* receipts of an order validated together: the first is billed for both,  *)
(* and the second finds nothing to bill, which raises.                     *)
(***************************************************************************)
EXTENDS Integers, FiniteSets, Functions

CONSTANTS
    Receipts,     \* incoming stock.picking of the order
    Bills,        \* account.move of the order: bills and credit notes
    MaxReceived,  \* bound: quantity of a receipt
    Prices        \* unit prices, 0 for none

ASSUME ReceptionAssumption ==
    /\ MaxReceived \in Nat \ {0} /\ Prices \subseteq Nat /\ 0 \in Prices
    /\ IsFiniteSet(Receipts) /\ IsFiniteSet(Bills)

VARIABLES
    receipt,      \* state, quantity and price_unit of its move
    returned,     \* quantity returned to the supplier
    orderPrice,   \* price_unit of the order line
    bill          \* state, signed quantity and price

receptionVars == <<receipt, returned, orderPrice, bill>>

Quantity == 1 .. MaxReceived

\* Bound: what the bills of one order can add up to.
MaxBilled == MaxReceived * Cardinality(Receipts)

Receipt == [state : {"none", "open", "done", "cancel"}, quantity : Quantity, price : Prices]

\* A credit note has a negative quantity.
Bill == [state : {"none", "draft", "posted", "cancel"}, quantity : Int, price : Prices]

NoReceipt == [state |-> "none", quantity |-> 1, price |-> 0]
NoBill    == [state |-> "none", quantity |-> 0, price |-> 0]

ReceptionInit ==
    /\ Prices \ {0} # {}
    /\ receipt = [r \in Receipts |-> NoReceipt]
    /\ returned = 0
    /\ orderPrice \in Prices \ {0}
    /\ bill = [b \in Bills |-> NoBill]

QuantityOf(rows) == [x \in DOMAIN rows |-> rows[x].quantity]

Sum(rows, S) == SumFunctionOnSet(QuantityOf(rows), S)

Done == {r \in Receipts : receipt[r].state = "done"}

\* Variant: a return is not counted against what was received.
QtyReceived_Gross == Sum(receipt, Done)

\* qty_received: a return is counted against it.
QtyReceived == Sum(receipt, Done) - returned

Billed(bs) == Sum(bs, {b \in Bills : bs[b].state \in {"draft", "posted"}})

-----------------------------------------------------------------------------
(* The stock.                                                              *)

\* A receipt is planned, at the price of the order or without one.
PlanReceipt(r) ==
    /\ receipt[r].state = "none"
    /\ \E q \in Quantity, p \in {orderPrice, 0} :
          receipt' = [receipt EXCEPT ![r] = [state |-> "open", quantity |-> q, price |-> p]]
    /\ UNCHANGED <<returned, orderPrice, bill>>

\* The price of the goods is typed in at the reception.
EnterPrice(r) ==
    /\ receipt[r].state = "open"
    /\ \E p \in Prices \ {receipt[r].price} : receipt' = [receipt EXCEPT ![r].price = p]
    /\ UNCHANGED <<returned, orderPrice, bill>>

CancelReceipt(r) ==
    /\ receipt[r].state = "open"
    /\ receipt' = [receipt EXCEPT ![r].state = "cancel"]
    /\ UNCHANGED <<returned, orderPrice, bill>>

\* Goods go back with a picking of type outgoing, which bills nothing.
ReturnGoods ==
    /\ QtyReceived > 0
    /\ \E q \in 1 .. QtyReceived : returned' = returned + q
    /\ UNCHANGED <<receipt, orderPrice, bill>>

-----------------------------------------------------------------------------
(* The bills.                                                              *)

\* Variant: the draft bills are kept.
WithoutDrafts_Kept(bs) == bs

\* The draft bills of the order are deleted, credit notes too.
WithoutDrafts(bs) ==
    [b \in Bills |-> IF bs[b].state = "draft" THEN NoBill ELSE bs[b]]

\* qty_to_invoice
ToBill(received, bs) == received - Billed(bs)

\* Variant: the bill is made before the order has the price of the receipt.
BillPrice_Order(r) == orderPrice

BillPrice(r) == receipt[r].price

\* button_validate of a receipt, then _sync_invoice_from_reception: drafts
\* deleted, order priced, what is to bill billed and posted.  With nothing to
\* bill, action_create_invoice raises and the goods are not received.
ValidateReceipt(r) ==
    LET kept == WithoutDrafts(bill)
        quantity == ToBill(QtyReceived + receipt[r].quantity, kept)
    IN
    /\ receipt[r].state = "open"
    /\ receipt[r].price # 0
    /\ quantity # 0
    /\ receipt' = [receipt EXCEPT ![r].state = "done"]
    /\ orderPrice' = receipt[r].price
    /\ \E b \in {x \in Bills : kept[x].state = "none"} :
          bill' = [kept EXCEPT ![b] =
              [state |-> "posted", quantity |-> quantity, price |-> BillPrice(r)]]
    /\ UNCHANGED returned

\* The accountant bills the order by hand.
CreateBill(b) ==
    /\ bill[b].state = "none"
    /\ ToBill(QtyReceived, bill) # 0
    /\ bill' = [bill EXCEPT ![b] =
          [state |-> "draft", quantity |-> ToBill(QtyReceived, bill), price |-> orderPrice]]
    /\ UNCHANGED <<receipt, returned, orderPrice>>

\* A credit note of a posted bill, in draft.
ReverseBill(o, b) ==
    /\ bill[o].state = "posted" /\ bill[o].quantity > 0
    /\ bill[b].state = "none"
    /\ Billed(bill) - bill[o].quantity >= -MaxBilled
    /\ bill' = [bill EXCEPT ![b] =
          [state |-> "draft", quantity |-> -bill[o].quantity, price |-> bill[o].price]]
    /\ UNCHANGED <<receipt, returned, orderPrice>>

\* action_post, button_draft, button_cancel.
BillStates == {<<"draft", "posted">>, <<"posted", "draft">>, <<"draft", "cancel">>}

ChangeBill(b) ==
    /\ \E s \in {"draft", "posted", "cancel"} :
          /\ <<bill[b].state, s>> \in BillStates
          /\ bill' = [bill EXCEPT ![b].state = s]
    /\ UNCHANGED <<receipt, returned, orderPrice>>

-----------------------------------------------------------------------------
ReceptionNext ==
    \/ \E r \in Receipts : PlanReceipt(r) \/ EnterPrice(r) \/ CancelReceipt(r)
                             \/ ValidateReceipt(r)
    \/ ReturnGoods
    \/ \E b \in Bills : CreateBill(b) \/ ChangeBill(b)
    \/ \E o, b \in Bills : ReverseBill(o, b)

ReceptionSpec == ReceptionInit /\ [][ReceptionNext]_receptionVars

-----------------------------------------------------------------------------
\* Type invariant of receipts and bills.
ReceptionTypeOK ==
    /\ receipt \in [Receipts -> Receipt]
    /\ returned \in Nat
    /\ orderPrice \in Prices
    /\ bill \in [Bills -> Bill]

\* No more goes back to the supplier than came.
ReturnedWasReceived == returned <= Sum(receipt, Done)

\* The invariant of the receipts of an order.
ReceptionInv == ReceptionTypeOK /\ ReturnedWasReceived

IsValidated(r) == receipt[r].state = "open" /\ receipt'[r].state = "done"

\* A receipt settles the bills of its order: whatever was billed by hand,
\* credited, put back to draft or returned before, once it is validated the
\* posted bills and credit notes add up to the goods received and not returned,
\* no draft is left to bill them twice, and the bill made for the receipt is at the
\* price typed in there.
BilledIsReceived ==
    [][(\E r \in Receipts : IsValidated(r)) =>
          /\ \A b \in Bills : bill'[b].state # "draft"
          /\ Sum(bill', {b \in Bills : bill'[b].state = "posted"}) = Sum(receipt', Done') - returned'
          /\ \A r \in Receipts, b \in Bills :
                IsValidated(r) /\ bill[b].state # "posted" /\ bill'[b].state = "posted"
                    => bill'[b].price = receipt[r].price
      ]_receptionVars
=============================================================================
