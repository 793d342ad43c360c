---------------------------- MODULE LimitCredit ----------------------------
(***************************************************************************)
(* The credit limit of one client (limit.credit): what is sold on account  *)
(* at the till, the invoices in payment mode "credit" of custom_account,   *)
(* the settlements and their cancellation, the wizards and the import of   *)
(* custom_food_credit and custom_import_excel.  Clients do not interact.   *)
(*                                                                         *)
(* Every handler is one transaction that writes the limit's own row: two   *)
(* at once conflict and the second runs again, so each is one action.  The *)
(* import of a sheet is two: it reads when it is loaded and writes when    *)
(* the user confirms.  A handler that raises is undone, and is no step.    *)
(*                                                                         *)
(* Left out: the motive "Réglé une facture" of the wizard, which raises    *)
(* after its writes whatever is entered (it reads invoice_id, a field it   *)
(* does not have); payments registered without linked_limit, which touch   *)
(* nothing here; the client of a limit, which the list lets one change;    *)
(* and the controls of sale.order, which are commented out.                *)
(***************************************************************************)
EXTENDS Integers, FiniteSets, Functions

CONSTANTS
    Documents,   \* invoices and credit notes of the client
    Payments,    \* account.payment registered with linked_limit
    MaxDue,      \* bound: amounts are in 1 .. MaxDue
    MaxLimit,    \* bound: ceilings are in 0 .. MaxLimit, balances within MaxLimit of 0
    Unread,      \* no sheet is loaded
    Lost         \* the consumption was changed for no document

ASSUME AmountsAssumption ==
    /\ MaxDue \in Nat \ {0}
    /\ MaxLimit \in Nat \ {0}
    /\ Unread \notin [consumed : Int, twice : BOOLEAN] /\ Lost \notin Int
    /\ IsFiniteSet(Documents) /\ IsFiniteSet(Payments)

VARIABLES
    limit,      \* the limit.credit record
    document,   \* account.move
    payment,    \* account.payment
    loaded,     \* import.limit.credit.wizard: the sheet it has read
    direct      \* till sales less refunds and sums paid directly (history)

limitVars == <<limit, document, payment, loaded, direct>>

Dues     == 1 .. MaxDue
Ceilings == 0 .. MaxLimit
Balances == -MaxLimit .. MaxLimit

\* open: the record exists, as long as the client has is_limit; ledger: sum of
\* its operations, changes of the ceiling excepted; typed: what was added to the
\* consumption in the list, which makes no operation (history).
Limit == [open : BOOLEAN, ceiling : Ceilings, consumed : Balances, ledger : Balances,
          typed : Balances]

NoLimit == [open |-> FALSE, ceiling |-> 0, consumed |-> 0, ledger |-> 0, typed |-> 0]

\* The consumption that the wizard read, and whether the client is found twice in the
\* sheet (bound: no more often).
Sheet == [consumed : Balances, twice : BOOLEAN]

\* credit: mode_payment is credit; counted: is_limit; inherited: is_limit came
\* with a copy, and the document has not been posted since (history).
Document == [state : {"none", "draft", "posted", "cancel"}, credit : BOOLEAN,
             counted : BOOLEAN, inherited : BOOLEAN, amount : Dues]

NoDocument == [state |-> "none", credit |-> FALSE, counted |-> FALSE,
               inherited |-> FALSE, amount |-> 1]

Payment == [state : {"none", "live", "canceled"}, linked : BOOLEAN, amount : Dues]

NoPayment == [state |-> "none", linked |-> FALSE, amount |-> 1]

LimitInit ==
    /\ limit = NoLimit
    /\ document = [d \in Documents |-> NoDocument]
    /\ payment = [p \in Payments |-> NoPayment]
    /\ loaded = Unread
    /\ direct = 0

-----------------------------------------------------------------------------
\* The consumption and its operation.
Consume(amount) ==
    /\ limit.consumed + amount \in Balances /\ limit.ledger + amount \in Balances
    /\ limit' = [limit EXCEPT !.consumed = @ + amount, !.ledger = @ + amount]

\* An amount that no document stands for.
Direct(amount) ==
    IF direct = Lost THEN direct' = Lost
    ELSE direct + amount \in Balances /\ direct' = direct + amount

\* Variant: the amount is compared with the ceiling.
Fits_Alone(amount) == limit.open /\ amount <= limit.ceiling

\* The available balance covers the amount.
Fits(amount) == limit.open /\ amount <= limit.ceiling - limit.consumed

\* pos.payment on a method on account; a refund has a negative amount.
PayAtTill(amount) ==
    /\ Fits(amount)
    /\ Consume(amount)
    /\ Direct(amount)
    /\ UNCHANGED <<document, payment, loaded>>

-----------------------------------------------------------------------------
(* Invoices.                                                               *)

CreateDocument(d) ==
    /\ document[d].state = "none"
    /\ \E c \in BOOLEAN, a \in Dues :
          document' = [document EXCEPT ![d] =
              [NoDocument EXCEPT !.state = "draft", !.credit = c, !.amount = a]]
    /\ UNCHANGED <<limit, payment, loaded, direct>>

\* mode_payment and the lines can be changed in draft.
EditDocument(d) ==
    /\ document[d].state = "draft"
    /\ \E c \in BOOLEAN, a \in Dues :
          document' = [document EXCEPT ![d].credit = c, ![d].amount = a]
    /\ UNCHANGED <<limit, payment, loaded, direct>>

\* A duplicate or a credit note: mode_payment and is_limit are copied.
CopyDocument(o, d) ==
    /\ document[o].state # "none"
    /\ document[d].state = "none"
    /\ document' = [document EXCEPT ![d] =
          [document[o] EXCEPT !.state = "draft", !.inherited = document[o].counted]]
    /\ UNCHANGED <<limit, payment, loaded, direct>>

\* A credit note consumes like an invoice: the amount has no sign.
action_post(d) ==
    /\ document[d].state = "draft"
    /\ IF document[d].credit
       THEN /\ Fits(document[d].amount)
            /\ Consume(document[d].amount)
            /\ document' = [document EXCEPT ![d].state = "posted",
                               ![d].counted = TRUE, ![d].inherited = FALSE]
       ELSE /\ document' = [document EXCEPT ![d].state = "posted"]
            /\ UNCHANGED limit
    /\ UNCHANGED <<payment, loaded, direct>>

\* Variant: is_limit is not cleared.
Retire_Keeps(d, state) ==
    IF document[d].credit /\ document[d].counted /\ limit.open
    THEN /\ Consume(-document[d].amount)
         /\ document' = [document EXCEPT ![d].state = state, ![d].inherited = FALSE]
         /\ direct' = IF document[d].inherited THEN Lost ELSE direct
    ELSE /\ document' = [document EXCEPT ![d].state = state]
         /\ UNCHANGED <<limit, direct>>

\* _retire_credit_limit, on the way to a state.
Retire(d, state) ==
    IF document[d].credit /\ document[d].counted /\ limit.open
    THEN /\ Consume(-document[d].amount)
         /\ document' = [document EXCEPT ![d].state = state,
                            ![d].counted = FALSE, ![d].inherited = FALSE]
         /\ direct' = IF document[d].inherited THEN Lost ELSE direct
    ELSE /\ document' = [document EXCEPT ![d].state = state]
         /\ UNCHANGED <<limit, direct>>

DraftDocument(d) ==
    /\ document[d].state \in {"posted", "cancel"}
    /\ Retire(d, "draft")
    /\ UNCHANGED <<payment, loaded>>

\* A posted document is reset to draft on its way.
CancelDocument(d) ==
    /\ \/ document[d].state = "posted" /\ Retire(d, "cancel")
       \/ /\ document[d].state = "draft"
          /\ document' = [document EXCEPT ![d].state = "cancel"]
          /\ UNCHANGED <<limit, direct>>
    /\ UNCHANGED <<payment, loaded>>

-----------------------------------------------------------------------------
(* Settlements of invoices.                                                *)

\* action_create_payments with linked_limit, on a posted document.
RegisterPayment(p) ==
    /\ payment[p].state = "none"
    /\ \E d \in Documents : document[d].state = "posted"
    /\ \E a \in Dues :
         /\ limit.open
         /\ a <= limit.consumed
         /\ Consume(-a)
         /\ payment' = [payment EXCEPT ![p] =
                          [state |-> "live", linked |-> TRUE, amount |-> a]]
    /\ UNCHANGED <<document, loaded, direct>>

\* account.payment._retire_limit: the consumption is restored and the payment
\* is linked no more; without a limit, or when the invoices of the payment were deleted,
\* nothing happens.
Restore(p) ==
    \/ /\ payment[p].linked /\ limit.open
       /\ Consume(payment[p].amount)
       /\ payment' = [payment EXCEPT ![p].state = "canceled", ![p].linked = FALSE]
       /\ UNCHANGED direct
    \/ /\ payment' = [payment EXCEPT ![p].state = "canceled"]
       /\ direct' = IF payment[p].linked THEN Lost ELSE direct
       /\ UNCHANGED limit

action_cancel(p) ==
    /\ payment[p].state = "live"
    /\ Restore(p)
    /\ UNCHANGED <<document, loaded>>

\* The wizard catches up with a cancellation that restored nothing.
_process_cancel_payment(p) ==
    /\ payment[p].state = "canceled"
    /\ payment[p].linked
    /\ limit.open
    /\ Restore(p)
    /\ UNCHANGED <<document, loaded>>

\* Reset to draft and posted again: the consumption does not follow.
RepostPayment(p) ==
    /\ payment[p].state = "canceled"
    /\ payment' = [payment EXCEPT ![p].state = "live"]
    /\ direct' = Lost
    /\ UNCHANGED <<limit, document, loaded>>

\* The payment's form lets linked_limit be unticked.
Unlink(p) ==
    /\ payment[p].linked
    /\ payment' = [payment EXCEPT ![p].linked = FALSE]
    /\ direct' = Lost
    /\ UNCHANGED <<limit, document, loaded>>

-----------------------------------------------------------------------------
(* The limit itself.                                                       *)

\* The client's form and the contacts of X3 write is_limit and the ceiling
\* without looking at the consumption.  The record is made and deleted with
\* is_limit, and what the client owes with it.
WriteClient ==
    /\ \E c \in Ceilings :
         limit' = IF limit.open THEN [limit EXCEPT !.ceiling = c]
                                ELSE [NoLimit EXCEPT !.open = TRUE, !.ceiling = c]
    /\ UNCHANGED <<document, payment, loaded, direct>>

\* A sheet loaded for the deleted record has no one to write to any more.
DeleteLimit ==
    /\ limit.open
    /\ limit' = NoLimit
    /\ loaded' = Unread
    /\ direct' = Lost
    /\ UNCHANGED <<document, payment>>

_process_limit_update ==
    /\ limit.open
    /\ \E c \in Ceilings :
         /\ c >= limit.consumed
         /\ limit' = [limit EXCEPT !.ceiling = c]
    /\ UNCHANGED <<document, payment, loaded, direct>>

_process_conso_update ==
    /\ limit.open
    /\ \E a \in Dues :
         /\ a <= limit.consumed
         /\ Consume(-a)
         /\ Direct(-a)
    /\ UNCHANGED <<document, payment, loaded>>

\* The list of limits is edited in place: a consumption is typed over the present one,
\* with a ceiling.
TypeLimit ==
    /\ limit.open
    /\ \E n \in Balances, c \in Ceilings :
         /\ limit.typed + n - limit.consumed \in Balances
         /\ limit' = [limit EXCEPT !.consumed = n, !.ceiling = c,
                                   !.typed = @ + n - limit.consumed]
    /\ direct' = Lost
    /\ UNCHANGED <<document, payment, loaded>>

LoadLimits ==
    /\ limit.open
    /\ \E t \in BOOLEAN : loaded' = [consumed |-> limit.consumed, twice |-> t]
    /\ UNCHANGED <<limit, document, payment, direct>>

\* Variant: the operation holds the new consumption itself.
Imported_Whole(n, first) == [limit EXCEPT !.consumed = n, !.ledger = @ + n + first]

\* What the sheet says replaces the consumption of now; the operation is the difference
\* with the consumption of then, after that of a first row of the client.
Imported(n, first) ==
    [limit EXCEPT !.consumed = n, !.ledger = @ + (n - loaded.consumed) + first]

\* The operation of the row before the last one of the client.
FirstRows == IF loaded.twice THEN {n - loaded.consumed : n \in Balances} ELSE {0}

\* The rows are written in turn, each with the difference from what was read.
ConfirmLimits ==
    /\ loaded # Unread
    /\ \E n \in Balances : \E first \in FirstRows :
         Imported(n, first) \in Limit /\ limit' = Imported(n, first)
    /\ loaded' = Unread
    /\ direct' = Lost
    /\ UNCHANGED <<document, payment>>

-----------------------------------------------------------------------------
LimitNext ==
    \/ \E a \in Dues : PayAtTill(a) \/ PayAtTill(-a)
    \/ \E d \in Documents :
         \/ CreateDocument(d) \/ EditDocument(d) \/ action_post(d)
         \/ DraftDocument(d) \/ CancelDocument(d)
         \/ \E o \in Documents : CopyDocument(o, d)
    \/ \E p \in Payments :
         \/ RegisterPayment(p) \/ action_cancel(p) \/ _process_cancel_payment(p)
         \/ RepostPayment(p) \/ Unlink(p)
    \/ WriteClient \/ DeleteLimit \/ _process_limit_update \/ _process_conso_update
    \/ TypeLimit \/ LoadLimits \/ ConfirmLimits

LimitSpec == LimitInit /\ [][LimitNext]_limitVars

-----------------------------------------------------------------------------
(* Properties.                                                             *)

\* Every variable has its type.
LimitTypeOK ==
    /\ limit \in Limit
    /\ document \in [Documents -> Document]
    /\ payment \in [Payments -> Payment]
    /\ loaded \in Sheet \union {Unread}
    /\ direct \in Balances \union {Lost}

InvoicedOnAccount == {d \in Documents : document[d].state = "posted" /\ document[d].credit}
SettledOnAccount  == {p \in Payments : payment[p].state = "live"}

\* The amounts of documents, or of payments.
AmountOf(rows) == [r \in DOMAIN rows |-> rows[r].amount]

\* The consumption, which every handler adds to or takes from, is what the
\* documents say: till sales, plus the posted documents on credit, less the
\* settlements in force, however often documents were posted, changed, reset,
\* cancelled or settled.  It stops being so only when the limit is deleted,
\* imported or typed over, or one of four gaps in the code is met (a never posted copy
\* reset to draft, a cancelled payment posted again, linked_limit unticked, a settlement
\* cancelled whose invoice was deleted).
ConsumptionIsExplained ==
    direct # Lost =>
        limit.consumed = direct
            + SumFunctionOnSet(AmountOf(document), InvoicedOnAccount)
            - SumFunctionOnSet(AmountOf(payment), SettledOnAccount)

\* What neither the operations of a limit nor what was typed in the list explain.
Gap(l) == IF l.open THEN l.consumed - l.ledger - l.typed ELSE 0

\* The operations of a limit trace its consumption, but for what is typed in the list: they
\* part when a sheet is confirmed after the consumption has moved since it was loaded, or
\* in which the client is found twice.
LedgerTracesConsumption ==
    [][Gap(limit') # Gap(limit)
          => \/ /\ loaded # Unread /\ loaded' = Unread
                /\ loaded.consumed # limit.consumed \/ loaded.twice
             \/ ~limit'.open]_limitVars

Over(l) == l.open /\ l.consumed > l.ceiling

\* No sequence of sales, invoices, settlements and updates by the wizard takes
\* the consumption over the ceiling: only the client's form, the list of limits, an
\* import or the cancellation of a settlement does.
LimitRespected ==
    [][Over(limit') /\ ~Over(limit) =>
          \/ limit'.ceiling # limit.ceiling \/ limit'.typed # limit.typed
          \/ loaded # Unread /\ loaded' = Unread
          \/ \E p \in Payments : payment[p].linked /\ ~payment'[p].linked]_limitVars

\* The invariant of a limit: its types, and a consumption that the documents explain.
LimitInv == LimitTypeOK /\ ConsumptionIsExplained
=============================================================================
