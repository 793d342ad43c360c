--------------------------- MODULE TillApprovals ---------------------------
(***************************************************************************)
(* The access codes of a till (custom_pos): pay() has a manager allow a    *)
(* lowered price, a manual discount or a product out of stock, and what he *)
(* allowed is logged when the ticket is paid.                              *)
(*                                                                         *)
(* Every await of a handler but one ends a step; while a call is on its    *)
(* way the cashier goes on, and may click again; while a code is asked     *)
(* for, the overlay takes every input.  Each call may fail (no network) on *)
(* its own.  A code is entered and judged in one step: what the cashier    *)
(* does between the overlay and the answer of validateManagerCode is left  *)
(* out.  So are the amounts, the texts, and who the manager is.            *)
(***************************************************************************)
EXTENDS Integers, Sequences, FiniteSets

CONSTANTS
    Tickets,      \* pos.order at this till
    NoTicket,     \* the ticket of a handler that does not run
    Clicks,       \* handlers of the page that may run at once
    Carts,        \* what the lines of a ticket may hold
    Roles,        \* groups of the user: "caissiere", "superviseur", or "autre"
    MaxCodes      \* bound: codes accepted

\* price: below the list price, typed.  discount: a discount without the mark of
\* a promotion.  auto: one with it.  stock: a product out of stock.  refused: no
\* quantity, or a line discount and a reward on one product.
Content == {"price", "discount", "auto", "stock", "refused"}

\* What takes a code.
Guarded == {"price", "discount", "stock"}

ASSUME ApprovalAssumption ==
    /\ NoTicket \notin Tickets
    /\ Carts \subseteq SUBSET Content
    /\ Roles \subseteq {"caissiere", "superviseur", "autre"}
    /\ MaxCodes \in Nat

VARIABLES
    ticket,       \* the tickets of the page
    current,      \* getOrder()
    click,        \* the handlers
    validating,   \* the calls of validateOrder on their way
    codes,        \* the accepted codes: for what ticket (history)
    logs,         \* pos.access.log: entries of a code on a ticket
    setting       \* the user, and whether the till has a code of its own

approvalVars == <<ticket, current, click, validating, codes, logs, setting>>

Codes == 1 .. MaxCodes

\* pending: _pendingLogs.  judged: the pay() that opened the payment began with
\* these lines (history).  passed: what it let through (history).
Ticket == [state : {"edit", "payment", "paid"}, holds : SUBSET Content,
           pending : SUBSET Codes, judged : BOOLEAN, passed : SUBSET Guarded]

Steps == {"idle", "price", "price code", "stock", "stock code", "refund", "refund code"}

\* manual: hasDiscount, read once.  deferred: the log waits for the payment.
\* fresh: the lines are as they were when it began (history).
Click == [step : Steps, ticket : Tickets \cup {NoTicket}, manual : BOOLEAN, deferred : BOOLEAN,
          fresh : BOOLEAN, passed : SUBSET Guarded]

\* A call of validateOrder and its copy of the pending logs; two at most.
Validation == [ticket : Tickets, call : 1 .. 2, codes : SUBSET Codes]

NoClick == [step |-> "idle", ticket |-> NoTicket, manual |-> FALSE, deferred |-> FALSE,
            fresh |-> FALSE, passed |-> {}]

ApprovalInit ==
    /\ setting \in [role : Roles, coded : BOOLEAN]
    /\ ticket = [t \in Tickets |-> [state |-> "edit", holds |-> {}, pending |-> {},
                                    judged |-> FALSE, passed |-> {}]]
    /\ current \in Tickets
    /\ click = [c \in Clicks |-> NoClick]
    /\ validating = {}
    /\ codes = <<>>
    /\ logs = [k \in Codes |-> [t \in Tickets |-> 0]]

\* An overlay asks for a code.
Asking == \E c \in Clicks : click[c].step \in {"price code", "stock code", "refund code"}

Superviseur == setting.role = "superviseur"

\* check_price_reduction, check_refund_authorization: of the two groups.
Exempt == setting.role # "caissiere"

-----------------------------------------------------------------------------
(* The cashier at the product screen.                                      *)

EditTicket(t, cart) ==
    /\ ~Asking
    /\ current = t /\ ticket[t].state = "edit" /\ cart # ticket[t].holds
    /\ ticket' = [ticket EXCEPT ![t].holds = cart]
    /\ click' = [c \in Clicks |->
          IF click[c].ticket = t THEN [click[c] EXCEPT !.fresh = FALSE, !.passed = {}] ELSE click[c]]
    /\ UNCHANGED <<current, validating, codes, logs, setting>>

SelectTicket(t) ==
    /\ ~Asking
    /\ current # t
    /\ current' = t
    /\ UNCHANGED <<ticket, click, validating, codes, logs, setting>>

\* Back from the payment screen; the pending logs stay.
BackToProducts(t) ==
    /\ ~Asking
    /\ current = t /\ ticket[t].state = "payment"
    /\ \A v \in validating : v.ticket # t
    /\ ticket' = [ticket EXCEPT ![t].state = "edit", ![t].judged = FALSE, ![t].passed = {}]
    /\ UNCHANGED <<current, click, validating, codes, logs, setting>>

-----------------------------------------------------------------------------
(* pay()                                                                   *)

Pay(c) ==
    LET t == ticket[current] IN
    /\ ~Asking /\ click[c].step = "idle"
    /\ t.state = "edit" /\ "refused" \notin t.holds
    /\ click' = [click EXCEPT ![c] =
          [step |-> IF "price" \in t.holds THEN "price" ELSE "stock", ticket |-> current,
           manual |-> "discount" \in t.holds, deferred |-> FALSE, fresh |-> TRUE, passed |-> {}]]
    /\ UNCHANGED <<ticket, current, validating, codes, logs, setting>>

\* What a handler has let through, with `reasons'; nothing once the lines changed.
Passing(c, reasons) == IF click[c].fresh THEN click[c].passed \cup reasons ELSE {}

\* The handler goes on to `step'; it let `reasons' through.
GoOn(c, step, reasons, deferred) ==
    click' = [click EXCEPT ![c].step = step, ![c].deferred = deferred,
                           ![c].passed = Passing(c, reasons)]

\* super.pay() opens the payment of the ticket that is current now.
OpenPayment(c, reasons, tickets) ==
    LET judged == click[c].fresh /\ click[c].ticket = current IN
    /\ click' = [click EXCEPT ![c] = NoClick]
    /\ ticket' = IF tickets[current].state # "edit" THEN tickets
                 ELSE [tickets EXCEPT ![current].state = "payment",
                                      ![current].judged = judged,
                                      ![current].passed = IF judged THEN Passing(c, reasons) ELSE {}]

\* The answer of check_price_reduction, or its failure.
AnswerPrice(c, answered) ==
    /\ click[c].step = "price"
    /\ IF (answered /\ Exempt) \/ (~answered /\ ~setting.coded)
       THEN GoOn(c, "stock", {"price"}, FALSE)
       ELSE GoOn(c, "price code", {}, answered)
    /\ UNCHANGED <<ticket, current, validating, codes, logs, setting>>

\* Variant: without network nothing is asked.
MustAsk_Online(c, answered) ==
    /\ answered /\ ~Superviseur
    /\ click[c].manual \/ "stock" \in ticket[click[c].ticket].holds

\* check_stock_levels, or the same without network, whoever the user is.
MustAsk(c, answered) ==
    /\ ~(answered /\ Superviseur)
    /\ click[c].manual \/ "stock" \in ticket[click[c].ticket].holds

\* The answer of check_stock_levels, or its failure.
AnswerStock(c, answered) ==
    /\ click[c].step = "stock"
    /\ IF MustAsk(c, answered)
       THEN GoOn(c, "stock code", {}, answered) /\ UNCHANGED ticket
       ELSE OpenPayment(c, IF answered /\ Superviseur THEN {"stock", "discount"} ELSE {}, ticket)
    /\ UNCHANGED <<current, validating, codes, logs, setting>>

\* onDoRefund, of a paid ticket.
AskRefund(c, t) ==
    /\ ~Asking /\ click[c].step = "idle"
    /\ current = t /\ ticket[t].state = "paid"
    /\ click' = [click EXCEPT ![c] = [NoClick EXCEPT !.step = "refund", !.ticket = t]]
    /\ UNCHANGED <<ticket, current, validating, codes, logs, setting>>

\* Refused when the server says that a code is needed and has none.
AnswerRefund(c, answered) ==
    /\ click[c].step = "refund"
    /\ click' = [click EXCEPT ![c] =
          IF (answered /\ Exempt) \/ ~setting.coded THEN NoClick
          ELSE [@ EXCEPT !.step = "refund code"]]
    /\ UNCHANGED <<ticket, current, validating, codes, logs, setting>>

-----------------------------------------------------------------------------
(* validateManagerCode                                                     *)

\* The server takes the code of any till; the page the hash of any badge, whose
\* code is that of a till.
Accepted == Len(codes) < MaxCodes

\* Variant: the code is taken without the reference of the ticket.
GiveCode_NoReference(t, answered, deferred) ==
    /\ codes' = Append(codes, NoTicket)
    /\ logs' = IF answered /\ ~deferred THEN [logs EXCEPT ![Len(codes) + 1][t] = @ + 1] ELSE logs

\* One code of this ticket; the server logs it unless the log is deferred.
GiveCode(t, answered, deferred) ==
    /\ codes' = Append(codes, t)
    /\ logs' = IF answered /\ ~deferred THEN [logs EXCEPT ![Len(codes) + 1][t] = @ + 1] ELSE logs

\* Variant: the log is left to the ticket that is current.
Defer_Current(t, deferred) ==
    IF deferred THEN [ticket EXCEPT ![current].pending = @ \cup {Len(codes) + 1}] ELSE ticket

\* _pendingLogs of the ticket that pay() began with.
Defer(t, deferred) ==
    IF deferred THEN [ticket EXCEPT ![t].pending = @ \cup {Len(codes) + 1}] ELSE ticket

EnterCode(c, answered) ==
    LET t == click[c].ticket
        deferred == click[c].deferred IN
    /\ Accepted
    /\ GiveCode(t, answered, deferred)
    /\ CASE click[c].step = "price code" ->
              GoOn(c, "stock", {"price"}, FALSE) /\ ticket' = Defer(t, deferred)
         [] click[c].step = "stock code" ->
              OpenPayment(c, {"stock", "discount"}, Defer(t, deferred))
         [] click[c].step = "refund code" ->
              click' = [click EXCEPT ![c] = NoClick] /\ UNCHANGED ticket
         [] OTHER -> FALSE
    /\ UNCHANGED <<current, validating, setting>>

\* A wrong code, or none: the handler returns.
RefuseCode(c) ==
    /\ click[c].step \in {"price code", "stock code", "refund code"}
    /\ click' = [click EXCEPT ![c] = NoClick]
    /\ UNCHANGED <<ticket, current, validating, codes, logs, setting>>

\* Printing, details or invoice of a paid ticket, with the code of a manager.
Consult(t, answered) ==
    /\ ~Asking
    /\ setting.role = "caissiere"
    /\ ticket[t].state = "paid" /\ current = t
    /\ Accepted
    /\ GiveCode(t, answered, FALSE)
    /\ UNCHANGED <<ticket, current, click, validating, setting>>

-----------------------------------------------------------------------------
(* validateOrder                                                           *)

\* Variant: the logs are cleared when they are written.
TakePending_Late(t) == UNCHANGED ticket

TakePending(t) == ticket' = [ticket EXCEPT ![t].pending = {}]

ValidateOrder(t, call) ==
    /\ ~Asking
    /\ current = t /\ ticket[t].state = "payment"
    /\ \A v \in validating : v.ticket = t => v.call # call
    /\ validating' = validating \cup {[ticket |-> t, call |-> call, codes |-> ticket[t].pending]}
    /\ TakePending(t)
    /\ UNCHANGED <<current, click, codes, logs, setting>>

\* super.validateOrder ends, and finalized the ticket or not; then the logs are
\* sent, if the ticket is finalized.  What is not sent is lost.
EndValidation(v, finalizes, answered) ==
    LET paid == finalizes \/ ticket[v.ticket].state = "paid" IN
    /\ validating' = validating \ {v}
    /\ ticket' = [ticket EXCEPT ![v.ticket].state = IF paid THEN "paid" ELSE @]
    /\ logs' = IF paid /\ answered
               THEN [k \in Codes |-> IF k \in v.codes THEN [logs[k] EXCEPT ![v.ticket] = @ + 1]
                                     ELSE logs[k]]
               ELSE logs
    /\ UNCHANGED <<current, click, codes, setting>>

\* The page is loaded again: the tickets come back, what was kept in memory does
\* not, and an automatic discount looks like any other.
Reload ==
    /\ ticket' = [t \in Tickets |->
          [ticket[t] EXCEPT !.state = IF @ = "payment" THEN "edit" ELSE @,
                            !.pending = {}, !.judged = FALSE, !.passed = {},
                            !.holds = IF "auto" \in @ THEN (@ \ {"auto"}) \cup {"discount"} ELSE @]]
    /\ click' = [c \in Clicks |-> NoClick]
    /\ validating' = {}
    /\ UNCHANGED <<current, codes, logs, setting>>

-----------------------------------------------------------------------------
ApprovalNext ==
    \/ \E t \in Tickets :
          \/ SelectTicket(t) \/ BackToProducts(t)
          \/ \E call \in 1 .. 2 : ValidateOrder(t, call)
          \/ \E cart \in Carts : EditTicket(t, cart)
          \/ \E answered \in BOOLEAN : Consult(t, answered)
    \/ \E c \in Clicks :
          \/ Pay(c) \/ RefuseCode(c)
          \/ \E t \in Tickets : AskRefund(c, t)
          \/ \E answered \in BOOLEAN :
                AnswerPrice(c, answered) \/ AnswerStock(c, answered)
                \/ AnswerRefund(c, answered) \/ EnterCode(c, answered)
    \/ \E v \in validating, finalizes, answered \in BOOLEAN : EndValidation(v, finalizes, answered)
    \/ Reload

ApprovalSpec == ApprovalInit /\ [][ApprovalNext]_approvalVars

-----------------------------------------------------------------------------
\* Type invariant of tickets, handlers and logs.
ApprovalTypeOK ==
    /\ ticket \in [Tickets -> Ticket]
    /\ current \in Tickets
    /\ click \in [Clicks -> Click]
    /\ validating \subseteq Validation
    /\ codes \in Seq(Tickets) /\ Len(codes) <= MaxCodes
    /\ logs \in [Codes -> [Tickets -> Nat]]
    /\ setting \in [role : Roles, coded : BOOLEAN]

\* A ticket in payment with the lines that the pay() which opened it began with: a
\* code, or a rule, let through whatever in them takes one, however the network
\* came and went between the two checks.
PaidIsApproved ==
    \A t \in Tickets :
        ticket[t].state # "edit" /\ ticket[t].judged =>
            ticket[t].holds \cap Guarded \subseteq ticket[t].passed

\* A code is logged on the ticket that it was given for, even if another one was
\* selected while the answer was on its way.
LogNamesItsTicket ==
    \A k \in Codes, t \in Tickets : logs[k][t] > 0 => k <= Len(codes) /\ codes[k] = t

\* A code is logged once at most, also when validation is clicked again before
\* the first call returns.
LoggedOnce == \A k \in Codes, t \in Tickets : logs[k][t] <= 1

\* The invariant of approvals: no ticket is in payment without the code that its lines
\* take, and each code is logged once, on the ticket that it was given for.
ApprovalInv == ApprovalTypeOK /\ PaidIsApproved /\ LogNamesItsTicket /\ LoggedOnce
=============================================================================
