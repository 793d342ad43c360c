---------------------------- MODULE TillClosing ----------------------------
(***************************************************************************)
(* The closing of a session by the page of a till (custom_pos): the count  *)
(* of the cash, the tickets not yet sent, and the three calls that close.  *)
(* The page keeps two globals, which the opening's count also adds to.     *)
(* It stays live while the calls are on their way: the cashier may count   *)
(* again, ignore the popup, sell, and close from a second popup.  Each     *)
(* call may fail; the cashier may then give up or try again.               *)
(*                                                                         *)
(* Amounts are in halves of the currency's unit, which has no decimals.    *)
(*                                                                         *)
(* Left out: other means of payment, taxes, the allowed difference, a call *)
(* or the saving of a count served after the cashier went on.              *)
(***************************************************************************)
EXTENDS Integers

CONSTANTS
    Popups,       \* closing popups, each with its closeSession
    NoPopup,
    MaxCash,      \* bound: an amount of cash
    MaxSales      \* bound: cash tickets

ASSUME ClosingAssumption ==
    /\ NoPopup \notin Popups
    /\ MaxCash \in Nat \ {0} /\ MaxSales \in Nat

VARIABLES
    page,         \* the globals of the page, and the popup it shows
    closing,      \* the closeSession of each popup
    session,      \* pos.session
    sales,        \* cash tickets: on the page, in the session, in a rescue session
    report,       \* the printed closing
    witness       \* what the cashier did (history)

closingVars == <<page, closing, session, sales, report, witness>>

Cash == 0 .. MaxCash

\* Coins and notes have no fraction; an amount typed may have one.
Coins == {c \in Cash : c % 2 = 0}

\* formatCurrency rounds to the unit; parseFloat reads back what it shows.
Shown(amount) == amount + (amount % 2)

ShownCash == 0 .. MaxCash + 1

\* accumulated: _accumulatedTotal.  confirmed: _lastConfirmedCashCount.  counted:
\* the count that the popup shows.  left: the page was left, its session closed.
Page == [accumulated : Cash, confirmed : Cash, counted : ShownCash,
         popup : Popups \union {NoPopup}, left : BOOLEAN]

\* step: the call on its way.  read: the count it has read of its popup.
Closing == [step : {"idle", "post", "control", "close"}, read : ShownCash]

\* posted: the count at closing.  saved: prelevement_especes_amount.
Session == [state : {"opened", "closing_control", "closed"}, posted : ShownCash, saved : Cash]

Sales == [page : 0 .. MaxSales, session : 0 .. MaxSales, rescue : 0 .. MaxSales]

\* A closing report: the count it prints and the cash of the session's payments.
Report == [printed : BOOLEAN, counted : Cash, cash : 0 .. MaxSales]

\* typed: direct amounts entered on this page.  last: the last count confirmed on
\* it.  shared: the server saved that count.  older: closings that read a count
\* before it.  overtaken: so did the one that posted.  rung: a ticket was sold while
\* a closing was on its way, and none has sent it since.
Witness == [typed : Cash, last : Cash, shared : BOOLEAN,
            older : SUBSET Popups, overtaken : BOOLEAN, rung : BOOLEAN]

Idle == [step |-> "idle", read |-> 0]

ClosingInit ==
    /\ page = [accumulated |-> 0, confirmed |-> 0, counted |-> 0, popup |-> NoPopup, left |-> FALSE]
    /\ closing = [c \in Popups |-> Idle]
    /\ session = [state |-> "opened", posted |-> 0, saved |-> 0]
    /\ sales = [page |-> 0, session |-> 0, rescue |-> 0]
    /\ report = [printed |-> FALSE, counted |-> 0, cash |-> 0]
    /\ witness = [typed |-> 0, last |-> 0, shared |-> TRUE,
                  older |-> {}, overtaken |-> FALSE, rung |-> FALSE]

\* A closing is on its way.
Busy == \E c \in Popups : closing[c].step # "idle"

Selling == page.popup = NoPopup /\ ~page.left

-----------------------------------------------------------------------------
(* The count: MoneyDetailsPopup.                                           *)

\* Variant: the amount is added before the field is cleared.
Total_Twice(coins, direct) == coins + page.accumulated + direct + direct

\* computeTotal, when the field was cleared and its amount added.
Total(coins, direct) == coins + page.accumulated + direct

\* confirm at the opening: the amount stays in the global.
CountOpening(coins, direct) ==
    /\ Selling /\ session.state = "opened"
    /\ Total(coins, direct) \in Cash
    /\ page' = [page EXCEPT !.accumulated = @ + direct]
    /\ witness' = [witness EXCEPT !.typed = @ + direct]
    /\ UNCHANGED <<closing, session, sales, report>>

\* confirm at the closing, whatever call is on its way, and
\* save_cash_count_for_prelevement, whose failure is only logged.
CountClosing(coins, direct, answered) ==
    LET total == Total(coins, direct) IN
    /\ page.popup # NoPopup
    /\ total \in Cash
    /\ page' = [page EXCEPT !.accumulated = @ + direct, !.counted = Shown(total), !.confirmed = total]
    /\ session' = [session EXCEPT !.saved = IF answered THEN total ELSE @]
    /\ witness' = [witness EXCEPT !.typed = @ + direct, !.last = coins + witness.typed + direct,
                                  !.shared = answered, !.overtaken = Busy,
                                  !.older = {c \in Popups : closing[c].step = "post"}]
    /\ UNCHANGED <<closing, sales, report>>

-----------------------------------------------------------------------------
(* The closing: ClosePosPopup.                                             *)

\* Variant: the count is not restored.
Restored_Never == 0

\* setup
Restored == Shown(page.confirmed)

\* A popup opened anew has no closing of its own.
OpenPopup(c) ==
    /\ Selling /\ session.state # "closed"
    /\ closing[c].step = "idle"
    /\ page' = [page EXCEPT !.popup = c, !.counted = Restored]
    /\ UNCHANGED <<closing, session, sales, report, witness>>

\* Ignorer, or the popup discarded: its closing goes on.
LeavePopup ==
    /\ page.popup # NoPopup
    /\ page' = [page EXCEPT !.popup = NoPopup, !.counted = 0]
    /\ UNCHANGED <<closing, session, sales, report, witness>>

\* Variant: the tickets stay on the page, and are sent again.
Sent_Again ==
    IF session.state = "opened"
    THEN [sales EXCEPT !.session = @ + sales.page]
    ELSE [sales EXCEPT !.rescue = @ + sales.page]

\* A session that is closing takes no ticket: Odoo opens another one.
Sent ==
    IF session.state = "opened"
    THEN [sales EXCEPT !.page = 0, !.session = @ + sales.page]
    ELSE [sales EXCEPT !.page = 0, !.rescue = @ + sales.page]

\* Variant: the closing goes on without the tickets.
Pushed_Anyway(answered) == sales' = IF answered THEN Sent ELSE sales

\* pushOrdersWithClosingPopup
Pushed(answered) == answered /\ sales' = Sent

\* Clôturer: the tickets are sent, then the count of the popup is read.  What the
\* cashier does meanwhile is as if it were done before or after.
CloseSession(c, answered) ==
    /\ page.popup = c
    /\ closing[c].step = "idle"
    /\ Pushed(answered)
    /\ closing' = [closing EXCEPT ![c] = [step |-> "post", read |-> page.counted]]
    /\ witness' = [witness EXCEPT !.older = @ \ {c}, !.rung = FALSE]
    /\ UNCHANGED <<page, session, report>>

\* The server takes the count that c has read.
Posted(c) == [session EXCEPT !.posted = closing[c].read]

\* Whether that count is older than the last one.
PostedBy(c) == [witness EXCEPT !.overtaken = c \in witness.older, !.older = @ \ {c}]

\* post_closing_cash_details
PostCount(c) ==
    /\ closing[c].step = "post" /\ session.state # "closed"
    /\ session' = Posted(c)
    /\ closing' = [closing EXCEPT ![c] = [step |-> "control", read |-> 0]]
    /\ witness' = PostedBy(c)
    /\ UNCHANGED <<page, sales, report>>

\* The state that update_closing_control_state_session writes.
Controlled ==
    [session EXCEPT !.state = IF @ = "closed" THEN @ ELSE "closing_control"]

\* update_closing_control_state_session: an error of the server is swallowed.
ControlSession(c) ==
    /\ closing[c].step = "control"
    /\ session' \in {Controlled, session}
    /\ closing' = [closing EXCEPT ![c].step = "close"]
    /\ UNCHANGED <<page, sales, report, witness>>

\* close_session_from_ui, the report, and the page is left.
EndSession(c) ==
    /\ closing[c].step = "close" /\ session.state # "closed"
    /\ session' = [session EXCEPT !.state = "closed"]
    /\ report' = [printed |-> TRUE, counted |-> session.saved, cash |-> sales.session]
    /\ closing' = [w \in Popups |-> Idle]
    /\ page' = [page EXCEPT !.popup = NoPopup, !.counted = 0, !.left = TRUE]
    /\ UNCHANGED <<sales, witness>>

\* A call fails before the server did it, or is refused: the closing is over.
CloseFails(c) ==
    /\ closing[c].step # "idle"
    /\ closing' = [closing EXCEPT ![c] = Idle]
    /\ witness' = [witness EXCEPT !.older = @ \ {c}]
    /\ UNCHANGED <<page, session, sales, report>>

\* The server did what it was asked, and its answer is lost.
AnswerIsLost(c) ==
    /\ session.state # "closed"
    /\ \/ closing[c].step = "post" /\ session' = Posted(c) /\ witness' = PostedBy(c)
       \/ closing[c].step = "control" /\ session' = Controlled /\ UNCHANGED witness
       \/ closing[c].step = "close" /\ session' = [session EXCEPT !.state = "closed"]
                                    /\ UNCHANGED witness
    /\ closing' = [closing EXCEPT ![c] = Idle]
    /\ UNCHANGED <<page, sales, report>>

-----------------------------------------------------------------------------
(* The till meanwhile.                                                     *)

SellForCash ==
    /\ Selling
    /\ sales.page + sales.session + sales.rescue < MaxSales
    /\ sales' = [sales EXCEPT !.page = @ + 1]
    /\ witness' = [witness EXCEPT !.rung = @ \/ Busy]
    /\ UNCHANGED <<page, closing, session, report>>

SendTickets ==
    /\ sales.page > 0
    /\ Selling
    /\ sales' = Sent
    /\ witness' = [witness EXCEPT !.rung = FALSE]
    /\ UNCHANGED <<page, closing, session, report>>

\* The page is loaded again: the globals are gone, the tickets are not.
ReloadPage ==
    /\ session.state # "closed"
    /\ page' = [accumulated |-> 0, confirmed |-> 0, counted |-> 0, popup |-> NoPopup, left |-> FALSE]
    /\ closing' = [c \in Popups |-> Idle]
    /\ witness' = [typed |-> 0, last |-> 0, shared |-> session.saved = 0,
                   older |-> {}, overtaken |-> FALSE, rung |-> FALSE]
    /\ UNCHANGED <<session, sales, report>>

-----------------------------------------------------------------------------
ClosingNext ==
    \/ \E direct \in Cash, coins \in Coins :
          \/ CountOpening(coins, direct)
          \/ \E answered \in BOOLEAN : CountClosing(coins, direct, answered)
    \/ \E c \in Popups :
          \/ \E answered \in BOOLEAN : CloseSession(c, answered)
          \/ OpenPopup(c) \/ PostCount(c) \/ ControlSession(c) \/ EndSession(c)
          \/ CloseFails(c) \/ AnswerIsLost(c)
    \/ LeavePopup \/ SellForCash \/ SendTickets \/ ReloadPage

ClosingSpec == ClosingInit /\ [][ClosingNext]_closingVars

-----------------------------------------------------------------------------
\* Type invariant of the page, the session and the tickets.
ClosingTypeOK ==
    /\ page \in Page
    /\ closing \in [Popups -> Closing]
    /\ session \in Session
    /\ sales \in Sales
    /\ report \in Report
    /\ witness \in Witness

\* A session is closed with the last count that the cashier confirmed, the coins once
\* and each amount once, rounded to the unit, whatever he ignored, opened again and
\* tried again, from one popup or two, but for a count confirmed when the count that was
\* posted had already been read.
ClosedAsCounted ==
    [][session'.state = "closed" /\ session.state # "closed" =>
          session'.posted = Shown(witness.last) \/ witness.overtaken]_closingVars

\* The report prints the count that the session was closed with, which is rounded,
\* provided that the server saved it and that it was not overtaken so.
ReportTellsTheCount ==
    report.printed /\ witness.shared /\ ~witness.overtaken =>
        Shown(report.counted) = session.posted

\* No ticket is left on the page at closing, but those sold when the closing was on its
\* way, and the cash of the report is that of every ticket of the session: none comes
\* after it.
AllTicketsAreReported ==
    report.printed =>
        /\ sales.page = 0 \/ witness.rung
        /\ report.cash = sales.session

\* The invariant of a closing: what its report says is what the session was closed with.
ClosingInv == ClosingTypeOK /\ ReportTellsTheCount /\ AllTicketsAreReported
=============================================================================
