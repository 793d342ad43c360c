---------------------------- MODULE DailyBudgets ----------------------------
(***************************************************************************)
(* The daily budgets of an analytic account (custom_account): a budget is  *)
(* cut into days, each of which stores what was invoiced on it.  The       *)
(* stored figure is computed again only by the handlers of account.move    *)
(* that call for it, and a native budget of Odoo follows the daily one and *)
(* is followed by it.                                                      *)
(*                                                                         *)
(* An account.move is called a booking here, and has one line.  The        *)
(* buttons look at no state, and any screen may be stale: they are enabled *)
(* in every state.                                                         *)
(***************************************************************************)
EXTENDS Naturals, Sequences, FiniteSets, Functions

CONSTANTS
    Bookings,    \* invoices and credit notes
    Analytics,   \* analytic accounts
    BudgetDays,  \* numbers, in the order of time
    AmountOf,    \* price_subtotal of the line of each booking, which has no sign
    OwnAnalytic, \* the account of the budget
    MaxNatives   \* bound: native budgets made

ASSUME BudgetAssumption ==
    /\ BudgetDays \subseteq Nat /\ IsFiniteSet(BudgetDays)
    /\ IsFiniteSet(Bookings)
    /\ AmountOf \in [Bookings -> Nat]
    /\ OwnAnalytic \in Analytics
    /\ MaxNatives \in Nat

VARIABLES
    bookings, \* the account.move there are
    budget,   \* the daily budget
    days,     \* its lines
    natives,  \* the native budgets made, in the order they were
    making,   \* a request that makes lines and has not committed
    missed,   \* lines whose figure no handler was there to compute (history variable)
    late      \* what a form saved after its step: "period", "amounts" (history variable)

budgetVars == <<bookings, budget, days, natives, making, missed, late>>

\* analytics: the accounts of the distribution of the line.
Booking == [state : {"draft", "posted"}, day : BudgetDays, analytics : SUBSET Analytics]

\* A line: its day and its account, whether its amounts were entered, and the figure
\* stored.  A line is named for the day it was made for.
Day == [on : BudgetDays, account : Analytics, entered : BOOLEAN, actual : Nat]

\* native: the one that the budget names, 0 if none.
Budget == [state : {"draft", "pending", "in_progress", "done"},
           from : BudgetDays, to : BudgetDays, native : 0 .. MaxNatives]

NoLines == [d \in {} |-> {}]
NotMaking == [on |-> FALSE, lines |-> NoLines, during |-> {}]

BudgetInit ==
    /\ bookings = [m \in {} |-> {}]
    /\ budget \in {b \in Budget : b.state = "draft" /\ b.native = 0 /\ b.from <= b.to}
    /\ days = NoLines
    /\ natives = <<>>
    /\ making = NotMaking
    /\ missed = {}
    /\ late = {}

-----------------------------------------------------------------------------
(* The figure of a day.                                                    *)

\* compute_actual_amount: posted lines are counted whole for each of their accounts,
\* credit notes like invoices.
Actual(of, d, account) ==
    SumFunctionOnSet(AmountOf, {m \in DOMAIN of : /\ of[m].state = "posted" /\ of[m].day = d
                                                  /\ account \in of[m].analytics})

\* The figure that the line d should store.
Figure(of, d) == Actual(of, days[d].on, days[d].account)

\* Variant: the lines of a booking with one account only.
Concerned_First(booking) ==
    {d \in DOMAIN days : booking.analytics = {days[d].account} /\ days[d].on = booking.day}

\* The lines of the budget for the accounts and the date of a booking.
Concerned(booking) ==
    {d \in DOMAIN days : days[d].account \in booking.analytics /\ days[d].on = booking.day}

\* Variant: the figure is computed before the booking is written.
Recompute_Before(booking, of) ==
    /\ days' = [d \in DOMAIN days |->
                  IF d \in Concerned(booking)
                  THEN [days[d] EXCEPT !.actual = Figure(bookings, d)]
                  ELSE days[d]]
    /\ missed' = missed \ Concerned(booking)

\* _trigger_daily_budget_recompute for the line of a booking, among the bookings of.
Recompute(booking, of) ==
    /\ days' = [d \in DOMAIN days |->
                  IF d \in Concerned(booking)
                  THEN [days[d] EXCEPT !.actual = Figure(of, d)]
                  ELSE days[d]]
    /\ missed' = missed \ Concerned(booking)

Period(b) == {d \in BudgetDays : b.from <= d /\ d <= b.to}

\* The lines that action_generate makes: one for each day of the period.
Generated(of) ==
    [d \in Period(budget) |->
        [on |-> d, account |-> OwnAnalytic, entered |-> FALSE, actual |-> Actual(of, d, OwnAnalytic)]]

\* Lines being made are not seen by a handler.  If it writes lines that the request
\* deletes, that request is run again after it; if not, the request commits the figures
\* that it had read.
Overlap(booking, of) ==
    LET figure(among) == Actual(among, booking.day, OwnAnalytic) IN
    making' = IF ~making.on THEN making
              ELSE IF days' # days THEN [on |-> TRUE, lines |-> Generated(of), during |-> {}]
              ELSE IF figure(of) # figure(bookings)
                   THEN [making EXCEPT !.during = @ \union {booking.day}]
              ELSE making

-----------------------------------------------------------------------------
(* Bookings.                                                               *)

\* create of the line: the form is saved.
MakeBooking(m) ==
    /\ m \notin DOMAIN bookings
    /\ \E booking \in Booking :
          /\ booking.state = "draft" /\ booking.analytics # {}
          /\ bookings' = [n \in DOMAIN bookings \union {m} |->
                             IF n = m THEN booking ELSE bookings[n]]
          /\ Recompute(booking, bookings')
          /\ Overlap(booking, bookings')
    /\ UNCHANGED <<budget, natives, late>>

\* action_post and button_draft write the state.
SetState(m, before, after) ==
    /\ m \in DOMAIN bookings
    /\ bookings[m].state = before
    /\ bookings' = [bookings EXCEPT ![m].state = after]
    /\ Recompute(bookings[m], bookings')
    /\ Overlap(bookings[m], bookings')
    /\ UNCHANGED <<budget, natives, late>>

\* unlink: the figure is computed before the line is deleted; only drafts can be.
DeleteBooking(m) ==
    /\ m \in DOMAIN bookings
    /\ bookings[m].state = "draft"
    /\ bookings' = [n \in DOMAIN bookings \ {m} |-> bookings[n]]
    /\ Recompute(bookings[m], bookings)
    /\ Overlap(bookings[m], bookings)
    /\ UNCHANGED <<budget, natives, late>>

\* The distribution of a posted line is edited: no handler is called.
Redistribute(m) ==
    /\ ~making.on
    /\ m \in DOMAIN bookings
    /\ bookings[m].state = "posted"
    /\ \E as \in SUBSET Analytics \ {{}} : bookings' = [bookings EXCEPT ![m].analytics = as]
    /\ missed' = missed \union {d \in DOMAIN days : days[d].on = bookings[m].day}
    /\ UNCHANGED <<budget, days, natives, making, late>>

-----------------------------------------------------------------------------
(* The daily budget.                                                       *)

\* The form of a draft: its period.  It may have been loaded before the lines were made,
\* and write() looks at no state.
EditBudget ==
    /\ ~making.on
    /\ budget' \in {b \in Budget : /\ b.state = budget.state /\ b.native = budget.native
                                  /\ b.from <= b.to}
    /\ late' = IF days = NoLines THEN late ELSE late \union {"period"}
    /\ UNCHANGED <<bookings, days, natives, making, missed>>

\* action_generate reads.
BeginGenerate ==
    /\ ~making.on
    /\ making' = [on |-> TRUE, lines |-> Generated(bookings), during |-> {}]
    /\ UNCHANGED <<bookings, budget, days, natives, missed, late>>

\* action_generate commits: its lines take the place of those there were.
EndGenerate ==
    /\ making.on
    /\ days' = making.lines
    /\ missed' = making.during
    /\ budget' = [budget EXCEPT !.state = "pending"]
    /\ making' = NotMaking
    /\ late' = {}
    /\ UNCHANGED <<bookings, natives>>

\* The list of a pending budget, from a form that may be older than its validation: the
\* amounts of a line.
EnterDay(d) ==
    /\ ~making.on
    /\ d \in DOMAIN days
    /\ days' = [days EXCEPT ![d].entered = ~@]
    /\ late' = IF budget.state = "in_progress" THEN late \union {"amounts"} ELSE late
    /\ UNCHANGED <<bookings, budget, natives, making, missed>>

\* Variant: the figure is not computed for the new day.
MoveDay_Stored(d) ==
    /\ ~making.on
    /\ d \in DOMAIN days
    /\ \E day \in BudgetDays, account \in Analytics :
          days' = [days EXCEPT ![d].on = day, ![d].account = account]
    /\ missed' = missed \ {d}
    /\ UNCHANGED <<bookings, budget, natives, making, late>>

\* The same list: the date or the account of a line, on which its figure depends.
MoveDay(d) ==
    /\ ~making.on
    /\ d \in DOMAIN days
    /\ \E day \in BudgetDays, account \in Analytics :
          days' = [days EXCEPT ![d] = [on |-> day, account |-> account, entered |-> days[d].entered,
                                       actual |-> Actual(bookings, day, account)]]
    /\ missed' = missed \ {d}
    /\ UNCHANGED <<bookings, budget, natives, making, late>>

\* Variant: the lines are not looked at.
Validate_Unchecked ==
    /\ ~making.on
    /\ Len(natives) < MaxNatives
    /\ natives' = Append(natives, "open")
    /\ budget' = [budget EXCEPT !.state = "in_progress", !.native = Len(natives')]
    /\ late' = late \ {"amounts"}
    /\ UNCHANGED <<bookings, days, making, missed>>

\* action_done: the native budget is made, then the lines are looked at, or all is
\* undone.
Validate ==
    /\ ~making.on
    /\ DOMAIN days # {}
    /\ \A d \in DOMAIN days : days[d].entered
    /\ Len(natives) < MaxNatives
    /\ natives' = Append(natives, "open")
    /\ budget' = [budget EXCEPT !.state = "in_progress", !.native = Len(natives')]
    /\ late' = late \ {"amounts"}
    /\ UNCHANGED <<bookings, days, making, missed>>

\* action_close: the native budget is closed with it.
Close ==
    /\ ~making.on
    /\ natives' = IF budget.native = 0 THEN natives
                  ELSE [natives EXCEPT ![budget.native] = "done"]
    /\ budget' = [budget EXCEPT !.state = "done"]
    /\ UNCHANGED <<bookings, days, making, missed, late>>

\* action_draft.
ResetBudget ==
    /\ ~making.on
    /\ budget' = [budget EXCEPT !.state = "draft"]
    /\ days' = NoLines
    /\ missed' = {}
    /\ late' = {}
    /\ UNCHANGED <<bookings, natives, making>>

-----------------------------------------------------------------------------
(* The native budgets.                                                     *)

\* action_budget_done of any native budget made for this one.
CloseNative(n) ==
    /\ ~making.on
    /\ n \in DOMAIN natives
    /\ natives[n] = "open"
    /\ natives' = [natives EXCEPT ![n] = "done"]
    /\ budget' = [budget EXCEPT !.state = "done"]
    /\ UNCHANGED <<bookings, days, making, missed, late>>

\* Variant: the daily budget stays as it is.
DeleteNative_Alone(n) ==
    /\ ~making.on
    /\ n \in DOMAIN natives
    /\ natives[n] # "deleted"
    /\ natives' = [natives EXCEPT ![n] = "deleted"]
    /\ budget' = [budget EXCEPT !.native = IF @ = n THEN 0 ELSE @]
    /\ UNCHANGED <<bookings, days, making, missed, late>>

\* unlink: the daily budget is reset, whatever its state and the native one it names.
DeleteNative(n) ==
    /\ ~making.on
    /\ n \in DOMAIN natives
    /\ natives[n] # "deleted"
    /\ natives' = [natives EXCEPT ![n] = "deleted"]
    /\ budget' = [budget EXCEPT !.state = "draft", !.native = IF @ = n THEN 0 ELSE @]
    /\ days' = NoLines
    /\ missed' = {}
    /\ late' = {}
    /\ UNCHANGED <<bookings, making>>

-----------------------------------------------------------------------------
BudgetNext ==
    \/ \E m \in Bookings : \/ MakeBooking(m) \/ SetState(m, "draft", "posted")
                        \/ SetState(m, "posted", "draft") \/ DeleteBooking(m) \/ Redistribute(m)
    \/ EditBudget \/ BeginGenerate \/ EndGenerate
    \/ \E d \in BudgetDays : EnterDay(d) \/ MoveDay(d)
    \/ Validate \/ Close \/ ResetBudget
    \/ \E n \in 1 .. MaxNatives : CloseNative(n) \/ DeleteNative(n)

BudgetSpec == BudgetInit /\ [][BudgetNext]_budgetVars

-----------------------------------------------------------------------------
(* Properties.                                                             *)

BudgetTypeOK ==
    /\ DOMAIN bookings \subseteq Bookings
    /\ \A m \in DOMAIN bookings : bookings[m] \in Booking
    /\ budget \in Budget
    /\ DOMAIN days \subseteq BudgetDays
    /\ \A d \in DOMAIN days : days[d] \in Day
    /\ natives \in Seq({"open", "done", "deleted"})
    /\ making.during \subseteq BudgetDays
    /\ missed \subseteq BudgetDays
    /\ late \subseteq {"period", "amounts"}

\* The figure that a line stores is what the posted lines of its account add up to on its
\* day, through postings, resets, deletions, lines moved and requests that overlap, but
\* where a distribution was edited or a booking posted while the lines were being made.
FigureIsCurrent ==
    \A d \in DOMAIN days \ missed : days[d].actual = Figure(bookings, d)

\* A budget in progress has a native one that is open, a line for each day of its period
\* and amounts on each, whatever was reset, validated twice, closed or deleted on either
\* side, but for a form loaded before and saved after: that of the draft once the lines
\* were made, or the list once the budget was validated.
InProgressIsBacked ==
    budget.state = "in_progress" =>
        /\ budget.native # 0 /\ natives[budget.native] = "open"
        /\ "period" \notin late => DOMAIN days = Period(budget)
        /\ "amounts" \notin late => \A d \in DOMAIN days : days[d].entered

\* Invariant of the daily budgets.
BudgetInv == BudgetTypeOK /\ FigureIsCurrent /\ InProgressIsBacked
=============================================================================
