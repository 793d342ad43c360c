----------------------------- MODULE Till_proofs -----------------------------
(***************************************************************************)
(* Proofs about TillApprovals, TillDiscounts, TillClosing,                 *)
(* PosHistoryImport and DailyBudgets, for any tickets, clicks, carts,      *)
(* roles, products, partners, amounts, sheets of past sales, bookings,     *)
(* accounts and days, and any bounds.                                      *)
(***************************************************************************)
EXTENDS MCTill, Sums

-----------------------------------------------------------------------------
(* Codes and their logs.                                                   *)

\* A handler that runs has a ticket, and that of a refund logs at once; while its lines are those it began with, it knows
\* whether they have a typed discount, and has let their prices through once it is past them.
ClickIsSound(x) ==
    /\ x.step # "idle" => x.ticket \in Tickets
    /\ x.step \in {"refund", "refund code"} => ~x.deferred
    /\ x.fresh => x.step # "idle"
    /\ x.fresh => (x.manual <=> "discount" \in ticket[x.ticket].holds)
    /\ x.fresh /\ x.step \in {"stock", "stock code"} /\ "price" \in ticket[x.ticket].holds =>
          "price" \in x.passed

\* A code that waits is one of the ticket, and is in no log.
Waits(k, t) == k <= Len(codes) /\ codes[k] = t /\ logs[k][t] = 0

\* A code waits in one place, with its ticket or in one call.
CodesWaitOnce ==
    /\ \A t \in Tickets : \A k \in ticket[t].pending : Waits(k, t)
    /\ \A v \in validating : \A k \in v.codes : Waits(k, v.ticket)
    /\ \A v \in validating : \A k \in v.codes : k \notin ticket[v.ticket].pending
    /\ \A v, w \in validating : \A k \in v.codes : k \in w.codes => v = w

\* The codes, where they wait and where they are logged.
CodesAreKept ==
    /\ codes \in Seq(Tickets) /\ Len(codes) <= MaxCodes
    /\ logs \in [Codes -> [Tickets -> Nat]]
    /\ CodesWaitOnce
    /\ LogNamesItsTicket
    /\ LoggedOnce

\* What the pay() that opened a payment has judged is approved, and is forgotten with it.
JudgedIsApproved ==
    \A t \in Tickets : ticket[t].judged =>
        ticket[t].state # "edit" /\ ticket[t].holds \cap Guarded \subseteq ticket[t].passed

\* The inductive invariant of approvals.
ApprovalIInv ==
    /\ ApprovalTypeOK
    /\ JudgedIsApproved
    /\ \A c \in Clicks : ClickIsSound(click[c])
    /\ CodesAreKept

\* The invariant of approvals is part of the inductive one.
LEMMA ApprovalIsKept == ApprovalIInv => ApprovalInv
BY DEF ApprovalIInv, ApprovalInv, CodesAreKept, JudgedIsApproved, PaidIsApproved

\* Codes stay where they are when no code is entered or sent, and fewer may wait.
LEMMA CodesStay ==
    ASSUME CodesAreKept, UNCHANGED <<validating, codes, logs>>,
           \A t \in Tickets : ticket'[t].pending \subseteq ticket[t].pending,
           validating \subseteq Validation
    PROVE  CodesAreKept'
<1>1. \A v \in validating : v.ticket \in Tickets
  BY DEF Validation
<1>2. CodesWaitOnce'
  BY <1>1 DEF CodesAreKept, CodesWaitOnce, Waits
<1> QED
  BY <1>2 DEF CodesAreKept, LogNamesItsTicket, LoggedOnce

\* A code entered is a new one; it is logged at once or waits with its ticket.
LEMMA CodeIsGiven ==
    ASSUME ApprovalIInv, Accepted, NEW t \in Tickets, NEW answered \in BOOLEAN,
           NEW deferred \in BOOLEAN, GiveCode(t, answered, deferred), validating' = validating,
           \A u \in Tickets : u # t => ticket'[u].pending = ticket[u].pending,
           ticket'[t].pending = IF deferred THEN ticket[t].pending \cup {Len(codes) + 1}
                                ELSE ticket[t].pending
    PROVE  CodesAreKept'
<1>0. PICK n : n = Len(codes) + 1
  OBVIOUS
<1>1. codes \in Seq(Tickets) /\ Len(codes) \in Nat /\ n \in Codes /\ n \in Nat
  BY <1>0, ApprovalAssumption DEF ApprovalIInv, CodesAreKept, Accepted, Codes
<1>2. /\ codes' \in Seq(Tickets) /\ Len(codes') = n /\ codes'[n] = t
      /\ \A k \in 1 .. Len(codes) : codes'[k] = codes[k]
  BY <1>0, <1>1 DEF GiveCode
<1>3. logs \in [Codes -> [Tickets -> Nat]]
  BY DEF ApprovalIInv, CodesAreKept
<1>4. \A u \in Tickets : logs[n][u] = 0
  BY <1>0, <1>1, <1>3 DEF ApprovalIInv, CodesAreKept, LogNamesItsTicket
<1>5. /\ logs' \in [Codes -> [Tickets -> Nat]]
      /\ \A k \in Codes, u \in Tickets : k # n \/ u # t => logs'[k][u] = logs[k][u]
      /\ logs'[n][t] = IF answered /\ ~deferred THEN 1 ELSE 0
  <2>1. CASE answered /\ ~deferred
    <3>1. logs' = [logs EXCEPT ![n][t] = @ + 1]
      BY <2>1, <1>0 DEF GiveCode
    <3>2. logs'[n][t] = logs[n][t] + 1
      BY <3>1, <1>1, <1>3
    <3> QED
      BY <3>1, <3>2, <1>1, <1>3, <1>4, <2>1
  <2>2. CASE ~(answered /\ ~deferred)
    <3>1. logs' = logs
      BY <2>2 DEF GiveCode
    <3> QED
      BY <3>1, <1>1, <1>3, <1>4, <2>2
  <2> QED
    BY <2>1, <2>2
<1>6. \A k, u : Waits(k, u) /\ k \in Codes /\ u \in Tickets => Waits(k, u)' /\ k # n
  BY <1>0, <1>1, <1>2, <1>5 DEF Waits, Codes
<1>7. ASSUME deferred PROVE Waits(n, t)'
  <2>1. logs'[n][t] = 0
    BY <1>5, <1>7
  <2>2. n <= Len(codes')
    BY <1>1, <1>2
  <2> QED
    BY <1>2, <2>1, <2>2 DEF Waits
<1>8. /\ validating \subseteq Validation
      /\ \A u \in Tickets : ticket[u].pending \subseteq Codes
  BY DEF ApprovalIInv, ApprovalTypeOK, Ticket
<1>9. CodesWaitOnce
  BY DEF ApprovalIInv, CodesAreKept
<1>10. \A v \in validating : v.ticket \in Tickets /\ v.codes \subseteq Codes
  BY <1>8 DEF Validation
<1>11. CodesWaitOnce'
  <2>1. \A u \in Tickets : \A k \in ticket'[u].pending : k \in ticket[u].pending \/ (k = n /\ u = t /\ deferred)
    BY <1>0
  <2>2. ASSUME NEW u \in Tickets, NEW k \in ticket'[u].pending
        PROVE  Waits(k, u)'
    <3>1. CASE k \in ticket[u].pending
      <4>1. k \in Codes /\ Waits(k, u)
        BY <3>1, <1>8, <1>9 DEF CodesWaitOnce
      <4> QED
        BY <4>1, <1>6
    <3>2. CASE k = n /\ u = t /\ deferred
      BY <3>2, <1>7
    <3> QED
      BY <2>1, <2>2, <3>1, <3>2
  <2>3. \A v \in validating : \A k \in v.codes : Waits(k, v.ticket)' /\ k # n
    BY <1>6, <1>9, <1>10 DEF CodesWaitOnce
  <2>4. \A v \in validating : \A k \in v.codes : k \notin ticket'[v.ticket].pending
    BY <2>1, <2>3, <1>9, <1>10 DEF CodesWaitOnce
  <2> QED
    BY <2>2, <2>3, <2>4, <1>9 DEF CodesWaitOnce
<1>12. LogNamesItsTicket'
  <2> SUFFICES ASSUME NEW k \in Codes, NEW u \in Tickets, logs'[k][u] > 0
               PROVE  k <= Len(codes') /\ codes'[k] = u
    BY DEF LogNamesItsTicket, Codes
  <2>1. CASE k = n /\ u = t
    BY <2>1, <1>1, <1>2
  <2>2. CASE k # n \/ u # t
    <3>1. logs[k][u] > 0
      BY <2>2, <1>5
    <3>2. k <= Len(codes) /\ codes[k] = u
      BY <3>1 DEF ApprovalIInv, CodesAreKept, LogNamesItsTicket
    <3> QED
      BY <3>2, <1>0, <1>1, <1>2 DEF Codes
  <2> QED
    BY <2>1, <2>2
<1>13. LoggedOnce'
  <2>1. LoggedOnce
    BY DEF ApprovalIInv, CodesAreKept
  <2>2. logs'[n][t] = 0 \/ logs'[n][t] = 1
    BY <1>5
  <2>3. ASSUME NEW k \in Codes, NEW u \in Tickets PROVE logs'[k][u] <= 1
    <3>1. CASE k = n /\ u = t
      BY <3>1, <2>2
    <3>2. CASE k # n \/ u # t
      BY <3>2, <1>5, <2>1 DEF LoggedOnce
    <3> QED
      BY <3>1, <3>2
  <2> QED
    BY <2>3 DEF LoggedOnce, Codes
<1>14. Len(codes') <= MaxCodes
  BY <1>1, <1>2 DEF Codes
<1> QED
  BY <1>2, <1>5, <1>11, <1>12, <1>13, <1>14 DEF CodesAreKept, Codes

\* What a handler lets through is something that takes a code.
LEMMA PassingIsGuarded ==
    ASSUME ApprovalIInv, NEW c \in Clicks, NEW reasons \in SUBSET Guarded
    PROVE  Passing(c, reasons) \in SUBSET Guarded
<1>1. click[c].passed \in SUBSET Guarded
  BY DEF ApprovalIInv, ApprovalTypeOK, Click
<1> QED
  BY <1>1 DEF Passing

\* A handler that goes on keeps its ticket, and what it knows of its lines.
LEMMA HandlerGoesOn ==
    ASSUME ApprovalIInv, NEW c \in Clicks, NEW step \in {"price code", "stock", "stock code"},
           NEW reasons \in SUBSET Guarded, NEW deferred \in BOOLEAN,
           GoOn(c, step, reasons, deferred), click[c].step # "idle",
           step = "price code" \/ "price" \in reasons \/ click[c].step = "stock",
           \A t \in Tickets : ticket'[t].holds = ticket[t].holds
    PROVE  click' \in [Clicks -> Click] /\ \A d \in Clicks : ClickIsSound(click[d])'
<1>1. click \in [Clicks -> Click] /\ \A d \in Clicks : ClickIsSound(click[d])
  BY DEF ApprovalIInv, ApprovalTypeOK
<1>2. PICK now : now = Passing(c, reasons)
  OBVIOUS
<1>3. now \in SUBSET Guarded
  BY <1>2, PassingIsGuarded
<1>4. click' = [click EXCEPT ![c].step = step, ![c].deferred = deferred, ![c].passed = now]
  BY <1>2 DEF GoOn
<1>5. step \in Steps
  BY DEF Steps
<1>6. click' \in [Clicks -> Click]
  <2> DEFINE old == click[c]
             x == [old EXCEPT !.step = step, !.deferred = deferred, !.passed = now]
  <2>1. old \in Click
    BY <1>1
  <2>2. Steps # {} /\ SUBSET Guarded # {}
    BY <1>3, <1>5
  <2> HIDE DEF old
  <2>3. x \in Click
    BY <2>1, <1>3, <1>5 DEF Click
  <2> USE DEF old
  <2>4. click' = [click EXCEPT ![c] = x]
    BY <1>4
  <2> HIDE DEF old, x
  <2> QED
    BY <1>1, <2>3, <2>4
<1>7. \A d \in Clicks \ {c} : click'[d] = click[d]
  BY <1>1, <1>4
<1>8. /\ click'[c].step = step /\ click'[c].passed = now
      /\ click'[c].ticket = click[c].ticket
      /\ click'[c].fresh = click[c].fresh /\ click'[c].manual = click[c].manual
  BY <1>1, <1>4 DEF Click
<1>9. ClickIsSound(click[c])
  BY <1>1
<1>10. click[c].ticket \in Tickets /\ click[c].step # "idle" /\ step # "idle"
  BY <1>9 DEF ClickIsSound
<1>11. ticket'[click[c].ticket].holds = ticket[click[c].ticket].holds
  BY <1>10
<1>12. click[c].fresh /\ step \in {"stock", "stock code"} /\ "price" \in ticket[click[c].ticket].holds =>
          "price" \in now
  BY <1>2, <1>9 DEF Passing, ClickIsSound
<1>13. ClickIsSound(click[c])'
  BY <1>8, <1>9, <1>10, <1>11, <1>12 DEF ClickIsSound
<1>14. ASSUME NEW d \in Clicks \ {c} PROVE ClickIsSound(click[d])'
  BY <1>1, <1>7 DEF ClickIsSound
<1> QED
  BY <1>6, <1>13, <1>14

\* The handlers keep what they know when the lines stay.
LEMMA HandlersStay ==
    ASSUME ApprovalIInv, \A t \in Tickets : ticket'[t].holds = ticket[t].holds,
           \A c \in Clicks : click'[c] = click[c] \/ click'[c] = NoClick
    PROVE  \A c \in Clicks : ClickIsSound(click[c])'
<1> SUFFICES ASSUME NEW c \in Clicks PROVE ClickIsSound(click[c])'
  OBVIOUS
<1>1. ClickIsSound(click[c])
  BY DEF ApprovalIInv
<1>2. CASE click'[c] = click[c]
  BY <1>1, <1>2 DEF ClickIsSound
<1>3. CASE click'[c] = NoClick
  BY <1>3 DEF ClickIsSound, NoClick
<1> QED
  BY <1>2, <1>3

LEMMA NoClickIsClick == NoClick \in Click
BY DEF NoClick, Click, Steps

\* It knows nothing.
LEMMA NoClickIsIdle == NoClick.step = "idle" /\ ~NoClick.fresh
BY DEF NoClick

\* Opening the payment leaves nothing unapproved: a handler whose lines are those it began
\* with has let all of them through.
LEMMA PaymentIsOpened ==
    ASSUME ApprovalIInv, NEW c \in Clicks, NEW reasons \in SUBSET Guarded, NEW tickets,
           tickets \in [Tickets -> Ticket],
           \A t \in Tickets : /\ tickets[t].state = ticket[t].state /\ tickets[t].holds = ticket[t].holds
                              /\ tickets[t].judged = ticket[t].judged
                              /\ tickets[t].passed = ticket[t].passed,
           OpenPayment(c, reasons, tickets),
           click[c].fresh => ticket[click[c].ticket].holds \cap Guarded \subseteq Passing(c, reasons)
    PROVE  /\ ticket' \in [Tickets -> Ticket]
           /\ click' \in [Clicks -> Click] /\ \A d \in Clicks : ClickIsSound(click[d])'
           /\ JudgedIsApproved'
           /\ \A t \in Tickets : ticket'[t].pending = tickets[t].pending
<1>1. click \in [Clicks -> Click] /\ current \in Tickets /\ JudgedIsApproved
  BY DEF ApprovalIInv, ApprovalTypeOK
<1>2. click' = [click EXCEPT ![c] = NoClick]
  BY DEF OpenPayment
<1>3. click' \in [Clicks -> Click] /\ \A d \in Clicks : click'[d] = click[d] \/ click'[d] = NoClick
  BY <1>1, <1>2, NoClickIsClick
<1>4. PICK judged \in BOOLEAN : judged <=> click[c].fresh /\ click[c].ticket = current
  <2>1. click[c].fresh \in BOOLEAN
    BY <1>1 DEF Click
  <2> QED
    BY <2>1
<1>5. PICK now \in SUBSET Guarded :
         /\ judged => now = Passing(c, reasons)
         /\ ~judged => now = {}
  BY PassingIsGuarded
<1>6. \/ ticket' = tickets
      \/ ticket' = [tickets EXCEPT ![current].state = "payment", ![current].judged = judged,
                                   ![current].passed = now]
  BY <1>4, <1>5 DEF OpenPayment
<1>7. /\ ticket' \in [Tickets -> Ticket]
      /\ \A t \in Tickets : /\ ticket'[t].pending = tickets[t].pending
                            /\ ticket'[t].holds = tickets[t].holds
  BY <1>1, <1>6 DEF Ticket
<1>8. \A d \in Clicks : ClickIsSound(click[d])'
  BY <1>3, <1>7, HandlersStay
<1>9. JudgedIsApproved'
  <2>1. CASE ticket' = tickets
    BY <1>1, <2>1 DEF JudgedIsApproved
  <2>2. CASE ticket' = [tickets EXCEPT ![current].state = "payment", ![current].judged = judged,
                                       ![current].passed = now]
    <3>1. \A t \in Tickets \ {current} : ticket'[t] = tickets[t]
      BY <2>2
    <3>2. /\ ticket'[current].judged = judged /\ ticket'[current].passed = now
          /\ ticket'[current].state = "payment"
          /\ ticket'[current].holds = ticket[current].holds
      BY <2>2, <1>1 DEF Ticket
    <3>3. judged => ticket[current].holds \cap Guarded \subseteq now
      BY <1>4, <1>5
    <3> QED
      BY <1>1, <3>1, <3>2, <3>3 DEF JudgedIsApproved
  <2> QED
    BY <1>6, <2>1, <2>2
<1> QED
  BY <1>3, <1>7, <1>8, <1>9

\* An invariant's parts again, with what types say that a step may disturb.
LEMMA ApprovalParts ==
    ASSUME ticket' \in [Tickets -> Ticket], current' \in Tickets, click' \in [Clicks -> Click],
           (validating \subseteq Validation)', setting' \in [role : Roles, coded : BOOLEAN],
           JudgedIsApproved', \A c \in Clicks : ClickIsSound(click[c])', CodesAreKept'
    PROVE  ApprovalIInv'
BY DEF ApprovalIInv, ApprovalTypeOK, CodesAreKept

\* The types, as the steps below use them.
LEMMA ApprovalTypes ==
    ASSUME ApprovalIInv
    PROVE  /\ ticket \in [Tickets -> Ticket] /\ current \in Tickets /\ click \in [Clicks -> Click]
           /\ validating \subseteq Validation /\ setting \in [role : Roles, coded : BOOLEAN]
           /\ JudgedIsApproved /\ CodesAreKept
           /\ \A c \in Clicks : ClickIsSound(click[c])
BY DEF ApprovalIInv, ApprovalTypeOK

\* A step of a handler alone.
LEMMA HandlerStep ==
    ASSUME ApprovalIInv, UNCHANGED <<ticket, current, validating, codes, logs, setting>>,
           click' \in [Clicks -> Click], \A c \in Clicks : ClickIsSound(click[c])'
    PROVE  ApprovalIInv'
<1>1. CodesAreKept'
  BY ApprovalTypes, CodesStay
<1>2. JudgedIsApproved'
  BY ApprovalTypes DEF JudgedIsApproved
<1> QED
  BY <1>1, <1>2, ApprovalTypes, ApprovalParts

\* The lines of a ticket are edited.
LEMMA EditKeeps ==
    ASSUME ApprovalIInv, NEW t \in Tickets, NEW cart \in Carts, EditTicket(t, cart)
    PROVE  ApprovalIInv'
<1>0. cart \in SUBSET Content
  BY ApprovalAssumption
<1>a. ticket' = [ticket EXCEPT ![t].holds = cart] /\ ticket[t].state = "edit"
  BY DEF EditTicket
<1>b. ticket \in [Tickets -> Ticket]
  BY ApprovalTypes
<1>1. ticket' \in [Tickets -> Ticket]
  BY <1>0, <1>a, <1>b DEF Ticket
<1>c. /\ \A u \in Tickets \ {t} : ticket'[u] = ticket[u]
      /\ ticket'[t] = [ticket[t] EXCEPT !.holds = cart]
  BY <1>a, <1>b
<1>d. /\ ticket'[t].pending = ticket[t].pending /\ ticket'[t].state = "edit"
      /\ ticket'[t].judged = ticket[t].judged
  BY <1>a, <1>b, <1>c DEF Ticket
<1>e. ~ticket[t].judged
  BY <1>a, ApprovalTypes DEF JudgedIsApproved
<1>2. /\ \A u \in Tickets : /\ ticket'[u].pending = ticket[u].pending
                            /\ u # t => ticket'[u] = ticket[u]
      /\ ticket'[t].state = "edit"
  BY <1>c, <1>d
<1>3. ASSUME NEW c \in Clicks PROVE click'[c] \in Click /\ ClickIsSound(click[c])'
  <2>1. click[c] \in Click /\ ClickIsSound(click[c])
    BY ApprovalTypes
  <2>2. CASE click[c].ticket = t
    <3>1. PICK no \in BOOLEAN : no = FALSE
      OBVIOUS
    <3>2. click'[c] = [click[c] EXCEPT !.fresh = no, !.passed = {}]
      <4>1. click'[c] = [click[c] EXCEPT !.fresh = FALSE, !.passed = {}]
        BY <2>2 DEF EditTicket
      <4> QED
        BY <4>1, <3>1, Zenon
    <3>3. click'[c] \in Click
      BY <2>1, <3>2 DEF Click
    <3>4. /\ ~click'[c].fresh /\ click'[c].step = click[c].step
          /\ click'[c].ticket = click[c].ticket /\ click'[c].deferred = click[c].deferred
      BY <2>1, <3>1, <3>2 DEF Click
    <3> QED
      BY <2>1, <3>3, <3>4 DEF ClickIsSound
  <2>3. CASE click[c].ticket # t
    <3>1. click'[c] = click[c]
      BY <2>3 DEF EditTicket
    <3>2. click[c].fresh => ticket'[click[c].ticket] = ticket[click[c].ticket]
      BY <1>2, <2>1, <2>3 DEF ClickIsSound
    <3> QED
      BY <2>1, <3>1, <3>2 DEF ClickIsSound
  <2> QED
    BY <2>2, <2>3
<1>4. click' \in [Clicks -> Click]
  BY <1>3 DEF EditTicket
<1>5. JudgedIsApproved'
  BY <1>2, <1>d, <1>e, ApprovalTypes DEF JudgedIsApproved
<1>6. UNCHANGED <<current, validating, codes, logs, setting>>
  BY DEF EditTicket
<1>7. CodesAreKept'
  BY <1>2, <1>6, ApprovalTypes, CodesStay
<1> QED
  BY <1>1, <1>3, <1>4, <1>5, <1>6, <1>7, ApprovalTypes, ApprovalParts

\* Another ticket is selected.
LEMMA SelectKeeps ==
    ASSUME ApprovalIInv, NEW t \in Tickets, SelectTicket(t)
    PROVE  ApprovalIInv'
<1>1. \A c \in Clicks : ClickIsSound(click[c])'
  BY HandlersStay DEF SelectTicket
<1>2. CodesAreKept'
  BY ApprovalTypes, CodesStay DEF SelectTicket
<1>3. JudgedIsApproved'
  BY ApprovalTypes DEF JudgedIsApproved, SelectTicket
<1> QED
  BY <1>1, <1>2, <1>3, ApprovalTypes, ApprovalParts DEF SelectTicket

\* The cashier goes back to the products.
LEMMA BackKeeps ==
    ASSUME ApprovalIInv, NEW t \in Tickets, BackToProducts(t)
    PROVE  ApprovalIInv'
<1>0. PICK no \in BOOLEAN : no = FALSE
  OBVIOUS
<1>1. ticket' = [ticket EXCEPT ![t].state = "edit", ![t].judged = no, ![t].passed = {}]
  BY <1>0, Zenon DEF BackToProducts
<1>2. ticket' \in [Tickets -> Ticket]
  <2> DEFINE x == [ticket[t] EXCEPT !.state = "edit", !.judged = no, !.passed = {}]
  <2>1. ticket \in [Tickets -> Ticket]
    BY ApprovalTypes
  <2>2. ticket[t] \in Ticket
    BY <2>1
  <2>3. x \in Ticket
    BY <2>2 DEF Ticket
  <2>4. ticket' = [ticket EXCEPT ![t] = x]
    BY <1>1
  <2> HIDE DEF x
  <2> QED
    BY <2>1, <2>3, <2>4
<1>3. /\ \A u \in Tickets : /\ ticket'[u].pending = ticket[u].pending
                            /\ ticket'[u].holds = ticket[u].holds
                            /\ u # t => ticket'[u] = ticket[u]
      /\ ticket'[t].judged = no
  BY <1>1, ApprovalTypes DEF Ticket
<1>4. UNCHANGED <<current, click, validating, codes, logs, setting>>
  BY DEF BackToProducts
<1>5. \A c \in Clicks : ClickIsSound(click[c])'
  BY <1>3, <1>4, HandlersStay
<1>6. CodesAreKept'
  BY <1>3, <1>4, ApprovalTypes, CodesStay
<1>7. JudgedIsApproved'
  BY <1>0, <1>3, ApprovalTypes DEF JudgedIsApproved
<1> QED
  BY <1>2, <1>4, <1>5, <1>6, <1>7, ApprovalTypes, ApprovalParts

\* pay() begins with the lines as they are.
LEMMA PayKeeps ==
    ASSUME ApprovalIInv, NEW c \in Clicks, Pay(c)
    PROVE  ApprovalIInv'
<1> DEFINE holds == ticket[current].holds
<1>1. PICK manual \in BOOLEAN : manual = ("discount" \in holds)
  <2>1. PICK m \in BOOLEAN : m <=> "discount" \in holds
    OBVIOUS
  <2>2. m = ("discount" \in holds)
    BY <2>1
  <2> QED
    BY <2>2, Zenon
<1>2. PICK no \in BOOLEAN : no = FALSE
  OBVIOUS
<1>3. PICK yes \in BOOLEAN : yes = TRUE
  OBVIOUS
<1>4. PICK step \in {"price", "stock"} : step = IF "price" \in holds THEN "price" ELSE "stock"
  OBVIOUS
<1> DEFINE x == [step |-> step, ticket |-> current, manual |-> manual, deferred |-> no,
                 fresh |-> yes, passed |-> {}]
<1>5. click' = [click EXCEPT ![c] = x]
  <2>1. click' = [click EXCEPT ![c] =
            [step |-> IF "price" \in holds THEN "price" ELSE "stock", ticket |-> current,
             manual |-> "discount" \in holds, deferred |-> FALSE, fresh |-> TRUE, passed |-> {}]]
    BY DEF Pay
  <2> HIDE DEF holds
  <2> QED
    BY <2>1, <1>1, <1>2, <1>3, <1>4, Zenon
<1>6. UNCHANGED <<ticket, current, validating, codes, logs, setting>>
  BY DEF Pay
<1>7. x \in Click
  <2>1. step \in Steps /\ current \in Tickets \cup {NoTicket} /\ {} \in SUBSET Guarded
    BY ApprovalTypes DEF Steps
  <2> QED
    BY <2>1 DEF Click
<1>8. /\ x.step = step /\ x.ticket = current /\ x.manual = manual /\ x.fresh = yes
      /\ x.passed = {}
  OBVIOUS
<1> HIDE DEF x
<1>9. click' \in [Clicks -> Click] /\ click'[c] = x /\ \A d \in Clicks \ {c} : click'[d] = click[d]
  BY <1>5, <1>7, ApprovalTypes
<1>10. step # "idle" /\ ~(step \in {"stock", "stock code"} /\ "price" \in holds)
  BY <1>4
<1>11. ClickIsSound(click[c])'
  <2>1. current \in Tickets
    BY ApprovalTypes
  <2>2. ticket'[current].holds = holds
    BY <1>6
  <2> QED
    BY <2>1, <2>2, <1>1, <1>3, <1>8, <1>9, <1>10 DEF ClickIsSound
<1>12. \A d \in Clicks \ {c} : ClickIsSound(click[d])'
  BY <1>6, <1>9, ApprovalTypes DEF ClickIsSound
<1> QED
  BY <1>6, <1>9, <1>11, <1>12, HandlerStep

\* The answer of the price check lets prices through or asks for a code.
LEMMA AnswerPriceKeeps ==
    ASSUME ApprovalIInv, NEW c \in Clicks, NEW answered \in BOOLEAN, AnswerPrice(c, answered)
    PROVE  ApprovalIInv'
<1>1. UNCHANGED <<ticket, current, validating, codes, logs, setting>> /\ click[c].step = "price"
  BY DEF AnswerPrice
<1>2. PICK no \in BOOLEAN : no = FALSE
  OBVIOUS
<1>3. {"price"} \in SUBSET Guarded /\ {} \in SUBSET Guarded
  BY DEF Guarded
<1>4. GoOn(c, "stock", {"price"}, no) \/ GoOn(c, "price code", {}, answered)
  BY <1>2, Zenon DEF AnswerPrice
<1>5. click' \in [Clicks -> Click] /\ \A d \in Clicks : ClickIsSound(click[d])'
  <2>1. CASE GoOn(c, "stock", {"price"}, no)
    BY <1>1, <1>3, <2>1, HandlerGoesOn
  <2>2. CASE GoOn(c, "price code", {}, answered)
    BY <1>1, <1>3, <2>2, HandlerGoesOn
  <2> QED
    BY <1>4, <2>1, <2>2
<1> QED
  BY <1>1, <1>5, HandlerStep

\* The payment is opened when nothing asks for a code, or the user is his own manager.
LEMMA AnswerStockKeeps ==
    ASSUME ApprovalIInv, NEW c \in Clicks, NEW answered \in BOOLEAN, AnswerStock(c, answered)
    PROVE  ApprovalIInv'
<1>1. UNCHANGED <<current, validating, codes, logs, setting>> /\ click[c].step = "stock"
  BY DEF AnswerStock
<1>2. {"stock", "discount"} \in SUBSET Guarded /\ {} \in SUBSET Guarded
  BY DEF Guarded
<1>3. CASE MustAsk(c, answered)
  <2>1. GoOn(c, "stock code", {}, answered) /\ UNCHANGED ticket
    BY <1>3 DEF AnswerStock
  <2>2. click' \in [Clicks -> Click] /\ \A d \in Clicks : ClickIsSound(click[d])'
    BY <1>1, <1>2, <2>1, HandlerGoesOn
  <2> QED
    BY <1>1, <2>1, <2>2, HandlerStep
<1>4. CASE ~MustAsk(c, answered)
  <2>1. PICK reasons \in SUBSET Guarded :
           /\ answered /\ Superviseur => reasons = {"stock", "discount"}
           /\ ~(answered /\ Superviseur) => reasons = {}
    BY <1>2
  <2>2. OpenPayment(c, reasons, ticket)
    BY <1>4, <2>1 DEF AnswerStock
  <2>3. ClickIsSound(click[c])
    BY ApprovalTypes
  <2>4. ASSUME click[c].fresh
        PROVE  ticket[click[c].ticket].holds \cap Guarded \subseteq Passing(c, reasons)
    <3>1. Passing(c, reasons) = click[c].passed \cup reasons
      BY <2>4 DEF Passing
    <3>2. "price" \in ticket[click[c].ticket].holds => "price" \in click[c].passed
      BY <1>1, <2>3, <2>4 DEF ClickIsSound
    <3>3. \/ reasons = {"stock", "discount"}
          \/ ~click[c].manual /\ "stock" \notin ticket[click[c].ticket].holds
      BY <1>4, <2>1 DEF MustAsk
    <3>4. click[c].manual <=> "discount" \in ticket[click[c].ticket].holds
      BY <2>3, <2>4 DEF ClickIsSound
    <3> QED
      BY <3>1, <3>2, <3>3, <3>4 DEF Guarded
  <2>5. ticket \in [Tickets -> Ticket]
    BY ApprovalTypes
  <2>6. /\ ticket' \in [Tickets -> Ticket]
        /\ click' \in [Clicks -> Click] /\ \A d \in Clicks : ClickIsSound(click[d])'
        /\ JudgedIsApproved'
        /\ \A t \in Tickets : ticket'[t].pending = ticket[t].pending
    BY <2>2, <2>4, <2>5, PaymentIsOpened
  <2>7. CodesAreKept'
    BY <1>1, <2>6, ApprovalTypes, CodesStay
  <2> QED
    BY <1>1, <2>6, <2>7, ApprovalTypes, ApprovalParts
<1> QED
  BY <1>3, <1>4

\* A refund is asked for.
LEMMA AskRefundKeeps ==
    ASSUME ApprovalIInv, NEW c \in Clicks, NEW t \in Tickets, AskRefund(c, t)
    PROVE  ApprovalIInv'
<1>1. UNCHANGED <<ticket, current, validating, codes, logs, setting>>
  BY DEF AskRefund
<1> DEFINE x == [NoClick EXCEPT !.step = "refund", !.ticket = t]
<1>2. click' = [click EXCEPT ![c] = x]
  BY DEF AskRefund
<1>3. x \in Click
  BY NoClickIsClick DEF Click, Steps
<1>4. ~x.fresh /\ x.ticket = t /\ ~x.deferred
  BY DEF NoClick
<1> HIDE DEF x
<1>5. click' \in [Clicks -> Click] /\ click'[c] = x /\ \A d \in Clicks \ {c} : click'[d] = click[d]
  BY <1>2, <1>3, ApprovalTypes
<1>6. ClickIsSound(click[c])'
  BY <1>4, <1>5 DEF ClickIsSound
<1>7. \A d \in Clicks \ {c} : ClickIsSound(click[d])'
  BY <1>1, <1>5, ApprovalTypes DEF ClickIsSound
<1> QED
  BY <1>1, <1>5, <1>6, <1>7, HandlerStep

\* The answer to a refund ends the handler or asks for a code.
LEMMA AnswerRefundKeeps ==
    ASSUME ApprovalIInv, NEW c \in Clicks, NEW answered \in BOOLEAN, AnswerRefund(c, answered)
    PROVE  ApprovalIInv'
<1>1. UNCHANGED <<ticket, current, validating, codes, logs, setting>> /\ click[c].step = "refund"
  BY DEF AnswerRefund
<1>2. click \in [Clicks -> Click] /\ ClickIsSound(click[c])
  BY ApprovalTypes
<1>3. PICK x : /\ click' = [click EXCEPT ![c] = x]
               /\ x = NoClick \/ x = [click[c] EXCEPT !.step = "refund code"]
  BY <1>2 DEF AnswerRefund
<1>4. x \in Click
  BY <1>2, <1>3, NoClickIsClick DEF Click, Steps
<1>5. click' \in [Clicks -> Click] /\ click'[c] = x /\ \A d \in Clicks \ {c} : click'[d] = click[d]
  BY <1>2, <1>3, <1>4
<1>6. ClickIsSound(click[c])'
  <2>1. CASE x = NoClick
    BY <1>5, <2>1 DEF ClickIsSound, NoClick
  <2>2. CASE x = [click[c] EXCEPT !.step = "refund code"]
    <3>1. /\ x.step = "refund code" /\ x.ticket = click[c].ticket
          /\ x.fresh = click[c].fresh /\ x.manual = click[c].manual
          /\ x.deferred = click[c].deferred
      BY <1>2, <2>2 DEF Click
    <3> QED
      BY <1>1, <1>2, <1>5, <3>1 DEF ClickIsSound
  <2> QED
    BY <1>3, <2>1, <2>2
<1>7. \A d \in Clicks \ {c} : ClickIsSound(click[d])'
  BY <1>1, <1>5, ApprovalTypes DEF ClickIsSound
<1> QED
  BY <1>1, <1>5, <1>6, <1>7, HandlerStep

\* A code is refused.
LEMMA RefuseKeeps ==
    ASSUME ApprovalIInv, NEW c \in Clicks, RefuseCode(c)
    PROVE  ApprovalIInv'
<1>1. UNCHANGED <<ticket, current, validating, codes, logs, setting>>
      /\ click' = [click EXCEPT ![c] = NoClick]
  BY DEF RefuseCode
<1>2. click' \in [Clicks -> Click] /\ \A d \in Clicks : click'[d] = click[d] \/ click'[d] = NoClick
  BY <1>1, ApprovalTypes, NoClickIsClick
<1>3. \A d \in Clicks : ClickIsSound(click[d])'
  BY <1>1, <1>2, HandlersStay
<1> QED
  BY <1>1, <1>2, <1>3, HandlerStep

\* What waits with a ticket when its code is entered.
LEMMA CodeIsDeferred ==
    ASSUME ApprovalIInv, Accepted, NEW t \in Tickets, NEW deferred \in BOOLEAN
    PROVE  /\ Defer(t, deferred) \in [Tickets -> Ticket]
           /\ \A u \in Tickets : /\ Defer(t, deferred)[u].state = ticket[u].state
                                 /\ Defer(t, deferred)[u].holds = ticket[u].holds
                                 /\ Defer(t, deferred)[u].judged = ticket[u].judged
                                 /\ Defer(t, deferred)[u].passed = ticket[u].passed
                                 /\ u # t => Defer(t, deferred)[u].pending = ticket[u].pending
           /\ Defer(t, deferred)[t].pending = IF deferred THEN ticket[t].pending \cup {Len(codes) + 1}
                                              ELSE ticket[t].pending
<1>1. ticket \in [Tickets -> Ticket] /\ codes \in Seq(Tickets)
  BY ApprovalTypes DEF CodesAreKept
<1>2. PICK n : n = Len(codes) + 1
  OBVIOUS
<1>3. n \in Codes
  BY <1>1, <1>2, ApprovalAssumption DEF Accepted, Codes
<1>4. CASE deferred
  <2> DEFINE kept == ticket[t].pending \cup {n}
             new == [ticket EXCEPT ![t].pending = kept]
  <2>1. Defer(t, deferred) = new
    BY <1>2, <1>4 DEF Defer
  <2>2. kept \in SUBSET Codes
    BY <1>1, <1>3 DEF Ticket
  <2> HIDE DEF kept
  <2>3. new \in [Tickets -> Ticket]
    BY <1>1, <2>2 DEF Ticket
  <2>4. /\ \A u \in Tickets \ {t} : new[u] = ticket[u]
        /\ new[t] = [ticket[t] EXCEPT !.pending = kept]
    BY <1>1
  <2> HIDE DEF new
  <2>5. ticket[t] \in Ticket
    BY <1>1
  <2>6. /\ new[t].state = ticket[t].state /\ new[t].holds = ticket[t].holds
        /\ new[t].judged = ticket[t].judged /\ new[t].passed = ticket[t].passed
        /\ new[t].pending = kept
    BY <2>4, <2>5 DEF Ticket
  <2> QED
    BY <1>2, <1>4, <2>1, <2>3, <2>4, <2>6 DEF kept
<1>5. CASE ~deferred
  BY <1>1, <1>5 DEF Defer
<1> QED
  BY <1>4, <1>5

\* A code is entered: for a price, for a discount or the stock, or for a refund.
LEMMA EnterKeeps ==
    ASSUME ApprovalIInv, NEW c \in Clicks, NEW answered \in BOOLEAN, EnterCode(c, answered)
    PROVE  ApprovalIInv'
<1>1. click[c] \in Click /\ ClickIsSound(click[c])
  BY ApprovalTypes
<1>2. PICK deferred \in BOOLEAN : deferred = click[c].deferred
  <2>1. click[c].deferred \in BOOLEAN
    BY <1>1 DEF Click
  <2> QED
    BY <2>1, Zenon
<1>t. PICK t : t = click[c].ticket
  OBVIOUS
<1>3. /\ Accepted /\ GiveCode(t, answered, deferred)
      /\ UNCHANGED <<current, validating, setting>>
  BY <1>2, <1>t DEF EnterCode
<1>4. \/ click[c].step = "price code" /\ GoOn(c, "stock", {"price"}, FALSE)
                                      /\ ticket' = Defer(t, deferred)
      \/ click[c].step = "stock code" /\ OpenPayment(c, {"stock", "discount"}, Defer(t, deferred))
      \/ click[c].step = "refund code" /\ click' = [click EXCEPT ![c] = NoClick]
                                       /\ UNCHANGED ticket
  BY <1>2, <1>t DEF EnterCode
<1>5. t \in Tickets
  BY <1>1, <1>t, <1>4 DEF ClickIsSound
<1>6. {"price"} \in SUBSET Guarded /\ {"stock", "discount"} \in SUBSET Guarded
  BY DEF Guarded
<1> DEFINE tickets == Defer(t, deferred)
<1>7. /\ tickets \in [Tickets -> Ticket]
      /\ \A u \in Tickets : /\ tickets[u].state = ticket[u].state
                            /\ tickets[u].holds = ticket[u].holds
                            /\ tickets[u].judged = ticket[u].judged
                            /\ tickets[u].passed = ticket[u].passed
                            /\ u # t => tickets[u].pending = ticket[u].pending
  BY <1>3, <1>5, CodeIsDeferred
<1>8. tickets[t].pending = IF deferred THEN ticket[t].pending \cup {Len(codes) + 1}
                           ELSE ticket[t].pending
  BY <1>3, <1>5, CodeIsDeferred
<1> HIDE DEF tickets
<1>9. CASE click[c].step = "price code" /\ GoOn(c, "stock", {"price"}, FALSE)
                                        /\ ticket' = Defer(t, deferred)
  <2>1. PICK no \in BOOLEAN : no = FALSE
    OBVIOUS
  <2>2. GoOn(c, "stock", {"price"}, no)
    BY <1>9, <2>1, Zenon
  <2>3. ticket' = tickets
    BY <1>9 DEF tickets
  <2>4. click' \in [Clicks -> Click] /\ \A d \in Clicks : ClickIsSound(click[d])'
    BY <1>6, <1>7, <1>9, <2>2, <2>3, HandlerGoesOn
  <2>5. JudgedIsApproved'
    BY <1>7, <2>3, ApprovalTypes DEF JudgedIsApproved
  <2>6. CodesAreKept'
    BY <1>3, <1>5, <1>7, <1>8, <2>3, CodeIsGiven
  <2> QED
    BY <1>3, <1>7, <2>3, <2>4, <2>5, <2>6, ApprovalTypes, ApprovalParts
<1>10. CASE click[c].step = "stock code" /\ OpenPayment(c, {"stock", "discount"}, Defer(t, deferred))
  <2>1. ASSUME click[c].fresh
        PROVE  ticket[click[c].ticket].holds \cap Guarded \subseteq Passing(c, {"stock", "discount"})
    <3>1. Passing(c, {"stock", "discount"}) = click[c].passed \cup {"stock", "discount"}
      BY <2>1 DEF Passing
    <3>2. "price" \in ticket[click[c].ticket].holds => "price" \in click[c].passed
      BY <1>1, <1>10, <2>1 DEF ClickIsSound
    <3> QED
      BY <3>1, <3>2 DEF Guarded
  <2>2. OpenPayment(c, {"stock", "discount"}, tickets)
    BY <1>10 DEF tickets
  <2>3. /\ ticket' \in [Tickets -> Ticket]
        /\ click' \in [Clicks -> Click] /\ \A d \in Clicks : ClickIsSound(click[d])'
        /\ JudgedIsApproved'
        /\ \A u \in Tickets : ticket'[u].pending = tickets[u].pending
    BY <1>6, <1>7, <2>1, <2>2, PaymentIsOpened
  <2>4. CodesAreKept'
    BY <1>3, <1>5, <1>7, <1>8, <2>3, CodeIsGiven
  <2> QED
    BY <1>3, <2>3, <2>4, ApprovalTypes, ApprovalParts
<1>11. CASE click[c].step = "refund code" /\ click' = [click EXCEPT ![c] = NoClick]
                                          /\ UNCHANGED ticket
  <2>1. click' \in [Clicks -> Click] /\ \A d \in Clicks : click'[d] = click[d] \/ click'[d] = NoClick
    BY <1>11, ApprovalTypes, NoClickIsClick
  <2>2. \A d \in Clicks : ClickIsSound(click[d])'
    BY <1>11, <2>1, HandlersStay
  <2>3. JudgedIsApproved'
    BY <1>11, ApprovalTypes DEF JudgedIsApproved
  <2>4. ~deferred
    BY <1>1, <1>2, <1>11 DEF ClickIsSound
  <2>5. CodesAreKept'
    BY <1>3, <1>5, <1>11, <2>4, CodeIsGiven
  <2> QED
    BY <1>3, <1>11, <2>1, <2>2, <2>3, <2>5, ApprovalTypes, ApprovalParts
<1> QED
  BY <1>4, <1>9, <1>10, <1>11

\* A paid ticket is consulted with a code, which is logged at once.
LEMMA ConsultKeeps ==
    ASSUME ApprovalIInv, NEW t \in Tickets, NEW answered \in BOOLEAN, Consult(t, answered)
    PROVE  ApprovalIInv'
<1>1. /\ Accepted /\ UNCHANGED <<ticket, current, click, validating, setting>>
      /\ GiveCode(t, answered, FALSE)
  BY DEF Consult
<1>2. PICK no \in BOOLEAN : no = FALSE
  OBVIOUS
<1>3. GiveCode(t, answered, no) /\ ~no
  BY <1>1, <1>2, Zenon
<1>4. CodesAreKept'
  BY <1>1, <1>3, CodeIsGiven
<1>5. \A c \in Clicks : ClickIsSound(click[c])'
  BY <1>1, HandlersStay
<1>6. JudgedIsApproved'
  BY <1>1, ApprovalTypes DEF JudgedIsApproved
<1> QED
  BY <1>1, <1>4, <1>5, <1>6, ApprovalTypes, ApprovalParts

\* validateOrder takes the codes that wait with the ticket: they wait in one call now.
LEMMA ValidateKeeps ==
    ASSUME ApprovalIInv, NEW t \in Tickets, NEW call \in 1 .. 2, ValidateOrder(t, call)
    PROVE  ApprovalIInv'
<1> DEFINE x == [ticket |-> t, call |-> call, codes |-> ticket[t].pending]
<1>1. /\ validating' = validating \cup {x}
      /\ \A v \in validating : v.ticket = t => v.call # call
      /\ ticket' = [ticket EXCEPT ![t].pending = {}]
      /\ UNCHANGED <<current, click, codes, logs, setting>>
  BY DEF ValidateOrder, TakePending
<1>2. ticket \in [Tickets -> Ticket] /\ validating \subseteq Validation /\ ticket[t] \in Ticket
  BY ApprovalTypes
<1>3. ticket' \in [Tickets -> Ticket]
  BY <1>1, <1>2 DEF Ticket
<1>4. /\ \A u \in Tickets \ {t} : ticket'[u] = ticket[u]
      /\ ticket'[t] = [ticket[t] EXCEPT !.pending = {}]
  BY <1>1, <1>2
<1>5. /\ ticket'[t].state = ticket[t].state /\ ticket'[t].holds = ticket[t].holds
      /\ ticket'[t].judged = ticket[t].judged /\ ticket'[t].passed = ticket[t].passed
      /\ ticket'[t].pending = {}
  BY <1>2, <1>4 DEF Ticket
<1>6. x \in Validation
  BY <1>2 DEF Validation, Ticket
<1>7. x.ticket = t /\ x.call = call /\ x.codes = ticket[t].pending
  OBVIOUS
<1> HIDE DEF x
<1>8. \A c \in Clicks : ClickIsSound(click[c])'
  BY <1>1, <1>4, <1>5, HandlersStay
<1>9. JudgedIsApproved'
  BY <1>4, <1>5, ApprovalTypes DEF JudgedIsApproved
<1>10. CodesAreKept /\ CodesWaitOnce
  BY ApprovalTypes DEF CodesAreKept
<1>11. CodesWaitOnce'
  <2>1. ASSUME NEW u \in Tickets, NEW k \in ticket'[u].pending
        PROVE  Waits(k, u)'
    <3>1. u # t /\ k \in ticket[u].pending
      BY <2>1, <1>4, <1>5
    <3> QED
      BY <3>1, <1>1, <1>10 DEF CodesWaitOnce, Waits
  <2>2. ASSUME NEW v \in validating', NEW k \in v.codes
        PROVE  Waits(k, v.ticket)' /\ k \notin ticket'[v.ticket].pending
    <3>1. CASE v = x
      BY <2>2, <3>1, <1>1, <1>5, <1>7, <1>10 DEF CodesWaitOnce, Waits
    <3>2. CASE v \in validating
      <4>1. Waits(k, v.ticket) /\ k \notin ticket[v.ticket].pending /\ v.ticket \in Tickets
        BY <2>2, <3>2, <1>2, <1>10 DEF CodesWaitOnce, Validation
      <4> QED
        BY <4>1, <1>1, <1>4, <1>5 DEF Waits
    <3> QED
      BY <1>1, <3>1, <3>2
  <2>3. ASSUME NEW v \in validating, NEW k \in v.codes PROVE k \notin x.codes
    <3>1. Waits(k, v.ticket) /\ k \notin ticket[v.ticket].pending
      BY <2>3, <1>10 DEF CodesWaitOnce
    <3>2. k \in ticket[t].pending => codes[k] = t
      BY <1>10 DEF CodesWaitOnce, Waits
    <3> QED
      BY <3>1, <3>2, <1>7 DEF Waits
  <2>4. ASSUME NEW v \in validating', NEW w \in validating', NEW k \in v.codes, k \in w.codes
        PROVE  v = w
    BY <2>3, <2>4, <1>1, <1>10 DEF CodesWaitOnce
  <2> QED
    BY <2>1, <2>2, <2>4 DEF CodesWaitOnce
<1>12. CodesAreKept'
  BY <1>1, <1>10, <1>11 DEF CodesAreKept, LogNamesItsTicket, LoggedOnce
<1>13. (validating \subseteq Validation)'
  BY <1>1, <1>2, <1>6
<1> QED
  BY <1>1, <1>3, <1>8, <1>9, <1>12, <1>13, ApprovalTypes, ApprovalParts

\* A call of validateOrder ends: what it carries is logged, or lost.
LEMMA EndKeeps ==
    ASSUME ApprovalIInv, NEW v \in validating, NEW finalizes \in BOOLEAN, NEW answered \in BOOLEAN,
           EndValidation(v, finalizes, answered)
    PROVE  ApprovalIInv'
<1>1. /\ ticket \in [Tickets -> Ticket] /\ validating \subseteq Validation
      /\ logs \in [Codes -> [Tickets -> Nat]]
  BY ApprovalTypes DEF CodesAreKept
<1>2. PICK t : t = v.ticket
  OBVIOUS
<1>3. t \in Tickets /\ v.codes \subseteq Codes /\ ticket[t] \in Ticket
  BY <1>1, <1>2 DEF Validation
<1>4. /\ validating' = validating \ {v}
      /\ UNCHANGED <<current, click, codes, setting>>
  BY DEF EndValidation
<1>5. PICK state \in {"edit", "payment", "paid"} :
         /\ ticket' = [ticket EXCEPT ![t].state = state]
         /\ ticket[t].state # "edit" => state # "edit"
  <2>1. CASE finalizes \/ ticket[v.ticket].state = "paid"
    <3>1. ticket' = [ticket EXCEPT ![t].state = "paid"]
      BY <2>1, <1>2 DEF EndValidation
    <3> QED
      BY <3>1
  <2>2. CASE ~(finalizes \/ ticket[v.ticket].state = "paid")
    <3>1. ticket' = [ticket EXCEPT ![t].state = ticket[t].state]
      BY <2>2, <1>2 DEF EndValidation
    <3>2. ticket[t].state \in {"edit", "payment", "paid"}
      BY <1>3 DEF Ticket
    <3> QED
      BY <3>1, <3>2
  <2> QED
    BY <2>1, <2>2
<1>6. ticket' \in [Tickets -> Ticket]
  BY <1>1, <1>3, <1>5 DEF Ticket
<1>7. /\ \A u \in Tickets \ {t} : ticket'[u] = ticket[u]
      /\ ticket'[t] = [ticket[t] EXCEPT !.state = state]
  BY <1>1, <1>3, <1>5
<1>8. /\ ticket'[t].state = state /\ ticket'[t].holds = ticket[t].holds
      /\ ticket'[t].judged = ticket[t].judged /\ ticket'[t].passed = ticket[t].passed
      /\ ticket'[t].pending = ticket[t].pending
  BY <1>3, <1>7 DEF Ticket
<1>9. \A c \in Clicks : ClickIsSound(click[c])'
  BY <1>4, <1>7, <1>8, HandlersStay
<1>10. JudgedIsApproved'
  BY <1>5, <1>7, <1>8, ApprovalTypes DEF JudgedIsApproved
<1>11. CodesAreKept /\ CodesWaitOnce /\ LogNamesItsTicket /\ LoggedOnce
  BY ApprovalTypes DEF CodesAreKept
<1>12. \A k \in v.codes : Waits(k, t)
  BY <1>2, <1>11 DEF CodesWaitOnce
<1>13. /\ logs' \in [Codes -> [Tickets -> Nat]]
       /\ \A k \in Codes, u \in Tickets :
             (logs'[k][u] = logs[k][u]) \/ (k \in v.codes /\ u = t /\ logs'[k][u] = 1)
  <2>1. CASE logs' = logs
    BY <2>1, <1>1
  <2>2. CASE logs' = [k \in Codes |-> IF k \in v.codes THEN [logs[k] EXCEPT ![v.ticket] = @ + 1]
                                      ELSE logs[k]]
    <3>1. ASSUME NEW k \in Codes
          PROVE  /\ logs'[k] \in [Tickets -> Nat]
                 /\ \A u \in Tickets :
                       (logs'[k][u] = logs[k][u]) \/ (k \in v.codes /\ u = t /\ logs'[k][u] = 1)
      <4>1. CASE k \in v.codes
        <5>1. logs'[k] = [logs[k] EXCEPT ![t] = @ + 1] /\ logs[k] \in [Tickets -> Nat]
          BY <2>2, <4>1, <1>1, <1>2
        <5>2. logs[k][t] = 0
          BY <4>1, <1>12 DEF Waits
        <5>3. logs'[k] = [logs[k] EXCEPT ![t] = 1]
          BY <5>1, <5>2
        <5> QED
          BY <4>1, <5>1, <5>3, <1>3
      <4>2. CASE k \notin v.codes
        BY <2>2, <4>2, <1>1
      <4> QED
        BY <4>1, <4>2
    <3>2. logs' \in [Codes -> [Tickets -> Nat]]
      BY <2>2, <3>1
    <3> QED
      BY <3>1, <3>2
  <2> QED
    BY <2>1, <2>2 DEF EndValidation
<1>14. LogNamesItsTicket' /\ LoggedOnce'
  <2>1. ASSUME NEW k \in Codes, NEW u \in Tickets
        PROVE  /\ logs'[k][u] > 0 => k <= Len(codes) /\ codes[k] = u
               /\ logs'[k][u] <= 1
    <3>1. CASE logs'[k][u] = logs[k][u]
      BY <3>1, <1>11 DEF LogNamesItsTicket, LoggedOnce
    <3>2. CASE k \in v.codes /\ u = t /\ logs'[k][u] = 1
      BY <3>2, <1>12 DEF Waits
    <3> QED
      BY <3>1, <3>2, <1>13
  <2> QED
    BY <2>1, <1>4 DEF LogNamesItsTicket, LoggedOnce, Codes
<1>15. CodesWaitOnce'
  <2>1. ASSUME NEW k, NEW u \in Tickets, k \in Codes, Waits(k, u), k \notin v.codes \/ u # t
        PROVE  Waits(k, u)'
    BY <2>1, <1>4, <1>13 DEF Waits
  <2>2. ASSUME NEW u \in Tickets, NEW k \in ticket'[u].pending PROVE Waits(k, u)'
    <3>1. k \in ticket[u].pending /\ Waits(k, u) /\ k \in Codes
      BY <2>2, <1>1, <1>7, <1>8, <1>11 DEF CodesWaitOnce, Ticket
    <3>2. k \notin v.codes \/ u # t
      BY <3>1, <1>2, <1>11 DEF CodesWaitOnce
    <3> QED
      BY <2>1, <3>1, <3>2
  <2>3. ASSUME NEW w \in validating', NEW k \in w.codes
        PROVE  Waits(k, w.ticket)' /\ k \notin ticket'[w.ticket].pending
    <3>1. w \in validating /\ w # v /\ w.ticket \in Tickets /\ k \in Codes
      BY <2>3, <1>1, <1>4 DEF Validation
    <3>2. Waits(k, w.ticket) /\ k \notin ticket[w.ticket].pending /\ k \notin v.codes
      BY <2>3, <3>1, <1>11 DEF CodesWaitOnce
    <3>3. ticket'[w.ticket].pending = ticket[w.ticket].pending
      BY <3>1, <1>7, <1>8
    <3> QED
      BY <2>1, <3>1, <3>2, <3>3
  <2>4. \A w, x \in validating' : \A k \in w.codes : k \in x.codes => w = x
    BY <1>4, <1>11 DEF CodesWaitOnce
  <2> QED
    BY <2>2, <2>3, <2>4 DEF CodesWaitOnce
<1>16. CodesAreKept'
  BY <1>4, <1>11, <1>13, <1>14, <1>15 DEF CodesAreKept, Codes
<1>17. (validating \subseteq Validation)'
  BY <1>1, <1>4
<1> QED
  BY <1>4, <1>6, <1>9, <1>10, <1>16, <1>17, ApprovalTypes, ApprovalParts

\* The page is loaded again: nothing waits, and nothing is judged.
LEMMA ReloadKeeps ==
    ASSUME ApprovalIInv, Reload
    PROVE  ApprovalIInv'
<1>1. ticket \in [Tickets -> Ticket] /\ CodesAreKept
  BY ApprovalTypes
<1>2. UNCHANGED <<current, codes, logs, setting>> /\ validating' = {}
  BY DEF Reload
<1>3. PICK no \in BOOLEAN : no = FALSE
  OBVIOUS
<1>4. ASSUME NEW t \in Tickets
      PROVE  ticket'[t] \in Ticket /\ ~ticket'[t].judged /\ ticket'[t].pending = {}
  <2>1. ticket[t] \in Ticket
    BY <1>1
  <2>2. PICK state, holds :
           /\ state \in {"edit", "payment", "paid"} /\ holds \in SUBSET Content
           /\ ticket'[t] = [ticket[t] EXCEPT !.state = state, !.pending = {}, !.judged = FALSE,
                                             !.passed = {}, !.holds = holds]
    <3> DEFINE state == IF ticket[t].state = "payment" THEN "edit" ELSE ticket[t].state
               holds == IF "auto" \in ticket[t].holds
                        THEN (ticket[t].holds \ {"auto"}) \cup {"discount"} ELSE ticket[t].holds
    <3>1. state \in {"edit", "payment", "paid"} /\ holds \in SUBSET Content
      BY <2>1 DEF Ticket, Content
    <3>2. ticket'[t] = [ticket[t] EXCEPT !.state = state, !.pending = {}, !.judged = FALSE,
                                         !.passed = {}, !.holds = holds]
      BY DEF Reload
    <3> QED
      BY <3>1, <3>2
  <2>3. ticket'[t] = [ticket[t] EXCEPT !.state = state, !.pending = {}, !.judged = no,
                                       !.passed = {}, !.holds = holds]
    BY <2>2, <1>3, Zenon
  <2> DEFINE x == [ticket[t] EXCEPT !.state = state, !.pending = {}, !.holds = holds]
  <2>4. ticket'[t] = [x EXCEPT !.judged = no, !.passed = {}]
    BY <2>1, <2>3 DEF Ticket
  <2>5. x \in Ticket /\ x.pending = {}
    BY <2>1, <2>2 DEF Ticket
  <2> HIDE DEF x
  <2> QED
    BY <2>4, <2>5, <1>3 DEF Ticket
<1>5. ticket' \in [Tickets -> Ticket]
  BY <1>4 DEF Reload
<1>6. click' \in [Clicks -> Click] /\ \A c \in Clicks : click'[c] = NoClick
  BY NoClickIsClick DEF Reload
<1>7. \A c \in Clicks : ClickIsSound(click[c])'
  BY <1>6, NoClickIsIdle DEF ClickIsSound
<1>8. JudgedIsApproved'
  BY <1>4 DEF JudgedIsApproved
<1>9. CodesWaitOnce'
  BY <1>2, <1>4 DEF CodesWaitOnce
<1>10. CodesAreKept'
  BY <1>1, <1>2, <1>9 DEF CodesAreKept, LogNamesItsTicket, LoggedOnce
<1> QED
  BY <1>2, <1>5, <1>6, <1>7, <1>8, <1>10, ApprovalTypes, ApprovalParts

\* An empty page satisfies the inductive invariant.
LEMMA ApprovalFirst == ApprovalInit => ApprovalIInv
<1> SUFFICES ASSUME ApprovalInit PROVE ApprovalIInv
  OBVIOUS
<1>1. PICK no \in BOOLEAN : no = FALSE
  OBVIOUS
<1>2. ticket = [t \in Tickets |-> [state |-> "edit", holds |-> {}, pending |-> {},
                                   judged |-> no, passed |-> {}]]
  BY <1>1, Zenon DEF ApprovalInit
<1>3. ticket \in [Tickets -> Ticket]
  BY <1>2 DEF Ticket
<1>4. \A t \in Tickets : ~ticket[t].judged /\ ticket[t].pending = {}
  BY <1>1, <1>2
<1>5. click \in [Clicks -> Click] /\ \A c \in Clicks : click[c] = NoClick
  BY NoClickIsClick DEF ApprovalInit
<1>6. \A c \in Clicks : ClickIsSound(click[c])
  BY <1>5, NoClickIsIdle DEF ClickIsSound
<1>7. codes = <<>> /\ validating = {} /\ logs = [k \in Codes |-> [t \in Tickets |-> 0]]
  BY DEF ApprovalInit
<1>8. codes \in Seq(Tickets) /\ Len(codes) = 0
  BY <1>7
<1>9. logs \in [Codes -> [Tickets -> Nat]] /\ \A k \in Codes, t \in Tickets : logs[k][t] = 0
  BY <1>7
<1>10. LogNamesItsTicket /\ LoggedOnce
  BY <1>9 DEF LogNamesItsTicket, LoggedOnce
<1>11. CodesWaitOnce
  BY <1>4, <1>7 DEF CodesWaitOnce
<1>12. CodesAreKept
  BY <1>8, <1>9, <1>10, <1>11, ApprovalAssumption DEF CodesAreKept
<1>13. JudgedIsApproved
  BY <1>4 DEF JudgedIsApproved
<1> QED
  BY <1>3, <1>5, <1>6, <1>7, <1>12, <1>13
     DEF ApprovalIInv, ApprovalTypeOK, ApprovalInit, CodesAreKept

\* Every step of the till keeps it.
LEMMA ApprovalStep == ApprovalIInv /\ [ApprovalNext]_approvalVars => ApprovalIInv'
<1> SUFFICES ASSUME ApprovalIInv, [ApprovalNext]_approvalVars PROVE ApprovalIInv'
  OBVIOUS
<1>1. CASE UNCHANGED approvalVars
  <2>1. UNCHANGED <<ticket, current, click, validating, codes, logs, setting>>
    BY <1>1 DEF approvalVars
  <2>2. \A c \in Clicks : ClickIsSound(click[c])'
    BY <2>1, HandlersStay
  <2>3. click' \in [Clicks -> Click]
    BY <2>1, ApprovalTypes
  <2> QED
    BY <2>1, <2>2, <2>3, HandlerStep
<1>2. ASSUME NEW t \in Tickets,
             \/ SelectTicket(t) \/ BackToProducts(t)
             \/ \E call \in 1 .. 2 : ValidateOrder(t, call)
             \/ \E cart \in Carts : EditTicket(t, cart)
             \/ \E answered \in BOOLEAN : Consult(t, answered)
      PROVE  ApprovalIInv'
  BY <1>2, SelectKeeps, BackKeeps, ValidateKeeps, EditKeeps, ConsultKeeps
<1>3. ASSUME NEW c \in Clicks, Pay(c) \/ RefuseCode(c) \/ \E t \in Tickets : AskRefund(c, t)
      PROVE  ApprovalIInv'
  BY <1>3, PayKeeps, RefuseKeeps, AskRefundKeeps
<1>4. ASSUME NEW c \in Clicks, NEW answered \in BOOLEAN,
             \/ AnswerPrice(c, answered) \/ AnswerStock(c, answered)
             \/ AnswerRefund(c, answered) \/ EnterCode(c, answered)
      PROVE  ApprovalIInv'
  BY <1>4, AnswerPriceKeeps, AnswerStockKeeps, AnswerRefundKeeps, EnterKeeps
<1>5. ASSUME NEW v \in validating, NEW finalizes \in BOOLEAN, NEW answered \in BOOLEAN,
             EndValidation(v, finalizes, answered)
      PROVE  ApprovalIInv'
  BY <1>5, EndKeeps
<1>6. CASE Reload
  BY <1>6, ReloadKeeps
<1> QED
  BY <1>1, <1>2, <1>3, <1>4, <1>5, <1>6 DEF ApprovalNext

\* No ticket is in payment without what its lines take, and a code is logged once, on the
\* ticket it was given for (ProductScreen.js, payment_screen_patch.js), whatever the order of
\* the answers, the clicks and the tickets selected.
THEOREM PaidWithCodes == ApprovalSpec => []ApprovalInv
  BY ApprovalFirst, ApprovalStep, ApprovalIsKept, PTL DEF ApprovalSpec

-----------------------------------------------------------------------------
(* Automatic discounts.                                                    *)

\* The marks of a line are exclusive, whatever touched it last; with q on the ticket they
\* tell its discount, and a partner without promotions has none.
LineIsSound(line, q) ==
    /\ ~(line.promo /\ line.global)
    /\ line.last = "typed" => line.discount = "typed"
    /\ line.last = "rule" =>
          /\ line.promo => line.discount = "promo"
          /\ ~line.promo /\ line.global => line.discount = q
          /\ ~line.promo /\ ~line.global => line.discount = "none"
    /\ q \in Excluded /\ line.last # "reload" => line.discount # "promo"

\* The inductive invariant of the lines.
DiscountIInv ==
    /\ DiscountTypeOK
    /\ \A i \in DOMAIN lines : LineIsSound(lines[i], partner)

\* The invariant of the lines is part of it.
LEMMA DiscountIsKept == DiscountIInv => DiscountInv
BY DEF DiscountIInv, DiscountInv, MarkTellsTheDiscount, ExcludedGetsNoPromotion, LineIsSound

\* What may stand on a line when the discount of partner q is put on it.
Unsettled(line, q) ==
    /\ ~(line.promo /\ line.global)
    /\ line.last = "typed" => line.discount = "typed"
    /\ line.last = "rule" =>
          /\ line.promo => line.discount = "promo" /\ q \notin Excluded
          /\ ~line.promo /\ ~line.global => line.discount = "none"

\* The discount of the partner settles a line.
LEMMA PartnerSettles ==
    ASSUME NEW line \in Line, NEW q \in Partners \cup {Nobody}, Unsettled(line, q)
    PROVE  GlobalOf(line, q) \in Line /\ LineIsSound(GlobalOf(line, q), q)
<1>1. PICK yes \in BOOLEAN, no \in BOOLEAN : yes = TRUE /\ no = FALSE
  OBVIOUS
<1> DEFINE new == GlobalOf(line, q)
<1>2. CASE line.promo /\ q # Nobody
  <2>1. new = line
    BY <1>2 DEF GlobalOf
  <2> HIDE DEF new
  <2>2. LineIsSound(line, q)
    BY <1>2 DEF Unsettled, LineIsSound, Line
  <2> QED
    BY <2>1, <2>2 DEF new
<1>3. CASE ~(line.promo /\ q # Nobody) /\ q \in Eligible /\ line.product \in Discountable
  <2>1. new = [line EXCEPT !.discount = q, !.global = yes, !.last = "rule"]
    <3>1. new = [line EXCEPT !.discount = q, !.global = TRUE, !.last = "rule"]
      BY <1>3 DEF GlobalOf
    <3> HIDE DEF new
    <3> QED
      BY <3>1, <1>1, Zenon
  <2>2. q \in Partners /\ q # Nobody /\ q # "promo"
    BY <1>3, DiscountAssumption
  <2> HIDE DEF new
  <2>3. new \in Line
    BY <2>1, <2>2 DEF Line
  <2>4. new.promo = line.promo /\ new.global = yes /\ new.discount = q /\ new.last = "rule"
    BY <2>1 DEF Line
  <2>5. LineIsSound(new, q)
    BY <2>2, <2>4, <1>1, <1>3 DEF LineIsSound
  <2> QED
    BY <2>3, <2>5 DEF new
<1>4. CASE /\ ~(line.promo /\ q # Nobody) /\ ~(q \in Eligible /\ line.product \in Discountable)
           /\ line.global
  <2>1. new = [line EXCEPT !.discount = "none", !.global = no, !.last = "rule"]
    <3>1. new = [line EXCEPT !.discount = "none", !.global = FALSE, !.last = "rule"]
      BY <1>4 DEF GlobalOf
    <3> HIDE DEF new
    <3> QED
      BY <3>1, <1>1, Zenon
  <2> HIDE DEF new
  <2>2. new \in Line
    BY <2>1 DEF Line
  <2>3. new.promo = line.promo /\ new.global = no /\ new.discount = "none" /\ new.last = "rule"
    BY <2>1 DEF Line
  <2>4. LineIsSound(new, q)
    BY <2>3, <1>1, <1>4 DEF LineIsSound, Unsettled
  <2> QED
    BY <2>2, <2>4 DEF new
<1>5. CASE /\ ~(line.promo /\ q # Nobody) /\ ~(q \in Eligible /\ line.product \in Discountable)
           /\ ~line.global
  <2>1. new = line
    BY <1>5 DEF GlobalOf
  <2> HIDE DEF new
  <2>2. LineIsSound(line, q)
    BY <1>5, DiscountAssumption DEF Unsettled, LineIsSound, Line
  <2> QED
    BY <2>1, <2>2 DEF new
<1> QED
  BY <1>2, <1>3, <1>4, <1>5

\* A promotion settles it too.
LEMMA PromotionSettles ==
    ASSUME NEW line \in Line, NEW q, q \notin Excluded
    PROVE  Promote(line) \in Line /\ LineIsSound(Promote(line), q)
<1>1. PICK yes \in BOOLEAN, no \in BOOLEAN : yes = TRUE /\ no = FALSE
  OBVIOUS
<1> DEFINE new == Promote(line)
<1>2. new = [line EXCEPT !.discount = "promo", !.promo = yes, !.global = no, !.last = "rule"]
  BY <1>1, Zenon DEF Promote
<1> HIDE DEF new
<1>3. new \in Line
  BY <1>2 DEF Line
<1>4. new.promo = yes /\ new.global = no /\ new.discount = "promo" /\ new.last = "rule"
  BY <1>2 DEF Line
<1>5. LineIsSound(new, q)
  BY <1>1, <1>4 DEF LineIsSound
<1> QED
  BY <1>3, <1>5 DEF new

\* A line that a product joins is ruled again.
LEMMA RuledIsSound ==
    ASSUME DiscountIInv, NEW line \in Line, LineIsSound(line, partner)
    PROVE  Ruled(line) \in Line /\ LineIsSound(Ruled(line), partner)
<1>1. Unsettled(line, partner)
  BY DEF LineIsSound, Unsettled
<1>2. PICK ofPartner \in Line :
         /\ ofPartner = IF partner = Nobody THEN line ELSE GlobalOf(line, partner)
         /\ LineIsSound(ofPartner, partner)
  BY <1>1, PartnerSettles DEF DiscountIInv, DiscountTypeOK
<1>3. CASE partner \notin Excluded /\ line.product \in promoted
  <2>1. Ruled(line) = Promote(ofPartner)
    BY <1>2, <1>3 DEF Ruled
  <2> QED
    BY <1>3, <2>1, PromotionSettles
<1>4. CASE ~(partner \notin Excluded /\ line.product \in promoted)
  <2>1. Ruled(line) = ofPartner
    BY <1>2, <1>4 DEF Ruled
  <2> QED
    BY <1>2, <2>1
<1> QED
  BY <1>3, <1>4

\* Lines of which each is sound are what the invariant says.
LEMMA LinesAreSound ==
    ASSUME NEW n \in Nat, n <= MaxLines, DOMAIN lines' = 1 .. n,
           lines' = [i \in 1 .. n |-> lines'[i]],
           \A i \in 1 .. n : lines'[i] \in Line /\ LineIsSound(lines'[i], partner'),
           partner' \in Partners \cup {Nobody}, promoted' \subseteq Products
    PROVE  DiscountIInv'
<1>1. lines' \in Seq(Line) /\ Len(lines') = n
  OBVIOUS
<1>2. Len(lines') <= MaxLines
  BY <1>1
<1> QED
  BY <1>1, <1>2 DEF DiscountIInv, DiscountTypeOK

\* The types, as the steps below use them.
LEMMA DiscountTypes ==
    ASSUME DiscountIInv
    PROVE  /\ lines \in Seq(Line) /\ Len(lines) \in Nat /\ Len(lines) <= MaxLines
           /\ DOMAIN lines = 1 .. Len(lines)
           /\ \A i \in 1 .. Len(lines) : lines[i] \in Line /\ LineIsSound(lines[i], partner)
           /\ partner \in Partners \cup {Nobody} /\ promoted \subseteq Products
<1>1. lines \in Seq(Line)
  BY DEF DiscountIInv, DiscountTypeOK
<1>2. Len(lines) \in Nat /\ DOMAIN lines = 1 .. Len(lines)
  BY <1>1
<1> QED
  BY <1>1, <1>2 DEF DiscountIInv, DiscountTypeOK

\* A sequence is the function of its places.
LEMMA SeqIsFunction ==
    ASSUME NEW S, NEW s \in Seq(S), NEW n \in Nat, Len(s) = n
    PROVE  DOMAIN s = 1 .. n /\ s = [j \in 1 .. n |-> s[j]]
OBVIOUS

\* A product joins a line, or gets one.
LEMMA AddKeeps ==
    ASSUME DiscountIInv, NEW p \in Products, AddProduct(p)
    PROVE  DiscountIInv'
<1>1. UNCHANGED <<partner, promoted>>
  BY DEF AddProduct
<1> DEFINE n == Len(lines)
<1>2. CASE \E i \in DOMAIN lines : lines' = [lines EXCEPT ![i] = Ruled(@)]
  <2>1. PICK i \in 1 .. n : lines' = [lines EXCEPT ![i] = Ruled(lines[i])]
    BY <1>2, DiscountTypes
  <2>2. lines[i] \in Line /\ LineIsSound(lines[i], partner)
    BY DiscountTypes
  <2>3. PICK new \in Line : new = Ruled(lines[i]) /\ LineIsSound(new, partner)
    BY <2>2, RuledIsSound
  <2>4. lines' = [lines EXCEPT ![i] = new]
    BY <2>1, <2>3
  <2>5. DOMAIN lines' = 1 .. n /\ lines' = [j \in 1 .. n |-> lines'[j]]
    BY <2>4, DiscountTypes
  <2>6. \A j \in 1 .. n : lines'[j] \in Line /\ LineIsSound(lines'[j], partner)
    BY <2>3, <2>4, DiscountTypes
  <2>7. n \in Nat /\ n <= MaxLines /\ partner \in Partners \cup {Nobody} /\ promoted \subseteq Products
    BY DiscountTypes
  <2> QED
    BY <1>1, <2>5, <2>6, <2>7, LinesAreSound
<1>3. CASE Len(lines) < MaxLines /\ lines' = Append(lines, Ruled(NewLine(p)))
  <2> DEFINE line == NewLine(p)
  <2>1. PICK no \in BOOLEAN : no = FALSE
    OBVIOUS
  <2>2. line = [product |-> p, discount |-> "none", promo |-> no, global |-> no, last |-> "rule"]
    BY <2>1, Zenon DEF NewLine
  <2> HIDE DEF line
  <2>3. line \in Line
    BY <2>2 DEF Line
  <2>4. LineIsSound(line, partner)
    BY <2>1, <2>2 DEF LineIsSound
  <2>5. PICK new \in Line : new = Ruled(line) /\ LineIsSound(new, partner)
    BY <2>3, <2>4, RuledIsSound
  <2>6. lines' = Append(lines, new)
    BY <1>3, <2>5 DEF line
  <2>7. PICK m \in Nat : m = n + 1 /\ m <= MaxLines
    BY <1>3, DiscountTypes, DiscountAssumption
  <2>8. DOMAIN lines' = 1 .. m /\ lines' = [j \in 1 .. m |-> lines'[j]]
    <3>1. lines' \in Seq(Line) /\ Len(lines') = m
      BY <2>5, <2>6, <2>7, DiscountTypes
    <3> QED
      BY <3>1, SeqIsFunction
  <2>9. \A j \in 1 .. m : lines'[j] \in Line /\ LineIsSound(lines'[j], partner)
    BY <2>5, <2>6, <2>7, DiscountTypes
  <2>10. partner \in Partners \cup {Nobody} /\ promoted \subseteq Products
    BY DiscountTypes
  <2> QED
    BY <1>1, <2>7, <2>8, <2>9, <2>10, LinesAreSound
<1> QED
  BY <1>2, <1>3 DEF AddProduct

\* The partner is named, or another one.
LEMMA SetPartnerKeeps ==
    ASSUME DiscountIInv, NEW q \in Partners \cup {Nobody}, SetPartner(q)
    PROVE  DiscountIInv'
<1> DEFINE kept(line) == IF q \in Excluded /\ line.promo THEN Unpromote(line) ELSE line
           n == Len(lines)
<1>1. /\ partner' = q /\ UNCHANGED promoted
      /\ lines' = [i \in 1 .. n |-> GlobalOf(kept(lines[i]), q)]
  BY DiscountTypes DEF SetPartner
<1>2. ASSUME NEW i \in 1 .. n
      PROVE  kept(lines[i]) \in Line /\ Unsettled(kept(lines[i]), q)
  <2>1. PICK line \in Line : line = lines[i] /\ LineIsSound(line, partner)
    BY DiscountTypes
  <2>2. CASE q \in Excluded /\ line.promo
    <3>1. PICK no \in BOOLEAN : no = FALSE
      OBVIOUS
    <3>2. PICK new : new = Unpromote(line)
      OBVIOUS
    <3>3. new = [line EXCEPT !.discount = "none", !.promo = no, !.last = "rule"]
      BY <3>1, <3>2, Zenon DEF Unpromote
    <3>4. new \in Line
      BY <3>3 DEF Line
    <3>5. new.promo = no /\ new.global = line.global /\ new.discount = "none" /\ new.last = "rule"
      BY <3>3 DEF Line
    <3>6. Unsettled(new, q)
      BY <2>1, <2>2, <3>1, <3>5 DEF Unsettled, LineIsSound
    <3>7. kept(lines[i]) = new
      BY <2>1, <2>2, <3>2
    <3> QED
      BY <3>4, <3>6, <3>7
  <2>3. CASE ~(q \in Excluded /\ line.promo)
    <3>1. Unsettled(line, q)
      BY <2>1, <2>3 DEF Unsettled, LineIsSound
    <3>2. kept(lines[i]) = line
      BY <2>1, <2>3
    <3> HIDE DEF kept
    <3> QED
      BY <3>1, <3>2
  <2> QED
    BY <2>2, <2>3
<1> HIDE DEF kept
<1>3. \A i \in 1 .. n : lines'[i] \in Line /\ LineIsSound(lines'[i], q)
  BY <1>1, <1>2, PartnerSettles
<1>4. DOMAIN lines' = 1 .. n /\ lines' = [j \in 1 .. n |-> lines'[j]]
  BY <1>1
<1>5. n \in Nat /\ n <= MaxLines /\ promoted \subseteq Products
  BY DiscountTypes
<1> QED
  BY <1>1, <1>3, <1>4, <1>5, LinesAreSound

\* The cashier types a discount.
LEMMA TypeKeeps ==
    ASSUME DiscountIInv, NEW i \in DOMAIN lines, TypeDiscount(i)
    PROVE  DiscountIInv'
<1> DEFINE n == Len(lines)
<1>1. UNCHANGED <<partner, promoted>> /\ i \in 1 .. n
  BY DiscountTypes DEF TypeDiscount
<1>2. PICK line \in Line : line = lines[i] /\ LineIsSound(line, partner)
  BY <1>1, DiscountTypes
<1>3. PICK new : new = [line EXCEPT !.discount = "typed", !.last = "typed"]
  OBVIOUS
<1>4. new \in Line
  BY <1>2, <1>3 DEF Line
<1>5. new.promo = line.promo /\ new.global = line.global /\ new.discount = "typed" /\ new.last = "typed"
  BY <1>2, <1>3 DEF Line
<1>6. LineIsSound(new, partner)
  BY <1>2, <1>5 DEF LineIsSound
<1>7. lines' = [lines EXCEPT ![i] = new]
  BY <1>1, <1>2, <1>3, DiscountTypes DEF TypeDiscount
<1>8. DOMAIN lines' = 1 .. n /\ lines' = [j \in 1 .. n |-> lines'[j]]
  BY <1>7, DiscountTypes
<1>9. \A j \in 1 .. n : lines'[j] \in Line /\ LineIsSound(lines'[j], partner)
  BY <1>1, <1>4, <1>6, <1>7, DiscountTypes
<1>10. n \in Nat /\ n <= MaxLines /\ partner \in Partners \cup {Nobody} /\ promoted \subseteq Products
  BY DiscountTypes
<1> QED
  BY <1>1, <1>8, <1>9, <1>10, LinesAreSound

\* A line is removed.
LEMMA RemoveKeeps ==
    ASSUME DiscountIInv, NEW i \in DOMAIN lines, RemoveLine(i)
    PROVE  DiscountIInv'
<1> DEFINE n == Len(lines)
<1>1. UNCHANGED <<partner, promoted>> /\ i \in 1 .. n
  BY DiscountTypes DEF RemoveLine
<1>2. n \in Nat /\ n <= MaxLines /\ partner \in Partners \cup {Nobody} /\ promoted \subseteq Products
  BY DiscountTypes
<1>3. lines' = SubSeq(lines, 1, i - 1) \o SubSeq(lines, i + 1, n)
  BY DEF RemoveLine, RemoveAt
<1>4. PICK m \in Nat : m = n - 1
  BY <1>1, <1>2
<1>5. /\ DOMAIN lines' = 1 .. m /\ lines' = [j \in 1 .. m |-> lines'[j]]
      /\ \A j \in 1 .. m : lines'[j] = IF j < i THEN lines[j] ELSE lines[j + 1]
  <2>1. PICK a, b : a = SubSeq(lines, 1, i - 1) /\ b = SubSeq(lines, i + 1, n)
    OBVIOUS
  <2>2. PICK k \in Nat : k = i - 1
    BY <1>1, <1>2
  <2>3. PICK l \in Nat : l = n - i
    BY <1>1, <1>2
  <2>4. lines \in Seq(Line) /\ i \in Int /\ 1 <= i /\ i <= n
    BY <1>1, <1>2, DiscountTypes
  <2>5. a \in Seq(Line) /\ Len(a) = k /\ \A j \in 1 .. k : a[j] = lines[j]
    BY <2>1, <2>2, <2>4
  <2>6. b \in Seq(Line) /\ Len(b) = l /\ \A j \in 1 .. l : b[j] = lines[i + j]
    BY <2>1, <2>3, <2>4
  <2>7. m = k + l
    BY <1>2, <1>4, <2>2, <2>3, <2>4
  <2>8. lines' = a \o b
    BY <1>3, <2>1
  <2>9. lines' \in Seq(Line) /\ Len(lines') = m
    BY <2>5, <2>6, <2>7, <2>8
  <2>10. DOMAIN lines' = 1 .. m /\ lines' = [j \in 1 .. m |-> lines'[j]]
    BY <2>9, SeqIsFunction
  <2>11. /\ \A j \in 1 .. k : lines'[j] = a[j]
         /\ \A j \in 1 .. l : lines'[k + j] = b[j]
    BY <2>5, <2>6, <2>8
  <2>12. ASSUME NEW j \in 1 .. m PROVE lines'[j] = IF j < i THEN lines[j] ELSE lines[j + 1]
    <3>0. j \in Int /\ 1 <= j /\ j <= k + l
      BY <2>7
    <3>1. CASE j <= k
      <4>1. j \in 1 .. k /\ j < i
        BY <3>0, <3>1, <2>2, <2>4
      <4> QED
        BY <4>1, <2>5, <2>11
    <3>2. CASE ~(j <= k)
      <4>1. PICK h \in 1 .. l : j = k + h
        <5>1. j - k \in 1 .. l /\ j = k + (j - k)
          BY <3>0, <3>2
        <5> QED
          BY <5>1
      <4>2. lines'[j] = lines[i + h]
        BY <4>1, <2>6, <2>11
      <4>3. i + h = j + 1 /\ ~(j < i)
        BY <4>1, <2>2, <2>4
      <4> QED
        BY <4>2, <4>3
    <3> QED
      BY <3>1, <3>2
  <2> QED
    BY <2>10, <2>12
<1>6. ASSUME NEW j \in 1 .. m
      PROVE  lines'[j] \in Line /\ LineIsSound(lines'[j], partner)
  <2>1. PICK k \in 1 .. n : lines'[j] = lines[k]
    <3>1. i \in Int /\ 1 <= i /\ i <= n /\ j \in 1 .. n /\ j + 1 \in 1 .. n
      BY <1>1, <1>2, <1>4
    <3> QED
      BY <3>1, <1>5
  <2> QED
    BY <2>1, DiscountTypes
<1>7. m <= MaxLines
  BY <1>2, <1>4, DiscountAssumption
<1> QED
  BY <1>1, <1>2, <1>5, <1>6, <1>7, LinesAreSound

\* The page is loaded again.
LEMMA ReloadLinesKeeps ==
    ASSUME DiscountIInv, ReloadLines
    PROVE  DiscountIInv'
<1> DEFINE n == Len(lines)
<1>1. UNCHANGED <<partner, promoted>>
  BY DEF ReloadLines
<1>2. PICK no \in BOOLEAN : no = FALSE
  OBVIOUS
<1>3. lines' = [i \in 1 .. n |-> [lines[i] EXCEPT !.promo = FALSE, !.global = FALSE, !.last = "reload"]]
  BY DiscountTypes DEF ReloadLines
<1>4. ASSUME NEW i \in 1 .. n
      PROVE  lines'[i] \in Line /\ LineIsSound(lines'[i], partner)
  <2>1. lines[i] \in Line
    BY DiscountTypes
  <2>2. lines'[i] = [lines[i] EXCEPT !.promo = FALSE, !.global = FALSE, !.last = "reload"]
    BY <1>3
  <2>3. lines'[i] = [lines[i] EXCEPT !.promo = no, !.global = no, !.last = "reload"]
    BY <1>2, <2>2, Zenon
  <2>4. lines'[i] \in Line
    BY <2>1, <2>3 DEF Line
  <2>5. lines'[i].promo = no /\ lines'[i].last = "reload"
    BY <2>1, <2>3 DEF Line
  <2> QED
    BY <1>2, <2>4, <2>5 DEF LineIsSound
<1>5. DOMAIN lines' = 1 .. n /\ lines' = [j \in 1 .. n |-> lines'[j]]
  BY <1>3
<1>6. n \in Nat /\ n <= MaxLines /\ partner \in Partners \cup {Nobody} /\ promoted \subseteq Products
  BY DiscountTypes
<1> QED
  BY <1>1, <1>4, <1>5, <1>6, LinesAreSound

\* Every step keeps the lines sound.
LEMMA DiscountStep == DiscountIInv /\ [DiscountNext]_discountVars => DiscountIInv'
<1> SUFFICES ASSUME DiscountIInv, [DiscountNext]_discountVars PROVE DiscountIInv'
  OBVIOUS
<1>1. CASE UNCHANGED discountVars
  BY <1>1 DEF DiscountIInv, DiscountTypeOK, LineIsSound, discountVars
<1>2. ASSUME NEW products \in SUBSET Products, NewDay(products) PROVE DiscountIInv'
  BY <1>2 DEF DiscountIInv, DiscountTypeOK, LineIsSound, NewDay
<1> QED
  BY <1>1, <1>2, AddKeeps, SetPartnerKeeps, TypeKeeps, RemoveKeeps, ReloadLinesKeeps DEF DiscountNext

\* A ticket without lines is sound.
LEMMA DiscountFirst == DiscountInit => DiscountIInv
BY DiscountAssumption DEF DiscountInit, DiscountIInv, DiscountTypeOK

\* The marks of the lines tell their discounts, and a partner without promotions gets none,
\* in whatever order partners, products and promotions change (promotion_pos_patch.js,
\* global_discount_patch.js).
THEOREM MarksTell == DiscountSpec => []DiscountInv
  BY DiscountFirst, DiscountStep, DiscountIsKept, PTL DEF DiscountSpec

-----------------------------------------------------------------------------
(* The closing of a session.                                               *)

\* The globals of the page are what the cashier did on it, and the popup shows the last
\* count that he confirmed.
CountIsOwn ==
    /\ page.accumulated = witness.typed
    /\ page.confirmed = witness.last
    /\ page.popup # NoPopup => page.counted = Shown(witness.last)
    /\ witness.shared => session.saved = witness.last

\* A closing posts, and has posted, the last count, but for what the witness tells.
PostIsLast ==
    \A c \in Popups :
       /\ closing[c].step = "post" /\ c \notin witness.older => closing[c].read = Shown(witness.last)
       /\ closing[c].step \in {"control", "close"} /\ ~witness.overtaken =>
             session.posted = Shown(witness.last)

\* No ticket waits on the page once a closing has pushed them, but those sold since.
TicketsArePushed ==
    /\ sales.page + sales.session + sales.rescue <= MaxSales
    /\ \A c \in Popups : closing[c].step # "idle" /\ ~witness.rung => sales.page = 0

\* The report is the last thing the page does.
ReportIsLast ==
    report.printed =>
        /\ page.left /\ page.popup = NoPopup /\ session.state = "closed"
        /\ \A c \in Popups : closing[c].step = "idle"
        /\ report.cash = sales.session
        /\ sales.page = 0 \/ witness.rung
        /\ witness.shared /\ ~witness.overtaken => Shown(report.counted) = session.posted

\* The inductive invariant of a closing.
ClosingIInv == ClosingTypeOK /\ CountIsOwn /\ PostIsLast /\ TicketsArePushed /\ ReportIsLast

\* The invariant of a closing is part of it.
LEMMA ClosingIsKept == ClosingIInv => ClosingInv
BY DEF ClosingIInv, ClosingInv, ReportTellsTheCount, AllTicketsAreReported, ReportIsLast

\* What the popup shows of an amount is an amount that it shows.
LEMMA ShownIsShown == \A amount \in Cash : Shown(amount) \in ShownCash
BY ClosingAssumption DEF Cash, Shown, ShownCash

\* An idle closing is a closing, of nothing.
LEMMA IdleIsClosing == Idle \in Closing /\ Idle.step = "idle"
<1>1. PICK zero \in ShownCash : zero = 0
  BY ClosingAssumption DEF ShownCash
<1>2. Idle = [step |-> "idle", read |-> zero]
  BY <1>1, Zenon DEF Idle
<1> QED
  BY <1>2 DEF Closing

\* A page as it is loaded.
LEMMA ClosingFirst == ClosingInit => ClosingIInv
<1> SUFFICES ASSUME ClosingInit PROVE ClosingIInv
  OBVIOUS
<1>1. 0 \in Cash /\ 0 \in ShownCash /\ 0 \in 0 .. MaxSales
  BY ClosingAssumption DEF Cash, ShownCash
<1>2. PICK zero : zero = 0
  OBVIOUS
<1>3. PICK no \in BOOLEAN, yes \in BOOLEAN : no = FALSE /\ yes = TRUE
  OBVIOUS
<1>4. /\ page = [accumulated |-> zero, confirmed |-> zero, counted |-> zero,
                 popup |-> NoPopup, left |-> no]
      /\ session = [state |-> "opened", posted |-> zero, saved |-> zero]
      /\ sales = [page |-> zero, session |-> zero, rescue |-> zero]
      /\ report = [printed |-> no, counted |-> zero, cash |-> zero]
      /\ witness = [typed |-> zero, last |-> zero, shared |-> yes,
                    older |-> {}, overtaken |-> no, rung |-> no]
  BY <1>2, <1>3, Zenon DEF ClosingInit
<1>5. page \in Page /\ session \in Session /\ sales \in Sales
  BY <1>1, <1>2, <1>4 DEF Page, Session, Sales
<1>6. report \in Report /\ witness \in Witness
  BY <1>1, <1>2, <1>4 DEF Report, Witness
<1>7. closing \in [Popups -> Closing] /\ \A c \in Popups : closing[c].step = "idle"
  BY IdleIsClosing DEF ClosingInit
<1>8. CountIsOwn /\ PostIsLast /\ TicketsArePushed /\ ReportIsLast
  BY <1>2, <1>3, <1>4, <1>7, ClosingAssumption
     DEF CountIsOwn, PostIsLast, TicketsArePushed, ReportIsLast
<1> QED
  BY <1>5, <1>6, <1>7, <1>8 DEF ClosingIInv, ClosingTypeOK

\* The types, as the steps below use them.
LEMMA ClosingTypes ==
    ASSUME ClosingIInv
    PROVE  /\ page \in Page /\ session \in Session /\ sales \in Sales /\ report \in Report
           /\ witness \in Witness /\ closing \in [Popups -> Closing]
           /\ CountIsOwn /\ PostIsLast /\ TicketsArePushed /\ ReportIsLast
BY DEF ClosingIInv, ClosingTypeOK

\* A count at the opening.
LEMMA CountOpeningKeeps ==
    ASSUME ClosingIInv, NEW coins \in Coins, NEW direct \in Cash, CountOpening(coins, direct)
    PROVE  ClosingIInv'
<1>1. PICK typed \in Cash : typed = page.accumulated + direct
  <2>1. page.accumulated \in Nat /\ coins \in Nat /\ direct \in Nat
    BY ClosingTypes DEF Page, Cash, Coins
  <2>2. coins + page.accumulated + direct <= MaxCash
    BY DEF CountOpening, Total, Cash
  <2>3. page.accumulated + direct \in Cash
    BY <2>1, <2>2, ClosingAssumption DEF Cash
  <2> QED
    BY <2>3
<1>2. /\ page' = [page EXCEPT !.accumulated = typed]
      /\ witness' = [witness EXCEPT !.typed = typed]
      /\ UNCHANGED <<closing, session, sales, report>>
  BY <1>1, ClosingTypes DEF CountOpening, CountIsOwn
<1>3. page' \in Page /\ witness' \in Witness
  BY <1>1, <1>2, ClosingTypes DEF Page, Witness
<1>4. /\ page'.accumulated = typed /\ page'.confirmed = page.confirmed
      /\ page'.popup = page.popup /\ page'.counted = page.counted /\ page'.left = page.left
  BY <1>2, ClosingTypes DEF Page
<1>5. /\ witness'.typed = typed /\ witness'.last = witness.last /\ witness'.shared = witness.shared
      /\ witness'.older = witness.older /\ witness'.overtaken = witness.overtaken
      /\ witness'.rung = witness.rung
  BY <1>2, ClosingTypes DEF Witness
<1>6. CountIsOwn' /\ PostIsLast' /\ TicketsArePushed' /\ ReportIsLast'
  BY <1>2, <1>4, <1>5, ClosingTypes DEF CountIsOwn, PostIsLast, TicketsArePushed, ReportIsLast
<1> QED
  BY <1>2, <1>3, <1>6, ClosingTypes DEF ClosingIInv, ClosingTypeOK

\* A count at the closing: the coins, what was added on this page and the amount.
LEMMA CountClosingKeeps ==
    ASSUME ClosingIInv, NEW coins \in Coins, NEW direct \in Cash, NEW answered \in BOOLEAN,
           CountClosing(coins, direct, answered)
    PROVE  ClosingIInv'
<1>1. PICK total \in Cash : total = coins + page.accumulated + direct
  BY DEF CountClosing, Total
<1>2. PICK typed \in Cash : typed = page.accumulated + direct
  <2>1. page.accumulated \in Nat /\ coins \in Nat /\ direct \in Nat
    BY ClosingTypes DEF Page, Cash, Coins
  <2>2. coins + page.accumulated + direct <= MaxCash
    BY <1>1 DEF Cash
  <2>3. page.accumulated + direct \in Cash
    BY <2>1, <2>2, ClosingAssumption DEF Cash
  <2> QED
    BY <2>3
<1>3. PICK saved \in Cash : saved = IF answered THEN total ELSE session.saved
  BY ClosingTypes DEF Session
<1>4. PICK shown \in ShownCash : shown = Shown(total)
  BY ShownIsShown
<1>5. PICK busy \in BOOLEAN : busy = Busy
  BY DEF Busy
<1>6. PICK older \in SUBSET Popups : older = {c \in Popups : closing[c].step = "post"}
  OBVIOUS
<1>7. /\ page' = [page EXCEPT !.accumulated = typed, !.counted = shown, !.confirmed = total]
      /\ session' = [session EXCEPT !.saved = saved]
      /\ UNCHANGED <<closing, sales, report>> /\ page.popup # NoPopup
  BY <1>1, <1>2, <1>3, <1>4 DEF CountClosing, Total
<1>8. witness.typed + direct = typed /\ coins + witness.typed + direct = total
  BY <1>1, <1>2, ClosingTypes DEF CountIsOwn
<1>9. witness' = [witness EXCEPT !.typed = typed, !.last = total, !.shared = answered,
                                 !.overtaken = busy, !.older = older]
  BY <1>5, <1>6, <1>8, Zenon DEF CountClosing
<1>10. page' \in Page /\ session' \in Session /\ witness' \in Witness
  BY <1>7, <1>9, ClosingTypes DEF Page, Session, Witness
<1>11. /\ page'.accumulated = typed /\ page'.confirmed = total
       /\ page'.counted = shown /\ page'.popup = page.popup
  BY <1>7, ClosingTypes DEF Page
<1>12. session'.saved = saved /\ session'.posted = session.posted /\ session'.state = session.state
  BY <1>7, ClosingTypes DEF Session
<1>13. /\ witness'.typed = typed /\ witness'.last = total /\ witness'.shared = answered
       /\ witness'.older = older /\ witness'.overtaken = busy /\ witness'.rung = witness.rung
  BY <1>9, ClosingTypes DEF Witness
<1>14. CountIsOwn'
  BY <1>3, <1>4, <1>11, <1>12, <1>13 DEF CountIsOwn, Shown
<1>15. PostIsLast'
  BY <1>5, <1>6, <1>7, <1>13 DEF PostIsLast, Busy
<1>16. TicketsArePushed' /\ ReportIsLast'
  BY <1>7, <1>13, ClosingTypes DEF TicketsArePushed, ReportIsLast
<1> QED
  BY <1>7, <1>10, <1>14, <1>15, <1>16, ClosingTypes DEF ClosingIInv, ClosingTypeOK

\* A popup shows the last count again.
LEMMA OpenPopupKeeps ==
    ASSUME ClosingIInv, NEW c \in Popups, OpenPopup(c)
    PROVE  ClosingIInv'
<1>1. PICK shown \in ShownCash : shown = Shown(page.confirmed)
  BY ClosingTypes, ShownIsShown DEF Page
<1>2. /\ page' = [page EXCEPT !.popup = c, !.counted = shown]
      /\ UNCHANGED <<closing, session, sales, report, witness>> /\ ~page.left
  BY <1>1 DEF OpenPopup, Restored, Selling
<1>3. page' \in Page
  BY <1>2, ClosingTypes DEF Page
<1>4. /\ page'.accumulated = page.accumulated /\ page'.confirmed = page.confirmed
      /\ page'.popup = c /\ page'.counted = shown /\ page'.left = page.left
  BY <1>2, ClosingTypes DEF Page
<1>5. CountIsOwn' /\ PostIsLast' /\ TicketsArePushed' /\ ReportIsLast'
  BY <1>1, <1>2, <1>4, ClosingTypes
     DEF CountIsOwn, PostIsLast, TicketsArePushed, ReportIsLast, Shown
<1> QED
  BY <1>2, <1>3, <1>5, ClosingTypes DEF ClosingIInv, ClosingTypeOK

\* The popup is left.
LEMMA LeavePopupKeeps ==
    ASSUME ClosingIInv, LeavePopup
    PROVE  ClosingIInv'
<1>1. PICK zero \in ShownCash : zero = 0
  BY ClosingAssumption DEF ShownCash
<1>2. /\ page' = [page EXCEPT !.popup = NoPopup, !.counted = zero]
      /\ UNCHANGED <<closing, session, sales, report, witness>>
  BY <1>1 DEF LeavePopup
<1>3. page' \in Page
  BY <1>2, ClosingTypes DEF Page
<1>4. /\ page'.accumulated = page.accumulated /\ page'.confirmed = page.confirmed
      /\ page'.popup = NoPopup /\ page'.left = page.left
  BY <1>2, ClosingTypes DEF Page
<1>5. CountIsOwn' /\ PostIsLast' /\ TicketsArePushed' /\ ReportIsLast'
  BY <1>2, <1>4, ClosingTypes DEF CountIsOwn, PostIsLast, TicketsArePushed, ReportIsLast
<1> QED
  BY <1>2, <1>3, <1>5, ClosingTypes DEF ClosingIInv, ClosingTypeOK

\* Tickets sent have left the page, and none goes to a session that is closed.
LEMMA SentIsSales ==
    ASSUME ClosingIInv
    PROVE  /\ Sent \in Sales /\ Sent.page = 0
           /\ Sent.page + Sent.session + Sent.rescue <= MaxSales
<1>1. PICK p, s, r : /\ p = sales.page /\ s = sales.session /\ r = sales.rescue
                     /\ p \in Nat /\ s \in Nat /\ r \in Nat
                     /\ p + s + r <= MaxSales
  BY ClosingTypes DEF Sales, TicketsArePushed
<1>2. PICK zero \in 0 .. MaxSales : zero = 0
  BY ClosingAssumption
<1>3. PICK new \in 0 .. MaxSales :
         \/ new = s + p /\ Sent = [sales EXCEPT !.page = zero, !.session = new]
         \/ new = r + p /\ Sent = [sales EXCEPT !.page = zero, !.rescue = new]
  <2>1. s + p \in 0 .. MaxSales /\ r + p \in 0 .. MaxSales
    BY <1>1, ClosingAssumption
  <2>2. \/ Sent = [sales EXCEPT !.page = zero, !.session = s + p]
        \/ Sent = [sales EXCEPT !.page = zero, !.rescue = r + p]
    BY <1>1, <1>2, ClosingTypes DEF Sent, Sales
  <2> QED
    BY <2>1, <2>2
<1>4. Sent \in Sales
  BY <1>2, <1>3, ClosingTypes DEF Sales
<1>5. \/ Sent.page = zero /\ Sent.session = new /\ Sent.rescue = r /\ new = s + p
      \/ Sent.page = zero /\ Sent.rescue = new /\ Sent.session = s /\ new = r + p
  BY <1>1, <1>3, ClosingTypes DEF Sales
<1> QED
  BY <1>1, <1>2, <1>4, <1>5

\* The tickets are pushed and the count is read before the calls.
LEMMA CloseSessionKeeps ==
    ASSUME ClosingIInv, NEW c \in Popups, NEW answered \in BOOLEAN, CloseSession(c, answered)
    PROVE  ClosingIInv'
<1>1. PICK read \in ShownCash, no \in BOOLEAN : read = page.counted /\ no = FALSE
  BY ClosingTypes DEF Page
<1>2. /\ closing' = [closing EXCEPT ![c] = [step |-> "post", read |-> read]] /\ sales' = Sent
      /\ UNCHANGED <<page, session, report>> /\ page.popup = c
  BY <1>1 DEF CloseSession, Pushed
<1>3. PICK older \in SUBSET Popups : older = witness.older \ {c}
  BY ClosingTypes DEF Witness
<1>4. witness' = [witness EXCEPT !.older = older, !.rung = no]
  BY <1>1, <1>3, Zenon DEF CloseSession
<1>5. [step |-> "post", read |-> read] \in Closing
  BY DEF Closing
<1>6. closing' \in [Popups -> Closing] /\ witness' \in Witness /\ sales' \in Sales
  BY <1>2, <1>4, <1>5, ClosingTypes, SentIsSales DEF Witness
<1>7. /\ closing'[c].step = "post" /\ closing'[c].read = read
      /\ \A w \in Popups \ {c} : closing'[w] = closing[w]
  BY <1>2, ClosingTypes
<1>8. /\ witness'.typed = witness.typed /\ witness'.last = witness.last
      /\ witness'.shared = witness.shared /\ witness'.older = older
      /\ witness'.overtaken = witness.overtaken /\ witness'.rung = no
  BY <1>4, ClosingTypes DEF Witness
<1>9. page.popup # NoPopup
  BY <1>2, ClosingAssumption
<1>10. CountIsOwn' /\ read = Shown(witness.last)
  BY <1>1, <1>2, <1>8, <1>9, ClosingTypes DEF CountIsOwn, Shown
<1>11. PostIsLast'
  BY <1>2, <1>3, <1>7, <1>8, <1>10, ClosingTypes DEF PostIsLast, Shown
<1>12. TicketsArePushed'
  BY <1>2, SentIsSales DEF TicketsArePushed
<1>13. ~report.printed
  BY <1>2, <1>9, ClosingTypes DEF ReportIsLast
<1>14. ReportIsLast'
  BY <1>2, <1>13 DEF ReportIsLast
<1> QED
  BY <1>2, <1>6, <1>10, <1>11, <1>12, <1>14, ClosingTypes DEF ClosingIInv, ClosingTypeOK

\* The server takes the count that a closing has read, which goes to another step.
LEMMA PostedKeeps ==
    ASSUME ClosingIInv, NEW c \in Popups, NEW after \in Closing,
           after.step \in {"control", "idle"},
           closing[c].step = "post", session.state # "closed",
           session' = Posted(c), witness' = PostedBy(c),
           closing' = [closing EXCEPT ![c] = after], UNCHANGED <<page, sales, report>>
    PROVE  ClosingIInv' /\ session'.state = session.state
<1>0. PICK overtaken \in BOOLEAN : overtaken = (c \in witness.older)
  <2>1. PICK o \in BOOLEAN : o <=> c \in witness.older
    OBVIOUS
  <2>2. o = (c \in witness.older)
    BY <2>1, Zenon
  <2> QED
    BY <2>2, Zenon
<1>1. PICK read \in ShownCash, older \in SUBSET Popups :
         read = closing[c].read /\ older = witness.older \ {c}
  BY ClosingTypes DEF Closing, Witness
<1>2. session' = [session EXCEPT !.posted = read]
  BY <1>1 DEF Posted
<1>3. witness' = [witness EXCEPT !.overtaken = overtaken, !.older = older]
  BY <1>0, <1>1, Zenon DEF PostedBy
<1>4. /\ session' \in Session /\ session'.posted = read /\ session'.saved = session.saved
      /\ session'.state = session.state
  BY <1>2, ClosingTypes DEF Session
<1>5. /\ witness' \in Witness /\ witness'.typed = witness.typed /\ witness'.last = witness.last
      /\ witness'.shared = witness.shared /\ witness'.older = older
      /\ witness'.overtaken = overtaken /\ witness'.rung = witness.rung
  BY <1>3, ClosingTypes DEF Witness
<1>6. /\ closing' \in [Popups -> Closing] /\ closing'[c] = after
      /\ \A w \in Popups \ {c} : closing'[w] = closing[w]
  BY ClosingTypes
<1>7. CountIsOwn' /\ TicketsArePushed'
  BY <1>4, <1>5, <1>6, ClosingTypes DEF CountIsOwn, TicketsArePushed, Shown
<1>8. ~overtaken => read = Shown(witness.last)
  <2>1. c \notin witness.older => read = Shown(witness.last)
    BY <1>1, ClosingTypes DEF PostIsLast
  <2>2. ~overtaken => c \notin witness.older
    BY <1>0
  <2> QED
    BY <2>1, <2>2
<1>9. PostIsLast'
  BY <1>1, <1>4, <1>5, <1>6, <1>8, ClosingTypes DEF PostIsLast, Shown
<1>10. ~report.printed
  BY ClosingTypes DEF ReportIsLast
<1>11. ReportIsLast'
  BY <1>10 DEF ReportIsLast
<1> QED
  BY <1>4, <1>5, <1>6, <1>7, <1>9, <1>11, ClosingTypes DEF ClosingIInv, ClosingTypeOK

\* The count is posted.
LEMMA PostKeeps ==
    ASSUME ClosingIInv, NEW c \in Popups, PostCount(c)
    PROVE  ClosingIInv' /\ session'.state = session.state
<1>1. PICK zero \in ShownCash : zero = 0
  BY ClosingAssumption DEF ShownCash
<1>2. PICK after \in Closing : after = [step |-> "control", read |-> zero]
  BY DEF Closing
<1>3. closing' = [closing EXCEPT ![c] = after]
  BY <1>1, <1>2, Zenon DEF PostCount
<1> QED
  BY <1>2, <1>3, PostedKeeps DEF PostCount

\* A closing goes on from its second call, or ends, and what was posted stays.
LEMMA StepKeeps ==
    ASSUME ClosingIInv, NEW c \in Popups, NEW after \in Closing, ~report.printed,
           closing[c].step # "idle",
           after.step = "idle" \/ (after.step = "close" /\ closing[c].step = "control"),
           session' \in Session, session'.posted = session.posted, session'.saved = session.saved,
           witness' \in Witness, witness'.typed = witness.typed, witness'.last = witness.last,
           witness'.shared = witness.shared, witness'.overtaken = witness.overtaken,
           witness'.rung = witness.rung,
           witness'.older = witness.older \/ witness'.older = witness.older \ {c},
           closing' = [closing EXCEPT ![c] = after], UNCHANGED <<page, sales, report>>
    PROVE  ClosingIInv'
<1>1. /\ closing' \in [Popups -> Closing] /\ closing'[c] = after
      /\ \A w \in Popups \ {c} : closing'[w] = closing[w]
  BY ClosingTypes
<1>2. CountIsOwn' /\ TicketsArePushed'
  BY <1>1, ClosingTypes DEF CountIsOwn, TicketsArePushed, Shown
<1>3. PostIsLast'
  BY <1>1, ClosingTypes DEF PostIsLast, Shown
<1>4. ReportIsLast'
  BY DEF ReportIsLast
<1> QED
  BY <1>1, <1>2, <1>3, <1>4, ClosingTypes DEF ClosingIInv, ClosingTypeOK

\* What the second call writes.
LEMMA ControlledIsSession ==
    ASSUME ClosingIInv
    PROVE  /\ Controlled \in Session /\ Controlled.posted = session.posted
           /\ Controlled.saved = session.saved
           /\ Controlled.state = "closed" => session.state = "closed"
<1>1. PICK state \in {"opened", "closing_control", "closed"} :
         /\ state = IF session.state = "closed" THEN session.state ELSE "closing_control"
  BY ClosingTypes DEF Session
<1>2. Controlled = [session EXCEPT !.state = state]
  BY <1>1 DEF Controlled
<1> QED
  BY <1>1, <1>2, ClosingTypes DEF Session

\* The session is under control, or not: the closing goes on.
LEMMA ControlKeeps ==
    ASSUME ClosingIInv, NEW c \in Popups, ControlSession(c)
    PROVE  ClosingIInv' /\ (session'.state = "closed" => session.state = "closed")
<1>1. PICK after \in Closing : after = [closing[c] EXCEPT !.step = "close"]
  BY ClosingTypes DEF Closing
<1>2. after.step = "close" /\ closing' = [closing EXCEPT ![c] = after]
  BY <1>1, ClosingTypes DEF ControlSession, Closing
<1>3. /\ session' \in Session /\ session'.posted = session.posted /\ session'.saved = session.saved
      /\ session'.state = "closed" => session.state = "closed"
  BY ControlledIsSession, ClosingTypes DEF ControlSession
<1>4. ~report.printed
  BY ClosingTypes DEF ReportIsLast, ControlSession
<1>5. UNCHANGED <<page, sales, report, witness>> /\ closing[c].step = "control"
  BY DEF ControlSession
<1> QED
  BY <1>2, <1>3, <1>4, <1>5, StepKeeps, ClosingTypes

\* The session is closed and the report printed.
LEMMA EndSessionKeeps ==
    ASSUME ClosingIInv, NEW c \in Popups, EndSession(c)
    PROVE  ClosingIInv' /\ (session'.posted = Shown(witness.last) \/ witness.overtaken)
<1>1. PICK yes \in BOOLEAN : yes = TRUE
  OBVIOUS
<1>2. PICK zero \in ShownCash : zero = 0
  BY ClosingAssumption DEF ShownCash
<1>3. page' = [page EXCEPT !.popup = NoPopup, !.counted = zero, !.left = yes]
  BY <1>1, <1>2, Zenon DEF EndSession
<1>4. /\ session' = [session EXCEPT !.state = "closed"]
      /\ closing' = [w \in Popups |-> Idle]
      /\ UNCHANGED <<sales, witness>> /\ closing[c].step = "close"
  BY DEF EndSession
<1>5. report' = [printed |-> yes, counted |-> session.saved, cash |-> sales.session]
  BY <1>1, Zenon DEF EndSession
<1>6. page' \in Page /\ session' \in Session
  BY <1>3, <1>4, ClosingTypes DEF Page, Session
<1>7. report' \in Report
  <2>1. session.saved \in Cash /\ sales.session \in 0 .. MaxSales
    BY ClosingTypes DEF Session, Sales
  <2> QED
    BY <1>5, <2>1 DEF Report
<1>8. closing' \in [Popups -> Closing] /\ \A w \in Popups : closing'[w].step = "idle"
  BY <1>4, IdleIsClosing
<1>9. /\ page'.accumulated = page.accumulated /\ page'.confirmed = page.confirmed
      /\ page'.popup = NoPopup /\ page'.left = yes
  BY <1>3, ClosingTypes DEF Page
<1>10. session'.saved = session.saved /\ session'.posted = session.posted /\ session'.state = "closed"
  BY <1>4, ClosingTypes DEF Session
<1>11. report'.counted = session.saved /\ report'.cash = sales.session
  BY <1>5
<1>12. session.posted = Shown(witness.last) \/ witness.overtaken
  BY <1>4, ClosingTypes DEF PostIsLast
<1>13. CountIsOwn' /\ PostIsLast' /\ TicketsArePushed'
  BY <1>4, <1>8, <1>9, <1>10, ClosingTypes DEF CountIsOwn, PostIsLast, TicketsArePushed, Shown
<1>14. sales.page = 0 \/ witness.rung
  BY <1>4, ClosingTypes DEF TicketsArePushed
<1>15. ReportIsLast'
  BY <1>1, <1>4, <1>8, <1>9, <1>10, <1>11, <1>12, <1>14, ClosingTypes
     DEF ReportIsLast, CountIsOwn, Shown
<1> QED
  BY <1>4, <1>6, <1>7, <1>8, <1>10, <1>12, <1>13, <1>15, ClosingTypes DEF ClosingIInv, ClosingTypeOK

\* A call fails before the server did it.
LEMMA CloseFailsKeeps ==
    ASSUME ClosingIInv, NEW c \in Popups, CloseFails(c)
    PROVE  ClosingIInv'
<1>1. PICK older \in SUBSET Popups : older = witness.older \ {c}
  BY ClosingTypes DEF Witness
<1>2. /\ witness' = [witness EXCEPT !.older = older]
      /\ closing' = [closing EXCEPT ![c] = Idle]
      /\ UNCHANGED <<page, session, sales, report>> /\ closing[c].step # "idle"
  BY <1>1 DEF CloseFails
<1>3. /\ witness' \in Witness /\ witness'.typed = witness.typed /\ witness'.last = witness.last
      /\ witness'.shared = witness.shared /\ witness'.older = older
      /\ witness'.overtaken = witness.overtaken /\ witness'.rung = witness.rung
  BY <1>2, ClosingTypes DEF Witness
<1>4. ~report.printed
  BY <1>2, ClosingTypes DEF ReportIsLast
<1>5. PICK after \in Closing : after = Idle /\ after.step = "idle"
  BY IdleIsClosing
<1>6. closing' = [closing EXCEPT ![c] = after]
  BY <1>2, <1>5
<1>7. session' \in Session /\ session'.posted = session.posted /\ session'.saved = session.saved
  BY <1>2, ClosingTypes
<1> QED
  BY <1>1, <1>2, <1>3, <1>4, <1>5, <1>6, <1>7, StepKeeps

\* An answer is lost: what the server did is what it would have done.
LEMMA AnswerIsLostKeeps ==
    ASSUME ClosingIInv, NEW c \in Popups, AnswerIsLost(c)
    PROVE  /\ ClosingIInv'
           /\ session'.state = "closed" => session'.posted = Shown(witness.last) \/ witness.overtaken
<1>1. /\ closing' = [closing EXCEPT ![c] = Idle] /\ session.state # "closed"
      /\ UNCHANGED <<page, sales, report>>
  BY DEF AnswerIsLost
<1>2. ~report.printed
  BY <1>1, ClosingTypes DEF ReportIsLast
<1>0. PICK after \in Closing : after = Idle /\ after.step = "idle"
  BY IdleIsClosing
<1>6. closing' = [closing EXCEPT ![c] = after]
  BY <1>0, <1>1
<1>3. CASE closing[c].step = "post" /\ session' = Posted(c) /\ witness' = PostedBy(c)
  BY <1>0, <1>1, <1>3, <1>6, PostedKeeps
<1>4. CASE closing[c].step = "control" /\ session' = Controlled /\ UNCHANGED witness
  <2>1. /\ session' \in Session /\ session'.posted = session.posted /\ session'.saved = session.saved
        /\ session'.state # "closed"
    BY <1>1, <1>4, ControlledIsSession
  <2>2. /\ witness' \in Witness /\ witness'.typed = witness.typed /\ witness'.last = witness.last
        /\ witness'.shared = witness.shared /\ witness'.overtaken = witness.overtaken
        /\ witness'.rung = witness.rung /\ witness'.older = witness.older
    BY <1>4, ClosingTypes
  <2> QED
    BY <1>0, <1>1, <1>2, <1>4, <1>6, <2>1, <2>2, StepKeeps
<1>5. CASE /\ closing[c].step = "close" /\ session' = [session EXCEPT !.state = "closed"]
           /\ UNCHANGED witness
  <2>1. session' \in Session /\ session'.posted = session.posted /\ session'.saved = session.saved
    BY <1>5, ClosingTypes DEF Session
  <2>2. session.posted = Shown(witness.last) \/ witness.overtaken
    BY <1>5, ClosingTypes DEF PostIsLast
  <2>3. /\ witness' \in Witness /\ witness'.typed = witness.typed /\ witness'.last = witness.last
        /\ witness'.shared = witness.shared /\ witness'.overtaken = witness.overtaken
        /\ witness'.rung = witness.rung /\ witness'.older = witness.older
    BY <1>5, ClosingTypes
  <2>4. ClosingIInv'
    BY <1>0, <1>1, <1>2, <1>5, <1>6, <2>1, <2>3, StepKeeps
  <2> QED
    BY <2>1, <2>2, <2>4
<1> QED
  BY <1>3, <1>4, <1>5 DEF AnswerIsLost

\* A ticket is paid in cash.
LEMMA SellKeeps ==
    ASSUME ClosingIInv, SellForCash
    PROVE  ClosingIInv'
<1>1. PICK p, s, r : /\ p = sales.page /\ s = sales.session /\ r = sales.rescue
                     /\ p \in Nat /\ s \in Nat /\ r \in Nat
                     /\ p + s + r < MaxSales
  BY ClosingTypes DEF Sales, SellForCash
<1>2. PICK n \in 0 .. MaxSales : n = p + 1
  BY <1>1, ClosingAssumption
<1>3. PICK rung \in BOOLEAN : rung = (witness.rung \/ Busy)
  BY DEF Busy
<1>4. sales' = [sales EXCEPT !.page = n] /\ UNCHANGED <<page, closing, session, report>>
      /\ ~page.left
  BY <1>1, <1>2 DEF SellForCash, Selling
<1>5. witness' = [witness EXCEPT !.rung = rung]
  BY <1>3, Zenon DEF SellForCash
<1>6. sales' \in Sales /\ sales'.page = n /\ sales'.session = s /\ sales'.rescue = r
  BY <1>1, <1>4, ClosingTypes DEF Sales
<1>7. /\ witness' \in Witness /\ witness'.typed = witness.typed /\ witness'.last = witness.last
      /\ witness'.shared = witness.shared /\ witness'.older = witness.older
      /\ witness'.overtaken = witness.overtaken /\ witness'.rung = rung
  BY <1>5, ClosingTypes DEF Witness
<1>8. TicketsArePushed'
  <2>1. sales'.page + sales'.session + sales'.rescue <= MaxSales
    BY <1>1, <1>2, <1>6, ClosingAssumption
  <2>2. ASSUME NEW c \in Popups, closing[c].step # "idle" PROVE rung
    BY <1>3, <2>2 DEF Busy
  <2> QED
    BY <1>4, <1>7, <2>1, <2>2 DEF TicketsArePushed
<1>9. CountIsOwn' /\ PostIsLast' /\ ReportIsLast'
  BY <1>4, <1>7, ClosingTypes DEF CountIsOwn, PostIsLast, ReportIsLast, Shown
<1> QED
  BY <1>4, <1>6, <1>7, <1>8, <1>9, ClosingTypes DEF ClosingIInv, ClosingTypeOK

\* Tickets are sent while selling.
LEMMA SendKeeps ==
    ASSUME ClosingIInv, SendTickets
    PROVE  ClosingIInv'
<1>1. PICK no \in BOOLEAN : no = FALSE
  OBVIOUS
<1>2. witness' = [witness EXCEPT !.rung = no]
  BY <1>1, Zenon DEF SendTickets
<1>3. sales' = Sent /\ UNCHANGED <<page, closing, session, report>> /\ ~page.left
  BY DEF SendTickets, Selling
<1>4. /\ witness' \in Witness /\ witness'.typed = witness.typed /\ witness'.last = witness.last
      /\ witness'.shared = witness.shared /\ witness'.older = witness.older
      /\ witness'.overtaken = witness.overtaken
  BY <1>2, ClosingTypes DEF Witness
<1>5. TicketsArePushed' /\ sales' \in Sales
  BY <1>3, SentIsSales DEF TicketsArePushed
<1>6. CountIsOwn' /\ PostIsLast' /\ ReportIsLast'
  BY <1>3, <1>4, ClosingTypes DEF CountIsOwn, PostIsLast, ReportIsLast, Shown
<1> QED
  BY <1>3, <1>4, <1>5, <1>6, ClosingTypes DEF ClosingIInv, ClosingTypeOK

\* The page is loaded again.
LEMMA ReloadPageKeeps ==
    ASSUME ClosingIInv, ReloadPage
    PROVE  ClosingIInv'
<1>1. PICK zero \in Cash : zero = 0
  BY ClosingAssumption DEF Cash
<1>2. PICK shared \in BOOLEAN : shared = (session.saved = 0)
  OBVIOUS
<1>3. PICK no \in BOOLEAN : no = FALSE
  OBVIOUS
<1>4. /\ page' = [accumulated |-> zero, confirmed |-> zero, counted |-> zero,
                  popup |-> NoPopup, left |-> no]
      /\ witness' = [typed |-> zero, last |-> zero, shared |-> shared,
                     older |-> {}, overtaken |-> no, rung |-> no]
  BY <1>1, <1>2, <1>3, Zenon DEF ReloadPage
<1>5. /\ UNCHANGED <<session, sales, report>> /\ session.state # "closed"
      /\ closing' = [c \in Popups |-> Idle]
  BY DEF ReloadPage
<1>6. closing' \in [Popups -> Closing] /\ \A c \in Popups : closing'[c].step = "idle"
  BY <1>5, IdleIsClosing
<1>7. page' \in Page /\ witness' \in Witness
  <2>1. zero \in ShownCash
    BY <1>1, ClosingAssumption DEF ShownCash
  <2> QED
    BY <1>4, <2>1 DEF Page, Witness
<1>8. ~report.printed
  BY <1>5, ClosingTypes DEF ReportIsLast
<1>9. CountIsOwn'
  BY <1>1, <1>2, <1>4, <1>5 DEF CountIsOwn
<1>10. PostIsLast' /\ TicketsArePushed' /\ ReportIsLast'
  BY <1>5, <1>6, <1>8, ClosingTypes DEF PostIsLast, TicketsArePushed, ReportIsLast
<1> QED
  BY <1>5, <1>6, <1>7, <1>9, <1>10, ClosingTypes DEF ClosingIInv, ClosingTypeOK

\* A step closes the session with the last count confirmed, or one that was overtaken.
ClosesAsCounted ==
    session'.state = "closed" /\ session.state # "closed" =>
        session'.posted = Shown(witness.last) \/ witness.overtaken

\* A step of a closing keeps the invariant, and closes as counted.
LEMMA PopupStep ==
    ASSUME ClosingIInv, NEW c \in Popups,
           \/ \E answered \in BOOLEAN : CloseSession(c, answered)
           \/ OpenPopup(c) \/ PostCount(c) \/ ControlSession(c) \/ EndSession(c)
           \/ CloseFails(c) \/ AnswerIsLost(c)
    PROVE  ClosingIInv' /\ ClosesAsCounted
<1>1. CASE \E answered \in BOOLEAN : CloseSession(c, answered)
  <2>1. UNCHANGED session
    BY <1>1 DEF CloseSession
  <2> QED
    BY <1>1, <2>1, CloseSessionKeeps DEF ClosesAsCounted
<1>2. CASE OpenPopup(c) \/ CloseFails(c)
  <2>1. UNCHANGED session
    BY <1>2 DEF OpenPopup, CloseFails
  <2> QED
    BY <1>2, <2>1, OpenPopupKeeps, CloseFailsKeeps DEF ClosesAsCounted
<1>3. CASE PostCount(c) \/ ControlSession(c) \/ EndSession(c) \/ AnswerIsLost(c)
  BY <1>3, PostKeeps, ControlKeeps, EndSessionKeeps, AnswerIsLostKeeps DEF ClosesAsCounted
<1> QED
  BY <1>1, <1>2, <1>3

\* Every step keeps the invariant, and closes as counted.
LEMMA ClosingStep == ClosingIInv /\ [ClosingNext]_closingVars => ClosingIInv' /\ ClosesAsCounted
<1> SUFFICES ASSUME ClosingIInv, [ClosingNext]_closingVars PROVE ClosingIInv' /\ ClosesAsCounted
  OBVIOUS
<1>1. CASE UNCHANGED closingVars
  BY <1>1 DEF ClosingIInv, ClosingTypeOK, CountIsOwn, PostIsLast, TicketsArePushed, ReportIsLast,
     closingVars, ClosesAsCounted
<1>2. ASSUME NEW direct \in Cash, NEW coins \in Coins, CountOpening(coins, direct)
      PROVE  ClosingIInv' /\ ClosesAsCounted
  BY <1>2, CountOpeningKeeps DEF ClosesAsCounted, CountOpening
<1>3. ASSUME NEW direct \in Cash, NEW coins \in Coins, NEW answered \in BOOLEAN,
             CountClosing(coins, direct, answered)
      PROVE  ClosingIInv' /\ ClosesAsCounted
  <2>1. session'.state = session.state
    BY <1>3, ClosingTypes DEF CountClosing, Session
  <2> QED
    BY <1>3, <2>1, CountClosingKeeps DEF ClosesAsCounted
<1>4. ASSUME NEW c \in Popups,
             \/ \E answered \in BOOLEAN : CloseSession(c, answered)
             \/ OpenPopup(c) \/ PostCount(c) \/ ControlSession(c) \/ EndSession(c)
             \/ CloseFails(c) \/ AnswerIsLost(c)
      PROVE  ClosingIInv' /\ ClosesAsCounted
  BY <1>4, PopupStep
<1>5. CASE LeavePopup \/ SellForCash \/ SendTickets \/ ReloadPage
  <2>1. UNCHANGED session
    BY <1>5 DEF LeavePopup, SellForCash, SendTickets, ReloadPage
  <2> QED
    BY <1>5, <2>1, LeavePopupKeeps, SellKeeps, SendKeeps, ReloadPageKeeps DEF ClosesAsCounted
<1> QED
  BY <1>1, <1>2, <1>3, <1>4, <1>5 DEF ClosingNext

\* The report says what the session was closed with and leaves no ticket out, and the session
\* is closed with the last count the cashier confirmed (closing_popup_patch.js,
\* money_details_popup_patch.js), whatever failed and was tried again, but for a count
\* confirmed after the one that is posted was read, and tickets sold after the others were
\* pushed, for any amounts and any popups.
THEOREM ClosedAsTold == ClosingSpec => []ClosingInv /\ ClosedAsCounted
<1>1. ClosingSpec => []ClosingIInv
  BY ClosingFirst, ClosingStep, PTL DEF ClosingSpec
<1>2. ClosingIInv /\ [ClosingNext]_closingVars => [ClosesAsCounted]_closingVars
  BY ClosingStep
<1> QED
  BY <1>1, <1>2, ClosingIsKept, PTL DEF ClosingSpec, ClosedAsCounted, ClosesAsCounted

-----------------------------------------------------------------------------
(* Daily budgets.                                                          *)

\* The bookings that make the figure of a day for an account.
Counted(of, d, a) == {m \in DOMAIN of : /\ of[m].state = "posted" /\ of[m].day = d
                                        /\ a \in of[m].analytics}

\* Lines of days, by their days.
Lines == UNION {[D -> Day] : D \in SUBSET BudgetDays}

\* The bookings are what they are, and each has its day.
BookingsAreTyped(of) == DOMAIN of \subseteq Bookings /\ \A m \in DOMAIN of : of[m] \in Booking

\* Lines tell their figures, all but some.
FiguresAre(of, ls, but) ==
    \A d \in DOMAIN ls \ but : ls[d].actual = Actual(of, ls[d].on, ls[d].account)

\* Lines as they are made, each for the day it is named for.
LinesAreNew(ls) == \A d \in DOMAIN ls : ls[d].on = d /\ ls[d].account = OwnAnalytic

\* The lines are those of the period, or none, but for a form saved late.
LinesAreOfPeriod == "period" \notin late => DOMAIN days = {} \/ DOMAIN days = Period(budget)

\* What a request makes is right as soon as it commits.
MakingIsSound ==
    making.on => /\ DOMAIN making.lines = Period(budget)
                 /\ LinesAreNew(making.lines)
                 /\ FiguresAre(bookings, making.lines, making.during)

\* The inductive invariant of the daily budgets.
BudgetIInv ==
    /\ BookingsAreTyped(bookings)
    /\ budget \in Budget /\ budget.from <= budget.to
    /\ days \in Lines
    /\ natives \in Seq({"open", "done", "deleted"}) /\ Len(natives) <= MaxNatives
    /\ budget.native <= Len(natives)
    /\ making \in [on : BOOLEAN, lines : Lines, during : SUBSET BudgetDays]
    /\ missed \subseteq BudgetDays
    /\ late \subseteq {"period", "amounts"}
    /\ FiguresAre(bookings, days, missed)
    /\ LinesAreOfPeriod
    /\ MakingIsSound
    /\ InProgressIsBacked

\* Lines are a function of days.
LEMMA LinesAre ==
    ASSUME NEW ls
    PROVE  ls \in Lines <=> /\ DOMAIN ls \subseteq BudgetDays
                            /\ ls = [d \in DOMAIN ls |-> ls[d]]
                            /\ \A d \in DOMAIN ls : ls[d] \in Day
BY DEF Lines

\* The invariant of the daily budgets is part of it.
LEMMA BudgetIsKept == BudgetIInv => BudgetInv
<1> SUFFICES ASSUME BudgetIInv PROVE BudgetInv
  OBVIOUS
<1>1. DOMAIN days \subseteq BudgetDays /\ \A d \in DOMAIN days : days[d] \in Day
  BY LinesAre DEF BudgetIInv
<1>2. making.during \subseteq BudgetDays
  BY DEF BudgetIInv
<1>3. FigureIsCurrent
  BY DEF BudgetIInv, FiguresAre, FigureIsCurrent, Figure
<1> QED
  BY <1>1, <1>2, <1>3 DEF BudgetIInv, BudgetInv, BudgetTypeOK, BookingsAreTyped

\* A figure is a number, and depends on the bookings that are counted only.
LEMMA FigureIsNatural ==
    ASSUME NEW of, BookingsAreTyped(of), NEW d, NEW a
    PROVE  Actual(of, d, a) \in Nat
<1>1. Counted(of, d, a) \subseteq Bookings
  BY DEF Counted, BookingsAreTyped
<1>2. IsFiniteSet(Counted(of, d, a))
  BY <1>1, FS_Subset, BudgetAssumption
<1>3. \A m \in Counted(of, d, a) : AmountOf[m] \in Nat
  BY <1>1, BudgetAssumption
<1>4. SumFunctionOnSet(AmountOf, Counted(of, d, a)) \in Nat
  BY <1>2, <1>3, SumNatural
<1> QED
  BY <1>4 DEF Actual, Counted

LEMMA FigureIsOfCounted ==
    ASSUME NEW of, NEW then, NEW d, NEW a, Counted(of, d, a) = Counted(then, d, a)
    PROVE  Actual(of, d, a) = Actual(then, d, a)
BY DEF Actual, Counted

\* The lines a request makes tell every figure.
LEMMA GeneratedIsSound ==
    ASSUME NEW of, BookingsAreTyped(of), budget \in Budget
    PROVE  /\ Generated(of) \in Lines /\ DOMAIN Generated(of) = Period(budget)
           /\ LinesAreNew(Generated(of)) /\ FiguresAre(of, Generated(of), {})
<1>1. PICK no \in BOOLEAN : no = FALSE
  OBVIOUS
<1>2. Generated(of) = [d \in Period(budget) |->
                         [on |-> d, account |-> OwnAnalytic, entered |-> no,
                          actual |-> Actual(of, d, OwnAnalytic)]]
  BY <1>1, Zenon DEF Generated
<1>3. DOMAIN Generated(of) = Period(budget) /\ Period(budget) \subseteq BudgetDays
  BY <1>2 DEF Period
<1>4. ASSUME NEW d \in Period(budget)
      PROVE  /\ Generated(of)[d] \in Day
             /\ Generated(of)[d].on = d /\ Generated(of)[d].account = OwnAnalytic
             /\ Generated(of)[d].actual = Actual(of, d, OwnAnalytic)
  <2>1. PICK a \in Nat : a = Actual(of, d, OwnAnalytic)
    BY FigureIsNatural
  <2>2. Generated(of)[d] = [on |-> d, account |-> OwnAnalytic, entered |-> no, actual |-> a]
    BY <1>2, <2>1
  <2>3. d \in BudgetDays /\ OwnAnalytic \in Analytics
    BY <1>3, BudgetAssumption
  <2> QED
    BY <2>1, <2>2, <2>3 DEF Day
<1>5. Generated(of) = [d \in DOMAIN Generated(of) |-> Generated(of)[d]]
  BY <1>2, <1>3
<1>6. Generated(of) \in Lines
  BY <1>3, <1>4, <1>5, LinesAre
<1>7. LinesAreNew(Generated(of)) /\ FiguresAre(of, Generated(of), {})
  BY <1>3, <1>4 DEF FiguresAre, LinesAreNew
<1> QED
  BY <1>3, <1>6, <1>7

\* The types, as the steps below use them.
LEMMA BudgetTypes ==
    ASSUME BudgetIInv
    PROVE  /\ BookingsAreTyped(bookings) /\ days \in Lines
           /\ budget \in Budget /\ budget.from <= budget.to
           /\ natives \in Seq({"open", "done", "deleted"}) /\ Len(natives) <= MaxNatives
           /\ budget.native <= Len(natives)
           /\ making \in [on : BOOLEAN, lines : Lines, during : SUBSET BudgetDays]
           /\ missed \subseteq BudgetDays /\ late \subseteq {"period", "amounts"}
           /\ FiguresAre(bookings, days, missed)
           /\ LinesAreOfPeriod /\ MakingIsSound /\ InProgressIsBacked
BY DEF BudgetIInv

\* No request makes lines.
LEMMA NotMakingIsTyped == NotMaking \in [on : BOOLEAN, lines : Lines, during : SUBSET BudgetDays]
                          /\ ~NotMaking.on
<1>1. PICK no \in BOOLEAN : no = FALSE
  OBVIOUS
<1>2. NotMaking = [on |-> no, lines |-> NoLines, during |-> {}]
  BY <1>1, Zenon DEF NotMaking
<1>3. NoLines \in Lines
  BY LinesAre DEF NoLines
<1> QED
  BY <1>1, <1>2, <1>3

\* The lines concerned are computed again; the others keep their figures.
LEMMA RecomputeKeeps ==
    ASSUME BudgetIInv, NEW booking \in Booking, NEW of, BookingsAreTyped(of),
           BookingsAreTyped(bookings)', Recompute(booking, of),
           \A d \in BudgetDays, a \in Analytics : Counted(bookings', d, a) = Counted(of, d, a),
           \A d \in BudgetDays, a \in Analytics :
              \/ a \in booking.analytics /\ d = booking.day
              \/ Counted(of, d, a) = Counted(bookings, d, a)
    PROVE  /\ days' \in Lines /\ DOMAIN days' = DOMAIN days
           /\ \A d \in DOMAIN days : days'[d].entered = days[d].entered
           /\ missed' \subseteq BudgetDays
           /\ FiguresAre(bookings, days, missed)'
<1>1. /\ DOMAIN days \subseteq BudgetDays
      /\ days = [d \in DOMAIN days |-> days[d]]
      /\ \A d \in DOMAIN days : days[d] \in Day
  BY BudgetTypes, LinesAre
<1>2. days' = [d \in DOMAIN days |-> IF d \in Concerned(booking)
                                    THEN [days[d] EXCEPT !.actual = Figure(of, d)] ELSE days[d]]
      /\ missed' = missed \ Concerned(booking)
  BY DEF Recompute
<1>3. DOMAIN days' = DOMAIN days /\ days' = [d \in DOMAIN days' |-> days'[d]]
  BY <1>2
<1>4. ASSUME NEW d \in DOMAIN days
      PROVE  /\ days'[d] \in Day /\ days'[d].entered = days[d].entered
             /\ days'[d].on = days[d].on /\ days'[d].account = days[d].account
             /\ d \in Concerned(booking) => days'[d].actual = Figure(of, d)
             /\ d \notin Concerned(booking) => days'[d] = days[d]
  <2>1. PICK a \in Nat : a = Figure(of, d)
    BY FigureIsNatural DEF Figure
  <2>2. CASE d \in Concerned(booking)
    <3>1. days'[d] = [days[d] EXCEPT !.actual = a]
      BY <1>2, <2>1, <2>2
    <3>2. days[d] \in Day
      BY <1>1
    <3> QED
      BY <2>1, <2>2, <3>1, <3>2 DEF Day
  <2>3. CASE d \notin Concerned(booking)
    BY <1>1, <1>2, <2>3
  <2> QED
    BY <2>2, <2>3
<1>5. days' \in Lines
  BY <1>1, <1>3, <1>4, LinesAre
<1>6. missed' \subseteq BudgetDays
  BY <1>2, BudgetTypes
<1>7. ASSUME NEW d \in DOMAIN days', d \notin missed'
      PROVE  days'[d].actual = Actual(bookings', days'[d].on, days'[d].account)
  <2>0. d \in DOMAIN days
    BY <1>3
  <2>1. PICK on \in BudgetDays, account \in Analytics :
           on = days[d].on /\ account = days[d].account
    BY <1>1, <2>0 DEF Day
  <2>2. days'[d].on = on /\ days'[d].account = account
    BY <1>4, <2>0, <2>1
  <2>3. Actual(bookings', on, account) = Actual(of, on, account)
    BY FigureIsOfCounted
  <2>4. CASE d \in Concerned(booking)
    <3>1. days'[d].actual = Actual(of, on, account)
      BY <1>4, <2>0, <2>1, <2>4 DEF Figure
    <3> QED
      BY <2>2, <2>3, <3>1
  <2>5. CASE d \notin Concerned(booking)
    <3>1. d \notin missed /\ days'[d] = days[d]
      BY <1>2, <1>4, <1>7, <2>0, <2>5
    <3>2. days[d].actual = Actual(bookings, on, account)
      BY <2>0, <2>1, <3>1, BudgetTypes DEF FiguresAre
    <3>3. Counted(of, on, account) = Counted(bookings, on, account)
      BY <2>0, <2>1, <2>5 DEF Concerned
    <3>4. Actual(of, on, account) = Actual(bookings, on, account)
      BY <3>3, FigureIsOfCounted
    <3> QED
      BY <2>2, <2>3, <3>1, <3>2, <3>4
  <2> QED
    BY <2>4, <2>5
<1>8. FiguresAre(bookings, days, missed)'
  BY <1>7 DEF FiguresAre
<1> QED
  BY <1>3, <1>4, <1>5, <1>6, <1>8

\* A request that makes lines is run again, or knows which day it has missed.
LEMMA OverlapKeeps ==
    ASSUME BudgetIInv, NEW booking \in Booking, NEW of, BookingsAreTyped(of),
           Overlap(booking, of), budget' = budget,
           \A d \in BudgetDays : Counted(bookings', d, OwnAnalytic) = Counted(of, d, OwnAnalytic),
           \A d \in BudgetDays :
              d = booking.day \/ Counted(of, d, OwnAnalytic) = Counted(bookings, d, OwnAnalytic)
    PROVE  /\ making' \in [on : BOOLEAN, lines : Lines, during : SUBSET BudgetDays]
           /\ MakingIsSound'
<1>1. making \in [on : BOOLEAN, lines : Lines, during : SUBSET BudgetDays] /\ MakingIsSound
      /\ budget \in Budget
  BY BudgetTypes
<1>2. CASE ~making.on
  <2>1. making' = making
    BY <1>2 DEF Overlap
  <2> QED
    BY <1>1, <1>2, <2>1 DEF MakingIsSound
<1>3. CASE making.on /\ days' # days
  <2>1. PICK yes \in BOOLEAN : yes = TRUE
    OBVIOUS
  <2>2. making' = [on |-> TRUE, lines |-> Generated(of), during |-> {}]
    BY <1>3 DEF Overlap
  <2>3. making' = [on |-> yes, lines |-> Generated(of), during |-> {}]
    BY <2>1, <2>2, Zenon
  <2>4. PICK ls \in Lines : /\ ls = Generated(of) /\ DOMAIN ls = Period(budget)
                            /\ LinesAreNew(ls) /\ FiguresAre(of, ls, {})
    BY <1>1, GeneratedIsSound
  <2>5. making' = [on |-> yes, lines |-> ls, during |-> {}]
    BY <2>3, <2>4
  <2>6. Period(budget) \subseteq BudgetDays
    BY DEF Period
  <2>7. ASSUME NEW d \in DOMAIN ls PROVE ls[d].actual = Actual(bookings', d, OwnAnalytic)
    <3>1. d \in BudgetDays
      BY <2>4, <2>6
    <3>2. Actual(bookings', d, OwnAnalytic) = Actual(of, d, OwnAnalytic)
      BY <3>1, FigureIsOfCounted
    <3>3. ls[d].actual = Actual(of, d, OwnAnalytic)
      BY <2>4 DEF FiguresAre, LinesAreNew
    <3> QED
      BY <3>2, <3>3
  <2>8. making'.lines = ls /\ making'.during = {}
    BY <2>5
  <2>9. MakingIsSound'
    BY <2>4, <2>7, <2>8 DEF MakingIsSound, FiguresAre, LinesAreNew, Period
  <2> QED
    BY <2>5, <2>9
<1>4. CASE making.on /\ days' = days
  <2> DEFINE day == booking.day
  <2>0. day \in BudgetDays
    BY DEF Booking
  <2>1. PICK during \in SUBSET BudgetDays :
           /\ during = making.during \/ during = making.during \cup {day}
           /\ day \notin during => Actual(of, day, OwnAnalytic) = Actual(bookings, day, OwnAnalytic)
           /\ making' = [making EXCEPT !.during = during]
    <3>1. CASE Actual(of, day, OwnAnalytic) # Actual(bookings, day, OwnAnalytic)
      <4>1. making' = [making EXCEPT !.during = making.during \cup {day}]
        BY <1>1, <1>4, <3>1 DEF Overlap
      <4>2. making.during \cup {day} \in SUBSET BudgetDays
        BY <1>1, <2>0
      <4> QED
        BY <4>1, <4>2
    <3>2. CASE Actual(of, day, OwnAnalytic) = Actual(bookings, day, OwnAnalytic)
      <4>1. making' = making
        BY <1>4, <3>2 DEF Overlap
      <4>2. making' = [making EXCEPT !.during = making.during]
        BY <1>1, <4>1
      <4> QED
        BY <1>1, <3>2, <4>2
    <3> QED
      BY <3>1, <3>2
  <2>2. /\ making' \in [on : BOOLEAN, lines : Lines, during : SUBSET BudgetDays]
        /\ making'.lines = making.lines /\ making'.during = during
    BY <1>1, <2>1
  <2>3. /\ DOMAIN making.lines = Period(budget) /\ LinesAreNew(making.lines)
        /\ FiguresAre(bookings, making.lines, making.during)
    BY <1>1, <1>4 DEF MakingIsSound
  <2>4. ASSUME NEW d \in DOMAIN making.lines, d \notin during
        PROVE  making.lines[d].actual = Actual(bookings', d, OwnAnalytic)
    <3>1. d \in BudgetDays /\ d \notin making.during
      BY <2>1, <2>3, <2>4 DEF Period
    <3>2. making.lines[d].actual = Actual(bookings, d, OwnAnalytic)
      BY <2>3, <3>1 DEF FiguresAre, LinesAreNew
    <3>3. Actual(of, d, OwnAnalytic) = Actual(bookings, d, OwnAnalytic)
      BY <2>1, <2>4, <3>1, FigureIsOfCounted
    <3>4. Actual(bookings', d, OwnAnalytic) = Actual(of, d, OwnAnalytic)
      BY <3>1, FigureIsOfCounted
    <3> QED
      BY <3>2, <3>3, <3>4
  <2>5. MakingIsSound'
    BY <2>2, <2>3, <2>4 DEF MakingIsSound, FiguresAre, LinesAreNew, Period
  <2> QED
    BY <2>2, <2>5
<1> QED
  BY <1>2, <1>3, <1>4

\* A change of the bookings, with what its handlers do.
LEMMA BookingStep ==
    ASSUME BudgetIInv, NEW booking \in Booking, NEW of, BookingsAreTyped(of),
           BookingsAreTyped(bookings)', Recompute(booking, of), Overlap(booking, of),
           UNCHANGED <<budget, natives, late>>,
           \A d \in BudgetDays, a \in Analytics : Counted(bookings', d, a) = Counted(of, d, a),
           \A d \in BudgetDays, a \in Analytics :
              \/ a \in booking.analytics /\ d = booking.day
              \/ Counted(of, d, a) = Counted(bookings, d, a)
    PROVE  BudgetIInv'
<1>1. /\ days' \in Lines /\ DOMAIN days' = DOMAIN days
      /\ \A d \in DOMAIN days : days'[d].entered = days[d].entered
      /\ missed' \subseteq BudgetDays
      /\ FiguresAre(bookings, days, missed)'
  BY RecomputeKeeps
<1>2. /\ making' \in [on : BOOLEAN, lines : Lines, during : SUBSET BudgetDays]
      /\ MakingIsSound'
  <2>1. OwnAnalytic \in Analytics
    BY BudgetAssumption
  <2> QED
    BY <2>1, OverlapKeeps
<1>3. LinesAreOfPeriod' /\ InProgressIsBacked'
  BY <1>1, BudgetTypes DEF LinesAreOfPeriod, InProgressIsBacked, Period
<1> QED
  BY <1>1, <1>2, <1>3, BudgetTypes DEF BudgetIInv

\* A booking is saved: a draft, which no figure counts.
LEMMA MakeKeeps ==
    ASSUME BudgetIInv, NEW m \in Bookings, MakeBooking(m)
    PROVE  BudgetIInv'
<1>1. PICK booking \in Booking :
         /\ m \notin DOMAIN bookings /\ booking.state = "draft"
         /\ bookings' = [n \in DOMAIN bookings \union {m} |->
                           IF n = m THEN booking ELSE bookings[n]]
         /\ Recompute(booking, bookings') /\ Overlap(booking, bookings')
         /\ UNCHANGED <<budget, natives, late>>
  BY DEF MakeBooking
<1>2. BookingsAreTyped(bookings)
  BY BudgetTypes
<1>3. BookingsAreTyped(bookings')
  BY <1>1, <1>2 DEF BookingsAreTyped
<1>4. \A d \in BudgetDays, a \in Analytics : Counted(bookings', d, a) = Counted(bookings, d, a)
  <2> SUFFICES ASSUME NEW d \in BudgetDays, NEW a \in Analytics
               PROVE  Counted(bookings', d, a) = Counted(bookings, d, a)
    OBVIOUS
  <2>1. m \notin Counted(bookings', d, a) /\ m \notin Counted(bookings, d, a)
    BY <1>1 DEF Counted
  <2>2. \A n : n # m => (n \in Counted(bookings', d, a) <=> n \in Counted(bookings, d, a))
    BY <1>1 DEF Counted
  <2> QED
    BY <2>1, <2>2
<1> QED
  BY <1>1, <1>3, <1>4, BookingStep

\* A booking is posted, or put back to draft.
LEMMA StateKeeps ==
    ASSUME BudgetIInv, NEW m \in Bookings, NEW before, NEW after \in {"draft", "posted"},
           SetState(m, before, after)
    PROVE  BudgetIInv'
<1>1. /\ m \in DOMAIN bookings
      /\ bookings' = [bookings EXCEPT ![m].state = after]
      /\ Recompute(bookings[m], bookings') /\ Overlap(bookings[m], bookings')
      /\ UNCHANGED <<budget, natives, late>>
  BY DEF SetState
<1>2. BookingsAreTyped(bookings) /\ bookings[m] \in Booking
  BY <1>1, BudgetTypes DEF BookingsAreTyped
<1>3. /\ DOMAIN bookings' = DOMAIN bookings
      /\ \A n \in DOMAIN bookings \ {m} : bookings'[n] = bookings[n]
      /\ bookings'[m] = [bookings[m] EXCEPT !.state = after]
  BY <1>1
<1>4. /\ bookings'[m] \in Booking
      /\ bookings'[m].day = bookings[m].day /\ bookings'[m].analytics = bookings[m].analytics
  BY <1>2, <1>3 DEF Booking
<1>5. BookingsAreTyped(bookings')
  BY <1>2, <1>3, <1>4 DEF BookingsAreTyped
<1>6. ASSUME NEW d \in BudgetDays, NEW a \in Analytics,
             ~(a \in bookings[m].analytics /\ d = bookings[m].day)
      PROVE  Counted(bookings', d, a) = Counted(bookings, d, a)
  <2>1. m \notin Counted(bookings', d, a) /\ m \notin Counted(bookings, d, a)
    BY <1>4, <1>6 DEF Counted
  <2>2. \A n : n # m => (n \in Counted(bookings', d, a) <=> n \in Counted(bookings, d, a))
    BY <1>3 DEF Counted
  <2> QED
    BY <2>1, <2>2
<1> QED
  BY <1>1, <1>2, <1>5, <1>6, BookingStep

\* A draft is deleted, once its figure is computed.
LEMMA DeleteKeeps ==
    ASSUME BudgetIInv, NEW m \in Bookings, DeleteBooking(m)
    PROVE  BudgetIInv'
<1>1. /\ m \in DOMAIN bookings /\ bookings[m].state = "draft"
      /\ bookings' = [n \in DOMAIN bookings \ {m} |-> bookings[n]]
      /\ Recompute(bookings[m], bookings) /\ Overlap(bookings[m], bookings)
      /\ UNCHANGED <<budget, natives, late>>
  BY DEF DeleteBooking
<1>2. BookingsAreTyped(bookings) /\ bookings[m] \in Booking
  BY <1>1, BudgetTypes DEF BookingsAreTyped
<1>3. BookingsAreTyped(bookings')
  BY <1>1, <1>2 DEF BookingsAreTyped
<1>4. \A d \in BudgetDays, a \in Analytics : Counted(bookings', d, a) = Counted(bookings, d, a)
  <2> SUFFICES ASSUME NEW d \in BudgetDays, NEW a \in Analytics
               PROVE  Counted(bookings', d, a) = Counted(bookings, d, a)
    OBVIOUS
  <2>1. m \notin Counted(bookings', d, a) /\ m \notin Counted(bookings, d, a)
    BY <1>1 DEF Counted
  <2>2. \A n : n # m => (n \in Counted(bookings', d, a) <=> n \in Counted(bookings, d, a))
    BY <1>1 DEF Counted
  <2> QED
    BY <2>1, <2>2
<1> QED
  BY <1>1, <1>2, <1>3, <1>4, BookingStep

\* A distribution is edited: the day is missed.
LEMMA RedistributeKeeps ==
    ASSUME BudgetIInv, NEW m \in Bookings, Redistribute(m)
    PROVE  BudgetIInv'
<1>1. PICK as \in SUBSET Analytics :
         /\ m \in DOMAIN bookings /\ ~making.on
         /\ bookings' = [bookings EXCEPT ![m].analytics = as]
         /\ missed' = missed \union {d \in DOMAIN days : days[d].on = bookings[m].day}
         /\ UNCHANGED <<budget, days, natives, making, late>>
  BY DEF Redistribute
<1>2. BookingsAreTyped(bookings) /\ bookings[m] \in Booking
  BY <1>1, BudgetTypes DEF BookingsAreTyped
<1>3. /\ DOMAIN bookings' = DOMAIN bookings
      /\ \A n \in DOMAIN bookings \ {m} : bookings'[n] = bookings[n]
      /\ bookings'[m] = [bookings[m] EXCEPT !.analytics = as]
  BY <1>1
<1>4. bookings'[m] \in Booking /\ bookings'[m].day = bookings[m].day
  BY <1>2, <1>3 DEF Booking
<1>5. BookingsAreTyped(bookings')
  BY <1>2, <1>3, <1>4 DEF BookingsAreTyped
<1>6. missed' \subseteq BudgetDays
  <2>1. DOMAIN days \subseteq BudgetDays
    BY BudgetTypes, LinesAre
  <2> QED
    BY <1>1, <2>1, BudgetTypes
<1>7. ASSUME NEW d, d # bookings[m].day, NEW a
      PROVE  Counted(bookings', d, a) = Counted(bookings, d, a)
  <2>1. m \notin Counted(bookings', d, a) /\ m \notin Counted(bookings, d, a)
    BY <1>4, <1>7 DEF Counted
  <2>2. \A n : n # m => (n \in Counted(bookings', d, a) <=> n \in Counted(bookings, d, a))
    BY <1>3 DEF Counted
  <2> QED
    BY <2>1, <2>2
<1>8. ASSUME NEW d \in DOMAIN days, d \notin missed'
      PROVE  days[d].actual = Actual(bookings', days[d].on, days[d].account)
  <2>1. d \notin missed /\ days[d].on # bookings[m].day
    BY <1>1, <1>8
  <2>2. days[d].actual = Actual(bookings, days[d].on, days[d].account)
    BY <2>1, BudgetTypes DEF FiguresAre
  <2>3. Actual(bookings', days[d].on, days[d].account) = Actual(bookings, days[d].on, days[d].account)
    BY <2>1, <1>7, FigureIsOfCounted
  <2> QED
    BY <2>2, <2>3
<1>9. FiguresAre(bookings, days, missed)'
  BY <1>1, <1>8 DEF FiguresAre
<1>10. LinesAreOfPeriod' /\ MakingIsSound' /\ InProgressIsBacked'
  BY <1>1, BudgetTypes DEF LinesAreOfPeriod, MakingIsSound, InProgressIsBacked, Period
<1> QED
  BY <1>1, <1>5, <1>6, <1>9, <1>10, BudgetTypes DEF BudgetIInv

\* The period is edited, from a form that may be late.
LEMMA EditBudgetKeeps ==
    ASSUME BudgetIInv, EditBudget
    PROVE  BudgetIInv'
<1>1. /\ budget' \in Budget /\ (budget.from <= budget.to)' /\ budget'.state = budget.state 
      /\ budget'.native = budget.native
      /\ UNCHANGED <<bookings, days, natives, making, missed>> /\ ~making.on
  BY DEF EditBudget
<1>2. \/ days = NoLines /\ late' = late
      \/ late' = late \union {"period"}
  BY DEF EditBudget
<1>3. late' \subseteq {"period", "amounts"}
  BY <1>2, BudgetTypes
<1>4. DOMAIN NoLines = {}
  BY DEF NoLines
<1>5. "period" \notin late' => days = NoLines /\ late' = late
  BY <1>2
<1>6. LinesAreOfPeriod' /\ MakingIsSound'
  BY <1>1, <1>4, <1>5 DEF LinesAreOfPeriod, MakingIsSound
<1>7. InProgressIsBacked'
  <2>1. ASSUME budget.state = "in_progress" PROVE "period" \in late'
    <3>1. SUFFICES ASSUME "period" \notin late' PROVE FALSE
      OBVIOUS
    <3>2. DOMAIN days = {} /\ DOMAIN days = Period(budget)
      BY <1>4, <1>5, <2>1, <3>1, BudgetTypes DEF InProgressIsBacked
    <3>3. PICK a \in BudgetDays, b \in BudgetDays : a = budget.from /\ b = budget.to
      BY BudgetTypes DEF Budget
    <3>4. a \in Nat /\ a <= b
      BY <3>3, BudgetTypes, BudgetAssumption
    <3>5. a <= a
      BY <3>4
    <3>6. a \in Period(budget)
      BY <3>3, <3>4, <3>5 DEF Period
    <3> QED
      BY <3>2, <3>6
  <2>2. "amounts" \notin late' => "amounts" \notin late
    BY <1>2
  <2> QED
    BY <1>1, <2>1, <2>2, BudgetTypes DEF InProgressIsBacked
<1>8. FiguresAre(bookings, days, missed)'
  BY <1>1, BudgetTypes DEF FiguresAre
<1> QED
  BY <1>1, <1>3, <1>6, <1>7, <1>8, BudgetTypes DEF BudgetIInv

\* A request reads the figures of the period.
LEMMA BeginKeeps ==
    ASSUME BudgetIInv, BeginGenerate
    PROVE  BudgetIInv'
<1>1. PICK yes \in BOOLEAN : yes = TRUE
  OBVIOUS
<1>2. /\ making' = [on |-> TRUE, lines |-> Generated(bookings), during |-> {}]
      /\ UNCHANGED <<bookings, budget, days, natives, missed, late>>
  BY DEF BeginGenerate
<1>3. making' = [on |-> yes, lines |-> Generated(bookings), during |-> {}]
  BY <1>1, <1>2, Zenon
<1>4. PICK ls \in Lines : /\ ls = Generated(bookings) /\ DOMAIN ls = Period(budget)
                          /\ LinesAreNew(ls) /\ FiguresAre(bookings, ls, {})
  BY BudgetTypes, GeneratedIsSound
<1>5. making' = [on |-> yes, lines |-> ls, during |-> {}]
  BY <1>3, <1>4
<1>6. making' \in [on : BOOLEAN, lines : Lines, during : SUBSET BudgetDays]
  BY <1>5
<1>7. making'.lines = ls /\ making'.during = {}
  BY <1>5
<1>8. MakingIsSound'
  BY <1>2, <1>4, <1>7 DEF MakingIsSound, LinesAreNew, FiguresAre, Period
<1>9. LinesAreOfPeriod' /\ InProgressIsBacked' /\ FiguresAre(bookings, days, missed)'
  BY <1>2, BudgetTypes DEF LinesAreOfPeriod, InProgressIsBacked, Period, FiguresAre
<1> QED
  BY <1>2, <1>6, <1>8, <1>9, BudgetTypes DEF BudgetIInv

\* A request commits its lines.
LEMMA EndGenerateKeeps ==
    ASSUME BudgetIInv, EndGenerate
    PROVE  BudgetIInv'
<1>1. /\ making.on /\ days' = making.lines /\ missed' = making.during
      /\ budget' = [budget EXCEPT !.state = "pending"] /\ making' = NotMaking
      /\ late' = {} /\ UNCHANGED <<bookings, natives>>
  BY DEF EndGenerate
<1>2. making \in [on : BOOLEAN, lines : Lines, during : SUBSET BudgetDays]
  BY BudgetTypes
<1>3. DOMAIN making.lines = Period(budget) /\ FiguresAre(bookings, making.lines, making.during)
  BY <1>1, BudgetTypes DEF MakingIsSound
<1>4. budget \in Budget
  BY BudgetTypes
<1>5. /\ budget' \in Budget /\ budget'.state = "pending" /\ budget'.native = budget.native
      /\ budget'.from = budget.from /\ budget'.to = budget.to
  BY <1>1, <1>4 DEF Budget
<1>6. Period(budget)' = Period(budget)
  BY <1>5 DEF Period
<1>7. LinesAreOfPeriod' /\ InProgressIsBacked'
  BY <1>1, <1>3, <1>5, <1>6 DEF LinesAreOfPeriod, InProgressIsBacked
<1>8. MakingIsSound' /\ making' \in [on : BOOLEAN, lines : Lines, during : SUBSET BudgetDays]
  BY <1>1, NotMakingIsTyped DEF MakingIsSound
<1>9. FiguresAre(bookings, days, missed)'
  BY <1>1, <1>3 DEF FiguresAre
<1>10. days' \in Lines /\ missed' \subseteq BudgetDays
  BY <1>1, <1>2
<1> QED
  BY <1>1, <1>5, <1>7, <1>8, <1>9, <1>10, BudgetTypes DEF BudgetIInv

\* The amounts of a day are entered, from a list that may be late.
LEMMA EnterDayKeeps ==
    ASSUME BudgetIInv, NEW d \in BudgetDays, EnterDay(d)
    PROVE  BudgetIInv'
<1>1. /\ ~making.on /\ d \in DOMAIN days
      /\ days' = [days EXCEPT ![d].entered = ~@]
      /\ late' = IF budget.state = "in_progress" THEN late \union {"amounts"} ELSE late
      /\ UNCHANGED <<bookings, budget, natives, making, missed>>
  BY DEF EnterDay
<1>2. /\ DOMAIN days \subseteq BudgetDays /\ days = [e \in DOMAIN days |-> days[e]]
      /\ \A e \in DOMAIN days : days[e] \in Day
  BY BudgetTypes, LinesAre
<1>3. PICK entered \in BOOLEAN : entered = ~days[d].entered
  <2>1. days[d].entered \in BOOLEAN
    BY <1>1, <1>2 DEF Day
  <2>2. PICK e \in BOOLEAN : e <=> ~days[d].entered
    OBVIOUS
  <2>3. e = ~days[d].entered
    BY <2>2
  <2> QED
    BY <2>3, Zenon
<1>4. days' = [days EXCEPT ![d].entered = entered]
  BY <1>1, <1>3, Zenon
<1>5. /\ DOMAIN days' = DOMAIN days
      /\ \A e \in DOMAIN days \ {d} : days'[e] = days[e]
      /\ days'[d] = [days[d] EXCEPT !.entered = entered]
  BY <1>1, <1>4
<1>6. /\ days'[d] \in Day /\ days'[d].actual = days[d].actual
      /\ days'[d].on = days[d].on /\ days'[d].account = days[d].account
  BY <1>1, <1>2, <1>5 DEF Day
<1>7. days' \in Lines
  <2>1. days' = [e \in DOMAIN days' |-> days'[e]]
    BY <1>4
  <2> QED
    BY <1>2, <1>5, <1>6, <2>1, LinesAre
<1>8. FiguresAre(bookings, days, missed)'
  BY <1>1, <1>5, <1>6, BudgetTypes DEF FiguresAre
<1>9. /\ late' \subseteq {"period", "amounts"} /\ "period" \notin late' => "period" \notin late
      /\ budget.state = "in_progress" => "amounts" \in late'
  BY <1>1, BudgetTypes
<1>10. LinesAreOfPeriod' /\ MakingIsSound' /\ InProgressIsBacked'
  BY <1>1, <1>5, <1>9, BudgetTypes DEF LinesAreOfPeriod, MakingIsSound, InProgressIsBacked, Period
<1> QED
  BY <1>1, <1>7, <1>8, <1>9, <1>10, BudgetTypes DEF BudgetIInv

\* A line is moved to another day or account, with the figure it has there.
LEMMA MoveDayKeeps ==
    ASSUME BudgetIInv, NEW d \in BudgetDays, MoveDay(d)
    PROVE  BudgetIInv'
<1>1. PICK day \in BudgetDays, account \in Analytics :
         days' = [days EXCEPT ![d] = [on |-> day, account |-> account, entered |-> days[d].entered,
                                      actual |-> Actual(bookings, day, account)]]
  BY DEF MoveDay
<1>2. /\ ~making.on /\ d \in DOMAIN days /\ missed' = missed \ {d}
      /\ UNCHANGED <<bookings, budget, natives, making, late>>
  BY DEF MoveDay
<1>3. /\ DOMAIN days \subseteq BudgetDays /\ days = [e \in DOMAIN days |-> days[e]]
      /\ \A e \in DOMAIN days : days[e] \in Day
  BY BudgetTypes, LinesAre
<1>4. PICK figure \in Nat : figure = Actual(bookings, day, account)
  BY FigureIsNatural, BudgetTypes
<1>5. PICK entered \in BOOLEAN : entered = days[d].entered
  BY <1>2, <1>3 DEF Day
<1>6. days' = [days EXCEPT ![d] = [on |-> day, account |-> account, entered |-> entered,
                                   actual |-> figure]]
  BY <1>1, <1>4, <1>5
<1>7. /\ DOMAIN days' = DOMAIN days /\ days' = [e \in DOMAIN days' |-> days'[e]]
      /\ \A e \in DOMAIN days \ {d} : days'[e] = days[e]
      /\ days'[d] = [on |-> day, account |-> account, entered |-> entered, actual |-> figure]
  BY <1>2, <1>6
<1>8. days'[d] \in Day /\ days'[d].entered = days[d].entered
  BY <1>5, <1>7 DEF Day
<1>9. days' \in Lines
  BY <1>2, <1>3, <1>7, <1>8, LinesAre
<1>10. ASSUME NEW e \in DOMAIN days', e \notin missed'
       PROVE  days'[e].actual = Actual(bookings, days'[e].on, days'[e].account)
  <2>1. CASE e = d
    BY <1>4, <1>7, <2>1
  <2>2. CASE e # d
    <3>1. e \in DOMAIN days /\ e \notin missed /\ days'[e] = days[e]
      BY <1>2, <1>7, <1>10, <2>2
    <3> QED
      BY <3>1, BudgetTypes DEF FiguresAre
  <2> QED
    BY <2>1, <2>2
<1>11. FiguresAre(bookings, days, missed)'
  BY <1>2, <1>10 DEF FiguresAre
<1>12. \A e \in DOMAIN days : days'[e].entered = days[e].entered
  BY <1>7, <1>8
<1>13. LinesAreOfPeriod' /\ MakingIsSound' /\ InProgressIsBacked'
  BY <1>2, <1>7, <1>12, BudgetTypes DEF LinesAreOfPeriod, MakingIsSound, InProgressIsBacked, Period
<1>14. missed' \subseteq BudgetDays
  BY <1>2, BudgetTypes
<1> QED
  BY <1>2, <1>9, <1>11, <1>13, <1>14, BudgetTypes DEF BudgetIInv

\* The budget is validated, with every day entered.
LEMMA ValidateBudgetKeeps ==
    ASSUME BudgetIInv, Validate
    PROVE  BudgetIInv'
<1>1. natives \in Seq({"open", "done", "deleted"}) /\ Len(natives) \in Nat /\ budget \in Budget
  BY BudgetTypes
<1>2. PICK n \in 0 .. MaxNatives : n = Len(natives) + 1
  BY <1>1, BudgetAssumption DEF Validate
<1>3. /\ ~making.on /\ DOMAIN days # {} /\ \A d \in DOMAIN days : days[d].entered
      /\ natives' = Append(natives, "open") /\ late' = late \ {"amounts"}
      /\ UNCHANGED <<bookings, days, making, missed>>
  BY DEF Validate
<1>4. natives' \in Seq({"open", "done", "deleted"}) /\ Len(natives') = n /\ natives'[n] = "open"
  BY <1>1, <1>2, <1>3
<1>5. budget' = [budget EXCEPT !.state = "in_progress", !.native = n]
  BY <1>4 DEF Validate
<1>6. /\ budget' \in Budget /\ budget'.state = "in_progress" /\ budget'.native = n
      /\ budget'.from = budget.from /\ budget'.to = budget.to
      /\ (budget.from <= budget.to)'
  BY <1>1, <1>5, BudgetTypes DEF Budget
<1>7. Period(budget)' = Period(budget)
  BY <1>6 DEF Period
<1>8. n # 0
  BY <1>1, <1>2
<1>9. /\ late' \subseteq {"period", "amounts"} /\ "period" \notin late' => "period" \notin late
      /\ "period" \notin late => DOMAIN days = Period(budget)
  BY <1>3, BudgetTypes DEF LinesAreOfPeriod
<1>10. LinesAreOfPeriod' /\ MakingIsSound' /\ InProgressIsBacked'
  BY <1>3, <1>4, <1>6, <1>7, <1>8, <1>9 DEF LinesAreOfPeriod, MakingIsSound, InProgressIsBacked
<1>11. FiguresAre(bookings, days, missed)'
  BY <1>3, BudgetTypes DEF FiguresAre
<1> QED
  BY <1>2, <1>3, <1>4, <1>6, <1>9, <1>10, <1>11, BudgetTypes DEF BudgetIInv

\* A budget that leaves its work: lines, figures and requests as they are.
LEMMA BudgetLeaves ==
    ASSUME BudgetIInv, ~making.on, budget' \in Budget, budget'.state = "done",
           budget'.from = budget.from, budget'.to = budget.to, budget'.native = budget.native,
           natives' \in Seq({"open", "done", "deleted"}), Len(natives') = Len(natives),
           UNCHANGED <<bookings, days, making, missed, late>>
    PROVE  BudgetIInv'
<1>1. Period(budget)' = Period(budget)
  BY DEF Period
<1>2. LinesAreOfPeriod' /\ MakingIsSound' /\ InProgressIsBacked'
  BY <1>1, BudgetTypes DEF LinesAreOfPeriod, MakingIsSound, InProgressIsBacked
<1>3. FiguresAre(bookings, days, missed)'
  BY BudgetTypes DEF FiguresAre
<1> QED
  BY <1>2, <1>3, BudgetTypes DEF BudgetIInv

\* The daily budget is closed with its native one.
LEMMA CloseKeeps ==
    ASSUME BudgetIInv, Close
    PROVE  BudgetIInv'
<1>1. budget \in Budget /\ natives \in Seq({"open", "done", "deleted"}) /\ budget.native <= Len(natives)
  BY BudgetTypes
<1>2. /\ ~making.on /\ budget' = [budget EXCEPT !.state = "done"]
      /\ natives' = IF budget.native = 0 THEN natives ELSE [natives EXCEPT ![budget.native] = "done"]
      /\ UNCHANGED <<bookings, days, making, missed, late>>
  BY DEF Close
<1>3. natives' \in Seq({"open", "done", "deleted"}) /\ Len(natives') = Len(natives)
  <2>1. CASE budget.native = 0
    BY <1>1, <1>2, <2>1
  <2>2. CASE budget.native # 0
    <3>1. natives' = [natives EXCEPT ![budget.native] = "done"]
      BY <1>2, <2>2
    <3>2. PICK n \in 1 .. Len(natives) : n = budget.native
      BY <1>1, <2>2, BudgetAssumption DEF Budget
    <3> QED
      BY <1>1, <3>1, <3>2
  <2> QED
    BY <2>1, <2>2
<1>4. /\ budget' \in Budget /\ budget'.state = "done" /\ budget'.native = budget.native
      /\ budget'.from = budget.from /\ budget'.to = budget.to
  BY <1>1, <1>2 DEF Budget
<1> QED
  BY <1>2, <1>3, <1>4, BudgetLeaves

\* A native budget is closed, and the daily one with it.
LEMMA CloseNativeKeeps ==
    ASSUME BudgetIInv, NEW n \in 1 .. MaxNatives, CloseNative(n)
    PROVE  BudgetIInv'
<1>1. budget \in Budget /\ natives \in Seq({"open", "done", "deleted"})
  BY BudgetTypes
<1>2. /\ ~making.on /\ budget' = [budget EXCEPT !.state = "done"]
      /\ n \in DOMAIN natives /\ natives' = [natives EXCEPT ![n] = "done"]
      /\ UNCHANGED <<bookings, days, making, missed, late>>
  BY DEF CloseNative
<1>3. natives' \in Seq({"open", "done", "deleted"}) /\ Len(natives') = Len(natives)
  BY <1>1, <1>2
<1>4. /\ budget' \in Budget /\ budget'.state = "done" /\ budget'.native = budget.native
      /\ budget'.from = budget.from /\ budget'.to = budget.to
  BY <1>1, <1>2 DEF Budget
<1> QED
  BY <1>2, <1>3, <1>4, BudgetLeaves

\* A budget put back to draft has no lines.
LEMMA BudgetIsReset ==
    ASSUME BudgetIInv, ~making.on, budget' \in Budget, budget'.state = "draft",
           natives' \in Seq({"open", "done", "deleted"}), Len(natives') = Len(natives),
           budget'.native <= Len(natives'),
           budget'.from = budget.from, budget'.to = budget.to,
           days' = NoLines, missed' = {}, late' = {}, UNCHANGED <<bookings, making>>
    PROVE  BudgetIInv'
<1>1. days' \in Lines /\ DOMAIN days' = {}
  BY LinesAre DEF NoLines
<1>2. LinesAreOfPeriod' /\ MakingIsSound' /\ InProgressIsBacked' /\ FiguresAre(bookings, days, missed)'
  BY <1>1 DEF LinesAreOfPeriod, MakingIsSound, InProgressIsBacked, FiguresAre
<1> QED
  BY <1>1, <1>2, BudgetTypes DEF BudgetIInv

\* The daily budget is reset.
LEMMA ResetKeeps ==
    ASSUME BudgetIInv, ResetBudget
    PROVE  BudgetIInv'
<1>1. budget \in Budget /\ natives \in Seq({"open", "done", "deleted"}) /\ budget.native <= Len(natives)
  BY BudgetTypes
<1>2. /\ ~making.on /\ budget' = [budget EXCEPT !.state = "draft"]
      /\ days' = NoLines /\ missed' = {} /\ late' = {} /\ UNCHANGED <<bookings, natives, making>>
  BY DEF ResetBudget
<1>3. /\ budget' \in Budget /\ budget'.state = "draft" /\ budget'.native = budget.native
      /\ budget'.from = budget.from /\ budget'.to = budget.to
  BY <1>1, <1>2 DEF Budget
<1> QED
  BY <1>1, <1>2, <1>3, BudgetIsReset

\* A native budget is deleted: the daily one is reset, and names it no more.
LEMMA DeleteNativeKeeps ==
    ASSUME BudgetIInv, NEW n \in 1 .. MaxNatives, DeleteNative(n)
    PROVE  BudgetIInv'
<1>1. /\ budget \in Budget /\ natives \in Seq({"open", "done", "deleted"})
      /\ budget.native <= Len(natives) /\ Len(natives) \in Nat
  BY BudgetTypes
<1>2. PICK native \in 0 .. MaxNatives : native = IF budget.native = n THEN 0 ELSE budget.native
  BY <1>1, BudgetAssumption DEF Budget
<1>3. /\ ~making.on /\ n \in DOMAIN natives /\ natives' = [natives EXCEPT ![n] = "deleted"]
      /\ budget' = [budget EXCEPT !.state = "draft", !.native = native]
      /\ days' = NoLines /\ missed' = {} /\ late' = {} /\ UNCHANGED <<bookings, making>>
  BY <1>2 DEF DeleteNative
<1>4. natives' \in Seq({"open", "done", "deleted"}) /\ Len(natives') = Len(natives)
  BY <1>1, <1>3
<1>5. /\ budget' \in Budget /\ budget'.state = "draft" /\ budget'.native = native
      /\ budget'.from = budget.from /\ budget'.to = budget.to
  BY <1>1, <1>3 DEF Budget
<1>6. budget'.native <= Len(natives')
  BY <1>1, <1>2, <1>4, <1>5
<1> QED
  BY <1>3, <1>4, <1>5, <1>6, BudgetIsReset

\* Nothing is booked, and the budget is a draft.
LEMMA BudgetFirst == BudgetInit => BudgetIInv
<1> SUFFICES ASSUME BudgetInit PROVE BudgetIInv
  OBVIOUS
<1>1. /\ bookings = [m \in {} |-> {}] /\ days = NoLines /\ natives = <<>>
      /\ making = NotMaking /\ missed = {} /\ late = {}
      /\ budget \in Budget /\ budget.state = "draft" /\ budget.native = 0
      /\ budget.from <= budget.to
  BY DEF BudgetInit
<1>2. days \in Lines /\ DOMAIN days = {}
  BY <1>1, LinesAre DEF NoLines
<1>3. BookingsAreTyped(bookings)
  BY <1>1 DEF BookingsAreTyped
<1>4. natives \in Seq({"open", "done", "deleted"}) /\ Len(natives) = 0
  BY <1>1
<1>5. LinesAreOfPeriod /\ MakingIsSound /\ InProgressIsBacked /\ FiguresAre(bookings, days, missed)
  BY <1>1, <1>2, NotMakingIsTyped DEF LinesAreOfPeriod, MakingIsSound, InProgressIsBacked, FiguresAre
<1> QED
  BY <1>1, <1>2, <1>3, <1>4, <1>5, NotMakingIsTyped, BudgetAssumption DEF BudgetIInv

\* Every step keeps it.
LEMMA BudgetStep == BudgetIInv /\ [BudgetNext]_budgetVars => BudgetIInv'
<1> SUFFICES ASSUME BudgetIInv, [BudgetNext]_budgetVars PROVE BudgetIInv'
  OBVIOUS
<1>1. CASE UNCHANGED budgetVars
  BY <1>1 DEF BudgetIInv, budgetVars, BookingsAreTyped, FiguresAre, LinesAreOfPeriod, Period,
     MakingIsSound, InProgressIsBacked
<1>2. ASSUME NEW m \in Bookings,
             \/ MakeBooking(m) \/ SetState(m, "draft", "posted")
             \/ SetState(m, "posted", "draft") \/ DeleteBooking(m) \/ Redistribute(m)
      PROVE  BudgetIInv'
  <2>1. "draft" \in {"draft", "posted"} /\ "posted" \in {"draft", "posted"}
    OBVIOUS
  <2> QED
    BY <1>2, <2>1, MakeKeeps, StateKeeps, DeleteKeeps, RedistributeKeeps
<1>3. CASE EditBudget \/ BeginGenerate \/ EndGenerate \/ \E d \in BudgetDays : EnterDay(d) \/ MoveDay(d)
  BY <1>3, EditBudgetKeeps, BeginKeeps, EndGenerateKeeps, EnterDayKeeps, MoveDayKeeps
<1>4. CASE Validate \/ Close \/ ResetBudget
  BY <1>4, ValidateBudgetKeeps, CloseKeeps, ResetKeeps
<1>5. CASE \E n \in 1 .. MaxNatives : CloseNative(n) \/ DeleteNative(n)
  BY <1>5, CloseNativeKeeps, DeleteNativeKeeps
<1> QED
  BY <1>1, <1>2, <1>3, <1>4, <1>5 DEF BudgetNext

\* The figure of a line is that of the posted bookings of its day and account but where no
\* handler was called, and a budget in progress is backed by an open native one, with a
\* line for each day of its period and amounts on each but for a form saved late
\* (budget_analytic_daily.py, account_move.py), for any bookings, days and amounts.
THEOREM BudgetsAreSound == BudgetSpec => []BudgetInv
  BY BudgetFirst, BudgetStep, BudgetIsKept, PTL DEF BudgetSpec

-----------------------------------------------------------------------------
(* The import of past till sales.                                          *)

PreviewLine == [row : Nat, ref : Refs \union Nat, day : Days, client : Clients \union {NoClient}]

PastOrder == [ref : Refs \union Nat, day : Days, client : Clients \union {NoClient}, lines : Seq(Nat)]

\* Lines of one reference are in the order of their rows.
Rising(told) ==
    \A a, b \in DOMAIN told : a < b /\ told[a].ref = told[b].ref => told[a].row < told[b].row

Increasing(s) == \A a, b \in DOMAIN s : a < b => s[a] < s[b]

\* The values of a sequence, and the rows of the first n lines that have reference r.
ValuesOf(s) == {s[k] : k \in DOMAIN s}

RowsUpTo(told, n, r) == {told[m].row : m \in {x \in DOMAIN told : x <= n /\ told[x].ref = r}}

RefsUpTo(told, n) == {told[m].ref : m \in {x \in DOMAIN told : x <= n}}

RefsIn(os) == {os[i].ref : i \in DOMAIN os}

\* An order has the rows of its reference, in order.
Filled(told, n, o) == ValuesOf(o.lines) = RowsUpTo(told, n, o.ref) /\ Increasing(o.lines)

\* The orders made of the first n lines: one for each reference, with its rows in order.
GroupedUpTo(told, n, os) ==
    /\ os \in Seq(PastOrder)
    /\ \A i, j \in DOMAIN os : os[i].ref = os[j].ref => i = j
    /\ RefsIn(os) = RefsUpTo(told, n)
    /\ \A i \in DOMAIN os : Filled(told, n, os[i])

\* An order that grows is one.
LEMMA GrownOrder ==
    ASSUME NEW o \in PastOrder, NEW l \in PreviewLine
    PROVE  /\ Grown(o, l) \in PastOrder
           /\ Grown(o, l).ref = o.ref /\ Grown(o, l).day = o.day
           /\ Grown(o, l).lines = Append(o.lines, l.row)
<1>1. PICK c \in Clients \union {NoClient} : c = IF o.client = NoClient THEN l.client ELSE o.client
  BY DEF PastOrder, PreviewLine
<1>2. Append(o.lines, l.row) \in Seq(Nat)
  BY DEF PastOrder, PreviewLine
<1>3. Grown(o, l) = [o EXCEPT !.lines = Append(o.lines, l.row), !.client = c]
  BY <1>1 DEF Grown
<1> QED
  BY <1>2, <1>3 DEF PastOrder

\* An order that starts is one.
LEMMA StartedOrder ==
    ASSUME NEW l \in PreviewLine
    PROVE  /\ Started(l) \in PastOrder
           /\ Started(l).ref = l.ref /\ Started(l).day = l.day
           /\ Started(l).lines = <<l.row>>
  BY DEF Started, PastOrder, PreviewLine

\* Joining is closed.
LEMMA JoinedOrders ==
    ASSUME NEW os \in Seq(PastOrder), NEW l \in PreviewLine
    PROVE  Join(os, l) \in Seq(PastOrder)
<1>1. CASE \A i \in DOMAIN os : os[i].ref # l.ref
  BY <1>1, StartedOrder DEF Join
<1>2. CASE ~ \A i \in DOMAIN os : os[i].ref # l.ref
  <2>1. Join(os, l) = [i \in DOMAIN os |-> IF os[i].ref = l.ref THEN Grown(os[i], l) ELSE os[i]]
    BY <1>2 DEF Join
  <2>2. \A i \in DOMAIN os : os[i] \in PastOrder /\ Grown(os[i], l) \in PastOrder
    BY GrownOrder
  <2> QED
    BY <2>1, <2>2
<1> QED
  BY <1>1, <1>2

\* One more line makes its order, or joins it.
LEMMA JoinStep ==
    ASSUME NEW told, NEW n \in Nat, NEW os,
           GroupedUpTo(told, n, os), Rising(told),
           DOMAIN told \subseteq Nat, n + 1 \in DOMAIN told,
           \A m \in DOMAIN told : told[m] \in PreviewLine
    PROVE  GroupedUpTo(told, n + 1, Join(os, told[n + 1]))
<1> DEFINE l == told[n + 1]
           upTo(k) == {x \in DOMAIN told : x <= k}
<1>1. l \in PreviewLine /\ l.row \in Nat
  BY DEF PreviewLine
<1>2. os \in Seq(PastOrder)
  BY DEF GroupedUpTo
<1>3. PICK js : js = Join(os, l)
  OBVIOUS
<1>4. js \in Seq(PastOrder)
  BY <1>1, <1>2, <1>3, JoinedOrders
<1>5. upTo(n + 1) = upTo(n) \union {n + 1}
  OBVIOUS
<1>6. RefsUpTo(told, n + 1) = RefsUpTo(told, n) \union {l.ref}
  BY <1>5 DEF RefsUpTo
<1>7. \A r : RowsUpTo(told, n + 1, r)
            = IF r = l.ref THEN RowsUpTo(told, n, r) \union {l.row} ELSE RowsUpTo(told, n, r)
  <2>1. ASSUME NEW r PROVE {x \in DOMAIN told : x <= n + 1 /\ told[x].ref = r}
              = {x \in DOMAIN told : x <= n /\ told[x].ref = r}
                \union (IF r = l.ref THEN {n + 1} ELSE {})
    OBVIOUS
  <2> QED
    BY <2>1 DEF RowsUpTo
<1>8. CASE \A i \in DOMAIN os : os[i].ref # l.ref
  <2>1. PICK s : s = Started(l)
    OBVIOUS
  <2>2. s \in PastOrder /\ s.ref = l.ref /\ s.lines = <<l.row>>
    BY <1>1, <2>1, StartedOrder
  <2>3. js = Append(os, s)
    BY <1>3, <1>8, <2>1 DEF Join
  <2>4. /\ DOMAIN js = DOMAIN os \union {Len(os) + 1} /\ Len(os) + 1 \notin DOMAIN os
        /\ js[Len(os) + 1] = s
        /\ \A i \in DOMAIN os : js[i] = os[i]
    BY <1>2, <2>2, <2>3
  <2>5. \A i, j \in DOMAIN js : js[i].ref = js[j].ref => i = j
    BY <1>8, <2>2, <2>4 DEF GroupedUpTo
  <2>6. RefsIn(js) = RefsIn(os) \union {l.ref}
    BY <2>2, <2>4 DEF RefsIn
  <2>7. RefsIn(js) = RefsUpTo(told, n + 1)
    BY <1>6, <2>6 DEF GroupedUpTo
  <2>8. RowsUpTo(told, n, l.ref) = {}
    <3>1. l.ref \notin RefsUpTo(told, n)
      BY <1>8 DEF GroupedUpTo, RefsIn
    <3> QED
      BY <3>1 DEF RefsUpTo, RowsUpTo
  <2>9. ASSUME NEW i \in DOMAIN js
        PROVE  Filled(told, n + 1, js[i])
    <3>1. CASE i \in DOMAIN os
      <4>1. js[i] = os[i] /\ os[i].ref # l.ref
        BY <1>8, <2>4, <3>1
      <4>2. RowsUpTo(told, n + 1, os[i].ref) = RowsUpTo(told, n, os[i].ref)
        BY <1>7, <4>1
      <4> QED
        BY <3>1, <4>1, <4>2 DEF GroupedUpTo, Filled
    <3>2. CASE i = Len(os) + 1
      <4>1. js[i].lines = <<l.row>> /\ js[i].ref = l.ref
        BY <2>2, <2>4, <3>2
      <4>2. RowsUpTo(told, n + 1, l.ref) = {l.row}
        BY <1>7, <2>8
      <4>3. ValuesOf(js[i].lines) = {l.row}
        BY <4>1 DEF ValuesOf
      <4>4. Increasing(js[i].lines)
        BY <4>1 DEF Increasing
      <4> QED
        BY <4>1, <4>2, <4>3, <4>4 DEF Filled
    <3> QED
      BY <2>4, <3>1, <3>2
  <2> QED
    BY <1>3, <1>4, <2>5, <2>7, <2>9 DEF GroupedUpTo
<1>9. CASE ~ \A i \in DOMAIN os : os[i].ref # l.ref
  <2>1. js = [i \in DOMAIN os |-> IF os[i].ref = l.ref THEN Grown(os[i], l) ELSE os[i]]
    BY <1>3, <1>9 DEF Join
  <2>2. DOMAIN js = DOMAIN os
    BY <2>1
  <2>3. ASSUME NEW i \in DOMAIN os
        PROVE  /\ os[i] \in PastOrder
               /\ js[i].ref = os[i].ref
               /\ js[i].lines = IF os[i].ref = l.ref THEN Append(os[i].lines, l.row) ELSE os[i].lines
    <3>1. os[i] \in PastOrder
      BY <1>2
    <3> QED
      BY <1>1, <2>1, <3>1, GrownOrder
  <2>4. \A i, j \in DOMAIN js : js[i].ref = js[j].ref => i = j
    BY <2>2, <2>3 DEF GroupedUpTo
  <2>5. RefsIn(js) = RefsIn(os)
    BY <2>2, <2>3 DEF RefsIn
  <2>6. l.ref \in RefsIn(os)
    BY <1>9 DEF RefsIn
  <2>7. RefsIn(js) = RefsUpTo(told, n + 1)
    BY <1>6, <2>5, <2>6 DEF GroupedUpTo
  <2>8. ASSUME NEW i \in DOMAIN js
        PROVE  Filled(told, n + 1, js[i])
    <3>1. PICK old : old = os[i].lines
      OBVIOUS
    <3>2. old \in Seq(Nat) /\ js[i].ref = os[i].ref
      BY <2>2, <2>3, <3>1 DEF PastOrder
    <3>3. ValuesOf(old) = RowsUpTo(told, n, os[i].ref) /\ Increasing(old)
      BY <2>2, <3>1 DEF GroupedUpTo, Filled
    <3>4. CASE os[i].ref # l.ref
      <4>1. js[i].lines = old
        BY <2>2, <2>3, <3>1, <3>4
      <4>2. RowsUpTo(told, n + 1, os[i].ref) = RowsUpTo(told, n, os[i].ref)
        BY <1>7, <3>4
      <4> QED
        BY <3>2, <3>3, <4>1, <4>2 DEF Filled
    <3>5. CASE os[i].ref = l.ref
      <4>1. js[i].lines = Append(old, l.row)
        BY <2>2, <2>3, <3>1, <3>5
      <4>2. RowsUpTo(told, n + 1, os[i].ref) = RowsUpTo(told, n, os[i].ref) \union {l.row}
        BY <1>7, <3>5
      <4>3. PICK new : new = Append(old, l.row)
        OBVIOUS
      <4>4. /\ DOMAIN new = DOMAIN old \union {Len(old) + 1}
            /\ DOMAIN old = 1 .. Len(old) /\ Len(old) \in Nat
            /\ new[Len(old) + 1] = l.row
            /\ \A k \in DOMAIN old : new[k] = old[k]
        BY <1>1, <3>2, <4>3
      <4>5. ValuesOf(new) = ValuesOf(old) \union {l.row}
        BY <4>4 DEF ValuesOf
      <4>6. \A k \in DOMAIN old : old[k] < l.row
        <5>1. TAKE k \in DOMAIN old
        <5>2. old[k] \in RowsUpTo(told, n, l.ref)
          BY <3>3, <3>5 DEF ValuesOf
        <5>3. PICK m \in DOMAIN told : m <= n /\ told[m].ref = l.ref /\ old[k] = told[m].row
          BY <5>2 DEF RowsUpTo
        <5>4. m < n + 1
          BY <5>3
        <5> QED
          BY <5>3, <5>4 DEF Rising
      <4>7. Increasing(new)
        BY <3>3, <4>4, <4>6 DEF Increasing
      <4> QED
        BY <3>2, <3>3, <3>5, <4>1, <4>2, <4>3, <4>5, <4>7 DEF Filled
    <3> QED
      BY <3>4, <3>5
  <2> QED
    BY <1>3, <1>4, <2>4, <2>7, <2>8 DEF GroupedUpTo
<1> QED
  BY <1>8, <1>9

\* The orders made of all lines.
LEMMA GroupedAll ==
    ASSUME NEW told, NEW N \in Nat, Rising(told), DOMAIN told \subseteq 1 .. N,
           \A m \in DOMAIN told : told[m] \in PreviewLine
    PROVE  GroupedUpTo(told, N, Grouped(told, N))
<1> DEFINE Turn(n, os) == IF n \in DOMAIN told THEN Join(os, told[n]) ELSE os
           Turns(g) == g = [n \in 0 .. N |-> IF n = 0 THEN <<>>
                                             ELSE IF n \in DOMAIN told THEN Join(g[n - 1], told[n])
                                             ELSE g[n - 1]]
<1>1. \A n \in 1 .. N, os \in Seq(PastOrder) : Turn(n, os) \in Seq(PastOrder)
  BY JoinedOrders
<1>2. PICK next : next = [p \in (1 .. N) \X Seq(PastOrder) |-> Turn(p[1], p[2])]
  OBVIOUS
<1>3. next \in [(1 .. N) \X Seq(PastOrder) -> Seq(PastOrder)]
  BY <1>1, <1>2
<1>4. PICK h \in [0 .. N -> Seq(PastOrder)] :
        h[0] = <<>> /\ \A n \in 1 .. N : h[n] = next[<<n, h[n - 1]>>]
  <2>1. PICK V : V = Seq(PastOrder)
    OBVIOUS
  <2>2. PICK none : none = <<>>
    OBVIOUS
  <2>3. none \in V /\ next \in [(1 .. N) \X V -> V]
    BY <1>3, <2>1, <2>2
  <2>4. \E g : TurnByTurn(g, N, V, none, next)
    BY <2>3, TurnsExist
  <2> QED
    BY <2>1, <2>2, <2>4 DEF TurnByTurn
<1>5. \A n \in 1 .. N : h[n] = Turn(n, h[n - 1])
  <2>1. TAKE n \in 1 .. N
  <2>2. n - 1 \in 0 .. N
    OBVIOUS
  <2>3. <<n, h[n - 1]>> \in (1 .. N) \X Seq(PastOrder)
    BY <1>4, <2>2
  <2> QED
    BY <1>2, <1>4, <2>3
<1>6. Turns(h)
  BY <1>4, <1>5
<1>7. Turns(CHOOSE g : Turns(g))
  BY <1>6
<1>8. PICK f : f = CHOOSE g : Turns(g)
  OBVIOUS
<1>9. Grouped(told, N) = f[N]
  BY <1>8 DEF Grouped
<1>10. Turns(f)
  BY <1>7, <1>8
<1>11. f[0] = <<>> /\ \A n \in 0 .. N - 1 : f[n + 1] = Turn(n + 1, f[n])
  BY <1>10
<1> DEFINE P == {n \in 0 .. N : GroupedUpTo(told, n, f[n])}
<1>12. 0 \in P
  <2>1. RefsUpTo(told, 0) = {}
    BY DEF RefsUpTo
  <2>2. GroupedUpTo(told, 0, <<>>)
    BY <2>1 DEF GroupedUpTo, RefsIn
  <2> QED
    BY <1>11, <2>2
<1>13. ASSUME NEW n \in 0 .. N - 1, n \in P PROVE n + 1 \in P
  <2>1. GroupedUpTo(told, n, f[n]) /\ n + 1 \in 0 .. N /\ n \in Nat
    BY <1>13
  <2>2. CASE n + 1 \in DOMAIN told
    <3>1. f[n + 1] = Join(f[n], told[n + 1])
      BY <1>11, <2>2
    <3>2. DOMAIN told \subseteq Nat
      OBVIOUS
    <3> QED
      BY <2>1, <2>2, <3>1, <3>2, JoinStep
  <2>3. CASE n + 1 \notin DOMAIN told
    <3>1. f[n + 1] = f[n]
      BY <1>11, <2>3
    <3>2. \A x \in DOMAIN told : x <= n + 1 <=> x <= n
      BY <2>3
    <3>3. \A r : {x \in DOMAIN told : x <= n + 1 /\ told[x].ref = r}
                   = {x \in DOMAIN told : x <= n /\ told[x].ref = r}
      BY <3>2
    <3>4. {x \in DOMAIN told : x <= n + 1} = {x \in DOMAIN told : x <= n}
      BY <3>2
    <3>5. /\ RefsUpTo(told, n + 1) = RefsUpTo(told, n)
          /\ \A r : RowsUpTo(told, n + 1, r) = RowsUpTo(told, n, r)
      BY <3>3, <3>4 DEF RefsUpTo, RowsUpTo
    <3> QED
      BY <2>1, <3>1, <3>5 DEF GroupedUpTo, Filled
  <2> QED
    BY <2>2, <2>3
<1> HIDE DEF P
<1>14. \A n \in 0 .. N : n \in P
  BY <1>12, <1>13, CountInduction
<1>15. N \in P
  BY <1>14
<1> QED
  BY <1>9, <1>15 DEF P

-----------------------------------------------------------------------------
\* What lines tell, and what an order tells: rows with their references.
Tells(told) == {<<told[n].row, told[n].ref>> : n \in DOMAIN told}

TellsOf(o) == {<<r, o.ref>> : r \in ValuesOf(o.lines)}

\* The lines of an order tell what it does.
LEMMA OrderIsTold ==
    ASSUME NEW o \in PastOrder, Increasing(o.lines)
    PROVE  /\ LinesOf(o) \in Seq(PreviewLine)
           /\ Rising(LinesOf(o))
           /\ Tells(LinesOf(o)) = TellsOf(o)
<1>1. PICK rows \in Seq(Nat) : rows = o.lines
  BY DEF PastOrder
<1>2. PICK c : c = [n \in DOMAIN rows |-> IF n = 1 THEN o.client ELSE NoClient]
  OBVIOUS
<1>3. \A n \in DOMAIN rows : c[n] \in Clients \union {NoClient}
  BY <1>2 DEF PastOrder
<1>4. PICK ls : ls = LinesOf(o)
  OBVIOUS
<1>5. ls = [n \in DOMAIN rows |-> [row |-> rows[n], ref |-> o.ref, day |-> o.day, client |-> c[n]]]
  BY <1>1, <1>2, <1>4 DEF LinesOf
<1>6. DOMAIN ls = DOMAIN rows /\ \A n \in DOMAIN rows : ls[n].row = rows[n] /\ ls[n].ref = o.ref
  BY <1>5
<1>7. \A n \in DOMAIN rows : ls[n] \in PreviewLine
  BY <1>1, <1>3, <1>5 DEF PreviewLine, PastOrder
<1>8. ls \in Seq(PreviewLine)
  <2>1. DOMAIN rows = 1 .. Len(rows) /\ Len(rows) \in Nat
    OBVIOUS
  <2>2. ls \in [1 .. Len(rows) -> PreviewLine]
    BY <1>5, <1>7, <2>1
  <2> QED
    BY <2>1, <2>2
<1>9. Rising(ls)
  BY <1>1, <1>6 DEF Rising, Increasing
<1>10. Tells(ls) = TellsOf(o)
  BY <1>1, <1>6 DEF Tells, TellsOf, ValuesOf
<1> QED
  BY <1>4, <1>8, <1>9, <1>10

\* Lines after lines of other references.
LEMMA OneAfterTheOther ==
    ASSUME NEW s \in Seq(PreviewLine), NEW t \in Seq(PreviewLine), Rising(s), Rising(t),
           \A p \in Tells(s), q \in Tells(t) : p[2] # q[2]
    PROVE  /\ s \o t \in Seq(PreviewLine)
           /\ Rising(s \o t)
           /\ Tells(s \o t) = Tells(s) \union Tells(t)
<1>1. PICK u : u = s \o t
  OBVIOUS
<1>2. /\ Len(s) \in Nat /\ Len(t) \in Nat
      /\ DOMAIN u = 1 .. Len(s) + Len(t) /\ DOMAIN s = 1 .. Len(s) /\ DOMAIN t = 1 .. Len(t)
      /\ \A n \in DOMAIN s : u[n] = s[n]
      /\ \A n \in DOMAIN t : u[Len(s) + n] = t[n]
  BY <1>1
<1>3. \A n \in DOMAIN u : n \in DOMAIN s \/ (n - Len(s) \in DOMAIN t /\ n = Len(s) + (n - Len(s)))
  BY <1>2
<1>4. \A n \in DOMAIN s, m \in DOMAIN t : s[n].ref # t[m].ref
  <2>1. TAKE n \in DOMAIN s, m \in DOMAIN t
  <2>2. <<s[n].row, s[n].ref>> \in Tells(s) /\ <<t[m].row, t[m].ref>> \in Tells(t)
    BY DEF Tells
  <2>3. <<s[n].row, s[n].ref>>[2] # <<t[m].row, t[m].ref>>[2]
    BY <2>2
  <2> QED
    BY <2>3
<1>5. Rising(u)
  <2>1. SUFFICES ASSUME NEW a \in DOMAIN u, NEW b \in DOMAIN u, a < b, u[a].ref = u[b].ref
                 PROVE  u[a].row < u[b].row
    BY DEF Rising
  <2>2. CASE a \in DOMAIN s /\ b \in DOMAIN s
    BY <1>2, <2>1, <2>2 DEF Rising
  <2>3. CASE a \in DOMAIN s /\ b \notin DOMAIN s
    BY <1>2, <1>3, <1>4, <2>1, <2>3
  <2>4. CASE a \notin DOMAIN s
    <3>1. b \notin DOMAIN s
      BY <1>2, <2>1, <2>4
    <3>2. PICK x \in DOMAIN t : a = Len(s) + x
      BY <1>3, <2>4
    <3>3. PICK y \in DOMAIN t : b = Len(s) + y
      BY <1>3, <3>1
    <3>4. u[a] = t[x] /\ u[b] = t[y] /\ x < y
      BY <1>2, <2>1, <3>2, <3>3
    <3> QED
      BY <2>1, <3>4 DEF Rising
  <2> QED
    BY <2>2, <2>3, <2>4
<1>6. Tells(u) = Tells(s) \union Tells(t)
  <2>1. ASSUME NEW p \in Tells(u) PROVE p \in Tells(s) \union Tells(t)
    <3>1. PICK n \in DOMAIN u : p = <<u[n].row, u[n].ref>>
      BY DEF Tells
    <3>2. CASE n \in DOMAIN s
      BY <1>2, <3>1, <3>2 DEF Tells
    <3>3. CASE n \notin DOMAIN s
      <4>1. PICK m \in DOMAIN t : n = Len(s) + m
        BY <1>3, <3>3
      <4>2. u[n] = t[m]
        BY <1>2, <4>1
      <4> QED
        BY <3>1, <4>2 DEF Tells
    <3> QED
      BY <3>2, <3>3
  <2>2. ASSUME NEW p \in Tells(s) PROVE p \in Tells(u)
    BY <1>2 DEF Tells
  <2>3. ASSUME NEW p \in Tells(t) PROVE p \in Tells(u)
    <3>1. PICK n \in DOMAIN t : p = <<t[n].row, t[n].ref>>
      BY DEF Tells
    <3>2. Len(s) + n \in DOMAIN u /\ u[Len(s) + n] = t[n]
      BY <1>2
    <3> QED
      BY <3>1, <3>2 DEF Tells
  <2> QED
    BY <2>1, <2>2, <2>3
<1> QED
  BY <1>1, <1>5, <1>6

\* Orders of the import: one for each reference, with rows in order.
Orders(os) ==
    /\ os \in Seq(PastOrder)
    /\ \A i, j \in DOMAIN os : os[i].ref = os[j].ref => i = j
    /\ \A i \in DOMAIN os : Increasing(os[i].lines)

\* Lines that tell the orders of a set, in order.
Telling(os, S, ls) ==
    /\ ls \in Seq(PreviewLine)
    /\ Rising(ls)
    /\ \A p : p \in Tells(ls) <=> \E i \in S : p \in TellsOf(os[i])

\* Lines that tell some orders, then lines that tell others.
LEMMA TellingBoth ==
    ASSUME NEW os, Orders(os), NEW S \in SUBSET DOMAIN os, NEW T \in SUBSET DOMAIN os,
           S \intersect T = {}, NEW s, NEW t, Telling(os, S, s), Telling(os, T, t)
    PROVE  Telling(os, S \union T, s \o t)
<1>1. ASSUME NEW p \in Tells(s), NEW q \in Tells(t) PROVE p[2] # q[2]
  <2>1. PICK i \in S : p \in TellsOf(os[i])
    BY DEF Telling
  <2>2. PICK j \in T : q \in TellsOf(os[j])
    BY DEF Telling
  <2>3. p[2] = os[i].ref /\ q[2] = os[j].ref
    BY <2>1, <2>2 DEF TellsOf
  <2>4. i # j /\ i \in DOMAIN os /\ j \in DOMAIN os
    OBVIOUS
  <2> QED
    BY <2>3, <2>4 DEF Orders
<1>2. /\ s \o t \in Seq(PreviewLine)
      /\ Rising(s \o t)
      /\ Tells(s \o t) = Tells(s) \union Tells(t)
  BY <1>1, OneAfterTheOther DEF Telling
<1> QED
  BY <1>2 DEF Telling

\* Orders of a day.
OnDay(os, d) == {i \in DOMAIN os : os[i].day = d}

\* The lines of a day tell its orders.
LEMMA DayIsTold ==
    ASSUME NEW os, Orders(os), NEW d
    PROVE  Telling(os, OnDay(os, d), OfDay(os, d))
<1> DEFINE N == Len(os)
           V == Seq(PreviewLine)
           Turn(n, ls) == IF os[n].day = d THEN ls \o LinesOf(os[n]) ELSE ls
           Turns(g) == g = [i \in 0 .. Len(os) |->
                              IF i = 0 THEN <<>>
                              ELSE IF os[i].day = d THEN g[i - 1] \o LinesOf(os[i]) ELSE g[i - 1]]
<1>1. os \in Seq(PastOrder) /\ N \in Nat /\ DOMAIN os = 1 .. N
  BY DEF Orders
<1>2. \A i \in 1 .. N : /\ LinesOf(os[i]) \in V
                        /\ Rising(LinesOf(os[i]))
                        /\ Tells(LinesOf(os[i])) = TellsOf(os[i])
  <2>1. TAKE i \in 1 .. N
  <2>2. os[i] \in PastOrder /\ Increasing(os[i].lines)
    BY <1>1 DEF Orders
  <2> QED
    BY <2>2, OrderIsTold
<1>3. \A n \in 1 .. N, ls \in V : Turn(n, ls) \in V
  BY <1>2
<1>4. PICK next : next = [p \in (1 .. N) \X V |-> Turn(p[1], p[2])]
  OBVIOUS
<1>5. next \in [(1 .. N) \X V -> V]
  BY <1>3, <1>4
<1>6. PICK h \in [0 .. N -> V] :
        h[0] = <<>> /\ \A n \in 1 .. N : h[n] = next[<<n, h[n - 1]>>]
  <2>1. PICK W : W = V
    OBVIOUS
  <2>2. PICK none : none = <<>>
    OBVIOUS
  <2>3. PICK M \in Nat : M = N
    BY <1>1
  <2>4. none \in W /\ next \in [(1 .. M) \X W -> W]
    BY <1>5, <2>1, <2>2, <2>3
  <2>5. \E g : TurnByTurn(g, M, W, none, next)
    BY <2>4, TurnsExist
  <2> QED
    BY <2>1, <2>2, <2>3, <2>5 DEF TurnByTurn
<1>7. \A n \in 1 .. N : h[n] = Turn(n, h[n - 1])
  <2>1. TAKE n \in 1 .. N
  <2>2. n - 1 \in 0 .. N
    BY <1>1
  <2>3. <<n, h[n - 1]>> \in (1 .. N) \X V
    BY <1>6, <2>2
  <2> QED
    BY <1>4, <1>6, <2>3
<1>8. Turns(h)
  <2>1. PICK e : e = [i \in 0 .. Len(os) |->
                       IF i = 0 THEN <<>>
                       ELSE IF os[i].day = d THEN h[i - 1] \o LinesOf(os[i]) ELSE h[i - 1]]
    OBVIOUS
  <2>2. ASSUME NEW i \in 0 .. Len(os) PROVE e[i] = h[i]
    <3>1. CASE i = 0
      BY <1>6, <2>1, <3>1
    <3>2. CASE i # 0
      <4>1. i \in 1 .. N
        BY <1>1, <3>2
      <4> QED
        BY <1>7, <2>1, <3>2, <4>1
    <3> QED
      BY <3>1, <3>2
  <2>3. h = e
    BY <1>6, <2>1, <2>2
  <2> QED
    BY <2>1, <2>3
<1>9. Turns(CHOOSE g : Turns(g))
  BY <1>8
<1>10. PICK f : f = CHOOSE g : Turns(g)
  OBVIOUS
<1>11. OfDay(os, d) = f[N]
  BY <1>10 DEF OfDay
<1>12. Turns(f)
  BY <1>9, <1>10
<1>13. f[0] = <<>> /\ \A n \in 0 .. N - 1 : f[n + 1] = Turn(n + 1, f[n])
  BY <1>1, <1>12
<1> DEFINE Upto(n) == {i \in DOMAIN os : os[i].day = d /\ i <= n}
           P == {n \in 0 .. N : Telling(os, Upto(n), f[n])}
<1>14. 0 \in P
  <2>1. Upto(0) = {}
    BY <1>1
  <2>2. Telling(os, {}, <<>>)
    BY DEF Telling, Rising, Tells
  <2>3. 0 \in 0 .. N
    BY <1>1
  <2> QED
    BY <1>13, <2>1, <2>2, <2>3
<1>15. ASSUME NEW n \in 0 .. N - 1, n \in P PROVE n + 1 \in P
  <2>1. Telling(os, Upto(n), f[n]) /\ n + 1 \in 1 .. N /\ n \in Nat /\ n + 1 \in 0 .. N
    BY <1>1, <1>15
  <2>2. CASE os[n + 1].day = d
    <3>1. f[n + 1] = f[n] \o LinesOf(os[n + 1])
      BY <1>13, <2>2
    <3>2. Telling(os, {n + 1}, LinesOf(os[n + 1]))
      BY <1>2, <2>1 DEF Telling
    <3>3. Upto(n + 1) = Upto(n) \union {n + 1} /\ Upto(n) \intersect {n + 1} = {}
      BY <1>1, <2>1, <2>2
    <3>4. Upto(n) \in SUBSET DOMAIN os /\ {n + 1} \in SUBSET DOMAIN os
      BY <1>1, <2>1
    <3> HIDE DEF Upto
    <3>5. Telling(os, Upto(n) \union {n + 1}, f[n] \o LinesOf(os[n + 1]))
      BY <2>1, <3>2, <3>3, <3>4, TellingBoth
    <3> QED
      BY <2>1, <3>1, <3>3, <3>5
  <2>3. CASE os[n + 1].day # d
    <3>1. f[n + 1] = f[n]
      BY <1>13, <2>3
    <3>2. Upto(n + 1) = Upto(n)
      BY <1>1, <2>1, <2>3
    <3> QED
      BY <2>1, <3>1, <3>2
  <2> QED
    BY <2>2, <2>3
<1> HIDE DEF P
<1>16. \A n \in 0 .. N : n \in P
  BY <1>1, <1>14, <1>15, CountInduction
<1>17. N \in P
  BY <1>1, <1>16
<1>18. Upto(N) = OnDay(os, d)
  BY <1>1 DEF OnDay
<1> QED
  BY <1>11, <1>17, <1>18 DEF P

\* Numbers of a sequence have a greatest one.
LEMMA GreatestOf ==
    ASSUME NEW N \in Nat, N # 0, NEW f, \A i \in 1 .. N : f[i] \in Nat
    PROVE  \E i \in 1 .. N : \A j \in 1 .. N : f[j] <= f[i]
<1> DEFINE P == {n \in 0 .. N : n # 0 => \E i \in 1 .. n : \A j \in 1 .. n : f[j] <= f[i]}
<1>1. 0 \in P
  OBVIOUS
<1>2. ASSUME NEW n \in 0 .. N - 1, n \in P PROVE n + 1 \in P
  <2>1. n + 1 \in 1 .. N /\ n + 1 \in 0 .. N /\ n \in Nat /\ f[n + 1] \in Nat
    OBVIOUS
  <2>2. CASE n = 0
    <3>1. \A j \in 1 .. n + 1 : f[j] <= f[1]
      BY <2>1, <2>2
    <3> QED
      BY <2>1, <2>2, <3>1
  <2>3. CASE n # 0
    <3>1. PICK i \in 1 .. n : \A j \in 1 .. n : f[j] <= f[i]
      BY <1>2, <2>3
    <3>2. i \in 1 .. N /\ f[i] \in Nat
      BY <2>1
    <3>3. CASE f[n + 1] <= f[i]
      <4>1. i \in 1 .. n + 1 /\ \A j \in 1 .. n + 1 : f[j] <= f[i]
        BY <2>1, <3>1, <3>3
      <4> QED
        BY <2>1, <4>1
    <3>4. CASE f[i] < f[n + 1]
      <4>1. ASSUME NEW j \in 1 .. n + 1 PROVE f[j] <= f[n + 1]
        <5>1. CASE j \in 1 .. n
          <6>1. f[j] <= f[i] /\ f[j] \in Nat
            BY <2>1, <3>1, <5>1
          <6> QED
            BY <2>1, <3>2, <3>4, <6>1
        <5>2. CASE j = n + 1
          BY <2>1, <5>2
        <5> QED
          BY <2>1, <5>1, <5>2
      <4>2. n + 1 \in 1 .. n + 1
        BY <2>1
      <4> QED
        BY <2>1, <4>1, <4>2
    <3> QED
      BY <2>1, <3>2, <3>3, <3>4
  <2> QED
    BY <2>2, <2>3
<1> HIDE DEF P
<1>3. \A n \in 0 .. N : n \in P
  BY <1>1, <1>2, CountInduction
<1>4. N \in P
  BY <1>3
<1> QED
  BY <1>4 DEF P

\* The preview tells all orders.
LEMMA PreviewTellsAll ==
    ASSUME HistoryAssumption, NEW os, Orders(os), os # <<>>
    PROVE  Telling(os, DOMAIN os, Flat(os))
<1> DEFINE dates == {os[i].day : i \in DOMAIN os}
           last == CHOOSE d \in dates : \A e \in dates : e <= d
           Turns(g) == g = [d \in 0 .. last |->
                              IF d = 0 THEN OfDay(os, 0) ELSE g[d - 1] \o OfDay(os, d)]
<1>1. os \in Seq(PastOrder) /\ Len(os) \in Nat /\ DOMAIN os = 1 .. Len(os)
  BY DEF Orders
<1>2. \A i \in 1 .. Len(os) : os[i].day \in Nat
  <2>1. TAKE i \in 1 .. Len(os)
  <2>2. os[i] \in PastOrder
    BY <1>1
  <2> QED
    BY <2>2 DEF HistoryAssumption, PastOrder
<1>3. PICK N : N = last
  OBVIOUS
<1>4. N \in dates /\ \A e \in dates : e <= N
  <2>1. PICK f : f = [i \in 1 .. Len(os) |-> os[i].day]
    OBVIOUS
  <2>2. Len(os) # 0 /\ \A i \in 1 .. Len(os) : f[i] \in Nat
    BY <1>1, <1>2, <2>1
  <2>3. PICK i \in 1 .. Len(os) : \A j \in 1 .. Len(os) : f[j] <= f[i]
    BY <1>1, <2>2, GreatestOf
  <2>4. os[i].day \in dates /\ \A e \in dates : e <= os[i].day
    BY <1>1, <2>1, <2>3
  <2> QED
    BY <1>3, <2>4
<1>5. N \in Nat
  BY <1>1, <1>2, <1>4
<1> DEFINE V == Seq(PreviewLine)
           Turn(d, ls) == ls \o OfDay(os, d)
<1>6. PICK first : first = OfDay(os, 0)
  OBVIOUS
<1>7. \A d : OfDay(os, d) \in V
  BY DayIsTold DEF Telling
<1>8. \A d \in 1 .. N, ls \in V : Turn(d, ls) \in V
  BY <1>7
<1>9. PICK next : next = [p \in (1 .. N) \X V |-> Turn(p[1], p[2])]
  OBVIOUS
<1>10. next \in [(1 .. N) \X V -> V] /\ first \in V
  BY <1>6, <1>7, <1>8, <1>9
<1>11. PICK h \in [0 .. N -> V] :
        h[0] = first /\ \A n \in 1 .. N : h[n] = next[<<n, h[n - 1]>>]
  <2>1. PICK W : W = V
    OBVIOUS
  <2>2. PICK M \in Nat : M = N
    BY <1>5
  <2>3. first \in W /\ next \in [(1 .. M) \X W -> W]
    BY <1>10, <2>1, <2>2
  <2>4. \E g : TurnByTurn(g, M, W, first, next)
    BY <2>3, TurnsExist
  <2> QED
    BY <2>1, <2>2, <2>4 DEF TurnByTurn
<1>12. \A n \in 1 .. N : h[n] = Turn(n, h[n - 1])
  <2>1. TAKE n \in 1 .. N
  <2>2. n - 1 \in 0 .. N
    BY <1>5
  <2>3. <<n, h[n - 1]>> \in (1 .. N) \X V
    BY <1>11, <2>2
  <2> QED
    BY <1>9, <1>11, <2>3
<1>13. Turns(h)
  <2>1. h = [d \in 0 .. N |-> IF d = 0 THEN OfDay(os, 0) ELSE h[d - 1] \o OfDay(os, d)]
    <3>1. PICK e : e = [d \in 0 .. N |-> IF d = 0 THEN OfDay(os, 0) ELSE h[d - 1] \o OfDay(os, d)]
      OBVIOUS
    <3>2. ASSUME NEW d \in 0 .. N PROVE e[d] = h[d]
      <4>1. CASE d = 0
        BY <1>6, <1>11, <3>1, <4>1
      <4>2. CASE d # 0
        <5>1. d \in 1 .. N
          BY <1>5, <4>2
        <5> QED
          BY <1>12, <3>1, <4>2, <5>1
      <4> QED
        BY <4>1, <4>2
    <3>3. h = e
      BY <1>11, <3>1, <3>2
    <3> QED
      BY <3>1, <3>3
  <2> QED
    BY <1>3, <2>1
<1>14. Turns(CHOOSE g : Turns(g))
  BY <1>13
<1>15. PICK f : f = CHOOSE g : Turns(g)
  OBVIOUS
<1>16. Flat(os) = f[N]
  BY <1>3, <1>15 DEF Flat
<1>17. Turns(f)
  BY <1>14, <1>15
<1>18. f = [d \in 0 .. N |-> IF d = 0 THEN OfDay(os, 0) ELSE f[d - 1] \o OfDay(os, d)]
  BY <1>3, <1>17
<1> HIDE DEF Turns, last
<1>19. f[0] = OfDay(os, 0) /\ \A n \in 0 .. N - 1 : f[n + 1] = f[n] \o OfDay(os, n + 1)
  <2>1. 0 \in 0 .. N
    BY <1>5
  <2>2. ASSUME NEW n \in 0 .. N - 1 PROVE f[n + 1] = f[n] \o OfDay(os, n + 1)
    <3>1. n + 1 \in 0 .. N /\ n + 1 # 0 /\ (n + 1) - 1 = n
      BY <1>5
    <3>2. f[n + 1] = f[(n + 1) - 1] \o OfDay(os, n + 1)
      BY <1>18, <3>1
    <3> QED
      BY <3>1, <3>2
  <2> QED
    BY <1>18, <2>1, <2>2
<1> DEFINE Upto(n) == {i \in DOMAIN os : os[i].day <= n}
           P == {n \in 0 .. N : Telling(os, Upto(n), f[n])}
<1>20. 0 \in P
  <2>1. Upto(0) = OnDay(os, 0)
    BY <1>1, <1>2 DEF OnDay
  <2>2. 0 \in 0 .. N
    BY <1>5
  <2>3. Telling(os, Upto(0), f[0])
    BY <1>19, <2>1, DayIsTold
  <2> QED
    BY <2>2, <2>3
<1>21. ASSUME NEW n \in 0 .. N - 1, n \in P PROVE n + 1 \in P
  <2>1. Telling(os, Upto(n), f[n]) /\ n + 1 \in 0 .. N /\ n \in Nat
    BY <1>5, <1>21
  <2>2. Telling(os, OnDay(os, n + 1), OfDay(os, n + 1))
    BY DayIsTold
  <2>3. /\ Upto(n + 1) = Upto(n) \union OnDay(os, n + 1)
        /\ Upto(n) \intersect OnDay(os, n + 1) = {}
    BY <1>1, <1>2, <2>1 DEF OnDay
  <2>4. Upto(n) \in SUBSET DOMAIN os /\ OnDay(os, n + 1) \in SUBSET DOMAIN os
    BY DEF OnDay
  <2> HIDE DEF Upto
  <2>5. Telling(os, Upto(n) \union OnDay(os, n + 1), f[n] \o OfDay(os, n + 1))
    BY <2>1, <2>2, <2>3, <2>4, TellingBoth
  <2> QED
    BY <1>19, <2>1, <2>3, <2>5
<1> HIDE DEF P
<1>22. \A n \in 0 .. N : n \in P
  BY <1>5, <1>20, <1>21, CountInduction
<1>23. N \in P
  BY <1>5, <1>22
<1>24. Upto(N) = DOMAIN os
  BY <1>4
<1> QED
  BY <1>16, <1>23, <1>24 DEF P

-----------------------------------------------------------------------------
\* An order that was made.
MadeOrder == [order : PastOrder, state : {"none", "draft", "done"}]

\* What is left of the first n orders.
LeftOf(orders, outcome, n, ls) ==
    /\ ls \in Seq(MadeOrder)
    /\ \A k \in DOMAIN ls : \E j \in DOMAIN orders :
          ls[k].order = orders[j] /\ ls[k].state = outcome[j] /\ outcome[j] # "none"
    /\ (\A j \in 1 .. n : outcome[j] = "done") =>
          Len(ls) = n /\ \A k \in 1 .. n : ls[k].order = orders[k] /\ ls[k].state = "done"

\* What is left of all orders.
LEMMA LeftOfAll ==
    ASSUME NEW orders \in Seq(PastOrder),
           NEW outcome \in [DOMAIN orders -> {"none", "draft", "done"}]
    PROVE  LeftOf(orders, outcome, Len(orders), Result(orders, outcome))
<1> DEFINE N == Len(orders)
           V == Seq(MadeOrder)
           New(i) == [order |-> orders[i], state |-> outcome[i]]
           Turn(i, ls) == IF outcome[i] = "none" THEN ls ELSE Append(ls, New(i))
           Turns(g) == g = [i \in 0 .. Len(orders) |->
                              IF i = 0 THEN <<>>
                              ELSE IF outcome[i] = "none" THEN g[i - 1]
                              ELSE Append(g[i - 1], [order |-> orders[i], state |-> outcome[i]])]
<1>1. N \in Nat /\ DOMAIN orders = 1 .. N
  OBVIOUS
<1>2. \A i \in 1 .. N : New(i) \in MadeOrder
  <2>1. TAKE i \in 1 .. N
  <2>2. orders[i] \in PastOrder /\ outcome[i] \in {"none", "draft", "done"}
    BY <1>1
  <2> QED
    BY <2>2 DEF MadeOrder
<1>3. \A i \in 1 .. N, ls \in V : Turn(i, ls) \in V
  <2> HIDE DEF New
  <2> QED
    BY <1>2
<1>4. PICK next : next = [p \in (1 .. N) \X V |-> Turn(p[1], p[2])]
  OBVIOUS
<1>5. next \in [(1 .. N) \X V -> V]
  <2> HIDE DEF Turn
  <2> QED
    BY <1>3, <1>4
<1>6. PICK h \in [0 .. N -> V] :
        h[0] = <<>> /\ \A n \in 1 .. N : h[n] = next[<<n, h[n - 1]>>]
  <2>1. PICK W : W = V
    OBVIOUS
  <2>2. PICK none : none = <<>>
    OBVIOUS
  <2>3. PICK M \in Nat : M = N
    BY <1>1
  <2>4. none \in W /\ next \in [(1 .. M) \X W -> W]
    BY <1>5, <2>1, <2>2, <2>3
  <2>5. \E g : TurnByTurn(g, M, W, none, next)
    BY <2>4, TurnsExist
  <2> QED
    BY <2>1, <2>2, <2>3, <2>5 DEF TurnByTurn
<1>7. \A n \in 1 .. N : h[n] = Turn(n, h[n - 1])
  <2> HIDE DEF Turn
  <2>1. TAKE n \in 1 .. N
  <2>2. n - 1 \in 0 .. N
    BY <1>1
  <2>3. <<n, h[n - 1]>> \in (1 .. N) \X V
    BY <1>6, <2>2
  <2> QED
    BY <1>4, <1>6, <2>3
<1>8. Turns(h)
  <2>1. PICK e : e = [i \in 0 .. Len(orders) |->
                       IF i = 0 THEN <<>>
                       ELSE IF outcome[i] = "none" THEN h[i - 1]
                       ELSE Append(h[i - 1], [order |-> orders[i], state |-> outcome[i]])]
    OBVIOUS
  <2>2. ASSUME NEW i \in 0 .. Len(orders) PROVE e[i] = h[i]
    <3>1. CASE i = 0
      BY <1>6, <2>1, <3>1
    <3>2. CASE i # 0
      <4>1. i \in 1 .. N
        BY <1>1, <3>2
      <4> QED
        BY <1>7, <2>1, <3>2, <4>1
    <3> QED
      BY <3>1, <3>2
  <2>3. h = e
    BY <1>6, <2>1, <2>2
  <2> QED
    BY <2>1, <2>3
<1>9. Turns(CHOOSE g : Turns(g))
  BY <1>8
<1>10. PICK f : f = CHOOSE g : Turns(g)
  OBVIOUS
<1>11. Result(orders, outcome) = f[N]
  BY <1>10 DEF Result
<1>12. Turns(f)
  BY <1>9, <1>10
<1>13. f[0] = <<>> /\ \A n \in 0 .. N - 1 : f[n + 1] = Turn(n + 1, f[n])
  <2>1. 0 \in 0 .. Len(orders)
    OBVIOUS
  <2>2. ASSUME NEW n \in 0 .. N - 1 PROVE f[n + 1] = Turn(n + 1, f[n])
    <3>1. n + 1 \in 0 .. Len(orders) /\ n + 1 # 0 /\ (n + 1) - 1 = n
      BY <1>1
    <3>2. f[n + 1] = Turn(n + 1, f[(n + 1) - 1])
      BY <1>12, <3>1
    <3> QED
      BY <3>1, <3>2
  <2> QED
    BY <1>12, <2>1, <2>2
<1> DEFINE P == {n \in 0 .. N : LeftOf(orders, outcome, n, f[n])}
<1>14. 0 \in P
  <2>1. LeftOf(orders, outcome, 0, <<>>)
    BY DEF LeftOf
  <2>2. 0 \in 0 .. N
    BY <1>1
  <2> QED
    BY <1>13, <2>1, <2>2
<1>15. ASSUME NEW n \in 0 .. N - 1, n \in P PROVE n + 1 \in P
  <2>1. PICK s : s = f[n]
    OBVIOUS
  <2>2. LeftOf(orders, outcome, n, s) /\ n + 1 \in 1 .. N /\ n \in Nat /\ n + 1 \in 0 .. N
    BY <1>1, <1>15, <2>1
  <2>3. CASE outcome[n + 1] = "none"
    <3>1. f[n + 1] = s
      BY <1>13, <2>1, <2>3
    <3>2. ~ \A j \in 1 .. n + 1 : outcome[j] = "done"
      BY <2>2, <2>3
    <3>3. LeftOf(orders, outcome, n + 1, s)
      BY <2>2, <3>2 DEF LeftOf
    <3> QED
      BY <2>2, <3>1, <3>3
  <2>4. CASE outcome[n + 1] # "none"
    <3>1. PICK o : o = New(n + 1)
      OBVIOUS
    <3>2. o \in MadeOrder /\ o.order = orders[n + 1] /\ o.state = outcome[n + 1]
      BY <1>2, <2>2, <3>1
    <3>3. PICK t : t = Append(s, o)
      OBVIOUS
    <3>4. f[n + 1] = t
      BY <1>13, <2>1, <2>4, <3>1, <3>3
    <3>5. s \in Seq(MadeOrder)
      BY <2>2 DEF LeftOf
    <3>6. /\ t \in Seq(MadeOrder) /\ Len(t) = Len(s) + 1 /\ Len(s) \in Nat
          /\ DOMAIN t = 1 .. Len(s) + 1 /\ DOMAIN s = 1 .. Len(s)
          /\ t[Len(s) + 1] = o
          /\ \A k \in DOMAIN s : t[k] = s[k]
      BY <3>2, <3>3, <3>5
    <3>7. ASSUME NEW k \in DOMAIN t
          PROVE  \E j \in DOMAIN orders :
                    t[k].order = orders[j] /\ t[k].state = outcome[j] /\ outcome[j] # "none"
      <4>1. CASE k \in DOMAIN s
        <5>1. PICK j \in DOMAIN orders :
                 s[k].order = orders[j] /\ s[k].state = outcome[j] /\ outcome[j] # "none"
          BY <2>2, <4>1 DEF LeftOf
        <5>2. t[k] = s[k]
          BY <3>6, <4>1
        <5> QED
          BY <5>1, <5>2
      <4>2. CASE k = Len(s) + 1
        BY <1>1, <2>2, <2>4, <3>2, <3>6, <4>2
      <4> QED
        BY <3>6, <4>1, <4>2
    <3>8. ASSUME \A j \in 1 .. n + 1 : outcome[j] = "done"
          PROVE  Len(t) = n + 1 /\ \A k \in 1 .. n + 1 : t[k].order = orders[k] /\ t[k].state = "done"
      <4>1. Len(s) = n /\ \A k \in 1 .. n : s[k].order = orders[k] /\ s[k].state = "done"
        BY <2>2, <3>8 DEF LeftOf
      <4>2. o.order = orders[n + 1] /\ o.state = "done"
        BY <2>2, <3>2, <3>8
      <4>3. \A k \in 1 .. n + 1 : k \in 1 .. n \/ k = n + 1
        BY <2>2
      <4> QED
        BY <3>6, <4>1, <4>2, <4>3
    <3>9. LeftOf(orders, outcome, n + 1, t)
      BY <3>6, <3>7, <3>8 DEF LeftOf
    <3> QED
      BY <2>2, <3>4, <3>9
  <2> QED
    BY <2>3, <2>4
<1> HIDE DEF P
<1>16. \A n \in 0 .. N : n \in P
  BY <1>1, <1>14, <1>15, CountInduction
<1>17. N \in P
  BY <1>1, <1>16
<1> QED
  BY <1>11, <1>17 DEF P

-----------------------------------------------------------------------------
\* A line for each row that is kept, and no other.
Previews(rows, p) ==
    /\ p \in Seq(PreviewLine)
    /\ Rising(p)
    /\ \A x : x \in Tells(p) <=> \E n \in Kept(rows) : x = <<n, RefOf(rows, n)>>

\* The preview has a line for each row that the parser keeps.
LEMMA PreviewIsWhole ==
    ASSUME HistoryAssumption, NEW rows \in Histories, Kept(rows) # {}
    PROVE  Previews(rows, Flat(Parsed(rows)))
<1> DEFINE N == Len(rows)
<1>1. rows \in Seq(HistoryRow) /\ N \in Nat /\ DOMAIN rows = 1 .. N
  BY DEF HistoryAssumption
<1>2. Kept(rows) \subseteq 1 .. N
  BY <1>1 DEF Kept
<1>3. \A n \in Kept(rows) : /\ LineOf(rows, n) \in PreviewLine
                            /\ LineOf(rows, n).row = n /\ LineOf(rows, n).ref = RefOf(rows, n)
  <2>1. TAKE n \in Kept(rows)
  <2>2. n \in Nat /\ rows[n] \in HistoryRow
    BY <1>1, <1>2
  <2>3. PICK r : r = RefOf(rows, n)
    OBVIOUS
  <2>4. r \in Refs \union Nat
    BY <2>2, <2>3 DEF RefOf, HistoryRow
  <2>5. PICK d \in Days : d = rows[n].day
    BY <2>2 DEF HistoryRow
  <2>6. PICK c \in Clients \union {NoClient} : c = rows[n].client
    BY <2>2 DEF HistoryRow
  <2>7. LineOf(rows, n) = [row |-> n, ref |-> r, day |-> d, client |-> c]
    BY <2>3, <2>5, <2>6 DEF LineOf
  <2> QED
    BY <2>2, <2>3, <2>4, <2>7 DEF PreviewLine
<1>4. PICK told : told = [n \in Kept(rows) |-> LineOf(rows, n)]
  OBVIOUS
<1>5. /\ DOMAIN told = Kept(rows)
      /\ \A n \in Kept(rows) : told[n].row = n /\ told[n].ref = RefOf(rows, n)
      /\ \A n \in DOMAIN told : told[n] \in PreviewLine
  BY <1>3, <1>4
<1>6. Rising(told)
  BY <1>2, <1>5 DEF Rising
<1>7. PICK os : os = Parsed(rows)
  OBVIOUS
<1>8. os = Grouped(told, N)
  BY <1>4, <1>7 DEF Parsed
<1>9. DOMAIN told \subseteq 1 .. N
  BY <1>2, <1>5
<1>10. GroupedUpTo(told, N, os)
  <2>1. PICK M \in Nat : M = N
    BY <1>1
  <2>2. GroupedUpTo(told, M, Grouped(told, M))
    BY <1>5, <1>6, <1>9, <2>1, GroupedAll
  <2> QED
    BY <1>8, <2>1, <2>2
<1>11. Orders(os)
  BY <1>10 DEF GroupedUpTo, Orders, Filled
<1>12. \A n \in Kept(rows) : n <= N
  BY <1>1, <1>2
<1>13. os # <<>>
  <2>1. PICK n \in Kept(rows) : TRUE
    OBVIOUS
  <2>2. RefOf(rows, n) \in RefsUpTo(told, N)
    BY <1>5, <1>12 DEF RefsUpTo
  <2>3. RefOf(rows, n) \in RefsIn(os)
    BY <1>10, <2>2 DEF GroupedUpTo
  <2> QED
    BY <2>3 DEF RefsIn
<1>14. Telling(os, DOMAIN os, Flat(os))
  BY <1>11, <1>13, PreviewTellsAll
<1>15. PICK p : p = Flat(os)
  OBVIOUS
<1>16. ASSUME NEW x \in Tells(p) PROVE \E n \in Kept(rows) : x = <<n, RefOf(rows, n)>>
  <2>1. PICK i \in DOMAIN os : x \in TellsOf(os[i])
    BY <1>14, <1>15 DEF Telling
  <2>2. PICK r \in ValuesOf(os[i].lines) : x = <<r, os[i].ref>>
    BY <2>1 DEF TellsOf
  <2>3. r \in RowsUpTo(told, N, os[i].ref)
    BY <1>10, <2>2 DEF GroupedUpTo, Filled
  <2>4. PICK n \in DOMAIN told : told[n].ref = os[i].ref /\ r = told[n].row
    BY <2>3 DEF RowsUpTo
  <2> QED
    BY <1>5, <2>2, <2>4
<1>17. ASSUME NEW n \in Kept(rows) PROVE <<n, RefOf(rows, n)>> \in Tells(p)
  <2>1. RefOf(rows, n) \in RefsUpTo(told, N)
    BY <1>5, <1>12 DEF RefsUpTo
  <2>2. RefOf(rows, n) \in RefsIn(os)
    BY <1>10, <2>1 DEF GroupedUpTo
  <2>3. PICK i \in DOMAIN os : os[i].ref = RefOf(rows, n)
    BY <2>2 DEF RefsIn
  <2>4. n \in RowsUpTo(told, N, os[i].ref)
    BY <1>5, <1>12, <2>3 DEF RowsUpTo
  <2>5. n \in ValuesOf(os[i].lines)
    BY <1>10, <2>4 DEF GroupedUpTo, Filled
  <2>6. <<n, RefOf(rows, n)>> \in TellsOf(os[i])
    BY <2>3, <2>5 DEF TellsOf
  <2> QED
    BY <1>14, <1>15, <2>6 DEF Telling
<1> QED
  BY <1>7, <1>14, <1>15, <1>16, <1>17 DEF Previews, Telling

\* The orders made of a preview without missing article are those of the sheet.
LEMMA RebuiltIsWhole ==
    ASSUME NEW rows, NEW p, Previews(rows, p), Kept(rows) \subseteq DOMAIN rows,
           \A n \in DOMAIN p : rows[p[n].row].reads # "missing"
    PROVE  /\ Rebuilt(p) \in Seq(PastOrder)
           /\ RefsIn(Rebuilt(p)) = RefsOf(rows)
           /\ Cardinality(RefsOf(rows)) = Len(Rebuilt(p))
           /\ \A i \in DOMAIN Rebuilt(p) :
                 /\ ValuesOf(Rebuilt(p)[i].lines) = RowsOf(rows, Rebuilt(p)[i].ref)
                 /\ Increasing(Rebuilt(p)[i].lines)
<1> DEFINE N == Len(p)
<1>1. p \in Seq(PreviewLine) /\ N \in Nat /\ DOMAIN p = 1 .. N /\ Rising(p)
  BY DEF Previews
<1>2. PICK os : os = Rebuilt(p)
  OBVIOUS
<1>3. GroupedUpTo(p, N, os)
  <2>1. PICK M \in Nat : M = N
    BY <1>1
  <2>2. \A m \in DOMAIN p : p[m] \in PreviewLine
    BY <1>1
  <2>3. GroupedUpTo(p, M, Grouped(p, M))
    BY <1>1, <2>1, <2>2, GroupedAll
  <2> QED
    BY <1>2, <2>1, <2>3 DEF Rebuilt
<1>4. \A m \in DOMAIN p : m <= N
  BY <1>1
<1>5. \A m \in DOMAIN p : /\ p[m].row \in Kept(rows) /\ p[m].ref = RefOf(rows, p[m].row)
                          /\ rows[p[m].row].reads = "good"
  <2>1. TAKE m \in DOMAIN p
  <2>2. <<p[m].row, p[m].ref>> \in Tells(p)
    BY DEF Tells
  <2>3. PICK n \in Kept(rows) : <<p[m].row, p[m].ref>> = <<n, RefOf(rows, n)>>
    BY <2>2 DEF Previews
  <2>4. p[m].row = n /\ p[m].ref = RefOf(rows, n)
    BY <2>3
  <2> QED
    BY <2>4 DEF Kept
<1>6. ASSUME NEW n \in DOMAIN rows, rows[n].reads = "good"
      PROVE  \E m \in DOMAIN p : p[m].row = n /\ p[m].ref = RefOf(rows, n)
  <2>1. n \in Kept(rows)
    BY <1>6 DEF Kept
  <2>2. <<n, RefOf(rows, n)>> \in Tells(p)
    BY <2>1 DEF Previews
  <2>3. PICK m \in DOMAIN p : <<n, RefOf(rows, n)>> = <<p[m].row, p[m].ref>>
    BY <2>2 DEF Tells
  <2> QED
    BY <2>3
<1>7. RefsUpTo(p, N) = RefsOf(rows)
  <2>1. ASSUME NEW r \in RefsUpTo(p, N) PROVE r \in RefsOf(rows)
    <3>1. PICK m \in DOMAIN p : r = p[m].ref
      BY DEF RefsUpTo
    <3> QED
      BY <1>5, <3>1 DEF RefsOf
  <2>2. ASSUME NEW r \in RefsOf(rows) PROVE r \in RefsUpTo(p, N)
    <3>1. PICK n \in DOMAIN rows : rows[n].reads = "good" /\ r = RefOf(rows, n)
      BY DEF RefsOf
    <3> QED
      BY <1>4, <1>6, <3>1 DEF RefsUpTo
  <2> QED
    BY <2>1, <2>2
<1>8. \A r : RowsUpTo(p, N, r) = RowsOf(rows, r)
  <2>1. TAKE r
  <2>2. ASSUME NEW n \in RowsUpTo(p, N, r) PROVE n \in RowsOf(rows, r)
    <3>1. PICK m \in DOMAIN p : p[m].ref = r /\ n = p[m].row
      BY DEF RowsUpTo
    <3> QED
      BY <1>5, <3>1 DEF RowsOf
  <2>3. ASSUME NEW n \in RowsOf(rows, r) PROVE n \in RowsUpTo(p, N, r)
    <3>1. n \in DOMAIN rows /\ rows[n].reads = "good" /\ RefOf(rows, n) = r
      BY DEF RowsOf
    <3> QED
      BY <1>4, <1>6, <3>1 DEF RowsUpTo
  <2> QED
    BY <2>2, <2>3
<1>9. os \in Seq(PastOrder) /\ RefsIn(os) = RefsOf(rows)
  BY <1>3, <1>7 DEF GroupedUpTo
<1>10. Cardinality(RefsOf(rows)) = Len(os)
  <2>1. PICK n \in Nat : n = Len(os)
    BY <1>9
  <2>2. DOMAIN os = 1 .. n
    BY <1>9, <2>1
  <2>3. IsFiniteSet(1 .. n) /\ Cardinality(1 .. n) = n
    BY FS_Interval
  <2>4. PICK f : f = [i \in 1 .. n |-> os[i].ref]
    OBVIOUS
  <2>5. \A i, j \in 1 .. n : f[i] = f[j] => i = j
    BY <1>3, <2>2, <2>4 DEF GroupedUpTo
  <2>6. f \in [1 .. n -> RefsIn(os)] /\ \A r \in RefsIn(os) : \E i \in 1 .. n : f[i] = r
    BY <2>2, <2>4 DEF RefsIn
  <2>7. f \in Bijection(1 .. n, RefsIn(os))
    BY <2>4, <2>5, <2>6 DEF Bijection, Injection, Surjection, IsInjective
  <2>8. ExistsBijection(1 .. n, RefsIn(os))
    BY <2>7 DEF ExistsBijection
  <2> QED
    BY <1>9, <2>1, <2>3, <2>8, FS_Bijection
<1> QED
  BY <1>2, <1>3, <1>8, <1>9, <1>10 DEF GroupedUpTo, Filled

-----------------------------------------------------------------------------
\* The states of the wizard.
Screens == [pc : {"draft", "preview", "done", "error"}, sheet : Seq(HistoryRow),
            preview : Seq(PreviewLine)]

\* The wizard shows the preview of its sheet, and the orders made are orders.
HistoryIInv ==
    /\ HistoryInv
    /\ made \in Seq(MadeOrder)
    /\ screen \in Screens
    /\ screen.pc = "preview" => /\ screen.sheet \in Histories
                                /\ Kept(screen.sheet) # {}
                                /\ Previews(screen.sheet, screen.preview)

\* HistoryInv of an import that ended well.
EndsWhole(sheet, orders) ==
    LET refs == RefsOf(sheet)
        last == LastOf(orders, Cardinality(refs))
    IN  /\ Cardinality(refs) <= Len(orders)
        /\ {last[i].order.ref : i \in DOMAIN last} = refs
        /\ \A i \in DOMAIN last :
              LET told == last[i].order.lines IN
              /\ last[i].state = "done"
              /\ {told[n] : n \in DOMAIN told} = RowsOf(sheet, last[i].order.ref)
              /\ \A m, n \in DOMAIN told : m < n => told[m] < told[n]

\* The orders made last are those of the sheet.
Whole(sheet, orders) ==
    LET refs == RefsOf(sheet) IN
    /\ Cardinality(refs) = Len(orders)
    /\ \A i \in DOMAIN orders : orders[i] \in MadeOrder
    /\ {orders[i].order.ref : i \in DOMAIN orders} = refs
    /\ \A i \in DOMAIN orders :
          /\ orders[i].state = "done"
          /\ ValuesOf(orders[i].order.lines) = RowsOf(sheet, orders[i].order.ref)
          /\ Increasing(orders[i].order.lines)

\* No import has begun.
LEMMA HistoryFirst == ASSUME HistoryAssumption, HistoryInit PROVE HistoryIInv
<1>1. PICK d, none : d = "draft" /\ none = <<>>
  OBVIOUS
<1>2. screen = [pc |-> d, sheet |-> none, preview |-> none] /\ made = <<>> /\ sessions = {}
  BY <1>1 DEF HistoryInit
<1>3. screen.pc = "draft" /\ screen.sheet = <<>>
  BY <1>1, <1>2
<1>4. screen \in Screens
  BY <1>1, <1>2 DEF Screens
<1>5. HistoryInv
  BY <1>2, <1>3 DEF HistoryInv
<1> QED
  BY <1>2, <1>3, <1>4, <1>5 DEF HistoryIInv

\* An order is left without payment only with an error.
Reports ==
    \A i \in DOMAIN made' \ DOMAIN made : made'[i].state = "draft" => screen'.pc = "error"

\* The preview of a sheet.
LEMMA PreviewStep ==
    ASSUME HistoryAssumption, HistoryIInv, NEW rows \in Histories, Preview(rows)
    PROVE  HistoryIInv' /\ Reports
<1>1. PICK v : v = "preview"
  OBVIOUS
<1>2. PICK p : p = Flat(Parsed(rows))
  OBVIOUS
<1>3. screen' = [pc |-> v, sheet |-> rows, preview |-> p] /\ Kept(rows) # {} /\ UNCHANGED <<made, sessions>>
  BY <1>1, <1>2 DEF Preview
<1>4. Previews(rows, p)
  BY <1>2, <1>3, PreviewIsWhole
<1>5. screen'.pc = "preview" /\ screen'.sheet = rows /\ screen'.preview = p
  BY <1>1, <1>3
<1>6. rows \in Seq(HistoryRow) /\ p \in Seq(PreviewLine)
  BY <1>4 DEF HistoryAssumption, Previews
<1>7. screen' \in Screens
  BY <1>1, <1>3, <1>6 DEF Screens
<1>8. HistoryInv'
  BY <1>3, <1>5 DEF HistoryIInv, HistoryInv
<1>9. Reports
  BY <1>3 DEF Reports
<1> QED
  BY <1>3, <1>4, <1>5, <1>7, <1>8, <1>9 DEF HistoryIInv

\* The way back forgets the sheet, never the orders.
LEMMA BackStep ==
    ASSUME HistoryIInv, Back
    PROVE  HistoryIInv' /\ Reports
<1>1. PICK d, none : d = "draft" /\ none = <<>>
  OBVIOUS
<1>2. screen' = [pc |-> d, sheet |-> none, preview |-> none] /\ UNCHANGED <<made, sessions>>
  BY <1>1 DEF Back
<1>3. screen'.pc = "draft" /\ screen'.sheet = <<>>
  BY <1>1, <1>2
<1>4. screen' \in Screens
  BY <1>1, <1>2 DEF Screens
<1>5. HistoryInv'
  BY <1>2, <1>3 DEF HistoryIInv, HistoryInv
<1>6. Reports
  BY <1>2 DEF Reports
<1> QED
  BY <1>2, <1>3, <1>4, <1>5, <1>6 DEF HistoryIInv

\* An import makes each order of the preview, or says that it met errors.
LEMMA ImportStep ==
    ASSUME HistoryAssumption, HistoryIInv, ImportHistory
    PROVE  HistoryIInv' /\ Reports
<1>1. PICK rows : rows = screen.sheet
  OBVIOUS
<1>2. PICK p : p = screen.preview
  OBVIOUS
<1>3. /\ rows \in Histories /\ Kept(rows) # {} /\ Previews(rows, p)
      /\ \A n \in DOMAIN p : rows[p[n].row].reads # "missing"
  BY <1>1, <1>2 DEF HistoryIInv, ImportHistory
<1>4. Kept(rows) \subseteq DOMAIN rows
  BY DEF Kept
<1>5. PICK os : os = Rebuilt(p)
  OBVIOUS
<1>6. /\ os \in Seq(PastOrder)
      /\ RefsIn(os) = RefsOf(rows)
      /\ Cardinality(RefsOf(rows)) = Len(os)
      /\ \A i \in DOMAIN os : /\ ValuesOf(os[i].lines) = RowsOf(rows, os[i].ref)
                              /\ Increasing(os[i].lines)
  BY <1>3, <1>4, <1>5, RebuiltIsWhole
<1> DEFINE Ends(o, opened, outcome) ==
          /\ \A i \in DOMAIN o : o[i].day \notin opened => outcome[i] = "none"
          /\ made' = made \o Result(o, outcome)
          /\ screen' = [screen EXCEPT !.pc = Verdict(outcome)]
          /\ sessions' = sessions \union opened
           Made(o) == \E opened \in SUBSET {o[i].day : i \in DOMAIN o} :
                      \E outcome \in [DOMAIN o -> {"none", "draft", "done"}] : Ends(o, opened, outcome)
<1>7. PICK opened \in SUBSET {os[i].day : i \in DOMAIN os},
           outcome \in [DOMAIN os -> {"none", "draft", "done"}] : Ends(os, opened, outcome)
  <2>1. Made(Rebuilt(screen.preview))
    BY DEF ImportHistory
  <2>2. os = Rebuilt(screen.preview)
    BY <1>2, <1>5
  <2> HIDE DEF Ends
  <2>3. Made(os)
    BY <2>1, <2>2
  <2> QED
    BY <2>3
<1>8. PICK res : res = Result(os, outcome)
  OBVIOUS
<1>9. LeftOf(os, outcome, Len(os), res)
  BY <1>6, <1>8, LeftOfAll
<1>10. PICK v : v = Verdict(outcome)
  OBVIOUS
<1>11. /\ v \in {"done", "error"}
       /\ v = "done" => \A i \in DOMAIN os : outcome[i] = "done"
       /\ v # "error" => \A i \in DOMAIN os : outcome[i] = "done"
  BY <1>10 DEF Verdict
<1>12. /\ screen'.pc = v /\ screen'.sheet = rows /\ screen'.preview = p
       /\ screen' \in Screens
  BY <1>1, <1>2, <1>7, <1>10, <1>11 DEF HistoryIInv, Screens
<1>13. PICK old \in Seq(MadeOrder) : old = made
  BY DEF HistoryIInv
<1>14. PICK new : new = made'
  OBVIOUS
<1>15. /\ res \in Seq(MadeOrder) /\ new \in Seq(MadeOrder)
       /\ Len(old) \in Nat /\ Len(res) \in Nat /\ Len(new) = Len(old) + Len(res)
       /\ DOMAIN old = 1 .. Len(old) /\ DOMAIN res = 1 .. Len(res) /\ DOMAIN new = 1 .. Len(old) + Len(res)
       /\ \A k \in DOMAIN old : new[k] = old[k]
       /\ \A k \in DOMAIN res : new[Len(old) + k] = res[k]
  <2>1. res \in Seq(MadeOrder) /\ new = old \o res
    BY <1>7, <1>8, <1>9, <1>13, <1>14 DEF LeftOf
  <2> QED
    BY <1>13, <2>1
<1>16. \A k \in DOMAIN new : k \in DOMAIN old \/ (k - Len(old) \in DOMAIN res /\ k = Len(old) + (k - Len(old)))
  BY <1>15
<1>17. \A k \in DOMAIN res : \E j \in DOMAIN os :
          res[k].order = os[j] /\ res[k].state = outcome[j] /\ outcome[j] # "none"
  BY <1>9 DEF LeftOf
<1>18. Reports
  <2>1. SUFFICES ASSUME NEW k \in DOMAIN new \ DOMAIN old, new[k].state = "draft" PROVE v = "error"
    BY <1>12, <1>13, <1>14 DEF Reports
  <2>2. PICK x \in DOMAIN res : k = Len(old) + x
    BY <1>16, <2>1
  <2>3. PICK j \in DOMAIN os : res[x].state = outcome[j]
    BY <1>17
  <2>4. outcome[j] = "draft"
    BY <1>15, <2>1, <2>2, <2>3
  <2> QED
    BY <1>11, <2>4
<1>19. sessions' \subseteq Days
  <2>1. \A i \in DOMAIN os : os[i].day \in Days
    <3>1. TAKE i \in DOMAIN os
    <3>2. os[i] \in PastOrder
      BY <1>6
    <3> QED
      BY <3>2 DEF PastOrder
  <2>2. opened \subseteq Days
    BY <2>1
  <2>3. sessions \subseteq Days /\ sessions' = sessions \union opened
    BY <1>7 DEF HistoryIInv, HistoryInv
  <2> QED
    BY <2>2, <2>3
<1>20. ASSUME NEW k \in DOMAIN new PROVE new[k].order.day \in sessions'
  <2>1. CASE k \in DOMAIN old
    BY <1>7, <1>13, <1>15, <2>1 DEF HistoryIInv, HistoryInv
  <2>2. CASE k \notin DOMAIN old
    <3>1. PICK x \in DOMAIN res : k = Len(old) + x
      BY <1>16, <2>2
    <3>2. PICK j \in DOMAIN os : res[x].order = os[j] /\ outcome[j] # "none"
      BY <1>17
    <3>3. new[k].order.day = os[j].day /\ os[j].day \in opened
      BY <1>7, <1>15, <3>1, <3>2
    <3> QED
      BY <1>7, <3>3
  <2> QED
    BY <2>1, <2>2
<1>21. v = "done" => Whole(rows, res)
  <2>1. SUFFICES ASSUME v = "done" PROVE Whole(rows, res)
    OBVIOUS
  <2>2. DOMAIN os = 1 .. Len(os) /\ Len(os) \in Nat
    BY <1>6
  <2>3. Len(res) = Len(os) /\ \A k \in 1 .. Len(os) : res[k].order = os[k] /\ res[k].state = "done"
    BY <1>9, <1>11, <2>1, <2>2 DEF LeftOf
  <2>4. DOMAIN res = DOMAIN os
    BY <1>15, <2>2, <2>3
  <2>5. {res[i].order.ref : i \in DOMAIN res} = RefsOf(rows)
    BY <1>6, <2>2, <2>3, <2>4 DEF RefsIn
  <2>6. \A i \in DOMAIN res : /\ res[i].state = "done"
                              /\ ValuesOf(res[i].order.lines) = RowsOf(rows, res[i].order.ref)
                              /\ Increasing(res[i].order.lines)
    BY <1>6, <2>2, <2>3, <2>4
  <2> QED
    BY <1>6, <1>15, <2>3, <2>5, <2>6 DEF Whole
<1>22. v = "done" => /\ Cardinality(RefsOf(rows)) <= Len(new)
                    /\ SubSeq(new, Len(new) - Cardinality(RefsOf(rows)) + 1, Len(new)) = res
  <2>1. SUFFICES ASSUME v = "done"
                 PROVE  /\ Cardinality(RefsOf(rows)) <= Len(new)
                        /\ SubSeq(new, Len(new) - Cardinality(RefsOf(rows)) + 1, Len(new)) = res
    OBVIOUS
  <2>2. Cardinality(RefsOf(rows)) = Len(res)
    BY <1>21, <2>1 DEF Whole
  <2>3. (Len(new) - Len(res)) + 1 = Len(old) + 1
    BY <1>15
  <2>4. SubSeq(new, Len(old) + 1, Len(new)) = res
    <3>1. PICK t : t = SubSeq(new, Len(old) + 1, Len(new))
      OBVIOUS
    <3>2. PICK a \in Nat, b \in Nat : a = Len(old) + 1 /\ b = Len(new)
      BY <1>15
    <3>3. (b - a) + 1 = Len(res) /\ a <= b + 1 /\ 1 <= a /\ b = Len(new)
      BY <1>15, <3>2
    <3>4. t = SubSeq(new, a, b)
      BY <3>1, <3>2
    <3>5. t = [k \in 1 .. Len(res) |-> new[(a + k) - 1]]
      BY <1>15, <3>3, <3>4
    <3>6. \A k \in 1 .. Len(res) : (a + k) - 1 = Len(old) + k
      BY <1>15, <3>2
    <3>7. DOMAIN t = DOMAIN res /\ \A k \in DOMAIN res : t[k] = res[k]
      BY <1>15, <3>5, <3>6
    <3>8. t = [k \in DOMAIN res |-> t[k]] /\ res = [k \in DOMAIN res |-> res[k]]
      BY <1>15, <3>5
    <3> QED
      BY <3>1, <3>7, <3>8
  <2> QED
    BY <1>15, <2>2, <2>3, <2>4
<1>23. HistoryInv'
  <2>1. screen'.sheet \in Histories /\ screen'.pc \in {"draft", "preview", "done", "error"}
    BY <1>3, <1>11, <1>12
  <2>2. ASSUME screen'.pc = "done" PROVE EndsWhole(screen'.sheet, made')
    <3>1. LastOf(new, Cardinality(RefsOf(rows))) = res
      BY <1>12, <1>22, <2>2 DEF LastOf
    <3>2. Whole(rows, res) /\ Cardinality(RefsOf(rows)) <= Len(made')
      BY <1>12, <1>14, <1>21, <1>22, <2>2
    <3>3. {res[i].order.ref : i \in DOMAIN res} = RefsOf(rows)
      BY <3>2 DEF Whole
    <3>4. ASSUME NEW i \in DOMAIN res
          PROVE  /\ res[i].state = "done"
                 /\ {res[i].order.lines[n] : n \in DOMAIN res[i].order.lines}
                      = RowsOf(rows, res[i].order.ref)
                 /\ \A m, n \in DOMAIN res[i].order.lines :
                       m < n => res[i].order.lines[m] < res[i].order.lines[n]
      BY <3>2 DEF Whole, ValuesOf, Increasing
    <3>5. Cardinality(RefsOf(rows)) <= Len(new)
      BY <1>14, <3>2
    <3>6. EndsWhole(rows, new)
      BY <3>1, <3>3, <3>4, <3>5 DEF EndsWhole
    <3> QED
      BY <1>12, <1>14, <3>6
  <2> QED
    BY <1>14, <1>19, <1>20, <2>1, <2>2 DEF HistoryInv, EndsWhole
<1>24. screen'.pc # "preview"
  BY <1>11, <1>12
<1> QED
  BY <1>12, <1>14, <1>15, <1>18, <1>23, <1>24 DEF HistoryIInv

\* A step that changes nothing.
LEMMA HistoryStays == HistoryIInv /\ UNCHANGED historyVars => HistoryIInv'
<1>1. SUFFICES ASSUME HistoryIInv, UNCHANGED historyVars PROVE HistoryIInv'
  OBVIOUS
<1>2. screen' = screen /\ made' = made /\ sessions' = sessions
  BY <1>1 DEF historyVars
<1>3. screen.pc = "done" => EndsWhole(screen.sheet, made)
  BY <1>1 DEF HistoryIInv, HistoryInv, EndsWhole
<1>4. screen'.pc = "done" => EndsWhole(screen'.sheet, made')
  BY <1>2, <1>3
<1>5. HistoryInv'
  BY <1>1, <1>2, <1>4 DEF HistoryIInv, HistoryInv, EndsWhole
<1> QED
  BY <1>1, <1>2, <1>5 DEF HistoryIInv

\* The invariant holds after every step, and each step reports what it left in draft.
LEMMA HistorySteps ==
    HistoryIInv /\ [HistoryNext]_historyVars => HistoryIInv' /\ [Reports]_historyVars
<1>1. CASE HistoryNext
  <2>1. ASSUME HistoryIInv PROVE HistoryIInv' /\ Reports
    BY <1>1, <2>1, HistoryAssumption, PreviewStep, BackStep, ImportStep DEF HistoryNext
  <2> QED
    BY <2>1
<1>2. CASE UNCHANGED historyVars
  BY <1>2, HistoryStays
<1> QED
  BY <1>1, <1>2

\* For any sheets, references and days: an import that ended well has made each reference
\* of its sheet once, with all its readable rows in order, and an order without payment is
\* left only by an import that says so.
THEOREM HistoryIsSound == HistorySpec => DraftIsReported /\ HistoryIsWhole
<1>1. HistorySpec => []HistoryIInv
  BY HistoryFirst, HistoryAssumption, HistorySteps, PTL DEF HistorySpec
<1>2. HistoryIInv /\ HistoryIInv' => [HistoryInv']_historyVars
  BY DEF HistoryIInv
<1>3. HistoryIInv /\ [HistoryNext]_historyVars => [Reports]_historyVars
  BY HistorySteps
<1> QED
  BY <1>1, <1>2, <1>3, PTL DEF HistorySpec, DraftIsReported, HistoryIsWhole, Reports

-----------------------------------------------------------------------------
(* The five side by side.                                                  *)

\* In every behaviour of a store: codes and their logs, discounts and their marks, counts
\* and closings and daily budgets are as told, a session is closed with the last count
\* confirmed before it was read, and an import of past sales makes what its sheet says or
\* tells that it met errors.
THEOREM TillIsSound == TillSpec => []TillInv /\ TillSteps
<1>1. TillInit => ApprovalInit /\ DiscountInit /\ ClosingInit /\ HistoryInit /\ BudgetInit
  BY DEF TillInit
<1>2. [TillNext]_tillVars => /\ [ApprovalNext]_approvalVars /\ [DiscountNext]_discountVars
                            /\ [ClosingNext]_closingVars /\ [HistoryNext]_historyVars
                            /\ [BudgetNext]_budgetVars
  BY DEF TillNext, tillVars
<1>3. TillSpec => ApprovalSpec /\ DiscountSpec /\ ClosingSpec /\ HistorySpec /\ BudgetSpec
  BY <1>1, <1>2, PTL DEF TillSpec, ApprovalSpec, DiscountSpec, ClosingSpec, HistorySpec, BudgetSpec
<1>4. ApprovalInv /\ DiscountInv /\ ClosingInv /\ BudgetInv => TillInv
  BY DEF TillInv
<1> QED
  BY <1>3, <1>4, PaidWithCodes, MarksTell, ClosedAsTold, HistoryIsSound, BudgetsAreSound, PTL DEF TillSteps

\* What the steps of a store may do, alone.
THEOREM TillStepsHold == TillSpec => TillSteps
BY TillIsSound, PTL
=============================================================================
