--------------------------- MODULE PurchaseOrders ---------------------------
(***************************************************************************)
(* The life of a purchase order and its submission to the ERP SAGE X3      *)
(* (custom_stock/models/purchase_order.py and                              *)
(* custom_api_sage_x3/models/purchase_order.py).                           *)
(*                                                                         *)
(* A handler that talks to no one is one action: Odoo runs it in one       *)
(* REPEATABLE READ transaction and runs it again on a conflict.  The two   *)
(* handlers that call X3 are split where other requests can interleave:    *)
(* the search and the guards (BeginUrgent, BeginBatch), the HTTP exchange  *)
(* (PostAnswered, PostFailed, PostNotBuilt), and the writes with the       *)
(* commit (Record, Discard, Conflict, Crash).  What a request reads is its *)
(* snapshot: a row another transaction has committed to since then is in   *)
(* its stale set, and writing such a row aborts it.                        *)
(***************************************************************************)
EXTENDS Naturals, FiniteSets

CONSTANTS
    Orders,       \* purchase.order records of one company
    Users,        \* concurrent requests (users, dashboard)
    MaxRetries,   \* MAX_RETRIES of sage_x3_mixin.py
    MaxCopies     \* bound: copies of one order at X3 are counted up to this

ASSUME RetriesAssumption == MaxRetries \in Nat \ {0}
ASSUME CopiesAssumption == MaxCopies \in Nat \ {0}

VARIABLES
    order,        \* the committed rows
    x3,           \* x3[o]: how many times X3 has created order o
    req           \* the requests in flight

orderVars == <<order, x3, req>>

States    == {"none", "draft", "sent", "purchase", "cancel"}
Suppliers == {"vridi", "local", "negoce"}
Commands  == {"normal", "urgent"}

\* complete: has a vendor, lines, and an internal reference on every product.
OrderRow == [state : States, supplier : Suppliers, command : Commands,
             complete : BOOLEAN, submitted : BOOLEAN, validated : BOOLEAN,
             received : BOOLEAN]

\* kind: urgent button or grouped submission; sendable: every target can be
\* formatted; accepted: orders the answer
\* says are accepted; outcome: what became of the exchange.
Request == [pc : {"idle", "ready", "answered"}, kind : {"single", "batch"},
            targets : SUBSET Orders, stale : SUBSET Orders,
            sendable : BOOLEAN,
            accepted : SUBSET Orders,
            outcome : {"none", "answer", "payload", "network"}]

Idle == [pc |-> "idle", kind |-> "single", targets |-> {}, stale |-> {},
         sendable |-> FALSE, accepted |-> {}, outcome |-> "none"]

NewRow(s, c, full, rec) ==
    [state |-> "draft", supplier |-> s, command |-> c, complete |-> full,
     submitted |-> FALSE, validated |-> FALSE, received |-> rec]

NoRow == [NewRow("vridi", "normal", FALSE, FALSE) EXCEPT !.state = "none"]

Init ==
    /\ order = [o \in Orders |-> NoRow]
    /\ x3 = [o \in Orders |-> 0]
    /\ req = [u \in Users |-> Idle]

-----------------------------------------------------------------------------
(* Handlers that do not leave Odoo.                                        *)

\* A commit to the rows of S makes them stale in every other open snapshot.
MarkStale(u, S) ==
    [v \in Users |-> IF v # u /\ req[v].pc # "idle"
                     THEN [req[v] EXCEPT !.stale = @ \union S]
                     ELSE req[v]]

CommitRow(o, row) ==
    /\ order' = [order EXCEPT ![o] = row]
    /\ req' = [v \in Users |-> IF req[v].pc # "idle"
                               THEN [req[v] EXCEPT !.stale = @ \union {o}]
                               ELSE req[v]]
    /\ UNCHANGED x3

Create(o) ==
    /\ order[o].state = "none"
    /\ \E s \in Suppliers, c \in Commands, full \in BOOLEAN :
          CommitRow(o, NewRow(s, c, full, FALSE))

\* copy(): the submission flags, the kind and the supplier type are
\* copy=False, sage_x3_delivery_received is not.
Duplicate(p, o) ==
    /\ order[p].state # "none"
    /\ order[o].state = "none"
    /\ CommitRow(o, NewRow("vridi", "normal", order[p].complete, order[p].received))

\* The form lets the kind and the supplier type change until confirmation.
Edit(o) ==
    /\ order[o].state \in {"draft", "sent"}
    /\ \E s \in Suppliers, c \in Commands, full \in BOOLEAN :
          CommitRow(o, [order[o] EXCEPT !.supplier = s, !.command = c,
                                        !.complete = full])

CanQueue(o) ==
    /\ order[o].state = "draft"
    /\ ~order[o].validated
    /\ order[o].command = "normal"
    /\ order[o].supplier \in {"vridi", "negoce"}

action_pending_to_sage_x3(o) ==
    /\ CanQueue(o)
    /\ CommitRow(o, [order[o] EXCEPT !.state = "sent"])

\* Variant: the button is offered whatever the supplier type.
CanConfirmLocal_AnySupplier(o) == order[o].state \in {"draft", "sent"}

CanConfirmLocal(o) ==
    /\ order[o].state \in {"draft", "sent"}
    /\ order[o].supplier = "local"

button_confirm_local(o) ==
    /\ CanConfirmLocal(o)
    /\ CommitRow(o, [order[o] EXCEPT !.state = "purchase"])

button_cancel(o) ==
    /\ order[o].state \in {"draft", "sent", "purchase"}
    /\ CommitRow(o, [order[o] EXCEPT !.state = "cancel"])

ResetsSubmission(row) ==
    row.supplier = "vridi" /\ row.command = "normal" /\ row.submitted

button_draft(o) ==
    /\ order[o].state = "cancel"
    /\ CommitRow(o, [order[o] EXCEPT !.state = "draft",
                        !.submitted = @ /\ ~ResetsSubmission(order[o])])

-----------------------------------------------------------------------------
(* Handlers that submit orders to X3.                                      *)

\* Variant: the guard "Déjà validée par SAGE X3" is forgotten.
CanSubmitUrgent_Resubmits(o) ==
    /\ order[o].command = "urgent"
    /\ order[o].supplier = "vridi"
    /\ order[o].state = "draft"

\* What action_submit_urgent_command and action_submit_to_sage_x3 require,
\* and the supplier the button is shown for.
CanSubmitUrgent(o) ==
    /\ order[o].command = "urgent"
    /\ order[o].supplier = "vridi"
    /\ order[o].state = "draft"
    /\ ~order[o].validated

\* The domain action_submit_all_pending_to_sage_x3 searches with.
IsPending(o) ==
    /\ order[o].state = "sent"
    /\ ~order[o].submitted
    /\ ~order[o].validated
    /\ order[o].command # "urgent"
    /\ order[o].supplier \in {"vridi", "negoce"}

Open(kind, S) ==
    [Idle EXCEPT !.pc = "ready", !.kind = kind, !.targets = S,
                 !.sendable = \A o \in S : order[o].complete]

BeginUrgent(u, o) ==
    /\ req[u].pc = "idle"
    /\ CanSubmitUrgent(o)
    /\ req' = [req EXCEPT ![u] = Open("single", {o})]
    /\ UNCHANGED <<order, x3>>

BeginBatch(u) ==
    LET pending == {o \in Orders : IsPending(o)} IN
    /\ req[u].pc = "idle"
    /\ pending # {}
    /\ req' = [req EXCEPT ![u] = Open("batch", pending)]
    /\ UNCHANGED <<order, x3>>

Saturate(n) == IF n > MaxCopies THEN MaxCopies ELSE n

\* X3 handled the request body times[o] times with success for order o.
CreateCopies(times) ==
    x3' = [o \in Orders |-> IF o \in DOMAIN times
                            THEN Saturate(x3[o] + times[o])
                            ELSE x3[o]]

\* _safe_post returned a usable list.  The attempts before the last one may
\* have been handled by X3 too: a timeout is retried with the same body.
PostAnswered(u) ==
    LET S == req[u].targets IN
    /\ req[u].pc = "ready"
    /\ req[u].sendable
    /\ \E A \in SUBSET S, lost \in [S -> 0 .. MaxRetries - 1] :
         LET times == [o \in S |-> lost[o] + (IF o \in A THEN 1 ELSE 0)] IN
         /\ CreateCopies(times)
         /\ req' = [req EXCEPT ![u].pc = "answered", ![u].outcome = "answer",
                               ![u].accepted = A]
    /\ UNCHANGED order

\* Login refused, every attempt failed, or the answer is not a list of the
\* expected length: an exception, whatever X3 did with the attempts.
PostFailed(u) ==
    LET S == req[u].targets IN
    /\ req[u].pc = "ready"
    /\ req[u].sendable
    /\ \E times \in [S -> 0 .. MaxRetries] :
         /\ CreateCopies(times)
         /\ req' = [req EXCEPT ![u].pc = "answered", ![u].outcome = "network"]
    /\ UNCHANGED order

\* _build_commande_dict raises on one order: nothing at all is sent.
PostNotBuilt(u) ==
    /\ req[u].pc = "ready"
    /\ ~req[u].sendable
    /\ req' = [req EXCEPT ![u].pc = "answered", ![u].outcome = "payload"]
    /\ UNCHANGED <<order, x3>>

\* Variant: any answer to the call counts as an acceptance.
Recorded_AnyAnswer(row, ok, confirmed) ==
    [row EXCEPT !.submitted = TRUE, !.validated = TRUE]

\* Variant: two-step approval parks the confirmed order.
Recorded_ToApprove(row, ok, confirmed) ==
    [row EXCEPT !.submitted = TRUE, !.validated = ok,
                !.state = IF confirmed THEN "to approve" ELSE @]

\* The flags of a target, which button_confirm confirms or not.
Recorded(row, ok, confirmed) ==
    [row EXCEPT !.submitted = TRUE, !.validated = ok,
                !.state = IF confirmed THEN "purchase" ELSE @]

\* Variant: the last writer wins.
NoConflict_LastWriterWins(u, W) == TRUE

NoConflict(u, W) == W \intersect req[u].stale = {}

\* The targets of W are written, the others not if the loop raises; the caller swallows
\* it, confirms nothing then, and commits.  When all are written, button_confirm succeeds
\* for the orders of C and raises, swallowed again, for the other accepted ones.
Record(u) ==
    LET S == req[u].targets
        A == req[u].accepted IN
    /\ req[u].pc = "answered"
    /\ req[u].outcome = "answer"
    /\ \E W \in SUBSET S : \E C \in SUBSET (A \intersect W) :
         /\ NoConflict(u, W)
         /\ W # S => C = {}
         /\ order' = [o \in Orders |-> IF o \in W
                                       THEN Recorded(order[o], o \in A, o \in C)
                                       ELSE order[o]]
         /\ req' = [MarkStale(u, W) EXCEPT ![u] = Idle]
    /\ UNCHANGED x3

\* The exception is swallowed before any write: the commit commits nothing.
Discard(u) ==
    /\ req[u].pc = "answered"
    /\ req[u].outcome # "answer"
    /\ req' = [req EXCEPT ![u] = Idle]
    /\ UNCHANGED <<order, x3>>

\* PostgreSQL refuses to write a row changed since the snapshot.
Conflict(u) ==
    /\ req[u].pc = "answered"
    /\ req[u].outcome = "answer"
    /\ ~NoConflict(u, req[u].targets)
    /\ req' = [req EXCEPT ![u] = Idle]
    /\ UNCHANGED <<order, x3>>

\* The worker is killed (time limit, restart) or loses the database.
Crash(u) ==
    /\ req[u].pc # "idle"
    /\ req' = [req EXCEPT ![u] = Idle]
    /\ UNCHANGED <<order, x3>>

-----------------------------------------------------------------------------
Office(o) ==
    \/ Create(o)
    \/ \E p \in Orders : Duplicate(p, o)
    \/ Edit(o)
    \/ action_pending_to_sage_x3(o)
    \/ button_confirm_local(o)
    \/ button_cancel(o)
    \/ button_draft(o)

Submission(u) ==
    \/ \E o \in Orders : BeginUrgent(u, o)
    \/ BeginBatch(u)
    \/ PostAnswered(u)
    \/ PostFailed(u)
    \/ PostNotBuilt(u)
    \/ Record(u)
    \/ Discard(u)
    \/ Conflict(u)
    \/ Crash(u)

Next ==
    \/ \E o \in Orders : Office(o)
    \/ \E u \in Users : Submission(u)

Spec == Init /\ [][Next]_orderVars

-----------------------------------------------------------------------------
(* Properties.                                                             *)

\* Every variable has its type.
TypeOK ==
    /\ order \in [Orders -> OrderRow]
    /\ x3 \in [Orders -> 0 .. MaxCopies]
    /\ req \in [Users -> Request]

\* An open request whose snapshot of a target is still current found that
\* order submittable, and it still is: what the search and the guards of the
\* submission handlers established holds until their own commit.
SnapshotStillValid ==
    \A u \in Users : \A o \in req[u].targets \ req[u].stale :
        /\ ~order[o].validated
        /\ req[u].kind = "single" => CanSubmitUrgent(o)
        /\ req[u].kind = "batch" => IsPending(o)

\* An order Odoo shows as accepted ("Accepté par SAGE X3"), or is about to,
\* exists in X3: answers are attributed to the order they are about.
AcceptedExistsAtX3 ==
    /\ \A o \in Orders : order[o].validated => x3[o] > 0
    /\ \A u \in Users : \A o \in req[u].accepted : x3[o] > 0

\* A confirmed purchase from a supplier served through X3 was accepted by X3:
\* no cancellation, reset, duplication or change of supplier type gets around
\* the submission.
ConfirmedWasAccepted ==
    \A o \in Orders :
        order[o].state = "purchase" /\ order[o].supplier # "local"
            => order[o].validated

\* X3 can be made to create an order again after Odoo recorded its acceptance
\* only by a request that was already in flight at that moment, and that
\* request will not be able to commit its own verdict.
NoNewCopyAfterAcceptance ==
    [][\A o \in Orders :
          order[o].validated /\ x3'[o] > x3[o]
              => \E u \in Users : o \in req[u].targets \intersect req[u].stale
      ]_orderVars

\* The acceptance of an order is never taken back, whatever a later answer,
\* a concurrent rejection or a reset to draft says.
AcceptanceIsFinal ==
    [][\A o \in Orders : order[o].validated => order'[o].validated]_orderVars

\* The promise of OrderContract, with what X3 holds, what Odoo has recorded
\* and what it has confirmed.
Contract == INSTANCE OrderContract WITH
    created <- {o \in Orders : x3[o] > 0},
    acknowledged <- {o \in Orders : order[o].validated},
    confirmed <- {o \in Orders : order[o].state = "purchase"
                                  /\ order[o].supplier # "local"}

ImplementsContract == Contract!ContractSpec

=============================================================================
