--------------------------- MODULE DeliveryImport ---------------------------
(***************************************************************************)
(* The import of SAGE X3 deliveries into purchase orders and their         *)
(* receipts (custom_api_sage_x3/models/purchase_order.py), run by the      *)
(* cron's queue job and, once per awaiting order, by a button; several     *)
(* imports of a company may run at once, while users receive goods, cancel *)
(* and duplicate orders.                                                   *)
(*                                                                         *)
(* X3 is asked for what is newer than a cursor (last_import_date).  Dates  *)
(* are abstracted to the set of deliveries the cursor has passed.  An      *)
(* import reads its orders in the snapshot it opened, writes them batch by *)
(* batch with a commit after each, and moves the cursor at the end.        *)
(***************************************************************************)
EXTENDS Naturals, FiniteSets

CONSTANTS
    Orders,      \* purchase orders of one company
    Deliveries,  \* deliveries X3 will publish
    OrderOf,     \* the order a delivery refers to
    Planned,     \* content of a receipt: what was ordered
    Nothing,     \* no open receipt
    Jobs,        \* imports that may run at once
    BatchSize    \* BATCH_SIZE

ASSUME ImportAssumption ==
    /\ OrderOf \in [Deliveries -> Orders]
    /\ Planned \notin Deliveries /\ Nothing \notin Deliveries
    /\ Planned # Nothing
    /\ BatchSize \in Nat \ {0}
    /\ IsFiniteSet(Orders) /\ IsFiniteSet(Deliveries)

VARIABLES
    order,   \* committed purchase orders and their receipts
    behind,  \* deliveries older than the committed cursor
    dated,   \* the cursor has been set; until then the last week is asked for
    fate,    \* fate[d]: what the imports have committed about delivery d
    job      \* the imports

importVars == <<order, behind, dated, fate, job>>

\* ack: the acceptance by X3, which a reset to draft leaves half erased;
\* open: what the quantities of the open receipt come from; receipts: where
\* those of the validated receipts came from.
Order == [state : {"none", "sent", "purchase", "cancel"},
          ack : {"none", "accepted", "reset"}, received : BOOLEAN,
          open : Deliveries \union {Planned, Nothing},
          receipts : SUBSET (Deliveries \union {Planned})]

NoOrder == [state |-> "none", ack |-> "none", received |-> FALSE,
            open |-> Nothing, receipts |-> {}]

\* late, aged: published while an import was past its question, or out of the
\* first week's window, and not handled since; filtered: in an answer, order
\* not eligible; skipped: order not preloaded; failed, torn: exception, before
\* or after a quantity was written; noted: order marked received without a
\* quantity; filled: quantity written and order marked.
Fates == {"absent", "new", "late", "aged", "filtered", "skipped", "failed",
          "torn", "noted", "filled"}

\* rounds: runs still to do, this one included; eligible, loaded: orders
\* the filter and the preload find in the snapshot; cache: order_cache; todo:
\* deliveries to process; stale, staleCursor: committed to by others since the
\* snapshot; marked: the cursor is written but not committed, mark: what it
\* passes.
Job == [pc : {"idle", "ask", "apply", "date", "commit"}, button : BOOLEAN,
        rounds : (0 .. Cardinality(Orders)) \union {1}, eligible : SUBSET Orders,
        loaded : SUBSET Orders, cache : SUBSET Orders, todo : SUBSET Deliveries,
        stale : SUBSET Orders, staleCursor : BOOLEAN, marked : BOOLEAN,
        mark : SUBSET Deliveries]

NoJob == [pc |-> "idle", button |-> FALSE, rounds |-> 0, eligible |-> {},
          loaded |-> {}, cache |-> {}, todo |-> {}, stale |-> {},
          staleCursor |-> FALSE, marked |-> FALSE, mark |-> {}]

ImportInit ==
    /\ order = [o \in Orders |-> NoOrder]
    /\ behind = {}
    /\ dated = FALSE
    /\ fate = [d \in Deliveries |-> "absent"]
    /\ job = [j \in Jobs |-> NoJob]

Published == {d \in Deliveries : fate[d] # "absent"}

-----------------------------------------------------------------------------
(* Orders and receipts: what users and the submission to X3 do.            *)

\* Imports that may still write orders with what they have read.
Holding == {k \in Jobs : job[k].pc \in {"ask", "apply"}}

\* A commit to an order makes it stale in the snapshots that hold it.
Commit(o, row) ==
    /\ order' = [order EXCEPT ![o] = row]
    /\ job' = [k \in Jobs |-> IF k \in Holding
                              THEN [job[k] EXCEPT !.stale = @ \union {o}] ELSE job[k]]
    /\ UNCHANGED <<behind, dated, fate>>

Create(o) ==
    /\ order[o].state = "none"
    /\ Commit(o, [NoOrder EXCEPT !.state = "sent"])

\* copy(): sage_x3_delivery_received is not copy=False.
Duplicate(p, o) ==
    /\ order[p].state # "none"
    /\ order[o].state = "none"
    /\ Commit(o, [NoOrder EXCEPT !.state = "sent", !.received = order[p].received])

\* Accepted by X3; the confirmation, which makes the receipt, may fail.
Accept(o) ==
    /\ order[o].state = "sent"
    /\ order[o].ack = "none"
    /\ \/ Commit(o, [order[o] EXCEPT !.ack = "accepted", !.state = "purchase",
                                     !.open = Planned])
       \/ Commit(o, [order[o] EXCEPT !.ack = "accepted"])

\* Odoo refuses to cancel an order some goods of which are received.
Cancel(o) ==
    /\ order[o].state \in {"sent", "purchase"}
    /\ order[o].receipts = {}
    /\ Commit(o, [order[o] EXCEPT !.state = "cancel", !.open = Nothing])

\* button_draft clears sage_x3_submitted on the normal orders of one supplier.
Reset(o) ==
    /\ order[o].state = "cancel"
    /\ \/ Commit(o, [order[o] EXCEPT !.state = "sent"])
       \/ /\ order[o].ack = "accepted"
          /\ Commit(o, [order[o] EXCEPT !.state = "sent", !.ack = "reset"])

\* The open receipt is validated, with or without a backorder.
Receive(o) ==
    /\ order[o].state = "purchase"
    /\ order[o].open # Nothing
    /\ \E rest \in {Planned, Nothing} :
          Commit(o, [order[o] EXCEPT !.receipts = @ \union {order[o].open},
                                     !.open = rest])

-----------------------------------------------------------------------------
(* SAGE X3.                                                                *)

PastQuestion(j) == job[j].pc \in {"apply", "date"}

\* X3 ships an order it holds, which Odoo may not know to be accepted.
Publish(d) ==
    /\ fate[d] = "absent"
    /\ order[OrderOf[d]].state # "none"
    /\ fate' = [fate EXCEPT ![d] = IF \E j \in Jobs : PastQuestion(j)
                                   THEN "late" ELSE "new"]
    /\ UNCHANGED <<order, behind, dated, job>>

\* Until a first import has dated the cursor, it is seven days ago.
Age(d) ==
    /\ ~dated
    /\ d \in Published \ behind
    /\ behind' = behind \union {d}
    /\ fate' = [fate EXCEPT ![d] = IF @ \in {"new", "late"} THEN "aged" ELSE @]
    /\ UNCHANGED <<order, dated, job>>

-----------------------------------------------------------------------------
(* The import.                                                             *)

\* Variant: orders already received are imported again.
Eligible_Again == {o \in Orders : order[o].ack = "accepted"}

Eligible == {o \in Orders : order[o].ack = "accepted" /\ ~order[o].received}
Loadable == {o \in Eligible : order[o].state = "purchase"}

\* A transaction that reads its orders now.
Snapshot(r) ==
    [r EXCEPT !.eligible = Eligible, !.loaded = Loadable, !.stale = {},
              !.staleCursor = FALSE]

\* cron_import_deliveries.
BeginQueued(j) ==
    /\ job[j].pc = "idle"
    /\ job' = [job EXCEPT ![j] = Snapshot([NoJob EXCEPT !.pc = "ask", !.rounds = 1])]
    /\ UNCHANGED <<order, behind, dated, fate>>

\* action_import_all_receive_external_source: a whole import for every order.
BeginButton(j) ==
    /\ job[j].pc = "idle"
    /\ Loadable # {}
    /\ job' = [job EXCEPT ![j] =
          Snapshot([NoJob EXCEPT !.pc = "ask", !.button = TRUE,
                                 !.rounds = Cardinality(Loadable)])]
    /\ UNCHANGED <<order, behind, dated, fate>>

\* Variant: the button goes on as long as an order awaits its delivery.
EndRound_UntilNoneAwaits(r) ==
    IF r.rounds > 1 THEN [r EXCEPT !.rounds = @ - 1, !.pc = "ask", !.cache = {}]
    ELSE IF r.button /\ r.loaded # {}
    THEN [r EXCEPT !.rounds = Cardinality(r.loaded), !.pc = "ask", !.cache = {}]
    ELSE [r EXCEPT !.pc = "commit", !.cache = {}]

\* The import of this round returned or raised an error the button swallows.
EndRound(r) ==
    IF r.rounds > 1 THEN [r EXCEPT !.rounds = @ - 1, !.pc = "ask", !.cache = {}]
                    ELSE [NoJob EXCEPT !.pc = "commit", !.staleCursor = r.staleCursor,
                                       !.marked = r.marked, !.mark = r.mark]

\* Deliveries newer than the cursor this transaction sees.
Answer(j) == Published \ (IF job[j].marked THEN job[j].mark ELSE behind)

Kept(j) == {d \in Answer(j) : OrderOf[d] \in job[j].eligible}

\* GET deliveries, keep those of eligible orders, preload the orders.
Ask(j) ==
    /\ job[j].pc = "ask"
    /\ fate' = [d \in Deliveries |->
                  IF d \in Answer(j) \ Kept(j) /\ fate[d] \in {"new", "late", "aged"}
                  THEN "filtered" ELSE fate[d]]
    /\ job' = [job EXCEPT ![j] =
          IF Kept(j) = {} THEN EndRound(@)
          ELSE [@ EXCEPT !.pc = "apply", !.cache = job[j].loaded, !.todo = Kept(j),
                         !.eligible = {}, !.loaded = {}]]
    /\ UNCHANGED <<order, behind, dated>>

\* Variant: a failed request counts as an import without deliveries.
AskFails_Dates(j) ==
    /\ job[j].pc = "ask"
    /\ job' = [job EXCEPT ![j].pc = "date"]
    /\ UNCHANGED <<order, behind, dated, fate>>

\* No token, no answer from X3, or an answer that is not JSON.
AskFails(j) ==
    /\ job[j].pc = "ask"
    /\ job' = [job EXCEPT ![j] = IF @.button THEN EndRound(@) ELSE NoJob]
    /\ UNCHANGED <<order, behind, dated, fate>>

WritesQuantity == {"filled", "torn"}
MarksReceived  == {"filled", "noted"}

\* What can become of delivery d in a batch: the cache decides whether it is
\* looked at, and only an open receipt can take a quantity.
Outcomes(j, d) ==
    IF OrderOf[d] \notin job[j].cache THEN {"skipped"}
    ELSE {"failed", "noted"}
         \union (IF order[OrderOf[d]].open # Nothing THEN WritesQuantity ELSE {})

Of(o, B, result, kinds) == {d \in B : OrderOf[d] = o /\ result[d] \in kinds}

\* Writing order o: the last quantity written stays.
Applied(o, B, result, last) ==
    [order[o] EXCEPT
        !.open = IF Of(o, B, result, WritesQuantity) # {} THEN last[o] ELSE @,
        !.received = @ \/ Of(o, B, result, MarksReceived) # {}]

NextBatch(j) ==
    {B \in SUBSET job[j].todo :
        Cardinality(B) = IF Cardinality(job[j].todo) < BatchSize
                         THEN Cardinality(job[j].todo) ELSE BatchSize}

Touched(B, result) ==
    {OrderOf[d] : d \in {b \in B : result[b] \in WritesQuantity \union MarksReceived}}

\* Variant: PostgreSQL would not detect concurrent updates.
NoConflict_LastWriterWins(j, S) == TRUE

\* The commit succeeds: no row written here was committed to since the snapshot.
NoConflict(j, S) ==
    /\ S \intersect job[j].stale = {}
    /\ job[j].marked => ~job[j].staleCursor

\* The commit of the cursor, if this transaction wrote it.
CommitCursor(j) ==
    /\ behind' = IF job[j].marked THEN behind \union job[j].mark ELSE behind
    /\ dated' = (dated \/ job[j].marked)

\* Other open transactions now hold an older cursor and older orders.  What
\* comes at "date" opens a new one.
AfterCommit(j, S) ==
    [k \in Jobs |-> IF k = j \/ job[k].pc \in {"idle", "date"} THEN job[k]
                    ELSE [job[k] EXCEPT !.stale = IF k \in Holding THEN @ \union S ELSE @,
                                        !.staleCursor = @ \/ job[j].marked]]

AfterBatch(r, B) ==
    [r EXCEPT !.pc = IF r.todo = B THEN "date" ELSE "apply", !.todo = @ \ B,
              !.stale = {}, !.staleCursor = FALSE, !.marked = FALSE, !.mark = {}]

\* One batch and its commit.  Errors on a delivery are swallowed.
ApplyBatch(j) ==
    /\ job[j].pc = "apply"
    /\ \E B \in NextBatch(j) :
       \E result \in [B -> {"skipped", "failed", "torn", "noted", "filled"}] :
       \E last \in [{o \in Orders : Of(o, B, result, WritesQuantity) # {}} -> B] :
          /\ \A d \in B : result[d] \in Outcomes(j, d)
          /\ \A o \in DOMAIN last : last[o] \in Of(o, B, result, WritesQuantity)
          /\ NoConflict(j, Touched(B, result))
          /\ order' = [o \in Orders |-> Applied(o, B, result, last)]
          /\ fate' = [d \in Deliveries |->
                        IF d \notin B \/ (result[d] \in {"skipped", "failed"}
                                          /\ fate[d] \in WritesQuantity \union MarksReceived)
                        THEN fate[d] ELSE result[d]]
          /\ CommitCursor(j)
          /\ job' = [AfterCommit(j, Touched(B, result)) EXCEPT ![j] = AfterBatch(@, B)]

\* _update_last_import_date: every delivery X3 has published by now is passed.
\* The transaction begins here, after the commit of the last batch.
Date(j) ==
    /\ job[j].pc = "date"
    /\ job' = [job EXCEPT ![j] =
          EndRound(Snapshot([@ EXCEPT !.marked = TRUE, !.mark = Published]))]
    /\ UNCHANGED <<order, behind, dated, fate>>

\* The final commit, of the queue job or of the button.
FinishJob(j) ==
    /\ job[j].pc = "commit"
    /\ NoConflict(j, {})
    /\ CommitCursor(j)
    /\ job' = [AfterCommit(j, {}) EXCEPT ![j] = NoJob]
    /\ UNCHANGED <<order, fate>>

\* A serialization failure, a killed worker: what is not committed is undone.
Abort(j) ==
    /\ job[j].pc # "idle"
    /\ job' = [job EXCEPT ![j] = NoJob]
    /\ UNCHANGED <<order, behind, dated, fate>>

-----------------------------------------------------------------------------
Office(o) ==
    \/ Create(o)
    \/ \E p \in Orders : Duplicate(p, o)
    \/ Accept(o)
    \/ Cancel(o)
    \/ Reset(o)
    \/ Receive(o)

JobStep(j) == Ask(j) \/ AskFails(j) \/ ApplyBatch(j) \/ Date(j) \/ FinishJob(j) \/ Abort(j)

ImportNext ==
    \/ \E o \in Orders : Office(o)
    \/ \E d \in Deliveries : Publish(d) \/ Age(d)
    \/ \E j \in Jobs : BeginQueued(j) \/ BeginButton(j) \/ JobStep(j)

ImportSpec == ImportInit /\ [][ImportNext]_importVars

\* A running import is not suspended for ever: each request and each wait of
\* the HTTP client is bounded, a conflict aborts it.
ImportFairSpec == ImportSpec /\ \A j \in Jobs : WF_importVars(JobStep(j))

-----------------------------------------------------------------------------
(* Properties.                                                             *)

\* Every variable has its type.
ImportTypeOK ==
    /\ order \in [Orders -> Order]
    /\ behind \subseteq Deliveries
    /\ dated \in BOOLEAN
    /\ fate \in [Deliveries -> Fates]
    /\ job \in [Jobs -> Job]

\* A delivery the cursor has passed was dealt with in a committed batch or
\* turned down by the filter, unless it is one of the two kinds that slip by:
\* published during an import, or older than a week at the first one.  A
\* crash, a conflict, a failed request or a parallel import loses none.
PassedWasHandled == \A d \in behind : fate[d] # "new"

\* The invariant of the import: its types, and nothing passed unhandled.
ImportInv == ImportTypeOK /\ PassedWasHandled

OneJob == \A j, k \in Jobs : j = k
OneBatch == BatchSize >= Cardinality(Deliveries)

\* The goods of a delivery are put into one receipt only, however often the
\* import is run again, if imports do not overlap or their deliveries fit one
\* batch, and unless the delivery failed halfway (its order is then not marked).
DeliveryFillsOneReceipt ==
    [][OneJob \/ OneBatch =>
         \A o \in Orders : \A d \in order[o].receipts \ {Planned} :
            /\ order'[o].open = d
            /\ order[o].open # d
            => fate[d] = "torn"]_importVars

\* If one batch is enough, the import marks an order received only in the very
\* state it was preloaded for: a purchase X3 accepted, not received yet.
MarkedWhileAwaiting ==
    [][OneBatch =>
         \A o \in Orders :
            order[o].state # "none" /\ order'[o].received # order[o].received
                => o \in Loadable]_importVars

\* Every import ends, whatever it meets.
ImportsEnd == \A j \in Jobs : job[j].pc # "idle" ~> job[j].pc = "idle"

-----------------------------------------------------------------------------
(* Statements of the documentation that the code contradicts.              *)

\* DOCUMENTATION.md:722: the import takes the deliveries "depuis
\* last_import_date"; what a dated cursor has passed was in an answer of X3.
NothingPublishedIsMissed == \A d \in behind : fate[d] # "late"
=============================================================================
