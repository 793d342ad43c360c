----------------------------- MODULE Transfers -----------------------------
(***************************************************************************)
(* Transfers between stores (custom_stock): the request of the store that  *)
(* needs the goods, the transfer (stock.picking.inter) and its two         *)
(* pickings, one in each store, which change one another's states.         *)
(*                                                                         *)
(* Each click is one transaction and one action; a click that raises is    *)
(* undone and is no step.  The buttons depend on the state that the screen *)
(* shows, and a screen is not refreshed: a button can be clicked as long   *)
(* as some state it is visible in has been displayed.  The handlers themselves *)
(* look at no state of the transfer.                                       *)
(*                                                                         *)
(* Quantities, products and locations are left out.  A picking is known by *)
(* how many copies of the transfer's lines it has in each state; the state *)
(* that Odoo computes for it follows, and Odoo cancels and deletes no line *)
(* that is done.                                                           *)
(***************************************************************************)
EXTENDS Naturals

CONSTANTS
    Transfers,   \* stock.picking.inter
    Requests,    \* stock.picking.supply.request
    MaxCopies    \* bound: the same lines are added at most so often

ASSUME TransferAssumption == MaxCopies \in Nat \ {0} /\ "none" \notin Transfers

VARIABLES
    transfer,    \* state, and the request it comes from
    picking,     \* the two stock.picking of a transfer
    request,     \* state, and picking_inter_id
    displayed,   \* the states of each transfer that a screen may still show
    refused      \* copies that the receiving store cancelled on its own, while the
                 \* other store has its own to send (history)

transferVars == <<transfer, picking, request, displayed, refused>>

Sides == {"in", "out"}

TransferStates == {"none", "draft", "confirmed", "done", "cancel", "reject"}

Picking == [open : Nat, done : Nat, cancelled : Nat]

NoPicking == [open |-> 0, done |-> 0, cancelled |-> 0]

Copies(p) == p.open + p.done + p.cancelled

\* requested: made from a request, and cascading to it.
Transfer == [state : TransferStates, requested : Requests \cup {"none"}]

NoTransfer == [state |-> "none", requested |-> "none"]

Request == [state : {"none", "draft", "done"}, transfer : Transfers \cup {"none"}]

NoRequest == [state |-> "none", transfer |-> "none"]

TransferInit ==
    /\ transfer = [t \in Transfers |-> NoTransfer]
    /\ picking = [t \in Transfers |-> [s \in Sides |-> NoPicking]]
    /\ request = [r \in Requests |-> NoRequest]
    /\ displayed = [t \in Transfers |-> {}]
    /\ refused = [t \in Transfers |-> 0]

\* A button of the transfer's form, visible in these states.
CanClick(t, states) == transfer[t].state # "none" /\ displayed[t] \cap states # {}

\* The state is written; the forms opened from now on show it.
SetTransfer(t, state) ==
    /\ transfer' = [transfer EXCEPT ![t].state = state]
    /\ displayed' = [displayed EXCEPT ![t] = @ \cup {state}]

-----------------------------------------------------------------------------
(* Supply requests.                                                        *)

CreateRequest(r) ==
    /\ request[r].state = "none"
    /\ request' = [request EXCEPT ![r].state = "draft"]
    /\ UNCHANGED <<transfer, picking, displayed, refused>>

\* The transfer is found by the name of the request, whatever its state, and
\* gets the lines again; or it is made.
ConfirmRequest(r) ==
    /\ request[r].state # "none"
    /\ \/ /\ request[r].transfer # "none"
          /\ UNCHANGED <<transfer, request, displayed>>
       \/ /\ request[r].transfer = "none"
          /\ \E t \in Transfers :
                /\ transfer[t].state = "none"
                /\ transfer' = [transfer EXCEPT ![t] = [state |-> "draft", requested |-> r]]
                /\ displayed' = [displayed EXCEPT ![t] = {"draft"}]
                /\ request' = [request EXCEPT ![r] = [state |-> "done", transfer |-> t]]
    /\ UNCHANGED <<picking, refused>>

DeleteRequest(r) ==
    /\ request[r].state = "draft"
    /\ request' = [request EXCEPT ![r] = NoRequest]
    /\ UNCHANGED <<transfer, picking, displayed, refused>>

-----------------------------------------------------------------------------
(* Transfers.                                                              *)

CreateTransfer(t) ==
    /\ transfer[t].state = "none"
    /\ transfer' = [transfer EXCEPT ![t].state = "draft"]
    /\ displayed' = [displayed EXCEPT ![t] = {"draft"}]
    /\ UNCHANGED <<picking, request, refused>>

\* Variant: a picking that was cancelled is left as it is.
Completed_Left(p) == IF p.cancelled > 0 THEN p ELSE [p EXCEPT !.open = @ + 1]

\* A picking after a confirmation: created and confirmed, or found by its name
\* and completed, which opens it again.
Completed(p) == [p EXCEPT !.open = @ + 1]

\* Variant: a receipt that exists is kept as it is.
Received_Kept(p) == IF Copies(p) = 0 THEN {Completed(p)} ELSE {p}

\* A receipt that is done may stay so: its new lines are done with it.
Received(p) ==
    {Completed(p)} \cup
        IF p.open = 0 /\ p.done > 0 THEN {[p EXCEPT !.done = @ + 1]} ELSE {}

\* action_confirm_inter: both pickings in one transaction.
ConfirmTransfer(t) ==
    /\ CanClick(t, {"draft"})
    /\ Copies(picking[t]["in"]) < MaxCopies /\ Copies(picking[t]["out"]) < MaxCopies
    /\ \E p \in Received(picking[t]["in"]) :
          picking' = [picking EXCEPT ![t] = [in |-> p, out |-> Completed(@["out"])]]
    /\ SetTransfer(t, "confirmed")
    /\ UNCHANGED <<request, refused>>

Existing(t) == {s \in Sides : Copies(picking[t][s]) > 0}

\* One picking with goods that are done makes the whole action raise; without picking
\* the loop has nothing to do.
Cancellable(t) ==
    Existing(t) # {} /\ \A s \in Existing(t) : picking[t][s].done = 0

AllCancelled(p) == [p EXCEPT !.open = 0, !.cancelled = @ + p.open]

\* Variant: only the outgoing picking is cancelled.
Cancelled_Out(t) == [picking[t] EXCEPT !["out"] = AllCancelled(@)]

Cancelled(t) == [s \in Sides |-> AllCancelled(picking[t][s])]

\* action_cancel: each picking is cancelled, which rejects the transfer, and
\* the transfer is then set to cancelled.
CancelTransfer(t) ==
    /\ CanClick(t, {"confirmed"})
    /\ Cancellable(t)
    /\ picking' = [picking EXCEPT ![t] = Cancelled(t)]
    /\ SetTransfer(t, "cancel")
    /\ refused' = [refused EXCEPT ![t] = 0]
    /\ UNCHANGED request

\* Variant: the request outlives its transfer.
Requesting_Kept(t) == {}

\* The requests that the deletion of the transfer deletes (ondelete cascade).
Requesting(t) == {r \in Requests : request[r].transfer = t}

\* The rows go; a picking that is left no longer belongs to a transfer.
Vanish(t) ==
    /\ transfer' = [transfer EXCEPT ![t] = NoTransfer]
    /\ picking' = [picking EXCEPT ![t] = [s \in Sides |-> NoPicking]]
    /\ request' = [r \in Requests |-> IF r \in Requesting(t) THEN NoRequest ELSE request[r]]
    /\ displayed' = [displayed EXCEPT ![t] = {}]
    /\ refused' = [refused EXCEPT ![t] = 0]

\* unlink, allowed in draft.
DeleteTransfer(t) ==
    /\ transfer[t].state = "draft"
    /\ Vanish(t)

\* Variant: only the receipt is deleted, and the transfer is left in draft.
DraftTransfer_Receipt(t) ==
    /\ CanClick(t, {"cancel", "reject"})
    /\ Cancellable(t)
    /\ picking' = [picking EXCEPT ![t]["in"] = NoPicking]
    /\ SetTransfer(t, "draft")
    /\ UNCHANGED <<request, refused>>

\* action_draft: the pickings are deleted; picking_id cascades from the
\* incoming one to the transfer, so no row is left to set to draft.
DraftTransfer(t) ==
    /\ CanClick(t, {"cancel", "reject"})
    /\ Cancellable(t)
    /\ Vanish(t)

-----------------------------------------------------------------------------
(* The pickings, handled in each store.                                    *)

AllDone(p) == [p EXCEPT !.open = 0, !.done = @ + p.open]

\* button_validate: the picking is done, or a wizard asks about a backorder
\* and nothing moves; the transfer is done in both cases.
ValidatePicking(t, s) ==
    /\ picking[t][s].open > 0
    /\ \E p \in {picking[t][s], AllDone(picking[t][s])} :
          picking' = [picking EXCEPT ![t][s] = p]
    /\ SetTransfer(t, "done")
    /\ UNCHANGED <<request, refused>>

\* action_cancel of the picking rejects the transfer, whatever its state, and leaves the
\* picking of the other store as it is.
CancelPicking(t, s) ==
    /\ s \in Existing(t) /\ picking[t][s].done = 0
    /\ picking' = [picking EXCEPT ![t][s] = AllCancelled(picking[t][s])]
    /\ SetTransfer(t, "reject")
    /\ refused' = [refused EXCEPT ![t] =
                      IF s = "in" THEN refused[t] + picking[t]["in"].open ELSE 0]
    /\ UNCHANGED request

\* A picking that is not done is deleted from its list.
DeletePicking(t, s) ==
    /\ s \in Existing(t) /\ picking[t][s].done = 0
    /\ \/ s = "in" /\ Vanish(t)
       \/ /\ s = "out"
          /\ picking' = [picking EXCEPT ![t][s] = NoPicking]
          /\ refused' = [refused EXCEPT ![t] = 0]
          /\ UNCHANGED <<transfer, request, displayed>>

-----------------------------------------------------------------------------
TransferNext ==
    \/ \E r \in Requests : CreateRequest(r) \/ ConfirmRequest(r) \/ DeleteRequest(r)
    \/ \E t \in Transfers : CreateTransfer(t) \/ ConfirmTransfer(t) \/ CancelTransfer(t)
                              \/ DeleteTransfer(t) \/ DraftTransfer(t)
    \/ \E t \in Transfers, s \in Sides :
          ValidatePicking(t, s) \/ CancelPicking(t, s) \/ DeletePicking(t, s)

TransferSpec == TransferInit /\ [][TransferNext]_transferVars

-----------------------------------------------------------------------------
\* Type invariant of transfers, pickings, requests and screens.
TransferTypeOK ==
    /\ transfer \in [Transfers -> Transfer]
    /\ picking \in [Transfers -> [Sides -> Picking]]
    /\ request \in [Requests -> Request]
    /\ displayed \in [Transfers -> SUBSET TransferStates]
    /\ refused \in [Transfers -> Nat]

\* What one store has sent or is still to send, the other has received or expects, but
\* for the copies that it cancelled on its own: however often the confirmation was
\* clicked, and whatever has become of the pickings in between.
SentIsExpected ==
    \A t \in Transfers :
        LET out == picking[t]["out"]
            in  == picking[t]["in"]
        IN  out.open + out.done <= in.open + in.done + refused[t]

\* A cancelled transfer has nothing left to send or to receive, and sent and
\* received nothing: action_cancel is all or nothing over both stores.
CancelledIsClosed ==
    \A t \in Transfers : transfer[t].state = "cancel" =>
        \A s \in Sides : picking[t][s].open = 0 /\ picking[t][s].done = 0

\* A draft transfer has no picking: what may be edited or deleted moves nothing.
DraftMovesNothing ==
    \A t \in Transfers : transfer[t].state = "draft" => Existing(t) = {}

\* A request that was sent always has its transfer, and the transfer knows it.
RequestIsServed ==
    \A r \in Requests : request[r].state = "done" =>
        request[r].transfer # "none" /\ transfer[request[r].transfer].requested = r

\* The invariant of transfers: what both stores and their requests know of each agrees.
TransferInv ==
    TransferTypeOK /\ SentIsExpected /\ CancelledIsClosed /\ DraftMovesNothing /\ RequestIsServed
=============================================================================
