-------------------------- MODULE DirectReceipts --------------------------
(***************************************************************************)
(* Receipts without a purchase order, returns to a supplier without a      *)
(* receipt, and the correction of a receipt's details (custom_stock).      *)
(*                                                                         *)
(* A form stays open for as long as its clerk likes, and nothing tells it  *)
(* what others change; a button is one transaction, and one that raises is *)
(* undone and is no step.  A form of a receipt has one line for a product, *)
(* or its validation raises.  Units of measure, partners and the messages  *)
(* on the transfers are left out.                                          *)
(***************************************************************************)
EXTENDS Integers, FiniteSets, Functions

CONSTANTS
    Goods,        \* product.product
    Clerks,       \* users, with a form each
    Slips,        \* stock.picking of direct receipts
    Sendings,     \* stock.picking of returns to a supplier
    MaxHandled,   \* bound: quantity of a line
    Worths,       \* costs and prices, 0 for none
    Details,      \* ref_sage, note, partner_id, scheduled_date
    Texts,        \* what a detail can say
    Closed        \* no form

ASSUME DirectAssumption ==
    /\ IsFiniteSet(Slips) /\ IsFiniteSet(Sendings)
    /\ MaxHandled \in Nat \ {0} /\ Worths \subseteq Nat /\ 0 \in Worths

VARIABLES
    onHand,       \* quantity of each product at the location
    standard,     \* standard_price
    newPrice,     \* purchase_new_price
    slip,         \* quantities and prices of the moves of a receipt
    detail,       \* its details
    sending,      \* state of a return, what it plans and what left
    form,         \* the form a clerk has open
    outdated,     \* products of a receipt whose cost another clerk changed while
                  \* its form was open (history)
    wanted,       \* what a clerk last typed for a detail (history)
    overwritten   \* details that a form opened before put back (history)

directVars == <<onHand, standard, newPrice, slip, detail, sending, form, outdated,
                wanted, overwritten>>

Handled == 1 .. MaxHandled

\* product.template.effective_cost
EffectiveCost(g) == IF newPrice[g] > 0 THEN newPrice[g] ELSE standard[g]

\* quantity 0: no line.  due: its cost when it was received, or its new price (history).
Slip == [done : BOOLEAN, quantity : [Goods -> Nat], price : [Goods -> Worths], due : [Goods -> Worths]]

NoGoods == [g \in Goods |-> 0]
NoSlip  == [done |-> FALSE, quantity |-> NoGoods, price |-> NoGoods, due |-> NoGoods]

\* credited: quantities of the draft credit note.
Sending == [state : {"none", "open", "done", "cancel"}, planned : [Goods -> Nat],
            left : [Goods -> Nat], credited : [Goods -> Nat]]

NoSending == [state |-> "none", planned |-> NoGoods, left |-> NoGoods, credited |-> NoGoods]

\* moved: what others changed since the form read it (history).
Entry == [kind : {"entry"}, lines : SUBSET Goods, shown : [Goods -> Worths], moved : SUBSET Goods]
Info  == [kind : {"info"}, slip : Slips, shown : [Details -> Texts], moved : SUBSET Details]

NewEntry == [kind |-> "entry", lines |-> {}, shown |-> NoGoods, moved |-> {}]

Entering(c) == form[c] # Closed /\ form[c].kind = "entry"
Editing(c)  == form[c] # Closed /\ form[c].kind = "info"

DirectInit ==
    /\ onHand = NoGoods
    /\ standard \in [Goods -> Worths]
    /\ newPrice = NoGoods
    /\ slip = [s \in Slips |-> NoSlip]
    /\ detail \in [Slips -> {t \in [Details -> Texts] : \A d, e \in Details : t[d] = t[e]}]
    /\ sending = [r \in Sendings |-> NoSending]
    /\ form = [c \in Clerks |-> Closed]
    /\ outdated = [s \in Slips |-> {}]
    /\ wanted = detail
    /\ overwritten = [s \in Slips |-> {}]

-----------------------------------------------------------------------------
(* Direct receipts.                                                        *)

OpenEntry(c) ==
    /\ form[c] = Closed
    /\ form' = [form EXCEPT ![c] = NewEntry]
    /\ UNCHANGED <<onHand, standard, newPrice, slip, detail, sending, outdated, wanted, overwritten>>

\* _onchange_product_id: the line reads the cost.
EnterProduct(c, g) ==
    /\ Entering(c) /\ g \notin form[c].lines
    /\ form' = [form EXCEPT ![c].lines = @ \cup {g}, ![c].shown[g] = EffectiveCost(g)]
    /\ UNCHANGED <<onHand, standard, newPrice, slip, detail, sending, outdated, wanted, overwritten>>

\* What the forms do not know yet, once costs were written.
Moved ==
    [c \in Clerks |->
        IF Entering(c)
        THEN [form[c] EXCEPT !.moved = @ \cup {g \in form[c].lines : EffectiveCost(g)' # EffectiveCost(g)}]
        ELSE form[c]]

\* Variant: the new price is for the next receipt.
Valued_Shown(c, price) == [g \in Goods |-> IF g \in form[c].lines THEN form[c].shown[g] ELSE 0]

\* The new price of a line, or else the cost it read.
Valued(c, price) ==
    [g \in Goods |-> IF g \notin form[c].lines THEN 0
                     ELSE IF price[g] > 0 THEN price[g] ELSE form[c].shown[g]]

\* action_valider; button_validate refuses a receipt with a price of 0.  average: what
\* Odoo makes of the standard prices.
Receive(c, s, quantity, price, average) ==
    LET entered == form[c].lines
        due == [g \in Goods |-> IF g \notin entered THEN 0
                                ELSE IF price[g] > 0 THEN price[g] ELSE EffectiveCost(g)]
    IN
    /\ Entering(c) /\ entered # {}
    /\ ~slip[s].done
    /\ \A g \in entered : Valued(c, price)[g] > 0
    /\ slip' = [slip EXCEPT ![s] =
          [done |-> TRUE, quantity |-> [g \in Goods |-> IF g \in entered THEN quantity[g] ELSE 0],
           price |-> Valued(c, price), due |-> due]]
    /\ onHand' = [g \in Goods |-> onHand[g] + slip'[s].quantity[g]]
    /\ standard' = [g \in Goods |-> IF g \in entered THEN average[g] ELSE standard[g]]
    /\ newPrice' = [g \in Goods |-> IF g \in entered /\ price[g] > 0 THEN price[g] ELSE newPrice[g]]
    /\ outdated' = [outdated EXCEPT ![s] = form[c].moved]
    /\ form' = [Moved EXCEPT ![c] = Closed]
    /\ UNCHANGED <<detail, sending, wanted, overwritten>>

\* The product's form, another receipt, or the average cost.
SetCost(g, w) ==
    /\ \/ newPrice' = [newPrice EXCEPT ![g] = w] /\ UNCHANGED standard
       \/ standard' = [standard EXCEPT ![g] = w] /\ UNCHANGED newPrice
    /\ form' = Moved
    /\ UNCHANGED <<onHand, slip, detail, sending, outdated, wanted, overwritten>>

Cancel(c) ==
    /\ form[c] # Closed
    /\ form' = [form EXCEPT ![c] = Closed]
    /\ UNCHANGED <<onHand, standard, newPrice, slip, detail, sending, outdated, wanted, overwritten>>

-----------------------------------------------------------------------------
(* Details of a receipt.                                                   *)

\* default_get
OpenInfo(c, s) ==
    /\ form[c] = Closed /\ slip[s].done
    /\ form' = [form EXCEPT ![c] = [kind |-> "info", slip |-> s, shown |-> detail[s], moved |-> {}]]
    /\ UNCHANGED <<onHand, standard, newPrice, slip, detail, sending, outdated, wanted, overwritten>>

\* Variant: a detail that another clerk changed is not typed over.
Written_Unmoved(c, typed, text) ==
    [d \in Details |-> IF d \in typed \ form[c].moved THEN text[d] ELSE form[c].shown[d]]

\* The details as the form has them.
Written(c, typed, text) == [d \in Details |-> IF d \in typed THEN text[d] ELSE form[c].shown[d]]

\* action_appliquer: all the details are written, if one of them changes.
ApplyInfo(c, typed, text) ==
    LET s == form[c].slip
        written == Written(c, typed, text)
    IN
    /\ Editing(c)
    /\ written # detail[s]
    /\ detail' = [detail EXCEPT ![s] = written]
    /\ wanted' = [wanted EXCEPT ![s] = [d \in Details |-> IF d \in typed THEN text[d] ELSE wanted[s][d]]]
    /\ overwritten' = [overwritten EXCEPT ![s] = (@ \cup form[c].moved) \ typed]
    /\ form' = [b \in Clerks |->
          IF b = c THEN Closed
          ELSE IF Editing(b) /\ form[b].slip = s
               THEN [form[b] EXCEPT !.moved = @ \cup {d \in Details : written[d] # detail[s][d]}]
          ELSE form[b]]
    /\ UNCHANGED <<onHand, standard, newPrice, slip, sending, outdated>>

-----------------------------------------------------------------------------
(* Returns to a supplier.                                                  *)

\* RetourFournisseurWizard.action_valider, _creer_avoir: the return is ready and its
\* credit note a draft, before anything leaves.
PlanReturn(r, quantity, credited) ==
    /\ sending[r].state = "none"
    /\ \E g \in Goods : quantity[g] > 0
    /\ sending' = [sending EXCEPT ![r] =
          [state |-> "open", planned |-> quantity, left |-> NoGoods,
           credited |-> IF credited THEN quantity ELSE NoGoods]]
    /\ UNCHANGED <<onHand, standard, newPrice, slip, detail, form, outdated, wanted, overwritten>>

\* Variant: what was planned leaves, whatever is counted.
Remaining_Planned(r, left) == [g \in Goods |-> onHand[g] - sending[r].planned[g]]

Remaining(r, left) == [g \in Goods |-> onHand[g] - left[g]]

\* Its validation, with what is counted; no backorder.
SendBack(r, left) ==
    /\ sending[r].state = "open"
    /\ sending' = [sending EXCEPT ![r].state = "done", ![r].left = left]
    /\ onHand' = Remaining(r, left)
    /\ UNCHANGED <<standard, newPrice, slip, detail, form, outdated, wanted, overwritten>>

\* The draft credit note stays.
CancelReturn(r) ==
    /\ sending[r].state = "open"
    /\ sending' = [sending EXCEPT ![r].state = "cancel"]
    /\ UNCHANGED <<onHand, standard, newPrice, slip, detail, form, outdated, wanted, overwritten>>

-----------------------------------------------------------------------------
ClerkStep(c) ==
    \/ OpenEntry(c) \/ Cancel(c)
    \/ \E g \in Goods : EnterProduct(c, g)
    \/ \E s \in Slips : \/ OpenInfo(c, s)
                        \/ \E quantity \in [Goods -> Handled], price, average \in [Goods -> Worths] :
                              Receive(c, s, quantity, price, average)
    \/ \E typed \in SUBSET Details, text \in [Details -> Texts] : ApplyInfo(c, typed, text)

ReturnStep(r) ==
    \/ \E quantity \in [Goods -> 0 .. MaxHandled] :
          \/ \E credited \in BOOLEAN : PlanReturn(r, quantity, credited)
          \/ SendBack(r, quantity)
    \/ CancelReturn(r)

DirectNext ==
    \/ \E c \in Clerks : ClerkStep(c)
    \/ \E r \in Sendings : ReturnStep(r)
    \/ \E g \in Goods, w \in Worths : SetCost(g, w)

DirectSpec == DirectInit /\ [][DirectNext]_directVars

-----------------------------------------------------------------------------
\* Type invariant of stock, costs, receipts, returns and forms.
DirectTypeOK ==
    /\ onHand \in [Goods -> Int]
    /\ standard \in [Goods -> Worths] /\ newPrice \in [Goods -> Worths]
    /\ slip \in [Slips -> Slip] /\ sending \in [Sendings -> Sending]
    /\ detail \in [Slips -> [Details -> Texts]] /\ wanted \in [Slips -> [Details -> Texts]]
    /\ form \in [Clerks -> Entry \cup Info \cup {Closed}]
    /\ outdated \in [Slips -> SUBSET Goods] /\ overwritten \in [Slips -> SUBSET Details]

\* The stock is what direct receipts brought less what was counted when returns left,
\* whatever was planned or credited.
StockIsWhatCame ==
    \A g \in Goods :
        onHand[g] = SumFunctionOnSet([s \in Slips |-> slip[s].quantity[g]], Slips)
                    - SumFunctionOnSet([r \in Sendings |-> sending[r].left[g]], Sendings)

\* Nothing is received free, and each product is valued at what it cost when it was
\* received, or at the new price of its line, unless its cost was written again while
\* the form was open: the line keeps the cost it read.
ValuedAtItsCost ==
    \A s \in Slips, g \in Goods :
        slip[s].quantity[g] > 0 =>
            /\ slip[s].price[g] > 0
            /\ g \notin outdated[s] => slip[s].price[g] = slip[s].due[g]

\* A detail of a receipt says what a clerk last typed for it, unless a form opened
\* before put the older text back.
DetailsAreWanted ==
    \A s \in Slips, d \in Details : d \notin overwritten[s] => detail[s][d] = wanted[s][d]

\* The invariant of direct receipts and returns.
DirectInv == DirectTypeOK /\ StockIsWhatCame /\ ValuedAtItsCost /\ DetailsAreWanted

\* What a form shows is still true of what nobody wrote since.
FormsAreFresh ==
    \A c \in Clerks :
        /\ Entering(c) =>
              \A g \in form[c].lines \ form[c].moved : form[c].shown[g] = EffectiveCost(g)
        /\ Editing(c) =>
              \A d \in Details \ form[c].moved : form[c].shown[d] = detail[form[c].slip][d]

\* What is not received brings nothing, and what is not returned takes nothing.
NothingBeforeItsTime ==
    /\ \A s \in Slips : ~slip[s].done => slip[s] = NoSlip
    /\ \A r \in Sendings : sending[r].state # "done" => sending[r].left = NoGoods

\* The inductive invariant of direct receipts.
DirectIInv == DirectInv /\ FormsAreFresh /\ NothingBeforeItsTime
=============================================================================
