---------------------------- MODULE Stock_proofs ----------------------------
(***************************************************************************)
(* Proofs about Transfers, Receptions, PhysicalInventory, InventoryRepairs *)
(* and DirectReceipts, for any transfers, requests, places, products,      *)
(* receipts, bills, returns, quantities and sheets.                        *)
(*                                                                         *)
(* Quantities received, billed and replayed are sums over receipts, bills  *)
(* and disturbances; what the wizards apply row by row is a function on    *)
(* the subsets of the rows, reasoned about by induction on them.           *)
(***************************************************************************)
EXTENDS MCStock, Sums

-----------------------------------------------------------------------------
(* Transfers and requests.                                                 *)

\* What is not there has no pickings, and a transfer that a request names is there.
NothingIsBlank ==
    /\ \A t \in Transfers : transfer[t].state = "none" => Existing(t) = {}
    /\ \A r \in Requests : request[r].transfer # "none" =>
          request[r].state = "done" /\ transfer[request[r].transfer].state # "none"

TransferIInv == TransferInv /\ NothingIsBlank

\* What the invariant says of transfer t, its pickings p, and the n copies refused.
TransferIsSound(t, p, n) ==
    /\ p["out"].open + p["out"].done <= p["in"].open + p["in"].done + n
    /\ t.state = "cancel" => \A s \in Sides : p[s].open = 0 /\ p[s].done = 0
    /\ t.state \in {"none", "draft"} => \A s \in Sides : ~(Copies(p[s]) > 0)

\* What it says of requests.
RequestsAreSound ==
    \A r \in Requests :
        /\ request[r].transfer # "none" =>
              request[r].state = "done" /\ transfer[request[r].transfer].state # "none"
        /\ request[r].state = "done" =>
              request[r].transfer # "none" /\ transfer[request[r].transfer].requested = r

\* What completing, finishing and cancelling do to the copies of a picking.
LEMMA PickingsChange ==
    ASSUME NEW p \in Picking
    PROVE  /\ p.open \in Nat /\ p.done \in Nat /\ p.cancelled \in Nat
           /\ Completed(p) \in Picking /\ Completed(p).open = p.open + 1
           /\ Completed(p).done = p.done /\ Completed(p).cancelled = p.cancelled
           /\ AllDone(p) \in Picking /\ AllDone(p).open = 0
           /\ AllDone(p).done = p.done + p.open /\ AllDone(p).cancelled = p.cancelled
           /\ AllCancelled(p) \in Picking /\ AllCancelled(p).open = 0
           /\ AllCancelled(p).done = p.done /\ AllCancelled(p).cancelled = p.cancelled + p.open
<1>1. p.open \in Nat /\ p.done \in Nat /\ p.cancelled \in Nat
  BY DEF Picking
<1>2. Completed(p) \in Picking /\ Completed(p).open = p.open + 1
      /\ Completed(p).done = p.done /\ Completed(p).cancelled = p.cancelled
  BY <1>1 DEF Completed, Picking
<1>3. PICK z \in Nat : z = 0
  OBVIOUS
<1>4. AllDone(p) = [p EXCEPT !.open = z, !.done = p.done + p.open]
  BY <1>3 DEF AllDone, Picking
<1>5. AllCancelled(p) = [p EXCEPT !.open = z, !.cancelled = p.cancelled + p.open]
  BY <1>3 DEF AllCancelled, Picking
<1>6. AllDone(p) \in Picking /\ AllDone(p).open = 0
      /\ AllDone(p).done = p.done + p.open /\ AllDone(p).cancelled = p.cancelled
  <2>1. PICK d \in Nat : d = p.done + p.open
    BY <1>1
  <2>2. PICK m : m = [p EXCEPT !.open = z, !.done = d]
    OBVIOUS
  <2>3. z \in Nat /\ d \in Nat
    BY <1>3, <2>1
  <2>4. m \in Picking /\ m.open = z /\ m.done = d /\ m.cancelled = p.cancelled
    BY <2>2, <2>3 DEF Picking
  <2> QED
    BY <1>3, <1>4, <2>1, <2>2, <2>4
<1>7. AllCancelled(p) \in Picking /\ AllCancelled(p).open = 0
      /\ AllCancelled(p).done = p.done /\ AllCancelled(p).cancelled = p.cancelled + p.open
  <2>1. PICK d \in Nat : d = p.cancelled + p.open
    BY <1>1
  <2>2. PICK m : m = [p EXCEPT !.open = z, !.cancelled = d]
    OBVIOUS
  <2>3. z \in Nat /\ d \in Nat
    BY <1>3, <2>1
  <2>4. m \in Picking /\ m.open = z /\ m.done = p.done /\ m.cancelled = d
    BY <2>2, <2>3 DEF Picking
  <2> QED
    BY <1>3, <1>5, <2>1, <2>2, <2>4
<1> QED
  BY <1>1, <1>2, <1>6, <1>7

\* The copies of a picking are numbers.
LEMMA CopiesAreNumbers ==
    ASSUME NEW p \in Picking
    PROVE  p.open \in Nat /\ p.done \in Nat /\ p.cancelled \in Nat
BY DEF Picking

\* Nothing is on a picking that does not exist.
LEMMA NoPickingIsEmpty ==
    /\ NoPicking \in Picking
    /\ NoPicking.open = 0 /\ NoPicking.done = 0 /\ NoPicking.cancelled = 0
<1>1. PICK z \in Nat : z = 0
  OBVIOUS
<1>2. NoPicking = [open |-> z, done |-> z, cancelled |-> z]
  BY <1>1 DEF NoPicking
<1> QED
  BY <1>1, <1>2 DEF Picking

\* The invariant of transfers, one transfer at a time.
LEMMA TransferParts ==
    TransferIInv <=>
        /\ TransferTypeOK
        /\ \A t \in Transfers : TransferIsSound(transfer[t], picking[t], refused[t])
        /\ RequestsAreSound
BY DEF TransferIInv, TransferInv, NothingIsBlank, SentIsExpected, CancelledIsClosed,
   DraftMovesNothing, RequestIsServed, Existing, TransferIsSound, RequestsAreSound, Sides

\* The same of the next state.
LEMMA TransferPartsNext ==
    TransferIInv' <=>
        /\ TransferTypeOK'
        /\ \A t \in Transfers : TransferIsSound(transfer'[t], picking'[t], refused'[t])
        /\ RequestsAreSound'
BY DEF TransferIInv, TransferInv, NothingIsBlank, SentIsExpected, CancelledIsClosed,
   DraftMovesNothing, RequestIsServed, Existing, TransferIsSound, RequestsAreSound, Sides

\* A handler that writes the state of one transfer and its pickings.
LEMMA OneTransferChanges ==
    ASSUME TransferIInv, NEW t \in Transfers, NEW st \in TransferStates \ {"none"},
           NEW p \in [Sides -> Picking], NEW n \in Nat,
           refused' = [refused EXCEPT ![t] = n],
           transfer' = [transfer EXCEPT ![t].state = st],
           displayed' \in [Transfers -> SUBSET TransferStates],
           picking' = [picking EXCEPT ![t] = p],
           request' = request,
           TransferIsSound([transfer[t] EXCEPT !.state = st], p, n)
    PROVE  TransferIInv'
<1>1. TransferTypeOK /\ RequestsAreSound
      /\ \A u \in Transfers : TransferIsSound(transfer[u], picking[u], refused[u])
  BY TransferParts
<1>2. TransferTypeOK'
  BY <1>1 DEF TransferTypeOK, Transfer
<1>3. \A u \in Transfers \ {t} : transfer'[u] = transfer[u] /\ picking'[u] = picking[u]
                                   /\ refused'[u] = refused[u]
  BY <1>1 DEF TransferTypeOK
<1>4. transfer'[t] = [transfer[t] EXCEPT !.state = st] /\ picking'[t] = p /\ refused'[t] = n
  BY <1>1 DEF TransferTypeOK
<1>5. \A u \in Transfers : TransferIsSound(transfer'[u], picking'[u], refused'[u])
  BY <1>1, <1>3, <1>4
<1>6. transfer'[t].state = st /\ transfer'[t].requested = transfer[t].requested
  BY <1>1, <1>4 DEF TransferTypeOK, Transfer
<1>7. \A u \in Transfers : transfer'[u].requested = transfer[u].requested
                           /\ (transfer[u].state # "none" => transfer'[u].state # "none")
  BY <1>3, <1>6
<1>8. RequestsAreSound'
  BY <1>1, <1>7 DEF RequestsAreSound, TransferTypeOK, Request
<1> QED
  BY <1>2, <1>5, <1>8, TransferPartsNext

\* The rows of a transfer go.
LEMMA TransferVanishes ==
    ASSUME TransferIInv, NEW t \in Transfers, Vanish(t)
    PROVE  TransferIInv'
<1>1. TransferTypeOK /\ RequestsAreSound
      /\ \A u \in Transfers : TransferIsSound(transfer[u], picking[u], refused[u])
  BY TransferParts
<1>2. NoTransfer \in Transfer /\ NoRequest \in Request /\ NoPicking \in Picking
  BY TransferAssumption, NoPickingIsEmpty DEF NoTransfer, Transfer, TransferStates, NoRequest, Request
<1>3. TransferTypeOK'
  <2>1. [s \in Sides |-> NoPicking] \in [Sides -> Picking]
    BY <1>2
  <2>2. picking' \in [Transfers -> [Sides -> Picking]]
    BY <1>1, <2>1 DEF Vanish, TransferTypeOK
  <2>3. transfer' \in [Transfers -> Transfer] /\ request' \in [Requests -> Request]
    BY <1>1, <1>2 DEF Vanish, TransferTypeOK
  <2>4. displayed' \in [Transfers -> SUBSET TransferStates] /\ refused' \in [Transfers -> Nat]
    BY <1>1 DEF Vanish, TransferTypeOK
  <2> QED
    BY <2>2, <2>3, <2>4 DEF TransferTypeOK
<1>4. \A u \in Transfers \ {t} : transfer'[u] = transfer[u] /\ picking'[u] = picking[u]
                                   /\ refused'[u] = refused[u]
  BY <1>1 DEF TransferTypeOK, Vanish
<1>5. transfer'[t] = NoTransfer /\ picking'[t] = [s \in Sides |-> NoPicking] /\ refused'[t] = 0
  BY <1>1 DEF TransferTypeOK, Vanish
<1>6. TransferIsSound(NoTransfer, [s \in Sides |-> NoPicking], 0)
  BY NoPickingIsEmpty DEF TransferIsSound, NoTransfer, Sides, Copies
<1>7. \A u \in Transfers : TransferIsSound(transfer'[u], picking'[u], refused'[u])
  BY <1>1, <1>4, <1>5, <1>6
<1>8. \A r \in Requests : request'[r] = IF request[r].transfer = t THEN NoRequest ELSE request[r]
  BY DEF Vanish, Requesting
<1>9. RequestsAreSound'
  BY <1>1, <1>4, <1>8 DEF RequestsAreSound, NoRequest, TransferTypeOK, Request
<1> QED
  BY <1>3, <1>7, <1>9, TransferPartsNext

\* Every handler keeps the invariant of transfers.
LEMMA TransferStep ==
    ASSUME TransferIInv, TransferNext
    PROVE  TransferIInv'
<1>1. TransferTypeOK /\ RequestsAreSound
      /\ \A u \in Transfers : TransferIsSound(transfer[u], picking[u], refused[u])
  BY TransferParts
<1> USE TransferAssumption
<1>2. ASSUME NEW r \in Requests, CreateRequest(r) \/ DeleteRequest(r)
      PROVE  TransferIInv'
  <2>1. UNCHANGED <<transfer, picking, displayed, refused>>
    BY <1>2 DEF CreateRequest, DeleteRequest
  <2>2. request' \in [Requests -> Request]
    BY <1>1, <1>2 DEF CreateRequest, DeleteRequest, TransferTypeOK, Request, NoRequest
  <2>3. \A q \in Requests \ {r} : request'[q] = request[q]
    BY <1>1, <1>2 DEF CreateRequest, DeleteRequest, TransferTypeOK
  <2>4. request'[r].state # "done" /\ request'[r].transfer = "none"
    BY <1>1, <1>2 DEF CreateRequest, DeleteRequest, TransferTypeOK, Request, NoRequest, RequestsAreSound
  <2>5. RequestsAreSound'
    BY <1>1, <2>1, <2>3, <2>4 DEF RequestsAreSound
  <2>6. TransferTypeOK'
    BY <1>1, <2>1, <2>2 DEF TransferTypeOK
  <2> QED
    BY <1>1, <2>1, <2>5, <2>6, TransferPartsNext
<1>3. ASSUME NEW r \in Requests, ConfirmRequest(r)
      PROVE  TransferIInv'
  <2>1. CASE UNCHANGED <<transfer, request, displayed>>
    <3>1. UNCHANGED transferVars
      BY <1>3, <2>1 DEF ConfirmRequest, transferVars
    <3> QED
      BY <1>1, <3>1, TransferPartsNext DEF transferVars, TransferTypeOK, RequestsAreSound
  <2>2. CASE request[r].transfer = "none" /\ \E t \in Transfers :
                /\ transfer[t].state = "none"
                /\ transfer' = [transfer EXCEPT ![t] = [state |-> "draft", requested |-> r]]
                /\ displayed' = [displayed EXCEPT ![t] = {"draft"}]
                /\ request' = [request EXCEPT ![r] = [state |-> "done", transfer |-> t]]
    <3>1. PICK t \in Transfers :
                /\ transfer[t].state = "none"
                /\ transfer' = [transfer EXCEPT ![t] = [state |-> "draft", requested |-> r]]
                /\ displayed' = [displayed EXCEPT ![t] = {"draft"}]
                /\ request' = [request EXCEPT ![r] = [state |-> "done", transfer |-> t]]
      BY <2>2
    <3> DEFINE new == [state |-> "draft", requested |-> r]
               asked == [state |-> "done", transfer |-> t]
    <3>2. new \in Transfer /\ asked \in Request
      BY DEF Transfer, Request, TransferStates
    <3>3. UNCHANGED <<picking, refused>>
      BY <1>3 DEF ConfirmRequest
    <3>4. /\ transfer'[t] = new /\ request'[r] = asked
          /\ \A u \in Transfers \ {t} : transfer'[u] = transfer[u]
          /\ \A q \in Requests \ {r} : request'[q] = request[q]
      BY <1>1, <3>1 DEF TransferTypeOK
    <3>5. /\ transfer' \in [Transfers -> Transfer] /\ request' \in [Requests -> Request]
          /\ displayed' \in [Transfers -> SUBSET TransferStates]
      BY <1>1, <3>1, <3>2 DEF TransferTypeOK, TransferStates
    <3>6. new.state = "draft" /\ new.requested = r /\ asked.state = "done" /\ asked.transfer = t
      OBVIOUS
    <3> HIDE DEF new, asked
    <3>7. TransferTypeOK'
      BY <1>1, <3>3, <3>5 DEF TransferTypeOK
    <3>8. TransferIsSound(new, picking[t], refused[t])
      BY <1>1, <3>1, <3>6 DEF TransferIsSound
    <3>9. \A u \in Transfers : TransferIsSound(transfer'[u], picking'[u], refused'[u])
      BY <1>1, <3>3, <3>4, <3>8
    <3>10. \A q \in Requests \ {r} : request[q].transfer # t
      BY <1>1, <3>1 DEF RequestsAreSound
    <3>11. RequestsAreSound'
      BY <1>1, <3>4, <3>6, <3>10 DEF RequestsAreSound, TransferTypeOK, Request
    <3> QED
      BY <3>7, <3>9, <3>11, TransferPartsNext
  <2> QED
    BY <1>3, <2>1, <2>2 DEF ConfirmRequest
<1>4. ASSUME NEW t \in Transfers, CreateTransfer(t) PROVE TransferIInv'
  <2>1. /\ picking' = [picking EXCEPT ![t] = picking[t]]
        /\ refused' = [refused EXCEPT ![t] = refused[t]] /\ refused[t] \in Nat
    BY <1>1, <1>4 DEF CreateTransfer, TransferTypeOK
  <2>2. displayed' \in [Transfers -> SUBSET TransferStates] /\ picking[t] \in [Sides -> Picking]
    BY <1>1, <1>4 DEF CreateTransfer, TransferTypeOK, TransferStates
  <2>3. TransferIsSound([transfer[t] EXCEPT !.state = "draft"], picking[t], refused[t])
    BY <1>1, <1>4 DEF CreateTransfer, TransferIsSound, TransferTypeOK, Transfer
  <2> QED
    BY <1>4, <2>1, <2>2, <2>3, OneTransferChanges DEF CreateTransfer, TransferStates
<1>5. ASSUME NEW t \in Transfers, NEW st \in TransferStates \ {"none"}, SetTransfer(t, st)
      PROVE  /\ transfer' = [transfer EXCEPT ![t].state = st]
             /\ displayed' \in [Transfers -> SUBSET TransferStates]
  BY <1>1, <1>5 DEF SetTransfer, TransferTypeOK
<1>6. ASSUME NEW t \in Transfers
      PROVE  /\ \A s \in Sides : picking[t][s] \in Picking
             /\ picking[t] \in [Sides -> Picking]
             /\ transfer[t] \in Transfer /\ refused[t] \in Nat
             /\ refused' = refused => refused' = [refused EXCEPT ![t] = refused[t]]
             /\ TransferIsSound(transfer[t], picking[t], refused[t])
  BY <1>1 DEF TransferTypeOK
<1>7. ASSUME NEW t \in Transfers, ConfirmTransfer(t) PROVE TransferIInv'
  <2>1. PICK p \in Received(picking[t]["in"]) :
            picking' = [picking EXCEPT ![t] = [in |-> p, out |-> Completed(@["out"])]]
    BY <1>7 DEF ConfirmTransfer
  <2> DEFINE i == picking[t]["in"]
             o == picking[t]["out"]
             after == [in |-> p, out |-> Completed(o)]
  <2>2. i \in Picking /\ o \in Picking
    BY <1>6 DEF Sides
  <2>3. o.open + o.done <= i.open + i.done + refused[t]
    BY <1>6 DEF TransferIsSound
  <2>4. picking' = [picking EXCEPT ![t] = after]
    BY <2>1
  <2>5. p \in {Completed(i)} \cup {[i EXCEPT !.done = @ + 1]}
    BY <2>1 DEF Received
  <2> HIDE DEF i, o
  <2>6. /\ [i EXCEPT !.done = @ + 1] \in Picking
        /\ [i EXCEPT !.done = @ + 1].open = i.open /\ [i EXCEPT !.done = @ + 1].done = i.done + 1
    BY <2>2 DEF Picking
  <2>7. p \in Picking /\ p.open + p.done = i.open + i.done + 1
    <3>1. i.open \in Nat /\ i.done \in Nat
      BY <2>2, CopiesAreNumbers
    <3>2. CASE p = Completed(i)
      <4>1. Completed(i) \in Picking /\ Completed(i).open = i.open + 1 /\ Completed(i).done = i.done
        BY <2>2, PickingsChange
      <4> QED
        BY <3>1, <3>2, <4>1
    <3>3. CASE p = [i EXCEPT !.done = @ + 1]
      BY <2>6, <3>1, <3>3
    <3> QED
      BY <2>5, <3>2, <3>3
  <2>8. Completed(o) \in Picking /\ Completed(o).open + Completed(o).done = o.open + o.done + 1
    BY <2>2, PickingsChange
  <2>9. after \in [Sides -> Picking] /\ after["in"] = p /\ after["out"] = Completed(o)
    BY <2>7, <2>8 DEF Sides
  <2> HIDE DEF after
  <2>10. after["out"].open + after["out"].done <= after["in"].open + after["in"].done + refused[t]
    <3>1. o.open + o.done \in Nat /\ i.open + i.done \in Nat /\ refused[t] \in Nat
      BY <1>6, <2>2, PickingsChange
    <3> QED
      BY <2>3, <2>7, <2>8, <2>9, <3>1
  <2>11. TransferIsSound([transfer[t] EXCEPT !.state = "confirmed"], after, refused[t])
    BY <1>6, <2>10 DEF TransferIsSound, Transfer
  <2>12. SetTransfer(t, "confirmed") /\ request' = request /\ refused' = refused
    BY <1>7 DEF ConfirmTransfer
  <2> QED
    BY <1>5, <1>6, <2>4, <2>9, <2>11, <2>12, OneTransferChanges DEF TransferStates
<1>8. ASSUME NEW t \in Transfers, CancelTransfer(t) PROVE TransferIInv'
  <2>1. /\ SetTransfer(t, "cancel") /\ request' = request
        /\ picking' = [picking EXCEPT ![t] = Cancelled(t)]
        /\ refused' = [refused EXCEPT ![t] = 0]
    BY <1>8 DEF CancelTransfer
  <2>2. \A s \in Sides : /\ Cancelled(t)[s] = AllCancelled(picking[t][s])
                         /\ Cancelled(t)[s] \in Picking
                         /\ Cancelled(t)[s].open = 0 /\ Cancelled(t)[s].done = picking[t][s].done
    BY <1>6, PickingsChange DEF Cancelled
  <2>3. Cancelled(t) \in [Sides -> Picking]
    BY <2>2 DEF Cancelled
  <2>4. \A s \in Sides : picking[t][s].done = 0
    <3> SUFFICES ASSUME NEW s \in Sides, s \notin Existing(t)
                 PROVE  picking[t][s].done = 0
      BY <1>8 DEF CancelTransfer, Cancellable
    <3>1. picking[t][s] \in Picking /\ ~(Copies(picking[t][s]) > 0)
      BY <1>6 DEF Existing
    <3> QED
      <4> DEFINE p == picking[t][s]
      <4>1. p \in Picking /\ ~(p.open + p.done + p.cancelled > 0)
        BY <3>1 DEF Copies
      <4> HIDE DEF p
      <4>2. p.open \in Nat /\ p.done \in Nat /\ p.cancelled \in Nat
        BY <4>1, CopiesAreNumbers
      <4>3. p.done = 0
        BY <4>1, <4>2
      <4> QED
        BY <4>3 DEF p
  <2>5. TransferIsSound([transfer[t] EXCEPT !.state = "cancel"], Cancelled(t), 0)
    BY <1>6, <2>2, <2>4 DEF TransferIsSound, Sides, Transfer
  <2> QED
    BY <1>5, <2>1, <2>3, <2>5, OneTransferChanges DEF TransferStates
<1>9. ASSUME NEW t \in Transfers, DeleteTransfer(t) \/ DraftTransfer(t) PROVE TransferIInv'
  BY <1>9, TransferVanishes DEF DeleteTransfer, DraftTransfer
<1>10. ASSUME NEW t \in Transfers, NEW s \in Sides, NEW q \in Picking, NEW n \in Nat,
              NEW st \in {"done", "reject"},
              picking' = [picking EXCEPT ![t][s] = q],
              refused' = [refused EXCEPT ![t] = n],
              \/ q.open + q.done = picking[t][s].open + picking[t][s].done /\ n = refused[t]
              \/ s = "out" /\ q.open = 0 /\ q.done = 0
              \/ s = "in" /\ q.open + q.done + n
                             = picking[t][s].open + picking[t][s].done + refused[t],
              SetTransfer(t, st), request' = request
       PROVE  TransferIInv'
  <2> DEFINE p == [picking[t] EXCEPT ![s] = q]
  <2>1. picking' = [picking EXCEPT ![t] = p]
    BY <1>1, <1>10 DEF TransferTypeOK
  <2>2. p \in [Sides -> Picking] /\ \A x \in Sides : p[x] = IF x = s THEN q ELSE picking[t][x]
    BY <1>6
  <2> HIDE DEF p
  <2>3. /\ picking[t]["in"] \in Picking /\ picking[t]["out"] \in Picking
        /\ refused[t] \in Nat /\ "in" \in Sides /\ "out" \in Sides
    BY <1>6 DEF Sides
  <2>4. /\ picking[t]["out"].open + picking[t]["out"].done
              <= picking[t]["in"].open + picking[t]["in"].done + refused[t]
        /\ picking[t]["in"].open \in Nat /\ picking[t]["in"].done \in Nat
        /\ picking[t]["out"].open \in Nat /\ picking[t]["out"].done \in Nat
        /\ q.open \in Nat /\ q.done \in Nat
    BY <1>6, <2>3, PickingsChange DEF TransferIsSound
  <2>5. p["out"].open + p["out"].done <= p["in"].open + p["in"].done + n
    <3>1. CASE s = "in"
      BY <1>10, <2>2, <2>3, <2>4, <3>1
    <3>2. CASE s = "out"
      <4>1. p["out"] = q /\ p["in"] = picking[t]["in"]
        BY <2>2, <2>3, <3>2
      <4>2. \/ q.open + q.done = picking[t]["out"].open + picking[t]["out"].done /\ n = refused[t]
            \/ q.open = 0 /\ q.done = 0
        BY <1>10, <3>2
      <4> QED
        BY <1>10, <2>4, <4>1, <4>2
    <3> QED
      BY <3>1, <3>2 DEF Sides
  <2>6. TransferIsSound([transfer[t] EXCEPT !.state = st], p, n)
    BY <1>6, <2>5 DEF TransferIsSound, Transfer
  <2>7. st \in TransferStates \ {"none"}
    BY <1>10 DEF TransferStates
  <2>8. /\ transfer' = [transfer EXCEPT ![t].state = st]
        /\ displayed' \in [Transfers -> SUBSET TransferStates]
    BY <1>5, <1>10, <2>7
  <2> QED
    BY <1>10, <2>1, <2>2, <2>6, <2>7, <2>8, OneTransferChanges
<1>11. ASSUME NEW t \in Transfers, NEW s \in Sides, ValidatePicking(t, s) PROVE TransferIInv'
  <2>1. PICK q \in {picking[t][s], AllDone(picking[t][s])} :
            picking' = [picking EXCEPT ![t][s] = q]
    BY <1>11 DEF ValidatePicking
  <2>2. q \in Picking /\ q.open + q.done = picking[t][s].open + picking[t][s].done
    BY <1>6, <2>1, PickingsChange
  <2>3. SetTransfer(t, "done") /\ request' = request /\ refused' = refused
    BY <1>11 DEF ValidatePicking
  <2> QED
    BY <1>6, <1>10, <2>1, <2>2, <2>3
<1>12. ASSUME NEW t \in Transfers, NEW s \in Sides, CancelPicking(t, s) PROVE TransferIInv'
  <2> DEFINE q == AllCancelled(picking[t][s])
             n == IF s = "in" THEN refused[t] + picking[t]["in"].open ELSE 0
  <2>1. /\ q \in Picking /\ q.open = 0 /\ q.done = picking[t][s].done
        /\ picking[t][s].done = 0 /\ picking[t][s].open \in Nat
    BY <1>6, <1>12, PickingsChange DEF CancelPicking
  <2>2. /\ picking' = [picking EXCEPT ![t][s] = q] /\ refused' = [refused EXCEPT ![t] = n]
        /\ SetTransfer(t, "reject") /\ request' = request
    BY <1>12 DEF CancelPicking
  <2>3. n \in Nat
    BY <1>6, <2>1
  <2>4. \/ s = "out"
        \/ s = "in" /\ n = refused[t] + picking[t][s].open
    BY DEF Sides
  <2> HIDE DEF q, n
  <2>5. \/ s = "out" /\ q.open = 0 /\ q.done = 0
        \/ s = "in" /\ q.open + q.done + n
                       = picking[t][s].open + picking[t][s].done + refused[t]
    BY <1>6, <2>1, <2>4
  <2> QED
    BY <1>10, <2>1, <2>2, <2>3, <2>5
<1>13. ASSUME NEW t \in Transfers, NEW s \in Sides, DeletePicking(t, s) PROVE TransferIInv'
  <2>1. CASE Vanish(t)
    BY <2>1, TransferVanishes
  <2>2. CASE s = "out" /\ picking' = [picking EXCEPT ![t][s] = NoPicking]
             /\ refused' = [refused EXCEPT ![t] = 0]
             /\ UNCHANGED <<transfer, request, displayed>>
    <3> DEFINE p == [picking[t] EXCEPT !["out"] = NoPicking]
    <3>1. picking' = [picking EXCEPT ![t] = p]
      BY <1>1, <2>2 DEF TransferTypeOK
    <3>2. NoPicking \in Picking
      BY NoPickingIsEmpty
    <3>3. p \in [Sides -> Picking] /\ p["out"] = NoPicking /\ p["in"] = picking[t]["in"]
      BY <1>6, <3>2 DEF Sides
    <3> HIDE DEF p
    <3>4. PICK st \in TransferStates \ {"none"} : st = transfer[t].state
      BY <1>1, <1>13 DEF TransferTypeOK, Transfer, TransferIsSound, DeletePicking, Existing
    <3>5. transfer' = [transfer EXCEPT ![t].state = st]
          /\ displayed' \in [Transfers -> SUBSET TransferStates]
      BY <1>1, <2>2, <3>4 DEF TransferTypeOK, Transfer
    <3>6. TransferIsSound(transfer[t], p, 0)
      <4>1. picking[t]["in"] \in Picking
        BY <1>6 DEF Sides
      <4> QED
        BY <1>6, <3>3, <4>1, NoPickingIsEmpty, PickingsChange DEF TransferIsSound, Sides, Copies
    <3>7. TransferIsSound([transfer[t] EXCEPT !.state = st], p, 0)
      BY <1>6, <3>4, <3>6 DEF Transfer
    <3> QED
      BY <2>2, <3>1, <3>3, <3>4, <3>5, <3>6, <3>7, OneTransferChanges
  <2> QED
    BY <1>13, <2>1, <2>2 DEF DeletePicking
<1> QED
  BY <1>2, <1>3, <1>4, <1>7, <1>8, <1>9, <1>11, <1>12, <1>13 DEF TransferNext

\* The two stores of a transfer and its request agree in every reachable state.
THEOREM TransfersAgree == TransferSpec => []TransferInv
<1>1. TransferInit => TransferIInv
  <2> SUFFICES ASSUME TransferInit PROVE TransferIInv
    OBVIOUS
  <2>1. NoTransfer \in Transfer /\ NoRequest \in Request /\ NoPicking \in Picking
    BY TransferAssumption, NoPickingIsEmpty DEF NoTransfer, Transfer, TransferStates, NoRequest, Request
  <2>2. TransferTypeOK
    BY <2>1 DEF TransferInit, TransferTypeOK
  <2>3. \A t \in Transfers : TransferIsSound(transfer[t], picking[t], refused[t])
    <3> TAKE t \in Transfers
    <3>1. transfer[t] = NoTransfer /\ picking[t] = [s \in Sides |-> NoPicking] /\ refused[t] = 0
      BY DEF TransferInit
    <3>2. /\ picking[t]["in"] = NoPicking /\ picking[t]["out"] = NoPicking
          /\ \A s \in Sides : picking[t][s] = NoPicking
      BY <3>1 DEF Sides
    <3> QED
      BY <3>1, <3>2, NoPickingIsEmpty DEF TransferIsSound, NoTransfer, Copies
  <2>4. RequestsAreSound
    BY DEF TransferInit, RequestsAreSound, NoRequest
  <2> QED
    BY <2>2, <2>3, <2>4, TransferParts
<1>2. TransferIInv /\ [TransferNext]_transferVars => TransferIInv'
  <2>1. TransferIInv /\ UNCHANGED transferVars => TransferIInv'
    BY TransferParts, TransferPartsNext DEF transferVars, TransferTypeOK, RequestsAreSound
  <2> QED
    BY <2>1, TransferStep
<1>3. TransferIInv => TransferInv
  BY DEF TransferIInv
<1> QED
  BY <1>1, <1>2, <1>3, PTL DEF TransferSpec

-----------------------------------------------------------------------------
(* Receipts and supplier bills.                                            *)

\* The terms of the sums are integers, and the sets finite.
LEMMA QuantitiesAreIntegers ==
    ASSUME ReceptionTypeOK
    PROVE  /\ \A S \in SUBSET Receipts : IsFiniteSet(S)
           /\ \A S \in SUBSET Bills : IsFiniteSet(S)
           /\ \A r \in Receipts : QuantityOf(receipt)[r] = receipt[r].quantity
                                  /\ receipt[r].quantity \in Int /\ receipt[r].quantity > 0
           /\ \A b \in Bills : QuantityOf(bill)[b] = bill[b].quantity
                               /\ bill[b].quantity \in Int
<1>1. /\ \A S \in SUBSET Receipts : IsFiniteSet(S)
      /\ \A S \in SUBSET Bills : IsFiniteSet(S)
  BY ReceptionAssumption, FS_Subset
<1>2. /\ receipt \in [Receipts -> Receipt] /\ bill \in [Bills -> Bill]
      /\ MaxReceived \in Nat
  BY ReceptionAssumption DEF ReceptionTypeOK
<1>3. \A r \in Receipts : receipt[r].quantity \in 1 .. MaxReceived
  BY <1>2 DEF Receipt, Quantity
<1>4. \A b \in Bills : bill[b].quantity \in Int
  BY <1>2 DEF Bill
<1>5. \A r \in Receipts : QuantityOf(receipt)[r] = receipt[r].quantity
  BY <1>2 DEF QuantityOf
<1>6. \A b \in Bills : QuantityOf(bill)[b] = bill[b].quantity
  BY <1>2 DEF QuantityOf
<1>7. \A r \in Receipts : receipt[r].quantity \in Int /\ receipt[r].quantity > 0
  BY <1>2, <1>3
<1> QED
  BY <1>1, <1>4, <1>5, <1>6, <1>7

\* What was received and returned are integers.
LEMMA ReceivedIsInteger ==
    ASSUME ReceptionTypeOK
    PROVE  Sum(receipt, Done) \in Int /\ QtyReceived \in Int
           /\ \A S \in SUBSET Bills : Sum(bill, S) \in Int
<1>1. Done \in SUBSET Receipts
  BY DEF Done
<1>2. Sum(receipt, Done) \in Int
  <2>1. \A r \in Done : QuantityOf(receipt)[r] \in Int
    BY <1>1, QuantitiesAreIntegers
  <2> QED
    BY <2>1, <1>1, QuantitiesAreIntegers, SumType DEF Sum
<1>3. ASSUME NEW S \in SUBSET Bills PROVE Sum(bill, S) \in Int
  <2>1. \A b \in S : QuantityOf(bill)[b] \in Int
    BY QuantitiesAreIntegers
  <2> QED
    BY <2>1, QuantitiesAreIntegers, SumType DEF Sum
<1>4. returned \in Int
  BY DEF ReceptionTypeOK
<1> QED
  BY <1>2, <1>3, <1>4 DEF QtyReceived

\* What is done is not taken back by a step that changes a receipt that is not done.
LEMMA DoneStays ==
    ASSUME ReceptionTypeOK, NEW r \in Receipts, receipt[r].state # "done",
           receipt' \in [Receipts -> Receipt], receipt'[r].state # "done",
           \A x \in Receipts \ {r} : receipt'[x] = receipt[x]
    PROVE  Sum(receipt, Done)' = Sum(receipt, Done)
<1>1. Done' = Done
  BY DEF Done
<1>2. r \notin Done /\ Done \in SUBSET Receipts
  BY DEF Done
<1>3. \A x \in Done : QuantityOf(receipt)[x] = QuantityOf(receipt)'[x]
  BY <1>2 DEF QuantityOf, ReceptionTypeOK
<1>4. IsFiniteSet(Done)
  BY <1>2, QuantitiesAreIntegers
<1> QED
  BY <1>1, <1>3, <1>4, SumSame DEF Sum

\* A receipt that is validated adds its quantity.
LEMMA DoneGrows ==
    ASSUME ReceptionTypeOK, NEW r \in Receipts, receipt[r].state = "open",
           receipt' = [receipt EXCEPT ![r].state = "done"]
    PROVE  Sum(receipt, Done)' = Sum(receipt, Done) + receipt[r].quantity
<1> DEFINE f == QuantityOf(receipt)
           g == QuantityOf(receipt)'
<1>1. receipt \in [Receipts -> Receipt]
  BY DEF ReceptionTypeOK
<1>2. receipt'[r].state = "done" /\ \A x \in Receipts \ {r} : receipt'[x] = receipt[x]
  BY <1>1 DEF Receipt
<1>3. Done' = Done \union {r} /\ r \notin Done /\ Done \in SUBSET Receipts
  BY <1>2 DEF Done
<1>4. \A x \in Receipts : g[x] = f[x]
  BY <1>1 DEF QuantityOf, Receipt
<1>5. \A x \in Receipts : f[x] = receipt[x].quantity /\ f[x] \in Int
  BY QuantitiesAreIntegers
<1>6. IsFiniteSet(Done) /\ IsFiniteSet(Done')
  BY <1>3, QuantitiesAreIntegers
<1> HIDE DEF f, g
<1>7. /\ Done \ {r} = Done' \ {r}
      /\ \A y \in Done \ {r} : f[y] = g[y]
      /\ \A y \in Done : f[y] \in Int
      /\ \A y \in Done' : g[y] \in Int
  BY <1>3, <1>4, <1>5
<1>8. SumFunctionOnSet(g, Done') = SumFunctionOnSet(f, Done) - Share(f, Done, r) + Share(g, Done', r)
  BY <1>6, <1>7, SumChange
<1>9. Share(f, Done, r) = 0 /\ Share(g, Done', r) = receipt[r].quantity
  BY <1>3, <1>4, <1>5 DEF Share
<1>10. SumFunctionOnSet(f, Done) \in Int /\ receipt[r].quantity \in Int
  BY <1>5, <1>6, <1>7, SumType
<1> QED
  BY <1>8, <1>9, <1>10 DEF Sum, f, g

\* The rows of after are those of S and b.
SumIsAdded(kept, after, S, b) == Sum(after, S \union {b}) = Sum(kept, S) + after[b].quantity

\* The bills are the kept ones with one more, which is posted.
LEMMA BillIsAdded ==
    ASSUME NEW kept, NEW after, NEW b \in Bills, NEW S \in SUBSET Bills, b \notin S,
           \A x \in S : kept[x].quantity \in Int, after[b].quantity \in Int,
           Bills = DOMAIN kept, Bills = DOMAIN after,
           \A x \in S : after[x] = kept[x]
    PROVE  SumIsAdded(kept, after, S, b)
<1> DEFINE f == QuantityOf(kept)
           g == QuantityOf(after)
           T == S \union {b}
<1>1. \A x \in Bills : f[x] = kept[x].quantity /\ g[x] = after[x].quantity
  BY DEF QuantityOf
<1>2. IsFiniteSet(S) /\ IsFiniteSet(T)
  BY ReceptionAssumption, FS_Subset
<1> HIDE DEF f, g
<1>3. /\ S \ {b} = T \ {b}
      /\ \A y \in S \ {b} : f[y] = g[y]
      /\ \A y \in S : f[y] \in Int
      /\ \A y \in T : g[y] \in Int
  BY <1>1
<1>4. SumFunctionOnSet(g, T) = SumFunctionOnSet(f, S) - Share(f, S, b) + Share(g, T, b)
  BY <1>2, <1>3, SumChange
<1>5. Share(f, S, b) = 0 /\ Share(g, T, b) = after[b].quantity
  BY <1>1 DEF Share
<1>6. SumFunctionOnSet(f, S) \in Int
  BY <1>2, <1>3, SumType
<1> QED
  BY <1>4, <1>5, <1>6 DEF SumIsAdded, Sum, f, g

\* Every handler keeps the invariant.
LEMMA ReceptionStep ==
    ASSUME ReceptionInv, ReceptionNext
    PROVE  ReceptionInv'
<1>1. /\ ReceptionTypeOK /\ returned <= Sum(receipt, Done)
      /\ receipt \in [Receipts -> Receipt] /\ bill \in [Bills -> Bill]
      /\ returned \in Nat /\ orderPrice \in Prices
  BY DEF ReceptionInv, ReceptionTypeOK, ReturnedWasReceived
<1>2. Sum(receipt, Done) \in Int /\ QtyReceived \in Int
  BY <1>1, ReceivedIsInteger
<1>3. /\ 0 \in Prices /\ Prices \subseteq Nat
  BY ReceptionAssumption
<1>4. ASSUME NEW r \in Receipts, PlanReceipt(r) \/ EnterPrice(r) \/ CancelReceipt(r)
      PROVE  ReceptionInv'
  <2>1. /\ receipt[r].state # "done" /\ receipt'[r].state # "done"
        /\ \A x \in Receipts \ {r} : receipt'[x] = receipt[x]
        /\ UNCHANGED <<returned, bill, orderPrice>>
    BY <1>1, <1>4 DEF PlanReceipt, EnterPrice, CancelReceipt, Receipt
  <2>2. receipt' \in [Receipts -> Receipt]
    <3>1. CASE PlanReceipt(r)
      <4>1. PICK q \in Quantity, p \in {orderPrice, 0} :
               receipt' = [receipt EXCEPT ![r] = [state |-> "open", quantity |-> q, price |-> p]]
        BY <3>1 DEF PlanReceipt
      <4>2. [state |-> "open", quantity |-> q, price |-> p] \in Receipt
        BY <1>1, <1>3 DEF Receipt
      <4> QED
        BY <1>1, <4>1, <4>2
    <3>2. CASE EnterPrice(r) \/ CancelReceipt(r)
      BY <1>1, <3>2 DEF EnterPrice, CancelReceipt, Receipt
    <3> QED
      BY <1>4, <3>1, <3>2
  <2>3. Sum(receipt, Done)' = Sum(receipt, Done)
    BY <1>1, <2>1, <2>2, DoneStays
  <2> QED
    BY <1>1, <2>1, <2>2, <2>3 DEF ReceptionInv, ReceptionTypeOK, ReturnedWasReceived
<1>5. ASSUME NEW r \in Receipts, ValidateReceipt(r) PROVE ReceptionInv'
  <2> DEFINE quantity == ToBill(QtyReceived + receipt[r].quantity, WithoutDrafts(bill))
             new == [state |-> "posted", quantity |-> quantity, price |-> receipt[r].price]
  <2>1. /\ receipt[r].state = "open" /\ receipt' = [receipt EXCEPT ![r].state = "done"]
        /\ orderPrice' = receipt[r].price /\ returned' = returned
    BY <1>5 DEF ValidateReceipt
  <2>2. receipt' \in [Receipts -> Receipt] /\ orderPrice' \in Prices
    BY <1>1, <2>1 DEF Receipt
  <2>3. Sum(receipt, Done)' = Sum(receipt, Done) + receipt[r].quantity
    BY <1>1, <2>1, DoneGrows
  <2>4. receipt[r].quantity \in Int /\ receipt[r].quantity > 0
    BY <1>1, QuantitiesAreIntegers
  <2>5. WithoutDrafts(bill) \in [Bills -> Bill]
    BY <1>1, <1>3 DEF WithoutDrafts, NoBill, Bill
  <2>6. Billed(WithoutDrafts(bill)) \in Int
    <3> DEFINE kept == WithoutDrafts(bill)
               S == {b \in Bills : kept[b].state \in {"draft", "posted"}}
    <3>1. \A b \in S : QuantityOf(kept)[b] \in Int
      BY <2>5 DEF QuantityOf, Bill
    <3>2. IsFiniteSet(S)
      BY <1>1, QuantitiesAreIntegers
    <3> HIDE DEF kept, S
    <3>3. Sum(kept, S) \in Int
      BY <3>1, <3>2, SumType DEF Sum
    <3> QED
      BY <3>3 DEF Billed, kept, S
  <2>7. quantity \in Int
    BY <1>2, <2>4, <2>6 DEF ToBill
  <2>8. PICK b \in Bills : bill' = [WithoutDrafts(bill) EXCEPT ![b] = new]
    BY <1>5 DEF ValidateReceipt, BillPrice
  <2> HIDE DEF quantity
  <2>9. new \in Bill
    BY <1>1, <2>7 DEF Bill, Receipt
  <2> HIDE DEF new
  <2>10. bill' \in [Bills -> Bill]
    BY <2>5, <2>8, <2>9
  <2> QED
    BY <1>1, <1>2, <2>1, <2>2, <2>3, <2>4, <2>10
    DEF ReceptionInv, ReceptionTypeOK, ReturnedWasReceived
<1>6. CASE ReturnGoods
  <2>1. PICK q \in 1 .. QtyReceived : returned' = returned + q
    BY <1>6 DEF ReturnGoods
  <2>2. UNCHANGED <<receipt, orderPrice, bill>>
    BY <1>6 DEF ReturnGoods
  <2>3. Sum(receipt, Done)' = Sum(receipt, Done)
    BY <2>2 DEF Sum, Done
  <2>4. returned' \in Nat /\ returned' <= Sum(receipt, Done)
    BY <1>1, <1>2, <2>1 DEF QtyReceived
  <2> QED
    BY <1>1, <2>2, <2>3, <2>4 DEF ReceptionInv, ReceptionTypeOK, ReturnedWasReceived
<1>7. ASSUME UNCHANGED <<receipt, returned, orderPrice>>, bill' \in [Bills -> Bill]
      PROVE  ReceptionInv'
  BY <1>1, <1>7 DEF ReceptionInv, ReceptionTypeOK, ReturnedWasReceived, Sum, Done
<1>8. ASSUME NEW b \in Bills, CreateBill(b) PROVE ReceptionInv'
  <2> DEFINE quantity == ToBill(QtyReceived, bill)
             new == [state |-> "draft", quantity |-> quantity, price |-> orderPrice]
  <2>1. bill' = [bill EXCEPT ![b] = new] /\ UNCHANGED <<receipt, returned, orderPrice>>
    BY <1>8 DEF CreateBill
  <2>2. Billed(bill) \in Int
    BY <1>1, ReceivedIsInteger DEF Billed
  <2>3. quantity \in Int
    BY <1>2, <2>2 DEF ToBill
  <2> HIDE DEF quantity
  <2>4. new \in Bill
    BY <1>1, <2>3 DEF Bill
  <2> QED
    BY <1>1, <1>7, <2>1, <2>4
<1>9. ASSUME NEW b \in Bills, ChangeBill(b) PROVE ReceptionInv'
  <2>1. bill' \in [Bills -> Bill]
    BY <1>1, <1>9 DEF ChangeBill, Bill
  <2> QED
    BY <1>7, <1>9, <2>1 DEF ChangeBill
<1>10. ASSUME NEW o \in Bills, NEW b \in Bills, ReverseBill(o, b) PROVE ReceptionInv'
  <2>1. bill[o] \in Bill
    BY <1>1
  <2>2. -bill[o].quantity \in Int
    BY <2>1 DEF Bill
  <2>3. [state |-> "draft", quantity |-> -bill[o].quantity, price |-> bill[o].price] \in Bill
    BY <2>1, <2>2 DEF Bill
  <2> QED
    BY <1>1, <1>7, <1>10, <2>3 DEF ReverseBill
<1> QED
  BY <1>4, <1>5, <1>6, <1>8, <1>9, <1>10 DEF ReceptionNext

\* Only the validation of a receipt makes it done.
LEMMA OneIsValidated ==
    ASSUME ReceptionInv, ReceptionNext, NEW r \in Receipts, IsValidated(r)
    PROVE  ValidateReceipt(r) /\ \A x \in Receipts : IsValidated(x) => x = r
<1>1. receipt \in [Receipts -> Receipt]
  BY DEF ReceptionInv, ReceptionTypeOK
<1>2. ASSUME NEW x \in Receipts, PlanReceipt(x) \/ EnterPrice(x) \/ CancelReceipt(x)
      PROVE  FALSE
  BY <1>1, <1>2 DEF IsValidated, PlanReceipt, EnterPrice, CancelReceipt, Receipt
<1>3. receipt' # receipt
  BY DEF IsValidated
<1>4. PICK y \in Receipts : ValidateReceipt(y)
  BY <1>2, <1>3 DEF ReceptionNext, ReturnGoods, CreateBill, ChangeBill, ReverseBill
<1>5. \A x \in Receipts \ {y} : receipt'[x] = receipt[x]
  BY <1>1, <1>4 DEF ValidateReceipt
<1> QED
  BY <1>4, <1>5 DEF IsValidated

\* A validated receipt settles the bills.
LEMMA ReceiptSettles ==
    ASSUME ReceptionInv, NEW r \in Receipts, ValidateReceipt(r),
           \A x \in Receipts : IsValidated(x) => x = r
    PROVE  /\ \A b \in Bills : bill'[b].state # "draft"
           /\ Sum(bill', {b \in Bills : bill'[b].state = "posted"}) = Sum(receipt', Done') - returned'
           /\ \A x \in Receipts, b \in Bills :
                 IsValidated(x) /\ bill[b].state # "posted" /\ bill'[b].state = "posted"
                    => bill'[b].price = receipt[x].price
<1> DEFINE kept == WithoutDrafts(bill)
           quantity == ToBill(QtyReceived + receipt[r].quantity, kept)
           new == [state |-> "posted", quantity |-> quantity, price |-> receipt[r].price]
           S == {x \in Bills : kept[x].state \in {"draft", "posted"}}
<1>1. /\ ReceptionTypeOK
      /\ receipt \in [Receipts -> Receipt] /\ bill \in [Bills -> Bill]
  BY DEF ReceptionInv, ReceptionTypeOK
<1>2. QtyReceived \in Int /\ Sum(receipt, Done) \in Int /\ receipt[r].quantity \in Int
      /\ returned \in Int
  BY <1>1, ReceivedIsInteger, QuantitiesAreIntegers DEF ReceptionTypeOK
<1>3. /\ receipt[r].state = "open" /\ receipt' = [receipt EXCEPT ![r].state = "done"]
      /\ returned' = returned
  BY DEF ValidateReceipt
<1>4. PICK b \in Bills : kept[b].state = "none" /\ bill' = [kept EXCEPT ![b] = new]
  BY DEF ValidateReceipt, BillPrice
<1>5. kept \in [Bills -> Bill]
  BY <1>1, ReceptionAssumption DEF WithoutDrafts, NoBill, Bill
<1>6. \A x \in Bills : kept[x].state # "draft" /\ (kept[x].state = "posted" => bill[x].state = "posted")
  BY DEF WithoutDrafts, NoBill
<1>7. /\ new.state = "posted" /\ new.quantity = quantity /\ new.price = receipt[r].price
  OBVIOUS
<1>8. quantity = (QtyReceived + receipt[r].quantity) - Sum(kept, S)
  <2>1. Billed(kept) = Sum(kept, S)
    BY DEF Billed
  <2>2. quantity = (QtyReceived + receipt[r].quantity) - Billed(kept)
    BY DEF ToBill
  <2> HIDE DEF kept, S, quantity
  <2> QED
    BY <2>1, <2>2
<1> HIDE DEF kept, quantity, new
<1>9. bill'[b] = new /\ DOMAIN bill' = Bills /\ \A x \in Bills \ {b} : bill'[x] = kept[x]
  BY <1>4, <1>5
<1>10. \A x \in Bills : bill'[x].state # "draft"
  BY <1>6, <1>7, <1>9
<1>11. b \notin S /\ {x \in Bills : bill'[x].state = "posted"} = S \union {b}
  BY <1>4, <1>6, <1>7, <1>9
<1>12. \A x \in S : kept[x].quantity \in Int
  BY <1>5 DEF Bill
<1>13. Sum(kept, S) \in Int
  <2>1. \A x \in S : QuantityOf(kept)[x] \in Int
    BY <1>5, <1>12 DEF QuantityOf
  <2>2. IsFiniteSet(S)
    BY <1>1, QuantitiesAreIntegers
  <2> QED
    BY <2>1, <2>2, SumType DEF Sum
<1>14. quantity \in Int
  BY <1>2, <1>8, <1>13
<1>15. Sum(bill', S \union {b}) = Sum(kept, S) + quantity
  <2>1. bill'[b].quantity \in Int /\ bill'[b].quantity = quantity
    BY <1>7, <1>9, <1>14
  <2>2. \A x \in S : bill'[x] = kept[x]
    BY <1>9, <1>11
  <2>3. Bills = DOMAIN kept /\ Bills = DOMAIN bill' /\ S \in SUBSET Bills
    BY <1>5, <1>9
  <2> HIDE DEF S
  <2>4. SumIsAdded(kept, bill', S, b)
    BY <1>11, <1>12, <2>1, <2>2, <2>3, BillIsAdded
  <2> QED
    BY <2>1, <2>4 DEF SumIsAdded
<1>16. QtyReceived' = QtyReceived + receipt[r].quantity
  <2>1. Sum(receipt, Done)' = Sum(receipt, Done) + receipt[r].quantity
    BY <1>1, <1>3, DoneGrows
  <2> QED
    BY <1>2, <1>3, <2>1 DEF QtyReceived
<1>17. Sum(bill', {x \in Bills : bill'[x].state = "posted"}) = Sum(receipt', Done') - returned'
  <2>1. PICK v \in Int : v = Sum(kept, S)
    BY <1>13
  <2>2. PICK z : z = Sum(bill', {x \in Bills : bill'[x].state = "posted"})
    OBVIOUS
  <2>3. z = v + quantity
    BY <1>11, <1>15, <2>1, <2>2
  <2>4. quantity = (QtyReceived + receipt[r].quantity) - v
    BY <1>8, <2>1
  <2>5. z = QtyReceived + receipt[r].quantity
    BY <1>2, <2>3, <2>4
  <2>6. QtyReceived' = Sum(receipt', Done') - returned'
    BY DEF QtyReceived
  <2> QED
    BY <1>16, <2>2, <2>5, <2>6
<1>18. ASSUME NEW x \in Receipts, NEW c \in Bills,
              IsValidated(x), bill[c].state # "posted", bill'[c].state = "posted"
       PROVE  bill'[c].price = receipt[x].price
  <2>1. c = b
    BY <1>6, <1>9, <1>18
  <2> QED
    BY <1>7, <1>9, <1>18, <2>1
<1> QED
  BY <1>10, <1>17, <1>18

\* The first state.
LEMMA ReceptionFirst == ReceptionInit => ReceptionInv
<1> SUFFICES ASSUME ReceptionInit PROVE ReceptionInv
  OBVIOUS
<1>1. NoReceipt \in Receipt /\ NoBill \in Bill
  BY ReceptionAssumption DEF NoReceipt, Receipt, Quantity, NoBill, Bill
<1>2. ReceptionTypeOK
  BY <1>1 DEF ReceptionInit, ReceptionTypeOK
<1>3. Done = {}
  BY DEF ReceptionInit, Done, NoReceipt
<1>4. Sum(receipt, Done) = 0
  BY <1>3, SumEmpty DEF Sum
<1> QED
  BY <1>2, <1>4 DEF ReceptionInit, ReceptionInv, ReturnedWasReceived

\* Every step, and one that changes nothing.
LEMMA ReceptionMoves == ReceptionInv /\ [ReceptionNext]_receptionVars => ReceptionInv'
<1>1. ReceptionInv /\ UNCHANGED receptionVars => ReceptionInv'
  BY DEF receptionVars, ReceptionInv, ReceptionTypeOK, ReturnedWasReceived, Sum, Done
<1> QED
  BY <1>1, ReceptionStep

\* A receipt settles the bills of its order, for any receipts, bills and quantities.
THEOREM ReceiptsAreBilled == ReceptionSpec => []ReceptionInv /\ BilledIsReceived
<1>1. ReceptionInv /\ [ReceptionNext]_receptionVars =>
        [(\E r \in Receipts : IsValidated(r)) =>
          /\ \A b \in Bills : bill'[b].state # "draft"
          /\ Sum(bill', {b \in Bills : bill'[b].state = "posted"}) = Sum(receipt', Done') - returned'
          /\ \A r \in Receipts, b \in Bills :
                IsValidated(r) /\ bill[b].state # "posted" /\ bill'[b].state = "posted"
                    => bill'[b].price = receipt[r].price
        ]_receptionVars
  BY OneIsValidated, ReceiptSettles
<1> QED
  BY <1>1, ReceptionFirst, ReceptionMoves, PTL DEF ReceptionSpec, BilledIsReceived

-----------------------------------------------------------------------------
(* Physical inventories.                                                   *)

\* A line whose quantity was read from its quant says what this inventory moved since.
FreshIsExact ==
    \A i \in DOMAIN lines :
        lines[i].fresh => OnHand(lines[i].place) = lines[i].theoretical + lines[i].adjusted

\* A wizard proposes quantities.
WizardProposes ==
    wizard # Nothing => \A i \in DOMAIN wizard.quantity : wizard.quantity[i] \in Int

InventoryIInv == InventoryInv /\ FreshIsExact /\ WizardProposes

\* A line that is written on is a line.
LEMMA ToldIsLine ==
    ASSUME NEW l \in Line, NEW q \in Int
    PROVE  /\ Told(l, q) \in Line /\ Told(l, q).fresh = FALSE
<1>1. PICK f \in BOOLEAN : f = FALSE
  OBVIOUS
<1>2. PICK a \in Int : a = 0
  OBVIOUS
<1>3. PICK m : m = [l EXCEPT !.theoretical = q, !.fresh = f, !.adjusted = a]
  OBVIOUS
<1>4. m \in Line /\ m.fresh = f
  BY <1>3 DEF Line
<1>5. m = Told(l, q)
  BY <1>1, <1>2, <1>3, Zenon DEF Told
<1> QED
  BY <1>1, <1>4, <1>5

\* What moves disturb is a line still.
LEMMA DisturbedIsLine ==
    ASSUME NEW l \in Line, NEW a \in Int, NEW m, m = Disturbed(l, a)
    PROVE  /\ m \in Line /\ ~m.fresh /\ m.place = l.place /\ m.counted = l.counted
           /\ m.theoretical = l.theoretical /\ m.adjusted = a
<1>1. PICK f \in BOOLEAN : f = FALSE
  OBVIOUS
<1>2. m = [l EXCEPT !.fresh = f, !.adjusted = a]
  BY <1>1, Zenon DEF Disturbed
<1>3. /\ m \in Line /\ m.fresh = f /\ m.place = l.place /\ m.counted = l.counted
      /\ m.theoretical = l.theoretical /\ m.adjusted = a
  BY <1>2 DEF Line
<1> QED
  BY <1>1, <1>3

\* A new line is a line.
LEMMA MadeIsLine ==
    ASSUME NEW p \in Places, NEW q \in Int, NEW read \in BOOLEAN, NEW l, l = Made(p, q, read)
    PROVE  /\ l \in Line /\ l.fresh = read /\ l.place = p
           /\ l.theoretical = q /\ l.adjusted = 0
<1>1. 0 \in Quantities
  BY InventoryAssumption DEF Quantities
<1> QED
  BY <1>1 DEF Made, Line

\* The lines, and what the wizards read, have their types.
LEMMA InventoryTypes ==
    ASSUME InventoryTypeOK
    PROVE  /\ \A p \in Places : OnHand(p) \in Quantities /\ OnHand(p) \in Int
           /\ Stock \in [Places -> Quantities]
           /\ lines \in Seq(Line) /\ Len(lines) \in Nat /\ DOMAIN lines = 1 .. Len(lines)
           /\ \A i \in DOMAIN lines :
                 /\ lines[i] \in Line /\ lines[i].place \in Places
                 /\ lines[i].counted \in Quantities /\ lines[i].counted \in Int
                 /\ lines[i].theoretical \in Int /\ lines[i].adjusted \in Int
                 /\ lines[i].fresh \in BOOLEAN
<1>1. MaxQuantity \in Nat /\ Quantities \subseteq Int /\ 0 \in Quantities
  BY InventoryAssumption DEF Quantities
<1>2. \A p \in Places : OnHand(p) \in Quantities
  BY <1>1 DEF InventoryTypeOK, OnHand
<1>3. lines \in Seq(Line)
  BY DEF InventoryTypeOK
<1>4. \A i \in DOMAIN lines : lines[i] \in Line
  BY <1>3
<1>5. \A i \in DOMAIN lines :
                 /\ lines[i].place \in Places
                 /\ lines[i].counted \in Quantities
                 /\ lines[i].theoretical \in Int /\ lines[i].adjusted \in Int
                 /\ lines[i].fresh \in BOOLEAN
  BY <1>4 DEF Line
<1>6. Stock \in [Places -> Quantities]
  BY <1>2 DEF Stock
<1>7. Len(lines) \in Nat /\ DOMAIN lines = 1 .. Len(lines)
  BY <1>3
<1>8. /\ \A p \in Places : OnHand(p) \in Int
      /\ \A i \in DOMAIN lines : lines[i].counted \in Int
  BY <1>1, <1>2, <1>5
<1> QED
  BY <1>2, <1>3, <1>4, <1>5, <1>6, <1>7, <1>8

\* The stock of a product, now or at the opening, is a number.
LEMMA StockIsNumber ==
    ASSUME NEW f \in [Places -> Quantities], NEW S \in SUBSET Places
    PROVE  SumFunctionOnSet(f, S) \in Int
<1>1. IsFiniteSet(S) /\ Quantities \subseteq Int
  BY InventoryAssumption, FS_Subset DEF Quantities
<1> QED
  BY <1>1, SumType

\* So is what is available of a product.
LEMMA AvailableIsNumber ==
    ASSUME InventoryTypeOK, NEW p PROVE Available(p) \in Int
BY InventoryTypes, StockIsNumber DEF Available

\* And what the correction wizard replays.
LEMMA ReplayedIsNumber ==
    ASSUME InventoryTypeOK, NEW p, NEW date, NEW location
    PROVE  Replayed(p, date, location) \in Int
<1>1. Stock \in [Places -> Quantities] /\ opening \in [Places -> Quantities]
  BY InventoryTypes DEF InventoryTypeOK
<1>2. CASE date = "opening"
  BY <1>1, <1>2, StockIsNumber DEF Replayed
<1>3. CASE date # "opening"
  BY <1>1, <1>3, StockIsNumber DEF Replayed
<1> QED
  BY <1>2, <1>3

\* The last line of a place that has one is a line of it and counts.
LEMMA LastIsLine ==
    ASSUME InventoryTypeOK, NEW p \in Places, LinesAt(p) # {}
    PROVE  LastAt(p) \in LinesAt(p) /\ Counts(LastAt(p))
<1>1. LinesAt(p) \in SUBSET (1 .. Len(lines)) /\ Len(lines) \in Nat
  BY InventoryTypes DEF LinesAt
<1>2. PICK i \in LinesAt(p) : \A j \in LinesAt(p) : j <= i
  BY <1>1, GreatestExists
<1>3. Counts(i)
  BY <1>1, <1>2, InventoryTypes DEF Counts, LinesAt
<1> QED
  BY <1>3 DEF LastAt

\* A line that counts is the last of its place.
LEMMA CountedIsLast ==
    ASSUME InventoryTypeOK, NEW i \in DOMAIN lines, Counts(i)
    PROVE  LastAt(lines[i].place) = i
<1> DEFINE p == lines[i].place
<1>1. i \in LinesAt(p) /\ p \in Places
  BY InventoryTypes DEF LinesAt
<1>2. LastAt(p) \in LinesAt(p) /\ Counts(LastAt(p))
  BY <1>1, LastIsLine
<1>3. \A j \in LinesAt(p) : j \in DOMAIN lines /\ lines[j].place = p /\ j \in Int
  BY InventoryTypes DEF LinesAt
<1>4. ~(LastAt(p) > i) /\ ~(i > LastAt(p))
  BY <1>1, <1>2, <1>3 DEF Counts
<1> QED
  BY <1>1, <1>2, <1>3, <1>4

\* What a validation leaves in a place.
LEMMA AdjustedType ==
    ASSUME InventoryTypeOK, NEW p \in Places
    PROVE  Adjusted(p) \in Quantities \cup {Missing}
<1>1. quant[p] \in Quantities \cup {Missing}
  BY DEF InventoryTypeOK
<1>2. CASE LinesAt(p) = {}
  BY <1>1, <1>2 DEF Adjusted
<1>3. CASE LinesAt(p) # {}
  <2>1. LastAt(p) \in DOMAIN lines
    BY <1>3, LastIsLine DEF LinesAt
  <2>2. lines[LastAt(p)].counted \in Quantities
    BY <2>1, InventoryTypes
  <2> QED
    BY <1>3, <2>2 DEF Adjusted
<1> QED
  BY <1>2, <1>3

\* Functions on the numbers of the lines are sequences of as many lines.
LEMMA LinesAgain ==
    ASSUME InventoryTypeOK, NEW ls \in [DOMAIN lines -> Line]
    PROVE  ls \in Seq(Line) /\ Len(ls) = Len(lines) /\ DOMAIN ls = DOMAIN lines
<1>1. DOMAIN lines = 1 .. Len(lines) /\ Len(lines) \in Nat
  BY InventoryTypes
<1>2. ls \in [1 .. Len(lines) -> Line]
  BY <1>1
<1> QED
  BY <1>1, <1>2

-----------------------------------------------------------------------------
\* A step that reads again or unmarks the lines it writes keeps the invariant of lines.
LEMMA ReadAgainStep ==
    ASSUME InventoryIInv, lines' = ReadAgain(lines), UNCHANGED quant
    PROVE  lines' \in Seq(Line) /\ Len(lines') = Len(lines) /\ DOMAIN lines' = DOMAIN lines
           /\ FreshIsExact'
<1>1. InventoryTypeOK
  BY DEF InventoryIInv, InventoryInv
<1>2. ASSUME NEW i \in DOMAIN lines PROVE lines'[i] \in Line /\ lines'[i].fresh = FALSE
  <2>1. lines[i] \in Line /\ Available(lines[i].place) \in Int
    BY <1>1, InventoryTypes, AvailableIsNumber
  <2>2. lines'[i] = Told(lines[i], Available(lines[i].place))
    BY DEF ReadAgain
  <2> QED
    BY <2>1, <2>2, ToldIsLine
<1>3. lines' \in [DOMAIN lines -> Line]
  BY <1>2 DEF ReadAgain
<1>4. DOMAIN lines' = DOMAIN lines
  BY <1>3
<1>5. FreshIsExact'
  BY <1>2, <1>4 DEF FreshIsExact
<1> QED
  BY <1>1, <1>3, <1>5, LinesAgain

\* New lines for the places that are listed.
LEMMA GeneratedLines ==
    ASSUME InventoryIInv, Cardinality(Listed) <= MaxLines, UNCHANGED quant,
           lines' = LET ps == SetToSeq(Listed) IN [i \in DOMAIN ps |-> NewLine(ps[i])]
    PROVE  lines' \in Seq(Line) /\ Len(lines') <= MaxLines /\ FreshIsExact'
<1> DEFINE ps == SetToSeq(Listed)
           n == Cardinality(Listed)
<1>1. InventoryTypeOK
  BY DEF InventoryIInv, InventoryInv
<1>2. Listed \subseteq Places /\ IsFiniteSet(Listed)
  BY InventoryAssumption, FS_Subset DEF Listed
<1>3. n \in Nat /\ ExistsBijection(1 .. n, Listed)
  BY <1>2, FS_CardinalityType
<1>4. \E f \in [1 .. n -> Listed] : IsInjective(f)
  BY <1>3 DEF ExistsBijection, Bijection, Injection
<1>5. ps \in [1 .. n -> Listed]
  BY <1>4 DEF SetToSeq
<1> HIDE DEF ps, n
<1>6. lines' = [i \in 1 .. n |-> NewLine(ps[i])]
  BY <1>5 DEF ps
<1>7. ASSUME NEW i \in 1 .. n
      PROVE  lines'[i] \in Line /\ OnHand(lines'[i].place) = lines'[i].theoretical + lines'[i].adjusted
  <2>1. ps[i] \in Places /\ OnHand(ps[i]) \in Int /\ 0 \in Quantities
    BY <1>1, <1>2, <1>5, InventoryTypes, InventoryAssumption DEF Quantities
  <2>2. \E read \in BOOLEAN : lines'[i] = Made(ps[i], OnHand(ps[i]), read)
    BY <1>6, Zenon DEF NewLine
  <2>3. /\ lines'[i] \in Line /\ lines'[i].place = ps[i] /\ lines'[i].adjusted = 0
        /\ lines'[i].theoretical = OnHand(ps[i])
    BY <2>1, <2>2, MadeIsLine
  <2>4. OnHand(ps[i]) = OnHand(ps[i]) + 0
    BY <2>1
  <2> QED
    BY <2>2, <2>3, <2>4
<1>8. lines' \in [1 .. n -> Line]
  BY <1>6, <1>7
<1>9. lines' \in Seq(Line) /\ Len(lines') = n /\ DOMAIN lines' = 1 .. n
  BY <1>3, <1>8
<1>10. FreshIsExact'
  BY <1>7, <1>9 DEF FreshIsExact, OnHand
<1> QED
  BY <1>9, <1>10 DEF n

\* A handler that changes some lines of an inventory where it has the lines of before.
LEMMA LinesStep ==
    ASSUME InventoryIInv, InventoryTypeOK', FreshIsExact', wizard' = wizard \/ wizard' = Nothing,
           state' # "done" \/ sound' = {}
           \/ \A i \in sound' : lines'[i].adjusted = Difference(lines'[i])
    PROVE  InventoryIInv'
BY DEF InventoryIInv, InventoryInv, WizardProposes, DifferenceIsAdjustment, Difference

\* Making the lines of an inventory keeps its invariant.
LEMMA GenerateStep == ASSUME InventoryIInv, Generate PROVE InventoryIInv'
<1>1. InventoryTypeOK /\ FreshIsExact
  BY DEF InventoryIInv, InventoryInv
<1>2. CASE mode = "libre" /\ lines' = ReadAgain(lines) /\ sound' = {} /\ UNCHANGED wizard
  <2>1. lines' \in Seq(Line) /\ Len(lines') = Len(lines) /\ DOMAIN lines' = DOMAIN lines
        /\ FreshIsExact'
    BY <1>2, ReadAgainStep DEF Generate
  <2>2. InventoryTypeOK'
    BY <1>1, <1>2, <2>1 DEF Generate, InventoryTypeOK
  <2> QED
    BY <1>2, <2>1, <2>2, LinesStep
<1>3. CASE /\ mode = "normal" /\ Cardinality(Listed) <= MaxLines
           /\ lines' = LET ps == SetToSeq(Listed) IN [i \in DOMAIN ps |-> NewLine(ps[i])]
           /\ sound' = {} /\ wizard' = Nothing
  <2>1. lines' \in Seq(Line) /\ Len(lines') <= MaxLines /\ FreshIsExact'
    BY <1>3, GeneratedLines DEF Generate
  <2>2. InventoryTypeOK'
    BY <1>1, <1>3, <2>1 DEF Generate, InventoryTypeOK
  <2> QED
    BY <1>3, <2>1, <2>2, LinesStep
<1> QED
  BY <1>2, <1>3 DEF Generate

\* So does starting it.
LEMMA StartStep == ASSUME InventoryIInv, Start PROVE InventoryIInv'
<1>1. InventoryTypeOK /\ FreshIsExact
  BY DEF InventoryIInv, InventoryInv
<1>2. state' = "in_progress" /\ shown' \subseteq States
  BY <1>1 DEF Start, Enter, InventoryTypeOK, States
<1>3. CASE mode = "libre" /\ lines' = ReadAgain(lines) /\ sound' = {}
  <2>1. lines' \in Seq(Line) /\ Len(lines') = Len(lines) /\ DOMAIN lines' = DOMAIN lines
        /\ FreshIsExact'
    BY <1>3, ReadAgainStep DEF Start
  <2>2. InventoryTypeOK'
    BY <1>1, <1>2, <1>3, <2>1 DEF Start, InventoryTypeOK, States
  <2> QED
    BY <1>3, <2>1, <2>2, LinesStep DEF Start
<1>4. CASE mode = "normal" /\ UNCHANGED <<lines, sound>>
  <2>1. InventoryTypeOK' /\ FreshIsExact'
    BY <1>1, <1>2, <1>4 DEF Start, InventoryTypeOK, States, FreshIsExact, OnHand
  <2> QED
    BY <1>2, <2>1, LinesStep DEF Start
<1> QED
  BY <1>3, <1>4 DEF Start

\* So do reopening, deleting and changing the mode.
LEMMA SimpleStep ==
    ASSUME InventoryIInv, ChangeMode \/ Reopen \/ Delete PROVE InventoryIInv'
<1>1. InventoryTypeOK /\ FreshIsExact
  BY DEF InventoryIInv, InventoryInv
<1>2. CASE ChangeMode
  BY <1>2 DEF ChangeMode, InventoryIInv, InventoryInv, InventoryTypeOK, FreshIsExact, OnHand,
     WizardProposes, DifferenceIsAdjustment, Difference
<1>3. CASE Reopen
  <2>1. InventoryTypeOK' /\ FreshIsExact' /\ state' # "done"
    BY <1>1, <1>3 DEF Reopen, Enter, InventoryTypeOK, FreshIsExact, OnHand, States
  <2> QED
    BY <1>3, <2>1, LinesStep DEF Reopen
<1>4. CASE Delete
  <2>1. opening' \in [Places -> Quantities] /\ lines' \in Seq(Line) /\ Len(lines') = 0
        /\ MaxLines \in Nat
    BY <1>1, <1>4, InventoryTypes, InventoryAssumption DEF Delete
  <2>2. InventoryTypeOK'
    BY <1>1, <1>4, <2>1 DEF Delete, InventoryTypeOK, States
  <2>3. FreshIsExact'
    BY <1>4 DEF Delete, FreshIsExact
  <2> QED
    BY <1>4, <2>2, <2>3, LinesStep DEF Delete
<1> QED
  BY <1>2, <1>3, <1>4

\* A count that is written moves nothing else of its line.
LEMMA CountedIsLine ==
    ASSUME NEW l \in Line, NEW c \in Quantities
    PROVE  /\ Counted(l, c) \in Line /\ Counted(l, c).place = l.place
           /\ Counted(l, c).fresh = l.fresh /\ Counted(l, c).theoretical = l.theoretical
           /\ l.fresh => Counted(l, c).adjusted = l.adjusted
<1> DEFINE a == IF l.fresh THEN l.adjusted ELSE 0
<1>1. a \in Int
  BY DEF Line
<1>2. l.fresh => a = l.adjusted
  OBVIOUS
<1>3. Counted(l, c) = [l EXCEPT !.counted = c, !.adjusted = a]
  BY DEF Counted
<1> HIDE DEF a
<1> QED
  BY <1>1, <1>2, <1>3 DEF Line

\* So does what is typed, before the validation or after it.
LEMMA TypedStep == ASSUME InventoryIInv, AddLine \/ Count \/ TypeQuantity PROVE InventoryIInv'
<1>1. InventoryTypeOK /\ FreshIsExact /\ DifferenceIsAdjustment
  BY DEF InventoryIInv, InventoryInv
<1>2. CASE AddLine
  <2>1. PICK p \in Places : lines' = Append(lines, Made(p, 0, FALSE))
    BY <1>2 DEF AddLine
  <2> DEFINE l == Made(p, 0, FALSE)
  <2>2. l \in Line /\ l.fresh = FALSE
    <3>1. PICK read \in BOOLEAN : read = FALSE
      OBVIOUS
    <3>2. l = Made(p, 0, read)
      BY <3>1, Zenon
    <3> HIDE DEF l
    <3> QED
      BY <3>1, <3>2, MadeIsLine
  <2> HIDE DEF l
  <2>3. lines' = Append(lines, l)
    BY <2>1 DEF l
  <2>4. /\ lines \in Seq(Line) /\ Len(lines) < MaxLines /\ MaxLines \in Nat
        /\ UNCHANGED <<quant, state, mode, opening, wizard, shown, sound>>
    BY <1>1, <1>2, InventoryAssumption DEF AddLine, InventoryTypeOK
  <2>5. /\ lines' \in Seq(Line) /\ Len(lines') = Len(lines) + 1
        /\ \A i \in DOMAIN lines : i \in DOMAIN lines' /\ lines'[i] = lines[i]
        /\ \A i \in DOMAIN lines' : i \in DOMAIN lines \/ lines'[i] = l
    BY <2>2, <2>3, <2>4
  <2>6. Len(lines') <= MaxLines
    BY <2>4, <2>5
  <2>7. InventoryTypeOK'
    BY <1>1, <2>4, <2>5, <2>6 DEF InventoryTypeOK
  <2>8. FreshIsExact'
    BY <1>1, <2>2, <2>4, <2>5 DEF FreshIsExact, OnHand
  <2>9. state' # "done" \/ \A i \in sound' : lines'[i].adjusted = Difference(lines'[i])
    BY <1>1, <2>4, <2>5 DEF DifferenceIsAdjustment, InventoryTypeOK
  <2> QED
    BY <2>4, <2>7, <2>8, <2>9, LinesStep
<1>3. CASE Count \/ TypeQuantity
  <2>1. PICK i \in DOMAIN lines, q \in Quantities :
            /\ lines' \in {[lines EXCEPT ![i] = Counted(lines[i], q)],
                          [lines EXCEPT ![i] = Told(lines[i], q)]}
            /\ sound' = sound \ {i}
    BY <1>3 DEF Count, TypeQuantity
  <2>2. UNCHANGED <<quant, state, mode, opening, wizard, shown>>
    BY <1>3 DEF Count, TypeQuantity
  <2>3. \A j \in DOMAIN lines : lines[j] \in Line
    BY <1>1, InventoryTypes
  <2>4. q \in Int
    BY InventoryAssumption DEF Quantities
  <2>5. /\ lines'[i] \in Line
        /\ lines'[i].fresh =>
              /\ lines[i].fresh /\ lines'[i].place = lines[i].place
              /\ lines'[i].theoretical = lines[i].theoretical
              /\ lines'[i].adjusted = lines[i].adjusted
    <3>1. CASE lines'[i] = Counted(lines[i], q)
      BY <2>3, <3>1, CountedIsLine
    <3>2. CASE lines'[i] = Told(lines[i], q)
      BY <2>3, <2>4, <3>2, ToldIsLine
    <3> QED
      BY <2>1, <3>1, <3>2
  <2>6. \A j \in DOMAIN lines \ {i} : lines'[j] = lines[j]
    BY <2>1
  <2>7. lines' \in [DOMAIN lines -> Line]
    <3>1. DOMAIN lines' = DOMAIN lines /\ lines' = [j \in DOMAIN lines |-> lines'[j]]
      BY <2>1
    <3>2. \A j \in DOMAIN lines : lines'[j] \in Line
      BY <2>3, <2>5, <2>6
    <3> QED
      BY <3>1, <3>2
  <2>8. lines' \in Seq(Line) /\ Len(lines') = Len(lines) /\ DOMAIN lines' = DOMAIN lines
    BY <1>1, <2>7, LinesAgain
  <2>9. InventoryTypeOK'
    BY <1>1, <2>1, <2>2, <2>8 DEF InventoryTypeOK
  <2>10. FreshIsExact'
    BY <1>1, <2>2, <2>5, <2>6, <2>8 DEF FreshIsExact, OnHand
  <2>11. state' # "done" \/ \A j \in sound' : lines'[j].adjusted = Difference(lines'[j])
    BY <1>1, <2>1, <2>2, <2>6 DEF DifferenceIsAdjustment, InventoryTypeOK
  <2> QED
    BY <2>2, <2>9, <2>10, <2>11, LinesStep
<1> QED
  BY <1>2, <1>3


\* A validation moves a place from what it holds to the count of its last line.
LEMMA ValidateStep == ASSUME InventoryIInv, Validate PROVE InventoryIInv'
<1> DEFINE Left(p) == IF Adjusted(p) = Missing THEN 0 ELSE Adjusted(p)
<1>1. InventoryTypeOK /\ FreshIsExact
  BY DEF InventoryIInv, InventoryInv
<1>2. /\ quant' = [p \in Places |-> Adjusted(p)] /\ state' = "done" /\ shown' = shown \cup {"done"}
      /\ sound' = {i \in DOMAIN lines : lines[i].fresh /\ Counts(i)}
      /\ UNCHANGED <<mode, opening, wizard>>
  BY DEF Validate, Enter
<1>3. \A p \in Places : Adjusted(p) \in Quantities \cup {Missing}
  BY <1>1, AdjustedType
<1>4. Missing \notin Int /\ Quantities \subseteq Int /\ 0 \in Quantities
  BY InventoryAssumption DEF Quantities
<1>5. \A p \in Places : Left(p) \in Int /\ OnHand(p)' = Left(p)
  BY <1>2, <1>3, <1>4 DEF OnHand
<1> HIDE DEF Left
<1>6. ASSUME NEW i \in DOMAIN lines
      PROVE  /\ lines'[i] \in Line /\ lines'[i].place = lines[i].place
             /\ lines'[i].counted = lines[i].counted
             /\ lines'[i].theoretical = lines[i].theoretical
             /\ lines'[i].fresh = lines[i].fresh
             /\ lines[i].fresh => Left(lines[i].place) = lines[i].theoretical + lines'[i].adjusted
  <2> DEFINE p == lines[i].place
             a == IF lines[i].fresh THEN lines[i].adjusted + (Left(p) - OnHand(p)) ELSE 0
  <2>1. lines'[i] = [lines[i] EXCEPT !.adjusted = a]
    BY DEF Validate, Left
  <2>2. /\ p \in Places /\ lines[i] \in Line /\ lines[i].adjusted \in Int
        /\ lines[i].theoretical \in Int /\ OnHand(p) \in Int /\ Left(p) \in Int
    BY <1>1, <1>5, InventoryTypes
  <2>3. a \in Int
    BY <2>2
  <2>4. lines[i].fresh => OnHand(p) = lines[i].theoretical + lines[i].adjusted
    BY <1>1 DEF FreshIsExact
  <2>5. lines[i].fresh => Left(p) = lines[i].theoretical + a
    BY <2>2, <2>4
  <2> HIDE DEF a
  <2>6. lines'[i] \in Line /\ lines'[i].adjusted = a
    BY <2>1, <2>2, <2>3 DEF Line
  <2> QED
    BY <2>1, <2>2, <2>5, <2>6 DEF Line
<1>7. lines' \in [DOMAIN lines -> Line]
  <2>1. DOMAIN lines' = DOMAIN lines /\ lines' = [i \in DOMAIN lines |-> lines'[i]]
    BY DEF Validate
  <2> QED
    BY <1>6, <2>1
<1>8. lines' \in Seq(Line) /\ Len(lines') = Len(lines) /\ DOMAIN lines' = DOMAIN lines
  BY <1>1, <1>7, LinesAgain
<1>9. quant' \in [Places -> Quantities \cup {Missing}]
  BY <1>2, <1>3
<1>10. InventoryTypeOK'
  BY <1>1, <1>2, <1>8, <1>9 DEF InventoryTypeOK, States
<1>11. FreshIsExact'
  <2>1. \A i \in DOMAIN lines : lines[i].place \in Places
    BY <1>1, InventoryTypes
  <2> QED
    BY <1>5, <1>6, <1>8, <2>1 DEF FreshIsExact
<1>12. ASSUME NEW i \in sound' PROVE lines'[i].adjusted = Difference(lines'[i])
  <2> DEFINE p == lines[i].place
  <2>1. i \in DOMAIN lines /\ lines[i].fresh /\ Counts(i)
    BY <1>2
  <2>2. LastAt(p) = i /\ i \in LinesAt(p)
    BY <1>1, <2>1, CountedIsLast DEF LinesAt
  <2>3. lines[i].counted \in Quantities
    BY <1>1, <2>1, InventoryTypes
  <2>4. Left(p) = lines[i].counted
    BY <1>4, <2>2, <2>3 DEF Left, Adjusted
  <2>5. /\ lines'[i].adjusted \in Int /\ lines[i].theoretical \in Int /\ lines[i].counted \in Int
    BY <1>1, <1>4, <1>6, <2>1, <2>3, InventoryTypes DEF Line
  <2>6. lines'[i].adjusted = lines[i].counted - lines[i].theoretical
    BY <1>6, <2>1, <2>4, <2>5
  <2> QED
    BY <1>6, <2>1, <2>6 DEF Difference
<1> QED
  BY <1>2, <1>10, <1>11, <1>12, LinesStep

\* So do goods that move meanwhile.
LEMMA MoveStep == ASSUME InventoryIInv, MoveGoods PROVE InventoryIInv'
<1>1. InventoryTypeOK /\ FreshIsExact /\ DifferenceIsAdjustment
  BY DEF InventoryIInv, InventoryInv
<1>2. PICK p \in Places, q \in Quantities :
        /\ quant' = [quant EXCEPT ![p] = q]
        /\ lines' = [i \in DOMAIN lines |->
              IF Disturbs(lines[i], p)
              THEN Disturbed(lines[i], IF i \in sound THEN lines[i].adjusted ELSE 0)
              ELSE lines[i]]
  BY DEF MoveGoods
<1>3. UNCHANGED <<state, mode, opening, wizard, shown, sound>>
  BY DEF MoveGoods
<1>4. ASSUME NEW i \in DOMAIN lines
      PROVE  /\ lines'[i] \in Line /\ lines'[i].place = lines[i].place
             /\ lines'[i].counted = lines[i].counted
             /\ lines'[i].theoretical = lines[i].theoretical
             /\ i \in sound => lines'[i].adjusted = lines[i].adjusted
             /\ lines'[i].fresh => lines[i].place # p /\ lines'[i] = lines[i]
  <2>1. lines[i] \in Line
    BY <1>1, InventoryTypes
  <2>2. CASE lines[i].place # p
    BY <1>2, <2>1, <2>2 DEF Disturbs, Line
  <2>3. CASE lines[i].place = p
    <3>1. PICK a : a = IF i \in sound THEN lines[i].adjusted ELSE 0
      OBVIOUS
    <3>2. a \in Int /\ (i \in sound => a = lines[i].adjusted)
      BY <2>1, <3>1 DEF Line
    <3>3. lines'[i] = Disturbed(lines[i], a)
      BY <1>2, <2>3, <3>1 DEF Disturbs
    <3>4. /\ lines'[i] \in Line /\ ~lines'[i].fresh
          /\ lines'[i].place = lines[i].place /\ lines'[i].counted = lines[i].counted
          /\ lines'[i].theoretical = lines[i].theoretical /\ lines'[i].adjusted = a
      BY <2>1, <3>2, <3>3, DisturbedIsLine
    <3> QED
      BY <2>3, <3>2, <3>4
  <2> QED
    BY <2>2, <2>3
<1>5. lines' \in [DOMAIN lines -> Line]
  <2>1. DOMAIN lines' = DOMAIN lines /\ lines' = [i \in DOMAIN lines |-> lines'[i]]
    BY <1>2
  <2> QED
    BY <1>4, <2>1
<1>6. lines' \in Seq(Line) /\ Len(lines') = Len(lines) /\ DOMAIN lines' = DOMAIN lines
  BY <1>1, <1>5, LinesAgain
<1>7. quant \in [Places -> Quantities \cup {Missing}]
  BY <1>1 DEF InventoryTypeOK
<1>8. InventoryTypeOK'
  BY <1>1, <1>2, <1>3, <1>6, <1>7 DEF InventoryTypeOK
<1>9. FreshIsExact'
  <2>1. \A i \in DOMAIN lines : lines[i].place \in Places
    BY <1>1, InventoryTypes
  <2>2. \A x \in Places \ {p} : OnHand(x)' = OnHand(x)
    BY <1>2, <1>7 DEF OnHand
  <2> QED
    BY <1>1, <1>4, <1>6, <2>1, <2>2 DEF FreshIsExact
<1>10. state' # "done" \/ \A i \in sound' : lines'[i].adjusted = Difference(lines'[i])
  BY <1>1, <1>3, <1>4 DEF DifferenceIsAdjustment, Difference, InventoryTypeOK
<1> QED
  BY <1>3, <1>8, <1>9, <1>10, LinesStep

\* So does the correction of theoretical quantities.
LEMMA ApplyStep == ASSUME InventoryIInv, ApplyCorrection PROVE InventoryIInv'
<1>1. InventoryTypeOK /\ FreshIsExact /\ DifferenceIsAdjustment /\ WizardProposes
  BY DEF InventoryIInv, InventoryInv
<1>2. PICK chosen \in SUBSET DOMAIN wizard.quantity \ {{}} :
          /\ lines' = [i \in DOMAIN lines |->
                IF i \in chosen THEN Told(lines[i], wizard.quantity[i]) ELSE lines[i]]
          /\ sound' = sound \ chosen
  BY DEF ApplyCorrection
<1>3. wizard # Nothing /\ wizard' = Nothing /\ UNCHANGED <<quant, state, mode, opening, shown>>
  BY DEF ApplyCorrection
<1>4. ASSUME NEW i \in DOMAIN lines
      PROVE  /\ lines'[i] \in Line
             /\ i \in chosen => lines'[i].fresh = FALSE
             /\ i \notin chosen => lines'[i] = lines[i]
  <2>1. lines[i] \in Line
    BY <1>1, InventoryTypes
  <2>2. i \in chosen => wizard.quantity[i] \in Int
    BY <1>1, <1>2, <1>3 DEF WizardProposes
  <2>3. CASE i \in chosen
    <3>1. lines'[i] = Told(lines[i], wizard.quantity[i])
      BY <1>2, <2>3
    <3> QED
      BY <2>1, <2>2, <2>3, <3>1, ToldIsLine
  <2>4. CASE i \notin chosen
    BY <1>2, <2>1, <2>4
  <2> QED
    BY <2>3, <2>4
<1>5. lines' \in [DOMAIN lines -> Line]
  <2>1. DOMAIN lines' = DOMAIN lines /\ lines' = [i \in DOMAIN lines |-> lines'[i]]
    BY <1>2
  <2> QED
    BY <1>4, <2>1
<1>6. lines' \in Seq(Line) /\ Len(lines') = Len(lines) /\ DOMAIN lines' = DOMAIN lines
  BY <1>1, <1>5, LinesAgain
<1>7. InventoryTypeOK'
  BY <1>1, <1>2, <1>3, <1>6 DEF InventoryTypeOK
<1>8. FreshIsExact'
  BY <1>1, <1>3, <1>4, <1>6 DEF FreshIsExact, OnHand
<1>9. state' # "done" \/ \A i \in sound' : lines'[i].adjusted = Difference(lines'[i])
  BY <1>1, <1>2, <1>3, <1>4 DEF DifferenceIsAdjustment, InventoryTypeOK
<1> QED
  BY <1>3, <1>7, <1>8, <1>9, LinesStep

\* A wizard opens.
LEMMA WizardStep ==
    ASSUME InventoryIInv, SearchCorrection \/ OpenClaim PROVE InventoryIInv'
<1>1. InventoryTypeOK
  BY DEF InventoryIInv, InventoryInv
<1>2. UNCHANGED <<quant, state, mode, lines, opening, shown, sound>>
  BY DEF SearchCorrection, OpenClaim
<1>3. /\ wizard'.date \in {"opening", "now", "claim"}
      /\ DOMAIN wizard'.quantity \subseteq DOMAIN lines
      /\ \A i \in DOMAIN wizard'.quantity : wizard'.quantity[i] \in Int
  <2>1. CASE SearchCorrection
    <3> DEFINE chosen == {i \in DOMAIN lines : Difference(lines[i]) # 0}
    <3>1. PICK date \in {"opening", "now"}, location \in {LocationOf[p] : p \in Places} :
            wizard' = [date |-> date,
                       quantity |-> [i \in chosen |-> Replayed(lines[i].place, date, location)]]
      BY <2>1 DEF SearchCorrection
    <3> HIDE DEF chosen
    <3>2. \A i \in chosen : Replayed(lines[i].place, date, location) \in Int
      BY <1>1, ReplayedIsNumber
    <3>3. chosen \subseteq DOMAIN lines
      BY DEF chosen
    <3> QED
      BY <3>1, <3>2, <3>3
  <2>2. CASE OpenClaim
    <3> DEFINE chosen == {i \in DOMAIN lines : Claimable(lines[i])}
               gap(i) == IF Difference(lines[i]) < 0 THEN -Difference(lines[i])
                         ELSE Difference(lines[i])
    <3>1. wizard' = [date |-> "claim", quantity |-> [i \in chosen |-> gap(i)]]
      BY <2>2 DEF OpenClaim
    <3>2. \A i \in DOMAIN lines : Difference(lines[i]) \in Int
      BY <1>1, InventoryTypes DEF Difference
    <3>3. chosen \subseteq DOMAIN lines /\ \A i \in chosen : gap(i) \in Int
      BY <3>2
    <3> HIDE DEF chosen, gap
    <3> QED
      BY <3>1, <3>3
  <2> QED
    BY <2>1, <2>2
<1>4. InventoryTypeOK'
  BY <1>1, <1>2, <1>3 DEF InventoryTypeOK
<1> QED
  BY <1>2, <1>3, <1>4 DEF InventoryIInv, InventoryInv, WizardProposes, FreshIsExact, OnHand,
     DifferenceIsAdjustment, Difference

\* The first state.
LEMMA InventoryFirst == InventoryInit => InventoryIInv
<1> SUFFICES ASSUME InventoryInit PROVE InventoryIInv
  OBVIOUS
<1>1. MaxLines \in Nat /\ Quantities \subseteq Int /\ 0 \in Quantities
  BY InventoryAssumption DEF Quantities
<1>2. \A p \in Places : OnHand(p) \in Quantities
  BY <1>1 DEF InventoryInit, OnHand
<1>3. lines \in Seq(Line) /\ Len(lines) = 0 /\ DOMAIN lines = {}
  BY DEF InventoryInit
<1>4. InventoryTypeOK
  BY <1>1, <1>2, <1>3 DEF InventoryInit, InventoryTypeOK, States, Stock
<1>5. FreshIsExact
  BY <1>3 DEF FreshIsExact
<1> QED
  BY <1>4, <1>5 DEF InventoryInit, InventoryIInv, InventoryInv, WizardProposes,
     DifferenceIsAdjustment

\* Every handler keeps the invariant of an inventory.
LEMMA InventoryMoves == InventoryIInv /\ [InventoryNext]_inventoryVars => InventoryIInv'
<1>1. InventoryIInv /\ UNCHANGED inventoryVars => InventoryIInv'
  BY DEF inventoryVars, InventoryIInv, InventoryInv, InventoryTypeOK, WizardProposes,
     FreshIsExact, OnHand, DifferenceIsAdjustment, Difference
<1> QED
  BY <1>1, GenerateStep, StartStep, SimpleStep, TypedStep, ValidateStep, MoveStep, ApplyStep,
     WizardStep DEF InventoryNext

\* What a supplier is asked to credit, on a sound line, is what the inventory took.
LEMMA ClaimStep ==
    ASSUME InventoryIInv, InventoryNext, wizard' # wizard, wizard' # Nothing,
           wizard'.date = "claim", NEW i \in DOMAIN wizard'.quantity \cap sound
    PROVE  wizard'.quantity[i] = -lines[i].adjusted
<1>1. ~SearchCorrection
  <2>1. SUFFICES ASSUME SearchCorrection PROVE FALSE
    OBVIOUS
  <2>2. PICK date \in {"opening", "now"} : wizard'.date = date
    BY <2>1 DEF SearchCorrection
  <2> QED
    BY <2>2
<1>2. OpenClaim
  BY <1>1 DEF InventoryNext, Generate, ChangeMode, AddLine, Count, TypeQuantity, Start, Reopen, Validate,
     Delete, MoveGoods, ApplyCorrection
<1> DEFINE chosen == {j \in DOMAIN lines : Claimable(lines[j])}
<1>3. wizard'.quantity = [j \in chosen |-> IF Difference(lines[j]) < 0 THEN -Difference(lines[j])
                                           ELSE Difference(lines[j])]
  BY <1>2 DEF OpenClaim
<1>4. i \in chosen /\ i \in sound
  BY <1>3
<1>5. Difference(lines[i]) < 0 /\ state = "done"
  BY <1>2, <1>4 DEF Claimable, OpenClaim
<1>6. wizard'.quantity[i] = -Difference(lines[i])
  BY <1>3, <1>4, <1>5
<1>7. lines[i].adjusted = Difference(lines[i])
  BY <1>4, <1>5 DEF InventoryIInv, InventoryInv, DifferenceIsAdjustment
<1> QED
  BY <1>6, <1>7

\* On a line whose theoretical quantity was right, what the inventory shows is what it did,
\* and what a supplier is asked to credit is what the stock lost.
THEOREM InventoryTellsTheTruth == InventorySpec => []InventoryInv /\ ClaimIsLoss
<1>1. InventoryIInv /\ [InventoryNext]_inventoryVars =>
        [wizard' # wizard /\ wizard' # Nothing /\ wizard'.date = "claim" =>
            \A i \in DOMAIN wizard'.quantity \cap sound :
                wizard'.quantity[i] = -lines[i].adjusted]_inventoryVars
  BY ClaimStep
<1>2. InventoryIInv => InventoryInv
  BY DEF InventoryIInv
<1> QED
  BY <1>1, <1>2, InventoryFirst, InventoryMoves, PTL DEF InventorySpec, ClaimIsLoss

-----------------------------------------------------------------------------
(* Repairs: sheets that are applied row by row.                            *)

\* The last row of a set of rows is one of them, and no row of the set comes after it.
LEMMA LastRow ==
    ASSUME NEW n \in Nat, NEW T \in SUBSET (1 .. n), T # {}
    PROVE  Max(T) \in T /\ \A k \in T : ~(k > Max(T))
<1>1. PICK i \in T : \A j \in T : j <= i
  BY GreatestExists
<1>2. \A j \in T : i >= j
  BY <1>1
<1>3. Max(T) \in T /\ \A j \in T : Max(T) >= j
  BY <1>1, <1>2 DEF Max
<1>4. \A j, k \in T : j >= k => ~(k > j)
  OBVIOUS
<1> QED
  BY <1>3, <1>4

Applied(kind, table, r) == IF kind = "prices" THEN Mended(table, r) ELSE Recosted(table, r)

\* g gives the table after each subset of the rows of S.
Repairing(g, kind, table, rows, S) ==
    g = [T \in SUBSET S |->
            IF T = {} THEN table
            ELSE Applied(kind, g[T \ {Max(T)}], rows[Max(T)])]

\* Two such functions agree on a set that both have.
LEMMA RepairsAgree ==
    ASSUME NEW kind, NEW table, NEW rows, NEW n \in Nat, NEW A, NEW B, NEW g, NEW h,
           Repairing(g, kind, table, rows, A), Repairing(h, kind, table, rows, B),
           NEW S \in SUBSET (1 .. n), S \subseteq A, S \subseteq B
    PROVE  g[S] = h[S]
<1> DEFINE P == {T \in SUBSET S : g[T] = h[T]}
<1>1. ASSUME NEW T \in SUBSET S, \A U \in SUBSET T : U # T => U \in P
      PROVE  T \in P
  <2>1. CASE T = {}
    BY <2>1 DEF Repairing
  <2>2. CASE T # {}
    <3>1. T \ {Max(T)} \in P
      <4>1. Max(T) \in T
        BY <2>2, LastRow
      <4> QED
        BY <1>1, <4>1
    <3>2. g[T] = Applied(kind, g[T \ {Max(T)}], rows[Max(T)])
      BY <2>2 DEF Repairing
    <3>3. h[T] = Applied(kind, h[T \ {Max(T)}], rows[Max(T)])
      BY <2>2 DEF Repairing
    <3> QED
      BY <3>1, <3>2, <3>3
  <2> QED
    BY <2>1, <2>2
<1> HIDE DEF P
<1>2. IsFiniteSet(S)
  <2>1. IsFiniteSet(1 .. n)
    BY FS_Interval
  <2> QED
    BY <2>1, FS_Subset
<1>3. S \in P
  BY <1>1, <1>2, SubsetInduction
<1> QED
  BY <1>3 DEF P

\* There is one for the rows of every sheet.
LEMMA RepairingExists ==
    ASSUME NEW kind, NEW table, NEW rows, NEW n \in Nat, NEW S \in SUBSET (1 .. n)
    PROVE  \E g : Repairing(g, kind, table, rows, S)
<1> DEFINE The(U) == CHOOSE g : Repairing(g, kind, table, rows, U)
           P == {T \in SUBSET S : Repairing(The(T), kind, table, rows, T)}
<1>1. ASSUME NEW T \in SUBSET S, \A U \in SUBSET T : U # T => U \in P
      PROVE  T \in P
  <2> DEFINE h == [U \in SUBSET T |->
                     IF U = {} THEN table
                     ELSE Applied(kind, The(U \ {Max(U)})[U \ {Max(U)}], rows[Max(U)])]
  <2>0. \A U \in SUBSET T : U # {} => Max(U) \in U
    BY LastRow
  <2>1. ASSUME NEW U \in SUBSET T, U # T
        PROVE  h[U] = The(U)[U]
    <3>1. Repairing(The(U), kind, table, rows, U)
      BY <1>1, <2>1
    <3>2. CASE U = {}
      BY <3>1, <3>2 DEF Repairing
    <3>3. CASE U # {}
      <4> DEFINE V == U \ {Max(U)}
      <4>1. V \subseteq U /\ V # T /\ V \in SUBSET T
        BY <2>0, <2>1, <3>3
      <4>2. Repairing(The(V), kind, table, rows, V)
        BY <1>1, <4>1
      <4>3. V \in SUBSET (1 .. n)
        BY <4>1
      <4> HIDE DEF The
      <4>4. The(V)[V] = The(U)[V]
        <5> DEFINE a == The(V)
                   b == The(U)
        <5>1. Repairing(a, kind, table, rows, V) /\ Repairing(b, kind, table, rows, U)
          BY <3>1, <4>2
        <5> HIDE DEF a, b, V
        <5>2. a[V] = b[V]
          BY <5>1, <4>1, <4>3, RepairsAgree
        <5> QED
          BY <5>2 DEF a, b
      <4>5. The(U)[U] = Applied(kind, The(U)[V], rows[Max(U)])
        BY <3>1, <3>3 DEF Repairing
      <4>6. h[U] = Applied(kind, The(V)[V], rows[Max(U)])
        BY <3>3
      <4> QED
        BY <4>4, <4>5, <4>6
    <3> QED
      BY <3>2, <3>3
  <2>2. h = [U \in SUBSET T |->
               IF U = {} THEN table ELSE Applied(kind, h[U \ {Max(U)}], rows[Max(U)])]
    <3> HIDE DEF The
    <3>1. \A U \in SUBSET T : U # {} =>
             /\ U \ {Max(U)} \in SUBSET T
             /\ U \ {Max(U)} # T
      BY <2>0
    <3>2. \A U \in SUBSET T : U # {} =>
             h[U \ {Max(U)}] = The(U \ {Max(U)})[U \ {Max(U)}]
      BY <2>1, <3>1
    <3> QED
      BY <3>2
  <2>3. Repairing(h, kind, table, rows, T)
    BY <2>2 DEF Repairing
  <2> HIDE DEF h
  <2> QED
    BY <2>3
<1> HIDE DEF P
<1>2. IsFiniteSet(S)
  <2>1. IsFiniteSet(1 .. n)
    BY FS_Interval
  <2> QED
    BY <2>1, FS_Subset
<1>3. S \in P
  BY <1>1, <1>2, SubsetInduction
<1> QED
  BY <1>3 DEF P

\* What the wizards leave.
LEMMA PricesApplied ==
    ASSUME ApplyPrices, NEW n \in Nat, repair.kept \in SUBSET (1 .. n)
    PROVE  \E g : Repairing(g, "prices", item, repair.rows, repair.kept) /\ item' = g[repair.kept]
<1> DEFINE Is(g) == g = [T \in SUBSET repair.kept |->
                           IF T = {} THEN item ELSE Mended(g[T \ {Max(T)}], repair.rows[Max(T)])]
<1>1. item' = (CHOOSE g : Is(g))[repair.kept]
  BY DEF ApplyPrices, MapThenFoldSet
<1>2. \A g : Is(g) <=> Repairing(g, "prices", item, repair.rows, repair.kept)
  BY DEF Repairing, Applied
<1>3. \E g : Is(g)
  BY <1>2, RepairingExists
<1> HIDE DEF Is
<1>4. Is(CHOOSE g : Is(g))
  BY <1>3
<1> QED
  BY <1>1, <1>2, <1>4

\* The same of costs.
LEMMA CostsApplied ==
    ASSUME ApplyCosts, NEW n \in Nat, repair.kept \in SUBSET (1 .. n)
    PROVE  \E g : Repairing(g, "costs", item, repair.rows, repair.kept) /\ item' = g[repair.kept]
<1> DEFINE Is(g) == g = [T \in SUBSET repair.kept |->
                           IF T = {} THEN item ELSE Recosted(g[T \ {Max(T)}], repair.rows[Max(T)])]
<1>1. item' = (CHOOSE g : Is(g))[repair.kept]
  BY DEF ApplyCosts, MapThenFoldSet
<1>2. \A g : Is(g) <=> Repairing(g, "costs", item, repair.rows, repair.kept)
  BY DEF Repairing, Applied
<1>3. \E g : Is(g)
  BY <1>2, RepairingExists
<1> HIDE DEF Is
<1>4. Is(CHOOSE g : Is(g))
  BY <1>3
<1> QED
  BY <1>1, <1>2, <1>4

-----------------------------------------------------------------------------
(* What the rows of a sheet do to the lines.                               *)

\* The lines b are those of a, but for prices.
SameLines(a, b) ==
    /\ b \in [DOMAIN a -> Item]
    /\ \A n \in DOMAIN a : b[n].live = a[n].live /\ b[n].of = a[n].of /\ b[n].article = a[n].article

\* b is what the rows numbered in T, prices of inventory lines, make of a.
PricedBy(a, b, rows, T) ==
    /\ \A n \in DOMAIN a : a[n].of = Till \/ a[n].price # Zero => b[n] = a[n]
    /\ \A k \in T, n \in DOMAIN a :
          rows[k].cost # Zero /\ a[n].live /\ a[n].of # Till /\ a[n].article = rows[k].article
             => b[n].price # Zero

\* b is what the rows numbered in T, costs of sales, make of a.
CostedBy(a, b, rows, T) ==
    /\ \A n \in DOMAIN a : a[n].of # Till => b[n] = a[n]
    /\ \A k \in T :
          (\A m \in T : m > k => rows[m].article # rows[k].article)
             => \A n \in DOMAIN a :
                   a[n].live /\ a[n].of = Till /\ a[n].article = rows[k].article
                      => b[n].price = rows[k].cost

\* A row changes nothing but prices.
LEMMA RowKeepsLines ==
    ASSUME NEW a, NEW b, SameLines(a, b), NEW r \in Row
    PROVE  SameLines(a, Mended(b, r)) /\ SameLines(a, Recosted(b, r))
<1>1. ASSUME NEW n \in DOMAIN a
      PROVE  LET c == [b[n] EXCEPT !.price = r.cost] IN
             /\ c \in Item
             /\ c.live = b[n].live /\ c.of = b[n].of /\ c.article = b[n].article
  <2>1. b[n] \in Item /\ r.cost \in Costs \union {Zero}
    BY DEF SameLines, Row
  <2> QED
    BY <2>1 DEF Item
<1>2. DOMAIN b = DOMAIN a /\ \A n \in DOMAIN a : b[n] \in Item
  BY DEF SameLines
<1>3. SameLines(a, Mended(b, r))
  <2> DEFINE c == Mended(b, r)
  <2>1. DOMAIN c = DOMAIN a
    BY <1>2 DEF Mended
  <2>2. \A n \in DOMAIN a : c[n] = b[n] \/ c[n] = [b[n] EXCEPT !.price = r.cost]
    BY <1>2 DEF Mended
  <2>3. \A n \in DOMAIN a : c[n] \in Item /\ c[n].live = b[n].live /\ c[n].of = b[n].of
                              /\ c[n].article = b[n].article
    BY <1>1, <1>2, <2>2
  <2>4. c = [n \in DOMAIN a |-> c[n]]
    BY <1>2 DEF Mended
  <2> HIDE DEF c
  <2>5. c \in [DOMAIN a -> Item]
    BY <2>3, <2>4
  <2> QED
    BY <2>3, <2>5 DEF SameLines, c
<1>4. SameLines(a, Recosted(b, r))
  <2> DEFINE c == Recosted(b, r)
  <2>1. DOMAIN c = DOMAIN a
    BY <1>2 DEF Recosted
  <2>2. \A n \in DOMAIN a : c[n] = b[n] \/ c[n] = [b[n] EXCEPT !.price = r.cost]
    BY <1>2 DEF Recosted
  <2>3. \A n \in DOMAIN a : c[n] \in Item /\ c[n].live = b[n].live /\ c[n].of = b[n].of
                              /\ c[n].article = b[n].article
    BY <1>1, <1>2, <2>2
  <2>4. c = [n \in DOMAIN a |-> c[n]]
    BY <1>2 DEF Recosted
  <2> HIDE DEF c
  <2>5. c \in [DOMAIN a -> Item]
    BY <2>3, <2>4
  <2> QED
    BY <2>3, <2>5 DEF SameLines, c
<1> QED
  BY <1>3, <1>4

\* The rows before M having been applied, so is M.
LEMMA RowIsPriced ==
    ASSUME NEW a, NEW b, SameLines(a, b), NEW rows, NEW T, NEW M \in T, rows[M] \in Row,
           PricedBy(a, b, rows, T \ {M})
    PROVE  PricedBy(a, Mended(b, rows[M]), rows, T)
<1> DEFINE r == rows[M]
           c == Mended(b, r)
<1>1. DOMAIN b = DOMAIN a /\ \A n \in DOMAIN a : b[n] \in Item
  BY DEF SameLines
<1>2. ASSUME NEW n \in DOMAIN a
      PROVE  /\ b[n].live = a[n].live /\ b[n].of = a[n].of /\ b[n].article = a[n].article
             /\ b[n].live /\ b[n].of # Till /\ b[n].article = r.article /\ b[n].price = Zero
                   => c[n] = [b[n] EXCEPT !.price = r.cost]
             /\ ~(b[n].live /\ b[n].of # Till /\ b[n].article = r.article /\ b[n].price = Zero)
                   => c[n] = b[n]
             /\ [b[n] EXCEPT !.price = r.cost].price = r.cost
  BY <1>1 DEF Mended, SameLines, Item
<1> HIDE DEF c
<1>3. ASSUME NEW n \in DOMAIN a, a[n].of = Till \/ a[n].price # Zero
      PROVE  c[n] = a[n]
  BY <1>2, <1>3 DEF PricedBy
<1>4. ASSUME NEW k \in T, NEW n \in DOMAIN a, rows[k].cost # Zero, a[n].live, a[n].of # Till,
             a[n].article = rows[k].article
      PROVE  c[n].price # Zero
  <2>1. CASE k = M
    BY <1>2, <1>4, <2>1
  <2>2. CASE k # M
    <3>1. b[n].price # Zero
      BY <1>4, <2>2 DEF PricedBy
    <3> QED
      BY <1>2, <3>1
  <2> QED
    BY <2>1, <2>2
<1> QED
  BY <1>3, <1>4 DEF PricedBy, c

\* The same of costs.
LEMMA RowIsCosted ==
    ASSUME NEW a, NEW b, SameLines(a, b), NEW rows, NEW T, T \subseteq Nat, NEW M \in T,
           rows[M] \in Row, \A k \in T : ~(k > M), CostedBy(a, b, rows, T \ {M})
    PROVE  CostedBy(a, Recosted(b, rows[M]), rows, T)
<1> DEFINE r == rows[M]
           c == Recosted(b, r)
<1>1. DOMAIN b = DOMAIN a /\ \A n \in DOMAIN a : b[n] \in Item
  BY DEF SameLines
<1>2. ASSUME NEW n \in DOMAIN a
      PROVE  /\ b[n].live = a[n].live /\ b[n].of = a[n].of /\ b[n].article = a[n].article
             /\ b[n].live /\ b[n].of = Till /\ b[n].article = r.article
                   => c[n] = [b[n] EXCEPT !.price = r.cost]
             /\ ~(b[n].live /\ b[n].of = Till /\ b[n].article = r.article)
                   => c[n] = b[n]
             /\ [b[n] EXCEPT !.price = r.cost].price = r.cost
  BY <1>1 DEF Recosted, SameLines, Item
<1> HIDE DEF c
<1>3. ASSUME NEW n \in DOMAIN a, a[n].of # Till
      PROVE  c[n] = a[n]
  BY <1>2, <1>3 DEF CostedBy
<1>4. ASSUME NEW k \in T, \A m \in T : m > k => rows[m].article # rows[k].article,
             NEW n \in DOMAIN a, a[n].live, a[n].of = Till, a[n].article = rows[k].article
      PROVE  c[n].price = rows[k].cost
  <2>1. CASE k = M
    BY <1>2, <1>4, <2>1
  <2>2. CASE k # M
    <3>1. M > k
      <4>1. M \in Nat /\ k \in Nat /\ ~(k > M)
        BY <1>4
      <4> QED
        BY <2>2, <4>1
    <3>2. k \in T \ {M} /\ \A m \in T \ {M} : m > k => rows[m].article # rows[k].article
      BY <1>4, <2>2
    <3>3. b[n].price = rows[k].cost
      BY <1>4, <3>2 DEF CostedBy
    <3>4. b[n].article # r.article
      BY <1>2, <1>4, <3>1
    <3> QED
      BY <1>2, <3>3, <3>4
  <2> QED
    BY <2>1, <2>2
<1> QED
  BY <1>3, <1>4 DEF CostedBy, c

\* Hence all rows.
LEMMA RowsArePriced ==
    ASSUME NEW a, a \in [DOMAIN a -> Item], NEW n \in Nat, NEW S \in SUBSET (1 .. n), NEW rows,
           \A k \in S : rows[k] \in Row, NEW g, Repairing(g, "prices", a, rows, S)
    PROVE  SameLines(a, g[S]) /\ PricedBy(a, g[S], rows, S)
<1> DEFINE P == {T \in SUBSET S : SameLines(a, g[T]) /\ PricedBy(a, g[T], rows, T)}
<1>1. ASSUME NEW T \in SUBSET S, \A U \in SUBSET T : U # T => U \in P
      PROVE  T \in P
  <2>1. CASE T = {}
    <3>1. g[T] = a
      BY <2>1 DEF Repairing
    <3> QED
      BY <2>1, <3>1 DEF SameLines, PricedBy
  <2>2. CASE T # {}
    <3> DEFINE M == Max(T)
    <3>1. M \in T /\ \A k \in T : ~(k > M)
      BY <2>2, LastRow
    <3>2. g[T] = Mended(g[T \ {M}], rows[M])
      BY <2>2 DEF Repairing, Applied
    <3> HIDE DEF M
    <3>3. SameLines(a, g[T \ {M}]) /\ PricedBy(a, g[T \ {M}], rows, T \ {M})
      BY <1>1, <3>1
    <3>4. rows[M] \in Row
      BY <3>1
    <3>5. SameLines(a, g[T])
      BY <3>2, <3>3, <3>4, RowKeepsLines
    <3>6. PricedBy(a, g[T], rows, T)
      BY <3>1, <3>2, <3>3, <3>4, RowIsPriced
    <3> QED
      BY <3>5, <3>6
  <2> QED
    BY <2>1, <2>2
<1> HIDE DEF P
<1>2. IsFiniteSet(S)
  <2>1. IsFiniteSet(1 .. n)
    BY FS_Interval
  <2> QED
    BY <2>1, FS_Subset
<1>3. S \in P
  BY <1>1, <1>2, SubsetInduction
<1> QED
  BY <1>3 DEF P

\* The same of costs.
LEMMA RowsAreCosted ==
    ASSUME NEW a, a \in [DOMAIN a -> Item], NEW n \in Nat, NEW S \in SUBSET (1 .. n), NEW rows,
           \A k \in S : rows[k] \in Row, NEW g, Repairing(g, "costs", a, rows, S)
    PROVE  SameLines(a, g[S]) /\ CostedBy(a, g[S], rows, S)
<1> DEFINE P == {T \in SUBSET S : SameLines(a, g[T]) /\ CostedBy(a, g[T], rows, T)}
<1>1. ASSUME NEW T \in SUBSET S, \A U \in SUBSET T : U # T => U \in P
      PROVE  T \in P
  <2>1. CASE T = {}
    <3>1. g[T] = a
      BY <2>1 DEF Repairing
    <3> QED
      BY <2>1, <3>1 DEF SameLines, CostedBy
  <2>2. CASE T # {}
    <3> DEFINE M == Max(T)
    <3>1. M \in T /\ \A k \in T : ~(k > M)
      BY <2>2, LastRow
    <3>2. g[T] = Recosted(g[T \ {M}], rows[M])
      BY <2>2 DEF Repairing, Applied
    <3> HIDE DEF M
    <3>3. SameLines(a, g[T \ {M}]) /\ CostedBy(a, g[T \ {M}], rows, T \ {M})
      BY <1>1, <3>1
    <3>4. rows[M] \in Row /\ T \subseteq Nat
      BY <3>1
    <3>5. SameLines(a, g[T])
      BY <3>2, <3>3, <3>4, RowKeepsLines
    <3>6. CostedBy(a, g[T], rows, T)
      BY <3>1, <3>2, <3>3, <3>4, RowIsCosted
    <3> QED
      BY <3>5, <3>6
  <2> QED
    BY <2>1, <2>2
<1> HIDE DEF P
<1>2. IsFiniteSet(S)
  <2>1. IsFiniteSet(1 .. n)
    BY FS_Interval
  <2> QED
    BY <2>1, FS_Subset
<1>3. S \in P
  BY <1>1, <1>2, SubsetInduction
<1> QED
  BY <1>3 DEF P

-----------------------------------------------------------------------------
(* The wizards.                                                            *)

Kinds == {"none", "prices", "costs", "orphans", "named"}

Repair == [kind : Kinds, rows : Seq(Row), kept : SUBSET Nat, ids : SUBSET Nat]

RepairIInv ==
    /\ RepairInv
    /\ repair \in Repair
    /\ repair.kept \subseteq DOMAIN repair.rows

\* The first state.
LEMMA RepairFirst == RepairInit => RepairIInv
<1> SUFFICES ASSUME RepairInit PROVE RepairIInv
  OBVIOUS
<1>1. item = <<>> /\ DOMAIN item = {} /\ item \in Seq(Item)
  BY DEF RepairInit
<1>2. repair.ids = {} /\ repair.kept = {} /\ repair \in Repair
  BY DEF RepairInit, NoRepair, Repair, Kinds
<1>3. stage \in [Inventories -> {"draft", "in_progress", "done"}]
  BY DEF RepairInit
<1>4. \A i \in Inventories : stage[i] # "done"
  BY DEF RepairInit
<1> QED
  BY <1>1, <1>2, <1>3, <1>4 DEF RepairIInv, RepairInv

\* A step that closes no wizard applies nothing.
LEMMA NothingApplied ==
    ASSUME repair'.kind = repair.kind \/ repair'.kind # "none"
    PROVE  PricesAreFilled /\ CostsAreTold /\ OnlyShownIsDeleted
BY DEF PricesAreFilled, CostsAreTold, OnlyShownIsDeleted, Applying

\* Lines that only change their price keep the invariant, if none loses it.
LEMMA PricesMove ==
    ASSUME RepairInv, UNCHANGED stage, repair'.ids = {}, SameLines(item, item'),
           \A n \in DOMAIN item : item[n].of # Till /\ item[n].price # Zero => item'[n].price # Zero
    PROVE  RepairInv' /\ Live' = Live
<1>1. item \in Seq(Item) /\ DOMAIN item = 1 .. Len(item) /\ Len(item) \in Nat
  BY DEF RepairInv
<1>2. item' \in [1 .. Len(item) -> Item]
  BY <1>1 DEF SameLines
<1>3. item' \in Seq(Item) /\ DOMAIN item' = DOMAIN item
  BY <1>1, <1>2
<1>4. Live' = Live
  BY <1>3 DEF Live, SameLines
<1>5. ASSUME NEW i \in Inventories, stage[i] = "done", NEW n \in Of(i)'
      PROVE  item'[n].price # Zero
  <2>1. n \in Of(i) /\ n \in DOMAIN item /\ item[n].of = i
    BY <1>3, <1>4 DEF Of, Live, SameLines
  <2> QED
    BY <1>5, <2>1, RepairAssumption DEF RepairInv
<1> QED
  BY <1>3, <1>4, <1>5 DEF RepairInv

\* Lines are deleted by their ids.
LEMMA LinesGo ==
    ASSUME RepairInv, UNCHANGED stage, NEW ids, NEW w \in Repair, w.ids \subseteq Live, Without(ids, w)
    PROVE  RepairInv' /\ Live' = Live \ ids /\ repair' = [w EXCEPT !.ids = w.ids \ ids]
           /\ repair' \in Repair /\ repair'.kind = w.kind
           /\ repair'.kept = w.kept /\ repair'.rows = w.rows
<1>1. item \in Seq(Item) /\ DOMAIN item = 1 .. Len(item) /\ Len(item) \in Nat
  BY DEF RepairInv
<1>2. PICK f \in BOOLEAN : f = FALSE
  OBVIOUS
<1>3. item' = [n \in DOMAIN item |-> IF n \in ids THEN [item[n] EXCEPT !.live = f] ELSE item[n]]
  BY <1>2, Zenon DEF Without
<1>4. DOMAIN item' = DOMAIN item
  BY <1>3
<1>5. ASSUME NEW n \in DOMAIN item
      PROVE  /\ item'[n] \in Item
             /\ item'[n].of = item[n].of /\ item'[n].price = item[n].price
             /\ n \in ids => item'[n].live = f
             /\ n \notin ids => item'[n].live = item[n].live
  <2>1. item[n] \in Item
    BY <1>1, <1>5
  <2>2. [item[n] EXCEPT !.live = f] \in Item
    BY <2>1 DEF Item
  <2>3. item'[n] = IF n \in ids THEN [item[n] EXCEPT !.live = f] ELSE item[n]
    BY <1>3
  <2> QED
    BY <2>1, <2>2, <2>3 DEF Item
<1>6. item' \in [1 .. Len(item) -> Item]
  BY <1>1, <1>3, <1>5
<1>7. item' \in Seq(Item)
  BY <1>1, <1>6
<1>8. Live' = Live \ ids
  <2>1. \A n \in DOMAIN item : n \in ids => ~item'[n].live
    BY <1>2, <1>5
  <2> QED
    BY <1>4, <1>5, <2>1 DEF Live
<1>9. repair' = [w EXCEPT !.ids = w.ids \ ids]
  BY DEF Without
<1>10. repair' \in Repair /\ repair'.ids = w.ids \ ids /\ repair'.kind = w.kind
       /\ repair'.kept = w.kept /\ repair'.rows = w.rows
  BY <1>9 DEF Repair
<1>11. ASSUME NEW i \in Inventories, stage[i] = "done", NEW n \in Of(i)'
       PROVE  item'[n].price # Zero
  <2>1. n \in Live' /\ item'[n].of = i
    BY DEF Of
  <2>2. n \in Of(i) /\ n \in DOMAIN item
    BY <1>4, <1>5, <1>8, <2>1 DEF Of, Live
  <2> QED
    BY <1>5, <1>11, <2>2 DEF RepairInv
<1> QED
  BY <1>7, <1>8, <1>9, <1>10, <1>11 DEF RepairInv

\* The repair of prices keeps the invariant and fills prices only.
LEMMA PricesStep ==
    ASSUME RepairIInv, ApplyPrices
    PROVE  RepairIInv' /\ PricesAreFilled /\ Live' = Live
<1> DEFINE rows == repair.rows
           kept == repair.kept
<1>1. item \in [DOMAIN item -> Item] /\ rows \in Seq(Row) /\ kept \in SUBSET (1 .. Len(rows))
      /\ Len(rows) \in Nat
  BY DEF RepairIInv, RepairInv, Repair
<1>2. \A k \in kept : rows[k] \in Row
  BY <1>1
<1>3. PICK g : Repairing(g, "prices", item, rows, kept) /\ item' = g[kept]
  BY <1>1, PricesApplied
<1> HIDE DEF rows, kept
<1>4. SameLines(item, item') /\ PricedBy(item, item', rows, kept)
  BY <1>1, <1>2, <1>3, RowsArePriced
<1> USE DEF rows, kept
<1>5. repair' = NoRepair /\ NoRepair.ids = {} /\ NoRepair.kept = {} /\ NoRepair \in Repair
  <2>1. NoRepair.ids = {} /\ NoRepair.kept = {} /\ NoRepair \in Repair
    BY DEF NoRepair, Repair, Kinds
  <2>2. repair' = NoRepair
    BY Zenon DEF ApplyPrices
  <2> QED
    BY <2>1, <2>2
<1>6. \A n \in DOMAIN item : item[n].of # Till /\ item[n].price # Zero => item'[n].price # Zero
  BY <1>4 DEF PricedBy
<1>7. RepairInv' /\ Live' = Live
  BY <1>4, <1>5, <1>6, PricesMove DEF ApplyPrices, RepairIInv
<1>8. PricesAreFilled
  <2>1. DOMAIN item' = DOMAIN item
    BY <1>4 DEF SameLines
  <2> QED
    BY <1>4, <2>1 DEF PricesAreFilled, PricedBy, SameLines
<1> QED
  BY <1>5, <1>7, <1>8 DEF RepairIInv

\* The repair of costs gives each article the cost of its last row.
LEMMA CostsStep ==
    ASSUME RepairIInv, ApplyCosts
    PROVE  RepairIInv' /\ CostsAreTold /\ Live' = Live
<1> DEFINE rows == repair.rows
           kept == repair.kept
<1>1. item \in [DOMAIN item -> Item] /\ rows \in Seq(Row) /\ kept \in SUBSET (1 .. Len(rows))
      /\ Len(rows) \in Nat
  BY DEF RepairIInv, RepairInv, Repair
<1>2. \A k \in kept : rows[k] \in Row
  BY <1>1
<1>3. PICK g : Repairing(g, "costs", item, rows, kept) /\ item' = g[kept]
  BY <1>1, CostsApplied
<1> HIDE DEF rows, kept
<1>4. SameLines(item, item') /\ CostedBy(item, item', rows, kept)
  BY <1>1, <1>2, <1>3, RowsAreCosted
<1> USE DEF rows, kept
<1>5. repair' = NoRepair /\ NoRepair.ids = {} /\ NoRepair.kept = {} /\ NoRepair \in Repair
  <2>1. NoRepair.ids = {} /\ NoRepair.kept = {} /\ NoRepair \in Repair
    BY DEF NoRepair, Repair, Kinds
  <2>2. repair' = NoRepair
    BY Zenon DEF ApplyCosts
  <2> QED
    BY <2>1, <2>2
<1>6. \A n \in DOMAIN item : item[n].of # Till /\ item[n].price # Zero => item'[n].price # Zero
  BY <1>4 DEF CostedBy
<1>7. RepairInv' /\ Live' = Live
  BY <1>4, <1>5, <1>6, PricesMove DEF ApplyCosts, RepairIInv
<1>8. CostsAreTold
  <2>1. DOMAIN item' = DOMAIN item
    BY <1>4 DEF SameLines
  <2> QED
    BY <1>4, <2>1 DEF CostsAreTold, CostedBy, SameLines
<1> QED
  BY <1>5, <1>7, <1>8 DEF RepairIInv

\* The wizards that delete take what they showed.
LEMMA DeletionStep ==
    ASSUME RepairIInv, DeleteOrphans \/ DeleteNamed
    PROVE  RepairIInv' /\ OnlyShownIsDeleted
<1>1. NoRepair \in Repair /\ NoRepair.ids = {} /\ NoRepair.kept = {} /\ NoRepair.kind = "none"
  BY DEF NoRepair, Repair, Kinds
<1>2. CASE DeleteOrphans
  <2> DEFINE ids == {n \in repair.ids : Orphan(n)}
  <2>1. Without(ids, NoRepair) /\ UNCHANGED stage /\ repair.kind = "orphans"
    BY <1>2 DEF DeleteOrphans
  <2>2. \A n \in ids : n \in repair.ids /\ item[n].of = Nowhere /\ ~item[n].counted
    BY DEF Orphan
  <2> HIDE DEF ids
  <2>3. RepairInv' /\ Live' = Live \ ids /\ repair' \in Repair /\ repair'.kept = {}
    BY <1>1, <2>1, LinesGo DEF RepairIInv
  <2>4. (Live \ Live') \subseteq ids
    BY <2>3
  <2>5. OnlyShownIsDeleted
    BY <2>1, <2>2, <2>4 DEF OnlyShownIsDeleted, Applying
  <2> QED
    BY <2>3, <2>5 DEF RepairIInv
<1>3. CASE DeleteNamed
  <2>1. Without(repair.ids, NoRepair) /\ UNCHANGED stage /\ repair.kind = "named"
    BY <1>3 DEF DeleteNamed, Doomed
  <2>2. RepairInv' /\ Live' = Live \ repair.ids /\ repair' \in Repair /\ repair'.kept = {}
    BY <1>1, <2>1, LinesGo DEF RepairIInv
  <2>3. (Live \ Live') \subseteq repair.ids
    BY <2>2
  <2>4. OnlyShownIsDeleted
    BY <2>1, <2>3 DEF OnlyShownIsDeleted, Applying
  <2> QED
    BY <2>2, <2>4 DEF RepairIInv
<1> QED
  BY <1>2, <1>3

\* Every step keeps the invariant, and applies what it should.
LEMMA RepairMoves ==
    ASSUME RepairIInv, [RepairNext]_repairVars
    PROVE  RepairIInv' /\ PricesAreFilled /\ CostsAreTold /\ OnlyShownIsDeleted
<1>0. item \in Seq(Item) /\ DOMAIN item = 1 .. Len(item) /\ Len(item) \in Nat
      /\ repair \in Repair /\ Live \subseteq Nat
  BY DEF RepairIInv, RepairInv, Live
<1>1. ASSUME NEW i \in Inventories \union {Till}, NEW a \in Stocked, NEW p \in Costs \union {Zero},
             EnterItem(i, a, p)
      PROVE  RepairIInv' /\ repair' = repair
  <2> DEFINE new == NewItem(i, a, p)
  <2>1. new \in Item /\ new.of = i
    <3>1. PICK f, t \in BOOLEAN : f = FALSE /\ t = TRUE
      OBVIOUS
    <3>2. new = [of |-> i, article |-> a, counted |-> f, price |-> p, live |-> t]
      BY <3>1, Zenon DEF NewItem
    <3> QED
      BY <3>2 DEF Item
  <2>2. item' = Append(item, new) /\ UNCHANGED <<stage, repair>>
    BY <1>1 DEF EnterItem
  <2> HIDE DEF new
  <2>3. item' \in Seq(Item) /\ DOMAIN item' = DOMAIN item \union {Len(item) + 1}
        /\ item'[Len(item) + 1] = new /\ \A n \in DOMAIN item : item'[n] = item[n]
    BY <1>0, <2>1, <2>2
  <2>4. Live \subseteq Live'
    BY <2>3 DEF Live
  <2>5. ASSUME NEW j \in Inventories, stage[j] = "done", NEW n \in Of(j)'
        PROVE  item'[n].price # Zero
    <3>1. j # i
      BY <1>1, <2>5, RepairAssumption DEF EnterItem
    <3>2. n \in DOMAIN item' /\ item'[n].live /\ item'[n].of = j
      BY DEF Of, Live
    <3>3. n # Len(item) + 1
      BY <2>1, <2>3, <3>1, <3>2
    <3>4. n \in Of(j) /\ n \in DOMAIN item
      BY <2>3, <3>2, <3>3 DEF Of, Live
    <3> QED
      BY <2>3, <2>5, <3>4 DEF RepairIInv, RepairInv
  <2> QED
    BY <2>2, <2>3, <2>4, <2>5 DEF RepairIInv, RepairInv
<1>2. ASSUME NEW i \in Inventories, Renew(i)
      PROVE  RepairIInv' /\ repair'.kind = repair.kind
  <2>1. Without(Of(i), repair) /\ UNCHANGED stage
    BY <1>2 DEF Renew
  <2>2. RepairInv' /\ repair' \in Repair /\ repair'.kind = repair.kind
        /\ repair'.kept = repair.kept /\ repair'.rows = repair.rows
    BY <1>0, <2>1, LinesGo DEF RepairIInv, RepairInv
  <2> QED
    BY <2>2 DEF RepairIInv
<1>3. ASSUME NEW m \in DOMAIN item, CountItem(m)
      PROVE  RepairIInv' /\ repair' = repair
  <2>1. PICK b \in BOOLEAN : b = ~item[m].counted
    OBVIOUS
  <2>2. item' = [item EXCEPT ![m] = [item[m] EXCEPT !.counted = b]]
    BY <1>3, <2>1, Zenon DEF CountItem
  <2>3. UNCHANGED <<stage, repair>>
    BY <1>3 DEF CountItem
  <2>4. item[m] \in Item /\ [item[m] EXCEPT !.counted = b] \in Item
    <3>1. item[m] \in Item
      BY <1>0, <1>3
    <3> QED
      BY <3>1 DEF Item
  <2>5. item' \in Seq(Item) /\ DOMAIN item' = DOMAIN item
    BY <1>0, <2>2, <2>4
  <2>6. \A n \in DOMAIN item : item'[n].of = item[n].of /\ item'[n].price = item[n].price
                                 /\ item'[n].live = item[n].live
    BY <1>0, <2>2, <2>4 DEF Item
  <2>7. Live' = Live
    BY <2>5, <2>6 DEF Live
  <2>8. \A j \in Inventories : Of(j)' = Of(j)
    BY <2>6, <2>7 DEF Of, Live
  <2>9. \A j \in Inventories : \A n \in Of(j) : item'[n].price = item[n].price
    BY <2>6 DEF Of, Live
  <2> QED
    BY <2>3, <2>5, <2>7, <2>8, <2>9 DEF RepairIInv, RepairInv
<1>4. ASSUME NEW i \in Inventories, Submit(i) \/ Close(i) \/ Back(i)
      PROVE  RepairIInv' /\ repair' = repair
  <2>1. UNCHANGED <<item, repair>>
    BY <1>4 DEF Submit, Close, Back
  <2>2. stage' \in [Inventories -> {"draft", "in_progress", "done"}]
    BY <1>4 DEF Submit, Close, Back, RepairIInv, RepairInv
  <2>3. Live' = Live /\ \A j \in Inventories : Of(j)' = Of(j)
    BY <2>1 DEF Live, Of
  <2>4. ASSUME NEW j \in Inventories, stage'[j] = "done", NEW n \in Of(j)
        PROVE  item[n].price # Zero
    <3>1. stage[j] = "done" \/ (j = i /\ Close(i))
      BY <1>4, <2>4 DEF Submit, Close, Back, RepairIInv, RepairInv
    <3> QED
      BY <2>4, <3>1 DEF Close, RepairIInv, RepairInv
  <2> QED
    BY <2>1, <2>2, <2>3, <2>4 DEF RepairIInv, RepairInv
<1>5. ASSUME NEW i \in Inventories, Drop(i)
      PROVE  RepairIInv' /\ repair' = repair
  <2>1. UNCHANGED <<stage, repair>>
        /\ item' = [n \in DOMAIN item |-> IF n \in Of(i) THEN [item[n] EXCEPT !.of = Nowhere] ELSE item[n]]
    BY <1>5 DEF Drop
  <2>2. ASSUME NEW n \in DOMAIN item
        PROVE  /\ item'[n] \in Item /\ item'[n].live = item[n].live /\ item'[n].price = item[n].price
               /\ item'[n].of = Nowhere \/ item'[n].of = item[n].of
    <3>0. item[n] \in Item
      BY <1>0, <2>2
    <3>1. item[n] \in Item /\ [item[n] EXCEPT !.of = Nowhere] \in Item
      BY <3>0 DEF Item
    <3>2. item'[n] = IF n \in Of(i) THEN [item[n] EXCEPT !.of = Nowhere] ELSE item[n]
      BY <2>1
    <3> QED
      BY <3>1, <3>2 DEF Item
  <2>3. item' \in [1 .. Len(item) -> Item] /\ DOMAIN item' = DOMAIN item
    BY <1>0, <2>1, <2>2
  <2>4. item' \in Seq(Item)
    BY <1>0, <2>3
  <2>5. Live' = Live
    BY <2>2, <2>3 DEF Live
  <2>6. ASSUME NEW j \in Inventories, stage[j] = "done", NEW n \in Of(j)'
        PROVE  item'[n].price # Zero
    <3>1. n \in DOMAIN item /\ n \in Live /\ item'[n].of = j
      BY <2>5 DEF Of, Live
    <3>2. j # Nowhere
      BY RepairAssumption
    <3>3. n \in Of(j)
      BY <2>2, <3>1, <3>2 DEF Of
    <3> QED
      BY <2>2, <2>6, <3>1, <3>3 DEF RepairIInv, RepairInv
  <2> QED
    BY <2>1, <2>4, <2>5, <2>6 DEF RepairIInv, RepairInv
<1>6. ASSUME NEW rows \in Repairs, Look(rows)
      PROVE  RepairIInv' /\ repair'.kind # "none"
  <2>1. UNCHANGED <<item, stage>> /\ rows \in Seq(Row) /\ DOMAIN rows \subseteq Nat
    BY <1>6, RepairAssumption DEF Look
  <2>2. repair' \in Repair /\ repair'.kind # "none" /\ repair'.ids \subseteq Live
        /\ repair'.kept \subseteq DOMAIN repair'.rows
    <3>1. CASE PreviewPrices(rows)
      BY <2>1, <3>1 DEF PreviewPrices, NoRepair, Repair, Kinds
    <3>2. CASE PreviewCosts(rows)
      BY <2>1, <3>2 DEF PreviewCosts, NoRepair, Repair, Kinds
    <3>3. CASE PreviewOrphans
      <4> DEFINE ids == {n \in DOMAIN item : Orphan(n)}
      <4>1. ids \subseteq Live
        BY DEF Orphan, Live
      <4>2. repair' = [NoRepair EXCEPT !.kind = "orphans", !.ids = ids]
        BY <3>3 DEF PreviewOrphans
      <4> HIDE DEF ids
      <4>3. repair' = [kind |-> "orphans", rows |-> <<>>, kept |-> {}, ids |-> ids]
        BY <4>2 DEF NoRepair
      <4>4. ids \in SUBSET Nat /\ <<>> \in Seq(Row)
        BY <1>0, <4>1
      <4> QED
        BY <4>1, <4>3, <4>4 DEF Repair, Kinds
    <3>4. ASSUME NEW i \in Inventories, NEW a \in Stocked, PreviewNamed(i, a)
          PROVE  repair' \in Repair /\ repair'.kind # "none" /\ repair'.ids \subseteq Live
                 /\ repair'.kept \subseteq DOMAIN repair'.rows
      <4> DEFINE ids == {n \in Of(i) : item[n].article = a}
      <4>1. ids \subseteq Live
        BY DEF Of
      <4>2. repair' = [NoRepair EXCEPT !.kind = "named", !.ids = ids]
        BY <3>4 DEF PreviewNamed
      <4> HIDE DEF ids
      <4>3. repair' = [kind |-> "named", rows |-> <<>>, kept |-> {}, ids |-> ids]
        BY <4>2 DEF NoRepair
      <4>4. ids \in SUBSET Nat /\ <<>> \in Seq(Row)
        BY <1>0, <4>1
      <4> QED
        BY <4>1, <4>3, <4>4 DEF Repair, Kinds
    <3> QED
      BY <1>6, <3>1, <3>2, <3>3, <3>4 DEF Look
  <2>3. Live' = Live /\ \A j \in Inventories : Of(j)' = Of(j)
    BY <2>1 DEF Live, Of
  <2> QED
    BY <2>1, <2>2, <2>3 DEF RepairIInv, RepairInv
<1>7. CASE ApplyPrices
  <2>1. repair.kind = "prices"
    BY <1>7 DEF ApplyPrices
  <2> QED
    BY <1>7, <2>1, PricesStep DEF CostsAreTold, OnlyShownIsDeleted, Applying
<1>8. CASE ApplyCosts
  <2>1. repair.kind = "costs"
    BY <1>8 DEF ApplyCosts
  <2> QED
    BY <1>8, <2>1, CostsStep DEF PricesAreFilled, OnlyShownIsDeleted, Applying
<1>9. CASE DeleteOrphans \/ DeleteNamed
  <2>1. repair.kind = "orphans" \/ repair.kind = "named"
    BY <1>9 DEF DeleteOrphans, DeleteNamed
  <2> QED
    BY <1>9, <2>1, DeletionStep DEF PricesAreFilled, CostsAreTold, Applying
<1>10. CASE UNCHANGED repairVars
  <2>1. UNCHANGED <<item, stage, repair>>
    BY <1>10 DEF repairVars
  <2>2. Live' = Live /\ \A j \in Inventories : Of(j)' = Of(j)
    BY <2>1 DEF Live, Of
  <2>3. RepairIInv'
    BY <2>1, <2>2 DEF RepairIInv, RepairInv
  <2> QED
    BY <2>1, <2>3, NothingApplied
<1> QED
  BY <1>1, <1>2, <1>3, <1>4, <1>5, <1>6, <1>7, <1>8, <1>9, <1>10, NothingApplied DEF RepairNext

\* A validated inventory has no line without price and a preview no line that is gone; an
\* application does what its screen said, whatever changed since (the wizards of
\* custom_import_excel on inventory lines and costs of sales).
THEOREM RepairsKeepTheirWord == RepairSpec => []RepairInv /\ RepairsAreSafe
<1>1. RepairIInv => RepairInv
  BY DEF RepairIInv
<1>2. RepairIInv /\ [RepairNext]_repairVars
        => RepairIInv' /\ [PricesAreFilled /\ CostsAreTold /\ OnlyShownIsDeleted]_repairVars
  BY RepairMoves
<1> QED
  BY <1>1, <1>2, RepairFirst, PTL DEF RepairSpec, RepairsAreSafe

-----------------------------------------------------------------------------
(* Direct receipts and returns.                                            *)

\* The values of a product's cost, of a new form and of an empty receipt.
LEMMA DirectValues ==
    /\ NoGoods \in [Goods -> Nat] /\ NoGoods \in [Goods -> Worths]
    /\ NoSlip \in Slip /\ NoSending \in Sending /\ NewEntry \in Entry
<1>1. NoGoods \in [Goods -> Nat] /\ NoGoods \in [Goods -> Worths]
  BY DirectAssumption DEF NoGoods
<1> QED
  BY <1>1 DEF NoSlip, Slip, NoSending, Sending, NewEntry, Entry

\* A cost is one of the costs.
LEMMA CostIsWorth == ASSUME DirectTypeOK PROVE \A g \in Goods : EffectiveCost(g) \in Worths
BY DEF DirectTypeOK, EffectiveCost

\* A form that a clerk enters goods in, and one of details.
LEMMA FormKinds ==
    ASSUME DirectTypeOK, NEW c \in Clerks
    PROVE  (Entering(c) => form[c] \in Entry) /\ (Editing(c) => form[c] \in Info)
BY DEF DirectTypeOK, Entering, Editing, Entry, Info

\* Nothing is there at first.
LEMMA DirectFirst == DirectInit => DirectIInv
<1> SUFFICES ASSUME DirectInit PROVE DirectIInv
  OBVIOUS
<1>1. DirectTypeOK
  <2>1. onHand \in [Goods -> Int]
    BY DirectValues DEF DirectInit
  <2>2. standard \in [Goods -> Worths] /\ newPrice \in [Goods -> Worths]
    BY DirectValues DEF DirectInit
  <2>3. slip \in [Slips -> Slip] /\ sending \in [Sendings -> Sending]
    BY DirectValues DEF DirectInit
  <2>4. detail \in [Slips -> [Details -> Texts]] /\ wanted \in [Slips -> [Details -> Texts]]
    BY DEF DirectInit
  <2>5. form \in [Clerks -> Entry \cup Info \cup {Closed}]
    BY DEF DirectInit
  <2> QED
    BY <2>1, <2>2, <2>3, <2>4, <2>5 DEF DirectTypeOK, DirectInit
<1>2. StockIsWhatCame
  <2> SUFFICES ASSUME NEW g \in Goods
               PROVE  onHand[g] = SumFunctionOnSet([s \in Slips |-> slip[s].quantity[g]], Slips)
                                  - SumFunctionOnSet([r \in Sendings |-> sending[r].left[g]], Sendings)
    BY DEF StockIsWhatCame
  <2> DEFINE came == [s \in Slips |-> slip[s].quantity[g]]
             gone == [r \in Sendings |-> sending[r].left[g]]
  <2>1. /\ \A s \in Slips : came[s] = 0
        /\ \A r \in Sendings : gone[r] = 0
    BY DEF DirectInit, NoSlip, NoSending, NoGoods
  <2>2. onHand[g] = 0
    BY DEF DirectInit, NoGoods
  <2> HIDE DEF came, gone
  <2>3. SumFunctionOnSet(came, Slips) = 0 /\ SumFunctionOnSet(gone, Sendings) = 0
    BY <2>1, SumZero, DirectAssumption
  <2> QED
    BY <2>2, <2>3 DEF came, gone
<1>3. ValuedAtItsCost
  BY DEF ValuedAtItsCost, DirectInit, NoSlip, NoGoods
<1>4. DetailsAreWanted
  BY DEF DetailsAreWanted, DirectInit
<1>5. FormsAreFresh
  BY DEF FormsAreFresh, DirectInit, Entering, Editing
<1>6. NothingBeforeItsTime
  BY DEF NothingBeforeItsTime, DirectInit, NoSending
<1> QED
  BY <1>1, <1>2, <1>3, <1>4, <1>5, <1>6 DEF DirectIInv, DirectInv

\* The stock after a step: what it was, with what came more and what left more.
LEMMA StockMoves ==
    ASSUME DirectTypeOK, StockIsWhatCame, DirectTypeOK',
           \A g \in Goods :
               \/ /\ sending' = sending
                  /\ \E s \in Slips :
                        /\ slip[s].quantity[g] = 0
                        /\ \A u \in Slips \ {s} : slip'[u] = slip[u]
                        /\ onHand'[g] = onHand[g] + slip'[s].quantity[g]
               \/ /\ slip' = slip
                  /\ \E r \in Sendings :
                        /\ sending[r].left[g] = 0
                        /\ \A u \in Sendings \ {r} : sending'[u] = sending[u]
                        /\ onHand'[g] = onHand[g] - sending'[r].left[g]
               \/ UNCHANGED <<onHand, slip, sending>>
    PROVE  StockIsWhatCame'
<1> SUFFICES ASSUME NEW g \in Goods
             PROVE  onHand'[g] = SumFunctionOnSet([s \in Slips |-> slip'[s].quantity[g]], Slips)
                                 - SumFunctionOnSet([r \in Sendings |-> sending'[r].left[g]], Sendings)
  BY DEF StockIsWhatCame
<1> DEFINE came == [s \in Slips |-> slip[s].quantity[g]]
           gone == [r \in Sendings |-> sending[r].left[g]]
           came2 == [s \in Slips |-> slip'[s].quantity[g]]
           gone2 == [r \in Sendings |-> sending'[r].left[g]]
<1>1. onHand[g] = SumFunctionOnSet(came, Slips) - SumFunctionOnSet(gone, Sendings)
  BY DEF StockIsWhatCame
<1>2. /\ \A s \in Slips : slip[s].quantity[g] \in Int /\ slip'[s].quantity[g] \in Int
      /\ \A r \in Sendings : sending[r].left[g] \in Int /\ sending'[r].left[g] \in Int
  BY DEF DirectTypeOK, Slip, Sending
<1>3. /\ \A s \in Slips : came[s] \in Int /\ came2[s] \in Int
      /\ \A r \in Sendings : gone[r] \in Int /\ gone2[r] \in Int
  BY <1>2
<1>4. IsFiniteSet(Slips) /\ IsFiniteSet(Sendings)
  BY DirectAssumption
<1>5. /\ SumFunctionOnSet(came, Slips) \in Int /\ SumFunctionOnSet(came2, Slips) \in Int
      /\ SumFunctionOnSet(gone, Sendings) \in Int /\ SumFunctionOnSet(gone2, Sendings) \in Int
  <2> HIDE DEF came, came2, gone, gone2
  <2> QED
    BY <1>3, <1>4, SumType
<1>6. CASE UNCHANGED <<onHand, slip, sending>>
  BY <1>1, <1>6
<1>7. ASSUME NEW s \in Slips, sending' = sending, slip[s].quantity[g] = 0,
             \A u \in Slips \ {s} : slip'[u] = slip[u],
             onHand'[g] = onHand[g] + slip'[s].quantity[g]
      PROVE  onHand'[g] = SumFunctionOnSet(came2, Slips) - SumFunctionOnSet(gone2, Sendings)
  <2>1. came[s] = 0 /\ came2[s] = slip'[s].quantity[g] /\ gone2 = gone
    BY <1>7
  <2>2. \A u \in Slips \ {s} : came[u] = came2[u]
    BY <1>7
  <2> HIDE DEF came, came2, gone, gone2
  <2>3. SumFunctionOnSet(came2, Slips) = SumFunctionOnSet(came, Slips) - Share(came, Slips, s) + Share(came2, Slips, s)
    BY <2>2, <1>3, <1>4, SumChange
  <2>4. Share(came, Slips, s) = 0 /\ Share(came2, Slips, s) = slip'[s].quantity[g]
    BY <2>1 DEF Share
  <2> QED
    BY <1>1, <1>2, <1>5, <1>7, <2>1, <2>3, <2>4
<1>8. ASSUME NEW r \in Sendings, slip' = slip, sending[r].left[g] = 0,
             \A u \in Sendings \ {r} : sending'[u] = sending[u],
             onHand'[g] = onHand[g] - sending'[r].left[g]
      PROVE  onHand'[g] = SumFunctionOnSet(came2, Slips) - SumFunctionOnSet(gone2, Sendings)
  <2>1. gone[r] = 0 /\ gone2[r] = sending'[r].left[g] /\ came2 = came
    BY <1>8
  <2>2. \A u \in Sendings \ {r} : gone[u] = gone2[u]
    BY <1>8
  <2> HIDE DEF came, came2, gone, gone2
  <2>3. SumFunctionOnSet(gone2, Sendings)
        = SumFunctionOnSet(gone, Sendings) - Share(gone, Sendings, r) + Share(gone2, Sendings, r)
    BY <2>2, <1>3, <1>4, SumChange
  <2>4. Share(gone, Sendings, r) = 0 /\ Share(gone2, Sendings, r) = sending'[r].left[g]
    BY <2>1 DEF Share
  <2> QED
    BY <1>1, <1>2, <1>5, <1>8, <2>1, <2>3, <2>4
<1> QED
  BY <1>6, <1>7, <1>8

\* What a clerk who opens, fills or gives up a form keeps.
LEMMA OpenStep ==
    ASSUME DirectIInv, NEW c \in Clerks,
           \/ OpenEntry(c) \/ Cancel(c)
           \/ \E g \in Goods : EnterProduct(c, g)
           \/ \E s \in Slips : OpenInfo(c, s)
    PROVE  DirectIInv'
<1> USE DEF DirectIInv, DirectInv
<1>1. UNCHANGED <<onHand, standard, newPrice, slip, detail, sending, outdated, wanted, overwritten>>
  BY DEF OpenEntry, Cancel, EnterProduct, OpenInfo
<1>2. /\ StockIsWhatCame' /\ ValuedAtItsCost' /\ DetailsAreWanted' /\ NothingBeforeItsTime'
      /\ \A g \in Goods : EffectiveCost(g)' = EffectiveCost(g)
  BY <1>1 DEF StockIsWhatCame, ValuedAtItsCost, DetailsAreWanted, NothingBeforeItsTime, EffectiveCost
<1>3. SUFFICES ASSUME NEW f \in Entry \cup Info \cup {Closed},
                      form' = [form EXCEPT ![c] = f],
                      f # Closed /\ f.kind = "entry" =>
                         \A g \in f.lines \ f.moved : f.shown[g] = EffectiveCost(g),
                      f # Closed /\ f.kind = "info" =>
                         \A d \in Details \ f.moved : f.shown[d] = detail[f.slip][d]
               PROVE  DirectIInv'
  <2>1. CASE OpenEntry(c)
    BY <2>1, <1>3, DirectValues DEF OpenEntry, NewEntry
  <2>2. CASE Cancel(c)
    BY <2>2, <1>3 DEF Cancel
  <2>3. ASSUME NEW g \in Goods, EnterProduct(c, g) PROVE DirectIInv'
    <3>1. form[c] \in Entry /\ Entering(c)
      BY <2>3, FormKinds DEF EnterProduct
    <3>2. PICK f : f = [form[c] EXCEPT !.lines = @ \cup {g}, !.shown = [@ EXCEPT ![g] = EffectiveCost(g)]]
      OBVIOUS
    <3>3. form' = [form EXCEPT ![c] = f]
      BY <2>3, <3>1, <3>2 DEF EnterProduct, DirectTypeOK, Entry
    <3>4. f \in Entry
      BY <3>1, <3>2, CostIsWorth DEF Entry
    <3>5. \A h \in form[c].lines \ form[c].moved : form[c].shown[h] = EffectiveCost(h)
      BY <3>1 DEF FormsAreFresh
    <3>6. /\ f.lines = form[c].lines \cup {g} /\ f.moved = form[c].moved
          /\ f.shown = [form[c].shown EXCEPT ![g] = EffectiveCost(g)]
      BY <3>1, <3>2 DEF Entry
    <3>7. \A h \in f.lines \ f.moved : f.shown[h] = EffectiveCost(h)
      BY <3>1, <3>5, <3>6 DEF Entry
    <3>8. f.kind = "entry"
      BY <3>4 DEF Entry
    <3> QED
      BY <1>3, <3>3, <3>4, <3>7, <3>8
  <2>4. ASSUME NEW s \in Slips, OpenInfo(c, s) PROVE DirectIInv'
    <3>1. PICK f : f = [kind |-> "info", slip |-> s, shown |-> detail[s], moved |-> {}]
      OBVIOUS
    <3>2. f \in Info /\ f.kind = "info" /\ f.shown = detail[f.slip]
      BY <3>1 DEF Info, DirectTypeOK
    <3> QED
      BY <1>3, <2>4, <3>1, <3>2 DEF OpenInfo
  <2> QED
    BY <2>1, <2>2, <2>3, <2>4
<1>4. DirectTypeOK'
  <2>1. form' \in [Clerks -> Entry \cup Info \cup {Closed}]
    BY <1>3 DEF DirectTypeOK
  <2> QED
    BY <1>1, <2>1 DEF DirectTypeOK
<1>5. FormsAreFresh'
  <2>1. \A b \in Clerks : form'[b] = IF b = c THEN f ELSE form[b]
    BY <1>3 DEF DirectTypeOK
  <2>2. ASSUME NEW b \in Clerks, Entering(b)', NEW g \in form'[b].lines \ form'[b].moved
        PROVE  form'[b].shown[g] = EffectiveCost(g)'
    <3>1. DirectTypeOK' => g \in Goods
      BY <2>2 DEF DirectTypeOK, Entering, Entry, Info
    <3>2. g \in Goods
      BY <3>1, <1>4
    <3> QED
      BY <1>2, <1>3, <2>1, <2>2, <3>2 DEF FormsAreFresh, Entering
  <2>3. ASSUME NEW b \in Clerks, Editing(b)', NEW d \in Details \ form'[b].moved
        PROVE  form'[b].shown[d] = detail'[form'[b].slip][d]
    BY <1>1, <1>3, <2>1, <2>3 DEF FormsAreFresh, Editing
  <2> QED
    BY <2>2, <2>3 DEF FormsAreFresh
<1> QED
  BY <1>2, <1>4, <1>5

\* Costs are written and the forms marked.
LEMMA CostsMove ==
    ASSUME DirectTypeOK, FormsAreFresh, DirectTypeOK', detail' = detail, NEW c,
           \A b \in Clerks : form'[b] = Closed \/ form'[b] = Moved[b]
    PROVE  FormsAreFresh'
<1>1. ASSUME NEW b \in Clerks, Entering(b)', NEW g \in form'[b].lines \ form'[b].moved
      PROVE  form'[b].shown[g] = EffectiveCost(g)'
  <2>1. form'[b] = Moved[b] /\ form'[b] # Closed
    BY <1>1 DEF Entering
  <2>2. Entering(b)
    BY <1>1, <2>1 DEF Moved, Entering
  <2>3. form[b] \in Entry
    BY <2>2, FormKinds
  <2>4. form'[b] = [form[b] EXCEPT !.moved = @ \cup {h \in form[b].lines : EffectiveCost(h)' # EffectiveCost(h)}]
    BY <2>1, <2>2 DEF Moved
  <2>5. /\ form'[b].lines = form[b].lines /\ form'[b].shown = form[b].shown
        /\ form'[b].moved = form[b].moved \cup {h \in form[b].lines : EffectiveCost(h)' # EffectiveCost(h)}
    BY <2>3, <2>4 DEF Entry
  <2>6. g \in form[b].lines \ form[b].moved /\ EffectiveCost(g)' = EffectiveCost(g)
    BY <1>1, <2>5
  <2> QED
    BY <2>2, <2>5, <2>6 DEF FormsAreFresh
<1>2. ASSUME NEW b \in Clerks, Editing(b)', NEW d \in Details \ form'[b].moved
      PROVE  form'[b].shown[d] = detail'[form'[b].slip][d]
  <2>1. form'[b] = Moved[b] /\ form'[b] # Closed /\ form'[b].kind = "info"
    BY <1>2 DEF Editing
  <2>2. ~Entering(b)
    <3>1. SUFFICES ASSUME Entering(b) PROVE FALSE
      OBVIOUS
    <3>2. form[b] \in Entry
      BY <3>1, FormKinds
    <3>3. form'[b].kind = "entry"
      BY <2>1, <3>1, <3>2 DEF Moved, Entry
    <3> QED
      BY <2>1, <3>3
  <2>3. form'[b] = form[b]
    BY <2>1, <2>2 DEF Moved
  <2> QED
    BY <1>2, <2>1, <2>3 DEF FormsAreFresh, Editing
<1> QED
  BY <1>1, <1>2 DEF FormsAreFresh

\* A form marked is a form.
LEMMA MovedIsForm == DirectTypeOK => Moved \in [Clerks -> Entry \cup Info \cup {Closed}]
<1> SUFFICES ASSUME DirectTypeOK, NEW b \in Clerks PROVE Moved[b] \in Entry \cup Info \cup {Closed}
  BY DEF Moved
<1>1. CASE Entering(b)
  <2>1. form[b] \in Entry
    BY <1>1, FormKinds
  <2>2. PICK M \in SUBSET Goods : M = {g \in form[b].lines : EffectiveCost(g)' # EffectiveCost(g)}
    BY <2>1 DEF Entry
  <2>3. Moved[b] = [form[b] EXCEPT !.moved = @ \cup M]
    BY <1>1, <2>2 DEF Moved
  <2> QED
    BY <2>1, <2>3 DEF Entry
<1>2. CASE ~Entering(b)
  BY <1>2 DEF Moved, DirectTypeOK
<1> QED
  BY <1>1, <1>2

\* What the products of a form are valued at.
LEMMA ValuedWorths ==
    ASSUME DirectTypeOK, NEW c \in Clerks, Entering(c), NEW price \in [Goods -> Worths]
    PROVE  Valued(c, price) \in [Goods -> Worths]
<1>1. form[c].shown \in [Goods -> Worths]
  BY FormKinds DEF Entry
<1>2. 0 \in Worths
  BY DirectAssumption
<1> QED
  BY <1>1, <1>2 DEF Valued

\* A receipt is validated.
LEMMA ReceiveStep ==
    ASSUME DirectIInv, NEW c \in Clerks, NEW s \in Slips, NEW quantity \in [Goods -> Handled],
           NEW price \in [Goods -> Worths], NEW average \in [Goods -> Worths],
           Receive(c, s, quantity, price, average)
    PROVE  DirectIInv'
<1>1. DirectTypeOK /\ StockIsWhatCame /\ ValuedAtItsCost /\ DetailsAreWanted /\ FormsAreFresh
      /\ NothingBeforeItsTime
  BY DEF DirectIInv, DirectInv
<1>2. Entering(c) /\ form[c] \in Entry
  BY <1>1, FormKinds DEF Receive
<1> DEFINE entered == form[c].lines
           received == [g \in Goods |-> IF g \in entered THEN quantity[g] ELSE 0]
           due == [g \in Goods |-> IF g \notin entered THEN 0
                                   ELSE IF price[g] > 0 THEN price[g] ELSE EffectiveCost(g)]
<1>3. entered \subseteq Goods /\ form[c].shown \in [Goods -> Worths] /\ form[c].moved \subseteq Goods
  BY <1>2 DEF Entry
<1>4. received \in [Goods -> Nat] /\ Valued(c, price) \in [Goods -> Worths] /\ due \in [Goods -> Worths]
  <2>1. \A g \in Goods : quantity[g] \in Nat
    BY DirectAssumption DEF Handled
  <2>2. \A g \in Goods : EffectiveCost(g) \in Worths
    BY <1>1, CostIsWorth
  <2> QED
    BY <1>1, <1>2, <2>1, <2>2, ValuedWorths, DirectAssumption
<1>5. PICK new : new = [done |-> TRUE, quantity |-> received, price |-> Valued(c, price), due |-> due]
  OBVIOUS
<1>6. new \in Slip /\ new.quantity = received /\ new.price = Valued(c, price) /\ new.due = due /\ new.done
  BY <1>4, <1>5 DEF Slip
<1>7. slip' = [slip EXCEPT ![s] = new]
  BY <1>5 DEF Receive
<1>8. /\ slip'[s] = new /\ \A u \in Slips \ {s} : slip'[u] = slip[u]
      /\ slip' \in [Slips -> Slip]
  BY <1>1, <1>6, <1>7 DEF DirectTypeOK
<1>9. /\ \A g \in Goods : onHand'[g] = onHand[g] + slip'[s].quantity[g]
      /\ onHand' \in [Goods -> Int]
  <2>1. onHand' = [g \in Goods |-> onHand[g] + slip'[s].quantity[g]]
    BY DEF Receive
  <2>2. \A g \in Goods : onHand[g] \in Int /\ slip'[s].quantity[g] \in Nat
    BY <1>1, <1>4, <1>6, <1>8 DEF DirectTypeOK
  <2> QED
    BY <2>1, <2>2
<1>10. /\ form' = [Moved EXCEPT ![c] = Closed]
       /\ Moved \in [Clerks -> Entry \cup Info \cup {Closed}]
  BY <1>1, MovedIsForm DEF Receive
<1>11. form' \in [Clerks -> Entry \cup Info \cup {Closed}]
       /\ \A b \in Clerks : form'[b] = Closed \/ form'[b] = Moved[b]
  BY <1>10
<1>12. standard' \in [Goods -> Worths] /\ newPrice' \in [Goods -> Worths]
  BY <1>1 DEF Receive, DirectTypeOK
<1>13. /\ UNCHANGED <<detail, sending, wanted, overwritten>>
       /\ outdated' = [outdated EXCEPT ![s] = form[c].moved]
       /\ \A g \in entered : Valued(c, price)[g] > 0
       /\ ~slip[s].done
  BY DEF Receive
<1>14. DirectTypeOK'
  BY <1>1, <1>3, <1>8, <1>9, <1>11, <1>12, <1>13 DEF DirectTypeOK
<1>15. StockIsWhatCame'
  <2>1. \A g \in Goods : slip[s].quantity[g] = 0
    BY <1>1, <1>13 DEF NothingBeforeItsTime, NoSlip, NoGoods
  <2> QED
    BY <1>1, <1>8, <1>9, <1>13, <1>14, <2>1, StockMoves
<1>16. ValuedAtItsCost'
  <2>1. ASSUME NEW g \in Goods, slip'[s].quantity[g] > 0
        PROVE  /\ slip'[s].price[g] > 0
               /\ g \notin outdated'[s] => slip'[s].price[g] = slip'[s].due[g]
    <3>1. g \in entered
      BY <1>6, <1>8, <2>1
    <3>2. slip'[s].price[g] = Valued(c, price)[g] /\ slip'[s].due[g] = due[g]
      BY <1>6, <1>8
    <3>3. outdated'[s] = form[c].moved
      BY <1>1, <1>13 DEF DirectTypeOK
    <3>4. g \notin form[c].moved => form[c].shown[g] = EffectiveCost(g)
      BY <1>1, <1>2, <3>1 DEF FormsAreFresh
    <3>5. /\ Valued(c, price)[g] = (IF price[g] > 0 THEN price[g] ELSE form[c].shown[g])
          /\ due[g] = IF price[g] > 0 THEN price[g] ELSE EffectiveCost(g)
      BY <3>1 DEF Valued
    <3> QED
      BY <1>13, <3>1, <3>2, <3>3, <3>4, <3>5
  <2>2. \A u \in Slips \ {s} : slip'[u] = slip[u] /\ outdated'[u] = outdated[u]
    BY <1>1, <1>8, <1>13 DEF DirectTypeOK
  <2> QED
    BY <1>1, <2>1, <2>2 DEF ValuedAtItsCost
<1>17. DetailsAreWanted'
  BY <1>1, <1>13 DEF DetailsAreWanted
<1>18. FormsAreFresh'
  BY <1>1, <1>11, <1>13, <1>14, CostsMove
<1>19. NothingBeforeItsTime'
  BY <1>1, <1>6, <1>8, <1>13 DEF NothingBeforeItsTime
<1> QED
  BY <1>14, <1>15, <1>16, <1>17, <1>18, <1>19 DEF DirectIInv, DirectInv

\* A cost is written elsewhere.
LEMMA SetCostStep ==
    ASSUME DirectIInv, NEW g \in Goods, NEW w \in Worths, SetCost(g, w)
    PROVE  DirectIInv'
<1>1. DirectTypeOK /\ StockIsWhatCame /\ ValuedAtItsCost /\ DetailsAreWanted /\ FormsAreFresh
      /\ NothingBeforeItsTime
  BY DEF DirectIInv, DirectInv
<1>2. UNCHANGED <<onHand, slip, detail, sending, outdated, wanted, overwritten>> /\ form' = Moved
  BY DEF SetCost
<1>3. standard' \in [Goods -> Worths] /\ newPrice' \in [Goods -> Worths]
  BY <1>1 DEF SetCost, DirectTypeOK
<1>4. DirectTypeOK'
  BY <1>1, <1>2, <1>3, MovedIsForm DEF DirectTypeOK
<1>5. FormsAreFresh'
  BY <1>1, <1>2, <1>4, CostsMove
<1> QED
  BY <1>1, <1>2, <1>4, <1>5
  DEF DirectIInv, DirectInv, StockIsWhatCame, ValuedAtItsCost, DetailsAreWanted, NothingBeforeItsTime

\* The details of a receipt are written.
LEMMA DetailStep ==
    ASSUME DirectIInv, NEW c \in Clerks, NEW typed \in SUBSET Details,
           NEW text \in [Details -> Texts], ApplyInfo(c, typed, text)
    PROVE  DirectIInv'
<1>1. DirectTypeOK /\ StockIsWhatCame /\ ValuedAtItsCost /\ DetailsAreWanted /\ FormsAreFresh
      /\ NothingBeforeItsTime
  BY DEF DirectIInv, DirectInv
<1>2. Editing(c) /\ form[c] \in Info
  BY <1>1, FormKinds DEF ApplyInfo
<1>3. PICK s \in Slips : s = form[c].slip
  BY <1>2 DEF Info
<1>4. PICK written \in [Details -> Texts] : written = Written(c, typed, text)
  BY <1>2 DEF Written, Info
<1>5. /\ detail' = [detail EXCEPT ![s] = written]
      /\ wanted' = [wanted EXCEPT ![s] = [d \in Details |-> IF d \in typed THEN text[d] ELSE wanted[s][d]]]
      /\ overwritten' = [overwritten EXCEPT ![s] = (@ \cup form[c].moved) \ typed]
      /\ UNCHANGED <<onHand, standard, newPrice, slip, sending, outdated>>
  BY <1>3, <1>4 DEF ApplyInfo
<1>6. form' = [b \in Clerks |->
          IF b = c THEN Closed
          ELSE IF Editing(b) /\ form[b].slip = s
               THEN [form[b] EXCEPT !.moved = @ \cup {d \in Details : written[d] # detail[s][d]}]
          ELSE form[b]]
  BY <1>3, <1>4 DEF ApplyInfo
<1>7. ASSUME NEW b \in Clerks, Editing(b), form[b].slip = s
      PROVE  /\ [form[b] EXCEPT !.moved = @ \cup {d \in Details : written[d] # detail[s][d]}] \in Info
             /\ b # c => /\ form'[b].shown = form[b].shown /\ form'[b].slip = s
                         /\ form'[b].moved = form[b].moved \cup {d \in Details : written[d] # detail[s][d]}
  <2>1. form[b] \in Info
    BY <1>1, <1>7, FormKinds
  <2>2. PICK M \in SUBSET Details : M = {d \in Details : written[d] # detail[s][d]}
    OBVIOUS
  <2>3. [form[b] EXCEPT !.moved = @ \cup M] \in Info
    BY <2>1 DEF Info
  <2>4. b # c => form'[b] = [form[b] EXCEPT !.moved = @ \cup M]
    BY <1>6, <1>7, <2>2
  <2>5. b # c => /\ form'[b].shown = form[b].shown /\ form'[b].slip = s
                 /\ form'[b].moved = form[b].moved \cup M
    BY <1>7, <2>1, <2>4 DEF Info
  <2> QED
    BY <2>2, <2>3, <2>5
<1>8. form' \in [Clerks -> Entry \cup Info \cup {Closed}]
  <2>1. ASSUME NEW b \in Clerks PROVE form'[b] \in Entry \cup Info \cup {Closed}
    <3>1. CASE b = c
      BY <1>6, <3>1
    <3>2. CASE b # c /\ Editing(b) /\ form[b].slip = s
      BY <1>6, <1>7, <3>2
    <3>3. CASE b # c /\ ~(Editing(b) /\ form[b].slip = s)
      BY <1>1, <1>6, <3>3 DEF DirectTypeOK
    <3> QED
      BY <3>1, <3>2, <3>3
  <2> QED
    BY <1>6, <2>1
<1>9. /\ detail'[s] = written /\ \A u \in Slips \ {s} : detail'[u] = detail[u]
      /\ detail' \in [Slips -> [Details -> Texts]]
  BY <1>1, <1>5 DEF DirectTypeOK
<1>10. /\ wanted' \in [Slips -> [Details -> Texts]]
       /\ \A d \in Details : wanted'[s][d] = IF d \in typed THEN text[d] ELSE wanted[s][d]
       /\ \A u \in Slips \ {s} : wanted'[u] = wanted[u]
  BY <1>1, <1>5 DEF DirectTypeOK
<1>11. /\ overwritten' \in [Slips -> SUBSET Details]
       /\ overwritten'[s] = (overwritten[s] \cup form[c].moved) \ typed
       /\ \A u \in Slips \ {s} : overwritten'[u] = overwritten[u]
  <2>1. form[c].moved \subseteq Details
    BY <1>2 DEF Info
  <2> QED
    BY <1>1, <1>5, <2>1 DEF DirectTypeOK
<1>12. DirectTypeOK'
  BY <1>1, <1>5, <1>8, <1>9, <1>10, <1>11 DEF DirectTypeOK
<1>13. StockIsWhatCame' /\ ValuedAtItsCost' /\ NothingBeforeItsTime'
       /\ \A g \in Goods : EffectiveCost(g)' = EffectiveCost(g)
  BY <1>1, <1>5 DEF StockIsWhatCame, ValuedAtItsCost, NothingBeforeItsTime, EffectiveCost
<1>14. DetailsAreWanted'
  <2>1. ASSUME NEW d \in Details, d \notin overwritten'[s]
        PROVE  detail'[s][d] = wanted'[s][d]
    <3>1. CASE d \in typed
      BY <1>4, <1>9, <1>10, <3>1 DEF Written
    <3>2. CASE d \notin typed
      <4>1. d \notin overwritten[s] /\ d \notin form[c].moved
        BY <1>11, <2>1, <3>2
      <4>2. form[c].shown[d] = detail[s][d]
        BY <1>1, <1>2, <1>3, <4>1 DEF FormsAreFresh
      <4> QED
        BY <1>1, <1>4, <1>9, <1>10, <3>2, <4>1, <4>2 DEF Written, DetailsAreWanted
    <3> QED
      BY <3>1, <3>2
  <2> QED
    BY <1>1, <1>9, <1>10, <1>11, <2>1 DEF DetailsAreWanted
<1>15. FormsAreFresh'
  <2>1. ASSUME NEW b \in Clerks, Entering(b)', NEW g \in form'[b].lines \ form'[b].moved
        PROVE  form'[b].shown[g] = EffectiveCost(g)'
    <3>1. form'[b] # Closed /\ form'[b].kind = "entry"
      BY <2>1 DEF Entering
    <3>2. b # c
      BY <1>6, <3>1
    <3>3. ~(Editing(b) /\ form[b].slip = s)
      <4>1. SUFFICES ASSUME Editing(b) /\ form[b].slip = s PROVE FALSE
        OBVIOUS
      <4>2. form'[b] \in Info
        BY <1>6, <1>7, <3>2, <4>1
      <4> QED
        BY <3>1, <4>2 DEF Info
    <3>4. form'[b] = form[b]
      BY <1>6, <3>2, <3>3
    <3>5. form[b] \in Entry /\ Entering(b)
      BY <1>1, <3>1, <3>4, FormKinds DEF Entering
    <3> QED
      BY <1>1, <1>13, <2>1, <3>4, <3>5 DEF FormsAreFresh, Entry
  <2>2. ASSUME NEW b \in Clerks, Editing(b)', NEW d \in Details \ form'[b].moved
        PROVE  form'[b].shown[d] = detail'[form'[b].slip][d]
    <3>1. form'[b] # Closed /\ form'[b].kind = "info"
      BY <2>2 DEF Editing
    <3>2. b # c
      BY <1>6, <3>1
    <3>3. CASE Editing(b) /\ form[b].slip = s
      <4>1. d \notin form[b].moved /\ written[d] = detail[s][d]
        BY <1>7, <2>2, <3>2, <3>3
      <4>2. form[b].shown[d] = detail[s][d]
        BY <1>1, <3>3, <4>1 DEF FormsAreFresh
      <4>3. form'[b].shown = form[b].shown /\ form'[b].slip = s
        BY <1>7, <3>2, <3>3
      <4> QED
        BY <1>9, <4>1, <4>2, <4>3
    <3>4. CASE ~(Editing(b) /\ form[b].slip = s)
      <4>1. form'[b] = form[b] /\ Editing(b)
        BY <1>6, <3>1, <3>2, <3>4 DEF Editing
      <4>2. form[b].slip \in Slips \ {s}
        BY <1>1, <3>4, <4>1, FormKinds DEF Info
      <4> QED
        BY <1>1, <1>9, <2>2, <4>1, <4>2 DEF FormsAreFresh
    <3> QED
      BY <3>3, <3>4
  <2> QED
    BY <2>1, <2>2 DEF FormsAreFresh
<1> QED
  BY <1>12, <1>13, <1>14, <1>15 DEF DirectIInv, DirectInv

\* A return is planned, counted or given up.
LEMMA ReturnSteps ==
    ASSUME DirectIInv, NEW r \in Sendings, ReturnStep(r)
    PROVE  DirectIInv'
<1>1. DirectTypeOK /\ StockIsWhatCame /\ ValuedAtItsCost /\ DetailsAreWanted /\ FormsAreFresh
      /\ NothingBeforeItsTime
  BY DEF DirectIInv, DirectInv
<1>2. UNCHANGED <<standard, newPrice, slip, detail, form, outdated, wanted, overwritten>>
  BY DEF ReturnStep, PlanReturn, SendBack, CancelReturn
<1>3. ValuedAtItsCost' /\ DetailsAreWanted'
  BY <1>1, <1>2 DEF ValuedAtItsCost, DetailsAreWanted
<1>4. FormsAreFresh'
  BY <1>1, <1>2 DEF FormsAreFresh, Entering, Editing, EffectiveCost
<1>5. SUFFICES ASSUME NEW new \in Sending, sending' = [sending EXCEPT ![r] = new],
                      sending[r].state # "done",
                      new.state # "done" => new.left = NoGoods,
                      onHand' \in [Goods -> Int],
                      \A g \in Goods : onHand'[g] = onHand[g] - new.left[g]
               PROVE  DirectIInv'
  <2>0. sending[r] \in Sending /\ \A q \in [Goods -> 0 .. MaxHandled] : q \in [Goods -> Nat]
    BY <1>1, DirectAssumption DEF DirectTypeOK
  <2>1. ASSUME NEW q \in [Goods -> 0 .. MaxHandled], NEW credited \in BOOLEAN, PlanReturn(r, q, credited)
        PROVE  DirectIInv'
    <3>1. PICK k \in [Goods -> Nat] : k = IF credited THEN q ELSE NoGoods
      BY <2>0, DirectValues
    <3>2. PICK new : new = [state |-> "open", planned |-> q, left |-> NoGoods, credited |-> k]
      OBVIOUS
    <3>3. new \in Sending /\ new.state = "open" /\ new.left = NoGoods
      BY <2>0, <3>2, DirectValues DEF Sending
    <3>4. sending' = [sending EXCEPT ![r] = new] /\ onHand' = onHand /\ sending[r].state = "none"
      BY <2>1, <3>1, <3>2 DEF PlanReturn
    <3>5. \A g \in Goods : onHand'[g] = onHand[g] - new.left[g]
      BY <1>1, <3>3, <3>4 DEF NoGoods, DirectTypeOK
    <3> QED
      BY <1>1, <1>5, <3>3, <3>4, <3>5 DEF DirectTypeOK
  <2>2. ASSUME NEW q \in [Goods -> 0 .. MaxHandled], SendBack(r, q)
        PROVE  DirectIInv'
    <3>1. PICK new : new = [sending[r] EXCEPT !.state = "done", !.left = q]
      OBVIOUS
    <3>2. new \in Sending /\ new.state = "done" /\ new.left = q
      BY <2>0, <3>1 DEF Sending
    <3>3. sending' = [sending EXCEPT ![r] = new] /\ onHand' = Remaining(r, q) /\ sending[r].state = "open"
      BY <1>1, <2>2, <3>1 DEF SendBack, DirectTypeOK
    <3>4. onHand' \in [Goods -> Int] /\ \A g \in Goods : onHand'[g] = onHand[g] - new.left[g]
      BY <1>1, <2>0, <3>2, <3>3 DEF Remaining, DirectTypeOK
    <3> QED
      BY <1>5, <3>2, <3>3, <3>4
  <2>3. CASE CancelReturn(r)
    <3>1. PICK new : new = [sending[r] EXCEPT !.state = "cancel"]
      OBVIOUS
    <3>2. sending' = [sending EXCEPT ![r] = new] /\ onHand' = onHand /\ sending[r].state = "open"
      BY <1>1, <2>3, <3>1 DEF CancelReturn, DirectTypeOK
    <3>3. new \in Sending /\ new.left = sending[r].left
      BY <2>0, <3>1 DEF Sending
    <3>4. new.left = NoGoods
      BY <1>1, <3>2, <3>3 DEF NothingBeforeItsTime
    <3>5. \A g \in Goods : onHand'[g] = onHand[g] - new.left[g]
      BY <1>1, <3>2, <3>4 DEF NoGoods, DirectTypeOK
    <3> QED
      BY <1>1, <1>5, <3>2, <3>3, <3>4, <3>5 DEF DirectTypeOK
  <2> QED
    BY <2>1, <2>2, <2>3 DEF ReturnStep
<1>6. /\ sending'[r] = new /\ \A u \in Sendings \ {r} : sending'[u] = sending[u]
      /\ sending' \in [Sendings -> Sending]
  BY <1>1, <1>5 DEF DirectTypeOK
<1>7. DirectTypeOK'
  BY <1>1, <1>2, <1>5, <1>6 DEF DirectTypeOK
<1>8. \A g \in Goods : sending[r].left[g] = 0
  BY <1>1, <1>5 DEF NothingBeforeItsTime, NoGoods
<1>9. StockIsWhatCame'
  BY <1>1, <1>2, <1>5, <1>6, <1>7, <1>8, StockMoves
<1>10. NothingBeforeItsTime'
  BY <1>1, <1>2, <1>5, <1>6 DEF NothingBeforeItsTime
<1> QED
  BY <1>3, <1>4, <1>7, <1>9, <1>10 DEF DirectIInv, DirectInv

\* Every step keeps the invariant of direct receipts and returns.
LEMMA DirectMoves == DirectIInv /\ [DirectNext]_directVars => DirectIInv'
<1> SUFFICES ASSUME DirectIInv, [DirectNext]_directVars PROVE DirectIInv'
  OBVIOUS
<1>1. ASSUME NEW c \in Clerks, ClerkStep(c) PROVE DirectIInv'
  BY <1>1, OpenStep, ReceiveStep, DetailStep DEF ClerkStep
<1>2. ASSUME NEW r \in Sendings, ReturnStep(r) PROVE DirectIInv'
  BY <1>2, ReturnSteps
<1>3. ASSUME NEW g \in Goods, NEW w \in Worths, SetCost(g, w) PROVE DirectIInv'
  BY <1>3, SetCostStep
<1>4. CASE UNCHANGED directVars
  BY <1>4 DEF directVars, DirectIInv, DirectInv, DirectTypeOK, StockIsWhatCame, ValuedAtItsCost,
     DetailsAreWanted, FormsAreFresh, NothingBeforeItsTime, Entering, Editing, EffectiveCost
<1> QED
  BY <1>1, <1>2, <1>3, <1>4 DEF DirectNext

\* The stock is what direct receipts brought less what returns took, nothing is received
\* free nor, unless it changed meanwhile, at another cost than its own, and the details of
\* a receipt are the last typed or put back by an older form (the wizards of custom_stock).
THEOREM DirectReceiptsAreKept == DirectSpec => []DirectIInv
BY DirectFirst, DirectMoves, PTL DEF DirectSpec

-----------------------------------------------------------------------------
(* The five side by side.                                                  *)

\* Transfers and requests agree, an inventory leaves what was counted, receipts settle
\* their bills, wizards apply what they showed and direct receipts are kept, in every
\* behaviour of the five together.
THEOREM StockIsSound ==
    StockSpec => []StockInv /\ BilledIsReceived /\ ClaimIsLoss /\ RepairsAreSafe
<1>1. StockInit => TransferInit /\ InventoryInit /\ ReceptionInit /\ RepairInit /\ DirectInit
  BY DEF StockInit
<1>2. [StockNext]_stockVars
        => /\ [TransferNext]_transferVars /\ [InventoryNext]_inventoryVars
           /\ [ReceptionNext]_receptionVars /\ [RepairNext]_repairVars /\ [DirectNext]_directVars
  BY DEF StockNext, stockVars, WithoutDetails, OnlyDetails
<1>3. StockSpec => TransferSpec /\ InventorySpec /\ ReceptionSpec /\ RepairSpec /\ DirectSpec
  BY <1>1, <1>2, PTL DEF StockSpec, TransferSpec, InventorySpec, ReceptionSpec, RepairSpec, DirectSpec
<1>4. TransferInv /\ InventoryInv /\ ReceptionInv /\ RepairInv /\ DirectIInv => StockInv
  BY DEF StockInv
<1> QED
  BY <1>3, <1>4, TransfersAgree, InventoryTellsTheTruth, ReceiptsAreBilled, RepairsKeepTheirWord,
     DirectReceiptsAreKept, PTL
=============================================================================
