---------------------------- MODULE MCOneWorker ----------------------------
(***************************************************************************)
(* One caller and a server that answers late, for TLC: DeliveryImport with *)
(* one import at a time (batch by batch over one order, or the rounds of   *)
(* the button over two), SageX3Client with one call at a time, and         *)
(* TillLoyalty with one till (an order and its client's card, lookups      *)
(* while orders and clients change, a gift card).                          *)
(***************************************************************************)
EXTENDS DeliveryImport, SageX3Client, TillLoyalty, TLC

CONSTANTS o1, o2, d1, d2, t1, p1, f1, a1

Scenarios == {"batches", "rounds", "calls", "cards", "lookups", "gift"}

VARIABLE scenario

OneOrder == d1 :> o1 @@ d2 :> o1
OneThread == t1 :> p1

\* Two articles of a family whose points one of them is not enough for, or one that is
\* with a reward.
LineOn(f, price, kind) == [family |-> f, price |-> price, kind |-> kind]
TwoCarts == {{LineOn(f1, 1, "sale"), LineOn(f1, 3, "sale")}, {LineOn(f1, 1, "sale"), LineOn(f1, 2, "reward")}}
ByTwo == f1 :> 2
PointEach == f1 :> 1

workerVars == <<scenario, importVars, clientVars, cardVars>>

WorkerInit ==
    /\ scenario \in Scenarios
    /\ ImportInit /\ Init /\ CardInit
    /\ scenario # "lookups" => screen = a1
    /\ scenario \notin {"cards", "lookups"} => card = [p \in Clients |-> None]
    /\ scenario # "gift" => giftKept = None

\* Bounds of each scenario: one order delivered twice; two orders, one delivery; one
\* ticket; tickets that only have a client; tickets without.
Bare(x) == x.cart = {} /\ x.claimed = 0 /\ x.card = 0 /\ x.change = 0 /\ x.won = None

Within ==
    /\ IF scenario = "batches" THEN order[o2].state = "none" ELSE fate[d2] = "absent"
    /\ scenario = "cards" => screen = a1 /\ \A t \in Tickets \ {a1} : ticket[t] = NewTicket
    /\ scenario = "lookups" => \A t \in Tickets : Bare(ticket[t])
    /\ scenario \in {"cards", "lookups"} => gift.used = 0 /\ scan = Nobody
    /\ scenario = "gift" => \A t \in Tickets : ticket[t].client = Nobody

WorkerNext ==
    /\ UNCHANGED scenario
    /\ \/ scenario = "calls" /\ Next /\ UNCHANGED <<importVars, cardVars>>
       \/ scenario \in {"batches", "rounds"} /\ ImportNext /\ UNCHANGED <<clientVars, cardVars>>
       \/ scenario \in {"cards", "lookups", "gift"} /\ CardNext /\ UNCHANGED <<importVars, clientVars>>

\* Neither an import nor a call is there to be taken where the other is checked.
WorkerSpec ==
    /\ WorkerInit /\ [][WorkerNext]_workerVars
    /\ \A j \in Jobs : WF_importVars(JobStep(j))
    /\ Fairness
=============================================================================
