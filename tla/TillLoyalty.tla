---------------------------- MODULE TillLoyalty ----------------------------
(***************************************************************************)
(* What a till does with loyalty cards and gift cards (custom_loyalty,     *)
(* static/src/js): the card of the client is looked up while the cashier   *)
(* goes on, codes are scanned, the ticket says the balance before and      *)
(* after the order, and the server moves the points.                       *)
(*                                                                         *)
(* Every await is the end of a step: the answer comes later, by the server *)
(* or, where the call fails, by what the till has kept.  Points are whole  *)
(* numbers.  Left out: orders paid without a connection, promotional codes *)
(* and what else a programme requires of an order, the choice of rewards.  *)
(***************************************************************************)
EXTENDS Integers, FiniteSets, Functions

CONSTANTS
    Clients, Nobody,
    None,           \* no number: no card, nothing captured, nothing kept
    Excluded,       \* clients with no_loyalty_points
    Tickets,        \* orders of the till
    Families,       \* loyalty.family
    Threshold, Earned,   \* price_threshold and points_earned of each
    Carts,          \* sets of lines that an order may have
    MaxCard,        \* bound: points of a card
    GiftPoints      \* of the gift card, at first

ASSUME TillLoyaltyAssumption ==
    /\ Nobody \notin Clients \cup Tickets /\ Excluded \subseteq Clients
    /\ None \notin Int
    /\ IsFiniteSet(Families) /\ \A c \in Carts : IsFiniteSet(c) /\ \A l \in c : l.price \in Int
    /\ Threshold \in [Families -> Nat] /\ Earned \in [Families -> Nat]
    /\ MaxCard \in Nat /\ GiftPoints \in Nat

VARIABLES
    online,      \* the till reaches the server
    card,        \* points of each client's loyalty.card on the server, None without one
    kept,        \* what the till has of them: id and points
    ticket,      \* the orders
    screen,      \* the order on the screen: getOrder()
    lookup,      \* fetchLoyaltyCard on its way
    scan,        \* activateCode on its way: the order, or Nobody
    gift,        \* the gift card on the server
    giftKept     \* its points as the till has them, None if it was not loaded

cardVars == <<online, card, kept, ticket, screen, lookup, scan, gift, giftKept>>

NoLookup == [at |-> "idle", client |-> Nobody, crossed |-> FALSE]
NotKept == [id |-> "none", points |-> 0]

\* balance, won, spent, payment are what the receipt is made of.  whose and crossed tell
\* for whom the balance was read, and if the cashier had gone on meanwhile; credited and
\* moved are the change and the points that the server moved (history variables).
Points == Int \cup {None}

Ticket ==
    [state : {"open", "pushed", "confirmed", "failed"}, client : Clients \cup {Nobody},
     cart : Carts \cup {{}}, claimed : Nat, card : -1 .. 1, change : 0 .. 1, gift : 0 .. 1,
     activated : BOOLEAN, balance : Points, won : Points, spent : Points, payment : 0 .. 1,
     whose : Clients \cup {Nobody}, crossed : BOOLEAN, credited : 0 .. 1, moved : Int]

NewTicket ==
    [state |-> "open", client |-> Nobody, cart |-> {}, claimed |-> 0, card |-> 0,
     change |-> 0, gift |-> 0, activated |-> FALSE,
     balance |-> None, won |-> None, spent |-> None, payment |-> 0,
     whose |-> Nobody, crossed |-> FALSE, credited |-> 0, moved |-> 0]

CardInit ==
    /\ online = TRUE
    /\ card \in [Clients -> {None, MaxCard}]
    /\ kept = [p \in Clients |-> IF card[p] # None /\ card[p] > 0 THEN [id |-> "real", points |-> card[p]]
                                 ELSE NotKept]
    /\ ticket = [t \in Tickets |-> NewTicket]
    /\ screen \in Tickets
    /\ lookup = NoLookup
    /\ scan = Nobody
    /\ gift = [points |-> GiftPoints, rows |-> 0, source |-> Nobody, used |-> 0]
    /\ giftKept \in {None, GiftPoints}

-----------------------------------------------------------------------------
(* Points of an order.                                                     *)

\* A reward, a returned line or an article that is not eligible gives nothing.
Counted(cart) == {l \in cart : l.kind = "sale" /\ l.family \in Families}

Total(cart, f) ==
    LET S == {l \in Counted(cart) : l.family = f} IN SumFunctionOnSet([l \in S |-> l.price], S)

\* _calculateCustomLoyaltyPoints: whole thresholds of what each family amounts to.
CustomPoints(cart) ==
    SumFunctionOnSet([f \in Families |-> IF Threshold[f] = 0 THEN 0
                                         ELSE (Total(cart, f) \div Threshold[f]) * Earned[f]],
                     Families)

\* pointsForPrograms
PointsFor(t) == IF ticket[t].client \in Excluded THEN 0 ELSE CustomPoints(ticket[t].cart)

\* The statistics of the programme: until the order is confirmed, and for a client.
HasStat(t) == ticket[t].client # Nobody

StatWon(t) == IF ticket[t].state = "confirmed" THEN 0 ELSE PointsFor(t)
StatSpent(t) == IF ticket[t].state = "confirmed" THEN 0 ELSE ticket[t].claimed
StatBalance(t) == kept[ticket[t].client].points

\* Solde cumule: what the receipt adds up.
Receipt(t) ==
    LET x == ticket[t] IN
    (IF x.balance = None THEN 0 ELSE x.balance) + x.won - (x.spent + x.payment) + x.change

-----------------------------------------------------------------------------
(* The cashier.                                                            *)

Editable(t) == screen = t /\ ticket[t].state = "open"

\* The lookup that is on its way was begun for something else.
Cross == IF lookup.at = "idle" THEN lookup ELSE [lookup EXCEPT !.crossed = TRUE]

SelectTicket(t) ==
    /\ screen # t
    /\ screen' = t
    /\ lookup' = Cross
    /\ UNCHANGED <<online, card, kept, ticket, scan, gift, giftKept>>

\* Variant: what was captured stays when the client changes.
WithClient_Keeps(x, p) == [x EXCEPT !.client = p, !.claimed = 0, !.card = 0]

\* setPartner: what was captured is forgotten if the client changes.
WithClient(x, p) ==
    IF x.client = p THEN x
    ELSE [x EXCEPT !.client = p, !.claimed = 0, !.card = 0,
                   !.balance = None, !.won = None, !.spent = None]

SetPartner(t, p) ==
    /\ Editable(t)
    /\ ticket' = [ticket EXCEPT ![t] = WithClient(@, p)]
    /\ lookup' = Cross
    /\ UNCHANGED <<online, card, kept, screen, scan, gift, giftKept>>

FillCart(t) ==
    /\ Editable(t) /\ ticket[t].cart = {}
    /\ \E c \in Carts : ticket' = [ticket EXCEPT ![t].cart = c]
    /\ UNCHANGED <<online, card, kept, screen, lookup, scan, gift, giftKept>>

\* A reward is claimed with the points the till has kept.
ClaimReward(t) ==
    /\ Editable(t) /\ ticket[t].client # Nobody
    /\ \E n \in 1 .. kept[ticket[t].client].points : ticket' = [ticket EXCEPT ![t].claimed = n]
    /\ UNCHANGED <<online, card, kept, screen, lookup, scan, gift, giftKept>>

\* openLoyaltyWizard: the change that goes to the card, for a client that has one.
OpenLoyaltyWizard(t) ==
    /\ Editable(t)
    /\ LET p == ticket[t].client IN
       /\ p # Nobody
       /\ IF online THEN card[p] # None ELSE TRUE
    /\ \E n \in 0 .. 1 : ticket' = [ticket EXCEPT ![t].change = n]
    /\ UNCHANGED <<online, card, kept, screen, lookup, scan, gift, giftKept>>

\* A payment with the card; negative for a refund.
PayWithCard(t) ==
    /\ Editable(t) /\ ticket[t].client # Nobody
    /\ \E n \in {-1, 1} : ticket' = [ticket EXCEPT ![t].card = n]
    /\ UNCHANGED <<online, card, kept, screen, lookup, scan, gift, giftKept>>

-----------------------------------------------------------------------------
(* fetchLoyaltyCard.                                                       *)

StartLookup ==
    /\ lookup.at = "idle"
    /\ ticket[screen].state = "open" /\ ticket[screen].client # Nobody
    /\ lookup' = [at |-> "first", client |-> ticket[screen].client, crossed |-> FALSE]
    /\ UNCHANGED <<online, card, kept, ticket, screen, scan, gift, giftKept>>

\* fetchCoupons: of the server, which the till then keeps, or of what it has kept with
\* points on it.
Fetched(p) ==
    IF online THEN IF card[p] # None THEN {[id |-> "real", points |-> card[p]]} ELSE {}
    ELSE {c \in {kept[p]} : c.points > 0}

\* The order on the screen by now takes the balance, if it has none.
Capture(c) ==
    /\ kept' = [kept EXCEPT ![lookup.client] = c]
    /\ ticket' = [ticket EXCEPT ![screen] =
          IF @.balance # None THEN @
          ELSE [@ EXCEPT !.balance = c.points, !.whose = lookup.client,
                         !.crossed = lookup.crossed]]
    /\ lookup' = NoLookup

AnswerFirst ==
    /\ lookup.at = "first"
    /\ LET p == lookup.client IN
       \/ \E c \in Fetched(p) : Capture(c)
       \/ Fetched(p) = {} /\ kept[p].id = "real" /\ Capture(kept[p])
       \/ /\ Fetched(p) = {} /\ kept[p].id # "real"
          /\ lookup' = [lookup EXCEPT !.at = "second"]
          /\ UNCHANGED <<kept, ticket>>
    /\ UNCHANGED <<online, card, screen, scan, gift, giftKept>>

\* Nothing found again: any card the till has, or one for the time being.
AnswerSecond ==
    /\ lookup.at = "second"
    /\ LET p == lookup.client IN
       \/ \E c \in Fetched(p) : Capture(c)
       \/ Fetched(p) = {} /\ kept[p].id # "none" /\ Capture(kept[p])
       \/ Fetched(p) = {} /\ kept[p].id = "none" /\ Capture([id |-> "temp", points |-> 0])
    /\ UNCHANGED <<online, card, screen, scan, gift, giftKept>>

-----------------------------------------------------------------------------
(* activateCode: the code of a loyalty card gives the client, that of a    *)
(* gift card is used for the order.                                        *)

ScanClient(t, p) ==
    /\ Editable(t) /\ scan = Nobody
    /\ IF online THEN card[p] # None ELSE kept[p].id = "real"
    /\ ticket' = [ticket EXCEPT ![t] = WithClient(@, p)]
    /\ lookup' = Cross
    /\ UNCHANGED <<online, card, kept, screen, scan, gift, giftKept>>

StartScan(t) ==
    /\ Editable(t) /\ scan = Nobody
    /\ ~ticket[t].activated
    /\ scan' = t
    /\ UNCHANGED <<online, card, kept, ticket, screen, lookup, gift, giftKept>>

\* use_coupon_code, or _validateCouponOffline: points, dates, price lists and clients
\* may be a reason to refuse.  The order that the code was scanned for takes the card,
\* and its only reward.
AnswerScan ==
    /\ scan # Nobody
    /\ LET balance == IF online THEN gift.points ELSE giftKept
           taken == IF balance < 1 THEN balance ELSE 1 IN
       \/ UNCHANGED <<ticket, giftKept>>
       \/ /\ balance # None /\ balance > 0 /\ ticket[scan].state = "open"
          /\ giftKept' = balance
          /\ ticket' = [ticket EXCEPT ![scan].activated = TRUE, ![scan].gift = taken]
    /\ scan' = Nobody
    /\ UNCHANGED <<online, card, kept, screen, lookup, gift>>

-----------------------------------------------------------------------------
(* The order is paid.                                                      *)

\* Odoo checks the coupons; the order is saved on the server, with its payments, each of
\* which is checked, and its change.
Push(t) ==
    LET x == ticket[t]
        has == x.client # Nobody /\ card[x.client] # None
        change == IF has /\ x.client \notin Excluded THEN x.change ELSE 0
    IN /\ Editable(t) /\ online /\ scan # t
       /\ x.cart # {}
       /\ gift.points >= x.gift
       /\ x.claimed > 0 => has /\ card[x.client] >= x.claimed
       /\ x.card # 0 => has /\ x.card <= card[x.client]
       /\ has => card[x.client] - x.card + change <= MaxCard
       /\ card' = IF has THEN [card EXCEPT ![x.client] = @ - x.card + change] ELSE card
       /\ ticket' = [ticket EXCEPT ![t].state = "pushed",
                                   ![t].credited = change,
                                   ![t].moved = IF has THEN change - x.card ELSE 0]
       /\ UNCHANGED <<online, kept, screen, lookup, scan, gift, giftKept>>

Abs(n) == IF n < 0 THEN -n ELSE n

\* Variant: the statistics are read once the order is confirmed.
Captured_After(t) ==
    LET paid == [ticket[t] EXCEPT !.payment = Abs(ticket[t].card)] IN
    IF ~HasStat(t) THEN paid
    ELSE [paid EXCEPT !.balance = IF @ = None THEN StatBalance(t) ELSE @, !.won = 0, !.spent = 0]

\* What postProcessLoyalty captures: the payment with the card, then the statistics.
Captured(t) ==
    LET paid == [ticket[t] EXCEPT !.payment = Abs(ticket[t].card)] IN
    IF ~HasStat(t) THEN paid
    ELSE [paid EXCEPT !.balance = IF @ = None THEN StatBalance(t) ELSE @,
                      !.whose = IF ticket[t].balance = None THEN ticket[t].client ELSE @,
                      !.won = StatWon(t), !.spent = StatSpent(t)]

\* Variant: the row tells half of what is taken.
GiftAfter_Twice(t, n) ==
    [gift EXCEPT !.points = @ - n - n, !.rows = @ - n,
                 !.source = IF @ = Nobody THEN t ELSE @, !.used = @ + n]

\* _process_existing_gift_cards: a change equal to the balance is taken for no change.
GiftAfter(t, n) ==
    IF n = 0 THEN gift
    ELSE LET linked == [gift EXCEPT !.source = IF @ = Nobody THEN t ELSE @, !.used = @ + n] IN
         IF -n = gift.points THEN linked
         ELSE [linked EXCEPT !.points = @ - n, !.rows = @ - n]

\* postProcessLoyalty: then Odoo confirms the points of the programme, and makes the card
\* of a client who has none.
Confirm(t) ==
    LET x == Captured(t)
        p == x.client
        won == IF p = Nobody THEN 0 ELSE PointsFor(t) - x.claimed
        before == IF card[p] = None THEN 0 ELSE card[p]
    IN /\ ticket[t].state = "pushed" /\ online
       /\ IF p = Nobody THEN UNCHANGED <<card, kept>> ELSE
          /\ before + won <= MaxCard
          /\ card' = [card EXCEPT ![p] = before + won]
          /\ kept' = [kept EXCEPT ![p] = [id |-> "real", points |-> before + won]]
       /\ gift' = GiftAfter(t, x.gift)
       /\ ticket' = [ticket EXCEPT ![t] = [x EXCEPT !.state = "confirmed", !.moved = @ + won]]
       /\ UNCHANGED <<online, screen, lookup, scan, giftKept>>

\* The connection is lost before Odoo confirms: the error is thrown again.
ConfirmFails(t) ==
    /\ ticket[t].state = "pushed" /\ ~online
    /\ ticket' = [ticket EXCEPT ![t] = [Captured(t) EXCEPT !.state = "failed"]]
    /\ UNCHANGED <<online, card, kept, screen, lookup, scan, gift, giftKept>>

\* Variant: what the statistics say replaces what was captured.
Exported_Always(t) ==
    LET x == ticket[t] IN
    IF ~HasStat(t) THEN x
    ELSE IF x.balance = None
    THEN [x EXCEPT !.balance = StatBalance(t), !.whose = x.client,
                   !.spent = StatSpent(t), !.won = StatWon(t)]
    ELSE [x EXCEPT !.spent = StatSpent(t), !.won = StatWon(t)]

\* export_as_JSON
Exported(t) ==
    LET x == ticket[t] IN
    IF ~HasStat(t) THEN x
    ELSE IF x.balance = None
    THEN [x EXCEPT !.balance = StatBalance(t), !.whose = x.client,
                   !.spent = StatSpent(t), !.won = StatWon(t)]
    ELSE IF StatSpent(t) > 0
    THEN [x EXCEPT !.spent = StatSpent(t), !.won = StatWon(t)]
    ELSE x

Export(t) ==
    /\ ticket' = [ticket EXCEPT ![t] = Exported(t)]
    /\ UNCHANGED <<online, card, kept, screen, lookup, scan, gift, giftKept>>

\* The order is saved by the till and read again: init_from_JSON.
Reload(t) ==
    /\ scan # t
    /\ ticket' = [ticket EXCEPT ![t] =
          [Exported(t) EXCEPT !.won = IF @ = None THEN 0 ELSE @,
                              !.spent = IF @ = None THEN 0 ELSE @]]
    /\ UNCHANGED <<online, card, kept, screen, lookup, scan, gift, giftKept>>

-----------------------------------------------------------------------------
(* What happens elsewhere.                                                 *)

Connection ==
    /\ online' = ~online
    /\ UNCHANGED <<card, kept, ticket, screen, lookup, scan, gift, giftKept>>

\* Another till takes a point of a card.
SpendElsewhere(p) ==
    /\ card[p] # None /\ card[p] > 0
    /\ card' = [card EXCEPT ![p] = @ - 1]
    /\ UNCHANGED <<online, kept, ticket, screen, lookup, scan, gift, giftKept>>

UseGiftElsewhere ==
    /\ gift.points > 0
    /\ gift' = [gift EXCEPT !.points = @ - 1, !.rows = @ - 1, !.used = @ + 1]
    /\ UNCHANGED <<online, card, kept, ticket, screen, lookup, scan, giftKept>>

CardNext ==
    \/ \E t \in Tickets :
          \/ SelectTicket(t) \/ FillCart(t) \/ ClaimReward(t) \/ OpenLoyaltyWizard(t)
          \/ PayWithCard(t) \/ StartScan(t) \/ Push(t) \/ Confirm(t) \/ ConfirmFails(t)
          \/ Export(t) \/ Reload(t)
          \/ \E p \in Clients : SetPartner(t, p) \/ ScanClient(t, p)
    \/ StartLookup \/ AnswerFirst \/ AnswerSecond \/ AnswerScan
    \/ Connection \/ UseGiftElsewhere
    \/ \E p \in Clients : SpendElsewhere(p)

CardSpec == CardInit /\ [][CardNext]_cardVars

-----------------------------------------------------------------------------
(* Properties.                                                             *)

CardTypeOK ==
    /\ online \in BOOLEAN
    /\ card \in [Clients -> Points] /\ \A p \in Clients : card[p] # None => card[p] <= MaxCard
    /\ kept \in [Clients -> [id : {"none", "real", "temp"}, points : Int]]
    /\ ticket \in [Tickets -> Ticket]
    /\ screen \in Tickets /\ scan \in Tickets \cup {Nobody}
    /\ lookup \in [at : {"idle", "first", "second"}, client : Clients \cup {Nobody},
                   crossed : BOOLEAN]
    /\ gift \in [points : Int, rows : Int, source : Tickets \cup {Nobody}, used : Int]
    /\ giftKept \in Points

\* The balance on the ticket is that of the client of the order, unless the cashier
\* changed the order or the client while the card was looked up (fetchLoyaltyCard reads
\* getOrder() after the answer).
BalanceIsOwn ==
    \A t \in Tickets : ticket[t].balance # None =>
        ticket[t].whose = ticket[t].client \/ ticket[t].crossed

\* The ticket of a confirmed order says what became of the client's points: whatever was
\* captured, exported and reloaded before and after, the new balance differs from the old
\* one by what the server did.  It does not where a payment is given back to the card,
\* and where the change is not credited: a client without points, or without card
\* (receipt_loyalty_balance.xml: "Solde cumule = ancien + gagne - utilise + rendu").
ReceiptAddsUp ==
    \A t \in Tickets :
        LET x == ticket[t] IN
        x.state = "confirmed" /\ x.client # Nobody /\ x.card >= 0 /\ x.credited = x.change
            => Receipt(t) - x.balance = x.moved

\* What was used of the gift card was taken off it once, and its history says so, as
\* long as it was not used for more than it had: two tills may both be told that it
\* suffices (_process_existing_gift_cards).
GiftIsTold ==
    /\ gift.points = GiftPoints + gift.rows
    /\ gift.points >= 0 => gift.rows = -gift.used

CardInv == CardTypeOK /\ BalanceIsOwn /\ ReceiptAddsUp /\ GiftIsTold
=============================================================================
