----------------------------- MODULE EntryLines -----------------------------
(***************************************************************************)
(* The amounts of the accounting entries sent to SAGE X3                   *)
(* (custom_api_sage_x3/models/account_move.py): from the tickets of the    *)
(* tills, their payments, the settlements of clients and the invoices to   *)
(* the debit and the credit of ENCAI, DECAI, FACLI and AVCLI.              *)
(*                                                                         *)
(* Amounts are whole units of the currency, as the taxes and the payments  *)
(* of a currency without decimals are, so that round(x, 2) changes none.   *)
(* An entry is its debit, its credit and the line of the sales account in  *)
(* it; the labels, the third parties and the due dates are left out, and   *)
(* every account is configured.                                            *)
(***************************************************************************)
EXTENDS Integers, FiniteSets, Functions

CONSTANTS
    Tickets,      \* orders of the day's sessions, all closed
    Rates,        \* rates of the taxes, each with its line and its account
    Payments,     \* pos.payment
    TicketOf,     \* TicketOf[p]: the order a payment belongs to
    Kind,         \* Kind[p]: the flag of its method; none: it has no account
    Reglements,   \* account.payment of the day, of partners with a customer_id
    Pieces,       \* invoices and credit notes that come from no till
    Avoirs,       \* the credit notes
    Baskets,      \* bound: what a ticket may hold
    Amounts,      \* bound: amounts of payments
    Contents      \* bound: what an invoice may hold

PaymentKinds == {"cash", "food", "grouped", "limit", "none"}

ASSUME LinesAssumption ==
    /\ IsFiniteSet(Tickets) /\ IsFiniteSet(Rates) /\ IsFiniteSet(Payments)
    /\ IsFiniteSet(Reglements) /\ Avoirs \subseteq Pieces
    /\ TicketOf \in [Payments -> Tickets] /\ Kind \in [Payments -> PaymentKinds]
    /\ Baskets \subseteq [ht : Int, tax : [Rates -> Int], taxed : BOOLEAN]
    /\ \A b \in Baskets : ~b.taxed => \A r \in Rates : b.tax[r] = 0
    /\ Amounts \subseteq Int
    /\ Contents \subseteq [untaxed : Nat \ {0}, tax : [Rates -> Int], rounding : Int]

VARIABLES
    basket,       \* basket[t]: the lines of a ticket, summed
    amount,       \* amount[p]: 0 while the payment is not made
    reglement,    \* reglement[s]: 0 while it is not made
    piece         \* piece[i]: the lines of a posted invoice

lineVars == <<basket, amount, reglement, piece>>

NoTicket == [ht |-> 0, tax |-> [r \in Rates |-> 0], taxed |-> FALSE]
NoPiece  == [untaxed |-> 0, tax |-> [r \in Rates |-> 0], rounding |-> 0]

LinesInit ==
    /\ basket = [t \in Tickets |-> NoTicket]
    /\ amount = [p \in Payments |-> 0]
    /\ reglement = [s \in Reglements |-> 0]
    /\ piece = [i \in Pieces |-> NoPiece]

SumOf(f) == SumFunctionOnSet(f, DOMAIN f)

PaymentsOf(t) == {p \in Payments : TicketOf[p] = t}
TotalOf(b)    == b.ht + SumOf(b.tax)

\* The till: a ticket and its payments, which cover it.
SellTicket(t, b, paid) ==
    /\ basket[t] = NoTicket
    /\ SumFunctionOnSet(paid, PaymentsOf(t)) = TotalOf(b)
    /\ basket' = [basket EXCEPT ![t] = b]
    /\ amount' = [p \in Payments |-> IF TicketOf[p] = t THEN paid[p] ELSE amount[p]]
    /\ UNCHANGED <<reglement, piece>>

PayReglement(s, n) ==
    /\ reglement[s] = 0 /\ n > 0
    /\ reglement' = [reglement EXCEPT ![s] = n]
    /\ UNCHANGED <<basket, amount, piece>>

PostPiece(i, c) ==
    /\ piece[i] = NoPiece
    /\ piece' = [piece EXCEPT ![i] = c]
    /\ UNCHANGED <<basket, amount, reglement>>

LinesNext ==
    \/ \E t \in Tickets, b \in Baskets :
          \E paid \in [PaymentsOf(t) -> Amounts] : SellTicket(t, b, paid)
    \/ \E s \in Reglements, n \in Amounts : PayReglement(s, n)
    \/ \E i \in Pieces, c \in Contents : PostPiece(i, c)

LinesSpec == LinesInit /\ [][LinesNext]_lineVars

-----------------------------------------------------------------------------
(* The entries.                                                            *)

Positive(n) == IF n > 0 THEN n ELSE 0
Abs(n)      == IF n < 0 THEN -n ELSE n

Entry(debit, credit, sale) == [debit |-> debit, credit |-> credit, sale |-> sale]

\* Variant: the entry is left as its lines are.
Equilibrer_Not(e, sens) == e

\* _equilibrer_lignes: what debit and credit differ by is taken off the first line of
\* the side it is given: from a credit too, which doubles the difference.
Equilibrer(e, sens) ==
    LET ecart == e.debit - e.credit IN
    IF sens = 1 THEN [e EXCEPT !.debit = @ - ecart] ELSE [e EXCEPT !.credit = @ - ecart]

\* Variant: all the tickets of the day, those on account too.
Eligible_All == {t \in Tickets : basket[t] # NoTicket}

\* _get_eligible_pos_order_ids: with one payment at least that is not on account.
Eligible == {t \in Tickets : \E p \in PaymentsOf(t) : amount[p] # 0 /\ Kind[p] # "limit"}

\* get_pos_lines_total_ht and get_pos_lines_grouped_by_tva.
TotalHt     == SumFunctionOnSet([t \in Tickets |-> basket[t].ht], Eligible)
TotalTva(r) == SumFunctionOnSet([t \in Tickets |-> basket[t].tax[r]], Eligible)

\* Sales, taxes and settlements on the credit side, the till on the other.
Encai ==
    LET sale   == Positive(TotalHt)
        credit == sale + SumOf([r \in Rates |-> Positive(TotalTva(r))]) + SumOf(reglement)
    IN Equilibrer(Entry(credit, credit, sale), 1)

\* Variant: the payments without an account as well.
Decaisse_Any(p) == Kind[p] \notin {"cash", "limit"}

\* Food credits, one line each, and cards, cheques and vouchers, one line by account.
Decaisse(p) == Kind[p] \in {"food", "grouped"}

\* The takings that are not cash on the debit side, a refund like a sale.
Decai ==
    LET total == SumOf([p \in Payments |-> IF Decaisse(p) THEN Abs(amount[p]) ELSE 0])
    IN Entry(total, total, 0)

\* The sales line of a refund on account: a ticket without taxes is taken at the amount
\* of the payment.
AvoirHt(p) ==
    LET b == basket[TicketOf[p]] IN IF b.taxed THEN Abs(b.ht) ELSE Abs(amount[p])

\* A payment on account: the client on the debit side.
Facli(p) ==
    LET b    == basket[TicketOf[p]]
        sale == IF b.taxed THEN b.ht ELSE amount[p]
    IN Equilibrer(Entry(amount[p], sale + SumOf([r \in Rates |-> Positive(b.tax[r])]), sale), 1)

\* Variant: the taxes of a refund, which are negative, are left out.
Avcli_PositiveTaxes(p) ==
    LET b == basket[TicketOf[p]]
        e == Entry(AvoirHt(p) + SumOf([r \in Rates |-> Positive(b.tax[r])]), Abs(amount[p]), AvoirHt(p))
        f == Equilibrer(e, 1)
    IN [f EXCEPT !.sale = @ + (f.debit - e.debit)]

\* A refund on account: the client on the credit side, and the sales line takes the
\* difference.
Avcli(p) ==
    LET b == basket[TicketOf[p]]
        e == Entry(AvoirHt(p) + SumOf([r \in Rates |-> Abs(b.tax[r])]), Abs(amount[p]), AvoirHt(p))
        f == Equilibrer(e, 1)
    IN [f EXCEPT !.sale = @ + (f.debit - e.debit)]

OnAccount == {p \in Payments : Kind[p] = "limit" /\ amount[p] # 0}

EntryOf(p) == IF amount[p] > 0 THEN Facli(p) ELSE Avcli(p)

\* _prepare_invoice_entry: the client against the sales and the taxes, each line of tax
\* by its absolute amount.
Lignes(c) == c.untaxed + SumOf([r \in Rates |-> Abs(c.tax[r])])
Total(c)  == c.untaxed + SumOf(c.tax) + c.rounding

PieceEntry(i) ==
    LET c == piece[i] IN
    IF i \in Avoirs THEN Equilibrer(Entry(Lignes(c), Total(c), c.untaxed), -1)
    ELSE Equilibrer(Entry(Total(c), Lignes(c), c.untaxed), 1)

-----------------------------------------------------------------------------
(* Properties.                                                             *)

LinesTypeOK ==
    /\ basket \in [Tickets -> Baskets \union {NoTicket}]
    /\ amount \in [Payments -> Int]
    /\ reglement \in [Reglements -> Nat]
    /\ piece \in [Pieces -> Contents \union {NoPiece}]

Balanced(e) == e.debit = e.credit

\* Every entry that is sent has as much on its debit as on its credit side, but for one:
\* the credit note of an invoice whose lines do not add up to its total, by a cash
\* rounding or a tax of the other sign.
EntriesBalance ==
    /\ Balanced(Encai) /\ Balanced(Decai)
    /\ \A p \in OnAccount : Balanced(EntryOf(p))
    /\ \A i \in Pieces :
          Balanced(PieceEntry(i)) <=> (i \in Avoirs => Total(piece[i]) = Lignes(piece[i]))

\* What a payment is worth on the till's account in the entries of the day.  One on
\* account counts when its ticket was paid otherwise too, and what was paid back other
\* than in cash counts twice.
TillShare(p) ==
    IF Kind[p] \in {"food", "grouped"} THEN amount[p] - Abs(amount[p])
    ELSE IF Kind[p] = "limit" /\ TicketOf[p] \notin Eligible THEN 0
    ELSE amount[p]

\* What ENCAI puts on the till's account and DECAI does not take off it again is the
\* cash and the settlements, and what TillShare names: the tickets and the payments,
\* which the entries are built from apart, tell the same.
TillIsExplained ==
    (TotalHt >= 0 /\ \A r \in Rates : TotalTva(r) >= 0)
    => Encai.debit - Decai.credit = SumOf([p \in Payments |-> TillShare(p)]) + SumOf(reglement)

\* A ticket is on account as a whole, by one payment, or not at all, and no line of it
\* has the other sign.
Plain(t) ==
    /\ \A p, q \in PaymentsOf(t) : p \in OnAccount /\ amount[q] # 0 => p = q
    /\ LET b == basket[t] IN
       \/ b.ht >= 0 /\ \A r \in Rates : b.tax[r] >= 0
       \/ b.ht <= 0 /\ \A r \in Rates : b.tax[r] <= 0

SaleOf(p) == IF p \notin OnAccount THEN 0
             ELSE IF amount[p] > 0 THEN Facli(p).sale ELSE -Avcli(p).sale

\* If every ticket is plain, the sales of the day are booked once, in ENCAI or in the
\* entry of the client, and a client owes or is owed what he put on account.
SalesAreBookedOnce ==
    (\A t \in Tickets : Plain(t)) =>
    /\ TotalHt >= 0 => Encai.sale + SumOf([p \in Payments |-> SaleOf(p)])
                         = SumOf([t \in Tickets |-> basket[t].ht])
    /\ \A p \in OnAccount : EntryOf(p).debit = Abs(amount[p])

\* The invariant of the lines of the entries.
LinesInv == LinesTypeOK /\ EntriesBalance /\ TillIsExplained /\ SalesAreBookedOnce
=============================================================================
