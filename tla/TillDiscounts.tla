--------------------------- MODULE TillDiscounts ---------------------------
(***************************************************************************)
(* The automatic discounts of a ticket (custom_sales): a promotion on a    *)
(* product, or the discount of the partner.  Each leaves a mark on the     *)
(* line, which pay() reads to tell it from a discount that the cashier     *)
(* typed.  The marks are in the memory of the page only.                   *)
(*                                                                         *)
(* A discount is told by where it comes from, not by its percentage.       *)
(***************************************************************************)
EXTENDS Integers, Sequences, SequencesExt

CONSTANTS
    Products,
    Discountable,   \* products with discount_ligne
    Partners,
    Nobody,         \* the partner of a ticket without one
    Eligible,       \* partners with a discount today
    Excluded,       \* partners with no_promotion
    MaxLines        \* bound: lines of the ticket

ASSUME DiscountAssumption ==
    /\ Discountable \subseteq Products
    /\ Eligible \subseteq Partners /\ Excluded \subseteq Partners
    /\ Partners \cap {"none", "promo", "typed"} = {}
    /\ Nobody \notin Partners \cup {"none", "promo", "typed"}
    /\ MaxLines \in Nat

VARIABLES
    lines,          \* the lines of the ticket
    partner,        \* partner_id
    promoted        \* products in a promotion of the tills today

discountVars == <<lines, partner, promoted>>

\* promo, global: _promoDiscountApplied, _globalDiscountApplied.  last: what the
\* discount was last touched by (history): a rule, the cashier, or a reload.
Line == [product : Products, discount : {"none", "promo", "typed"} \cup Partners,
         promo : BOOLEAN, global : BOOLEAN, last : {"rule", "typed", "reload"}]

NewLine(p) ==
    [product |-> p, discount |-> "none", promo |-> FALSE, global |-> FALSE, last |-> "rule"]

DiscountInit == lines = <<>> /\ partner = Nobody /\ promoted \in SUBSET Products

-----------------------------------------------------------------------------
(* Rules.                                                                  *)

\* Variant: the mark of the partner's discount stays.
Promote_Twice(line) == [line EXCEPT !.discount = "promo", !.promo = TRUE, !.last = "rule"]

Promote(line) == [line EXCEPT !.discount = "promo", !.promo = TRUE, !.global = FALSE, !.last = "rule"]

\* setPartner of a partner without promotions.
Unpromote(line) == [line EXCEPT !.discount = "none", !.promo = FALSE, !.last = "rule"]

\* Variant: the partner is not asked for.
GlobalOf_Anyone(line, q) ==
    IF line.product \in Discountable
    THEN [line EXCEPT !.discount = q, !.global = TRUE, !.last = "rule"] ELSE line

\* applyGlobalDiscountToLine, applyGlobalDiscountToAllLines; _manualDiscountApplied
\* is never set.
GlobalOf(line, q) ==
    LET given == q \in Eligible /\ line.product \in Discountable IN
    IF (line.promo /\ q # Nobody) \/ (~given /\ ~line.global) THEN line
    ELSE IF given THEN [line EXCEPT !.discount = q, !.global = TRUE, !.last = "rule"]
    ELSE [line EXCEPT !.discount = "none", !.global = FALSE, !.last = "rule"]

\* Variant: promotions are for every partner.
Ruled_Anyone(line) ==
    LET ofPartner == IF partner = Nobody THEN line ELSE GlobalOf(line, partner) IN
    IF line.product \in promoted THEN Promote(ofPartner) ELSE ofPartner

\* addLineToOrder, once the line is there.
Ruled(line) ==
    LET ofPartner == IF partner = Nobody THEN line ELSE GlobalOf(line, partner) IN
    IF partner \notin Excluded /\ line.product \in promoted THEN Promote(ofPartner) ELSE ofPartner

\* canBeMergedWith: no discount, or the partner's.
Mergeable(line, p) == line.product = p /\ (line.global \/ line.discount = "none")

-----------------------------------------------------------------------------
(* The cashier.                                                            *)

\* The product joins a line that takes it, or gets one.
AddProduct(p) ==
    /\ \/ \E i \in DOMAIN lines :
             Mergeable(lines[i], p) /\ lines' = [lines EXCEPT ![i] = Ruled(@)]
       \/ /\ \A i \in DOMAIN lines : ~Mergeable(lines[i], p)
          /\ Len(lines) < MaxLines
          /\ lines' = Append(lines, Ruled(NewLine(p)))
    /\ UNCHANGED <<partner, promoted>>

\* setPartner
SetPartner(q) ==
    LET kept(line) == IF q \in Excluded /\ line.promo THEN Unpromote(line) ELSE line IN
    /\ q # partner
    /\ partner' = q
    /\ lines' = [i \in DOMAIN lines |-> GlobalOf(kept(lines[i]), q)]
    /\ UNCHANGED promoted

\* The numpad, or applyPresetRemise.
TypeDiscount(i) ==
    /\ lines' = [lines EXCEPT ![i].discount = "typed", ![i].last = "typed"]
    /\ UNCHANGED <<partner, promoted>>

RemoveLine(i) ==
    /\ lines' = RemoveAt(lines, i)
    /\ UNCHANGED <<partner, promoted>>

\* The page is loaded again.
ReloadLines ==
    /\ lines' = [i \in DOMAIN lines |->
          [lines[i] EXCEPT !.promo = FALSE, !.global = FALSE, !.last = "reload"]]
    /\ UNCHANGED <<partner, promoted>>

\* Promotions begin or end.
NewDay(products) ==
    /\ promoted' = products
    /\ UNCHANGED <<lines, partner>>

-----------------------------------------------------------------------------
DiscountNext ==
    \/ \E p \in Products : AddProduct(p)
    \/ \E q \in Partners \cup {Nobody} : SetPartner(q)
    \/ \E i \in DOMAIN lines : TypeDiscount(i) \/ RemoveLine(i)
    \/ \E products \in SUBSET Products : NewDay(products)
    \/ ReloadLines

DiscountSpec == DiscountInit /\ [][DiscountNext]_discountVars

-----------------------------------------------------------------------------
\* Type invariant of lines, partner and promotions.
DiscountTypeOK ==
    /\ lines \in Seq(Line) /\ Len(lines) <= MaxLines
    /\ partner \in Partners \cup {Nobody}
    /\ promoted \subseteq Products

\* Where nobody typed and nothing was loaded again, the marks tell what the line's
\* discount is: one discount at most, and the partner's is the ticket's partner's,
\* however partners, products and promotions changed since.
MarkTellsTheDiscount ==
    \A i \in DOMAIN lines :
        LET line == lines[i] IN
        line.last = "rule" =>
            /\ ~(line.promo /\ line.global)
            /\ line.discount = IF line.promo THEN "promo" ELSE IF line.global THEN partner ELSE "none"

\* A partner without promotions has none on his ticket, whenever he is named.
ExcludedGetsNoPromotion ==
    \A i \in DOMAIN lines :
        partner \in Excluded /\ lines[i].last # "reload" => lines[i].discount # "promo"

\* The invariant of a ticket's lines: their marks tell their discounts, and a partner
\* without promotions gets none.
DiscountInv == DiscountTypeOK /\ MarkTellsTheDiscount /\ ExcludedGetsNoPromotion
=============================================================================
