------------------------------ MODULE MCCredit ------------------------------
(***************************************************************************)
(* FoodCredit, LoyaltyPoints and LimitCredit side by side for TLC: they    *)
(* share no state, and each behaviour is about one of them.                *)
(***************************************************************************)
EXTENDS FoodCredit, LoyaltyPoints, LimitCredit, TLC

CONSTANTS Scenarios

VARIABLE scenario

\* The wizard's credit starts later in the month than the button's.
PeriodOf == [n \in Names |-> IF n = ButtonName THEN Days ELSE {2}]

creditVars == <<scenario, foodVars, loyaltyVars, limitVars>>

CreditInit ==
    /\ scenario \in Scenarios
    /\ FoodInit
    /\ LoyaltyInit
    /\ LimitInit

CreditNext ==
    /\ UNCHANGED scenario
    /\ \/ scenario = "food" /\ FoodNext /\ UNCHANGED <<loyaltyVars, limitVars>>
       \/ scenario = "loyalty" /\ LoyaltyNext /\ UNCHANGED <<foodVars, limitVars>>
       \/ scenario = "limit" /\ LimitNext /\ UNCHANGED <<foodVars, loyaltyVars>>

CreditSpec == CreditInit /\ [][CreditNext]_creditVars

Drawn == {d \in Documents : document[d].state # "none"}

\* Bounds: once the consumption was changed for no document, one document is enough, and
\* once it was typed over or a sheet has the client twice, none; an employee gets back one
\* payment in all.
Within ==
    /\ direct = Lost => Cardinality(Drawn) <= 1
    /\ limit.typed # 0 \/ (loaded # Unread /\ loaded.twice) => Drawn = {}
    /\ \A e \in Employees : refunded[e] <= 1

Symmetry ==
    Permutations(Documents) \union Permutations(Invoices) \union Permutations(TillOrders)

\* States that differ only in the invoices that credits are linked to are one: no action
\* reads the links, and the run that checks this module's invariants is not about them.
Unlinked ==
    <<scenario, amountFood, staff, [n \in Names |-> credit[n].state], made, lines, lined,
      invoice, doubled, paid, refunded, granted, loyaltyVars, limitVars>>

-----------------------------------------------------------------------------
\* Invariant of what a client may still spend: the points of the loyalty card, and the
\* consumption of the credit limit.
MoneyInv == LoyaltyInv /\ LimitInv
=============================================================================
