-------------------------- MODULE MCPurchaseOrders --------------------------
(***************************************************************************)
(* PurchaseOrders for TLC: concurrent requests on one order, or grouped    *)
(* submissions of several orders, one request at a time.                   *)
(***************************************************************************)
EXTENDS PurchaseOrders, TLC

CONSTANTS Scenarios

VARIABLE scenario

ordersVars == <<scenario, orderVars>>

OrdersInit == scenario \in Scenarios /\ Init

\* Bounds of each scenario: one order, or normal orders and one request at a time.
Within ==
    IF scenario = "race"
    THEN Cardinality({o \in Orders : order'[o].state # "none"}) <= 1
    ELSE /\ Cardinality({u \in Users : req'[u].pc # "idle"}) <= 1
         /\ \A o \in Orders : order'[o].command = "normal"

OrdersNext == UNCHANGED scenario /\ Next /\ Within

OrdersSpec == OrdersInit /\ [][OrdersNext]_ordersVars

\* Orders are interchangeable, and so are requests.
Symmetry == Permutations(Orders) \union Permutations(Users)
=============================================================================
