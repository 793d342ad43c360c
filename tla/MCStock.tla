------------------------------ MODULE MCStock ------------------------------
(***************************************************************************)
(* Transfers, PhysicalInventory, Receptions, InventoryRepairs and          *)
(* DirectReceipts side by side for TLC: they share no state, and each      *)
(* behaviour is about one of them.                                         *)
(***************************************************************************)
EXTENDS Transfers, PhysicalInventory, Receptions, InventoryRepairs, DirectReceipts, TLC

CONSTANTS Scenarios, shelf, cellar, rice

VARIABLE scenario

\* One product, in two locations; only the first gets a line without quant.
Product == [p \in Places |-> "rice"]

Location == [p \in Places |-> IF p = shelf THEN "store" ELSE "reserve"]

\* Sheets of the repairs: no price, then two, for one article; or no price at all.
Priced(c) == [article |-> rice, cost |-> c]
TwoSheets == {<<Priced(0), Priced(1), Priced(2)>>, <<Priced(0)>>}

stockVars == <<scenario, transferVars, inventoryVars, receptionVars, repairVars, directVars>>

\* A scenario that is not chosen stays in its first initial state.  The first place of
\* the inventory has no quant at first, the second none or one unit: moves make the others.
Idle == [p \in Places |-> 0]

StockInit ==
    /\ scenario \in Scenarios
    /\ TransferInit
    /\ InventoryInit
    /\ IF scenario = "inventory" THEN quant[shelf] = Missing /\ quant[cellar] # 0
       ELSE quant = Idle
    /\ ReceptionInit /\ orderPrice = 1
    /\ RepairInit
    /\ DirectInit /\ (scenario # "direct" => standard = [g \in Goods |-> 1])
    /\ \A s \in Slips, d \in Details : detail[s][d] = CHOOSE t \in Texts : TRUE

\* Bound: two receipts bring three units at most.
AtMostThree ==
    \A p, q \in Receipts : p # q => receipt'[p].quantity + receipt'[q].quantity <= 3

\* Bound: an inventory starts while its first place is empty.
StartsEmpty == opening'[shelf] = 0

\* Receipts and returns without forms of details; then the details of a receipt, while
\* nothing is received or returned.
WithoutDetails ==
    /\ DirectNext
    /\ \A c \in Clerks : ~Editing(c)'

OnlyDetails ==
    /\ UNCHANGED <<standard, newPrice, sending>>
    /\ DirectNext
    /\ \A s \in Slips, c \in Clerks : slip[s].done => ~Entering(c)'

\* Bound: of two transfers, one is confirmed once at most.
OnceOrTwice ==
    \A t, u \in Transfers, s \in Sides :
        t # u => Copies(picking'[t][s]) + Copies(picking'[u][s]) <= 3

StockNext ==
    /\ UNCHANGED scenario
    /\ \/ scenario = "transfer" /\ TransferNext /\ OnceOrTwice
          /\ UNCHANGED <<inventoryVars, receptionVars, repairVars, directVars>>
       \/ scenario = "inventory" /\ InventoryNext /\ StartsEmpty
          /\ UNCHANGED <<transferVars, receptionVars, repairVars, directVars>>
       \/ scenario = "reception" /\ ReceptionNext /\ AtMostThree
          /\ UNCHANGED <<transferVars, inventoryVars, repairVars, directVars>>
       \/ scenario = "repairs" /\ RepairNext
          /\ UNCHANGED <<transferVars, inventoryVars, receptionVars, directVars>>
       \/ scenario = "direct" /\ WithoutDetails
          /\ UNCHANGED <<transferVars, inventoryVars, receptionVars, repairVars>>
       \/ scenario = "details" /\ OnlyDetails
          /\ UNCHANGED <<transferVars, inventoryVars, receptionVars, repairVars>>

StockSpec == StockInit /\ [][StockNext]_stockVars

-----------------------------------------------------------------------------
\* Invariant of the stock: transfers, inventories and their differences, lines that
\* wizards repair, receipts and returns without an order (custom_stock,
\* custom_import_excel).
StockInv == TransferInv /\ InventoryInv /\ ReceptionInv /\ RepairInv /\ DirectIInv
=============================================================================
