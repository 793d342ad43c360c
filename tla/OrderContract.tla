--------------------------- MODULE OrderContract ---------------------------
(***************************************************************************)
(* What the purchase side of the SAGE X3 integration promises about an     *)
(* order, whatever the interleaving of the users' requests, the retries of *)
(* the HTTP client and the crashes of the workers:                         *)
(*                                                                         *)
(*   - Odoo acknowledges only orders that X3 has really created;           *)
(*   - an acknowledgement is never withdrawn, because the X3 order stays;  *)
(*   - an order addressed to X3 is confirmed in Odoo only in the very      *)
(*     transaction that acknowledges it.                                   *)
(*                                                                         *)
(* PurchaseOrders implements this specification (its refinement mapping is *)
(* at the end of that module).                                             *)
(***************************************************************************)
CONSTANT Orders

VARIABLES created,        \* orders X3 holds at least one copy of
          acknowledged,   \* orders Odoo knows to be accepted by X3
          confirmed       \* X3 orders that are confirmed purchases in Odoo

contractVars == <<created, acknowledged, confirmed>>

ContractInit ==
    /\ created = {}
    /\ acknowledged = {}
    /\ confirmed = {}

\* X3 creates orders; Odoo may never hear of it.
CreateAtX3(S) ==
    /\ created' = created \union S
    /\ UNCHANGED <<acknowledged, confirmed>>

\* Odoo learns that the orders of S were accepted and confirms some of them.
Acknowledge(S, C) ==
    /\ S \subseteq created \ acknowledged
    /\ C \subseteq S
    /\ acknowledged' = acknowledged \union S
    /\ confirmed' = confirmed \union C
    /\ UNCHANGED created

\* A confirmed purchase is cancelled in Odoo; X3 is not told.
Withdraw(o) ==
    /\ o \in confirmed
    /\ confirmed' = confirmed \ {o}
    /\ UNCHANGED <<created, acknowledged>>

ContractNext ==
    \/ \E S \in SUBSET Orders : CreateAtX3(S)
    \/ \E S \in SUBSET Orders : \E C \in SUBSET S : Acknowledge(S, C)
    \/ \E o \in Orders : Withdraw(o)

ContractSpec == ContractInit /\ [][ContractNext]_contractVars

\* Confirmed purchases are acknowledged, acknowledged orders exist in X3.
ContractInv == confirmed \subseteq acknowledged /\ acknowledged \subseteq created
=============================================================================
