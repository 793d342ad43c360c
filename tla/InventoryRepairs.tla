-------------------------- MODULE InventoryRepairs --------------------------
(***************************************************************************)
(* Four wizards of custom_import_excel that repair past records in two     *)
(* clicks, a preview and its application: prices missing on lines of       *)
(* physical inventories, lines that lost their inventory, lines named by a *)
(* sheet, and costs of lines sold at the tills.  What the preview found is *)
(* counted again, searched again, or taken as it was, while users go on    *)
(* with the inventories and the tills sell.                                *)
(*                                                                         *)
(* A line is told by its id.  Left out: stores, except that the prices are *)
(* repaired in all those of the user; periods; the differences and values  *)
(* computed from a line; labels and totals of the screens.                 *)
(***************************************************************************)
EXTENDS Naturals, Sequences, FiniteSets, FiniteSetsExt, Folds

CONSTANTS
    Inventories,    \* physical inventories
    Nowhere,        \* the inventory of a line whose inventory was deleted
    Till,           \* where a line of sale is, for the wizard of costs
    Stocked,        \* articles
    Repairs,        \* sheets: sequences of rows [article, cost]
    Costs,          \* positive numbers
    MaxEntered      \* bound: lines ever made

Zero == 0  \* no price, and a cell that cannot be read

Row == [article : Stocked, cost : Costs \union {Zero}]

ASSUME RepairAssumption ==
    /\ Nowhere # Till /\ {Nowhere, Till} \cap Inventories = {}
    /\ Costs \subseteq Nat \ {Zero}
    /\ Repairs \subseteq Seq(Row)

VARIABLES
    item,     \* lines of inventories and sales, in the order of their creation
    stage,    \* state of each inventory
    repair    \* the wizard that is open

repairVars == <<item, stage, repair>>

Item == [of : Inventories \union {Nowhere, Till}, article : Stocked, counted : BOOLEAN,
         price : Costs \union {Zero}, live : BOOLEAN]

\* rows: of the sheet; kept: numbers of those to apply; ids: lines the preview found.
NoRepair == [kind |-> "none", rows |-> <<>>, kept |-> {}, ids |-> {}]

Live == {n \in DOMAIN item : item[n].live}

Of(i) == {n \in Live : item[n].of = i}

RepairInit ==
    /\ item = <<>>
    /\ stage = [i \in Inventories |-> "draft"]
    /\ repair = NoRepair

-----------------------------------------------------------------------------
(* Inventories and sales.                                                  *)

NewItem(i, a, p) == [of |-> i, article |-> a, counted |-> FALSE, price |-> p, live |-> TRUE]

\* A line gets the cost of its article, which may be missing; a sale too.
EnterItem(i, a, p) ==
    /\ Len(item) < MaxEntered
    /\ i = Till \/ (i \in Inventories /\ stage[i] \in {"draft", "in_progress"})
    /\ item' = Append(item, NewItem(i, a, p))
    /\ UNCHANGED <<stage, repair>>

\* Lines deleted leave the many2many of the previews.
Without(ids, wizardAfter) ==
    /\ item' = [n \in DOMAIN item |-> IF n \in ids THEN [item[n] EXCEPT !.live = FALSE] ELSE item[n]]
    /\ repair' = [wizardAfter EXCEPT !.ids = @ \ ids]

\* create_line_physical on an inventory that has lines: they are made anew.
Renew(i) ==
    /\ stage[i] = "draft" /\ Of(i) # {}
    /\ Without(Of(i), repair)
    /\ UNCHANGED stage

CountItem(n) ==
    /\ n \in Live /\ item[n].of \in Inventories
    /\ stage[item[n].of] # "done"
    /\ item' = [item EXCEPT ![n].counted = ~@]
    /\ UNCHANGED <<stage, repair>>

Submit(i) ==
    /\ stage[i] = "draft" /\ Of(i) # {}
    /\ stage' = [stage EXCEPT ![i] = "in_progress"]
    /\ UNCHANGED <<item, repair>>

\* action_done refuses lines without price.
Close(i) ==
    /\ stage[i] = "in_progress"
    /\ \A n \in Of(i) : item[n].price # Zero
    /\ stage' = [stage EXCEPT ![i] = "done"]
    /\ UNCHANGED <<item, repair>>

Back(i) ==
    /\ stage[i] = "in_progress"
    /\ stage' = [stage EXCEPT ![i] = "draft"]
    /\ UNCHANGED <<item, repair>>

\* The lines of an inventory outlive it; another one is made.
Drop(i) ==
    /\ stage[i] = "draft" /\ Of(i) # {}
    /\ item' = [n \in DOMAIN item |-> IF n \in Of(i) THEN [item[n] EXCEPT !.of = Nowhere] ELSE item[n]]
    /\ UNCHANGED <<stage, repair>>

-----------------------------------------------------------------------------
(* Previews.                                                               *)

Unpriced(a) == {n \in Live : item[n].of # Till /\ item[n].article = a /\ item[n].price = Zero}

Sold(a) == {n \in Of(Till) : item[n].article = a}

Orphan(n) == item[n].live /\ item[n].of = Nowhere /\ ~item[n].counted

\* action_load_file, action_preview: rows with something to do, or the lines found.
PreviewPrices(rows) ==
    repair' = [NoRepair EXCEPT !.kind = "prices", !.rows = rows,
                 !.kept = {k \in DOMAIN rows : Unpriced(rows[k].article) # {}}]

PreviewCosts(rows) ==
    repair' = [NoRepair EXCEPT !.kind = "costs", !.rows = rows,
                 !.kept = {k \in DOMAIN rows : rows[k].cost # Zero /\ Sold(rows[k].article) # {}}]

PreviewOrphans == repair' = [NoRepair EXCEPT !.kind = "orphans", !.ids = {n \in DOMAIN item : Orphan(n)}]

PreviewNamed(i, a) ==
    repair' = [NoRepair EXCEPT !.kind = "named", !.ids = {n \in Of(i) : item[n].article = a}]

\* A wizard is opened, or brought back to its first screen, and its preview made.
Look(rows) ==
    /\ \/ PreviewPrices(rows) \/ PreviewCosts(rows) \/ PreviewOrphans
       \/ \E i \in Inventories, a \in Stocked : PreviewNamed(i, a)
    /\ UNCHANGED <<item, stage>>

-----------------------------------------------------------------------------
(* Applications.                                                           *)

\* Variant: the lines of the article are written, whatever their price.
Mended_Any(table, r) ==
    [n \in DOMAIN table |->
        IF table[n].live /\ table[n].of # Till /\ table[n].article = r.article
        THEN [table[n] EXCEPT !.price = r.cost] ELSE table[n]]

\* Searched again for each row: lines without price, those made since the preview
\* included, and those that an earlier row has not filled.
Mended(table, r) ==
    [n \in DOMAIN table |->
        IF table[n].live /\ table[n].of # Till /\ table[n].article = r.article /\ table[n].price = Zero
        THEN [table[n] EXCEPT !.price = r.cost] ELSE table[n]]

\* action_confirm of the prices: row by row.
ApplyPrices ==
    /\ repair.kind = "prices"
    /\ item' = MapThenFoldSet(LAMBDA k, table : Mended(table, repair.rows[k]),
                              item, LAMBDA k : k, LAMBDA ks : Max(ks), repair.kept)
    /\ repair' = NoRepair /\ UNCHANGED stage

Recosted(table, r) ==
    [n \in DOMAIN table |->
        IF table[n].live /\ table[n].of = Till /\ table[n].article = r.article
        THEN [table[n] EXCEPT !.price = r.cost] ELSE table[n]]

\* action_apply of the costs.
ApplyCosts ==
    /\ repair.kind = "costs" /\ repair.kept # {}
    /\ item' = MapThenFoldSet(LAMBDA k, table : Recosted(table, repair.rows[k]),
                              item, LAMBDA k : k, LAMBDA ks : Max(ks), repair.kept)
    /\ repair' = NoRepair /\ UNCHANGED stage

\* action_delete of the orphans, those that still are.  No screen counts such a line.
DeleteOrphans ==
    /\ repair.kind = "orphans" /\ repair.ids # {}
    /\ Without({n \in repair.ids : Orphan(n)}, NoRepair)
    /\ UNCHANGED stage

\* Variant: the lines of the sheet are searched again.
Doomed_Again(ids) == {n \in Live : \E m \in ids : item[n].of = item[m].of /\ item[n].article = item[m].article}

Doomed(ids) == ids

\* action_delete of the lines that the sheet named, as the preview found them and
\* without a look at them; the guard of normal inventories is bypassed.
DeleteNamed ==
    /\ repair.kind = "named" /\ repair.ids # {}
    /\ Without(Doomed(repair.ids), NoRepair)
    /\ UNCHANGED stage

-----------------------------------------------------------------------------
RepairNext ==
    \/ \E i \in Inventories \union {Till}, a \in Stocked, p \in Costs \union {Zero} : EnterItem(i, a, p)
    \/ \E n \in DOMAIN item : CountItem(n)
    \/ \E i \in Inventories : Renew(i) \/ Submit(i) \/ Close(i) \/ Back(i) \/ Drop(i)
    \/ \E rows \in Repairs : Look(rows)
    \/ ApplyPrices \/ ApplyCosts \/ DeleteOrphans \/ DeleteNamed

RepairSpec == RepairInit /\ [][RepairNext]_repairVars

-----------------------------------------------------------------------------
(* Properties.                                                             *)

\* Every variable has its type; a validated inventory has no line without price, a
\* price of the wizard that could not be read included; and the lines a preview holds
\* are still there.
RepairInv ==
    /\ item \in Seq(Item)
    /\ stage \in [Inventories -> {"draft", "in_progress", "done"}]
    /\ repair.ids \subseteq Live
    /\ \A i \in Inventories : stage[i] = "done" => \A n \in Of(i) : item[n].price # Zero

Applying(k) == repair.kind = k /\ repair'.kind = "none"

\* The repair of prices touches no price that is there, and leaves none of its articles
\* without, lines made since the preview included, unless its sheet gives it none.
PricesAreFilled ==
    Applying("prices") =>
        /\ \A n \in DOMAIN item : item[n].of = Till \/ item[n].price # Zero => item'[n] = item[n]
        /\ \A k \in repair.kept, n \in DOMAIN item' :
              /\ repair.rows[k].cost # Zero
              /\ item'[n].live /\ item'[n].of # Till /\ item'[n].article = repair.rows[k].article
              => item'[n].price # Zero

\* The lines sold of an article have the cost of its last row, those sold since the
\* preview included.
CostsAreTold ==
    Applying("costs") =>
        \A k \in repair.kept :
           LET r == repair.rows[k] IN
           (\A m \in repair.kept : m > k => repair.rows[m].article # r.article)
              => \A n \in DOMAIN item' :
                    item'[n].live /\ item'[n].of = Till /\ item'[n].article = r.article
                       => item'[n].price = r.cost

\* A line disappears by a wizard only if its preview showed it, and the wizard of
\* orphans takes no line of an inventory and none that was counted.
OnlyShownIsDeleted ==
    LET gone == Live \ Live' IN
    /\ Applying("named") \/ Applying("orphans") => gone \subseteq repair.ids
    /\ Applying("orphans") => \A n \in gone : item[n].of = Nowhere /\ ~item[n].counted
    /\ Applying("prices") \/ Applying("costs") => gone = {}

\* What an application does, whatever changed since its preview (the wizards of
\* custom_import_excel on inventory lines and costs of sales).
RepairsAreSafe == [][PricesAreFilled /\ CostsAreTold /\ OnlyShownIsDeleted]_repairVars
=============================================================================
