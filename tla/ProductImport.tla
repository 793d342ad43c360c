--------------------------- MODULE ProductImport ---------------------------
(***************************************************************************)
(* The import of products from SAGE X3                                     *)
(* (custom_api_sage_x3/models/insert_product_init.py): the catalogue is    *)
(* asked for page by page, each item is written to its product, and the    *)
(* transaction is committed at every CommitStep-th item.  An item that     *)
(* raises rolls back all that was written since the last commit; an error  *)
(* of SQL that a step of an item swallows leaves the transaction aborted,  *)
(* and its commit undoes it without a word.                                *)
(*                                                                         *)
(* What an item says of its product (prices, taxes, stores, families) is   *)
(* abstracted to a version, 0 for a product that Odoo does not have; the   *)
(* taxes and families that an item leaves behind are left out.             *)
(***************************************************************************)
EXTENDS Integers, FiniteSets, SequencesExt

CONSTANTS
    Catalogue,   \* the items of X3 at first, in the order of its pages
    Ignored,     \* items without a reference or a store, or with an SF code
    Imports,     \* imports that may run at once
    PageSize,    \* PAGE_SIZE
    CommitStep,  \* COMMIT_STEP
    MaxPages,    \* MAX_PAGES
    LastVersion  \* bound on versions

Items == Range(Catalogue)

ASSUME ProductAssumption ==
    /\ Catalogue \in Seq(Items) /\ IsInjective(Catalogue)
    /\ Ignored \subseteq Items
    /\ {PageSize, CommitStep, MaxPages, LastVersion} \subseteq Nat \ {0}

VARIABLES
    catalogue,  \* the items of X3
    version,    \* what X3 says of each
    stored,     \* what Odoo has committed of each
    import      \* the imports

productVars == <<catalogue, version, stored, import>>

Version == 0 .. LastVersion

\* idx: items so far, modulo COMMIT_STEP; answer: the page being read, todo: what
\* is left of it, more: hasNextPage; pending: what the open transaction wrote (0:
\* nothing), moved: products that others committed since its snapshot, poisoned: it
\* is aborted; taxes: what the ids of tax_cache name, taxes made by the open
\* transaction or stored ones, if they were not undone since.  History: missed, the
\* items of the batches whose commit was skipped since the last one; due, what X3 said
\* when the import began; clean, nothing went wrong, was withdrawn or committed by
\* another.
Import ==
    [pc : {"idle", "ask", "items", "end"}, page : Nat, idx : 0 .. CommitStep - 1, more : BOOLEAN,
     todo : Seq(Items), answer : [Items -> Version],
     open : BOOLEAN, pending : [Items -> Version], moved : SUBSET Items, poisoned : BOOLEAN,
     taxes : {"none", "open", "stored", "undone"}, missed : Nat,
     due : [Items -> Version], clean : BOOLEAN]

Nothing == [i \in Items |-> 0]

Idle ==
    [pc |-> "idle", page |-> 1, idx |-> 0, more |-> FALSE, todo |-> <<>>, answer |-> Nothing,
     open |-> FALSE, pending |-> Nothing, moved |-> {}, poisoned |-> FALSE,
     taxes |-> "none", missed |-> 0, due |-> Nothing, clean |-> TRUE]

ProductInit ==
    /\ catalogue = Catalogue
    /\ version = [i \in Items |-> 1]
    /\ stored \in [Items -> {0, 1}]
    /\ \A i \in Ignored : stored[i] = 0
    /\ import = [j \in Imports |-> Idle]

-----------------------------------------------------------------------------
(* SAGE X3.                                                                *)

Running == {j \in Imports : import[j].pc # "idle"}

Publish(i) ==
    /\ version[i] < LastVersion
    /\ version' = [version EXCEPT ![i] = @ + 1]
    /\ UNCHANGED <<catalogue, stored, import>>

\* An item leaves the catalogue: those after it move up, to pages already read.
Withdraw(n) ==
    /\ n \in DOMAIN catalogue
    /\ catalogue' = RemoveAt(catalogue, n)
    /\ import' = [j \in Imports |-> IF j \in Running THEN [import[j] EXCEPT !.clean = FALSE]
                                                     ELSE import[j]]
    /\ UNCHANGED <<version, stored>>

Page(p) == SubSeq(catalogue, (p - 1) * PageSize + 1,
                  IF p * PageSize < Len(catalogue) THEN p * PageSize ELSE Len(catalogue))

\* What X3 says now of the items of a page.
Told(p) == [i \in Items |-> IF i \in Range(p) THEN version[i] ELSE 0]

-----------------------------------------------------------------------------
(* Transactions.                                                           *)

Written(m) == {i \in Items : m.pending[i] # 0}

NewTransaction(m) ==
    [m EXCEPT !.open = FALSE, !.pending = Nothing, !.moved = {}, !.poisoned = FALSE,
              !.missed = 0]

Ended(t, kept) == IF t # "open" THEN t ELSE IF kept THEN "stored" ELSE "undone"

\* PostgreSQL makes a writer wait for the one that wrote the row, or inserted the
\* reference, before it.
Locked(j, i) == \E k \in Imports \ {j} : import[k].pending[i] # 0

\* The commit of what m wrote, by j, which goes on as n: nothing is kept of an
\* aborted transaction.
CommitAs(j, m, n) ==
    LET kept == IF m.poisoned THEN {} ELSE Written(m) IN
    /\ stored' = [i \in Items |-> IF i \in kept THEN m.pending[i] ELSE stored[i]]
    /\ import' = [k \in Imports |->
          IF k = j THEN [NewTransaction(n) EXCEPT !.taxes = Ended(n.taxes, ~m.poisoned)]
          ELSE IF k \notin Running \/ kept = {} THEN import[k]
          ELSE [import[k] EXCEPT !.clean = FALSE,
                                 !.moved = IF import[k].open THEN @ \cup kept ELSE @]]

GoOn(j, m) == import' = [import EXCEPT ![j] = m] /\ UNCHANGED stored

-----------------------------------------------------------------------------
(* An import.                                                              *)

\* The token and the parameters are read first: the transaction is open.
BeginImport(j) ==
    /\ import[j].pc = "idle"
    /\ import' = [import EXCEPT ![j] =
          [Idle EXCEPT !.pc = "ask", !.open = TRUE, !.due = Told(catalogue)]]
    /\ UNCHANGED <<catalogue, version, stored>>

\* Variant: the last page is not asked for.
Onward_NextPage(m) ==
    IF m.todo # <<>> THEN m
    ELSE IF m.more /\ m.page + 1 < MaxPages
    THEN [m EXCEPT !.pc = "ask", !.page = @ + 1, !.answer = Nothing]
    ELSE [m EXCEPT !.pc = "end", !.answer = Nothing]

\* Variant: the number of the page is not raised.
Onward_SamePage(m) ==
    IF m.todo # <<>> THEN m
    ELSE IF m.more /\ m.page < MaxPages THEN [m EXCEPT !.pc = "ask", !.answer = Nothing]
    ELSE [m EXCEPT !.pc = "end", !.answer = Nothing]

\* Where an import goes after an item or a page.
Onward(m) ==
    IF m.todo # <<>> THEN m
    ELSE IF m.more /\ m.page < MaxPages
    THEN [m EXCEPT !.pc = "ask", !.page = @ + 1, !.answer = Nothing]
    ELSE [m EXCEPT !.pc = "end", !.clean = @ /\ ~m.more, !.answer = Nothing]

Ask(j) ==
    LET m == import[j] IN
    /\ m.pc = "ask"
    /\ GoOn(j, Onward([m EXCEPT !.pc = "items", !.todo = Page(m.page),
                                !.answer = Told(Page(m.page)),
                                !.more = m.page * PageSize < Len(catalogue)]))
    /\ UNCHANGED <<catalogue, version>>

\* MAX_RETRIES failures to get a page, or a worker killed: nothing of what is not
\* committed stays.
Stop(j) ==
    /\ import[j].pc # "idle"
    /\ GoOn(j, Idle)
    /\ UNCHANGED <<catalogue, version>>

\* MAX_DURATION is over, before a page or an item.
TimeOut(j) ==
    /\ import[j].pc \in {"ask", "items"}
    /\ GoOn(j, [import[j] EXCEPT !.pc = "end", !.todo = <<>>, !.answer = Nothing,
                                     !.clean = FALSE])
    /\ UNCHANGED <<catalogue, version>>

PastItem(m) == [m EXCEPT !.idx = (@ + 1) % CommitStep, !.todo = Tail(@), !.open = TRUE]

\* Variant: the items are counted from zero.
CommitsNow_FromZero(m) == m.idx = 1 % CommitStep

\* Every COMMIT_STEP-th item.
CommitsNow(m) == m.idx = 0

\* _get_taxes_id: the ids are cached, of taxes found or made for every company.
Taxed(m) == {[m EXCEPT !.taxes = IF @ = "none" THEN t ELSE @] : t \in {"open", "stored"}}

\* Its values are prepared before it is left out, taxes included; the commit is
\* skipped with the item.
Ignore(j) ==
    LET m == import[j]
        past == PastItem(m)
        left == [past EXCEPT !.missed = IF CommitsNow(past) THEN @ + CommitStep ELSE @]
    IN  /\ m.pc = "items"
        /\ Head(m.todo) \in Ignored
        /\ \E n \in {left} \cup (IF m.poisoned THEN {} ELSE Taxed(left)) : GoOn(j, Onward(n))
        /\ UNCHANGED <<catalogue, version>>

\* The price lists and the supplier log their errors: one of SQL leaves the
\* transaction aborted, and so what else of the item comes after it.
PriceLists(m) == {m, [m EXCEPT !.poisoned = TRUE, !.clean = FALSE]}
Suppliers(m) == IF m.poisoned THEN {m} ELSE {m, [m EXCEPT !.poisoned = TRUE, !.clean = FALSE]}

\* The item is written to its product, found by its reference or created.
Write(j) ==
    LET m == import[j]
        i == Head(m.todo)
    IN  /\ m.pc = "items"
        /\ i \notin Ignored /\ i \notin m.moved /\ ~Locked(j, i)
        /\ ~m.poisoned /\ m.taxes # "undone"
        /\ \E t \in Taxed([PastItem(m) EXCEPT !.pending[i] = m.answer[i]]) :
           \E p \in PriceLists(t) :
           \E n \in Suppliers(p) :
              IF CommitsNow(n) THEN CommitAs(j, n, Onward(n)) ELSE GoOn(j, Onward(n))
        /\ UNCHANGED <<catalogue, version>>

\* All that was not committed is rolled back, and the cache is emptied.
Undone(m) == [NewTransaction(m) EXCEPT !.taxes = "none"]

\* The item raises: bad data, a row that another transaction wrote meanwhile, an
\* aborted transaction, a tax that was undone.
Fail(j) ==
    LET m == import[j] IN
    /\ m.pc = "items"
    /\ m.poisoned \/ ~Locked(j, Head(m.todo))
    /\ GoOn(j, Onward([Undone(PastItem(m)) EXCEPT !.clean = FALSE]))
    /\ UNCHANGED <<catalogue, version>>

\* The last commit and the summary.
Finish(j) ==
    /\ import[j].pc = "end"
    /\ CommitAs(j, import[j], Idle)
    /\ UNCHANGED <<catalogue, version>>

-----------------------------------------------------------------------------
ImportStep(j) == Ask(j) \/ Ignore(j) \/ Write(j) \/ Fail(j) \/ Finish(j)

ProductNext ==
    \/ \E i \in Items : Publish(i)
    \/ \E n \in DOMAIN catalogue : Withdraw(n)
    \/ \E j \in Imports : BeginImport(j) \/ ImportStep(j) \/ Stop(j) \/ TimeOut(j)

ProductSpec == ProductInit /\ [][ProductNext]_productVars

\* A worker goes on with the import it has begun; PostgreSQL gives a row to the
\* transactions that wait for it in turn.
ProductFairSpec == ProductSpec /\ \A j \in Imports : SF_productVars(ImportStep(j))

-----------------------------------------------------------------------------
\* Type invariant of catalogue, products and imports.
ProductTypeOK ==
    /\ catalogue \in Seq(Items)
    /\ version \in [Items -> Version] /\ stored \in [Items -> Version]
    /\ import \in [Imports -> Import]

\* An import that met no error, not even one that it swallowed, and no limit, and
\* during which nothing was withdrawn or committed by another, has brought every
\* product at least to what X3 said of it when it began: no page and no commit is
\* left out, whatever was ignored and wherever its commits fell.
CleanImportIsComplete ==
    [][\A j \in Imports :
          Finish(j) /\ import[j].clean
              => \A i \in Items \ Ignored : stored'[i] >= import[j].due[i]]_productVars

\* What one error costs.  The import promises a rollback for the item alone
\* (insert_product_init.py:179) and a commit at every COMMIT_STEP-th item (:178); the
\* rollback takes all that the transaction holds, and the commit is skipped when its
\* item is left out.  So an error, a worker killed or a swallowed error of SQL undoes
\* no more than the items since the last multiple of COMMIT_STEP, and a whole batch
\* more for each multiple that fell on an item left out since the last commit.
LossIsBounded ==
    \A j \in Imports : Cardinality(Written(import[j])) <= import[j].idx + import[j].missed

\* Every import ends: none waits for ever for the rows of another one, which may
\* wait for its own.
ProductImportsEnd == \A j \in Imports : import[j].pc # "idle" ~> import[j].pc = "idle"
=============================================================================
