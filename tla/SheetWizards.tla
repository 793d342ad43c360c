---------------------------- MODULE SheetWizards ----------------------------
(***************************************************************************)
(* The wizards of custom_import_excel that load a sheet, show what they    *)
(* found, and write one record per article when the user confirms: the     *)
(* statuses of a store, its reordering rules (two wizards), the prices of  *)
(* a supplier, the accounts of clients.  They differ in what the preview   *)
(* freezes and what is searched again at the confirmation.                 *)
(*                                                                         *)
(* A record is told by its article: the other columns of its key are those *)
(* of the wizard.  A confirmation reads the records in the snapshot of its *)
(* transaction; other users write them before and meanwhile.               *)
(***************************************************************************)
EXTENDS Naturals, Sequences, SequencesExt, FiniteSets

CONSTANTS
    Articles,     \* codes that Odoo knows: articles, clients
    Unknown,      \* a code it does not
    Values,       \* positive numbers: statuses, quantities, prices, accounts
    Sheets,       \* sheets users have: sequences of rows [article, value]
    Wizards,      \* wizards open at once
    MaxRecords    \* bound: records, the deleted ones included, for a user to add one

\* The value of a cell that cannot be read.
Unread == 0

ASSUME SheetAssumption ==
    /\ Unknown \notin Articles
    /\ Values \subseteq Nat \ {Unread}
    /\ \A s \in Sheets : s \in Seq([article : Articles \union {Unknown}, value : Values \union {Unread}])

Kinds == {"status", "rule", "stock", "price", "account"}

VARIABLES
    kind,     \* the wizard that is used, and so the model of the records
    unique,   \* the base refuses two records of an article
    entries,  \* the records, in the order of their creation
    wizard    \* the open wizards

sheetVars == <<kind, unique, entries, wizard>>

Entry == [article : Articles, value : Values \union {Unread}, live : BOOLEAN]

\* A row of the sheet, and what the preview found to do of it (nothing if it is left
\* out), with the record it found (0: none, or deleted since).
SheetLine == [article : Articles \union {Unknown}, value : Values \union {Unread},
              action : {"create", "update", "none"}, target : Nat]

\* seen, result: the records in the snapshot of the confirmation, and as it leaves them.
Wizard == [pc : {"draft", "loaded", "confirming", "done"}, lines : Seq(SheetLine),
           seen : Seq(Entry), result : Seq(Entry)]

NewWizard == [pc |-> "draft", lines |-> <<>>, seen |-> <<>>, result |-> <<>>]

RecordsOf(table, a) == {i \in DOMAIN table : table[i].live /\ table[i].article = a}

\* search(..., limit=1), or the last one of a dictionary by article; 0 if none.
Found(table, a) ==
    LET found == RecordsOf(table, a) IN
    IF found = {} THEN 0 ELSE IF kind = "status" THEN Max(found) ELSE Min(found)

\* Odoo's own constraint on reordering rules; clients are found by a code that nothing
\* makes unique, but the wizard creates none.  The constraint on statuses is in the form
\* of older versions (_sql_constraints), which the database may not have.
SheetInit ==
    /\ kind \in Kinds
    /\ unique \in BOOLEAN
    /\ unique => kind \in {"status", "rule", "stock"}
    /\ kind \in {"rule", "stock"} => unique
    /\ entries \in {<<>>} \union {<<[article |-> a, value |-> v, live |-> TRUE]>> :
                                    a \in Articles, v \in Values}
    /\ wizard = [w \in Wizards |-> NewWizard]

-----------------------------------------------------------------------------
(* The other users.                                                        *)

AddEntry(a, v) ==
    /\ Len(entries) < MaxRecords
    /\ unique => RecordsOf(entries, a) = {}
    /\ entries' = Append(entries, [article |-> a, value |-> v, live |-> TRUE])
    /\ UNCHANGED <<kind, unique, wizard>>

\* Variant: the line of a preview keeps a record deleted since.
DeleteEntry_Dangling(i) ==
    /\ i \in DOMAIN entries /\ entries[i].live
    /\ entries' = [entries EXCEPT ![i].live = FALSE]
    /\ UNCHANGED <<kind, unique, wizard>>

\* ondelete: the lines of the previews forget the record they had found.
Forgetting(lines, i) ==
    [n \in DOMAIN lines |-> IF lines[n].target = i THEN [lines[n] EXCEPT !.target = 0] ELSE lines[n]]

DeleteEntry(i) ==
    /\ i \in DOMAIN entries /\ entries[i].live
    /\ entries' = [entries EXCEPT ![i].live = FALSE]
    /\ wizard' = [w \in Wizards |-> [wizard[w] EXCEPT !.lines = Forgetting(@, i)]]
    /\ UNCHANGED <<kind, unique>>

EditEntry(i, v) ==
    /\ i \in DOMAIN entries /\ entries[i].live /\ entries[i].value # v
    /\ entries' = [entries EXCEPT ![i].value = v]
    /\ UNCHANGED <<kind, unique, wizard>>

-----------------------------------------------------------------------------
(* The wizard.                                                             *)

Known(row) == row.article # Unknown

\* A status that cannot be read leaves its row out.
StatusRow(row) == Known(row) /\ row.value # Unread

\* A quantity or a price that cannot be read is 0.
RuleRow(row)  == Known(row)
PriceRow(row) == Known(row)

\* Clients are only ever found.
AccountRow(row) == Known(row) /\ Found(entries, row.article) # 0

IsPreviewed(row) ==
    \/ kind = "status" /\ StatusRow(row)
    \/ kind \in {"rule", "stock"} /\ RuleRow(row)
    \/ kind = "price" /\ PriceRow(row)
    \/ kind = "account" /\ AccountRow(row)

\* What is previewed of a row: nothing of one that is left out.
LineOf(row) ==
    LET i == IF IsPreviewed(row) THEN Found(entries, row.article) ELSE 0 IN
    [article |-> row.article, value |-> row.value, target |-> i,
     action |-> IF ~IsPreviewed(row) THEN "none" ELSE IF i = 0 THEN "create" ELSE "update"]

\* float() of the sheet of stocks raises on a quantity that cannot be read.
StockIsRead(s) == kind = "stock" => \A n \in DOMAIN s : s[n].value # Unread

\* action_load_file, action_load_file_partner.
LoadRows(w, s) ==
    /\ wizard[w].pc \in {"draft", "loaded"}
    /\ StockIsRead(s)
    /\ wizard' = [wizard EXCEPT ![w] =
          [NewWizard EXCEPT !.pc = "loaded", !.lines = [n \in DOMAIN s |-> LineOf(s[n])]]]
    /\ UNCHANGED <<kind, unique, entries>>

NewEntry(table, l) == Append(table, [article |-> l.article, value |-> l.value, live |-> TRUE])

Overwrite(table, i, l) == [table EXCEPT ![i].value = l.value]

Upserted(table, i, l) == IF i = 0 THEN NewEntry(table, l) ELSE Overwrite(table, i, l)

\* Variant: written on the record that the preview had found.
StatusApplied_AsPreviewed(before, table, l) == Upserted(table, l.target, l)

\* Statuses are looked up in what the confirmation found when it began.
StatusApplied(before, table, l) == Upserted(table, Found(before, l.article), l)

\* Reordering rules are searched again for each line.
RuleApplied(before, table, l) == Upserted(table, Found(table, l.article), l)

\* Prices are created or written as the preview said; one deleted since is lost.
PriceApplied(table, l) ==
    IF l.action = "create" THEN NewEntry(table, l)
    ELSE IF l.target = 0 THEN table ELSE Overwrite(table, l.target, l)

\* An empty account is not written.
AccountApplied(table, l) ==
    IF l.target = 0 \/ l.value = Unread THEN table ELSE Overwrite(table, l.target, l)

LineApplied(before, table, l) ==
    CASE l.action = "none" -> table
      [] l.action # "none" /\ kind = "status" -> StatusApplied(before, table, l)
      [] l.action # "none" /\ kind \in {"rule", "stock"} -> RuleApplied(before, table, l)
      [] l.action # "none" /\ kind = "price" -> PriceApplied(table, l)
      [] l.action # "none" /\ kind = "account" -> AccountApplied(table, l)

\* The records after the first n lines.
TableAfter(before, lines) ==
    LET after[n \in 0 .. Len(lines)] ==
            IF n = 0 THEN before ELSE LineApplied(before, after[n - 1], lines[n])
    IN  after

\* action_apply, action_confirm: a transaction over the records as they are now.
ConfirmLines(w) ==
    /\ wizard[w].pc = "loaded"
    /\ kind = "status" => \E n \in DOMAIN wizard[w].lines : wizard[w].lines[n].action # "none"
    /\ LET lines == wizard[w].lines IN
       wizard' = [wizard EXCEPT ![w] = [@ EXCEPT !.pc = "confirming", !.seen = entries,
          !.result = TableAfter(entries, lines)[Len(lines)]]]
    /\ UNCHANGED <<kind, unique, entries>>

Changed(w) == {i \in DOMAIN wizard[w].seen : wizard[w].result[i] # wizard[w].seen[i]}

\* What the confirmation leaves, over what others have committed meanwhile.
Merged(w) ==
    LET seen == wizard[w].seen  result == wizard[w].result IN
    [i \in DOMAIN entries |-> IF i \in Changed(w) THEN result[i] ELSE entries[i]]
        \o SubSeq(result, Len(seen) + 1, Len(result))

Distinct(table) == \A a \in Articles : Cardinality(RecordsOf(table, a)) <= 1

Rollback(w) ==
    /\ wizard' = [wizard EXCEPT ![w] = [@ EXCEPT !.pc = "loaded", !.seen = <<>>, !.result = <<>>]]
    /\ UNCHANGED <<kind, unique, entries>>

\* A record written here was committed to by another: the request is run again.
Retry(w) ==
    /\ wizard[w].pc = "confirming"
    /\ \E i \in Changed(w) : entries[i] # wizard[w].seen[i]
    /\ Rollback(w)

\* The base refuses a second record: the user gets an error.
Refused(w) ==
    /\ wizard[w].pc = "confirming"
    /\ unique /\ ~Distinct(Merged(w))
    /\ Rollback(w)

Commit(w) ==
    /\ wizard[w].pc = "confirming"
    /\ \A i \in Changed(w) : entries[i] = wizard[w].seen[i]
    /\ unique => Distinct(Merged(w))
    /\ entries' = Merged(w)
    /\ wizard' = [wizard EXCEPT ![w] = [@ EXCEPT !.pc = "done", !.seen = <<>>, !.result = <<>>]]
    /\ UNCHANGED <<kind, unique>>

\* action_reset, or the wizard is closed and opened again.
Reopen(w) ==
    /\ wizard[w].pc \in {"loaded", "done"}
    /\ wizard' = [wizard EXCEPT ![w] = NewWizard]
    /\ UNCHANGED <<kind, unique, entries>>

-----------------------------------------------------------------------------
SheetNext ==
    \/ \E a \in Articles, v \in Values : AddEntry(a, v)
    \/ \E i \in DOMAIN entries : DeleteEntry(i) \/ \E v \in Values : EditEntry(i, v)
    \/ \E w \in Wizards :
          \/ \E s \in Sheets : LoadRows(w, s)
          \/ ConfirmLines(w) \/ Retry(w) \/ Refused(w) \/ Commit(w) \/ Reopen(w)

SheetSpec == SheetInit /\ [][SheetNext]_sheetVars

-----------------------------------------------------------------------------
(* Properties.                                                             *)

\* Every variable has its type; and the lines of a preview still point at a record
\* of their own article, which is the one the confirmation will write.
SheetInv ==
    /\ kind \in Kinds /\ unique \in BOOLEAN
    /\ entries \in Seq(Entry)
    /\ wizard \in [Wizards -> Wizard]
    /\ \A w \in Wizards : \A n \in DOMAIN wizard[w].lines :
          LET l == wizard[w].lines[n] IN
          l.target # 0 => /\ l.target \in DOMAIN entries
                          /\ entries[l.target].live /\ entries[l.target].article = l.article

\* The last row of n's article that was previewed.
LastRow(lines, n) ==
    \A m \in DOMAIN lines :
        m > n /\ lines[m].action # "none" => lines[m].article # lines[n].article

Skipped(l) ==
    \/ l.action = "none"
    \/ /\ kind \in {"price", "account"}
       /\ l.action = "update"
       /\ l.target = 0 \/ (kind = "account" /\ l.value = Unread)

\* Once confirmed, the last row of the sheet on an article is what a record of that
\* article says, however stale the preview, unless the record it had found is gone;
\* what others commit during the confirmation itself is not overwritten unseen.
SheetIsApplied ==
    [][\A w \in Wizards :
         wizard[w].pc = "confirming" /\ wizard'[w].pc = "done" =>
            \A n \in DOMAIN wizard[w].lines :
               LET l == wizard[w].lines[n]  seen == wizard[w].seen IN
               /\ LastRow(wizard[w].lines, n)
               /\ ~Skipped(l)
               /\ \A i \in RecordsOf(seen, l.article) : entries[i] = seen[i]
               => \E i \in RecordsOf(entries', l.article) : entries'[i].value = l.value]_sheetVars

\* Statuses and rules: a confirmation adds no record of an article that has some, though
\* the sheet names it twice.
NoSecondRecord ==
    [][\A w \in Wizards : \A a \in Articles :
         /\ kind \in {"status", "rule", "stock"}
         /\ wizard[w].pc = "confirming" /\ wizard'[w].pc = "done"
         /\ RecordsOf(entries, a) = RecordsOf(wizard[w].seen, a)
         /\ RecordsOf(entries, a) # {}
         => RecordsOf(entries', a) = RecordsOf(entries, a)]_sheetVars
=============================================================================
