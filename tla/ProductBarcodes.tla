-------------------------- MODULE ProductBarcodes --------------------------
(***************************************************************************)
(* The barcodes of a product: the main one (product_product.barcode) and   *)
(* the records of custom_multi_barcode_for_products, the active one of     *)
(* which is copied to the main one by SQL.  Users keep the records, a      *)
(* sheet adds some, every save of the product runs the records again, and  *)
(* the import of products writes the main barcode by SQL behind them.      *)
(*                                                                         *)
(* Requests run in snapshots: one of them may be slow, while the others    *)
(* commit; a row that was written since its snapshot makes it start again. *)
(* A code has one record: that is assumed of the database, where versions  *)
(* of Odoo before 19 made a constraint of _sql_constraints.                *)
(***************************************************************************)
EXTENDS Naturals, FiniteSets, Sequences, SequencesExt

CONSTANTS
    Order,      \* the barcodes, in the order of the ids of their records
    Corrected,  \* fix_gs1_barcode
    OfX3,       \* the barcode that X3 gives the product
    NoCode      \* no main barcode

Codes == Range(Order)

ASSUME BarcodeAssumption ==
    /\ Order \in Seq(Codes) /\ IsInjective(Order)
    /\ NoCode \notin Codes /\ "product" \notin Codes
    /\ Corrected \in [Codes -> Codes] /\ \A c \in Codes : Corrected[Corrected[c]] = Corrected[c]
    /\ OfX3 \in Codes

VARIABLES
    record,  \* the records: none, or is_active_barcode
    main,    \* the main barcode
    source,  \* who wrote it last (history)
    sheet,   \* codes of a loaded sheet that were new
    slow,    \* the snapshot of the slow request
    stale    \* rows written by others since

barcodeVars == <<record, main, source, sheet, slow, stale>>

Row == Codes \cup {"product"}
Source == {"copy", "form", "sql", "several"}

Snapshot == [record : [Codes -> {"none", "off", "on"}], main : Codes \cup {NoCode},
             source : Source, wrote : SUBSET Row, open : BOOLEAN]

NoSnapshot == [record |-> [c \in Codes |-> "none"], main |-> NoCode, source |-> "form",
               wrote |-> {}, open |-> FALSE]

BarcodeInit ==
    /\ record = [c \in Codes |-> "none"]
    /\ main \in {NoCode, OfX3}
    /\ source = "form"
    /\ sheet = {} /\ slow = NoSnapshot /\ stale = {}

-----------------------------------------------------------------------------
(* Transactions.                                                           *)

Now == [record |-> record, main |-> main, source |-> source, wrote |-> {}, open |-> FALSE]

\* What a request may run on: the committed state, or the snapshot of the slow one.
Bases == {Now} \cup {s \in {slow} : s.open}

\* Variant: the slow request writes over the others.
NoRowConflict_LastWins(n) == TRUE

\* PostgreSQL, first updater wins.
NoRowConflict(n) == n.open => n.wrote \cap stale = {}

\* The commit of the rows that n wrote.
Committed(n) ==
    /\ NoRowConflict(n)
    /\ record' = [c \in Codes |-> IF c \in n.wrote THEN n.record[c] ELSE record[c]]
    /\ main' = IF "product" \in n.wrote THEN n.main ELSE main
    /\ source' = IF "product" \in n.wrote THEN n.source ELSE source
    /\ slow' = IF n.open THEN NoSnapshot ELSE slow
    /\ stale' = IF n.open \/ ~slow.open THEN {} ELSE stale \cup n.wrote

Open ==
    /\ ~slow.open
    /\ slow' = [Now EXCEPT !.open = TRUE]
    /\ UNCHANGED <<record, main, source, sheet, stale>>

\* The conflict, or another error: the request is undone.
GiveUp ==
    /\ slow.open
    /\ slow' = NoSnapshot /\ stale' = {}
    /\ UNCHANGED <<record, main, source, sheet>>

-----------------------------------------------------------------------------
(* The records of barcodes.                                                *)

Records(s) == {c \in Codes : s.record[c] # "none"}
Active(s) == {c \in Codes : s.record[c] = "on"}

Place(c) == CHOOSE k \in DOMAIN Order : Order[k] = c

Latest(S) == CHOOSE c \in S : \A d \in S : Place(d) <= Place(c)

\* What is done to each of S, in the order of the ids.
InTurn(Do(_, _), s, S) ==
    LET after[k \in 0 .. Len(Order)] ==
            IF k = 0 THEN s
            ELSE IF Order[k] \in S THEN Do(after[k - 1], Order[k]) ELSE after[k - 1]
    IN  after[Len(Order)]

\* The records of S are written.
Marked(s, S, mark) ==
    [s EXCEPT !.record = [c \in Codes |-> IF c \in S THEN mark ELSE s.record[c]],
              !.wrote = s.wrote \cup S]

\* The main barcode is written.
WithMain(s, c, by) == [s EXCEPT !.main = c, !.source = by, !.wrote = s.wrote \cup {"product"}]

\* _sync_barcode_to_product.
Sync(s, c) == WithMain(s, c, "copy")

\* The main barcode after the record that it came from is no longer active.
Resynced(s) == Sync(s, IF Active(s) = {} THEN NoCode ELSE Latest(Active(s)))

\* Variant: the others stay active.
Activate_OnlyThis(s, c) == Sync(Marked(s, {c}, "on"), c)

\* write with is_active_barcode: the other active ones are written first.
Activate(s, c) == Sync(Marked(Marked(s, Active(s) \ {c}, "off"), {c}, "on"), c)

Deactivate(s, c) ==
    LET n == Marked(s, {c}, "off") IN IF s.main = c THEN Resynced(n) ELSE n

\* create: the first one is made active.
Create(s, c, on) ==
    IF on \/ Active(s) = {} THEN Sync(Marked(s, {c}, "on"), c) ELSE Marked(s, {c}, "off")

\* unlink, before the records go: an active one leaves its place to the latest.
Replace(s, c) ==
    IF c \notin Active(s) THEN s
    ELSE IF Records(s) = {c} THEN Sync(s, NoCode)
    ELSE Activate(s, Latest(Records(s) \ {c}))

Unlink(s, S) ==
    LET n == Marked(InTurn(Replace, s, S), S, "none") IN
    IF Cardinality(S) > 1 /\ Active(s) \cap S # {} THEN [n EXCEPT !.source = "several"] ELSE n

\* Saving the product writes every record again: the active one is copied, and a
\* main barcode that is an inactive record is replaced or emptied.
Saved(s) ==
    LET n == [s EXCEPT !.wrote = s.wrote \cup Records(s)] IN
    IF Active(s) # {} \/ s.main \in Records(s) THEN Resynced(n) ELSE n

-----------------------------------------------------------------------------
(* Requests of the users.                                                  *)

\* A record is created, and may be asked to be active: _check_unique_active_barcode
\* refuses it if another one is.
Add(c) ==
    /\ \E s \in Bases, on \in BOOLEAN :
          /\ s.record[c] = "none" /\ (on => Active(s) = {})
          /\ Committed(Create(s, c, on))
    /\ UNCHANGED sheet

Toggle(c) ==
    /\ \E s \in Bases :
          \/ s.record[c] = "off" /\ Committed(Activate(s, c))
          \/ s.record[c] = "on" /\ Committed(Deactivate(s, c))
    /\ UNCHANGED sheet

Delete ==
    /\ \E s \in Bases : \E S \in SUBSET Records(s) \ {{}} : Committed(Unlink(s, S))
    /\ UNCHANGED sheet

\* The product is saved; its main barcode may be typed.
Save ==
    /\ \E s \in Bases :
          \/ Committed(Saved(s))
          \/ \E c \in Codes \cup {NoCode} : Committed(Saved(WithMain(s, c, "form")))
    /\ UNCHANGED sheet

\* import.barcodes.wizard: the codes are compared with the records when the sheet
\* is loaded.
LoadSheet ==
    /\ sheet' \in SUBSET (Codes \ Records(Now)) \ {{}}
    /\ UNCHANGED <<record, main, source, slow, stale>>

\* What is active is written off, one after the other.
AllOff(s) ==
    LET n == Marked(s, Active(s), "off") IN
    IF s.main \in Active(s) THEN Sync(n, NoCode) ELSE n

\* One line of the sheet: the new one is active.
Line(s, c) == Create(AllOff(s), c, TRUE)

\* The lines are not compared again: one that was created since is refused by the
\* constraint of the database, with the sheet.
Confirm ==
    /\ sheet # {}
    /\ \E s \in Bases :
          /\ sheet \cap Records(s) = {}
          /\ Committed(InTurn(Line, s, sheet))
    /\ sheet' = {}

-----------------------------------------------------------------------------
(* The import of products (ProductImport).                                 *)

\* SQL behind the records.
Overwritten(s, c) == WithMain(s, c, "sql")

\* The barcode of X3, unless some product has it: this one, or another (taken).
\* The product is saved with it, and the variant is written again by SQL; the
\* correction of GS1 then starts from the barcode that was read before.
Item(s, taken) ==
    LET code == Corrected[OfX3]
        new == s.main # code /\ ~taken
        saved == Saved(IF new THEN WithMain(s, code, "form") ELSE s)
        sql == IF new THEN Overwritten(saved, code) ELSE saved
        read == saved.main
    IN  IF read # NoCode /\ Corrected[read] # read /\ ~taken THEN Overwritten(sql, Corrected[read])
        ELSE sql

ImportItem ==
    /\ \E s \in Bases, taken \in BOOLEAN : Committed(Item(s, taken))
    /\ UNCHANGED sheet

\* fix_all_gs1_barcodes_direct.
FixGs1 ==
    /\ \E s \in Bases :
          /\ s.main # NoCode /\ Corrected[s.main] # s.main
          /\ Committed(Overwritten(s, Corrected[s.main]))
    /\ UNCHANGED sheet

BarcodeNext ==
    \/ Open \/ GiveUp
    \/ \E c \in Codes : Add(c) \/ Toggle(c)
    \/ Delete \/ Save \/ LoadSheet \/ Confirm
    \/ ImportItem \/ FixGs1

BarcodeSpec == BarcodeInit /\ [][BarcodeNext]_barcodeVars

-----------------------------------------------------------------------------
BarcodeTypeOK ==
    /\ record \in [Codes -> {"none", "off", "on"}]
    /\ main \in Codes \cup {NoCode} /\ source \in Source
    /\ sheet \subseteq Codes /\ stale \subseteq Row
    /\ slow \in Snapshot

\* _check_unique_active_barcode, and the requests that it does not look at.
OneActive == Cardinality(Active(Now)) <= 1

\* The main barcode is the active record's, and there is none if none is active,
\* unless it was typed, written by the import's SQL, or left by the deletion of
\* several records at once.
MainIsTheActive ==
    /\ source = "copy" => main = IF Active(Now) = {} THEN NoCode ELSE Latest(Active(Now))
    /\ source = "form" => Active(Now) = {}

\* Invariant of the barcodes: two requests at once never leave two active records,
\* nor a main barcode that the records would not give.
BarcodeInv == BarcodeTypeOK /\ OneActive /\ MainIsTheActive
=============================================================================
