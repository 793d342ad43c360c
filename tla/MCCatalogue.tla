----------------------------- MODULE MCCatalogue -----------------------------
(***************************************************************************)
(* Instance for TLC of what imports keep of products and contacts:         *)
(* ProductImport, ProductBarcodes, ContactImport and SheetWizards, one     *)
(* scenario each.                                                          *)
(***************************************************************************)
EXTENDS ProductImport, ProductBarcodes, ContactImport, SheetWizards, TLC

CONSTANTS Scenarios, i1, i2, i3, b1, b2, b3, c1, c2, a1, zz

VARIABLE scenario

\* Two pages, of two items and one.
ThreeItems == <<i1, i2, i3>>

\* The second barcode has a wrong check digit: that of the first.
ThreeCodes == <<b1, b2, b3>>
GS1 == b1 :> b1 @@ b2 :> b1 @@ b3 :> b3

TwoCustomers == <<c1, c2>>

\* One article: named twice, once, or unreadable after one that Odoo does not know.
RowOf(code, v) == [article |-> code, value |-> v]
ThreeSheets == {<<RowOf(a1, 1), RowOf(a1, 2)>>, <<RowOf(a1, 2)>>, <<RowOf(zz, 1), RowOf(a1, 0)>>}

catalogueVars == <<scenario, productVars, barcodeVars, contactVars, sheetVars>>

CatalogueInit ==
    /\ scenario \in Scenarios
    /\ ProductInit /\ (scenario # "products" => stored = Nothing)
    /\ BarcodeInit /\ (scenario # "barcodes" => main = NoCode)
    /\ ContactInit /\ (scenario # "contacts" => \A c \in CustomerCodes : alive[c])
    /\ SheetInit /\ (scenario # "sheets" => kind = "account" /\ entries = <<>>)

\* Bound: two imports run at once over a catalogue that does not change; otherwise
\* it changes once for a running import, twice for none.  One archived contact of a
\* code is enough to see another one made, and three records of an article to see it
\* added by a user, by a sheet, and after a deletion.
Changes ==
    Len(Catalogue) - Len(catalogue) + Cardinality({i \in Items : version[i] > 1})

Within ==
    /\ Changes + Cardinality(Running) <= 2
    /\ \A c \in CustomerCodes : contact[c].archived <= 1
    /\ Len(entries) <= 3

CatalogueNext ==
    /\ UNCHANGED scenario
    /\ \/ scenario = "products" /\ ProductNext /\ UNCHANGED <<barcodeVars, contactVars, sheetVars>>
       \/ scenario = "barcodes" /\ BarcodeNext /\ UNCHANGED <<productVars, contactVars, sheetVars>>
       \/ scenario = "contacts" /\ ContactNext /\ UNCHANGED <<productVars, barcodeVars, sheetVars>>
       \/ scenario = "sheets" /\ SheetNext /\ UNCHANGED <<productVars, barcodeVars, contactVars>>

\* Nothing is imported where products are not checked.
CatalogueSpec ==
    /\ CatalogueInit /\ [][CatalogueNext]_catalogueVars
    /\ \A j \in Imports : SF_productVars(ImportStep(j))

-----------------------------------------------------------------------------
\* Invariant of the catalogue: types, the barcodes of a product agree with its main
\* one, which the tills scan (custom_multi_barcode_for_products), and previews point at
\* records of their own article.
CatalogueInv == ProductTypeOK /\ BarcodeInv /\ ContactTypeOK /\ SheetInv

\* What a confirmed sheet leaves: its values, and no second record of an article
\* (custom_import_excel).
SheetsAreTold == SheetIsApplied /\ NoSecondRecord
=============================================================================
