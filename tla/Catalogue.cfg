SPECIFICATION CatalogueSpec
CONSTANTS
  Scenarios = {"products", "barcodes", "contacts", "sheets"}
  i1 = i1
  i2 = i2
  i3 = i3
  b1 = b1
  b2 = b2
  b3 = b3
  c1 = c1
  c2 = c2
  Catalogue <- ThreeItems
  Ignored = {i2}
  Imports = {j1, j2}
  PageSize = 2
  CommitStep = 2
  MaxPages = 2
  LastVersion = 2
  Order <- ThreeCodes
  Corrected <- GS1
  OfX3 = b3
  NoCode = NoCode
  Customers <- TwoCustomers
  ContactStep = 2
  MaxContacts = 2
  a1 = a1
  zz = zz
  Articles = {a1}
  Unknown = zz
  Values = {1, 2}
  Sheets <- ThreeSheets
  Wizards = {w1}
  MaxRecords = 2
CONSTRAINT Within
INVARIANT CatalogueInv
INVARIANT LossIsBounded
PROPERTY CleanImportIsComplete
PROPERTY ContactsAreAsTold
PROPERTY SheetsAreTold
PROPERTY ProductImportsEnd
