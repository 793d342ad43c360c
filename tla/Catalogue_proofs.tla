-------------------------- MODULE Catalogue_proofs --------------------------
(***************************************************************************)
(* What imports keep of contacts and products: proofs about ContactImport, *)
(* ProductImport, SheetWizards and ProductBarcodes, for any customers,     *)
(* catalogue, sheets, wizards, imports and barcodes, every size of a page  *)
(* and of a batch.                                                         *)
(***************************************************************************)
EXTENDS MCCatalogue, SequenceTheorems, Sums

-----------------------------------------------------------------------------
(* Contacts of SAGE X3.                                                    *)

Dids == {"nothing", "made", "written", "filed", "archived"}

\* The pages tell the codes in their order.
ToldInOrder(m) ==
    /\ Len(m.told) <= Len(Customers)
    /\ \A k \in 1 .. Len(m.told) : m.told[k].code = Customers[k]

\* What the snapshot shows is still there, unless another one wrote it.
SeenStays(m, of) ==
    \A c \in CustomerCodes :
        /\ c \notin m.moved => m.seen[c].active <= of[c].active
        /\ m.pending[c] = "archived" => of[c].active > 0

\* Alone, an import sees what there is, makes no contact that there is, and what it has
\* done will be what it was told.
AloneIsExact(m, of) ==
    m.alone =>
        /\ m.seen = of
        /\ \A c \in CustomerCodes : /\ of[c].active <= 1
                                    /\ m.pending[c] = "made" => of[c].active = 0
        /\ \A k \in 1 .. m.idx :
              LET c == m.told[k].code IN
              c \notin m.raised => ((Applied(of[c], m.pending[c]).active > 0) <=> m.told[k].alive)

\* An import that runs, over the contacts there are.
LoadIsSound(m, of) ==
    /\ m.idx <= Len(m.told)
    /\ m.pc = "pages" => m.idx = 0
    /\ ToldInOrder(m) /\ SeenStays(m, of) /\ AloneIsExact(m, of)

\* The inductive invariant of the import of contacts.
ContactIInv ==
    /\ ContactTypeOK
    /\ load.pc # "idle" => LoadIsSound(load, contact)

\* What a contact becomes, by what was done.
LEMMA AppliedIs ==
    ASSUME NEW r \in Contact, NEW did \in Dids
    PROVE  /\ did = "made" => Applied(r, did).active = r.active + 1 /\ Applied(r, did).archived = r.archived
           /\ did = "filed" => Applied(r, did).active = r.active /\ Applied(r, did).archived = r.archived + 1
           /\ did = "archived" => Applied(r, did).active = r.active - 1 /\ Applied(r, did).archived = r.archived + 1
           /\ did \in {"nothing", "written"} => Applied(r, did) = r
BY DEF Applied, Contact, Dids

\* Within the bounds it is a contact.
LEMMA AppliedType ==
    ASSUME NEW r \in Contact, NEW did \in Dids, did = "archived" => r.active > 0,
           Bounded(Applied(r, did))
    PROVE  Applied(r, did) \in Contact
<1>1. CASE did = "made"
  <2>1. Applied(r, did) = [r EXCEPT !.active = @ + 1]
    BY <1>1 DEF Applied
  <2> QED
    BY <2>1, ContactAssumption DEF Bounded, Contact
<1>2. CASE did = "filed"
  <2>1. Applied(r, did) = [r EXCEPT !.archived = @ + 1]
    BY <1>2 DEF Applied
  <2> QED
    BY <2>1, ContactAssumption DEF Bounded, Contact
<1>3. CASE did = "archived"
  <2>1. Applied(r, did) = [active |-> r.active - 1, archived |-> r.archived + 1]
    BY <1>3 DEF Applied
  <2> QED
    BY <1>3, <2>1, ContactAssumption DEF Bounded, Contact
<1>4. CASE did \in {"nothing", "written"}
  BY <1>4 DEF Applied
<1> QED
  BY <1>1, <1>2, <1>3, <1>4 DEF Dids

\* What is done to a contact that is seen makes it what X3 says, and makes none that is.
LEMMA UpsertIs ==
    ASSUME NEW r \in Contact, NEW is \in BOOLEAN
    PROVE  /\ Upsert(r, is) \in Dids
           /\ Upsert(r, is) \in {"written", "archived"} <=> r.active > 0
           /\ Upsert(r, is) = "made" => r.active = 0
           /\ r.active <= 1 => ((Applied(r, Upsert(r, is)).active > 0) <=> is)
<1> DEFINE did == Upsert(r, is)
<1>1. /\ did \in Dids
      /\ did \in {"written", "archived"} <=> r.active > 0
      /\ did = "made" => r.active = 0 /\ is
      /\ did = "written" => is
      /\ did \in {"filed", "archived"} => ~is
      /\ did # "nothing"
  BY ContactAssumption DEF Upsert, Contact, Dids
<1> HIDE DEF did
<1>2. r.active \in Nat
  BY ContactAssumption DEF Contact
<1>3. r.active <= 1 => ((Applied(r, did).active > 0) <=> is)
  BY <1>1, <1>2, AppliedIs DEF Dids
<1> QED
  BY <1>1, <1>3 DEF did

-----------------------------------------------------------------------------
\* The fields of an import.
LEMMA LoadTypes ==
    ASSUME ContactIInv
    PROVE  /\ load \in Load /\ contact \in [CustomerCodes -> Contact]
           /\ alive \in [CustomerCodes -> BOOLEAN]
           /\ Len(load.told) \in Nat /\ load.idx \in Nat /\ Len(Customers) \in Nat
           /\ load.told \in Seq([code : CustomerCodes, alive : BOOLEAN])
           /\ \A k \in 1 .. Len(load.told) :
                 /\ load.told[k] \in [code : CustomerCodes, alive : BOOLEAN]
                 /\ load.told[k].code \in CustomerCodes /\ load.told[k].alive \in BOOLEAN
<1>1. /\ load \in Load /\ contact \in [CustomerCodes -> Contact]
      /\ alive \in [CustomerCodes -> BOOLEAN]
  BY DEF ContactIInv, ContactTypeOK
<1>2. load.told \in Seq([code : CustomerCodes, alive : BOOLEAN]) /\ load.idx \in Nat
  BY <1>1 DEF Load
<1>3. Len(Customers) \in Nat
  BY ContactAssumption
<1> DEFINE S == [code : CustomerCodes, alive : BOOLEAN]
<1>4. \A x \in S : x.code \in CustomerCodes /\ x.alive \in BOOLEAN
  OBVIOUS
<1>6. load.told \in Seq(S)
  BY <1>2
<1> HIDE DEF S
<1>5. Len(load.told) \in Nat /\ \A k \in 1 .. Len(load.told) : load.told[k] \in S
  BY <1>6
<1> QED
  BY <1>1, <1>2, <1>3, <1>4, <1>5 DEF S

\* X3 changes its mind.
LEMMA ChangeKeeps ==
    ASSUME ContactIInv, NEW c \in CustomerCodes, Change(c)
    PROVE  ContactIInv'
<1>1. /\ alive' = [alive EXCEPT ![c] = ~alive[c]] /\ contact' = contact /\ load' = load
  BY DEF Change
<1>2. alive' \in [CustomerCodes -> BOOLEAN]
  BY <1>1, LoadTypes
<1> QED
  BY <1>1, <1>2 DEF ContactIInv, ContactTypeOK

\* An import begins with what there is.
LEMMA BeginLoadKeeps ==
    ASSUME ContactIInv, BeginLoad
    PROVE  ContactIInv'
<1>1. PICK a \in BOOLEAN : a <=> Duplicated = {}
  OBVIOUS
<1>2. a = (Duplicated = {})
  BY <1>1
<1>3. load' = [NoLoad EXCEPT !.pc = "pages", !.seen = contact, !.alone = a]
      /\ alive' = alive /\ contact' = contact
  BY <1>2, Zenon DEF BeginLoad
<1>4. contact \in [CustomerCodes -> Contact] /\ alive \in [CustomerCodes -> BOOLEAN]
  BY LoadTypes
<1>5. /\ load' = [pc |-> "pages", told |-> <<>>, idx |-> 0, seen |-> contact,
                  pending |-> [c \in CustomerCodes |-> "nothing"], moved |-> {}, raised |-> {}, alone |-> a]
  BY <1>3 DEF NoLoad
<1>6. load' \in Load
  BY <1>4, <1>5 DEF Load
<1>7. a => \A c \in CustomerCodes : contact[c].active <= 1
  BY <1>1, <1>4, ContactAssumption DEF Duplicated, Contact
<1>8. \A c \in CustomerCodes : contact[c].active <= contact[c].active
  BY <1>4, ContactAssumption DEF Contact
<1>11. /\ load'.pc = "pages" /\ load'.idx = 0 /\ load'.seen = contact' /\ load'.alone = a
       /\ load'.told = <<>> /\ load'.pending = [c \in CustomerCodes |-> "nothing"]
  <2> DEFINE p == [c \in CustomerCodes |-> "nothing"]
  <2>1. load' = [pc |-> "pages", told |-> <<>>, idx |-> 0, seen |-> contact,
                 pending |-> p, moved |-> {}, raised |-> {}, alone |-> a]
    BY <1>5
  <2> HIDE DEF p
  <2>2. load'.pc = "pages" /\ load'.idx = 0 /\ load'.told = <<>>
    BY <2>1
  <2>3. load'.seen = contact /\ load'.pending = p
    BY <2>1
  <2>4. load'.alone = a
    BY <2>1
  <2> QED
    BY <1>3, <2>2, <2>3, <2>4 DEF p
<1>9. /\ load'.pc = "pages" /\ load'.idx = 0 /\ load'.seen = contact' /\ (load'.alone => a)
      /\ Len(load'.told) = 0
      /\ \A c \in CustomerCodes : load'.pending[c] = "nothing"
  BY <1>11
<1>10. ToldInOrder(load') /\ SeenStays(load', contact') /\ AloneIsExact(load', contact')
  BY <1>3, <1>7, <1>8, <1>9, LoadTypes DEF ToldInOrder, SeenStays, AloneIsExact
<1> QED
  BY <1>3, <1>4, <1>6, <1>9, <1>10 DEF ContactIInv, ContactTypeOK, LoadIsSound

\* A page is read.
LEMMA FetchKeeps ==
    ASSUME ContactIInv, Fetch
    PROVE  ContactIInv'
<1> DEFINE n == Len(load.told) + 1
           said == [code |-> Customers[n], alive |-> alive[Customers[n]]]
<1>1. /\ load.pc = "pages" /\ n <= Len(Customers) /\ n \in Nat /\ n > 0
      /\ load' = [load EXCEPT !.told = Append(@, said)]
      /\ alive' = alive /\ contact' = contact
  BY LoadTypes DEF Fetch
<1>2. Customers[n] \in CustomerCodes
  BY <1>1, ContactAssumption
<1>3. said \in [code : CustomerCodes, alive : BOOLEAN] /\ said.code = Customers[n]
  BY <1>2, LoadTypes
<1> HIDE DEF said
<1>4. load.told \in Seq([code : CustomerCodes, alive : BOOLEAN]) /\ load \in Load
  BY LoadTypes DEF Load
<1> DEFINE told == Append(load.told, said)
<1>10. told \in Seq([code : CustomerCodes, alive : BOOLEAN])
  BY <1>3, <1>4
<1>11. load' = [load EXCEPT !.told = told]
  BY <1>1
<1> HIDE DEF told
<1>5. /\ load' \in Load
      /\ load'.told = told
      /\ load'.pc = load.pc /\ load'.idx = load.idx /\ load'.seen = load.seen
      /\ load'.pending = load.pending /\ load'.moved = load.moved
      /\ load'.raised = load.raised /\ load'.alone = load.alone
  BY <1>4, <1>10, <1>11 DEF Load
<1>6. LoadIsSound(load, contact) /\ load.idx = 0
  BY <1>1 DEF ContactIInv, LoadIsSound
<1>7. Len(load'.told) = n /\ \A k \in 1 .. n : load'.told[k] = IF k = n THEN said ELSE load.told[k]
  BY <1>3, <1>4, <1>5 DEF told
<1>8. ToldInOrder(load')
  BY <1>1, <1>3, <1>6, <1>7, LoadTypes DEF LoadIsSound, ToldInOrder
<1>9. SeenStays(load', contact') /\ AloneIsExact(load', contact')
  BY <1>1, <1>5, <1>6 DEF LoadIsSound, SeenStays, AloneIsExact
<1> QED
  BY <1>1, <1>5, <1>6, <1>7, <1>8, <1>9 DEF ContactIInv, ContactTypeOK, LoadIsSound

\* The pages are over.
LEMMA StartContactsKeeps ==
    ASSUME ContactIInv, StartContacts
    PROVE  ContactIInv'
<1>1. /\ load.pc = "pages" /\ load' = [load EXCEPT !.pc = "contacts"]
      /\ alive' = alive /\ contact' = contact
  BY DEF StartContacts
<1>2. load \in Load
  BY LoadTypes
<1>3. /\ load' \in Load /\ load'.pc = "contacts"
      /\ load'.told = load.told /\ load'.idx = load.idx /\ load'.seen = load.seen
      /\ load'.pending = load.pending /\ load'.moved = load.moved
      /\ load'.raised = load.raised /\ load'.alone = load.alone
  BY <1>1, <1>2 DEF Load
<1>4. LoadIsSound(load, contact)
  BY <1>1 DEF ContactIInv
<1>5. LoadIsSound(load', contact')
  BY <1>1, <1>3, <1>4 DEF LoadIsSound, ToldInOrder, SeenStays, AloneIsExact
<1> QED
  BY <1>1, <1>3, <1>5 DEF ContactIInv, ContactTypeOK

\* Nothing is a fresh import.
LEMMA NoLoadType == NoLoad \in Load /\ NoLoad.pc = "idle"
<1>1. [active |-> 0, archived |-> 0] \in Contact
  BY ContactAssumption DEF Contact
<1> DEFINE seen == [c \in CustomerCodes |-> [active |-> 0, archived |-> 0]]
<1>2. seen \in [CustomerCodes -> Contact]
  BY <1>1
<1> HIDE DEF seen
<1>3. PICK t \in BOOLEAN : t = TRUE
  OBVIOUS
<1>4. NoLoad = [pc |-> "idle", told |-> <<>>, idx |-> 0, seen |-> seen,
                pending |-> [c \in CustomerCodes |-> "nothing"], moved |-> {}, raised |-> {}, alone |-> t]
  BY <1>3, Zenon DEF NoLoad, seen
<1> QED
  BY <1>2, <1>4 DEF Load

\* The import is broken off.
LEMMA BreakKeeps ==
    ASSUME ContactIInv, Break
    PROVE  ContactIInv'
<1>1. load' = NoLoad /\ alive' = alive /\ contact' = contact
  BY DEF Break
<1> QED
  BY <1>1, NoLoadType DEF ContactIInv, ContactTypeOK

\* A contact raises: what was done before it stays to be committed.
LEMMA RaiseKeeps ==
    ASSUME ContactIInv, Raise
    PROVE  ContactIInv'
<1> DEFINE k == load.idx + 1
           c == load.told[k].code
<1>1. /\ load.pc = "contacts" /\ load.idx < Len(load.told)
      /\ load' = [load EXCEPT !.idx = @ + 1, !.raised = @ \cup {c}]
      /\ alive' = alive /\ contact' = contact
  BY DEF Raise, Isolated
<1>2. load \in Load /\ c \in CustomerCodes /\ k \in Nat /\ k <= Len(load.told)
  BY <1>1, LoadTypes
<1> HIDE DEF c
<1>3. /\ load' \in Load /\ load'.idx = k /\ load'.raised = load.raised \cup {c}
      /\ load'.pc = "contacts" /\ load'.told = load.told /\ load'.seen = load.seen
      /\ load'.pending = load.pending /\ load'.moved = load.moved /\ load'.alone = load.alone
  BY <1>1, <1>2 DEF Load
<1>4. LoadIsSound(load, contact)
  BY <1>1 DEF ContactIInv
<1>5. ToldInOrder(load') /\ SeenStays(load', contact')
  BY <1>1, <1>3, <1>4 DEF LoadIsSound, ToldInOrder, SeenStays
<1>6. AloneIsExact(load', contact')
  <2> SUFFICES ASSUME load.alone, NEW i \in 1 .. load'.idx, load'.told[i].code \notin load'.raised
               PROVE  (Applied(contact[load.told[i].code], load.pending[load.told[i].code]).active > 0)
                         <=> load.told[i].alive
    BY <1>1, <1>3, <1>4 DEF LoadIsSound, AloneIsExact
  <2>1. i # k
    BY <1>3 DEF c
  <2>2. i \in 1 .. load.idx
    BY <1>3, <2>1, LoadTypes
  <2> QED
    BY <1>3, <1>4, <2>2 DEF LoadIsSound, AloneIsExact
<1> QED
  BY <1>1, <1>2, <1>3, <1>5, <1>6 DEF ContactIInv, ContactTypeOK, LoadIsSound

-----------------------------------------------------------------------------
\* The contacts that a commit leaves.
LEMMA CommitLeaves ==
    ASSUME contact \in [CustomerCodes -> Contact], NEW m \in Load, SeenStays(m, contact),
           contact' = [c \in CustomerCodes |-> Applied(contact[c], m.pending[c])],
           \A c \in CustomerCodes : Bounded(contact'[c])
    PROVE  /\ contact' \in [CustomerCodes -> Contact]
           /\ \A c \in CustomerCodes : contact'[c] = Applied(contact[c], m.pending[c])
<1>1. \A c \in CustomerCodes : contact'[c] = Applied(contact[c], m.pending[c])
  OBVIOUS
<1>2. ASSUME NEW c \in CustomerCodes PROVE Applied(contact[c], m.pending[c]) \in Contact
  <2> DEFINE r == contact[c]
             did == m.pending[c]
  <2>1. r \in Contact /\ did \in Dids
    BY DEF Load, Dids
  <2>2. did = "archived" => r.active > 0
    BY DEF SeenStays
  <2>3. Bounded(Applied(r, did))
    BY <1>1
  <2> HIDE DEF r, did
  <2>4. Applied(r, did) \in Contact
    BY <2>1, <2>2, <2>3, AppliedType
  <2> QED
    BY <2>4 DEF r, did
<1> QED
  BY <1>1, <1>2

\* An import that commits and goes on.
LEMMA CommitKeeps ==
    ASSUME ContactIInv, NEW m \in Load, LoadIsSound(m, contact), m.pc = "contacts",
           CommitLoad(m, m), alive' = alive
    PROVE  ContactIInv'
<1> DEFINE none == [c \in CustomerCodes |-> "nothing"]
<1>1. /\ contact' = [c \in CustomerCodes |-> Applied(contact[c], m.pending[c])]
      /\ \A c \in CustomerCodes : Bounded(contact'[c])
      /\ load' = [m EXCEPT !.seen = contact', !.pending = none, !.moved = {}]
  BY DEF CommitLoad, NoLoad
<1>2. /\ contact' \in [CustomerCodes -> Contact] /\ contact \in [CustomerCodes -> Contact]
      /\ \A c \in CustomerCodes : contact'[c] = Applied(contact[c], m.pending[c])
  BY <1>1, CommitLeaves, LoadTypes DEF LoadIsSound
<1>3. none \in [CustomerCodes -> Dids] /\ \A c \in CustomerCodes : none[c] = "nothing"
  BY DEF Dids
<1>4. m.pending \in [CustomerCodes -> Dids]
  BY DEF Load, Dids
<1> HIDE DEF none
<1>5. /\ load' \in Load /\ load'.pc = "contacts"
      /\ load'.told = m.told /\ load'.idx = m.idx /\ load'.raised = m.raised /\ load'.alone = m.alone
      /\ load'.seen = contact' /\ load'.pending = none /\ load'.moved = {}
  BY <1>1, <1>2, <1>3 DEF Load, Dids
<1>6. ToldInOrder(load') /\ load'.idx <= Len(load'.told)
  BY <1>5 DEF LoadIsSound, ToldInOrder
<1>7. SeenStays(load', contact')
  BY <1>2, <1>3, <1>5, ContactAssumption DEF SeenStays, Contact
<1>8. AloneIsExact(load', contact')
  <2> SUFFICES ASSUME m.alone
               PROVE  /\ \A c \in CustomerCodes : contact'[c].active <= 1
                      /\ \A k \in 1 .. m.idx :
                            LET c == m.told[k].code IN
                            c \notin m.raised
                               => ((Applied(contact'[c], none[c]).active > 0) <=> m.told[k].alive)
    BY <1>3, <1>5 DEF AloneIsExact
  <2>1. /\ \A c \in CustomerCodes : /\ contact[c].active <= 1
                                    /\ m.pending[c] = "made" => contact[c].active = 0
        /\ \A k \in 1 .. m.idx :
              LET c == m.told[k].code IN
              c \notin m.raised => ((Applied(contact[c], m.pending[c]).active > 0) <=> m.told[k].alive)
    BY DEF LoadIsSound, AloneIsExact
  <2>2. ASSUME NEW c \in CustomerCodes PROVE contact'[c].active <= 1
    <3>1. contact[c] \in Contact /\ m.pending[c] \in Dids /\ contact[c].active \in Nat
      BY <1>2, <1>4, ContactAssumption DEF Contact
    <3>2. Applied(contact[c], m.pending[c]).active <= 1
      BY <2>1, <3>1, AppliedIs DEF Dids
    <3> QED
      BY <1>2, <3>2
  <2>3. ASSUME NEW k \in 1 .. m.idx
        PROVE  LET c == m.told[k].code IN
               c \notin m.raised => ((Applied(contact'[c], none[c]).active > 0) <=> m.told[k].alive)
    <3> DEFINE c == m.told[k].code
    <3>1. m.idx <= Len(m.told) /\ m.idx \in Nat /\ m.told \in Seq([code : CustomerCodes, alive : BOOLEAN])
      BY DEF LoadIsSound, Load
    <3>2. k \in 1 .. Len(m.told) /\ Len(m.told) <= Len(Customers) /\ m.told[k].code = Customers[k]
      BY <3>1 DEF LoadIsSound, ToldInOrder
    <3>3. c \in CustomerCodes
      BY <3>1, <3>2, ContactAssumption
    <3> HIDE DEF c
    <3>4. Applied(contact'[c], none[c]) = contact'[c]
      BY <1>3, <3>3 DEF Applied
    <3>5. contact'[c] = Applied(contact[c], m.pending[c])
      BY <1>2, <3>3
    <3>6. c \notin m.raised => ((Applied(contact[c], m.pending[c]).active > 0) <=> m.told[k].alive)
      BY <2>1 DEF c
    <3> QED
      BY <3>4, <3>5, <3>6 DEF c
  <2> QED
    BY <2>2, <2>3
<1>9. LoadIsSound(load', contact')
  BY <1>5, <1>6, <1>7, <1>8 DEF LoadIsSound
<1>10. alive' \in [CustomerCodes -> BOOLEAN]
  BY LoadTypes
<1> QED
  BY <1>2, <1>5, <1>9, <1>10 DEF ContactIInv, ContactTypeOK

\* The import ends.
LEMMA EndLoadKeeps ==
    ASSUME ContactIInv, EndLoad
    PROVE  /\ ContactIInv'
           /\ \A c \in CustomerCodes : contact'[c] = Applied(contact[c], load.pending[c])
           /\ load.idx = Len(load.told) /\ LoadIsSound(load, contact)
<1> DEFINE none == [c \in CustomerCodes |-> "nothing"]
<1>1. /\ load.pc = "contacts" /\ load.idx = Len(load.told) /\ alive' = alive
      /\ contact' = [c \in CustomerCodes |-> Applied(contact[c], load.pending[c])]
      /\ \A c \in CustomerCodes : Bounded(contact'[c])
      /\ load' = [NoLoad EXCEPT !.seen = contact', !.pending = none, !.moved = {}]
  BY DEF EndLoad, CommitLoad, NoLoad
<1>2. LoadIsSound(load, contact) /\ load \in Load
  BY <1>1, LoadTypes DEF ContactIInv
<1>3. /\ contact' \in [CustomerCodes -> Contact]
      /\ \A c \in CustomerCodes : contact'[c] = Applied(contact[c], load.pending[c])
  BY <1>1, <1>2, CommitLeaves, LoadTypes DEF LoadIsSound
<1>4. none \in [CustomerCodes -> Dids]
  BY DEF Dids
<1> HIDE DEF none
<1>5. load' \in Load /\ load'.pc = "idle"
  BY <1>1, <1>3, <1>4, NoLoadType DEF Load, Dids
<1> QED
  BY <1>1, <1>2, <1>3, <1>5, LoadTypes DEF ContactIInv, ContactTypeOK

\* A contact is done.
LEMMA ContactedKeeps ==
    ASSUME ContactIInv, Contacted
    PROVE  ContactIInv'
<1> DEFINE k == load.idx + 1
           c == load.told[k].code
           is == load.told[k].alive
           did == Upsert(load.seen[c], is)
           n == [load EXCEPT !.idx = @ + 1, !.pending[c] = did]
<1>1. /\ load.pc = "contacts" /\ load.idx < Len(load.told)
      /\ did \in {"written", "archived"} => c \notin load.moved
      /\ (load' = n /\ contact' = contact) \/ CommitLoad(n, n)
      /\ alive' = alive
  BY DEF Contacted
<1>2. load \in Load /\ c \in CustomerCodes /\ is \in BOOLEAN /\ k \in Nat /\ k <= Len(load.told)
      /\ contact \in [CustomerCodes -> Contact]
  BY <1>1, LoadTypes
<1>3. LoadIsSound(load, contact)
  BY <1>1 DEF ContactIInv
<1>4. load.seen[c] \in Contact /\ load.seen \in [CustomerCodes -> Contact]
  BY <1>2 DEF Load
<1> DEFINE r == load.seen[c]
<1>5. /\ did \in Dids
      /\ did \in {"written", "archived"} <=> r.active > 0
      /\ did = "made" => r.active = 0
      /\ r.active <= 1 => ((Applied(r, did).active > 0) <=> is)
  <2> HIDE DEF r, is, c
  <2> SUFFICES /\ Upsert(r, is) \in Dids
               /\ Upsert(r, is) \in {"written", "archived"} <=> r.active > 0
               /\ Upsert(r, is) = "made" => r.active = 0
               /\ r.active <= 1 => ((Applied(r, Upsert(r, is)).active > 0) <=> is)
    BY DEF r
  <2>1. r \in Contact
    BY <1>4 DEF r
  <2> QED
    BY <1>2, <2>1, UpsertIs
<1>6. load.told[k] = [code |-> c, alive |-> is]
  BY <1>2, LoadTypes
<1> DEFINE pending == [load.pending EXCEPT ![c] = did]
<1>7. n = [load EXCEPT !.idx = k, !.pending = pending]
  OBVIOUS
<1> HIDE DEF n, did, is, r
<1>8. /\ pending \in [CustomerCodes -> Dids] /\ pending[c] = did
      /\ \A b \in CustomerCodes \ {c} : pending[b] = load.pending[b]
  BY <1>2, <1>5 DEF Load, Dids
<1> HIDE DEF pending
<1>9. /\ n \in Load /\ n.idx = k /\ n.pending = pending
      /\ n.pc = "contacts" /\ n.told = load.told /\ n.seen = load.seen
      /\ n.moved = load.moved /\ n.raised = load.raised /\ n.alone = load.alone
  BY <1>1, <1>2, <1>7, <1>8 DEF Load, Dids
<1>10. SeenStays(n, contact)
  <2> SUFFICES ASSUME NEW b \in CustomerCodes
               PROVE  /\ b \notin n.moved => n.seen[b].active <= contact[b].active
                      /\ n.pending[b] = "archived" => contact[b].active > 0
    BY DEF SeenStays
  <2>1. /\ b \notin load.moved => load.seen[b].active <= contact[b].active
        /\ load.pending[b] = "archived" => contact[b].active > 0
    BY <1>3 DEF LoadIsSound, SeenStays
  <2>2. contact[b].active \in Nat /\ load.seen[b].active \in Nat
    BY <1>2, <1>4, ContactAssumption DEF Contact
  <2>3. CASE b = c
    BY <1>1, <1>5, <1>8, <1>9, <2>1, <2>2, <2>3 DEF r
  <2>4. CASE b # c
    BY <1>8, <1>9, <2>1, <2>4
  <2> QED
    BY <2>3, <2>4
<1>11. AloneIsExact(n, contact)
  <2> SUFFICES ASSUME load.alone
               PROVE  /\ n.seen = contact
                      /\ \A b \in CustomerCodes : /\ contact[b].active <= 1
                                                  /\ pending[b] = "made" => contact[b].active = 0
                      /\ \A i \in 1 .. k :
                            LET b == load.told[i].code IN
                            b \notin load.raised
                               => ((Applied(contact[b], pending[b]).active > 0) <=> load.told[i].alive)
    BY <1>9 DEF AloneIsExact
  <2>1. /\ load.seen = contact
        /\ \A b \in CustomerCodes : /\ contact[b].active <= 1
                                    /\ load.pending[b] = "made" => contact[b].active = 0
        /\ \A i \in 1 .. load.idx :
              LET b == load.told[i].code IN
              b \notin load.raised
                 => ((Applied(contact[b], load.pending[b]).active > 0) <=> load.told[i].alive)
    BY <1>3 DEF LoadIsSound, AloneIsExact
  <2>2. r = contact[c]
    BY <2>1 DEF r
  <2>3. ASSUME NEW b \in CustomerCodes PROVE pending[b] = "made" => contact[b].active = 0
    BY <1>5, <1>8, <2>1, <2>2
  <2>4. ASSUME NEW i \in 1 .. k, load.told[i].code \notin load.raised
        PROVE  (Applied(contact[load.told[i].code], pending[load.told[i].code]).active > 0)
                  <=> load.told[i].alive
    <3>1. CASE i = k
      BY <1>2, <1>5, <1>8, <2>1, <2>2, <3>1 DEF c, is
    <3>2. CASE i # k
      <4>1. i \in 1 .. load.idx /\ i \in 1 .. Len(load.told)
        BY <1>2, <3>2, LoadTypes
      <4>2. load.told[i].code = Customers[i] /\ c = Customers[k] /\ Len(load.told) <= Len(Customers)
        BY <1>2, <1>3, <4>1 DEF LoadIsSound, ToldInOrder
      <4>3. load.told[i].code # c
        BY <1>2, <3>2, <4>1, <4>2, ContactAssumption, LoadTypes DEF IsInjective
      <4> HIDE DEF c
      <4>4. pending[load.told[i].code] = load.pending[load.told[i].code]
        BY <1>8, <4>1, <4>3, LoadTypes
      <4> QED
        BY <2>1, <2>4, <4>1, <4>4
    <3> QED
      BY <3>1, <3>2
  <2> QED
    BY <1>9, <2>1, <2>3, <2>4
<1>12. LoadIsSound(n, contact)
  BY <1>2, <1>3, <1>9, <1>10, <1>11 DEF LoadIsSound, ToldInOrder
<1>13. CASE load' = n /\ contact' = contact
  BY <1>1, <1>2, <1>9, <1>12, <1>13, LoadTypes DEF ContactIInv, ContactTypeOK
<1>14. CASE CommitLoad(n, n)
  BY <1>1, <1>9, <1>12, <1>14, CommitKeeps
<1> QED
  BY <1>1, <1>13, <1>14

\* Another import commits a contact.
LEMMA OtherKeeps ==
    ASSUME ContactIInv, NEW c \in CustomerCodes, Other(c)
    PROVE  ContactIInv'
<1>1. PICK r \in {contact[c], load.seen[c]}, is \in BOOLEAN :
         /\ Upsert(r, is) \in {"written", "archived"} =>
               load.pending[c] \notin {"written", "archived"} /\ contact[c].active > 0
         /\ contact' = [contact EXCEPT ![c] = Applied(@, Upsert(r, is))]
         /\ load' = IF load.pc = "idle" THEN load
                    ELSE [load EXCEPT !.alone = FALSE,
                             !.moved = IF Upsert(r, is) \in {"written", "archived"} THEN @ \cup {c} ELSE @]
  BY DEF Other
<1>2. Bounded(contact'[c]) /\ alive' = alive
  BY DEF Other
<1>3. /\ load \in Load /\ contact \in [CustomerCodes -> Contact] /\ contact[c] \in Contact
      /\ load.seen[c] \in Contact /\ alive \in [CustomerCodes -> BOOLEAN]
  BY LoadTypes DEF Load
<1> DEFINE did == Upsert(r, is)
           now == Applied(contact[c], did)
<1>4. did \in Dids
  BY <1>1, <1>3, UpsertIs
<1>5. PICK moved : moved = IF did \in {"written", "archived"} THEN load.moved \cup {c} ELSE load.moved
  OBVIOUS
<1>6. PICK f \in BOOLEAN : f = FALSE
  OBVIOUS
<1>7. load.pc # "idle" => load' = [load EXCEPT !.alone = f, !.moved = moved]
  BY <1>1, <1>5, <1>6, Zenon
<1>8. /\ did \in {"written", "archived"} =>
            load.pending[c] \notin {"written", "archived"} /\ contact[c].active > 0
      /\ contact' = [contact EXCEPT ![c] = now]
      /\ load.pc = "idle" => load' = load
  BY <1>1
<1> HIDE DEF did, now
<1>9. now \in Contact
  BY <1>2, <1>3, <1>4, <1>8, AppliedType DEF now
<1>10. contact' \in [CustomerCodes -> Contact] /\ contact'[c] = now
       /\ \A b \in CustomerCodes \ {c} : contact'[b] = contact[b]
  BY <1>3, <1>8, <1>9
<1>11. CASE load.pc = "idle"
  BY <1>2, <1>3, <1>8, <1>10, <1>11 DEF ContactIInv, ContactTypeOK
<1>12. CASE load.pc # "idle"
  <2>1. LoadIsSound(load, contact)
    BY <1>12 DEF ContactIInv
  <2>2. moved \subseteq CustomerCodes
    BY <1>3, <1>5 DEF Load
  <2>3. /\ load' \in Load /\ load'.pc = load.pc /\ load'.moved = moved
        /\ load'.told = load.told /\ load'.idx = load.idx /\ load'.seen = load.seen
        /\ load'.pending = load.pending /\ load'.raised = load.raised
    <3>1. load' = [load EXCEPT !.alone = f, !.moved = moved]
      BY <1>7, <1>12
    <3>2. load' \in Load
      BY <1>3, <2>2, <3>1 DEF Load
    <3>3. load'.pc = load.pc /\ load'.moved = moved /\ load'.told = load.told
      BY <1>3, <3>1 DEF Load
    <3>4. load'.idx = load.idx /\ load'.seen = load.seen
      BY <1>3, <3>1 DEF Load
    <3>5. load'.pending = load.pending /\ load'.raised = load.raised
      BY <1>3, <3>1 DEF Load
    <3> QED
      BY <3>2, <3>3, <3>4, <3>5
  <2>4. load'.alone = f
    BY <1>3, <1>7, <1>12 DEF Load
  <2>5. SeenStays(load', contact')
    <3> SUFFICES ASSUME NEW b \in CustomerCodes
                 PROVE  /\ b \notin moved => load.seen[b].active <= contact'[b].active
                        /\ load.pending[b] = "archived" => contact'[b].active > 0
      BY <2>3 DEF SeenStays
    <3>1. /\ b \notin load.moved => load.seen[b].active <= contact[b].active
          /\ load.pending[b] = "archived" => contact[b].active > 0
      BY <2>1 DEF LoadIsSound, SeenStays
    <3>2. CASE b # c
      BY <1>5, <1>10, <3>1, <3>2
    <3>3. CASE b = c
      <4>1. contact[c].active \in Nat /\ load.seen[c].active \in Nat
        BY <1>3, ContactAssumption DEF Contact
      <4>2. CASE did \in {"written", "archived"}
        BY <1>5, <1>8, <3>3, <4>2
      <4>3. CASE did \notin {"written", "archived"}
        <5>1. now.active >= contact[c].active /\ now.active \in Nat
          BY <1>3, <1>4, <4>1, <4>3, AppliedIs DEF now, Dids
        <5> QED
          BY <1>5, <1>10, <3>1, <3>3, <4>1, <4>3, <5>1
      <4> QED
        BY <4>2, <4>3
    <3> QED
      BY <3>2, <3>3
  <2>6. LoadIsSound(load', contact')
    BY <1>6, <2>1, <2>3, <2>4, <2>5 DEF LoadIsSound, ToldInOrder, AloneIsExact
  <2> QED
    BY <1>2, <1>3, <1>10, <2>3, <2>6 DEF ContactIInv, ContactTypeOK
<1> QED
  BY <1>11, <1>12

LEMMA ContactFirst == ContactInit => ContactIInv
<1>1. [active |-> 0, archived |-> 0] \in Contact
  BY ContactAssumption DEF Contact
<1> QED
  BY <1>1, NoLoadType DEF ContactInit, ContactIInv, ContactTypeOK

\* Every step of the import, of the other one and of X3 keeps the invariant.
LEMMA ContactIsKept == ContactIInv /\ [ContactNext]_contactVars => ContactIInv'
<1> SUFFICES ASSUME ContactIInv, [ContactNext]_contactVars PROVE ContactIInv'
  OBVIOUS
<1>1. CASE UNCHANGED contactVars
  BY <1>1 DEF contactVars, ContactIInv, ContactTypeOK
<1>2. CASE \E c \in CustomerCodes : Change(c) \/ Other(c)
  BY <1>2, ChangeKeeps, OtherKeeps
<1>3. CASE BeginLoad \/ Fetch \/ StartContacts \/ Break
  BY <1>3, BeginLoadKeeps, FetchKeeps, StartContactsKeeps, BreakKeeps
<1>4. CASE Contacted \/ Raise \/ EndLoad
  BY <1>4, ContactedKeeps, RaiseKeeps, EndLoadKeeps
<1> QED
  BY <1>1, <1>2, <1>3, <1>4 DEF ContactNext

EndsAsTold ==
    EndLoad /\ load.alone =>
       \A i \in 1 .. Len(load.told) :
          LET said == load.told[i] IN
          said.code \notin load.raised => (contact'[said.code].active > 0) = said.alive

\* What an import that ends alone leaves.
LEMMA EndIsAsTold == ContactIInv => EndsAsTold
<1> SUFFICES ASSUME ContactIInv, EndLoad, load.alone, NEW i \in 1 .. Len(load.told),
                    load.told[i].code \notin load.raised
             PROVE  (contact'[load.told[i].code].active > 0) = load.told[i].alive
  BY DEF EndsAsTold
<1> DEFINE c == load.told[i].code
<1>1. /\ load.idx = Len(load.told) /\ LoadIsSound(load, contact)
      /\ \A b \in CustomerCodes : contact'[b] = Applied(contact[b], load.pending[b])
  BY EndLoadKeeps
<1>2. c \in CustomerCodes /\ load.told[i].alive \in BOOLEAN
  BY LoadTypes
<1>3. (Applied(contact[c], load.pending[c]).active > 0) <=> load.told[i].alive
  BY <1>1 DEF LoadIsSound, AloneIsExact
<1>4. (contact'[c].active > 0) <=> load.told[i].alive
  BY <1>1, <1>2, <1>3
<1>5. PICK m \in BOOLEAN : m <=> (contact'[c].active > 0)
  OBVIOUS
<1>6. m = (contact'[c].active > 0)
  BY <1>5
<1>7. m = load.told[i].alive
  BY <1>2, <1>4, <1>5
<1> QED
  BY <1>6, <1>7, Zenon

\* An import that ran alone leaves every contact that it was told of and that did not raise
\* as X3 said (create_contact_sage.py), for any codes, any step of the commits and any number
\* of contacts; and its counts stay within their types.
THEOREM ContactsAreRight == ContactSpec => []ContactTypeOK /\ ContactsAreAsTold
<1>1. ContactSpec => []ContactIInv
  BY ContactFirst, ContactIsKept, PTL DEF ContactSpec
<1>2. ContactIInv => ContactTypeOK
  BY DEF ContactIInv
<1>3. ContactIInv /\ [ContactNext]_contactVars => [EndsAsTold]_contactVars
  BY EndIsAsTold
<1> QED
  BY <1>1, <1>2, <1>3, PTL DEF ContactSpec, ContactsAreAsTold, EndsAsTold

-----------------------------------------------------------------------------
(* Products of SAGE X3.                                                    *)

\* The last position of the items of the first p pages.
Through(p, cat) == IF p * PageSize < Len(cat) THEN p * PageSize ELSE Len(cat)

\* An import has dealt with the first n items: each is ignored, in the open transaction
\* or stored as X3 told it.
DoneTo(m, n, cat, of) ==
    \A k \in 1 .. Len(cat) :
        k <= n => \/ cat[k] \in Ignored
                  \/ m.pending[cat[k]] # 0
                  \/ of[cat[k]] >= m.due[cat[k]]

\* What was told at the beginning is of items there are, and no more than X3 says now;
\* what was written is no less.
DueIsTold(m, cat, ver) ==
    \A i \in Items : /\ m.due[i] <= ver[i]
                     /\ m.due[i] # 0 => i \in Range(cat)
                     /\ m.pending[i] # 0 => m.pending[i] >= m.due[i]

\* A page that is being read: its rest is what follows the items that are dealt with.
PageIsRead(m, cat, of) ==
    /\ m.more <=> m.page * PageSize < Len(cat)
    /\ Len(m.todo) <= Through(m.page, cat)
    /\ \A n \in 1 .. Len(m.todo) :
          /\ m.todo[n] = cat[(Through(m.page, cat) - Len(m.todo)) + n]
          /\ m.answer[m.todo[n]] >= m.due[m.todo[n]]
    /\ DoneTo(m, Through(m.page, cat) - Len(m.todo), cat, of)

\* An import that is clean has left no item out.
NothingLeftOut(m, cat, ver, of) ==
    /\ ~m.poisoned
    /\ DueIsTold(m, cat, ver)
    /\ m.pc = "ask" => /\ (m.page - 1) * PageSize <= Len(cat)
                       /\ DoneTo(m, (m.page - 1) * PageSize, cat, of)
    /\ m.pc = "items" => PageIsRead(m, cat, of)
    /\ m.pc = "end" => DoneTo(m, Len(cat), cat, of)

\* An import, over a catalogue and the products stored.
ImportIsSound(m, cat, ver, of) ==
    /\ m \in Import /\ m.page > 0
    /\ m.pc = "items" => m.todo # <<>>
    /\ m.pc # "idle" /\ m.clean => NothingLeftOut(m, cat, ver, of)

\* The inductive invariant of the import of products.
ProductIInv ==
    /\ ProductTypeOK
    /\ \A j \in Imports : ImportIsSound(import[j], catalogue, version, stored)

\* The types of the state.
LEMMA ProductTypes ==
    ASSUME ProductIInv
    PROVE  /\ catalogue \in Seq(Items) /\ Len(catalogue) \in Nat
           /\ version \in [Items -> Version] /\ stored \in [Items -> Version]
           /\ import \in [Imports -> Import]
           /\ \A j \in Imports : ImportIsSound(import[j], catalogue, version, stored)
BY DEF ProductIInv, ProductTypeOK

\* Versions are numbers, and 0 is one.
LEMMA Versions == /\ Version \subseteq Nat /\ 0 \in Version
                  /\ PageSize \in Nat \ {0} /\ CommitStep \in Nat \ {0} /\ MaxPages \in Nat
                  /\ Nothing \in [Items -> Version] /\ \A i \in Items : Nothing[i] = 0
BY ProductAssumption DEF Version, Nothing

\* The fields of an import.
LEMMA ImportFields ==
    ASSUME NEW m \in Import
    PROVE  /\ m.pc \in {"idle", "ask", "items", "end"} /\ m.page \in Nat /\ m.idx \in 0 .. CommitStep - 1
           /\ m.todo \in Seq(Items) /\ m.answer \in [Items -> Version]
           /\ m.pending \in [Items -> Version] /\ m.due \in [Items -> Version]
           /\ m.moved \subseteq Items /\ m.taxes \in {"none", "open", "stored", "undone"}
           /\ m.missed \in Nat /\ Len(m.todo) \in Nat
<1>1. /\ m.pc \in {"idle", "ask", "items", "end"} /\ m.page \in Nat /\ m.idx \in 0 .. CommitStep - 1
      /\ m.todo \in Seq(Items) /\ m.answer \in [Items -> Version]
  BY DEF Import
<1>2. /\ m.pending \in [Items -> Version] /\ m.due \in [Items -> Version]
      /\ m.moved \subseteq Items /\ m.taxes \in {"none", "open", "stored", "undone"}
      /\ m.missed \in Nat
  BY DEF Import
<1> QED
  BY <1>1, <1>2

\* The end of a page, in numbers.
LEMMA ThroughIs ==
    ASSUME NEW cat \in Seq(Items), NEW p \in Nat, p > 0
    PROVE  /\ (p - 1) * PageSize \in Nat /\ p * PageSize \in Nat
           /\ p * PageSize = (p - 1) * PageSize + PageSize
           /\ Through(p, cat) \in Nat /\ Through(p, cat) <= Len(cat)
           /\ p * PageSize < Len(cat) => Through(p, cat) = p * PageSize
           /\ ~(p * PageSize < Len(cat)) => Through(p, cat) = Len(cat)
           /\ (p - 1) * PageSize <= Len(cat) => (p - 1) * PageSize <= Through(p, cat)
<1>1. PageSize \in Nat /\ PageSize > 0 /\ Len(cat) \in Nat
  BY Versions
<1> DEFINE a == (p - 1) * PageSize
           b == p * PageSize
<1>2. a \in Nat /\ b \in Nat
  BY <1>1
<1>3. b = a + PageSize
  BY <1>1
<1> HIDE DEF a, b
<1>4. Through(p, cat) = IF b < Len(cat) THEN b ELSE Len(cat)
  BY DEF Through, b
<1>5. /\ Through(p, cat) \in Nat /\ Through(p, cat) <= Len(cat)
      /\ b < Len(cat) => Through(p, cat) = b
      /\ ~(b < Len(cat)) => Through(p, cat) = Len(cat)
      /\ a <= Len(cat) => a <= Through(p, cat)
  BY <1>1, <1>2, <1>3, <1>4
<1> QED
  BY <1>2, <1>3, <1>5 DEF a, b

\* What an import is once it goes on after an item or a page.
LEMMA OnwardIs ==
    ASSUME NEW m \in Import, m.page > 0, m.pc = "items"
    PROVE  /\ Onward(m) \in Import
           /\ Onward(m).pending = m.pending /\ Onward(m).due = m.due /\ Onward(m).poisoned = m.poisoned
           /\ Onward(m).taxes = m.taxes
           /\ m.todo # <<>> => Onward(m) = m
           /\ m.todo = <<>> /\ m.more /\ m.page < MaxPages =>
                 Onward(m).pc = "ask" /\ Onward(m).page = m.page + 1 /\ Onward(m).clean = m.clean
           /\ m.todo = <<>> /\ ~(m.more /\ m.page < MaxPages) =>
                 Onward(m).pc = "end" /\ Onward(m).page = m.page /\ (Onward(m).clean => m.clean /\ ~m.more)
<1>1. CASE m.todo # <<>>
  BY <1>1 DEF Onward
<1>2. CASE m.todo = <<>> /\ m.more /\ m.page < MaxPages
  <2>1. Onward(m) = [m EXCEPT !.pc = "ask", !.page = @ + 1, !.answer = Nothing]
    BY <1>2 DEF Onward
  <2>2. Onward(m) \in Import
    <3>1. PICK p \in Nat : p = m.page + 1
      BY ImportFields
    <3>2. Onward(m) = [m EXCEPT !.pc = "ask", !.page = p, !.answer = Nothing]
      BY <2>1, <3>1
    <3> QED
      BY <3>2, Versions DEF Import
  <2>3. Onward(m).pc = "ask" /\ Onward(m).page = m.page + 1
    BY <2>1 DEF Import
  <2>4. Onward(m).pending = m.pending /\ Onward(m).due = m.due
    BY <2>1 DEF Import
  <2>5. Onward(m).poisoned = m.poisoned
    BY <2>1 DEF Import
  <2>6. Onward(m).taxes = m.taxes
    BY <2>1 DEF Import
  <2>7. Onward(m).clean = m.clean
    BY <2>1 DEF Import
  <2> QED
    BY <1>2, <2>2, <2>3, <2>4, <2>5, <2>6, <2>7
<1>3. CASE m.todo = <<>> /\ ~(m.more /\ m.page < MaxPages)
  <2>1. PICK f \in BOOLEAN : f <=> (m.clean /\ ~m.more)
    OBVIOUS
  <2>2. f = (m.clean /\ ~m.more)
    BY <2>1
  <2>3. Onward(m) = [m EXCEPT !.pc = "end", !.clean = m.clean /\ ~m.more, !.answer = Nothing]
    BY <1>3, Zenon DEF Onward
  <2>4. Onward(m) = [m EXCEPT !.pc = "end", !.clean = f, !.answer = Nothing]
    BY <2>2, <2>3, Zenon
  <2>5. Onward(m) \in Import
    BY <2>4, Versions DEF Import
  <2>6. Onward(m).pc = "end" /\ Onward(m).page = m.page
    BY <2>4 DEF Import
  <2>7. Onward(m).pending = m.pending /\ Onward(m).due = m.due
    BY <2>4 DEF Import
  <2>8. Onward(m).poisoned = m.poisoned
    BY <2>4 DEF Import
  <2>9. Onward(m).taxes = m.taxes
    BY <2>4 DEF Import
  <2>10. Onward(m).clean = f
    BY <2>4 DEF Import
  <2> QED
    BY <1>3, <2>1, <2>5, <2>6, <2>7, <2>8, <2>9, <2>10
<1> QED
  BY <1>1, <1>2, <1>3

\* An import that has read a page soundly, or an item of it, is sound once it goes on.
LEMMA OnwardIsSound ==
    ASSUME NEW m \in Import, m.page > 0, m.pc = "items", NEW cat \in Seq(Items), NEW ver, NEW of,
           m.clean => ~m.poisoned /\ DueIsTold(m, cat, ver) /\ PageIsRead(m, cat, of)
    PROVE  ImportIsSound(Onward(m), cat, ver, of)
<1> DEFINE n == Onward(m)
<1>1. /\ n \in Import
      /\ n.pending = m.pending /\ n.due = m.due /\ n.poisoned = m.poisoned
      /\ m.todo # <<>> => n = m
      /\ m.todo = <<>> /\ m.more /\ m.page < MaxPages =>
            n.pc = "ask" /\ n.page = m.page + 1 /\ n.clean = m.clean
      /\ m.todo = <<>> /\ ~(m.more /\ m.page < MaxPages) =>
            n.pc = "end" /\ n.page = m.page /\ (n.clean => m.clean /\ ~m.more)
  BY OnwardIs
<1> HIDE DEF n
<1>2. m.page \in Nat /\ m.todo \in Seq(Items) /\ Len(m.todo) \in Nat /\ Len(cat) \in Nat
  BY ImportFields
<1>3. CASE m.todo # <<>>
  BY <1>1, <1>3 DEF ImportIsSound, NothingLeftOut, n
<1>4. CASE m.todo = <<>> /\ m.more /\ m.page < MaxPages
  <2>1. n.pc = "ask" /\ n.page = m.page + 1 /\ n.clean = m.clean /\ n.page > 0
    BY <1>1, <1>2, <1>4
  <2>2. ASSUME n.clean PROVE NothingLeftOut(n, cat, ver, of)
    <3>1. ~m.poisoned /\ DueIsTold(m, cat, ver) /\ PageIsRead(m, cat, of)
      BY <2>1, <2>2
    <3>2. m.page * PageSize < Len(cat) /\ DoneTo(m, Through(m.page, cat) - Len(m.todo), cat, of)
      BY <1>4, <3>1 DEF PageIsRead
    <3>3. Len(m.todo) = 0
      BY <1>4
    <3>4. (n.page - 1) * PageSize = m.page * PageSize
      BY <1>2, <2>1
    <3>5. Through(m.page, cat) = m.page * PageSize /\ m.page * PageSize \in Nat
      BY <1>2, <3>2, ThroughIs
    <3>6. DoneTo(m, m.page * PageSize, cat, of)
      BY <3>2, <3>3, <3>5
    <3>7. DoneTo(n, (n.page - 1) * PageSize, cat, of)
      BY <1>1, <3>4, <3>6 DEF DoneTo
    <3>8. (n.page - 1) * PageSize <= Len(cat)
      BY <1>2, <3>2, <3>4, <3>5
    <3>9. DueIsTold(n, cat, ver)
      BY <1>1, <3>1 DEF DueIsTold
    <3> QED
      BY <1>1, <2>1, <3>1, <3>7, <3>8, <3>9 DEF NothingLeftOut
  <2> QED
    BY <1>1, <2>1, <2>2 DEF ImportIsSound, n
<1>5. CASE m.todo = <<>> /\ ~(m.more /\ m.page < MaxPages)
  <2>1. n.pc = "end" /\ n.page = m.page /\ (n.clean => m.clean /\ ~m.more)
    BY <1>1, <1>5
  <2>2. ASSUME n.clean PROVE NothingLeftOut(n, cat, ver, of)
    <3>1. ~m.poisoned /\ DueIsTold(m, cat, ver) /\ PageIsRead(m, cat, of)
      BY <2>1, <2>2
    <3>2. ~(m.page * PageSize < Len(cat)) /\ DoneTo(m, Through(m.page, cat) - Len(m.todo), cat, of)
      BY <2>1, <2>2, <3>1 DEF PageIsRead
    <3>3. Len(m.todo) = 0
      BY <1>5
    <3>4. Through(m.page, cat) = Len(cat)
      BY <1>2, <3>2, ThroughIs
    <3>5. DoneTo(m, Len(cat), cat, of)
      BY <1>2, <3>2, <3>3, <3>4
    <3>6. DoneTo(n, Len(cat), cat, of)
      BY <1>1, <3>5 DEF DoneTo
    <3>7. DueIsTold(n, cat, ver)
      BY <1>1, <3>1 DEF DueIsTold
    <3> QED
      BY <1>1, <2>1, <3>1, <3>6, <3>7 DEF NothingLeftOut
  <2> QED
    BY <1>1, <2>1, <2>2 DEF ImportIsSound, n
<1> QED
  BY <1>3, <1>4, <1>5

\* An import that goes on soundly in its transaction leaves the others as they are.
LEMMA GoOnKeeps ==
    ASSUME ProductIInv, NEW j \in Imports, NEW m, GoOn(j, m),
           ImportIsSound(m, catalogue, version, stored), UNCHANGED <<catalogue, version>>
    PROVE  ProductIInv' /\ import'[j] = m
<1>1. /\ import' = [import EXCEPT ![j] = m] /\ stored' = stored
      /\ catalogue' = catalogue /\ version' = version
  BY DEF GoOn
<1>2. m \in Import
  BY DEF ImportIsSound
<1>3. import' \in [Imports -> Import] /\ import'[j] = m
      /\ \A k \in Imports \ {j} : import'[k] = import[k]
  BY <1>1, <1>2, ProductTypes
<1>4. \A k \in Imports : ImportIsSound(import'[k], catalogue, version, stored)
  BY <1>3, ProductTypes
<1>5. \A k \in Imports : ImportIsSound(import'[k], catalogue', version', stored')
  BY <1>1, <1>4
<1> QED
  BY <1>1, <1>3, <1>5, ProductTypes DEF ProductIInv, ProductTypeOK

\* An import at rest.
LEMMA IdleIs ==
    /\ Idle \in Import /\ Idle.pc = "idle" /\ Idle.page = 1 /\ Idle.pending = Nothing
    /\ \A cat, ver, of : ImportIsSound(Idle, cat, ver, of)
<1>1. PICK f \in BOOLEAN : f = FALSE
  OBVIOUS
<1>2. PICK t \in BOOLEAN : t = TRUE
  OBVIOUS
<1>3. PICK z \in 0 .. CommitStep - 1 : z = 0
  BY Versions
<1>4. Idle = [pc |-> "idle", page |-> 1, idx |-> z, more |-> f, todo |-> <<>>, answer |-> Nothing,
              open |-> f, pending |-> Nothing, moved |-> {}, poisoned |-> f,
              taxes |-> "none", missed |-> 0, due |-> Nothing, clean |-> t]
  BY <1>1, <1>2, <1>3, Zenon DEF Idle
<1>5. Idle \in Import
  BY <1>4, Versions DEF Import
<1>6. Idle.pc = "idle" /\ Idle.page = 1 /\ Idle.pending = Nothing
  BY <1>4
<1> QED
  BY <1>5, <1>6 DEF ImportIsSound

\* The worker is killed.
LEMMA StopKeeps ==
    ASSUME ProductIInv, NEW j \in Imports, Stop(j)
    PROVE  ProductIInv'
<1>1. GoOn(j, Idle) /\ UNCHANGED <<catalogue, version>>
  BY DEF Stop
<1>2. ImportIsSound(Idle, catalogue, version, stored)
  BY IdleIs
<1> DEFINE m == Idle
<1>3. GoOn(j, m) /\ ImportIsSound(m, catalogue, version, stored)
  BY <1>1, <1>2
<1> HIDE DEF m
<1> QED
  BY <1>1, <1>3, GoOnKeeps

\* The time is over.
LEMMA TimeOutKeeps ==
    ASSUME ProductIInv, NEW j \in Imports, TimeOut(j)
    PROVE  ProductIInv'
<1> DEFINE m == import[j]
<1>1. m \in Import /\ m.page > 0
  BY ProductTypes DEF ImportIsSound
<1>2. PICK f \in BOOLEAN : f = FALSE
  OBVIOUS
<1> DEFINE n == [m EXCEPT !.pc = "end", !.todo = <<>>, !.answer = Nothing, !.clean = f]
<1>3. GoOn(j, n) /\ UNCHANGED <<catalogue, version>>
  <2>1. n = [m EXCEPT !.pc = "end", !.todo = <<>>, !.answer = Nothing, !.clean = FALSE]
    BY <1>2, Zenon
  <2> QED
    BY <2>1, Zenon DEF TimeOut
<1> HIDE DEF m
<1>4. n \in Import
  <2>1. PICK e \in Seq(Items) : e = <<>>
    <3>1. <<>> \in Seq(Items)
      BY EmptySeq
    <3> QED
      BY <3>1, Zenon
  <2>2. n = [m EXCEPT !.pc = "end", !.todo = e, !.answer = Nothing, !.clean = f]
    BY <2>1, Zenon
  <2> QED
    BY <1>1, <2>2, Versions DEF Import
<1>5. n.pc = "end" /\ n.page = m.page
  BY <1>1 DEF Import
<1>6. n.clean = f
  BY <1>1 DEF Import
<1> HIDE DEF n
<1>7. ImportIsSound(n, catalogue, version, stored)
  BY <1>1, <1>2, <1>4, <1>5, <1>6 DEF ImportIsSound
<1> QED
  BY <1>3, <1>7, GoOnKeeps

\* X3 publishes.
LEMMA PublishKeeps ==
    ASSUME ProductIInv, NEW i \in Items, Publish(i)
    PROVE  ProductIInv'
<1>1. /\ version[i] < LastVersion /\ version' = [version EXCEPT ![i] = @ + 1]
      /\ catalogue' = catalogue /\ stored' = stored /\ import' = import
  BY DEF Publish
<1>2. version' \in [Items -> Version]
  BY <1>1, ProductTypes, ProductAssumption DEF Version
<1>3. \A k \in Items : version[k] \in Nat /\ version'[k] \in Nat /\ version[k] <= version'[k]
  <2> SUFFICES ASSUME NEW k \in Items
               PROVE  version[k] \in Nat /\ version'[k] \in Nat /\ version[k] <= version'[k]
    OBVIOUS
  <2>1. version[k] \in Nat /\ version'[k] \in Nat
    BY <1>2, ProductTypes, Versions
  <2>2. CASE k = i
    BY <1>1, <2>1, <2>2, ProductTypes
  <2>3. CASE k # i
    BY <1>1, <2>1, <2>3, ProductTypes
  <2> QED
    BY <2>1, <2>2, <2>3
<1>4. ASSUME NEW j \in Imports, import[j].pc # "idle", import[j].clean
      PROVE  NothingLeftOut(import[j], catalogue, version', stored)
  <2>1. NothingLeftOut(import[j], catalogue, version, stored)
    BY <1>4, ProductTypes DEF ImportIsSound
  <2>2. \A k \in Items : import[j].due[k] \in Nat
    BY ProductTypes, ImportFields, Versions
  <2>3. DueIsTold(import[j], catalogue, version')
    BY <1>3, <2>1, <2>2 DEF NothingLeftOut, DueIsTold
  <2> QED
    BY <2>1, <2>3 DEF NothingLeftOut
<1>5. \A j \in Imports : ImportIsSound(import'[j], catalogue', version', stored')
  BY <1>1, <1>4, ProductTypes DEF ImportIsSound
<1> QED
  BY <1>1, <1>2, <1>5, ProductTypes DEF ProductIInv, ProductTypeOK

\* An item is withdrawn: no import that runs is clean.
LEMMA WithdrawKeeps ==
    ASSUME ProductIInv, NEW n \in DOMAIN catalogue, Withdraw(n)
    PROVE  ProductIInv'
<1>1. /\ catalogue' = SubSeq(catalogue, 1, n - 1) \o SubSeq(catalogue, n + 1, Len(catalogue))
      /\ version' = version /\ stored' = stored
  BY DEF Withdraw, RemoveAt
<1>2. catalogue \in Seq(Items) /\ n \in 1 .. Len(catalogue) /\ Len(catalogue) \in Nat
  BY ProductTypes
<1>3. SubSeq(catalogue, 1, n - 1) \in Seq(Items)
  <2>1. \A i \in 1 .. n - 1 : catalogue[i] \in Items
    BY <1>2
  <2> QED
    BY <1>2, <2>1, SubSeqProperties
<1>4. SubSeq(catalogue, n + 1, Len(catalogue)) \in Seq(Items)
  <2>1. \A i \in n + 1 .. Len(catalogue) : catalogue[i] \in Items
    BY <1>2
  <2> QED
    BY <1>2, <2>1, SubSeqProperties
<1>5. catalogue' \in Seq(Items)
  BY <1>1, <1>3, <1>4, ConcatProperties
<1>6. PICK f \in BOOLEAN : f = FALSE
  OBVIOUS
<1>7. import' = [j \in Imports |-> IF j \in Running THEN [import[j] EXCEPT !.clean = f] ELSE import[j]]
  BY <1>6, Zenon DEF Withdraw
<1>8. ASSUME NEW j \in Imports
      PROVE  import'[j] \in Import /\ \A ver, of : ImportIsSound(import'[j], catalogue', ver, of)
  <2>1. import[j] \in Import /\ import[j].page > 0 /\ (import[j].pc = "items" => import[j].todo # <<>>)
    BY ProductTypes DEF ImportIsSound
  <2>2. CASE j \in Running
    <3>1. import'[j] = [import[j] EXCEPT !.clean = f]
      BY <1>7, <2>2
    <3>2. import'[j] \in Import
      BY <2>1, <3>1 DEF Import
    <3>3. import'[j].page = import[j].page /\ import'[j].pc = import[j].pc /\ import'[j].todo = import[j].todo
      BY <2>1, <3>1 DEF Import
    <3>4. import'[j].clean = f
      BY <2>1, <3>1 DEF Import
    <3> QED
      BY <1>6, <2>1, <3>2, <3>3, <3>4 DEF ImportIsSound
  <2>3. CASE j \notin Running
    <3>1. import'[j] = import[j] /\ import[j].pc = "idle"
      BY <1>7, <2>3 DEF Running
    <3> QED
      BY <2>1, <3>1 DEF ImportIsSound
  <2> QED
    BY <2>2, <2>3
<1>9. import' \in [Imports -> Import]
  BY <1>7, <1>8
<1> QED
  BY <1>1, <1>5, <1>8, <1>9, ProductTypes DEF ProductIInv, ProductTypeOK

\* An import begins.
LEMMA BeginKeepsProducts ==
    ASSUME ProductIInv, NEW j \in Imports, BeginImport(j)
    PROVE  ProductIInv'
<1> DEFINE due == Told(catalogue)
           m == [Idle EXCEPT !.pc = "ask", !.open = TRUE, !.due = due]
<1>1. GoOn(j, m) /\ UNCHANGED <<catalogue, version>>
  BY DEF BeginImport, GoOn
<1>2. /\ due \in [Items -> Version]
      /\ \A i \in Items : due[i] <= version[i] /\ (due[i] # 0 => i \in Range(catalogue))
  <2>1. \A i \in Items : due[i] = IF i \in Range(catalogue) THEN version[i] ELSE 0
    BY DEF Told
  <2>2. \A i \in Items : version[i] \in Version /\ version[i] \in Nat
    BY ProductTypes, Versions
  <2>3. \A i \in Items : due[i] <= version[i] /\ (due[i] # 0 => i \in Range(catalogue))
    BY <2>1, <2>2
  <2>4. due \in [Items -> Version]
    BY <2>2, Versions DEF Told
  <2> QED
    BY <2>3, <2>4
<1>3. PICK t \in BOOLEAN : t = TRUE
  OBVIOUS
<1>4. m = [Idle EXCEPT !.pc = "ask", !.open = t, !.due = due]
  BY <1>3, Zenon
<1> HIDE DEF m, due
<1>5. m \in Import
  BY <1>2, <1>4, IdleIs DEF Import
<1>6. m.pc = "ask" /\ m.page = 1 /\ m.due = due /\ m.pending = Nothing
  BY <1>4, IdleIs DEF Import
<1>7. ~m.poisoned
  <2>1. m.poisoned = Idle.poisoned
    BY <1>4, IdleIs DEF Import
  <2>2. ~Idle.poisoned
    BY DEF Idle
  <2> QED
    BY <2>1, <2>2
<1>8. DueIsTold(m, catalogue, version)
  BY <1>2, <1>6, Versions DEF DueIsTold
<1>9. (m.page - 1) * PageSize = 0
  BY <1>6, Versions
<1>10. (m.page - 1) * PageSize <= Len(catalogue) /\ DoneTo(m, (m.page - 1) * PageSize, catalogue, stored)
  BY <1>9, ProductTypes DEF DoneTo
<1>11. ImportIsSound(m, catalogue, version, stored)
  BY <1>5, <1>6, <1>7, <1>8, <1>10 DEF ImportIsSound, NothingLeftOut
<1> QED
  BY <1>1, <1>11, GoOnKeeps

\* The items of a page.
LEMMA PageIs ==
    ASSUME catalogue \in Seq(Items), NEW p \in Nat, p > 0
    PROVE  /\ Page(p) \in Seq(Items)
           /\ (p - 1) * PageSize <= Len(catalogue) =>
                 /\ Len(Page(p)) = Through(p, catalogue) - (p - 1) * PageSize
                 /\ \A n \in 1 .. Len(Page(p)) : Page(p)[n] = catalogue[(p - 1) * PageSize + n]
<1> DEFINE a == (p - 1) * PageSize
           h == Through(p, catalogue)
<1>1. a \in Nat /\ h \in Nat /\ h <= Len(catalogue) /\ (a <= Len(catalogue) => a <= h)
      /\ Len(catalogue) \in Nat
  BY ThroughIs
<1>2. Page(p) = SubSeq(catalogue, a + 1, h)
  BY DEF Page, Through
<1> HIDE DEF a, h
<1>3. \A i \in a + 1 .. h : catalogue[i] \in Items
  BY <1>1
<1>4. /\ SubSeq(catalogue, a + 1, h) \in Seq(Items)
      /\ Len(SubSeq(catalogue, a + 1, h)) = IF a + 1 <= h THEN h - (a + 1) + 1 ELSE 0
      /\ \A i \in 1 .. h - (a + 1) + 1 : SubSeq(catalogue, a + 1, h)[i] = catalogue[(a + 1) + i - 1]
  <2> DEFINE b == a + 1
  <2>1. b \in Int /\ h \in Int
    BY <1>1
  <2> HIDE DEF b
  <2>2. \A i \in b .. h : catalogue[i] \in Items
    BY <1>3 DEF b
  <2>3. /\ SubSeq(catalogue, b, h) \in Seq(Items)
        /\ Len(SubSeq(catalogue, b, h)) = IF b <= h THEN h - b + 1 ELSE 0
        /\ \A i \in 1 .. h - b + 1 : SubSeq(catalogue, b, h)[i] = catalogue[b + i - 1]
    BY <2>1, <2>2, SubSeqProperties
  <2> QED
    BY <2>3 DEF b
<1>5. a <= h => /\ Len(Page(p)) = h - a
                /\ \A n \in 1 .. Len(Page(p)) : Page(p)[n] = catalogue[a + n]
  BY <1>1, <1>2, <1>4
<1> QED
  BY <1>1, <1>2, <1>4, <1>5 DEF a, h

\* A page is asked for.
LEMMA AskKeeps ==
    ASSUME ProductIInv, NEW j \in Imports, Ask(j)
    PROVE  ProductIInv'
<1>1. PICK m \in Import : m = import[j]
  BY ProductTypes
<1>2. ImportIsSound(m, catalogue, version, stored) /\ m.page > 0 /\ m.page \in Nat
  BY <1>1, ProductTypes, ImportFields DEF ImportIsSound
<1>3. PICK page \in Seq(Items) : page = Page(m.page)
  BY <1>2, PageIs, ProductTypes
<1>4. PICK told \in [Items -> Version] : told = Told(page)
  BY ProductTypes, Versions DEF Told
<1>5. PICK more \in BOOLEAN : more <=> m.page * PageSize < Len(catalogue)
  OBVIOUS
<1>6. more = (m.page * PageSize < Len(catalogue))
  BY <1>5
<1>7. PICK n : n = [m EXCEPT !.pc = "items", !.todo = page, !.answer = told, !.more = more]
  OBVIOUS
<1>8. m.pc = "ask" /\ GoOn(j, Onward(n)) /\ UNCHANGED <<catalogue, version>>
  <2>1. n = [m EXCEPT !.pc = "items", !.todo = Page(m.page), !.answer = Told(Page(m.page)),
                      !.more = m.page * PageSize < Len(catalogue)]
    BY <1>3, <1>4, <1>6, <1>7, Zenon
  <2> QED
    BY <1>1, <2>1, Zenon DEF Ask
<1>9. n \in Import
  BY <1>7 DEF Import
<1>10. n.pc = "items" /\ n.page = m.page /\ n.todo = page /\ n.answer = told
  BY <1>7 DEF Import
<1>11. n.due = m.due /\ n.pending = m.pending
  BY <1>7 DEF Import
<1>12. n.more = more
  BY <1>7 DEF Import
<1>13. n.clean = m.clean /\ n.poisoned = m.poisoned
  <2>1. n.clean = m.clean
    BY <1>7 DEF Import
  <2>2. n.poisoned = m.poisoned
    BY <1>7 DEF Import
  <2> QED
    BY <2>1, <2>2
<1>14. ASSUME n.clean PROVE ~n.poisoned /\ DueIsTold(n, catalogue, version) /\ PageIsRead(n, catalogue, stored)
  <2>1. NothingLeftOut(m, catalogue, version, stored)
    BY <1>2, <1>8, <1>13, <1>14 DEF ImportIsSound
  <2>2. ~n.poisoned /\ DueIsTold(n, catalogue, version)
    BY <1>11, <1>13, <2>1 DEF NothingLeftOut, DueIsTold
  <2> DEFINE a == (m.page - 1) * PageSize
             h == Through(m.page, catalogue)
  <2>3. a <= Len(catalogue) /\ DoneTo(m, a, catalogue, stored)
    BY <1>8, <2>1 DEF NothingLeftOut
  <2>4. a \in Nat /\ h \in Nat /\ a <= h /\ h <= Len(catalogue) /\ Len(catalogue) \in Nat
    BY <1>2, <2>3, ThroughIs, ProductTypes
  <2>5. Len(page) = h - a /\ \A k \in 1 .. Len(page) : page[k] = catalogue[a + k]
    BY <1>2, <1>3, <2>3, PageIs, ProductTypes
  <2> HIDE DEF a, h
  <2>6. Len(page) \in Nat /\ h - Len(page) = a /\ Len(page) <= h
    BY <2>4, <2>5
  <2>7. DoneTo(n, h - Len(page), catalogue, stored)
    BY <1>11, <2>3, <2>6 DEF DoneTo
  <2>8. ASSUME NEW k \in 1 .. Len(page)
        PROVE  page[k] = catalogue[(h - Len(page)) + k] /\ told[page[k]] >= n.due[page[k]]
    <3>1. page[k] \in Items /\ page[k] \in Range(page)
      BY <2>6 DEF Range
    <3>2. told[page[k]] = version[page[k]]
      BY <1>4, <3>1 DEF Told
    <3>3. n.due[page[k]] <= version[page[k]]
      BY <2>2, <3>1 DEF DueIsTold
    <3>4. n.due[page[k]] \in Nat /\ version[page[k]] \in Nat
      BY <1>9, <3>1, ImportFields, ProductTypes, Versions
    <3> QED
      BY <2>5, <2>6, <3>2, <3>3, <3>4
  <2>9. PageIsRead(n, catalogue, stored)
    BY <1>5, <1>10, <1>12, <2>6, <2>7, <2>8 DEF PageIsRead, h
  <2> QED
    BY <2>2, <2>9
<1>15. n.page > 0 /\ n.pc = "items"
  BY <1>2, <1>10
<1>16. ImportIsSound(Onward(n), catalogue, version, stored)
  BY <1>9, <1>14, <1>15, OnwardIsSound, ProductTypes
<1> QED
  BY <1>8, <1>16, GoOnKeeps

\* An item is past.
LEMMA PastItemIs ==
    ASSUME NEW m \in Import, m.todo # <<>>
    PROVE  /\ PastItem(m) \in Import /\ Head(m.todo) \in Items
           /\ PastItem(m).todo = Tail(m.todo)
           /\ PastItem(m).pc = m.pc /\ PastItem(m).page = m.page /\ PastItem(m).answer = m.answer
           /\ PastItem(m).pending = m.pending /\ PastItem(m).due = m.due
           /\ PastItem(m).more = m.more /\ PastItem(m).clean = m.clean
           /\ PastItem(m).poisoned = m.poisoned /\ PastItem(m).missed = m.missed
           /\ PastItem(m).idx = IF m.idx + 1 = CommitStep THEN 0 ELSE m.idx + 1
<1>1. (m.idx + 1) % CommitStep \in 0 .. CommitStep - 1
  BY ImportFields, Versions
<1>2. Tail(m.todo) \in Seq(Items) /\ Head(m.todo) \in Items
  BY ImportFields, HeadTailProperties
<1>3. PICK t \in BOOLEAN : t = TRUE
  OBVIOUS
<1>4. PICK i \in 0 .. CommitStep - 1 : i = (m.idx + 1) % CommitStep
  BY <1>1
<1>5. PICK s \in Seq(Items) : s = Tail(m.todo)
  BY <1>2
<1>6. PICK n : n = PastItem(m)
  OBVIOUS
<1>7. n = [m EXCEPT !.idx = i, !.todo = s, !.open = t]
  BY <1>3, <1>4, <1>5, <1>6, Zenon DEF PastItem
<1>8. n \in Import
  BY <1>7 DEF Import
<1>9. n.todo = s /\ n.pc = m.pc /\ n.page = m.page
  BY <1>7 DEF Import
<1>10. n.answer = m.answer /\ n.pending = m.pending /\ n.due = m.due
  BY <1>7 DEF Import
<1>11. n.more = m.more
  BY <1>7 DEF Import
<1>12. n.clean = m.clean
  BY <1>7 DEF Import
<1>13. n.poisoned = m.poisoned
  BY <1>7 DEF Import
<1>14. n.missed = m.missed /\ n.idx = i
  BY <1>7 DEF Import
<1>15. (m.idx + 1) % CommitStep = IF m.idx + 1 = CommitStep THEN 0 ELSE m.idx + 1
  <2>1. m.idx \in 0 .. CommitStep - 1 /\ CommitStep \in Nat \ {0}
    BY ImportFields, Versions
  <2>2. CASE m.idx + 1 = CommitStep
    BY <2>1, <2>2
  <2>3. CASE m.idx + 1 # CommitStep
    BY <2>1, <2>3
  <2> QED
    BY <2>2, <2>3
<1> QED
  BY <1>2, <1>4, <1>5, <1>6, <1>8, <1>9, <1>10, <1>11, <1>12, <1>13, <1>14, <1>15

\* A batch whose commit is skipped.
LEMMA MissedIs ==
    ASSUME NEW p \in Import
    PROVE  LET n == [p EXCEPT !.missed = IF CommitsNow(p) THEN @ + CommitStep ELSE @] IN
           /\ n \in Import /\ n.pc = p.pc /\ n.page = p.page /\ n.todo = p.todo
           /\ n.answer = p.answer /\ n.pending = p.pending /\ n.due = p.due /\ n.more = p.more
           /\ n.clean = p.clean /\ n.poisoned = p.poisoned /\ n.idx = p.idx
           /\ n.missed = IF p.idx = 0 THEN p.missed + CommitStep ELSE p.missed
<1>1. PICK d \in Nat : d = IF CommitsNow(p) THEN p.missed + CommitStep ELSE p.missed
  BY ImportFields, Versions
<1>2. PICK n : n = [p EXCEPT !.missed = d]
  OBVIOUS
<1>3. n = [p EXCEPT !.missed = IF CommitsNow(p) THEN @ + CommitStep ELSE @]
  <2>1. CASE CommitsNow(p)
    BY <1>1, <1>2, <2>1
  <2>2. CASE ~CommitsNow(p)
    BY <1>1, <1>2, <2>2
  <2> QED
    BY <2>1, <2>2
<1>4. n \in Import
  BY <1>2 DEF Import
<1>5. n.pc = p.pc /\ n.page = p.page /\ n.todo = p.todo /\ n.idx = p.idx
  BY <1>2 DEF Import
<1>6. n.answer = p.answer /\ n.pending = p.pending /\ n.due = p.due
  BY <1>2 DEF Import
<1>7. n.more = p.more
  BY <1>2 DEF Import
<1>8. n.clean = p.clean
  BY <1>2 DEF Import
<1>9. n.poisoned = p.poisoned
  BY <1>2 DEF Import
<1>10. n.missed = d
  BY <1>2 DEF Import
<1> QED
  BY <1>1, <1>3, <1>4, <1>5, <1>6, <1>7, <1>8, <1>9, <1>10 DEF CommitsNow

\* A page is still read soundly once its next item is dealt with.
LEMMA ItemIsDealtWith ==
    ASSUME NEW m \in Import, m.todo # <<>>, NEW cat \in Seq(Items), NEW of, PageIsRead(m, cat, of),
           m.page > 0,
           NEW n \in Import, n.todo = Tail(m.todo), n.page = m.page, n.more = m.more,
           n.answer = m.answer, n.due = m.due,
           \A i \in Items : i # Head(m.todo) => n.pending[i] = m.pending[i],
           \/ Head(m.todo) \in Ignored
           \/ n.pending[Head(m.todo)] # 0
           \/ of[Head(m.todo)] >= m.due[Head(m.todo)]
    PROVE  PageIsRead(n, cat, of)
<1> DEFINE h == Through(m.page, cat)
           l == Len(m.todo)
<1>1. /\ m.todo \in Seq(Items) /\ m.page \in Nat /\ Len(cat) \in Nat
      /\ h \in Nat /\ h <= Len(cat)
  BY ImportFields, ThroughIs
<1>2. /\ Len(n.todo) = l - 1 /\ l \in Nat /\ l > 0 /\ Head(m.todo) = m.todo[1]
      /\ \A k \in 1 .. l - 1 : n.todo[k] = m.todo[k + 1]
  BY <1>1, HeadTailProperties
<1>3. /\ m.more <=> m.page * PageSize < Len(cat)
      /\ l <= h
      /\ \A k \in 1 .. l : m.todo[k] = cat[(h - l) + k] /\ m.answer[m.todo[k]] >= m.due[m.todo[k]]
      /\ DoneTo(m, h - l, cat, of)
  BY DEF PageIsRead
<1> DEFINE past == h - Len(n.todo)
<1>4. past = (h - l) + 1 /\ past \in Nat
  BY <1>1, <1>2, <1>3
<1>5. Head(m.todo) = cat[past]
  BY <1>2, <1>3, <1>4
<1>6. DoneTo(n, past, cat, of)
  <2> SUFFICES ASSUME NEW k \in 1 .. Len(cat), k <= past
               PROVE  \/ cat[k] \in Ignored
                      \/ n.pending[cat[k]] # 0
                      \/ of[cat[k]] >= n.due[cat[k]]
    BY DEF DoneTo
  <2>1. cat[k] \in Items
    BY <1>1
  <2>2. CASE cat[k] = Head(m.todo)
    BY <2>2
  <2>3. CASE cat[k] # Head(m.todo)
    <3>1. k # past
      BY <1>5, <2>3
    <3>2. k <= h - l
      BY <1>1, <1>2, <1>4, <3>1
    <3>3. n.pending[cat[k]] = m.pending[cat[k]]
      BY <2>1, <2>3
    <3> QED
      BY <1>3, <3>2, <3>3 DEF DoneTo
  <2> QED
    BY <2>2, <2>3
<1>7. ASSUME NEW k \in 1 .. Len(n.todo)
      PROVE  n.todo[k] = cat[past + k] /\ n.answer[n.todo[k]] >= n.due[n.todo[k]]
  <2>1. k \in 1 .. l - 1 /\ k + 1 \in 1 .. l /\ k \in Nat
    BY <1>2
  <2>2. (h - l) + (k + 1) = past + k
    <3> HIDE DEF past, h, l
    <3> QED
      BY <1>1, <1>2, <1>4, <2>1
  <2>3. n.todo[k] = m.todo[k + 1]
    BY <1>2, <2>1
  <2>4. m.todo[k + 1] = cat[(h - l) + (k + 1)] /\ m.answer[m.todo[k + 1]] >= m.due[m.todo[k + 1]]
    BY <1>3, <2>1
  <2> QED
    BY <2>2, <2>3, <2>4
<1> HIDE DEF past
<1>8. Len(n.todo) <= h
  BY <1>1, <1>2, <1>3
<1> QED
  BY <1>3, <1>6, <1>7, <1>8 DEF PageIsRead, past, h

\* One import is as another, but for the ids of its taxes and the errors it met.
Alike(n, m) ==
    /\ n \in Import /\ n.pc = m.pc /\ n.page = m.page /\ n.todo = m.todo
    /\ n.answer = m.answer /\ n.pending = m.pending /\ n.due = m.due /\ n.more = m.more
    /\ n.clean => m.clean /\ (n.poisoned <=> m.poisoned)
    /\ n.idx = m.idx /\ n.missed = m.missed

\* The ids of the taxes are read, and errors that are logged poison the transaction.
LEMMA TaxedIs ==
    ASSUME NEW m \in Import, NEW n \in Taxed(m)
    PROVE  Alike(n, m)
<1>1. PICK t \in {"none", "open", "stored", "undone"} : n = [m EXCEPT !.taxes = t]
  <2>1. PICK t \in {"open", "stored"} : n = [m EXCEPT !.taxes = IF @ = "none" THEN t ELSE @]
    BY DEF Taxed
  <2>2. CASE m.taxes = "none"
    BY <2>1, <2>2
  <2>3. CASE m.taxes # "none"
    BY <2>1, <2>3, ImportFields
  <2> QED
    BY <2>2, <2>3
<1>2. n \in Import
  BY <1>1 DEF Import
<1>3. n.pc = m.pc /\ n.page = m.page /\ n.todo = m.todo
  BY <1>1 DEF Import
<1>4. n.answer = m.answer /\ n.pending = m.pending /\ n.due = m.due
  BY <1>1 DEF Import
<1>5. n.more = m.more
  BY <1>1 DEF Import
<1>6. n.clean = m.clean
  BY <1>1 DEF Import
<1>7. n.poisoned = m.poisoned
  BY <1>1 DEF Import
<1>8. n.idx = m.idx /\ n.missed = m.missed
  BY <1>1 DEF Import
<1> QED
  BY <1>2, <1>3, <1>4, <1>5, <1>6, <1>7, <1>8 DEF Alike

\* What an item that is left out leaves of an import: its batch may have missed its commit.
LeftOut(n, m) ==
    /\ n \in Import /\ n.pc = m.pc /\ n.page = m.page /\ n.todo = Tail(m.todo)
    /\ n.answer = m.answer /\ n.pending = m.pending /\ n.due = m.due /\ n.more = m.more
    /\ n.clean => m.clean /\ (n.poisoned <=> m.poisoned)
    /\ n.idx + n.missed = m.idx + m.missed + 1

\* An item is left out.
LEMMA IgnoreIs ==
    ASSUME NEW j \in Imports, import[j] \in Import, import[j].todo # <<>>, Ignore(j)
    PROVE  \E n \in Import : LeftOut(n, import[j]) /\ GoOn(j, Onward(n))
<1>1. PICK m \in Import : m = import[j]
  OBVIOUS
<1>2. PICK p \in Import : p = PastItem(m)
  BY <1>1, PastItemIs
<1>3. PICK l : l = [p EXCEPT !.missed = IF CommitsNow(p) THEN @ + CommitStep ELSE @]
  OBVIOUS
<1>4. /\ l \in Import /\ l.pc = m.pc /\ l.page = m.page /\ l.todo = Tail(m.todo)
      /\ l.answer = m.answer /\ l.pending = m.pending /\ l.due = m.due /\ l.more = m.more
      /\ l.clean = m.clean /\ l.poisoned = m.poisoned /\ l.idx = p.idx
      /\ l.missed = IF p.idx = 0 THEN p.missed + CommitStep ELSE p.missed
      /\ p.missed = m.missed /\ p.idx = IF m.idx + 1 = CommitStep THEN 0 ELSE m.idx + 1
  BY <1>1, <1>2, <1>3, PastItemIs, MissedIs
<1>5. LeftOut(l, m)
  <2>1. m.idx \in Nat /\ m.missed \in Nat /\ CommitStep \in Nat \ {0}
    BY ImportFields, Versions
  <2>2. l.idx + l.missed = m.idx + m.missed + 1
    <3>1. CASE m.idx + 1 = CommitStep
      BY <1>4, <2>1, <3>1
    <3>2. CASE m.idx + 1 # CommitStep
      BY <1>4, <2>1, <3>2
    <3> QED
      BY <3>1, <3>2
  <2> QED
    BY <1>4, <2>2 DEF LeftOut
<1>6. PICK n \in {l} \cup (IF m.poisoned THEN {} ELSE Taxed(l)) : GoOn(j, Onward(n))
  BY <1>1, <1>2, <1>3 DEF Ignore
<1>7. n = l \/ n \in Taxed(l)
  BY <1>6
<1>8. LeftOut(n, m)
  <2>1. CASE n = l
    BY <1>5, <2>1
  <2>2. CASE n \in Taxed(l)
    <3>1. Alike(n, l)
      BY <1>4, <2>2, TaxedIs
    <3> QED
      BY <1>5, <3>1 DEF LeftOut, Alike
  <2> QED
    BY <1>7, <2>1, <2>2
<1> QED
  BY <1>1, <1>6, <1>8 DEF LeftOut

\* An item is ignored.
LEMMA IgnoreKeeps ==
    ASSUME ProductIInv, NEW j \in Imports, Ignore(j)
    PROVE  ProductIInv'
<1>1. PICK m \in Import : m = import[j]
  BY ProductTypes
<1>2. /\ ImportIsSound(m, catalogue, version, stored) /\ m.page > 0 /\ m.pc = "items"
      /\ m.todo # <<>> /\ Head(m.todo) \in Ignored
  BY <1>1, ProductTypes DEF ImportIsSound, Ignore
<1>3. PICK n \in Import : LeftOut(n, m) /\ GoOn(j, Onward(n))
  BY <1>1, <1>2, IgnoreIs
<1>4. GoOn(j, Onward(n)) /\ UNCHANGED <<catalogue, version>>
  BY <1>3 DEF Ignore
<1>5. /\ n \in Import /\ n.todo = Tail(m.todo)
      /\ n.pc = m.pc /\ n.page = m.page /\ n.answer = m.answer
      /\ n.pending = m.pending /\ n.due = m.due
      /\ n.more = m.more /\ (n.clean => m.clean /\ (n.poisoned <=> m.poisoned))
  BY <1>3 DEF LeftOut
<1>6. ASSUME n.clean PROVE ~n.poisoned /\ DueIsTold(n, catalogue, version) /\ PageIsRead(n, catalogue, stored)
  <2>1. NothingLeftOut(m, catalogue, version, stored)
    BY <1>2, <1>5, <1>6 DEF ImportIsSound
  <2>2. PageIsRead(n, catalogue, stored)
    BY <1>2, <1>5, <2>1, ItemIsDealtWith, ProductTypes DEF NothingLeftOut
  <2> QED
    BY <1>5, <1>6, <2>1, <2>2 DEF NothingLeftOut, DueIsTold
<1>7. ImportIsSound(Onward(n), catalogue, version, stored)
  <2>1. n.page > 0 /\ n.pc = "items"
    BY <1>2, <1>5
  <2> QED
    BY <1>5, <1>6, <2>1, OnwardIsSound, ProductTypes
<1> QED
  BY <1>4, <1>7, GoOnKeeps

\* An item that raises: the import goes on in a new transaction.
LEMMA FailKeeps ==
    ASSUME ProductIInv, NEW j \in Imports, Fail(j)
    PROVE  ProductIInv' /\ import'[j].pending = Nothing
<1>1. PICK m \in Import : m = import[j]
  BY ProductTypes
<1>2. /\ ImportIsSound(m, catalogue, version, stored) /\ m.page > 0 /\ m.pc = "items"
      /\ m.todo # <<>>
  BY <1>1, ProductTypes DEF ImportIsSound, Fail
<1>3. PICK p : p = PastItem(m)
  OBVIOUS
<1>4. p \in Import /\ p.pc = m.pc /\ p.page = m.page
  BY <1>2, <1>3, PastItemIs
<1>5. PICK f \in BOOLEAN : f = FALSE
  OBVIOUS
<1>6. PICK t : t = NewTransaction(p)
  OBVIOUS
<1>6a. PICK z \in Nat : z = 0
  OBVIOUS
<1>7. t = [p EXCEPT !.open = f, !.pending = Nothing, !.moved = {}, !.poisoned = f, !.missed = z]
  BY <1>5, <1>6, <1>6a, Zenon DEF NewTransaction
<1>8. t \in Import /\ t.pc = p.pc /\ t.page = p.page /\ t.pending = Nothing
  BY <1>4, <1>7, Versions DEF Import
<1>9. t.poisoned = f
  BY <1>4, <1>7 DEF Import
<1>10. PICK n : n = [t EXCEPT !.taxes = "none", !.clean = f]
  OBVIOUS
<1>11. GoOn(j, Onward(n)) /\ UNCHANGED <<catalogue, version>>
  <2>1. n = [Undone(p) EXCEPT !.clean = FALSE]
    <3>1. Undone(p) = [t EXCEPT !.taxes = "none"]
      BY <1>6 DEF Undone
    <3> QED
      BY <1>5, <1>8, <1>10, <3>1 DEF Import
  <2> QED
    BY <1>1, <1>3, <2>1, Zenon DEF Fail
<1>12. n \in Import /\ n.pc = t.pc /\ n.page = t.page /\ n.pending = t.pending
  BY <1>8, <1>10 DEF Import
<1>13. n.clean = f
  BY <1>8, <1>10 DEF Import
<1>14. n.poisoned = t.poisoned
  BY <1>8, <1>10 DEF Import
<1>15. n.page > 0 /\ n.pc = "items" /\ ~n.clean /\ ~n.poisoned
  BY <1>2, <1>4, <1>5, <1>8, <1>9, <1>12, <1>13, <1>14
<1>16. ImportIsSound(Onward(n), catalogue, version, stored)
  BY <1>12, <1>15, OnwardIsSound, ProductTypes
<1>17. Onward(n).pending = n.pending
  BY <1>12, <1>15, OnwardIs
<1>18. ProductIInv' /\ import'[j] = Onward(n)
  BY <1>11, <1>16, GoOnKeeps
<1> QED
  BY <1>8, <1>12, <1>17, <1>18

\* What a commit keeps.
Kept(m) == IF m.poisoned THEN {} ELSE Written(m)

\* The products that a commit leaves.
LEMMA CommitStores ==
    ASSUME ProductIInv, NEW j \in Imports, NEW m \in Import, NEW n, CommitAs(j, m, n)
    PROVE  /\ stored' \in [Items -> Version]
           /\ \A i \in Items : stored'[i] = IF i \in Kept(m) THEN m.pending[i] ELSE stored[i]
           /\ Kept(m) \subseteq Items
           /\ Kept(m) = {} => stored' = stored
<1>1. stored' = [i \in Items |-> IF i \in Kept(m) THEN m.pending[i] ELSE stored[i]]
  BY DEF CommitAs, Kept
<1>2. m.pending \in [Items -> Version] /\ stored \in [Items -> Version]
  BY ProductTypes, ImportFields
<1>3. Kept(m) \subseteq Items
  BY DEF Kept, Written
<1> QED
  BY <1>1, <1>2, <1>3

\* The import that commits goes on in a new transaction.
LEMMA NewTransactionIs ==
    ASSUME NEW n \in Import, NEW kept \in BOOLEAN
    PROVE  LET x == [NewTransaction(n) EXCEPT !.taxes = Ended(n.taxes, kept)] IN
           /\ x \in Import /\ x.pc = n.pc /\ x.page = n.page /\ x.todo = n.todo
           /\ x.answer = n.answer /\ x.due = n.due /\ x.pending = Nothing
           /\ x.more = n.more /\ x.clean = n.clean /\ ~x.poisoned
<1>1. PICK f \in BOOLEAN : f = FALSE
  OBVIOUS
<1>2. PICK t : t = NewTransaction(n)
  OBVIOUS
<1>2a. PICK z \in Nat : z = 0
  OBVIOUS
<1>3. t = [n EXCEPT !.open = f, !.pending = Nothing, !.moved = {}, !.poisoned = f, !.missed = z]
  BY <1>1, <1>2, <1>2a, Zenon DEF NewTransaction
<1>4. t \in Import
  BY <1>3, Versions DEF Import
<1>5. t.pc = n.pc /\ t.page = n.page /\ t.todo = n.todo /\ t.answer = n.answer
  BY <1>3 DEF Import
<1>6. t.due = n.due /\ t.pending = Nothing
  BY <1>3 DEF Import
<1>7. t.more = n.more
  BY <1>3 DEF Import
<1>8. t.clean = n.clean
  BY <1>3 DEF Import
<1>9. t.poisoned = f
  BY <1>3 DEF Import
<1>10. PICK e \in {"none", "open", "stored", "undone"} : e = Ended(n.taxes, kept)
  BY ImportFields DEF Ended
<1>11. PICK x : x = [t EXCEPT !.taxes = e]
  OBVIOUS
<1>12. x = [NewTransaction(n) EXCEPT !.taxes = Ended(n.taxes, kept)]
  BY <1>2, <1>10, <1>11
<1>13. x \in Import
  BY <1>4, <1>11 DEF Import
<1>14. x.pc = t.pc /\ x.page = t.page /\ x.todo = t.todo /\ x.answer = t.answer
  BY <1>4, <1>11 DEF Import
<1>15. x.due = t.due /\ x.pending = t.pending
  BY <1>4, <1>11 DEF Import
<1>16. x.more = t.more
  BY <1>4, <1>11 DEF Import
<1>17. x.clean = t.clean
  BY <1>4, <1>11 DEF Import
<1>18. x.poisoned = t.poisoned
  BY <1>4, <1>11 DEF Import
<1>19. /\ x \in Import /\ x.pc = n.pc /\ x.page = n.page /\ x.todo = n.todo
       /\ x.answer = n.answer /\ x.due = n.due /\ x.pending = Nothing
       /\ x.more = n.more /\ x.clean = n.clean /\ ~x.poisoned
  BY <1>1, <1>5, <1>6, <1>7, <1>8, <1>9, <1>13, <1>14, <1>15, <1>16, <1>17, <1>18
<1> QED
  BY <1>12, <1>19

\* What was dealt with in the transaction is stored by its commit.
LEMMA StoredIsDone ==
    ASSUME NEW n \in Import, NEW x \in Import, x.due = n.due, ~n.poisoned, NEW p \in Nat,
           NEW cat \in Seq(Items), NEW ver, DueIsTold(n, cat, ver),
           NEW of, NEW after, after \in [Items -> Version],
           \A i \in Items : after[i] = IF i \in Kept(n) THEN n.pending[i] ELSE of[i],
           DoneTo(n, p, cat, of)
    PROVE  DoneTo(x, p, cat, after)
<1> SUFFICES ASSUME NEW k \in 1 .. Len(cat), k <= p, cat[k] \notin Ignored
             PROVE  after[cat[k]] >= n.due[cat[k]]
  BY DEF DoneTo
<1>1. cat[k] \in Items
  OBVIOUS
<1>2. Kept(n) = {i \in Items : n.pending[i] # 0}
  BY DEF Kept, Written
<1>3. n.pending[cat[k]] # 0 \/ of[cat[k]] >= n.due[cat[k]]
  BY DEF DoneTo
<1>4. n.pending[cat[k]] # 0 => n.pending[cat[k]] >= n.due[cat[k]]
  BY <1>1 DEF DueIsTold
<1> QED
  BY <1>1, <1>2, <1>3, <1>4

\* A commit: the import that made it is sound, and those that see it are clean no more.
LEMMA CommitAsKeeps ==
    ASSUME ProductIInv, NEW j \in Imports, NEW m \in Import, NEW n \in Import, CommitAs(j, m, n),
           UNCHANGED <<catalogue, version>>,
           ImportIsSound(n, catalogue, version, stored),
           n.pc # "idle" => n.pending = m.pending /\ n.poisoned = m.poisoned
    PROVE  ProductIInv'
<1>1. /\ stored' \in [Items -> Version]
      /\ \A i \in Items : stored'[i] = IF i \in Kept(m) THEN m.pending[i] ELSE stored[i]
      /\ Kept(m) \subseteq Items /\ (Kept(m) = {} => stored' = stored)
  BY CommitStores
<1>2. PICK f \in BOOLEAN : f = FALSE
  OBVIOUS
<1>3. PICK g \in BOOLEAN : g <=> ~m.poisoned
  OBVIOUS
<1>4. g = (~m.poisoned)
  BY <1>3
<1>5. PICK x : x = [NewTransaction(n) EXCEPT !.taxes = Ended(n.taxes, g)]
  OBVIOUS
<1>6. import' = [k \in Imports |->
          IF k = j THEN x
          ELSE IF k \notin Running \/ Kept(m) = {} THEN import[k]
          ELSE [import[k] EXCEPT !.clean = f,
                                 !.moved = IF import[k].open THEN @ \cup Kept(m) ELSE @]]
  BY <1>2, <1>4, <1>5, Zenon DEF CommitAs, Kept
<1>7. /\ x \in Import /\ x.pc = n.pc /\ x.page = n.page /\ x.todo = n.todo
      /\ x.answer = n.answer /\ x.due = n.due /\ x.pending = Nothing
      /\ x.more = n.more /\ x.clean = n.clean /\ ~x.poisoned
  BY <1>5, NewTransactionIs
<1>8. ImportIsSound(x, catalogue, version, stored')
  <2>1. n.page > 0 /\ (n.pc = "items" => n.todo # <<>>)
    BY DEF ImportIsSound
  <2>2. ASSUME x.pc # "idle", x.clean PROVE NothingLeftOut(x, catalogue, version, stored')
    <3>1. /\ NothingLeftOut(n, catalogue, version, stored) /\ ~n.poisoned
          /\ n.pending = m.pending /\ n.poisoned = m.poisoned
      BY <1>7, <2>2 DEF ImportIsSound, NothingLeftOut
    <3>2. Kept(m) = Kept(n) /\ DueIsTold(n, catalogue, version)
      BY <3>1 DEF Kept, Written, NothingLeftOut
    <3>3. \A i \in Items : stored'[i] = IF i \in Kept(n) THEN n.pending[i] ELSE stored[i]
      BY <1>1, <3>1, <3>2
    <3>4. ASSUME NEW p \in Nat, DoneTo(n, p, catalogue, stored)
          PROVE  DoneTo(x, p, catalogue, stored')
      <4> DEFINE of == stored
                 after == stored'
                 cat == catalogue
                 ver == version
      <4>1. cat \in Seq(Items) /\ DueIsTold(n, cat, ver) /\ after \in [Items -> Version]
            /\ (\A i \in Items : after[i] = IF i \in Kept(n) THEN n.pending[i] ELSE of[i])
            /\ DoneTo(n, p, cat, of)
        BY <1>1, <3>2, <3>3, <3>4, ProductTypes
      <4> HIDE DEF of, after, cat, ver
      <4>2. DoneTo(x, p, cat, after)
        BY <1>7, <3>1, <4>1, StoredIsDone
      <4> QED
        BY <4>2 DEF cat, after
    <3>5. DueIsTold(x, catalogue, version)
      BY <1>7, <3>2, Versions DEF DueIsTold
    <3>6. /\ x.pc = "ask" => /\ (x.page - 1) * PageSize <= Len(catalogue)
                             /\ DoneTo(x, (x.page - 1) * PageSize, catalogue, stored')
      <4>1. (n.page - 1) * PageSize \in Nat
        BY <2>1, ImportFields, ThroughIs, ProductTypes
      <4> QED
        BY <1>7, <3>1, <3>4, <4>1 DEF NothingLeftOut
    <3>7. x.pc = "end" => DoneTo(x, Len(catalogue), catalogue, stored')
      BY <1>7, <3>1, <3>4, ProductTypes DEF NothingLeftOut
    <3>8. x.pc = "items" => PageIsRead(x, catalogue, stored')
      <4> SUFFICES ASSUME x.pc = "items" PROVE PageIsRead(x, catalogue, stored')
        OBVIOUS
      <4>1. PageIsRead(n, catalogue, stored)
        BY <1>7, <3>1 DEF NothingLeftOut
      <4>2. Through(n.page, catalogue) \in Nat /\ Len(n.todo) \in Nat
        BY <2>1, ImportFields, ThroughIs, ProductTypes
      <4>3. Through(n.page, catalogue) - Len(n.todo) \in Nat
        BY <4>1, <4>2 DEF PageIsRead
      <4>4. DoneTo(x, Through(n.page, catalogue) - Len(n.todo), catalogue, stored')
        BY <3>4, <4>1, <4>3 DEF PageIsRead
      <4> QED
        BY <1>7, <4>1, <4>4 DEF PageIsRead
    <3> QED
      BY <1>7, <3>5, <3>6, <3>7, <3>8 DEF NothingLeftOut
  <2> QED
    BY <1>7, <2>1, <2>2 DEF ImportIsSound
<1>9. ASSUME NEW k \in Imports, k # j PROVE ImportIsSound(import'[k], catalogue, version, stored')
  <2>1. ImportIsSound(import[k], catalogue, version, stored) /\ import[k] \in Import
    BY ProductTypes
  <2>2. CASE k \notin Running
    BY <1>6, <1>9, <2>1, <2>2 DEF ImportIsSound, Running
  <2>3. CASE k \in Running /\ Kept(m) = {}
    BY <1>1, <1>6, <1>9, <2>1, <2>3
  <2>4. CASE k \in Running /\ Kept(m) # {}
    <3>1. PICK moved \in SUBSET Items :
             moved = IF import[k].open THEN import[k].moved \cup Kept(m) ELSE import[k].moved
      <4>1. import[k].moved \subseteq Items
        BY <2>1, ImportFields
      <4> QED
        BY <1>1, <4>1
    <3>2. PICK y : y = [import[k] EXCEPT !.clean = f, !.moved = moved]
      OBVIOUS
    <3>3. import'[k] = y
      BY <1>6, <1>9, <2>4, <3>1, <3>2
    <3>4. y \in Import /\ y.page = import[k].page /\ y.pc = import[k].pc /\ y.todo = import[k].todo
      BY <2>1, <3>2 DEF Import
    <3>5. y.clean = f
      BY <2>1, <3>2 DEF Import
    <3> QED
      BY <1>2, <2>1, <3>3, <3>4, <3>5 DEF ImportIsSound
  <2> QED
    BY <2>2, <2>3, <2>4
<1>10. \A k \in Imports : ImportIsSound(import'[k], catalogue, version, stored')
  BY <1>6, <1>8, <1>9
<1>11. import' \in [Imports -> Import]
  <2>1. \A k \in Imports : import'[k] \in Import
    BY <1>10 DEF ImportIsSound
  <2> QED
    BY <1>6, <2>1
<1>12. \A k \in Imports : ImportIsSound(import'[k], catalogue', version', stored')
  BY <1>10
<1> QED
  BY <1>1, <1>11, <1>12, ProductTypes DEF ProductIInv, ProductTypeOK

\* An error that is logged leaves the import as it was, but for its transaction.
LEMMA LoggedIs ==
    ASSUME NEW m \in Import, NEW n \in {m, [m EXCEPT !.poisoned = TRUE, !.clean = FALSE]}
    PROVE  Alike(n, m)
<1>1. CASE n = m
  BY <1>1 DEF Alike
<1>2. CASE n = [m EXCEPT !.poisoned = TRUE, !.clean = FALSE]
  <2>1. PICK f \in BOOLEAN : f = FALSE
    OBVIOUS
  <2>2. PICK t \in BOOLEAN : t = TRUE
    OBVIOUS
  <2>3. n = [m EXCEPT !.poisoned = t, !.clean = f]
    BY <1>2, <2>1, <2>2, Zenon
  <2>4. n \in Import
    BY <2>3 DEF Import
  <2>5. n.pc = m.pc /\ n.page = m.page /\ n.todo = m.todo
    BY <2>3 DEF Import
  <2>6. n.answer = m.answer /\ n.pending = m.pending /\ n.due = m.due
    BY <2>3 DEF Import
  <2>7. n.more = m.more
    BY <2>3 DEF Import
  <2>8. n.clean = f
    BY <2>3 DEF Import
  <2>9. n.idx = m.idx /\ n.missed = m.missed
    BY <2>3 DEF Import
  <2> QED
    BY <2>1, <2>4, <2>5, <2>6, <2>7, <2>8, <2>9 DEF Alike
<1> QED
  BY <1>1, <1>2

\* An item is written to its product.
LEMMA WriteKeeps ==
    ASSUME ProductIInv, NEW j \in Imports, Write(j)
    PROVE  ProductIInv'
<1>1. PICK m \in Import : m = import[j]
  BY ProductTypes
<1>2. /\ ImportIsSound(m, catalogue, version, stored) /\ m.page > 0 /\ m.pc = "items"
      /\ m.todo # <<>>
  BY <1>1, ProductTypes DEF ImportIsSound, Write
<1>3. PICK q : q = PastItem(m)
  OBVIOUS
<1>4. /\ q \in Import /\ Head(m.todo) \in Items /\ q.todo = Tail(m.todo)
      /\ q.pc = m.pc /\ q.page = m.page /\ q.answer = m.answer
      /\ q.pending = m.pending /\ q.due = m.due
      /\ q.more = m.more /\ q.clean = m.clean /\ q.poisoned = m.poisoned
  BY <1>2, <1>3, PastItemIs
<1>5. PICK i \in Items : i = Head(m.todo)
  BY <1>4
<1>6. PICK w \in Version : w = m.answer[i]
  BY ImportFields
<1>7. PICK b : b = [q EXCEPT !.pending[i] = w]
  OBVIOUS
<1>8. /\ b \in Import /\ b.pc = q.pc /\ b.page = q.page /\ b.todo = q.todo
      /\ b.answer = q.answer /\ b.due = q.due
  <2>1. q.pending \in [Items -> Version]
    BY <1>4, ImportFields
  <2>2. b = [q EXCEPT !.pending = [q.pending EXCEPT ![i] = w]]
    BY <1>7
  <2>3. [q.pending EXCEPT ![i] = w] \in [Items -> Version]
    BY <2>1
  <2>4. b \in Import
    BY <1>4, <2>2, <2>3 DEF Import
  <2> QED
    BY <1>4, <1>7, <2>4 DEF Import
<1>9. b.pending = [q.pending EXCEPT ![i] = w]
  BY <1>4, <1>7 DEF Import
<1>10. b.more = q.more
  BY <1>4, <1>7 DEF Import
<1>11. b.clean = q.clean
  BY <1>4, <1>7 DEF Import
<1>12. b.poisoned = q.poisoned
  BY <1>4, <1>7 DEF Import
<1>13a. PICK t \in Taxed(b) :
           \E p \in PriceLists(t) : \E n \in Suppliers(p) :
              IF CommitsNow(n) THEN CommitAs(j, n, Onward(n)) ELSE GoOn(j, Onward(n))
  BY <1>1, <1>3, <1>5, <1>6, <1>7 DEF Write
<1>13b. PICK p \in PriceLists(t) :
           \E n \in Suppliers(p) :
              IF CommitsNow(n) THEN CommitAs(j, n, Onward(n)) ELSE GoOn(j, Onward(n))
  BY <1>13a
<1>13. PICK n \in Suppliers(p) :
          IF CommitsNow(n) THEN CommitAs(j, n, Onward(n)) ELSE GoOn(j, Onward(n))
  BY <1>13b
<1>14. UNCHANGED <<catalogue, version>>
  BY DEF Write
<1>15. Alike(t, b) /\ t \in Import
  BY <1>8, TaxedIs DEF Alike
<1>16. Alike(p, t) /\ p \in Import
  <2>1. Alike(p, t)
    BY <1>15, LoggedIs DEF PriceLists
  <2> QED
    BY <2>1 DEF Alike
<1>17. Alike(n, p)
  <2>1. CASE p.poisoned
    BY <1>16, <2>1, LoggedIs DEF Suppliers
  <2>2. CASE ~p.poisoned
    BY <1>16, <2>2, LoggedIs DEF Suppliers
  <2> QED
    BY <2>1, <2>2
<1>18. /\ n \in Import /\ n.pc = "items" /\ n.page = m.page /\ n.todo = Tail(m.todo)
       /\ n.answer = m.answer /\ n.due = m.due /\ n.more = m.more
       /\ n.pending = [m.pending EXCEPT ![i] = w]
       /\ n.clean => m.clean /\ (n.poisoned <=> m.poisoned)
  BY <1>2, <1>4, <1>8, <1>9, <1>10, <1>11, <1>12, <1>15, <1>16, <1>17 DEF Alike
<1>19. ASSUME n.clean PROVE ~n.poisoned /\ DueIsTold(n, catalogue, version) /\ PageIsRead(n, catalogue, stored)
  <2>1. NothingLeftOut(m, catalogue, version, stored)
    BY <1>2, <1>18, <1>19 DEF ImportIsSound
  <2>2. PageIsRead(m, catalogue, stored) /\ DueIsTold(m, catalogue, version)
    BY <1>2, <2>1 DEF NothingLeftOut
  <2>3. m.pending \in [Items -> Version] /\ m.due \in [Items -> Version] /\ Version \subseteq Nat
    BY ImportFields, Versions
  <2>4. /\ n.pending[i] = w
        /\ \A k \in Items : k # i => n.pending[k] = m.pending[k]
    BY <1>18, <2>3
  <2>5. w >= m.due[i]
    <3>1. 1 \in 1 .. Len(m.todo) /\ Head(m.todo) = m.todo[1]
      BY <1>2, ImportFields, HeadTailProperties
    <3>2. m.answer[m.todo[1]] >= m.due[m.todo[1]]
      BY <2>2, <3>1 DEF PageIsRead
    <3> QED
      BY <1>5, <1>6, <3>1, <3>2
  <2>6. DueIsTold(n, catalogue, version)
    <3> SUFFICES ASSUME NEW k \in Items
                 PROVE  /\ n.due[k] <= version[k]
                        /\ n.due[k] # 0 => k \in Range(catalogue)
                        /\ n.pending[k] # 0 => n.pending[k] >= n.due[k]
      BY DEF DueIsTold
    <3>1. /\ m.due[k] <= version[k]
          /\ m.due[k] # 0 => k \in Range(catalogue)
          /\ m.pending[k] # 0 => m.pending[k] >= m.due[k]
      BY <2>2 DEF DueIsTold
    <3> QED
      BY <1>18, <2>4, <2>5, <3>1
  <2>7. \/ Head(m.todo) \in Ignored
        \/ n.pending[Head(m.todo)] # 0
        \/ stored[Head(m.todo)] >= m.due[Head(m.todo)]
    <3>1. stored[i] \in Nat /\ m.due[i] \in Nat /\ w \in Nat
      BY <2>3, ProductTypes
    <3> QED
      BY <1>5, <2>4, <2>5, <3>1
  <2>8. PageIsRead(n, catalogue, stored)
    <3>1. \A k \in Items : k # Head(m.todo) => n.pending[k] = m.pending[k]
      BY <1>5, <2>4
    <3> QED
      BY <1>2, <1>18, <2>2, <2>7, <3>1, ItemIsDealtWith, ProductTypes
  <2> QED
    BY <1>18, <1>19, <2>1, <2>6, <2>8 DEF NothingLeftOut
<1>20. PICK o : o = Onward(n)
  OBVIOUS
<1>21. n.page > 0
  BY <1>2, <1>18
<1>22. o \in Import /\ o.pending = n.pending /\ o.poisoned = n.poisoned
  BY <1>18, <1>20, <1>21, OnwardIs
<1>23. ImportIsSound(o, catalogue, version, stored)
  BY <1>18, <1>19, <1>20, <1>21, OnwardIsSound, ProductTypes
<1>24. CASE CommitsNow(n)
  <2>1. CommitAs(j, n, o)
    BY <1>13, <1>20, <1>24
  <2> QED
    BY <1>14, <1>18, <1>22, <1>23, <2>1, CommitAsKeeps
<1>25. CASE ~CommitsNow(n)
  <2>1. GoOn(j, o)
    BY <1>13, <1>20, <1>25
  <2> QED
    BY <1>14, <1>23, <2>1, GoOnKeeps
<1> QED
  BY <1>24, <1>25

\* The last commit: a clean import has brought every product it does not ignore at least
\* to what X3 said of it.
LEMMA FinishKeeps ==
    ASSUME ProductIInv, NEW j \in Imports, Finish(j)
    PROVE  /\ ProductIInv'
           /\ import[j].clean => \A i \in Items \ Ignored : stored'[i] >= import[j].due[i]
<1>1. PICK m \in Import : m = import[j]
  BY ProductTypes
<1>2. ImportIsSound(m, catalogue, version, stored) /\ m.pc = "end"
  BY <1>1, ProductTypes DEF Finish
<1>3. PICK n \in Import : n = Idle
  BY IdleIs
<1>4. CommitAs(j, m, n) /\ UNCHANGED <<catalogue, version>>
  BY <1>1, <1>3 DEF Finish
<1>5. ImportIsSound(n, catalogue, version, stored) /\ n.pc = "idle"
  BY <1>3, IdleIs
<1>6. ProductIInv'
  BY <1>4, <1>5, CommitAsKeeps
<1>7. ASSUME m.clean, NEW i \in Items \ Ignored PROVE stored'[i] >= m.due[i]
  <2>1. /\ ~m.poisoned /\ DueIsTold(m, catalogue, version)
        /\ DoneTo(m, Len(catalogue), catalogue, stored)
    BY <1>2, <1>7 DEF ImportIsSound, NothingLeftOut
  <2>2. stored'[i] = IF i \in Kept(m) THEN m.pending[i] ELSE stored[i]
    BY <1>4, CommitStores
  <2>3. Kept(m) = {k \in Items : m.pending[k] # 0}
    BY <2>1 DEF Kept, Written
  <2>4. stored[i] \in Nat /\ m.due[i] \in Nat
    BY ProductTypes, ImportFields, Versions
  <2>5. CASE m.pending[i] # 0
    BY <2>1, <2>2, <2>3, <2>5 DEF DueIsTold
  <2>6. CASE m.pending[i] = 0 /\ m.due[i] = 0
    BY <2>2, <2>3, <2>4, <2>6
  <2>7. CASE m.pending[i] = 0 /\ m.due[i] # 0
    <3>1. i \in Range(catalogue)
      BY <2>1, <2>7 DEF DueIsTold
    <3>2. PICK k \in DOMAIN catalogue : catalogue[k] = i
      BY <3>1 DEF Range
    <3>3. k \in 1 .. Len(catalogue) /\ k <= Len(catalogue)
      BY <3>2, ProductTypes
    <3>4. stored[i] >= m.due[i]
      BY <1>7, <2>1, <2>7, <3>2, <3>3 DEF DoneTo
    <3> QED
      BY <2>2, <2>3, <2>7, <3>4
  <2> QED
    BY <2>5, <2>6, <2>7
<1> QED
  BY <1>1, <1>6, <1>7

\* The import of products starts sound.
LEMMA ProductFirst == ProductInit => ProductIInv
<1> SUFFICES ASSUME ProductInit PROVE ProductIInv
  OBVIOUS
<1>1. /\ catalogue = Catalogue /\ version = [i \in Items |-> 1] /\ stored \in [Items -> {0, 1}]
      /\ import = [j \in Imports |-> Idle]
  BY DEF ProductInit
<1>2. 0 \in Version /\ 1 \in Version
  BY ProductAssumption DEF Version
<1>3. ProductTypeOK
  BY <1>1, <1>2, IdleIs, ProductAssumption DEF ProductTypeOK
<1>4. \A j \in Imports : ImportIsSound(import[j], catalogue, version, stored)
  BY <1>1, IdleIs
<1> QED
  BY <1>3, <1>4 DEF ProductIInv

\* Every step keeps the import of products sound.
LEMMA ProductIsKept == ProductIInv /\ [ProductNext]_productVars => ProductIInv'
<1> SUFFICES ASSUME ProductIInv, [ProductNext]_productVars PROVE ProductIInv'
  OBVIOUS
<1>1. CASE UNCHANGED productVars
  BY <1>1 DEF productVars, ProductIInv, ProductTypeOK
<1>2. CASE \E i \in Items : Publish(i)
  BY <1>2, PublishKeeps
<1>3. CASE \E n \in DOMAIN catalogue : Withdraw(n)
  BY <1>3, WithdrawKeeps
<1>4. ASSUME NEW j \in Imports, BeginImport(j) \/ ImportStep(j) \/ Stop(j) \/ TimeOut(j)
      PROVE  ProductIInv'
  BY <1>4, BeginKeepsProducts, AskKeeps, IgnoreKeeps, WriteKeeps, FailKeeps, FinishKeeps,
     StopKeeps, TimeOutKeeps DEF ImportStep
<1> QED
  BY <1>1, <1>2, <1>3, <1>4 DEF ProductNext

\* What a last commit leaves, of any import.
FinishIsComplete ==
    \A j \in Imports :
        Finish(j) /\ import[j].clean
            => \A i \in Items \ Ignored : stored'[i] >= import[j].due[i]

\* Products keep their types, and an import of X3's catalogue that met no error, no limit,
\* no withdrawal and no commit of another has brought every product it does not ignore to
\* what X3 said of it: no page and no item is skipped, no commit is left out
\* (insert_product_init.py).
THEOREM ProductsAreComplete == ProductSpec => []ProductTypeOK /\ CleanImportIsComplete
<1>1. ProductSpec => []ProductIInv
  BY ProductFirst, ProductIsKept, PTL DEF ProductSpec
<1>2. ProductIInv => ProductTypeOK
  BY DEF ProductIInv
<1>3. ProductIInv => FinishIsComplete
  BY FinishKeeps DEF FinishIsComplete
<1> QED
  BY <1>1, <1>2, <1>3, PTL DEF ProductSpec, CleanImportIsComplete, FinishIsComplete

-----------------------------------------------------------------------------
(* What one error costs.                                                   *)

\* What the transaction of an import holds, within the items since the last multiple of
\* COMMIT_STEP and the batches that missed their commit.
Fits(m) == Cardinality(Written(m)) <= m.idx + m.missed

\* The items of X3 are finitely many, and so is what a transaction holds.
LEMMA HeldIsFinite ==
    ASSUME NEW m
    PROVE  IsFiniteSet(Written(m)) /\ Cardinality(Written(m)) \in Nat
<1>1. PICK N \in Nat : N = Len(Catalogue)
  BY ProductAssumption
<1>2. Catalogue \in [1 .. N -> Items]
  BY <1>1, ProductAssumption
<1>3. \A i \in Items : \E k \in 1 .. N : Catalogue[k] = i
  BY <1>2 DEF Items, Range
<1>4. Catalogue \in Surjection(1 .. N, Items)
  BY <1>2, <1>3 DEF Surjection
<1>5. IsFiniteSet(1 .. N)
  BY FS_Interval
<1>6. IsFiniteSet(Items)
  BY <1>4, <1>5, FS_Surjection
<1>7. Written(m) \in SUBSET Items
  BY DEF Written
<1>8. IsFiniteSet(Written(m))
  BY <1>6, <1>7, FS_Subset
<1> QED
  BY <1>8, FS_CardinalityType

\* An import that holds nothing.
LEMMA NothingFits ==
    ASSUME NEW m \in Import, m.pending = Nothing
    PROVE  Fits(m)
<1>1. Written(m) = {}
  BY Versions DEF Written
<1>2. m.idx \in Nat /\ m.missed \in Nat
  BY ImportFields, Versions
<1> QED
  BY <1>1, <1>2, FS_EmptySet DEF Fits

\* An import that goes on after an item or a page.
LEMMA OnwardFits ==
    ASSUME NEW m \in Import, Fits(m)
    PROVE  Fits(Onward(m))
<1>1. PICK f \in BOOLEAN : f <=> (m.clean /\ ~m.more)
  OBVIOUS
<1>2. f = (m.clean /\ ~m.more)
  BY <1>1
<1>3. PICK p \in Nat : p = m.page + 1
  BY ImportFields
<1>4. \/ Onward(m) = m
      \/ Onward(m) = [m EXCEPT !.pc = "ask", !.page = p, !.answer = Nothing]
      \/ Onward(m) = [m EXCEPT !.pc = "end", !.clean = f, !.answer = Nothing]
  <2>1. CASE m.todo # <<>>
    BY <2>1 DEF Onward
  <2>2. CASE m.todo = <<>> /\ m.more /\ m.page < MaxPages
    BY <1>3, <2>2 DEF Onward
  <2>3. CASE m.todo = <<>> /\ ~(m.more /\ m.page < MaxPages)
    <3>1. Onward(m) = [m EXCEPT !.pc = "end", !.clean = m.clean /\ ~m.more, !.answer = Nothing]
      BY <2>3, Zenon DEF Onward
    <3> QED
      BY <1>2, <3>1, Zenon
  <2> QED
    BY <2>1, <2>2, <2>3
<1>5. Onward(m).pending = m.pending
  BY <1>4 DEF Import
<1>6. Onward(m).idx = m.idx /\ Onward(m).missed = m.missed
  BY <1>4 DEF Import
<1> QED
  BY <1>5, <1>6 DEF Fits, Written

\* An import that holds as much as another.
LEMMA SameFits ==
    ASSUME NEW m, NEW n, Fits(m),
           n.pending = m.pending, n.idx = m.idx, n.missed = m.missed
    PROVE  Fits(n)
BY DEF Fits, Written

\* An import that goes on in its transaction.
LEMMA GoOnFits ==
    ASSUME ProductIInv, LossIsBounded, NEW j \in Imports, NEW m, GoOn(j, m), Fits(m)
    PROVE  LossIsBounded'
<1>1. \A k \in Imports : import'[k] = IF k = j THEN m ELSE import[k]
  BY ProductTypes DEF GoOn
<1>2. \A k \in Imports : Fits(import'[k])
  BY <1>1 DEF LossIsBounded, Fits
<1> QED
  BY <1>2 DEF LossIsBounded, Fits, Written

\* A commit: the import that made it holds nothing any more, the others what they held.
LEMMA CommitFits ==
    ASSUME ProductIInv, LossIsBounded, NEW j \in Imports, NEW m, NEW n \in Import, CommitAs(j, m, n)
    PROVE  LossIsBounded'
<1>1. PICK f \in BOOLEAN : f = FALSE
  OBVIOUS
<1>2. PICK g \in BOOLEAN : g <=> ~m.poisoned
  OBVIOUS
<1>3. g = (~m.poisoned)
  BY <1>2
<1>4. PICK x : x = [NewTransaction(n) EXCEPT !.taxes = Ended(n.taxes, g)]
  OBVIOUS
<1>5. import' = [k \in Imports |->
          IF k = j THEN x
          ELSE IF k \notin Running \/ Kept(m) = {} THEN import[k]
          ELSE [import[k] EXCEPT !.clean = f,
                                 !.moved = IF import[k].open THEN @ \cup Kept(m) ELSE @]]
  BY <1>1, <1>3, <1>4, Zenon DEF CommitAs, Kept
<1>6. Fits(x)
  <2>1. x \in Import /\ x.pending = Nothing
    BY <1>4, NewTransactionIs
  <2> QED
    BY <2>1, NothingFits
<1>7. ASSUME NEW k \in Imports, k # j PROVE Fits(import'[k])
  <2>1. import[k] \in Import /\ Fits(import[k])
    BY ProductTypes DEF LossIsBounded, Fits
  <2>2. PICK v : v = IF import[k].open THEN import[k].moved \cup Kept(m) ELSE import[k].moved
    OBVIOUS
  <2>3. PICK y : y = [import[k] EXCEPT !.clean = f, !.moved = v]
    OBVIOUS
  <2>4. y.pending = import[k].pending /\ y.idx = import[k].idx /\ y.missed = import[k].missed
    BY <2>1, <2>3 DEF Import
  <2>5. Fits(y)
    BY <2>1, <2>4, SameFits
  <2>6. import'[k] = import[k] \/ import'[k] = y
    BY <1>5, <1>7, <2>2, <2>3
  <2> QED
    BY <2>1, <2>5, <2>6
<1>8. \A k \in Imports : Fits(import'[k])
  BY <1>5, <1>6, <1>7
<1> QED
  BY <1>8 DEF LossIsBounded, Fits, Written

\* An item that is written is one more that the transaction holds.
LEMMA WriteFits ==
    ASSUME ProductIInv, LossIsBounded, NEW j \in Imports, Write(j)
    PROVE  LossIsBounded'
<1>1. PICK m \in Import : m = import[j]
  BY ProductTypes
<1>2. m.todo # <<>> /\ Fits(m)
  BY <1>1, ProductTypes DEF ImportIsSound, Write, LossIsBounded, Fits
<1>3. PICK q \in Import : q = PastItem(m)
  BY <1>2, PastItemIs
<1>4. /\ Head(m.todo) \in Items /\ q.pending = m.pending /\ q.missed = m.missed
      /\ q.idx = IF m.idx + 1 = CommitStep THEN 0 ELSE m.idx + 1
  BY <1>2, <1>3, PastItemIs
<1>5. PICK i \in Items : i = Head(m.todo)
  BY <1>4
<1>6. PICK w \in Version : w = m.answer[i]
  BY ImportFields
<1>7. PICK b : b = [q EXCEPT !.pending[i] = w]
  OBVIOUS
<1>8. b \in Import /\ b.idx = q.idx /\ b.missed = q.missed /\ b.pending = [m.pending EXCEPT ![i] = w]
  <2>1. q.pending \in [Items -> Version]
    BY ImportFields
  <2>2. PICK z \in [Items -> Version] : z = [q.pending EXCEPT ![i] = w]
    BY <2>1
  <2>3. b = [q EXCEPT !.pending = z]
    BY <1>7, <2>2
  <2> QED
    BY <1>4, <2>2, <2>3 DEF Import
<1>9a. PICK t \in Taxed(b) :
           \E p \in PriceLists(t) : \E n \in Suppliers(p) :
              IF CommitsNow(n) THEN CommitAs(j, n, Onward(n)) ELSE GoOn(j, Onward(n))
  BY <1>1, <1>3, <1>5, <1>6, <1>7 DEF Write
<1>9b. PICK p \in PriceLists(t) :
           \E n \in Suppliers(p) :
              IF CommitsNow(n) THEN CommitAs(j, n, Onward(n)) ELSE GoOn(j, Onward(n))
  BY <1>9a
<1>9. PICK n \in Suppliers(p) :
          IF CommitsNow(n) THEN CommitAs(j, n, Onward(n)) ELSE GoOn(j, Onward(n))
  BY <1>9b
<1>10. Alike(t, b) /\ t \in Import
  BY <1>8, TaxedIs DEF Alike
<1>11. Alike(p, t) /\ p \in Import
  <2>1. Alike(p, t)
    BY <1>10, LoggedIs DEF PriceLists
  <2> QED
    BY <2>1 DEF Alike
<1>12. Alike(n, p)
  <2>1. CASE p.poisoned
    BY <1>11, <2>1, LoggedIs DEF Suppliers
  <2>2. CASE ~p.poisoned
    BY <1>11, <2>2, LoggedIs DEF Suppliers
  <2> QED
    BY <2>1, <2>2
<1>13. /\ n \in Import /\ n.pending = [m.pending EXCEPT ![i] = w]
       /\ n.idx = q.idx /\ n.missed = m.missed
  BY <1>4, <1>8, <1>10, <1>11, <1>12 DEF Alike
<1>14. CASE CommitsNow(n)
  <2>1. CommitAs(j, n, Onward(n))
    BY <1>9, <1>14
  <2>2. Onward(n) \in Import
    <3>1. n.page > 0 /\ n.pc = "items"
      <4>1. m.page > 0 /\ m.pc = "items"
        BY <1>1, ProductTypes DEF ImportIsSound, Write
      <4>2. q.page = m.page /\ q.pc = m.pc
        BY <1>2, <1>3, PastItemIs
      <4>3. b.page = q.page /\ b.pc = q.pc
        BY <1>7 DEF Import
      <4> QED
        BY <1>10, <1>11, <1>12, <4>1, <4>2, <4>3 DEF Alike
    <3> QED
      BY <1>13, <3>1, OnwardIs
  <2> QED
    BY <2>1, <2>2, CommitFits
<1>15. CASE ~CommitsNow(n)
  <2>1. GoOn(j, Onward(n)) /\ n.idx = m.idx + 1
    BY <1>4, <1>9, <1>13, <1>15 DEF CommitsNow
  <2>2. Written(n) \subseteq Written(m) \cup {i}
    BY <1>13, ImportFields DEF Written
  <2>3. /\ IsFiniteSet(Written(m) \cup {i})
        /\ Cardinality(Written(m) \cup {i}) <= Cardinality(Written(m)) + 1
        /\ Cardinality(Written(m)) \in Nat /\ Cardinality(Written(m) \cup {i}) \in Nat
    <3>1. IsFiniteSet(Written(m)) /\ Cardinality(Written(m)) \in Nat
      BY HeldIsFinite
    <3>2. /\ IsFiniteSet(Written(m) \cup {i})
          /\ Cardinality(Written(m) \cup {i})
                 = IF i \in Written(m) THEN Cardinality(Written(m)) ELSE Cardinality(Written(m)) + 1
      BY <3>1, FS_AddElement
    <3> QED
      BY <3>1, <3>2
  <2>4. Cardinality(Written(n)) <= Cardinality(Written(m) \cup {i})
    BY <2>2, <2>3, FS_Subset
  <2>5. Cardinality(Written(n)) \in Nat /\ m.idx \in Nat /\ m.missed \in Nat
    BY HeldIsFinite, ImportFields, Versions
  <2>6. Fits(n)
    BY <1>2, <1>13, <2>1, <2>3, <2>4, <2>5 DEF Fits
  <2> QED
    BY <1>13, <2>1, <2>6, OnwardFits, GoOnFits
<1> QED
  BY <1>14, <1>15

\* Every other step of an import.
LEMMA OthersFit ==
    ASSUME ProductIInv, LossIsBounded, NEW j \in Imports,
           BeginImport(j) \/ Ask(j) \/ Ignore(j) \/ Fail(j) \/ Finish(j) \/ Stop(j) \/ TimeOut(j)
    PROVE  LossIsBounded'
<1>1. PICK m \in Import : m = import[j]
  BY ProductTypes
<1>2. Fits(m) /\ (m.pc = "items" => m.todo # <<>>)
  BY <1>1, ProductTypes DEF ImportIsSound, LossIsBounded, Fits
<1>3. CASE BeginImport(j)
  <2>1. PICK n : n = [Idle EXCEPT !.pc = "ask", !.open = TRUE, !.due = Told(catalogue)]
    OBVIOUS
  <2>2. GoOn(j, n)
    BY <1>3, <2>1 DEF BeginImport, GoOn
  <2>3. n.pending = Idle.pending /\ n.idx = Idle.idx /\ n.missed = Idle.missed
    BY <2>1, IdleIs DEF Import
  <2>4. Fits(Idle)
    BY IdleIs, NothingFits
  <2>5. Fits(n)
    BY <2>3, <2>4, SameFits
  <2> QED
    BY <2>2, <2>5, GoOnFits
<1>4. CASE Ask(j)
  <2>1. PICK page \in Seq(Items) : page = Page(m.page)
    <3>1. m.page \in Nat /\ m.page > 0
      BY <1>1, ProductTypes, ImportFields DEF ImportIsSound
    <3> QED
      BY <3>1, PageIs, ProductTypes
  <2>2. PICK told \in [Items -> Version] : told = Told(page)
    BY ProductTypes, Versions DEF Told
  <2>3. PICK more \in BOOLEAN : more <=> m.page * PageSize < Len(catalogue)
    OBVIOUS
  <2>4. more = (m.page * PageSize < Len(catalogue))
    BY <2>3
  <2>5. PICK n : n = [m EXCEPT !.pc = "items", !.todo = page, !.answer = told, !.more = more]
    OBVIOUS
  <2>6. GoOn(j, Onward(n))
    <3>1. n = [m EXCEPT !.pc = "items", !.todo = Page(m.page), !.answer = Told(Page(m.page)),
                        !.more = m.page * PageSize < Len(catalogue)]
      BY <2>1, <2>2, <2>4, <2>5, Zenon
    <3> QED
      BY <1>1, <1>4, <3>1, Zenon DEF Ask
  <2>7. n \in Import
    BY <2>5 DEF Import
  <2>8. n.pending = m.pending /\ n.idx = m.idx /\ n.missed = m.missed
    BY <2>5 DEF Import
  <2> QED
    BY <1>2, <2>6, <2>7, <2>8, SameFits, OnwardFits, GoOnFits
<1>5. CASE Ignore(j)
  <2>1. PICK n \in Import : LeftOut(n, m) /\ GoOn(j, Onward(n))
    BY <1>1, <1>2, <1>5, IgnoreIs DEF Ignore
  <2>2. n.pending = m.pending /\ n.idx + n.missed = m.idx + m.missed + 1
    BY <2>1 DEF LeftOut
  <2>3. Written(n) = Written(m) /\ Cardinality(Written(m)) \in Nat
    BY <2>2, HeldIsFinite DEF Written
  <2>4. m.idx \in Nat /\ m.missed \in Nat
    BY ImportFields, Versions
  <2>5. Fits(n)
    BY <1>2, <2>2, <2>3, <2>4 DEF Fits
  <2> QED
    BY <2>1, <2>5, OnwardFits, GoOnFits
<1>6. CASE Fail(j)
  <2>1. ProductIInv' /\ import'[j].pending = Nothing
    BY <1>6, FailKeeps
  <2>2. import'[j] \in Import
    BY <2>1 DEF ProductIInv, ProductTypeOK
  <2>3. Fits(import'[j])
    BY <2>1, <2>2, NothingFits
  <2>4. PICK n : GoOn(j, n)
    BY <1>6 DEF Fail
  <2>5. import'[j] = n
    BY <2>4, ProductTypes DEF GoOn
  <2> QED
    BY <2>3, <2>4, <2>5, GoOnFits
<1>7. CASE Finish(j)
  <2>1. PICK n \in Import : n = Idle
    BY IdleIs
  <2>2. CommitAs(j, m, n)
    BY <1>1, <1>7, <2>1 DEF Finish
  <2> QED
    BY <2>2, CommitFits
<1>8. CASE Stop(j)
  <2>1. PICK n \in Import : n = Idle
    BY IdleIs
  <2>2. GoOn(j, n) /\ n.pending = Nothing
    BY <1>8, <2>1, IdleIs DEF Stop
  <2> QED
    BY <2>2, NothingFits, GoOnFits
<1>9. CASE TimeOut(j)
  <2>1. PICK n : n = [m EXCEPT !.pc = "end", !.todo = <<>>, !.answer = Nothing, !.clean = FALSE]
    OBVIOUS
  <2>2. GoOn(j, n)
    BY <1>1, <1>9, <2>1, Zenon DEF TimeOut
  <2>3. n.pending = m.pending /\ n.idx = m.idx /\ n.missed = m.missed
    BY <2>1 DEF Import
  <2> QED
    BY <1>2, <2>2, <2>3, SameFits, GoOnFits
<1> QED
  BY <1>3, <1>4, <1>5, <1>6, <1>7, <1>8, <1>9

\* X3 publishes and withdraws, and nothing happens: what transactions hold stays.
LEMMA OutsideFits ==
    ASSUME ProductIInv, LossIsBounded,
           \/ UNCHANGED productVars
           \/ \E i \in Items : Publish(i)
           \/ \E n \in DOMAIN catalogue : Withdraw(n)
    PROVE  LossIsBounded'
<1>1. CASE import' = import
  <2>1. \A k \in Imports : Fits(import'[k])
    BY <1>1 DEF LossIsBounded, Fits
  <2> QED
    BY <2>1 DEF LossIsBounded, Fits, Written
<1>2. CASE \E n \in DOMAIN catalogue : Withdraw(n)
  <2>1. import' = [j \in Imports |-> IF j \in Running THEN [import[j] EXCEPT !.clean = FALSE]
                                                       ELSE import[j]]
    BY <1>2 DEF Withdraw
  <2>2. ASSUME NEW k \in Imports PROVE Fits(import'[k])
    <3>1. import[k] \in Import /\ Fits(import[k])
      BY ProductTypes DEF LossIsBounded, Fits
    <3>2. PICK y : y = [import[k] EXCEPT !.clean = FALSE]
      OBVIOUS
    <3>3. y.pending = import[k].pending /\ y.idx = import[k].idx /\ y.missed = import[k].missed
      BY <3>1, <3>2 DEF Import
    <3>4. import'[k] = import[k] \/ import'[k] = y
      BY <2>1, <3>2
    <3> QED
      BY <3>1, <3>3, <3>4, SameFits
  <2> QED
    BY <2>2 DEF LossIsBounded, Fits, Written
<1> QED
  BY <1>1, <1>2 DEF productVars, Publish

\* What an error can undo is bounded by the items since the last multiple of COMMIT_STEP
\* and a whole batch for each multiple that fell on an item left out
\* (insert_product_init.py: the rollback, and the commit that `continue` skips).
THEOREM LossesAreBounded == ProductSpec => []LossIsBounded
<1>1. ProductSpec => []ProductIInv
  BY ProductFirst, ProductIsKept, PTL DEF ProductSpec
<1>2. ProductInit => LossIsBounded
  <2> SUFFICES ASSUME ProductInit PROVE LossIsBounded
    OBVIOUS
  <2>1. \A j \in Imports : import[j] = Idle
    BY DEF ProductInit
  <2>2. Fits(Idle)
    BY IdleIs, NothingFits
  <2> QED
    BY <2>1, <2>2 DEF LossIsBounded, Fits
<1>3. ProductIInv /\ LossIsBounded /\ [ProductNext]_productVars => LossIsBounded'
  BY WriteFits, OthersFit, OutsideFits DEF ProductNext, ImportStep
<1> QED
  BY <1>1, <1>2, <1>3, PTL DEF ProductSpec

-----------------------------------------------------------------------------
(* Sheets.                                                                 *)

\* A line of a preview, over a table of records: it names an article of Odoo if it is to
\* be applied, no account is created, and the record it found is one of its article.
SheetLineIsSound(l, table) ==
    /\ l.action # "none" => l.article \in Articles
    /\ l.action = "create" => kind # "account"
    /\ l.target # 0 => /\ l.target \in DOMAIN table
                       /\ table[l.target].live /\ table[l.target].article = l.article

\* What a table says of the first n lines: the last one of each article that is not
\* skipped is what a record of the article says.
LinesAreApplied(lines, n, table) ==
    \A m \in 1 .. n :
        /\ ~Skipped(lines[m])
        /\ \A k \in 1 .. n :
              k > m /\ lines[k].action # "none" => lines[k].article # lines[m].article
        => \E i \in RecordsOf(table, lines[m].article) : table[i].value = lines[m].value

\* A table that came of another one: records keep their places and articles, and the
\* wizards that search before they create add none to an article that has some.
Follows(before, table) ==
    /\ table \in Seq(Entry) /\ Len(before) <= Len(table)
    /\ \A i \in DOMAIN before :
          table[i].live = before[i].live /\ table[i].article = before[i].article
    /\ kind \in {"status", "rule", "stock"} =>
          \A a \in Articles : RecordsOf(before, a) # {} => RecordsOf(table, a) = RecordsOf(before, a)

\* A confirmation: the records it started from are still there, and its result applies
\* the lines to them.
ConfirmationIsSound(m, table) ==
    /\ Len(m.seen) <= Len(table)
    /\ Follows(m.seen, m.result)
    /\ LinesAreApplied(m.lines, Len(m.lines), m.result)

\* A wizard, over the records as they are.
WizardIsSound(m, table) ==
    /\ \A n \in 1 .. Len(m.lines) : SheetLineIsSound(m.lines[n], table)
    /\ m.pc = "confirming" => ConfirmationIsSound(m, table)

\* The inductive invariant of the sheets.
SheetIInv ==
    /\ kind \in Kinds /\ unique \in BOOLEAN
    /\ entries \in Seq(Entry)
    /\ wizard \in [Wizards -> Wizard]
    /\ \A w \in Wizards : WizardIsSound(wizard[w], entries)

\* The types of the state.
LEMMA SheetTypes ==
    ASSUME SheetIInv
    PROVE  /\ kind \in Kinds /\ entries \in Seq(Entry) /\ Len(entries) \in Nat
           /\ wizard \in [Wizards -> Wizard]
           /\ \A w \in Wizards :
                 /\ wizard[w].pc \in {"draft", "loaded", "confirming", "done"}
                 /\ wizard[w].lines \in Seq(SheetLine)
                 /\ wizard[w].seen \in Seq(Entry) /\ wizard[w].result \in Seq(Entry)
BY DEF SheetIInv, Wizard

\* The records of an article.
LEMMA RecordsAre ==
    ASSUME NEW table \in Seq(Entry), NEW a
    PROVE  /\ RecordsOf(table, a) \subseteq 1 .. Len(table)
           /\ Len(table) \in Nat /\ DOMAIN table = 1 .. Len(table)
           /\ \A i \in 1 .. Len(table) : table[i] \in Entry
BY DEF RecordsOf

\* A search finds a record of the article if there is one.
LEMMA FoundIs ==
    ASSUME NEW table \in Seq(Entry), NEW a
    PROVE  /\ Found(table, a) \in Nat
           /\ RecordsOf(table, a) = {} => Found(table, a) = 0
           /\ RecordsOf(table, a) # {} => Found(table, a) \in RecordsOf(table, a) /\ Found(table, a) # 0
<1> DEFINE S == RecordsOf(table, a)
<1>1. S \in SUBSET (1 .. Len(table)) /\ Len(table) \in Nat /\ S \in SUBSET Nat
  BY RecordsAre
<1>2. Found(table, a) = IF S = {} THEN 0 ELSE IF kind = "status" THEN Max(S) ELSE Min(S)
  BY DEF Found
<1> HIDE DEF S
<1>3. CASE S = {}
  BY <1>2, <1>3 DEF S
<1>4. CASE S # {}
  <2>1. Max(S) \in S
    <3>1. \E i \in S : \A j \in S : j <= i
      BY <1>1, <1>4, GreatestExists
    <3>2. \E i \in S : \A j \in S : i >= j
      BY <1>1, <3>1
    <3> QED
      BY <3>2 DEF Max
  <2>2. Min(S) \in S
    <3>1. \E i \in S : \A j \in S : i <= j
      BY <1>1, <1>4, SmallestExists
    <3> QED
      BY <3>1 DEF Min
  <2>3. Found(table, a) \in S
    BY <1>2, <1>4, <2>1, <2>2
  <2>4. Found(table, a) \in Nat /\ Found(table, a) # 0
    <3>1. \A i \in S : i \in Nat /\ i # 0
      BY <1>1
    <3> QED
      BY <2>3, <3>1
  <2> QED
    BY <1>4, <2>3, <2>4 DEF S
<1> QED
  BY <1>3, <1>4

\* A record is overwritten.
LEMMA OverwriteIs ==
    ASSUME NEW table \in Seq(Entry), NEW i \in 1 .. Len(table), NEW l, l.value \in Values \union {Unread}
    PROVE  LET after == Overwrite(table, i, l) IN
           /\ after \in Seq(Entry) /\ Len(after) = Len(table)
           /\ \A k \in 1 .. Len(table) : /\ k # i => after[k] = table[k]
                                         /\ after[k].live = table[k].live
                                         /\ after[k].article = table[k].article
           /\ after[i].value = l.value
<1>1. PICK e : e = [table[i] EXCEPT !.value = l.value]
  OBVIOUS
<1>2. table[i] \in Entry /\ Len(table) \in Nat
  BY RecordsAre
<1>3. e \in Entry /\ e.article = table[i].article /\ e.value = l.value
  BY <1>1, <1>2 DEF Entry
<1>4. e.live = table[i].live
  BY <1>1, <1>2 DEF Entry
<1>5. Overwrite(table, i, l) = [table EXCEPT ![i] = e]
  BY <1>1 DEF Overwrite
<1>6. PICK after : after = [table EXCEPT ![i] = e]
  OBVIOUS
<1>7. after \in Seq(Entry) /\ Len(after) = Len(table)
  BY <1>3, <1>6, ExceptSeq
<1>8. after[i] = e /\ \A k \in 1 .. Len(table) : k # i => after[k] = table[k]
  BY <1>6
<1>9. /\ after \in Seq(Entry) /\ Len(after) = Len(table)
      /\ \A k \in 1 .. Len(table) : /\ k # i => after[k] = table[k]
                                    /\ after[k].live = table[k].live
                                    /\ after[k].article = table[k].article
      /\ after[i].value = l.value
  BY <1>3, <1>4, <1>7, <1>8
<1> QED
  BY <1>5, <1>6, <1>9

\* A record is added.
LEMMA NewEntryIs ==
    ASSUME NEW table \in Seq(Entry), NEW l, l.value \in Values \union {Unread}, l.article \in Articles
    PROVE  LET after == NewEntry(table, l) IN
           /\ after \in Seq(Entry) /\ Len(after) = Len(table) + 1
           /\ \A k \in 1 .. Len(table) : after[k] = table[k]
           /\ after[Len(table) + 1].live /\ after[Len(table) + 1].article = l.article
           /\ after[Len(table) + 1].value = l.value
<1>1. PICK t \in BOOLEAN : t = TRUE
  OBVIOUS
<1>2. PICK e : e = [article |-> l.article, value |-> l.value, live |-> t]
  OBVIOUS
<1>3. e \in Entry /\ e.article = l.article /\ e.value = l.value
  BY <1>2 DEF Entry
<1>4. e.live = t
  BY <1>2
<1>5. NewEntry(table, l) = Append(table, e)
  BY <1>1, <1>2, Zenon DEF NewEntry
<1>6. PICK after : after = Append(table, e)
  OBVIOUS
<1>7. after \in Seq(Entry) /\ Len(after) = Len(table) + 1 /\ after[Len(table) + 1] = e
      /\ \A k \in 1 .. Len(table) : after[k] = table[k]
  BY <1>3, <1>6, AppendProperties
<1>8. /\ after \in Seq(Entry) /\ Len(after) = Len(table) + 1
      /\ \A k \in 1 .. Len(table) : after[k] = table[k]
      /\ after[Len(table) + 1].live /\ after[Len(table) + 1].article = l.article
      /\ after[Len(table) + 1].value = l.value
  BY <1>1, <1>3, <1>4, <1>7
<1> QED
  BY <1>5, <1>6, <1>8

\* One line changes no record but those of its article: it leaves the table alone,
\* writes its value on one of them, or adds one.
Leaves(table, after, l) ==
    /\ after \in Seq(Entry) /\ Len(table) <= Len(after)
    /\ \A k \in 1 .. Len(table) : /\ after[k].live = table[k].live
                                  /\ after[k].article = table[k].article
                                  /\ table[k].article # l.article => after[k] = table[k]
    /\ \A k \in 1 .. Len(after) : k > Len(table) => after[k].live /\ after[k].article = l.article

LEMMA OverwriteLeaves ==
    ASSUME NEW table \in Seq(Entry), NEW l, l.value \in Values \union {Unread},
           NEW i \in RecordsOf(table, l.article)
    PROVE  LET after == Overwrite(table, i, l) IN
           /\ Leaves(table, after, l) /\ Len(after) = Len(table)
           /\ \E k \in RecordsOf(after, l.article) : after[k].value = l.value
<1>1. i \in 1 .. Len(table) /\ table[i].live /\ table[i].article = l.article
  BY RecordsAre DEF RecordsOf
<1>2. PICK after : after = Overwrite(table, i, l)
  OBVIOUS
<1>3. /\ after \in Seq(Entry) /\ Len(after) = Len(table)
      /\ \A k \in 1 .. Len(table) : /\ k # i => after[k] = table[k]
                                    /\ after[k].live = table[k].live
                                    /\ after[k].article = table[k].article
      /\ after[i].value = l.value
  BY <1>1, <1>2, OverwriteIs
<1>4. Len(table) \in Nat
  BY RecordsAre
<1>5. Leaves(table, after, l)
  BY <1>1, <1>3, <1>4 DEF Leaves
<1>6. i \in RecordsOf(after, l.article)
  BY <1>1, <1>3 DEF RecordsOf
<1> QED
  BY <1>2, <1>3, <1>5, <1>6

LEMMA NewEntryLeaves ==
    ASSUME NEW table \in Seq(Entry), NEW l, l.value \in Values \union {Unread}, l.article \in Articles
    PROVE  LET after == NewEntry(table, l) IN
           /\ Leaves(table, after, l)
           /\ \E k \in RecordsOf(after, l.article) : after[k].value = l.value
<1>1. PICK after : after = NewEntry(table, l)
  OBVIOUS
<1>2. /\ after \in Seq(Entry) /\ Len(after) = Len(table) + 1
      /\ \A k \in 1 .. Len(table) : after[k] = table[k]
      /\ after[Len(table) + 1].live /\ after[Len(table) + 1].article = l.article
      /\ after[Len(table) + 1].value = l.value
  BY <1>1, NewEntryIs
<1>3. Len(table) \in Nat
  BY RecordsAre
<1>4. Leaves(table, after, l)
  BY <1>2, <1>3 DEF Leaves
<1>5. Len(table) + 1 \in RecordsOf(after, l.article)
  BY <1>2, <1>3 DEF RecordsOf
<1> QED
  BY <1>1, <1>2, <1>4, <1>5

\* A line adds no record.
AddsNone(table, after) == Len(after) = Len(table)

\* A record of the table that a confirmation began with is still one of its article.
LEMMA StillThere ==
    ASSUME NEW before \in Seq(Entry), NEW table, Follows(before, table),
           NEW a, NEW i \in RecordsOf(before, a)
    PROVE  i \in RecordsOf(table, a)
<1>1. i \in DOMAIN before /\ i \in 1 .. Len(before) /\ before[i].live /\ before[i].article = a
  BY RecordsAre DEF RecordsOf
<1>2. table[i].live /\ table[i].article = a /\ table \in Seq(Entry) /\ Len(before) <= Len(table)
  BY <1>1 DEF Follows
<1>3. i \in 1 .. Len(table)
  BY <1>1, <1>2, RecordsAre
<1> QED
  BY <1>2, <1>3 DEF RecordsOf

\* The line of a preview is applied: to its article alone, so that a record says it unless
\* it is skipped, and without a new record where the wizard searches one.
LEMMA LineAppliedIs ==
    ASSUME kind \in Kinds, NEW before \in Seq(Entry), NEW table, Follows(before, table),
           NEW l \in SheetLine, SheetLineIsSound(l, before),
           NEW after, after = LineApplied(before, table, l)
    PROVE  /\ Leaves(table, after, l)
           /\ l.action = "none" => after = table
           /\ ~Skipped(l) => \E k \in RecordsOf(after, l.article) : after[k].value = l.value
           /\ kind \in {"status", "rule", "stock"} /\ RecordsOf(before, l.article) # {} =>
                 AddsNone(table, after)
<1>1. /\ table \in Seq(Entry) /\ Len(table) \in Nat
      /\ l.value \in Values \union {Unread} /\ l.action \in {"create", "update", "none"}
      /\ l.action # "none" => l.article \in Articles
  BY DEF Follows, SheetLine, SheetLineIsSound
<1>2. after = LineApplied(before, table, l)
  OBVIOUS
<1>3. Leaves(table, table, l)
  BY <1>1 DEF Leaves
<1>4. l.target # 0 => l.target \in RecordsOf(before, l.article)
  BY DEF SheetLineIsSound, RecordsOf
<1>5. l.target # 0 => l.target \in RecordsOf(table, l.article)
  BY <1>4, StillThere
<1> DEFINE Said == \E k \in RecordsOf(after, l.article) : after[k].value = l.value
<1>6. CASE l.action = "none"
  <2>1. after = table
    BY <1>2, <1>6 DEF LineApplied
  <2> QED
    BY <1>2, <1>3, <1>6, <2>1 DEF Skipped, AddsNone
<1>7. CASE l.action # "none" /\ kind = "status"
  <2>1. PICK i : i = Found(before, l.article)
    OBVIOUS
  <2>2. after = IF i = 0 THEN NewEntry(table, l) ELSE Overwrite(table, i, l)
    BY <1>2, <1>7, <2>1 DEF LineApplied, StatusApplied, Upserted
  <2>3. CASE i = 0
    <3>1. RecordsOf(before, l.article) = {}
      BY <2>1, <2>3, FoundIs
    <3>2. Leaves(table, after, l) /\ Said
      BY <1>1, <1>7, <2>2, <2>3, NewEntryLeaves
    <3> QED
      BY <1>2, <1>7, <3>1, <3>2
  <2>4. CASE i # 0
    <3>1. i \in RecordsOf(table, l.article)
      <4>1. i \in RecordsOf(before, l.article)
        BY <2>1, <2>4, FoundIs
      <4> QED
        BY <4>1, StillThere
    <3>2. Leaves(table, after, l) /\ AddsNone(table, after) /\ Said
      BY <1>1, <2>2, <2>4, <3>1, OverwriteLeaves DEF AddsNone
    <3> QED
      BY <1>2, <1>7, <3>2
  <2> QED
    BY <2>3, <2>4
<1>8. CASE l.action # "none" /\ kind \in {"rule", "stock"}
  <2>1. PICK i : i = Found(table, l.article)
    OBVIOUS
  <2>2. after = IF i = 0 THEN NewEntry(table, l) ELSE Overwrite(table, i, l)
    BY <1>2, <1>8, <2>1 DEF LineApplied, RuleApplied, Upserted
  <2>3. CASE i = 0
    <3>1. RecordsOf(before, l.article) = {}
      <4>1. RecordsOf(table, l.article) = {}
        BY <1>1, <2>1, <2>3, FoundIs
      <4> QED
        BY <4>1, StillThere
    <3>2. Leaves(table, after, l) /\ Said
      BY <1>1, <1>8, <2>2, <2>3, NewEntryLeaves
    <3> QED
      BY <1>2, <1>8, <3>1, <3>2
  <2>4. CASE i # 0
    <3>1. i \in RecordsOf(table, l.article)
      BY <1>1, <2>1, <2>4, FoundIs
    <3>2. Leaves(table, after, l) /\ AddsNone(table, after) /\ Said
      BY <1>1, <2>2, <2>4, <3>1, OverwriteLeaves DEF AddsNone
    <3> QED
      BY <1>2, <1>8, <3>2
  <2> QED
    BY <2>3, <2>4
<1>9. CASE l.action # "none" /\ kind = "price"
  <2>1. after = IF l.action = "create" THEN NewEntry(table, l)
                ELSE IF l.target = 0 THEN table ELSE Overwrite(table, l.target, l)
    BY <1>2, <1>9 DEF LineApplied, PriceApplied
  <2>2. CASE l.action = "create"
    <3>1. Leaves(table, after, l) /\ Said
      BY <1>1, <1>9, <2>1, <2>2, NewEntryLeaves
    <3> QED
      BY <1>2, <1>9, <3>1
  <2>3. CASE l.action # "create" /\ l.target = 0
    <3>1. after = table /\ Skipped(l)
      BY <1>1, <1>9, <2>1, <2>3 DEF Skipped
    <3> QED
      BY <1>2, <1>3, <1>9, <3>1
  <2>4. CASE l.action # "create" /\ l.target # 0
    <3>1. Leaves(table, after, l) /\ Said
      BY <1>1, <1>5, <2>1, <2>4, OverwriteLeaves
    <3> QED
      BY <1>2, <1>9, <3>1
  <2> QED
    BY <2>2, <2>3, <2>4
<1>10. CASE l.action # "none" /\ kind = "account"
  <2>1. after = IF l.target = 0 \/ l.value = Unread THEN table ELSE Overwrite(table, l.target, l)
    BY <1>2, <1>10 DEF LineApplied, AccountApplied
  <2>2. l.action = "update"
    BY <1>1, <1>10 DEF SheetLineIsSound
  <2>3. CASE l.target = 0 \/ l.value = Unread
    <3>1. after = table /\ Skipped(l)
      BY <1>10, <2>1, <2>2, <2>3 DEF Skipped
    <3> QED
      BY <1>2, <1>3, <1>10, <3>1
  <2>4. CASE ~(l.target = 0 \/ l.value = Unread)
    <3>1. Leaves(table, after, l) /\ Said
      BY <1>1, <1>5, <2>1, <2>4, OverwriteLeaves
    <3> QED
      BY <1>2, <1>10, <3>1
  <2> QED
    BY <2>3, <2>4
<1>11. kind \in {"status", "rule", "stock", "price", "account"}
  BY DEF Kinds
<1> QED
  BY <1>6, <1>7, <1>8, <1>9, <1>10, <1>11

\* A table still follows the one that the confirmation began with.
LEMMA StepFollows ==
    ASSUME NEW before \in Seq(Entry), NEW table, Follows(before, table),
           NEW after, NEW l, Leaves(table, after, l),
           kind \in {"status", "rule", "stock"} /\ RecordsOf(before, l.article) # {} =>
              AddsNone(table, after)
    PROVE  Follows(before, after)
<1>0. PICK p, q, b \in Nat : p = Len(table) /\ q = Len(after) /\ b = Len(before)
  <2>1. table \in Seq(Entry) /\ after \in Seq(Entry)
    BY DEF Follows, Leaves
  <2> QED
    BY <2>1
<1>1. /\ table \in Seq(Entry) /\ DOMAIN table = 1 .. p
      /\ after \in Seq(Entry) /\ DOMAIN after = 1 .. q
      /\ DOMAIN before = 1 .. b
      /\ b <= p /\ p <= q
  <2>1. /\ table \in Seq(Entry) /\ after \in Seq(Entry)
        /\ Len(before) <= Len(table) /\ Len(table) <= Len(after)
    BY DEF Follows, Leaves
  <2> QED
    BY <1>0, <2>1
<1>2. ASSUME NEW i \in DOMAIN before
      PROVE  after[i].live = before[i].live /\ after[i].article = before[i].article
  <2>1. i \in 1 .. p
    BY <1>1
  <2>2. table[i].live = before[i].live /\ table[i].article = before[i].article
    BY DEF Follows
  <2>3. after[i].live = table[i].live /\ after[i].article = table[i].article
    BY <1>0, <2>1 DEF Leaves
  <2> QED
    BY <2>2, <2>3
<1>3. ASSUME kind \in {"status", "rule", "stock"}, NEW a \in Articles, RecordsOf(before, a) # {}
      PROVE  RecordsOf(after, a) = RecordsOf(before, a)
  <2>1. RecordsOf(table, a) = RecordsOf(before, a)
    BY <1>3 DEF Follows
  <2>2. \A k \in 1 .. p : after[k].live = table[k].live /\ after[k].article = table[k].article
    BY <1>0 DEF Leaves
  <2>3. ASSUME NEW k \in 1 .. q, k > p PROVE after[k].article # a
    <3>1. after[k].article = l.article
      BY <1>0, <2>3 DEF Leaves
    <3>2. l.article # a
      <4>1. q # p
        BY <2>3
      <4> QED
        BY <1>0, <1>3, <4>1 DEF AddsNone
    <3> QED
      BY <3>1, <3>2
  <2>4. ASSUME NEW k \in RecordsOf(after, a) PROVE k \in RecordsOf(table, a)
    <3>1. k \in 1 .. q /\ after[k].live /\ after[k].article = a
      BY <1>1, <2>4 DEF RecordsOf
    <3>2. k \in 1 .. p
      BY <1>1, <2>3, <3>1
    <3> QED
      BY <1>1, <2>2, <3>1, <3>2 DEF RecordsOf
  <2>5. ASSUME NEW k \in RecordsOf(table, a) PROVE k \in RecordsOf(after, a)
    <3>1. k \in 1 .. p /\ table[k].live /\ table[k].article = a
      BY <1>1, <2>5 DEF RecordsOf
    <3>2. k \in 1 .. q
      BY <1>1, <3>1
    <3> QED
      BY <1>1, <2>2, <3>1, <3>2 DEF RecordsOf
  <2> QED
    BY <2>1, <2>4, <2>5
<1> QED
  BY <1>0, <1>1, <1>2, <1>3 DEF Follows

\* One more line is applied.
LEMMA StepApplies ==
    ASSUME NEW lines \in Seq(SheetLine), NEW n \in 1 .. Len(lines),
           NEW table \in Seq(Entry), LinesAreApplied(lines, n - 1, table),
           NEW after, Leaves(table, after, lines[n]),
           lines[n].action = "none" => after = table,
           ~Skipped(lines[n]) =>
              \E k \in RecordsOf(after, lines[n].article) : after[k].value = lines[n].value
    PROVE  LinesAreApplied(lines, n, after)
<1> SUFFICES ASSUME NEW m \in 1 .. n, ~Skipped(lines[m]),
                    \A k \in 1 .. n :
                       k > m /\ lines[k].action # "none" => lines[k].article # lines[m].article
             PROVE  \E i \in RecordsOf(after, lines[m].article) : after[i].value = lines[m].value
  BY DEF LinesAreApplied
<1>1. Len(lines) \in Nat /\ n \in Nat /\ m \in Nat
  OBVIOUS
<1>2. CASE m = n
  BY <1>2
<1>3. CASE m # n
  <2>1. m \in 1 .. n - 1 /\ n > m /\ n \in 1 .. n /\ \A k \in 1 .. n - 1 : k \in 1 .. n
    BY <1>1, <1>3
  <2>2. PICK i \in RecordsOf(table, lines[m].article) : table[i].value = lines[m].value
    BY <2>1 DEF LinesAreApplied
  <2>3. CASE lines[n].action = "none"
    BY <2>2, <2>3
  <2>4. CASE lines[n].action # "none"
    <3>1. lines[n].article # lines[m].article
      BY <2>1, <2>4
    <3>2. i \in 1 .. Len(table) /\ table[i].live /\ table[i].article = lines[m].article
          /\ Len(table) \in Nat
      BY <2>2 DEF RecordsOf
    <3>3. after[i] = table[i] /\ after \in Seq(Entry) /\ Len(table) <= Len(after)
      BY <3>1, <3>2 DEF Leaves
    <3>4. i \in 1 .. Len(after)
      BY <3>2, <3>3, RecordsAre
    <3>5. i \in RecordsOf(after, lines[m].article)
      BY <3>2, <3>3, <3>4 DEF RecordsOf
    <3> QED
      BY <2>2, <3>3, <3>5
  <2> QED
    BY <2>3, <2>4
<1> QED
  BY <1>2, <1>3

\* The tables that the first N lines leave, one after the other.
Tables(f, before, lines, N) ==
    f = [n \in 0 .. N |-> IF n = 0 THEN before ELSE LineApplied(before, f[n - 1], lines[n])]

LEMMA TablesExist ==
    ASSUME NEW before, NEW lines, NEW N \in Nat
    PROVE  \E f : Tables(f, before, lines, N)
<1> DEFINE P == {n \in 0 .. N : \E f : Tables(f, before, lines, n)}
<1>1. 0 \in P
  <2>1. Tables([n \in 0 .. 0 |-> before], before, lines, 0)
    <3> DEFINE f == [n \in 0 .. 0 |-> before]
    <3>1. \A n \in 0 .. 0 : n = 0
      OBVIOUS
    <3>2. f = [n \in 0 .. 0 |-> IF n = 0 THEN before ELSE LineApplied(before, f[n - 1], lines[n])]
      BY <3>1
    <3> QED
      BY <3>2 DEF Tables
  <2> QED
    BY <2>1
<1>2. ASSUME NEW n \in 0 .. N - 1, n \in P PROVE n + 1 \in P
  <2>1. PICK g : Tables(g, before, lines, n)
    BY <1>2
  <2>2. PICK last : last = LineApplied(before, g[n], lines[n + 1])
    OBVIOUS
  <2> DEFINE h == [k \in 0 .. n + 1 |-> IF k = n + 1 THEN last ELSE g[k]]
  <2>3. \A k \in 0 .. n : h[k] = g[k]
    OBVIOUS
  <2>4. \A k \in 0 .. n : g[k] = IF k = 0 THEN before ELSE LineApplied(before, g[k - 1], lines[k])
    BY <2>1 DEF Tables
  <2>5. ASSUME NEW k \in 0 .. n + 1
        PROVE  h[k] = IF k = 0 THEN before ELSE LineApplied(before, h[k - 1], lines[k])
    <3>1. CASE k = n + 1
      <4>1. k # 0 /\ k - 1 = n /\ n \in 0 .. n
        BY <3>1
      <4>2. h[k] = last /\ h[k - 1] = g[n]
        BY <2>3, <3>1, <4>1
      <4> HIDE DEF h
      <4> QED
        BY <2>2, <3>1, <4>1, <4>2
    <3>2. CASE k # n + 1 /\ k = 0
      <4>1. h[k] = g[k]
        BY <3>2
      <4> QED
        BY <2>4, <3>2, <4>1
    <3>3. CASE k # n + 1 /\ k # 0
      <4>1. k \in 0 .. n /\ k - 1 \in 0 .. n
        BY <3>3
      <4>2. h[k] = g[k] /\ h[k - 1] = g[k - 1]
        BY <2>3, <4>1
      <4> HIDE DEF h
      <4> QED
        BY <2>4, <3>3, <4>1, <4>2
    <3> QED
      BY <3>1, <3>2, <3>3
  <2>6. h = [k \in 0 .. n + 1 |-> IF k = 0 THEN before ELSE LineApplied(before, h[k - 1], lines[k])]
    BY <2>5
  <2>7. Tables(h, before, lines, n + 1)
    BY <2>6 DEF Tables
  <2>8. n + 1 \in 0 .. N
    OBVIOUS
  <2> HIDE DEF h
  <2> QED
    BY <2>7, <2>8
<1> HIDE DEF P
<1>3. N \in P
  BY <1>1, <1>2, CountInduction
<1> QED
  BY <1>3 DEF P

\* What the lines leave, line by line.
LEMMA TableAfterIs ==
    ASSUME NEW before, NEW lines \in Seq(SheetLine)
    PROVE  /\ TableAfter(before, lines)[0] = before
           /\ \A n \in 1 .. Len(lines) :
                 TableAfter(before, lines)[n] = LineApplied(before, TableAfter(before, lines)[n - 1], lines[n])
<1>1. PICK f : f = TableAfter(before, lines)
  OBVIOUS
<1>2. Len(lines) \in Nat
  OBVIOUS
<1>3. TableAfter(before, lines) = CHOOSE g : Tables(g, before, lines, Len(lines))
  BY DEF TableAfter, Tables
<1>4. Tables(f, before, lines, Len(lines))
  BY <1>1, <1>2, <1>3, TablesExist
<1>5. f[0] = before /\ \A n \in 1 .. Len(lines) : f[n] = LineApplied(before, f[n - 1], lines[n])
  <2>1. \A n \in 0 .. Len(lines) : f[n] = IF n = 0 THEN before ELSE LineApplied(before, f[n - 1], lines[n])
    BY <1>4 DEF Tables
  <2>2. 0 \in 0 .. Len(lines)
    BY <1>2
  <2>3. f[0] = before
    BY <2>1, <2>2
  <2>4. \A n \in 1 .. Len(lines) : n \in 0 .. Len(lines) /\ n # 0
    BY <1>2
  <2> QED
    BY <2>1, <2>3, <2>4
<1> QED
  BY <1>1, <1>5

\* All the lines of a sound preview are applied.
LEMMA LinesAreTold ==
    ASSUME kind \in Kinds, NEW before \in Seq(Entry), NEW lines \in Seq(SheetLine),
           \A n \in 1 .. Len(lines) : SheetLineIsSound(lines[n], before)
    PROVE  /\ Follows(before, TableAfter(before, lines)[Len(lines)])
           /\ LinesAreApplied(lines, Len(lines), TableAfter(before, lines)[Len(lines)])
<1>1. PICK t : t = TableAfter(before, lines)
  OBVIOUS
<1>2. /\ t[0] = before
      /\ \A n \in 1 .. Len(lines) : t[n] = LineApplied(before, t[n - 1], lines[n])
  BY <1>1, TableAfterIs
<1>3. PICK N \in Nat : N = Len(lines)
  OBVIOUS
<1> DEFINE P == {n \in 0 .. N : Follows(before, t[n]) /\ LinesAreApplied(lines, n, t[n])}
<1>4. 0 \in P
  <2>1. Follows(before, before)
    BY DEF Follows
  <2>2. LinesAreApplied(lines, 0, before)
    BY DEF LinesAreApplied
  <2> QED
    BY <1>2, <2>1, <2>2
<1>5. ASSUME NEW n \in 0 .. N - 1, n \in P PROVE n + 1 \in P
  <2>1. PICK k \in 1 .. Len(lines) : k = n + 1 /\ k - 1 = n /\ k \in 0 .. N
    BY <1>3
  <2>2. PICK l \in SheetLine : l = lines[k] /\ SheetLineIsSound(l, before)
    BY <1>3, <2>1
  <2>3. PICK table : table = t[n]
    OBVIOUS
  <2>4. Follows(before, table) /\ LinesAreApplied(lines, k - 1, table)
    BY <1>5, <2>1, <2>3
  <2>5. PICK after : after = LineApplied(before, table, l)
    OBVIOUS
  <2>6. /\ Leaves(table, after, l)
        /\ l.action = "none" => after = table
        /\ ~Skipped(l) => \E i \in RecordsOf(after, l.article) : after[i].value = l.value
        /\ kind \in {"status", "rule", "stock"} /\ RecordsOf(before, l.article) # {} =>
              AddsNone(table, after)
    <3>1. SheetLineIsSound(l, before) /\ Follows(before, table)
      BY <2>2, <2>4
    <3>2. Leaves(table, after, l)
      BY <2>5, <3>1, LineAppliedIs
    <3>3. l.action = "none" => after = table
      BY <2>5, <3>1, LineAppliedIs
    <3>4. ~Skipped(l) => \E i \in RecordsOf(after, l.article) : after[i].value = l.value
      BY <2>5, <3>1, LineAppliedIs
    <3>5. kind \in {"status", "rule", "stock"} /\ RecordsOf(before, l.article) # {} =>
              AddsNone(table, after)
      BY <2>5, <3>1, LineAppliedIs
    <3> QED
      BY <3>2, <3>3, <3>4, <3>5
  <2>7. Follows(before, after)
    BY <2>4, <2>6, StepFollows
  <2>8. table \in Seq(Entry)
    BY <2>4 DEF Follows
  <2>9. LinesAreApplied(lines, k, after)
    BY <2>2, <2>4, <2>6, <2>8, StepApplies
  <2>10. t[k] = after
    BY <1>2, <2>1, <2>2, <2>3, <2>5
  <2> QED
    BY <2>1, <2>7, <2>9, <2>10
<1> HIDE DEF P
<1>6. N \in P
  BY <1>3, <1>4, <1>5, CountInduction
<1> QED
  BY <1>1, <1>3, <1>6 DEF P

\* The fields of a wizard.
LEMMA WizardFields ==
    ASSUME NEW m \in Wizard
    PROVE  /\ m.pc \in {"draft", "loaded", "confirming", "done"}
           /\ m.lines \in Seq(SheetLine) /\ m.seen \in Seq(Entry) /\ m.result \in Seq(Entry)
           /\ Len(m.lines) \in Nat
BY DEF Wizard

\* Wizards that are sound over the new records.
LEMMA WizardsKeep ==
    ASSUME SheetIInv, UNCHANGED <<kind, unique>>, entries' \in Seq(Entry),
           wizard' \in [Wizards -> Wizard],
           \A w \in Wizards : WizardIsSound(wizard'[w], entries')
    PROVE  SheetIInv'
<1>1. ASSUME NEW w \in Wizards PROVE WizardIsSound(wizard[w], entries)'
  <2>1. PICK m : m = wizard'[w]
    OBVIOUS
  <2>2. PICK t : t = entries'
    OBVIOUS
  <2>3. WizardIsSound(m, t) /\ kind' = kind
    BY <2>1, <2>2
  <2>4. ASSUME NEW n \in 1 .. Len(m.lines) PROVE SheetLineIsSound(m.lines[n], t)'
    BY <2>3 DEF WizardIsSound, SheetLineIsSound
  <2>5. ASSUME m.pc = "confirming" PROVE ConfirmationIsSound(m, t)'
    <3>1. ConfirmationIsSound(m, t)
      BY <2>3, <2>5 DEF WizardIsSound
    <3>2. Follows(m.seen, m.result)'
      BY <2>3, <3>1 DEF ConfirmationIsSound, Follows
    <3>3. \A l : Skipped(l)' <=> Skipped(l)
      BY <2>3 DEF Skipped
    <3>4. LinesAreApplied(m.lines, Len(m.lines), m.result)'
      BY <2>3, <3>1, <3>3 DEF ConfirmationIsSound, LinesAreApplied
    <3> QED
      BY <3>1, <3>2, <3>4 DEF ConfirmationIsSound
  <2>6. WizardIsSound(m, t)'
    BY <2>4, <2>5 DEF WizardIsSound
  <2> QED
    BY <2>1, <2>2, <2>6
<1> QED
  BY <1>1 DEF SheetIInv

\* Records that stay where they are, with their articles, keep the wizards that did not
\* change sound.
LEMMA TableKeeps ==
    ASSUME SheetIInv, UNCHANGED <<kind, unique>>, entries' \in Seq(Entry),
           Len(entries) <= Len(entries'),
           \A i \in 1 .. Len(entries) : /\ entries'[i].article = entries[i].article
                                        /\ entries[i].live => entries'[i].live,
           wizard' \in [Wizards -> Wizard],
           \A w \in Wizards : wizard'[w] = wizard[w] \/ WizardIsSound(wizard'[w], entries')
    PROVE  SheetIInv'
<1>1. \A w \in Wizards : WizardIsSound(wizard[w], entries)
  BY DEF SheetIInv
<1>2. PICK p, q \in Nat : p = Len(entries) /\ q = Len(entries')
  BY SheetTypes
<1>3. DOMAIN entries = 1 .. p /\ DOMAIN entries' = 1 .. q /\ p <= q
  BY <1>2, SheetTypes
<1>4. ASSUME NEW l, SheetLineIsSound(l, entries) PROVE SheetLineIsSound(l, entries')
  <2>1. CASE l.target = 0
    BY <1>4, <2>1 DEF SheetLineIsSound
  <2>2. CASE l.target # 0
    <3>1. l.target \in 1 .. p /\ entries[l.target].live /\ entries[l.target].article = l.article
      BY <1>3, <1>4, <2>2 DEF SheetLineIsSound
    <3>2. l.target \in 1 .. q
      BY <1>3, <3>1
    <3>3. entries'[l.target].live /\ entries'[l.target].article = l.article
      BY <1>2, <3>1
    <3> QED
      BY <1>3, <1>4, <3>2, <3>3 DEF SheetLineIsSound
  <2> QED
    BY <2>1, <2>2
<1>5. ASSUME NEW w \in Wizards PROVE WizardIsSound(wizard'[w], entries')
  <2>1. CASE wizard'[w] = wizard[w]
    <3>1. PICK m : m = wizard[w]
      OBVIOUS
    <3>2. WizardIsSound(m, entries)
      BY <1>1, <3>1
    <3>3. \A n \in 1 .. Len(m.lines) : SheetLineIsSound(m.lines[n], entries')
      BY <1>4, <3>2 DEF WizardIsSound
    <3>4. ASSUME m.pc = "confirming" PROVE ConfirmationIsSound(m, entries')
      <4>1. ConfirmationIsSound(m, entries)
        BY <3>2, <3>4 DEF WizardIsSound
      <4>2. Len(m.seen) \in Nat
        BY <3>1, SheetTypes
      <4>3. Len(m.seen) <= Len(entries')
        BY <1>2, <1>3, <4>1, <4>2 DEF ConfirmationIsSound
      <4> QED
        BY <4>1, <4>3 DEF ConfirmationIsSound
    <3>5. WizardIsSound(m, entries')
      BY <3>3, <3>4 DEF WizardIsSound
    <3> QED
      BY <2>1, <3>1, <3>5
  <2>2. CASE WizardIsSound(wizard'[w], entries')
    BY <2>2
  <2> QED
    BY <2>1, <2>2
<1> QED
  BY <1>5, WizardsKeep

\* One wizard changes, over the same records.
LEMMA WizardKeeps ==
    ASSUME SheetIInv, NEW w \in Wizards, NEW m \in Wizard, WizardIsSound(m, entries),
           wizard' = [wizard EXCEPT ![w] = m], UNCHANGED <<kind, unique, entries>>
    PROVE  SheetIInv'
<1>1. wizard' \in [Wizards -> Wizard] /\ wizard'[w] = m
      /\ \A v \in Wizards : v # w => wizard'[v] = wizard[v]
  BY SheetTypes
<1>2. entries' = entries /\ Len(entries) \in Nat
  BY SheetTypes
<1>3. \A v \in Wizards : wizard'[v] = wizard[v] \/ WizardIsSound(wizard'[v], entries')
  BY <1>1, <1>2
<1>4. /\ entries' \in Seq(Entry) /\ Len(entries) <= Len(entries')
      /\ \A i \in 1 .. Len(entries) : /\ entries'[i].article = entries[i].article
                                      /\ entries[i].live => entries'[i].live
  BY <1>2, SheetTypes
<1> QED
  BY <1>1, <1>3, <1>4, TableKeeps

\* A new wizard is sound.
LEMMA NewWizardIs ==
    /\ NewWizard \in Wizard
    /\ \A table : WizardIsSound(NewWizard, table)
<1>1. NewWizard \in Wizard
  <2>1. <<>> \in Seq(SheetLine) /\ <<>> \in Seq(Entry)
    BY EmptySeq
  <2> QED
    BY <2>1 DEF NewWizard, Wizard
<1>2. NewWizard.lines = <<>> /\ NewWizard.pc = "draft"
  BY DEF NewWizard
<1> QED
  BY <1>1, <1>2 DEF WizardIsSound

\* A user adds a record.
LEMMA AddEntryKeeps ==
    ASSUME SheetIInv, NEW a \in Articles, NEW v \in Values, AddEntry(a, v)
    PROVE  SheetIInv'
<1>1. PICK t \in BOOLEAN : t = TRUE
  OBVIOUS
<1>2. PICK e : e = [article |-> a, value |-> v, live |-> t]
  OBVIOUS
<1>3. e \in Entry
  BY <1>2 DEF Entry
<1>4. entries' = Append(entries, e) /\ UNCHANGED <<kind, unique, wizard>>
  BY <1>1, <1>2, Zenon DEF AddEntry
<1>5. /\ entries' \in Seq(Entry) /\ Len(entries') = Len(entries) + 1
      /\ \A k \in 1 .. Len(entries) : entries'[k] = entries[k]
  BY <1>3, <1>4, SheetTypes, AppendProperties
<1>6. Len(entries) <= Len(entries')
  BY <1>5, SheetTypes
<1>7. /\ wizard' \in [Wizards -> Wizard]
      /\ \A w \in Wizards : wizard'[w] = wizard[w] \/ WizardIsSound(wizard'[w], entries')
  BY <1>4, SheetTypes
<1> QED
  BY <1>4, <1>5, <1>6, <1>7, TableKeeps

\* A user writes on a record.
LEMMA EditEntryKeeps ==
    ASSUME SheetIInv, NEW i \in DOMAIN entries, NEW v \in Values, EditEntry(i, v)
    PROVE  SheetIInv'
<1>1. i \in 1 .. Len(entries) /\ entries[i] \in Entry
  BY SheetTypes
<1>2. PICK e : e = [entries[i] EXCEPT !.value = v]
  OBVIOUS
<1>3. e \in Entry /\ e.article = entries[i].article
  BY <1>1, <1>2 DEF Entry
<1>4. e.live = entries[i].live
  BY <1>1, <1>2 DEF Entry
<1>5. entries' = [entries EXCEPT ![i] = e] /\ UNCHANGED <<kind, unique, wizard>>
  BY <1>2 DEF EditEntry
<1>6. /\ entries' \in Seq(Entry) /\ Len(entries') = Len(entries)
      /\ \A k \in 1 .. Len(entries) : entries'[k] = IF k = i THEN e ELSE entries[k]
  BY <1>1, <1>3, <1>5, SheetTypes, ExceptSeq
<1>7. Len(entries) <= Len(entries')
  BY <1>6, SheetTypes
<1>8. \A k \in 1 .. Len(entries) : /\ entries'[k].article = entries[k].article
                                   /\ entries[k].live => entries'[k].live
  BY <1>3, <1>4, <1>6
<1>9. /\ wizard' \in [Wizards -> Wizard]
      /\ \A w \in Wizards : wizard'[w] = wizard[w] \/ WizardIsSound(wizard'[w], entries')
  BY <1>5, SheetTypes
<1> QED
  BY <1>5, <1>6, <1>7, <1>8, <1>9, TableKeeps

\* A record is deleted, and the previews forget it.
LEMMA DeleteEntryKeeps ==
    ASSUME SheetIInv, NEW i \in DOMAIN entries, DeleteEntry(i)
    PROVE  SheetIInv'
<1>1. i \in 1 .. Len(entries) /\ entries[i] \in Entry /\ i # 0 /\ Len(entries) \in Nat
  BY SheetTypes
<1>2. PICK f \in BOOLEAN : f = FALSE
  OBVIOUS
<1>3. PICK e : e = [entries[i] EXCEPT !.live = f]
  OBVIOUS
<1>4. e \in Entry /\ e.article = entries[i].article
  BY <1>1, <1>3 DEF Entry
<1>5. /\ entries' = [entries EXCEPT ![i] = e] /\ UNCHANGED <<kind, unique>>
      /\ wizard' = [w \in Wizards |-> [wizard[w] EXCEPT !.lines = Forgetting(@, i)]]
  BY <1>2, <1>3, Zenon DEF DeleteEntry
<1>6. /\ entries' \in Seq(Entry) /\ Len(entries') = Len(entries)
      /\ \A k \in 1 .. Len(entries) : entries'[k] = IF k = i THEN e ELSE entries[k]
  BY <1>1, <1>4, <1>5, SheetTypes, ExceptSeq
<1>7. DOMAIN entries' = DOMAIN entries
  BY <1>5
<1>8. ASSUME NEW l \in SheetLine, SheetLineIsSound(l, entries), NEW n,
             n = IF l.target = i THEN [l EXCEPT !.target = 0] ELSE l
      PROVE  /\ n \in SheetLine /\ SheetLineIsSound(n, entries')
             /\ n.article = l.article /\ n.action = l.action /\ n.value = l.value
             /\ n.target = l.target \/ n.target = 0
  <2>1. CASE l.target = i
    <3>1. PICK z \in Nat : z = 0
      OBVIOUS
    <3>2. n = [l EXCEPT !.target = z]
      BY <1>8, <2>1, <3>1
    <3>3. /\ n \in SheetLine /\ n.target = z
          /\ n.article = l.article /\ n.action = l.action /\ n.value = l.value
      BY <3>2 DEF SheetLine
    <3> QED
      BY <1>8, <3>1, <3>3 DEF SheetLineIsSound
  <2>2. CASE l.target # i
    <3>1. n = l
      BY <1>8, <2>2
    <3>2. CASE l.target = 0
      BY <1>8, <3>1, <3>2 DEF SheetLineIsSound
    <3>3. CASE l.target # 0
      <4>1. l.target \in DOMAIN entries /\ entries[l.target].live /\ entries[l.target].article = l.article
        BY <1>8, <3>3 DEF SheetLineIsSound
      <4>2. entries'[l.target] = entries[l.target]
        BY <1>5, <2>2, <4>1
      <4> QED
        BY <1>7, <1>8, <3>1, <4>1, <4>2 DEF SheetLineIsSound
    <3> QED
      BY <3>2, <3>3
  <2> QED
    BY <2>1, <2>2
<1>9. ASSUME NEW w \in Wizards
      PROVE  wizard'[w] \in Wizard /\ WizardIsSound(wizard'[w], entries')
  <2>1. PICK m \in Wizard : m = wizard[w] /\ WizardIsSound(m, entries)
    BY SheetTypes DEF SheetIInv
  <2>2. m.lines \in Seq(SheetLine) /\ Len(m.lines) \in Nat
    BY WizardFields
  <2>3. PICK ls : ls = Forgetting(m.lines, i)
    OBVIOUS
  <2>4. ASSUME NEW n \in 1 .. Len(m.lines)
        PROVE  /\ ls[n] \in SheetLine /\ SheetLineIsSound(ls[n], entries')
               /\ ls[n].article = m.lines[n].article /\ ls[n].action = m.lines[n].action
               /\ ls[n].value = m.lines[n].value
               /\ ls[n].target = m.lines[n].target \/ ls[n].target = 0
    <3>1. PICK l \in SheetLine : l = m.lines[n]
      BY <2>2
    <3>2. SheetLineIsSound(l, entries)
      BY <2>1, <3>1 DEF WizardIsSound
    <3>3. PICK x : x = ls[n]
      OBVIOUS
    <3>4. x = IF l.target = i THEN [l EXCEPT !.target = 0] ELSE l
      BY <2>2, <2>3, <3>1, <3>3 DEF Forgetting
    <3>5. /\ x \in SheetLine /\ SheetLineIsSound(x, entries')
          /\ x.article = l.article /\ x.action = l.action /\ x.value = l.value
          /\ x.target = l.target \/ x.target = 0
      BY <1>8, <3>2, <3>4
    <3> QED
      BY <3>1, <3>3, <3>5
  <2>5. ls \in Seq(SheetLine) /\ Len(ls) = Len(m.lines)
    <3>1. ls = [n \in 1 .. Len(m.lines) |-> ls[n]]
      BY <2>2, <2>3 DEF Forgetting
    <3> QED
      BY <2>2, <2>4, <3>1
  <2>6. PICK x : x = [m EXCEPT !.lines = ls]
    OBVIOUS
  <2>7. wizard'[w] = x
    BY <1>5, <2>1, <2>3, <2>6
  <2>8. /\ x \in Wizard /\ x.pc = m.pc /\ x.lines = ls /\ x.seen = m.seen /\ x.result = m.result
    BY <2>5, <2>6 DEF Wizard
  <2>9. \A n \in 1 .. Len(x.lines) : SheetLineIsSound(x.lines[n], entries')
    BY <2>4, <2>5, <2>8
  <2>10. ASSUME x.pc = "confirming" PROVE ConfirmationIsSound(x, entries')
    <3>1. ConfirmationIsSound(m, entries)
      BY <2>1, <2>8, <2>10 DEF WizardIsSound
    <3>2. Len(x.seen) <= Len(entries') /\ Follows(x.seen, x.result)
      BY <1>6, <2>8, <3>1 DEF ConfirmationIsSound
    <3>3. PICK N : N = Len(m.lines)
      OBVIOUS
    <3>4. LinesAreApplied(ls, N, m.result)
      <4> SUFFICES ASSUME NEW n \in 1 .. N, ~Skipped(ls[n]),
                          \A k \in 1 .. N : k > n /\ ls[k].action # "none" => ls[k].article # ls[n].article
                   PROVE  \E r \in RecordsOf(m.result, ls[n].article) : m.result[r].value = ls[n].value
        BY DEF LinesAreApplied
      <4>1. ~Skipped(m.lines[n])
        BY <2>4, <3>3 DEF Skipped
      <4>2. \A k \in 1 .. N :
               k > n /\ m.lines[k].action # "none" => m.lines[k].article # m.lines[n].article
        BY <2>4, <3>3
      <4>3. \E r \in RecordsOf(m.result, m.lines[n].article) : m.result[r].value = m.lines[n].value
        BY <3>1, <3>3, <4>1, <4>2 DEF ConfirmationIsSound, LinesAreApplied
      <4> QED
        BY <2>4, <3>3, <4>3
    <3> QED
      BY <2>5, <2>8, <3>2, <3>3, <3>4 DEF ConfirmationIsSound
  <2> QED
    BY <2>7, <2>8, <2>9, <2>10 DEF WizardIsSound
<1>10. \A k \in 1 .. Len(entries) : entries'[k].article = entries[k].article
  BY <1>4, <1>6
<1>11. UNCHANGED <<kind, unique>> /\ wizard' \in [Wizards -> Wizard]
  BY <1>5, <1>9
<1> QED
  BY <1>1, <1>6, <1>9, <1>10, <1>11, WizardsKeep

\* What is previewed of a row is sound.
LEMMA LineOfIs ==
    ASSUME SheetIInv, NEW row \in [article : Articles \union {Unknown}, value : Values \union {Unread}]
    PROVE  LineOf(row) \in SheetLine /\ SheetLineIsSound(LineOf(row), entries)
<1>1. PICK i : i = IF IsPreviewed(row) THEN Found(entries, row.article) ELSE 0
  OBVIOUS
<1>2. PICK act : act = IF ~IsPreviewed(row) THEN "none" ELSE IF i = 0 THEN "create" ELSE "update"
  OBVIOUS
<1>3. PICK l : l = [article |-> row.article, value |-> row.value, target |-> i, action |-> act]
  OBVIOUS
<1>4. LineOf(row) = l
  BY <1>1, <1>2, <1>3 DEF LineOf
<1>5. /\ Found(entries, row.article) \in Nat
      /\ Found(entries, row.article) # 0 =>
            Found(entries, row.article) \in RecordsOf(entries, row.article)
  BY SheetTypes, FoundIs
<1>6. i \in Nat /\ act \in {"create", "update", "none"}
  BY <1>1, <1>2, <1>5
<1>7. /\ l.article = row.article /\ l.value = row.value /\ l.target = i /\ l.action = act
      /\ l \in SheetLine
  BY <1>3, <1>6 DEF SheetLine
<1>8. act # "none" => IsPreviewed(row)
  BY <1>2
<1>9. IsPreviewed(row) => row.article \in Articles
  BY DEF IsPreviewed, StatusRow, RuleRow, PriceRow, AccountRow, Known
<1>10. act = "create" => kind # "account"
  <2> SUFFICES ASSUME act = "create", kind = "account" PROVE FALSE
    OBVIOUS
  <2>1. IsPreviewed(row) /\ i = 0
    BY <1>2
  <2>2. Found(entries, row.article) # 0
    BY <2>1 DEF IsPreviewed, AccountRow
  <2> QED
    BY <1>1, <2>1, <2>2
<1>11. i # 0 => /\ i \in DOMAIN entries /\ entries[i].live /\ entries[i].article = row.article
  BY <1>1, <1>5 DEF RecordsOf
<1> QED
  BY <1>4, <1>7, <1>8, <1>9, <1>10, <1>11 DEF SheetLineIsSound

\* A sheet is loaded.
LEMMA LoadRowsKeeps ==
    ASSUME SheetIInv, NEW w \in Wizards, NEW s \in Sheets, LoadRows(w, s)
    PROVE  SheetIInv'
<1>1. s \in Seq([article : Articles \union {Unknown}, value : Values \union {Unread}])
  BY SheetAssumption
<1>2. PICK ls : ls = [n \in DOMAIN s |-> LineOf(s[n])]
  OBVIOUS
<1>3. PICK N \in Nat : N = Len(s)
  BY <1>1
<1>4. DOMAIN s = 1 .. N
  BY <1>1, <1>3
<1>5. ASSUME NEW n \in 1 .. N PROVE ls[n] \in SheetLine /\ SheetLineIsSound(ls[n], entries)
  <2>1. PICK row \in [article : Articles \union {Unknown}, value : Values \union {Unread}] : row = s[n]
    <3>1. PICK Rows : Rows = [article : Articles \union {Unknown}, value : Values \union {Unread}]
      OBVIOUS
    <3>2. s \in Seq(Rows)
      BY <1>1, <3>1
    <3>3. s[n] \in Rows
      BY <1>3, <3>2
    <3> QED
      BY <3>1, <3>3
  <2>2. ls[n] = LineOf(row)
    BY <1>2, <1>4, <2>1
  <2> QED
    BY <2>2, LineOfIs
<1>6. ls \in Seq(SheetLine) /\ Len(ls) = N
  <2>1. ls = [n \in 1 .. N |-> ls[n]]
    BY <1>2, <1>4
  <2> QED
    BY <1>5, <2>1
<1>7. PICK m : m = [NewWizard EXCEPT !.pc = "loaded", !.lines = ls]
  OBVIOUS
<1>8. m \in Wizard /\ m.pc = "loaded" /\ m.lines = ls
  BY <1>6, <1>7, NewWizardIs DEF Wizard
<1>9. WizardIsSound(m, entries)
  BY <1>5, <1>6, <1>8 DEF WizardIsSound
<1>10. wizard' = [wizard EXCEPT ![w] = m] /\ UNCHANGED <<kind, unique, entries>>
  BY <1>2, <1>7 DEF LoadRows
<1> QED
  BY <1>8, <1>9, <1>10, WizardKeeps

\* The confirmation begins.
LEMMA ConfirmLinesKeeps ==
    ASSUME SheetIInv, NEW w \in Wizards, ConfirmLines(w)
    PROVE  SheetIInv'
<1>1. PICK m \in Wizard : m = wizard[w] /\ WizardIsSound(m, entries)
  BY SheetTypes DEF SheetIInv
<1>2. PICK result : result = TableAfter(entries, m.lines)[Len(m.lines)]
  OBVIOUS
<1>3. m.lines \in Seq(SheetLine) /\ kind \in Kinds /\ entries \in Seq(Entry)
  BY SheetTypes, WizardFields
<1>4. Follows(entries, result) /\ LinesAreApplied(m.lines, Len(m.lines), result)
  BY <1>1, <1>2, <1>3, LinesAreTold DEF WizardIsSound
<1>5. PICK n : n = [m EXCEPT !.pc = "confirming", !.seen = entries, !.result = result]
  OBVIOUS
<1>6. result \in Seq(Entry)
  BY <1>4 DEF Follows
<1>7. n \in Wizard /\ n.lines = m.lines /\ n.seen = entries /\ n.result = result
  BY <1>3, <1>5, <1>6 DEF Wizard
<1>8. Len(entries) <= Len(entries)
  BY SheetTypes
<1>9. WizardIsSound(n, entries)
  BY <1>1, <1>4, <1>7, <1>8 DEF WizardIsSound, ConfirmationIsSound
<1>10. wizard' = [wizard EXCEPT ![w] = n] /\ UNCHANGED <<kind, unique, entries>>
  BY <1>1, <1>2, <1>5 DEF ConfirmLines
<1> QED
  BY <1>7, <1>9, <1>10, WizardKeeps

\* The confirmation is rolled back.
LEMMA RollbackKeeps ==
    ASSUME SheetIInv, NEW w \in Wizards, Rollback(w)
    PROVE  SheetIInv' /\ wizard'[w].pc = "loaded"
<1>1. PICK m \in Wizard : m = wizard[w] /\ WizardIsSound(m, entries)
  BY SheetTypes DEF SheetIInv
<1>2. PICK n : n = [m EXCEPT !.pc = "loaded", !.seen = <<>>, !.result = <<>>]
  OBVIOUS
<1>3. n \in Wizard /\ n.lines = m.lines /\ n.pc = "loaded"
  <2>1. PICK e \in Seq(Entry) : e = <<>>
    <3>1. <<>> \in Seq(Entry)
      BY EmptySeq
    <3> QED
      BY <3>1, Zenon
  <2>2. n = [m EXCEPT !.pc = "loaded", !.seen = e, !.result = e]
    BY <1>2, <2>1, Zenon
  <2> QED
    BY <2>2 DEF Wizard
<1>4. WizardIsSound(n, entries)
  BY <1>1, <1>3 DEF WizardIsSound
<1>5. wizard' = [wizard EXCEPT ![w] = n] /\ UNCHANGED <<kind, unique, entries>>
  BY <1>1, <1>2 DEF Rollback
<1>6. wizard'[w] = n
  BY <1>5, SheetTypes
<1> QED
  BY <1>3, <1>4, <1>5, <1>6, WizardKeeps

\* The wizard is opened again.
LEMMA ReopenKeeps ==
    ASSUME SheetIInv, NEW w \in Wizards, Reopen(w)
    PROVE  SheetIInv'
<1>1. PICK n \in Wizard : n = NewWizard /\ WizardIsSound(n, entries)
  BY NewWizardIs
<1>2. wizard' = [wizard EXCEPT ![w] = n] /\ UNCHANGED <<kind, unique, entries>>
  BY <1>1 DEF Reopen
<1> QED
  BY <1>1, <1>2, WizardKeeps

\* Places in a table of p records, to which r - q are added that had been placed after q.
PlacesAre(p, q, r) ==
    /\ r - q \in Nat /\ p + (r - q) \in Nat /\ q + 1 \in Int /\ r \in Int
    /\ \A i \in 1 .. p : i \in 1 .. p + (r - q) /\ i <= p
    /\ (IF q + 1 <= r THEN r - (q + 1) + 1 ELSE 0) = r - q
    /\ r - (q + 1) + 1 = r - q
    /\ \A i \in q + 1 .. r : /\ p + (i - q) \in 1 .. p + (r - q)
                             /\ ~(p + (i - q) <= p) /\ (p + (i - q)) - p = i - q
                             /\ i - q \in 1 .. r - q /\ q + 1 + (i - q) - 1 = i
                             /\ i \in 1 .. r

LEMMA MergedPlaces ==
    ASSUME NEW p \in Nat, NEW q \in Nat, NEW r \in Nat, q <= p, q <= r
    PROVE  PlacesAre(p, q, r)
BY DEF PlacesAre

\* The confirmation of w commits a table; lengths of the tables it is made of.
Merges(w, m, table, p, q, r) ==
    /\ wizard[w].pc = "confirming"
    /\ \A i \in Changed(w) : entries[i] = wizard[w].seen[i]
    /\ m \in Wizard /\ m = wizard[w] /\ table = Merged(w)
    /\ p \in Nat /\ p = Len(entries)
    /\ q \in Nat /\ q = Len(m.seen)
    /\ r \in Nat /\ r = Len(m.result)

\* What it commits is over the records of others.
IsMerged(w, m, table, p, q, r) ==
    /\ q <= p /\ q <= r
    /\ table \in Seq(Entry) /\ Len(table) = p + (r - q)
    /\ Changed(w) \subseteq 1 .. q
    /\ \A i \in 1 .. p : /\ table[i] = IF i \in Changed(w) THEN m.result[i] ELSE entries[i]
                         /\ table[i].article = entries[i].article
                         /\ table[i].live = entries[i].live
    /\ \A i \in q + 1 .. r : table[p + (i - q)] = m.result[i]

\* What a confirmation leaves over the records of others.
LEMMA MergedIs ==
    ASSUME SheetIInv, NEW w \in Wizards, NEW m, NEW table, NEW p, NEW q, NEW r,
           Merges(w, m, table, p, q, r)
    PROVE  IsMerged(w, m, table, p, q, r)
<1>0. /\ wizard[w].pc = "confirming"
      /\ \A i \in Changed(w) : entries[i] = wizard[w].seen[i]
      /\ m \in Wizard /\ m = wizard[w] /\ table = Merged(w)
      /\ p \in Nat /\ p = Len(entries)
      /\ q \in Nat /\ q = Len(m.seen)
      /\ r \in Nat /\ r = Len(m.result)
  BY DEF Merges
<1>1. ConfirmationIsSound(m, entries)
  BY <1>0 DEF SheetIInv, WizardIsSound
<1>2. /\ q <= p /\ Follows(m.seen, m.result) /\ q <= r
      /\ m.seen \in Seq(Entry) /\ m.result \in Seq(Entry) /\ entries \in Seq(Entry)
  BY <1>0, <1>1, WizardFields, SheetTypes DEF ConfirmationIsSound, Follows
<1>15. PlacesAre(p, q, r)
  <2>1. q <= p /\ q <= r
    BY <1>0, <1>2
  <2> QED
    BY <1>0, <2>1, MergedPlaces
<1>3. DOMAIN entries = 1 .. p /\ DOMAIN m.seen = 1 .. q
  BY <1>0, <1>2
<1>4. Changed(w) = {i \in 1 .. q : m.result[i] # m.seen[i]}
  BY <1>0, <1>3 DEF Changed
<1>5. PICK F : F = [i \in 1 .. p |-> IF i \in Changed(w) THEN m.result[i] ELSE entries[i]]
  OBVIOUS
<1>6. PICK G : G = SubSeq(m.result, q + 1, r)
  OBVIOUS
<1>7. table = F \o G
  BY <1>0, <1>3, <1>5, <1>6 DEF Merged
<1>8. \A i \in 1 .. q : i \in 1 .. r /\ m.result[i] \in Entry
  BY <1>0, <1>2
<1>9. \A i \in 1 .. p : entries[i] \in Entry
  BY <1>0, <1>2
<1>10. F \in Seq(Entry) /\ Len(F) = p
  <2>1. \A i \in 1 .. p : F[i] \in Entry
    BY <1>0, <1>4, <1>5, <1>8, <1>9
  <2>2. F = [i \in 1 .. p |-> F[i]]
    BY <1>0, <1>5
  <2> QED
    BY <1>0, <2>1, <2>2
<1>11. G \in Seq(Entry) /\ Len(G) = r - q /\ \A i \in 1 .. r - q : G[i] = m.result[q + 1 + i - 1]
  <2>1. PICK a, b \in Int : a = q + 1 /\ b = r
    BY <1>0, <1>15 DEF PlacesAre
  <2>2. PICK res : res = m.result
    OBVIOUS
  <2>3. \A i \in a .. b : res[i] \in Entry
    BY <1>0, <1>2, <1>15, <2>1, <2>2 DEF PlacesAre
  <2>4. PICK sub : sub = SubSeq(res, a, b)
    OBVIOUS
  <2>5. /\ sub \in Seq(Entry)
        /\ Len(sub) = IF a <= b THEN b - a + 1 ELSE 0
        /\ \A i \in 1 .. b - a + 1 : sub[i] = res[a + i - 1]
    BY <1>0, <2>3, <2>4, SubSeqProperties
  <2>6. sub = G
    BY <1>0, <1>6, <2>1, <2>2, <2>4
  <2> QED
    BY <1>0, <1>15, <2>1, <2>2, <2>5, <2>6 DEF PlacesAre
<1>12. /\ table \in Seq(Entry) /\ Len(table) = p + (r - q)
       /\ \A i \in 1 .. p + (r - q) : table[i] = IF i <= p THEN F[i] ELSE G[i - p]
  <2>1. F \in Seq(Entry) /\ G \in Seq(Entry) /\ Len(F) = p /\ Len(G) = r - q
    BY <1>0, <1>10, <1>11
  <2>2. PICK c : c = F \o G
    OBVIOUS
  <2>3. /\ c \in Seq(Entry) /\ Len(c) = Len(F) + Len(G)
        /\ \A i \in 1 .. Len(F) + Len(G) : c[i] = IF i <= Len(F) THEN F[i] ELSE G[i - Len(F)]
    BY <1>0, <2>1, <2>2, ConcatProperties
  <2>4. table = c
    BY <1>0, <1>7, <2>2
  <2> QED
    BY <1>0, <2>1, <2>3, <2>4
<1>13. ASSUME NEW i \in 1 .. p
       PROVE  /\ table[i] = IF i \in Changed(w) THEN m.result[i] ELSE entries[i]
              /\ table[i].article = entries[i].article /\ table[i].live = entries[i].live
  <2>1. i \in 1 .. p + (r - q) /\ i <= p
    BY <1>0, <1>15 DEF PlacesAre
  <2>2. table[i] = IF i \in Changed(w) THEN m.result[i] ELSE entries[i]
    BY <1>0, <1>5, <1>12, <2>1
  <2>3. CASE i \in Changed(w)
    <3>1. i \in DOMAIN m.seen /\ entries[i] = m.seen[i]
      BY <1>0, <1>3, <1>4, <2>3
    <3>2. m.result[i].live = m.seen[i].live /\ m.result[i].article = m.seen[i].article
      BY <1>0, <1>2, <3>1 DEF Follows
    <3> QED
      BY <1>0, <2>2, <2>3, <3>1, <3>2
  <2>4. CASE i \notin Changed(w)
    BY <1>0, <2>2, <2>4
  <2> QED
    BY <1>0, <2>2, <2>3, <2>4
<1>14. ASSUME NEW i \in q + 1 .. r PROVE table[p + (i - q)] = m.result[i]
  <2>1. PICK k : k = p + (i - q)
    OBVIOUS
  <2>2. PICK j : j = i - q
    OBVIOUS
  <2>3. k \in 1 .. p + (r - q) /\ ~(k <= p) /\ k - p = j /\ j \in 1 .. r - q /\ q + 1 + j - 1 = i
    BY <1>0, <1>15, <2>1, <2>2 DEF PlacesAre
  <2>4. table[k] = G[j]
    BY <1>0, <1>12, <2>3
  <2>5. G[j] = m.result[i]
    BY <1>0, <1>11, <2>3
  <2> QED
    BY <1>0, <2>1, <2>4, <2>5
<1> QED
  BY <1>0, <1>2, <1>4, <1>12, <1>13, <1>14 DEF IsMerged

\* What a confirmation commits: every record keeps its place and article.
LEMMA ConfirmationKeeps ==
    ASSUME SheetIInv, NEW w \in Wizards, Commit(w)
    PROVE  SheetIInv'
<1>1. PICK m \in Wizard : m = wizard[w] /\ WizardIsSound(m, entries)
  BY SheetTypes DEF SheetIInv
<1>2. PICK table : table = Merged(w)
  OBVIOUS
<1>3. entries' = table /\ UNCHANGED <<kind, unique>>
  BY <1>2 DEF Commit
<1>4. PICK p, q, r \in Nat : p = Len(entries) /\ q = Len(m.seen) /\ r = Len(m.result)
  BY SheetTypes, WizardFields
<1>5. /\ q <= p /\ q <= r
      /\ table \in Seq(Entry) /\ Len(table) = p + (r - q)
      /\ \A i \in 1 .. p : table[i].article = entries[i].article /\ table[i].live = entries[i].live
  <2>1. wizard[w].pc = "confirming" /\ \A i \in Changed(w) : entries[i] = wizard[w].seen[i]
    BY DEF Commit
  <2>2. Merges(w, m, table, p, q, r)
    BY <1>1, <1>2, <1>4, <2>1 DEF Merges
  <2>3. IsMerged(w, m, table, p, q, r)
    BY <2>2, MergedIs
  <2>4. q <= p /\ q <= r /\ table \in Seq(Entry) /\ Len(table) = p + (r - q)
    BY <2>3 DEF IsMerged
  <2>5. \A i \in 1 .. p : table[i].article = entries[i].article
    BY <2>3 DEF IsMerged
  <2>6. \A i \in 1 .. p : table[i].live = entries[i].live
    BY <2>3 DEF IsMerged
  <2> QED
    BY <2>4, <2>5, <2>6
<1>6. p <= Len(table)
  BY <1>5
<1>7. PICK n : n = [m EXCEPT !.pc = "done", !.seen = <<>>, !.result = <<>>]
  OBVIOUS
<1>8. n \in Wizard /\ n.lines = m.lines /\ n.pc = "done"
  <2>1. PICK e \in Seq(Entry) : e = <<>>
    <3>1. <<>> \in Seq(Entry)
      BY EmptySeq
    <3> QED
      BY <3>1, Zenon
  <2>2. n = [m EXCEPT !.pc = "done", !.seen = e, !.result = e]
    BY <1>7, <2>1, Zenon
  <2> QED
    BY <2>2 DEF Wizard
<1>9. wizard' = [wizard EXCEPT ![w] = n]
  BY <1>1, <1>7 DEF Commit
<1>10. wizard' \in [Wizards -> Wizard] /\ wizard'[w] = n
       /\ \A v \in Wizards : v # w => wizard'[v] = wizard[v]
  BY <1>8, <1>9, SheetTypes
<1>11. WizardIsSound(n, table)
  <2>1. ASSUME NEW k \in 1 .. Len(n.lines) PROVE SheetLineIsSound(n.lines[k], table)
    <3>1. PICK l : l = n.lines[k]
      OBVIOUS
    <3>2. SheetLineIsSound(l, entries)
      BY <1>1, <1>8, <3>1 DEF WizardIsSound
    <3>3. CASE l.target = 0
      BY <3>1, <3>2, <3>3 DEF SheetLineIsSound
    <3>4. CASE l.target # 0
      <4>1. PICK t : t = l.target
        OBVIOUS
      <4>2. t \in 1 .. p /\ entries[t].live /\ entries[t].article = l.article
        BY <1>4, <3>2, <3>4, <4>1, SheetTypes DEF SheetLineIsSound
      <4>3. table[t].live /\ table[t].article = l.article
        BY <1>5, <4>2
      <4>4. t \in DOMAIN table
        BY <1>5, <1>6, <4>2
      <4> QED
        BY <3>1, <3>2, <4>1, <4>3, <4>4 DEF SheetLineIsSound
    <3> QED
      BY <3>3, <3>4
  <2> QED
    BY <1>8, <2>1 DEF WizardIsSound
<1>12. \A v \in Wizards : wizard'[v] = wizard[v] \/ WizardIsSound(wizard'[v], entries')
  BY <1>3, <1>10, <1>11
<1>13. /\ entries' \in Seq(Entry) /\ Len(entries) <= Len(entries')
       /\ \A i \in 1 .. Len(entries) : /\ entries'[i].article = entries[i].article
                                       /\ entries[i].live => entries'[i].live
  BY <1>3, <1>4, <1>5, <1>6
<1> QED
  BY <1>3, <1>10, <1>12, <1>13, TableKeeps

\* Wizards start with nothing loaded, over at most one record.
LEMMA SheetFirst ==
    ASSUME SheetInit PROVE SheetIInv
<1>1. kind \in Kinds /\ unique \in BOOLEAN
  BY DEF SheetInit
<1>2. entries \in Seq(Entry)
  <2>1. CASE entries = <<>>
    BY <2>1, EmptySeq
  <2>2. CASE entries # <<>>
    <3>1. PICK a \in Articles, v \in Values : entries = <<[article |-> a, value |-> v, live |-> TRUE]>>
      BY <2>2 DEF SheetInit
    <3>2. PICK t \in BOOLEAN : t = TRUE
      OBVIOUS
    <3>3. PICK e : e = [article |-> a, value |-> v, live |-> t]
      OBVIOUS
    <3>4. e \in Entry
      BY <3>3 DEF Entry
    <3>5. entries = <<e>>
      BY <3>1, <3>2, <3>3, Zenon
    <3> QED
      BY <3>4, <3>5
  <2> QED
    BY <2>1, <2>2
<1>3. /\ wizard \in [Wizards -> Wizard]
      /\ \A w \in Wizards : WizardIsSound(wizard[w], entries)
  BY NewWizardIs DEF SheetInit
<1> QED
  BY <1>1, <1>2, <1>3 DEF SheetIInv

\* Every step keeps the wizards and the records sound.
LEMMA SheetIsKept ==
    ASSUME SheetIInv, [SheetNext]_sheetVars PROVE SheetIInv'
<1>1. ASSUME NEW a \in Articles, NEW v \in Values, AddEntry(a, v) PROVE SheetIInv'
  BY <1>1, AddEntryKeeps
<1>2. ASSUME NEW i \in DOMAIN entries, DeleteEntry(i) PROVE SheetIInv'
  BY <1>2, DeleteEntryKeeps
<1>3. ASSUME NEW i \in DOMAIN entries, NEW v \in Values, EditEntry(i, v) PROVE SheetIInv'
  BY <1>3, EditEntryKeeps
<1>4. ASSUME NEW w \in Wizards, NEW s \in Sheets, LoadRows(w, s) PROVE SheetIInv'
  BY <1>4, LoadRowsKeeps
<1>5. ASSUME NEW w \in Wizards, ConfirmLines(w) PROVE SheetIInv'
  BY <1>5, ConfirmLinesKeeps
<1>6. ASSUME NEW w \in Wizards, Retry(w) PROVE SheetIInv'
  BY <1>6, RollbackKeeps DEF Retry
<1>7. ASSUME NEW w \in Wizards, Refused(w) PROVE SheetIInv'
  BY <1>7, RollbackKeeps DEF Refused
<1>8. ASSUME NEW w \in Wizards, Commit(w) PROVE SheetIInv'
  BY <1>8, ConfirmationKeeps
<1>9. ASSUME NEW w \in Wizards, Reopen(w) PROVE SheetIInv'
  BY <1>9, ReopenKeeps
<1>10. ASSUME UNCHANGED sheetVars PROVE SheetIInv'
  <2>1. /\ UNCHANGED <<kind, unique>> /\ entries' = entries /\ wizard' = wizard
    BY <1>10 DEF sheetVars
  <2>2. entries' \in Seq(Entry) /\ wizard' \in [Wizards -> Wizard]
    BY <2>1, SheetTypes
  <2>3. \A w \in Wizards : WizardIsSound(wizard'[w], entries')
    BY <2>1 DEF SheetIInv
  <2> QED
    BY <2>1, <2>2, <2>3, WizardsKeep
<1> QED
  BY <1>1, <1>2, <1>3, <1>4, <1>5, <1>6, <1>7, <1>8, <1>9, <1>10 DEF SheetNext

\* A confirmation ends by committing alone.
LEMMA CommitOnly ==
    ASSUME SheetIInv, [SheetNext]_sheetVars, NEW w \in Wizards,
           wizard[w].pc = "confirming", wizard'[w].pc = "done"
    PROVE  Commit(w)
<1>0. wizard \in [Wizards -> Wizard]
  BY SheetTypes
<1>1. ASSUME wizard' = wizard PROVE FALSE
  BY <1>1
<1>2. ASSUME NEW i \in DOMAIN entries, DeleteEntry(i) PROVE FALSE
  <2>1. PICK m : m = wizard[w]
    OBVIOUS
  <2>2. m \in Wizard
    BY <1>0, <2>1
  <2>3. wizard'[w] = [m EXCEPT !.lines = Forgetting(@, i)]
    BY <1>2, <2>1 DEF DeleteEntry
  <2>4. wizard'[w].pc = m.pc
    BY <2>2, <2>3 DEF Wizard
  <2> QED
    BY <2>1, <2>4
<1>3. ASSUME NEW v \in Wizards, NEW s \in Sheets, LoadRows(v, s) PROVE FALSE
  BY <1>0, <1>3 DEF LoadRows
<1>4. ASSUME NEW v \in Wizards, ConfirmLines(v) PROVE FALSE
  BY <1>0, <1>4 DEF ConfirmLines
<1>5. ASSUME NEW v \in Wizards, Rollback(v) PROVE FALSE
  <2>1. CASE v = w
    BY <1>5, <2>1, RollbackKeeps
  <2>2. CASE v # w
    <3>1. wizard'[w] = wizard[w]
      BY <1>0, <1>5, <2>2 DEF Rollback
    <3> QED
      BY <3>1
  <2> QED
    BY <2>1, <2>2
<1>6. ASSUME NEW v \in Wizards, Commit(v) PROVE v = w
  <2> SUFFICES ASSUME v # w PROVE FALSE
    OBVIOUS
  <2>1. wizard'[w] = wizard[w]
    BY <1>0, <1>6 DEF Commit
  <2> QED
    BY <2>1
<1>7. ASSUME NEW v \in Wizards, Reopen(v) PROVE FALSE
  BY <1>0, <1>7 DEF Reopen
<1>8. CASE UNCHANGED sheetVars
  BY <1>1, <1>8 DEF sheetVars
<1>9. CASE SheetNext
  BY <1>1, <1>2, <1>3, <1>4, <1>5, <1>6, <1>7, <1>9 DEF SheetNext, AddEntry, EditEntry, Retry, Refused
<1> QED
  BY <1>8, <1>9

\* What a confirmation leaves: the lines that are not skipped, and no second record.
LEMMA CommitTells ==
    ASSUME SheetIInv, NEW w \in Wizards, Commit(w)
    PROVE  /\ \A n \in DOMAIN wizard[w].lines :
                 LET l == wizard[w].lines[n]  seen == wizard[w].seen IN
                 /\ LastRow(wizard[w].lines, n)
                 /\ ~Skipped(l)
                 /\ \A i \in RecordsOf(seen, l.article) : entries[i] = seen[i]
                 => \E i \in RecordsOf(entries', l.article) : entries'[i].value = l.value
           /\ \A a \in Articles :
                 /\ kind \in {"status", "rule", "stock"}
                 /\ RecordsOf(entries, a) = RecordsOf(wizard[w].seen, a)
                 /\ RecordsOf(entries, a) # {}
                 => RecordsOf(entries', a) = RecordsOf(entries, a)
<1>1. PICK m \in Wizard : m = wizard[w] /\ WizardIsSound(m, entries)
  BY SheetTypes DEF SheetIInv
<1>2. PICK table : table = Merged(w) /\ table = entries'
  BY DEF Commit
<1>3. PICK p, q, r \in Nat : p = Len(entries) /\ q = Len(m.seen) /\ r = Len(m.result)
  BY SheetTypes, WizardFields
<1>4. /\ q <= p /\ q <= r
      /\ table \in Seq(Entry) /\ Len(table) = p + (r - q)
      /\ Changed(w) \subseteq 1 .. q
      /\ \A i \in 1 .. p : /\ table[i] = IF i \in Changed(w) THEN m.result[i] ELSE entries[i]
                           /\ table[i].article = entries[i].article
                           /\ table[i].live = entries[i].live
      /\ \A i \in q + 1 .. r : table[p + (i - q)] = m.result[i]
  <2>1. wizard[w].pc = "confirming" /\ \A i \in Changed(w) : entries[i] = wizard[w].seen[i]
    BY DEF Commit
  <2>2. Merges(w, m, table, p, q, r)
    BY <1>1, <1>2, <1>3, <2>1 DEF Merges
  <2>3. IsMerged(w, m, table, p, q, r)
    BY <2>2, MergedIs
  <2> QED
    BY <2>3 DEF IsMerged
<1>5. PICK t \in Nat : t = p + (r - q)
  BY <1>4
<1>6. /\ DOMAIN entries = 1 .. p /\ DOMAIN m.seen = 1 .. q /\ DOMAIN m.result = 1 .. r
      /\ DOMAIN table = 1 .. t
  <2>1. entries \in Seq(Entry) /\ m.seen \in Seq(Entry) /\ m.result \in Seq(Entry)
    BY SheetTypes, WizardFields
  <2>2. table \in Seq(Entry) /\ Len(table) = t
    BY <1>4, <1>5
  <2> QED
    BY <1>3, <2>1, <2>2
<1>7. ConfirmationIsSound(m, entries)
  BY <1>1 DEF WizardIsSound, Commit
<1>8. PlacesAre(p, q, r)
  <2>1. q <= p /\ q <= r
    BY <1>4
  <2> QED
    BY <2>1, MergedPlaces
<1>9. ASSUME NEW n \in DOMAIN m.lines, NEW l, l = m.lines[n], LastRow(m.lines, n), ~Skipped(l),
             \A i \in RecordsOf(m.seen, l.article) : entries[i] = m.seen[i]
      PROVE  \E i \in RecordsOf(table, l.article) : table[i].value = l.value
  <2>1. m.lines \in Seq(SheetLine)
    BY WizardFields
  <2>2. DOMAIN m.lines = 1 .. Len(m.lines)
    BY <2>1
  <2>3. PICK i \in RecordsOf(m.result, l.article) : m.result[i].value = l.value
    BY <1>7, <1>9, <2>2 DEF ConfirmationIsSound, LinesAreApplied, LastRow
  <2>4. i \in 1 .. r /\ m.result[i].live /\ m.result[i].article = l.article
    BY <1>6, <2>3 DEF RecordsOf
  <2>5. CASE i <= q
    <3>1. i \in 1 .. q /\ i \in 1 .. p /\ i \in 1 .. t
      BY <1>4, <1>5, <2>4, <2>5
    <3>2. i \in RecordsOf(m.seen, l.article)
      BY <1>6, <1>7, <2>4, <3>1 DEF ConfirmationIsSound, Follows, RecordsOf
    <3>3. entries[i] = m.seen[i]
      BY <1>9, <3>2
    <3>4. table[i] = m.result[i]
      <4>1. CASE i \in Changed(w)
        BY <1>4, <3>1, <4>1
      <4>2. CASE i \notin Changed(w)
        <5>1. m.result[i] = m.seen[i]
          BY <1>1, <1>6, <3>1, <4>2 DEF Changed
        <5> QED
          BY <1>4, <3>1, <3>3, <4>2, <5>1
      <4> QED
        BY <4>1, <4>2
    <3>5. i \in RecordsOf(table, l.article)
      BY <1>6, <2>4, <3>1, <3>4 DEF RecordsOf
    <3> QED
      BY <2>3, <3>4, <3>5
  <2>6. CASE ~(i <= q)
    <3>1. i \in q + 1 .. r
      BY <2>4, <2>6
    <3>2. PICK k : k = p + (i - q)
      OBVIOUS
    <3>3. k \in 1 .. t
      BY <1>5, <1>8, <3>1, <3>2 DEF PlacesAre
    <3>4. table[k] = m.result[i]
      BY <1>4, <3>1, <3>2
    <3>5. k \in RecordsOf(table, l.article)
      BY <1>6, <2>4, <3>3, <3>4 DEF RecordsOf
    <3> QED
      BY <2>3, <3>4, <3>5
  <2> QED
    BY <2>5, <2>6
<1>10. ASSUME NEW a \in Articles, kind \in {"status", "rule", "stock"},
              RecordsOf(entries, a) = RecordsOf(m.seen, a), RecordsOf(entries, a) # {}
       PROVE  RecordsOf(table, a) = RecordsOf(entries, a)
  <2>1. RecordsOf(m.result, a) = RecordsOf(m.seen, a)
    BY <1>7, <1>10 DEF ConfirmationIsSound, Follows
  <2>2. ASSUME NEW k \in RecordsOf(table, a) PROVE k \in RecordsOf(entries, a)
    <3>1. k \in 1 .. t /\ table[k].live /\ table[k].article = a
      BY <1>6, <2>2 DEF RecordsOf
    <3>2. CASE k <= p
      <4>1. k \in 1 .. p
        BY <3>1, <3>2
      <4> QED
        BY <1>4, <1>6, <3>1, <4>1 DEF RecordsOf
    <3>3. CASE ~(k <= p)
      <4>1. PICK i \in q + 1 .. r : k = p + (i - q)
        <5>1. (k - p) + q \in q + 1 .. r /\ k = p + (((k - p) + q) - q)
          BY <1>4, <1>5, <3>1, <3>3
        <5> QED
          BY <5>1
      <4>2. table[k] = m.result[i] /\ i \in 1 .. r
        BY <1>4, <1>8, <4>1 DEF PlacesAre
      <4>3. i \in RecordsOf(m.result, a)
        BY <1>6, <3>1, <4>2 DEF RecordsOf
      <4>4. i \in 1 .. q
        BY <1>6, <2>1, <4>3 DEF RecordsOf
      <4> QED
        BY <4>1, <4>4
    <3> QED
      BY <3>2, <3>3
  <2>3. ASSUME NEW k \in RecordsOf(entries, a) PROVE k \in RecordsOf(table, a)
    <3>1. k \in 1 .. p /\ entries[k].live /\ entries[k].article = a
      BY <1>6, <2>3 DEF RecordsOf
    <3>2. k \in 1 .. t
      BY <1>4, <1>5, <3>1
    <3> QED
      BY <1>4, <1>6, <3>1, <3>2 DEF RecordsOf
  <2> QED
    BY <2>2, <2>3
<1> QED
  BY <1>1, <1>2, <1>9, <1>10

\* The previews point at records of their own article (load_file and the ondelete of the
\* lines of every wizard).
LEMMA SheetInvFollows == ASSUME SheetIInv PROVE SheetInv
<1> SUFFICES ASSUME NEW w \in Wizards, NEW n \in DOMAIN wizard[w].lines, wizard[w].lines[n].target # 0
             PROVE  LET l == wizard[w].lines[n] IN
                    /\ l.target \in DOMAIN entries
                    /\ entries[l.target].live /\ entries[l.target].article = l.article
  BY DEF SheetIInv, SheetInv
<1>1. n \in 1 .. Len(wizard[w].lines)
  BY SheetTypes
<1>2. SheetLineIsSound(wizard[w].lines[n], entries)
  BY <1>1 DEF SheetIInv, WizardIsSound
<1> QED
  BY <1>2 DEF SheetLineIsSound

\* Every wizard of custom_import_excel: previews point at records of their own article;
\* a confirmation leaves the last line of each article on a record of it, and no second
\* record of an article that has one.
THEOREM SheetsAreRight == SheetSpec => []SheetInv /\ SheetsAreTold
<1>1. SheetInit => SheetIInv
  BY SheetFirst
<1>2. SheetIInv /\ [SheetNext]_sheetVars => SheetIInv'
  BY SheetIsKept
<1>3. SheetIInv => SheetInv
  BY SheetInvFollows
<1>4. SheetIInv /\ [SheetNext]_sheetVars =>
        [\A w \in Wizards :
         wizard[w].pc = "confirming" /\ wizard'[w].pc = "done" =>
            \A n \in DOMAIN wizard[w].lines :
               LET l == wizard[w].lines[n]  seen == wizard[w].seen IN
               /\ LastRow(wizard[w].lines, n)
               /\ ~Skipped(l)
               /\ \A i \in RecordsOf(seen, l.article) : entries[i] = seen[i]
               => \E i \in RecordsOf(entries', l.article) : entries'[i].value = l.value]_sheetVars
  BY CommitOnly, CommitTells
<1>5. SheetIInv /\ [SheetNext]_sheetVars =>
        [\A w \in Wizards : \A a \in Articles :
         /\ kind \in {"status", "rule", "stock"}
         /\ wizard[w].pc = "confirming" /\ wizard'[w].pc = "done"
         /\ RecordsOf(entries, a) = RecordsOf(wizard[w].seen, a)
         /\ RecordsOf(entries, a) # {}
         => RecordsOf(entries', a) = RecordsOf(entries, a)]_sheetVars
  BY CommitOnly, CommitTells
<1> QED
  BY <1>1, <1>2, <1>3, <1>4, <1>5, PTL DEF SheetSpec, SheetsAreTold, SheetIsApplied, NoSecondRecord

-----------------------------------------------------------------------------
(* Barcodes.                                                               *)

\* What a transaction reads and leaves: at most one record is active, the main barcode
\* that was copied is its own, and a typed one stands where none is active.
AtMostOne(s) == \A c, d \in Active(s) : c = d

IsSound(s) ==
    /\ s \in Snapshot /\ AtMostOne(s)
    /\ s.source = "copy" => Active(s) = {s.main} \ {NoCode}
    /\ s.source = "form" => Active(s) = {}

\* What a request did since the snapshot b that it runs on: it wrote the rows that it
\* changed; it turns no record on without writing the main barcode, nor one off where the
\* main barcode is its copy; and a copy is made with the rows of what was active and is.
Ran(b, n) ==
    /\ n \in Snapshot /\ (n.open <=> b.open)
    /\ \A c \in Codes : c \notin n.wrote => n.record[c] = b.record[c]
    /\ "product" \notin n.wrote => /\ n.main = b.main /\ n.source = b.source
                                   /\ Active(n) \subseteq Active(b)
                                   /\ b.source = "copy" => Active(n) = Active(b)
    /\ "product" \in n.wrote /\ n.source = "copy" => Active(b) \cup Active(n) \subseteq n.wrote

\* What the commits that wrote these rows leave of the snapshot old: the other rows are as
\* it shows them, and who turned a record on wrote the main barcode too.
KeptSince(old, now, rows) ==
    /\ \A c \in Codes : c \notin rows => now.record[c] = old.record[c]
    /\ "product" \notin rows => /\ now.main = old.main /\ now.source = old.source
                                /\ Active(now) \subseteq Active(old)
    /\ "product" \in rows /\ now.source = "copy" => Active(now) \subseteq rows

\* The inductive invariant of the barcodes.
BarcodeIInv ==
    /\ BarcodeTypeOK
    /\ IsSound(Now)
    /\ IF slow.open THEN slow.wrote = {} /\ IsSound(slow) /\ KeptSince(slow, Now, stale) ELSE stale = {}

\* The barcodes.
LEMMA CodesAre ==
    /\ Order \in Seq(Codes) /\ Len(Order) \in Nat /\ DOMAIN Order = 1 .. Len(Order)
    /\ NoCode \notin Codes /\ "product" \notin Codes
    /\ OfX3 \in Codes /\ \A c \in Codes : Corrected[c] \in Codes
    /\ \A c \in Codes : \E k \in 1 .. Len(Order) : Order[k] = c
    /\ \A k \in 1 .. Len(Order) : Order[k] \in Codes
    /\ \A j, k \in 1 .. Len(Order) : Order[j] = Order[k] => j = k
<1>1. /\ Order \in Seq(Codes) /\ NoCode \notin Codes /\ "product" \notin Codes /\ OfX3 \in Codes
      /\ Corrected \in [Codes -> Codes]
  BY BarcodeAssumption
<1>2. IsInjective(Order)
  BY BarcodeAssumption
<1>3. Len(Order) \in Nat /\ DOMAIN Order = 1 .. Len(Order)
  BY <1>1
<1>4. \A c \in Codes : \E k \in 1 .. Len(Order) : Order[k] = c
  BY <1>3 DEF Codes, Range
<1>5. \A k \in 1 .. Len(Order) : Order[k] \in Codes
  BY <1>3 DEF Codes, Range
<1>6. \A j, k \in 1 .. Len(Order) : Order[j] = Order[k] => j = k
  BY <1>2, <1>3 DEF IsInjective
<1> QED
  BY <1>1, <1>3, <1>4, <1>5, <1>6

\* Records of some barcodes have a latest one.
LEMMA LatestIs ==
    ASSUME NEW S \in SUBSET Codes, S # {}
    PROVE  Latest(S) \in S
<1>1. ASSUME NEW c \in Codes PROVE Place(c) \in 1 .. Len(Order)
  BY CodesAre DEF Place
<1>2. PICK N \in Nat : N = Len(Order)
  BY CodesAre
<1> DEFINE P == {Place(c) : c \in S}
<1>3. P \in SUBSET (1 .. N) /\ P # {}
  BY <1>1, <1>2
<1>4. PICK i \in P : \A j \in P : j <= i
  <2> HIDE DEF P
  <2> QED
    BY <1>3, GreatestExists
<1>5. PICK c \in S : Place(c) = i
  OBVIOUS
<1>6. \A d \in S : Place(d) <= Place(c)
  BY <1>4, <1>5
<1> QED
  BY <1>6 DEF Latest

\* The types of a snapshot.
LEMMA SnapshotIs ==
    ASSUME NEW s \in Snapshot
    PROVE  /\ s.record \in [Codes -> {"none", "off", "on"}]
           /\ s.main \in Codes \cup {NoCode} /\ s.source \in Source
           /\ s.wrote \subseteq Row /\ s.open \in BOOLEAN
           /\ Active(s) \subseteq Records(s) /\ Records(s) \subseteq Codes
           /\ Active(s) \subseteq Codes
BY DEF Snapshot, Active, Records

\* Records are written.
LEMMA MarkedIs ==
    ASSUME NEW s \in Snapshot, NEW S \in SUBSET Codes, NEW mark \in {"none", "off", "on"},
           NEW n, n = Marked(s, S, mark)
    PROVE  /\ n \in Snapshot /\ (n.open <=> s.open)
           /\ n.main = s.main /\ n.source = s.source /\ n.wrote = s.wrote \cup S
           /\ \A c \in Codes : n.record[c] = IF c \in S THEN mark ELSE s.record[c]
<1>1. PICK r : r = [c \in Codes |-> IF c \in S THEN mark ELSE s.record[c]]
  OBVIOUS
<1>2. PICK W : W = s.wrote \cup S
  OBVIOUS
<1>3. n = [s EXCEPT !.record = r, !.wrote = W]
  BY <1>1, <1>2 DEF Marked
<1>4. /\ s.record \in [Codes -> {"none", "off", "on"}] /\ s.wrote \subseteq Row
      /\ s.main \in Codes \cup {NoCode} /\ s.source \in Source /\ s.open \in BOOLEAN
  BY SnapshotIs
<1>5. r \in [Codes -> {"none", "off", "on"}]
  BY <1>1, <1>4
<1>6. W \in SUBSET Row
  BY <1>2, <1>4 DEF Row
<1>7. n \in Snapshot /\ n.main = s.main /\ n.source = s.source /\ n.wrote = W /\ n.record = r
  BY <1>3, <1>5, <1>6 DEF Snapshot
<1>8. n.open = s.open
  BY <1>3 DEF Snapshot
<1> QED
  BY <1>1, <1>2, <1>7, <1>8

\* The main barcode is written.
LEMMA WithMainIs ==
    ASSUME NEW s \in Snapshot, NEW c \in Codes \cup {NoCode}, NEW by \in Source,
           NEW n, n = WithMain(s, c, by)
    PROVE  /\ n \in Snapshot /\ (n.open <=> s.open)
           /\ n.main = c /\ n.source = by /\ n.wrote = s.wrote \cup {"product"}
           /\ n.record = s.record /\ Active(n) = Active(s) /\ Records(n) = Records(s)
<1>1. PICK W : W = s.wrote \cup {"product"}
  OBVIOUS
<1>2. n = [s EXCEPT !.main = c, !.source = by, !.wrote = W]
  BY <1>1 DEF WithMain
<1>3. s.wrote \subseteq Row
  BY SnapshotIs
<1>4. W \in SUBSET Row
  BY <1>1, <1>3 DEF Row
<1>5. n \in Snapshot /\ n.main = c /\ n.source = by /\ n.wrote = W /\ n.record = s.record
  BY <1>2, <1>4 DEF Snapshot
<1>6. n.open = s.open
  BY <1>2 DEF Snapshot
<1>7. Active(n) = Active(s) /\ Records(n) = Records(s)
  BY <1>5 DEF Active, Records
<1> QED
  BY <1>1, <1>5, <1>6, <1>7

\* The main barcode is copied.
LEMMA SyncIs ==
    ASSUME NEW s \in Snapshot, NEW c \in Codes \cup {NoCode}, NEW n, n = Sync(s, c)
    PROVE  /\ n \in Snapshot /\ (n.open <=> s.open)
           /\ n.main = c /\ n.source = "copy" /\ n.wrote = s.wrote \cup {"product"}
           /\ n.record = s.record /\ Active(n) = Active(s) /\ Records(n) = Records(s)
<1>1. PICK by \in Source : by = "copy"
  BY DEF Source
<1>2. n = WithMain(s, c, by)
  BY <1>1 DEF Sync
<1> QED
  BY <1>1, <1>2, WithMainIs

\* A request runs on its own snapshot.
LEMMA NothingRan ==
    ASSUME NEW b, IsSound(b), b.wrote = {}
    PROVE  Ran(b, b)
BY DEF Ran, IsSound

\* The main barcode is written, with the rows of what was active and is if it is copied.
LEMMA MainRan ==
    ASSUME NEW b, b \in Snapshot, NEW s, Ran(b, s),
           NEW n \in Snapshot, n.open <=> s.open, "product" \in n.wrote, s.wrote \subseteq n.wrote,
           \A c \in Codes : c \notin n.wrote => n.record[c] = s.record[c],
           n.source = "copy" => Active(s) \cup Active(n) \subseteq n.wrote
    PROVE  Ran(b, n)
<1>1. \A c \in Codes : c \notin n.wrote => n.record[c] = b.record[c]
  BY DEF Ran
<1>2. ASSUME n.source = "copy" PROVE Active(b) \subseteq n.wrote
  BY <1>2, <1>1 DEF Ran, Active
<1>3. n.open <=> b.open
  BY DEF Ran
<1> QED
  BY <1>1, <1>2, <1>3 DEF Ran

\* The main barcode is left alone, and no record is turned on.
LEMMA QuietRan ==
    ASSUME NEW b, b \in Snapshot, NEW s, Ran(b, s),
           NEW n \in Snapshot, n.open <=> s.open, n.main = s.main, n.source = s.source,
           s.wrote \subseteq n.wrote, "product" \in n.wrote => "product" \in s.wrote,
           \A c \in Codes : c \notin n.wrote => n.record[c] = s.record[c],
           Active(n) \subseteq Active(s), s.source = "copy" => Active(n) = Active(s)
    PROVE  Ran(b, n)
<1>1. \A c \in Codes : c \notin n.wrote => n.record[c] = b.record[c]
  BY DEF Ran
<1>2. n.open <=> b.open
  BY DEF Ran
<1> QED
  BY <1>1, <1>2 DEF Ran

\* A record becomes the active one, and the main barcode its copy.
LEMMA OneIsActive ==
    ASSUME NEW b, b \in Snapshot, NEW s, Ran(b, s), NEW c \in Codes,
           NEW t \in Snapshot, t.open <=> s.open,
           s.wrote \cup Active(s) \cup {c} \subseteq t.wrote,
           \A d \in Codes : d \notin t.wrote => t.record[d] = s.record[d],
           Active(t) = {c},
           NEW n, n = Sync(t, c)
    PROVE  Ran(b, n) /\ IsSound(n) /\ Active(n) = {c} /\ Records(n) = Records(t)
<1>1. /\ n \in Snapshot /\ (n.open <=> t.open) /\ n.main = c /\ n.source = "copy"
      /\ n.wrote = t.wrote \cup {"product"} /\ n.record = t.record
      /\ Active(n) = Active(t) /\ Records(n) = Records(t)
  <2>1. c \in Codes \cup {NoCode}
    OBVIOUS
  <2> QED
    BY <2>1, SyncIs
<1>2. IsSound(n)
  BY <1>1, CodesAre DEF IsSound, AtMostOne
<1>3. /\ n.open <=> s.open
      /\ "product" \in n.wrote /\ s.wrote \subseteq n.wrote
      /\ \A d \in Codes : d \notin n.wrote => n.record[d] = s.record[d]
      /\ Active(s) \cup Active(n) \subseteq n.wrote
  BY <1>1
<1>4. Ran(b, n)
  BY <1>1, <1>3, MainRan
<1> QED
  BY <1>1, <1>2, <1>4

\* A record is made the active one.
LEMMA ActivateIs ==
    ASSUME NEW s \in Snapshot, NEW c \in Codes, NEW n, n = Activate(s, c)
    PROVE  /\ n \in Snapshot /\ (n.open <=> s.open) /\ n.main = c /\ n.source = "copy"
           /\ Active(n) = {c} /\ Records(n) = Records(s) \cup {c}
           /\ s.wrote \cup Active(s) \cup {c, "product"} \subseteq n.wrote
           /\ \A d \in Codes : d \notin n.wrote => n.record[d] = s.record[d]
<1>1. Active(s) \subseteq Codes
  BY SnapshotIs
<1>2. PICK S \in SUBSET Codes : S = Active(s) \ {c}
  BY <1>1
<1>3. PICK u : u = Marked(s, S, "off")
  OBVIOUS
<1>4. /\ u \in Snapshot /\ (u.open <=> s.open) /\ u.wrote = s.wrote \cup S
      /\ \A d \in Codes : u.record[d] = IF d \in S THEN "off" ELSE s.record[d]
  BY <1>2, <1>3, MarkedIs
<1>5. PICK C \in SUBSET Codes : C = {c}
  OBVIOUS
<1>6. PICK t : t = Marked(u, C, "on")
  OBVIOUS
<1>7. /\ t \in Snapshot /\ (t.open <=> u.open) /\ t.wrote = u.wrote \cup C
      /\ \A d \in Codes : t.record[d] = IF d \in C THEN "on" ELSE u.record[d]
  BY <1>4, <1>5, <1>6, MarkedIs
<1>8. /\ s.wrote \cup Active(s) \cup {c} \subseteq t.wrote
      /\ \A d \in Codes : d \notin t.wrote => t.record[d] = s.record[d]
  BY <1>2, <1>4, <1>5, <1>7
<1>9. Active(t) = {c}
  BY <1>1, <1>2, <1>4, <1>5, <1>7 DEF Active
<1>10. Records(t) = Records(s) \cup {c}
  BY <1>1, <1>2, <1>4, <1>5, <1>7 DEF Active, Records
<1>11. n = Sync(t, c)
  BY <1>2, <1>3, <1>5, <1>6 DEF Activate
<1>12. /\ n \in Snapshot /\ (n.open <=> t.open)
       /\ n.main = c /\ n.source = "copy" /\ n.wrote = t.wrote \cup {"product"}
       /\ n.record = t.record /\ Active(n) = Active(t) /\ Records(n) = Records(t)
  BY <1>7, <1>11, SyncIs
<1> QED
  BY <1>4, <1>7, <1>8, <1>9, <1>10, <1>12

LEMMA ActivateRan ==
    ASSUME NEW b, b \in Snapshot, NEW s, Ran(b, s), NEW c \in Codes, NEW n, n = Activate(s, c)
    PROVE  Ran(b, n) /\ IsSound(n)
<1>1. s \in Snapshot
  BY DEF Ran
<1>2. /\ n \in Snapshot /\ (n.open <=> s.open) /\ n.main = c /\ n.source = "copy"
      /\ Active(n) = {c}
      /\ s.wrote \cup Active(s) \cup {c, "product"} \subseteq n.wrote
      /\ \A d \in Codes : d \notin n.wrote => n.record[d] = s.record[d]
  BY <1>1, ActivateIs
<1>3. IsSound(n)
  BY <1>2, CodesAre DEF IsSound, AtMostOne
<1>4. /\ "product" \in n.wrote /\ s.wrote \subseteq n.wrote
      /\ Active(s) \cup Active(n) \subseteq n.wrote
  BY <1>2
<1> QED
  BY <1>2, <1>3, <1>4, MainRan

\* A record is added: the active one if there was none.
LEMMA CreateRan ==
    ASSUME NEW b, b \in Snapshot, NEW s, Ran(b, s), IsSound(s), NEW c \in Codes, s.record[c] = "none",
           NEW on \in BOOLEAN, on => Active(s) = {}, NEW n, n = Create(s, c, on)
    PROVE  Ran(b, n) /\ IsSound(n)
<1>1. s \in Snapshot /\ c \notin Active(s)
  BY DEF IsSound, Active
<1>2. PICK C \in SUBSET Codes : C = {c}
  OBVIOUS
<1>3. CASE Active(s) = {}
  <2>1. PICK t : t = Marked(s, C, "on")
    OBVIOUS
  <2>2. /\ t \in Snapshot /\ (t.open <=> s.open) /\ t.wrote = s.wrote \cup C
        /\ \A d \in Codes : t.record[d] = IF d \in C THEN "on" ELSE s.record[d]
    BY <1>1, <2>1, MarkedIs
  <2>3. Active(t) = {c}
    BY <1>2, <1>3, <2>2 DEF Active
  <2>4. s.wrote \cup Active(s) \cup {c} \subseteq t.wrote
    BY <1>2, <1>3, <2>2
  <2>5. \A d \in Codes : d \notin t.wrote => t.record[d] = s.record[d]
    BY <2>2
  <2>6. n = Sync(t, c)
    BY <1>2, <1>3, <2>1 DEF Create
  <2> QED
    BY <2>2, <2>3, <2>4, <2>5, <2>6, OneIsActive
<1>4. CASE Active(s) # {}
  <2>1. n = Marked(s, C, "off")
    BY <1>2, <1>4 DEF Create
  <2>2. /\ n \in Snapshot /\ (n.open <=> s.open) /\ n.wrote = s.wrote \cup C
        /\ n.main = s.main /\ n.source = s.source
        /\ \A d \in Codes : n.record[d] = IF d \in C THEN "off" ELSE s.record[d]
    BY <1>1, <2>1, MarkedIs
  <2>3. Active(n) = Active(s)
    BY <1>1, <1>2, <2>2 DEF Active
  <2>4. IsSound(n)
    BY <2>2, <2>3 DEF IsSound, AtMostOne
  <2>5. /\ s.wrote \subseteq n.wrote /\ ("product" \in n.wrote => "product" \in s.wrote)
        /\ \A d \in Codes : d \notin n.wrote => n.record[d] = s.record[d]
        /\ Active(n) \subseteq Active(s) /\ (s.source = "copy" => Active(n) = Active(s))
    BY <1>2, <2>2, <2>3, CodesAre
  <2> QED
    BY <2>2, <2>4, <2>5, QuietRan
<1> QED
  BY <1>3, <1>4

\* The active record is written off.
LEMMA DeactivateRan ==
    ASSUME NEW b, b \in Snapshot, NEW s, Ran(b, s), IsSound(s), NEW c \in Active(s),
           NEW n, n = Deactivate(s, c)
    PROVE  Ran(b, n) /\ IsSound(n)
<1>1. s \in Snapshot /\ c \in Codes /\ Active(s) = {c}
  BY DEF IsSound, AtMostOne, Active
<1>2. PICK C \in SUBSET Codes : C = {c}
  BY <1>1
<1>3. PICK t : t = Marked(s, C, "off")
  OBVIOUS
<1>4. /\ t \in Snapshot /\ (t.open <=> s.open) /\ t.wrote = s.wrote \cup C
      /\ t.main = s.main /\ t.source = s.source
      /\ \A d \in Codes : t.record[d] = IF d \in C THEN "off" ELSE s.record[d]
  BY <1>1, <1>3, MarkedIs
<1>5. Active(t) = {}
  BY <1>1, <1>2, <1>4 DEF Active
<1>6. /\ s.wrote \subseteq t.wrote /\ Active(s) \subseteq t.wrote
      /\ \A d \in Codes : d \notin t.wrote => t.record[d] = s.record[d]
      /\ "product" \in t.wrote => "product" \in s.wrote
  BY <1>1, <1>2, <1>4, CodesAre
<1>7. CASE s.main = c
  <2>1. n = Sync(t, NoCode)
    BY <1>2, <1>3, <1>5, <1>7 DEF Deactivate, Resynced
  <2>2. /\ n \in Snapshot /\ (n.open <=> t.open)
        /\ n.main = NoCode /\ n.source = "copy" /\ n.wrote = t.wrote \cup {"product"}
        /\ n.record = t.record /\ Active(n) = Active(t)
    BY <1>4, <2>1, SyncIs
  <2>3. IsSound(n)
    BY <1>5, <2>2 DEF IsSound, AtMostOne
  <2>4. /\ n.open <=> s.open
        /\ "product" \in n.wrote /\ s.wrote \subseteq n.wrote
        /\ \A d \in Codes : d \notin n.wrote => n.record[d] = s.record[d]
        /\ n.source = "copy" => Active(s) \cup Active(n) \subseteq n.wrote
    BY <1>4, <1>5, <1>6, <2>2
  <2> QED
    BY <2>2, <2>3, <2>4, MainRan
<1>8. CASE s.main # c
  <2>1. n = t
    BY <1>2, <1>3, <1>8 DEF Deactivate
  <2>2. s.source # "copy" /\ s.source # "form"
    BY <1>1, <1>8 DEF IsSound
  <2>3. IsSound(n)
    BY <1>4, <1>5, <2>1, <2>2 DEF IsSound, AtMostOne
  <2>4. Active(t) \subseteq Active(s) /\ (s.source = "copy" => Active(t) = Active(s))
    BY <1>5, <2>2
  <2>5. Ran(b, t)
    BY <1>4, <1>6, <2>4, QuietRan
  <2> QED
    BY <2>1, <2>3, <2>5
<1> QED
  BY <1>7, <1>8

\* The product is saved, with a main barcode that may have been typed.
LEMMA SavedRan ==
    ASSUME NEW b, b \in Snapshot, NEW s, Ran(b, s), AtMostOne(s), IsSound(s) \/ s.source = "form",
           NEW n, n = Saved(s)
    PROVE  Ran(b, n) /\ IsSound(n)
<1>1. /\ s \in Snapshot /\ Active(s) \subseteq Records(s) /\ Records(s) \subseteq Codes
      /\ s.wrote \subseteq Row /\ s.main \in Codes \cup {NoCode}
  BY SnapshotIs DEF Ran
<1>2. PICK W \in SUBSET Row : W = s.wrote \cup Records(s)
  BY <1>1 DEF Row
<1>3. PICK t : t = [s EXCEPT !.wrote = W]
  OBVIOUS
<1>4. /\ t \in Snapshot /\ t.main = s.main /\ t.source = s.source /\ t.wrote = W
      /\ t.record = s.record
  BY <1>1, <1>3 DEF Snapshot
<1>5. t.open = s.open
  BY <1>1, <1>3 DEF Snapshot
<1>6. Active(t) = Active(s) /\ Records(t) = Records(s)
  BY <1>4 DEF Active, Records
<1>7. CASE Active(s) # {} \/ s.main \in Records(s)
  <2>1. n = Resynced(t)
    BY <1>2, <1>3, <1>7 DEF Saved
  <2>2. PICK c : c = IF Active(s) = {} THEN NoCode ELSE Latest(Active(s))
    OBVIOUS
  <2>3. c \in Codes \cup {NoCode} /\ Active(s) = {c} \ {NoCode}
    <3>1. CASE Active(s) = {}
      BY <2>2, <3>1
    <3>2. CASE Active(s) # {}
      <4>1. c \in Active(s)
        BY <1>1, <2>2, <3>2, LatestIs
      <4> QED
        BY <1>1, <4>1, CodesAre DEF AtMostOne
    <3> QED
      BY <3>1, <3>2
  <2>4. n = Sync(t, c)
    BY <1>6, <2>1, <2>2 DEF Resynced
  <2>5. /\ n \in Snapshot /\ (n.open <=> t.open)
        /\ n.main = c /\ n.source = "copy" /\ n.wrote = t.wrote \cup {"product"}
        /\ n.record = t.record /\ Active(n) = Active(t)
    BY <1>4, <2>3, <2>4, SyncIs
  <2>6. IsSound(n)
    BY <1>6, <2>3, <2>5 DEF IsSound, AtMostOne
  <2>7. /\ n.open <=> s.open
        /\ "product" \in n.wrote /\ s.wrote \subseteq n.wrote
        /\ \A d \in Codes : d \notin n.wrote => n.record[d] = s.record[d]
        /\ n.source = "copy" => Active(s) \cup Active(n) \subseteq n.wrote
    BY <1>1, <1>2, <1>4, <1>5, <1>6, <2>5
  <2> QED
    BY <2>5, <2>6, <2>7, MainRan
<1>8. CASE ~(Active(s) # {} \/ s.main \in Records(s))
  <2>1. n = t
    BY <1>2, <1>3, <1>8 DEF Saved
  <2>2. Active(t) = {} /\ Active(s) = {}
    BY <1>6, <1>8
  <2>3. IsSound(n)
    <3>1. s.source = "copy" => {} = {s.main} \ {NoCode}
      BY <2>2 DEF IsSound
    <3> QED
      BY <1>4, <2>1, <2>2, <3>1 DEF IsSound, AtMostOne
  <2>4. /\ t.open <=> s.open
        /\ s.wrote \subseteq t.wrote /\ ("product" \in t.wrote => "product" \in s.wrote)
        /\ \A d \in Codes : d \notin t.wrote => t.record[d] = s.record[d]
        /\ Active(t) \subseteq Active(s) /\ (s.source = "copy" => Active(t) = Active(s))
    BY <1>1, <1>2, <1>4, <1>5, <2>2, CodesAre
  <2>5. Ran(b, t)
    BY <1>4, <2>4, QuietRan
  <2> QED
    BY <2>1, <2>3, <2>5
<1> QED
  BY <1>7, <1>8

\* The main barcode is written behind the records, or typed before they run.
LEMMA WithMainRan ==
    ASSUME NEW b, b \in Snapshot, NEW s, Ran(b, s), AtMostOne(s),
           NEW c \in Codes \cup {NoCode}, NEW by \in {"form", "sql"}, NEW n, n = WithMain(s, c, by)
    PROVE  Ran(b, n) /\ AtMostOne(n) /\ n.source = by /\ (by = "sql" => IsSound(n))
<1>1. s \in Snapshot
  BY DEF Ran
<1>2. by \in Source
  BY DEF Source
<1>3. /\ n \in Snapshot /\ (n.open <=> s.open)
      /\ n.main = c /\ n.source = by /\ n.wrote = s.wrote \cup {"product"}
      /\ n.record = s.record /\ Active(n) = Active(s)
  BY <1>1, <1>2, WithMainIs
<1>4. AtMostOne(n)
  BY <1>3 DEF AtMostOne
<1>5. by = "sql" => IsSound(n)
  BY <1>3, <1>4 DEF IsSound
<1>6. /\ n.open <=> s.open
      /\ "product" \in n.wrote /\ s.wrote \subseteq n.wrote
      /\ \A d \in Codes : d \notin n.wrote => n.record[d] = s.record[d]
      /\ n.source = "copy" => Active(s) \cup Active(n) \subseteq n.wrote
  BY <1>3
<1>7. Ran(b, n)
  BY <1>3, <1>6, MainRan
<1> QED
  BY <1>3, <1>4, <1>5, <1>7

\* An item of the import of products: the barcode of X3 is typed and saved, then written
\* again by SQL, and corrected.
LEMMA ItemRan ==
    ASSUME NEW b, IsSound(b), b.wrote = {}, NEW taken \in BOOLEAN, NEW n, n = Item(b, taken)
    PROVE  Ran(b, n) /\ IsSound(n)
<1>1. b \in Snapshot /\ AtMostOne(b) /\ Ran(b, b)
  BY NothingRan DEF IsSound
<1>2. PICK code \in Codes : code = Corrected[OfX3]
  BY CodesAre
<1>3. PICK typed : typed = WithMain(b, code, "form")
  OBVIOUS
<1>4. Ran(b, typed) /\ AtMostOne(typed) /\ typed.source = "form"
  <2>1. PICK by \in {"form", "sql"} : by = "form"
    OBVIOUS
  <2> QED
    BY <1>1, <1>3, <2>1, WithMainRan
<1>5. PICK s : s = IF b.main # code /\ ~taken THEN typed ELSE b
  OBVIOUS
<1>6. Ran(b, s) /\ AtMostOne(s) /\ (IsSound(s) \/ s.source = "form")
  BY <1>1, <1>4, <1>5
<1>7. PICK saved : saved = Saved(s)
  OBVIOUS
<1>8. Ran(b, saved) /\ IsSound(saved) /\ AtMostOne(saved) /\ saved.main \in Codes \cup {NoCode}
  <2>1. Ran(b, saved) /\ IsSound(saved)
    BY <1>1, <1>6, <1>7, SavedRan
  <2> QED
    BY <2>1, SnapshotIs DEF IsSound
<1>9. PICK sql : sql = IF b.main # code /\ ~taken THEN Overwritten(saved, code) ELSE saved
  OBVIOUS
<1>10. ASSUME NEW t, Ran(b, t), AtMostOne(t), NEW c \in Codes, NEW m, m = Overwritten(t, c)
       PROVE  Ran(b, m) /\ IsSound(m) /\ AtMostOne(m)
  <2>1. PICK by \in {"form", "sql"} : by = "sql"
    OBVIOUS
  <2>2. m = WithMain(t, c, by)
    BY <1>10, <2>1 DEF Overwritten
  <2> QED
    BY <1>1, <1>10, <2>1, <2>2, WithMainRan
<1>11. Ran(b, sql) /\ IsSound(sql) /\ AtMostOne(sql)
  BY <1>8, <1>9, <1>10
<1>12. PICK read : read = saved.main
  OBVIOUS
<1>13. n = IF read # NoCode /\ Corrected[read] # read /\ ~taken THEN Overwritten(sql, Corrected[read])
           ELSE sql
  BY <1>2, <1>3, <1>5, <1>7, <1>9, <1>12 DEF Item
<1>14. CASE read # NoCode /\ Corrected[read] # read /\ ~taken
  <2>1. PICK c \in Codes : c = Corrected[read]
    BY <1>8, <1>12, <1>14, CodesAre
  <2> QED
    BY <1>10, <1>11, <1>13, <1>14, <2>1
<1>15. CASE ~(read # NoCode /\ Corrected[read] # read /\ ~taken)
  BY <1>11, <1>13, <1>15
<1> QED
  BY <1>14, <1>15

\* One line of the sheet.
LEMMA LineRan ==
    ASSUME NEW b, b \in Snapshot, NEW s, Ran(b, s), IsSound(s), NEW c \in Codes,
           NEW n, n = Line(s, c)
    PROVE  Ran(b, n) /\ IsSound(n)
<1>1. s \in Snapshot /\ Active(s) \subseteq Codes
  BY SnapshotIs DEF IsSound
<1>2. PICK S \in SUBSET Codes : S = Active(s)
  BY <1>1
<1>3. PICK u : u = Marked(s, S, "off")
  OBVIOUS
<1>4. /\ u \in Snapshot /\ (u.open <=> s.open) /\ u.wrote = s.wrote \cup S
      /\ \A d \in Codes : u.record[d] = IF d \in S THEN "off" ELSE s.record[d]
  BY <1>1, <1>3, MarkedIs
<1>5. PICK o : o = AllOff(s)
  OBVIOUS
<1>6. /\ o \in Snapshot /\ (o.open <=> u.open) /\ u.wrote \subseteq o.wrote /\ o.record = u.record
  <2>1. CASE s.main \in Active(s)
    <3>1. o = Sync(u, NoCode)
      BY <1>2, <1>3, <1>5, <2>1 DEF AllOff
    <3> QED
      BY <1>4, <3>1, SyncIs
  <2>2. CASE s.main \notin Active(s)
    <3>1. o = u
      BY <1>2, <1>3, <1>5, <2>2 DEF AllOff
    <3> QED
      BY <1>4, <3>1
  <2> QED
    BY <2>1, <2>2
<1>7. PICK C \in SUBSET Codes : C = {c}
  OBVIOUS
<1>8. PICK t : t = Marked(o, C, "on")
  OBVIOUS
<1>9. /\ t \in Snapshot /\ (t.open <=> o.open) /\ t.wrote = o.wrote \cup C
      /\ \A d \in Codes : t.record[d] = IF d \in C THEN "on" ELSE o.record[d]
  BY <1>6, <1>8, MarkedIs
<1>10. Active(t) = {c}
  BY <1>2, <1>4, <1>6, <1>7, <1>9 DEF Active
<1>11. /\ t.open <=> s.open
       /\ s.wrote \cup Active(s) \cup {c} \subseteq t.wrote
       /\ \A d \in Codes : d \notin t.wrote => t.record[d] = s.record[d]
  BY <1>2, <1>4, <1>6, <1>7, <1>9
<1>12. n = Sync(t, c)
  BY <1>5, <1>7, <1>8 DEF Line, Create
<1> QED
  BY <1>9, <1>10, <1>11, <1>12, OneIsActive

\* What each line of the sheet leaves, in turn.
LineTurns(f, s, S, N) ==
    f = [k \in 0 .. N |->
            IF k = 0 THEN s ELSE IF Order[k] \in S THEN Line(f[k - 1], Order[k]) ELSE f[k - 1]]

LEMMA LineTurnsExist ==
    ASSUME NEW s, NEW S, NEW N \in Nat
    PROVE  \E f : LineTurns(f, s, S, N)
<1> DEFINE P == {n \in 0 .. N : \E f : LineTurns(f, s, S, n)}
<1>1. 0 \in P
  <2> DEFINE f == [k \in 0 .. 0 |-> s]
  <2>1. \A k \in 0 .. 0 : k = 0
    OBVIOUS
  <2>2. f = [k \in 0 .. 0 |-> IF k = 0 THEN s ELSE
                IF Order[k] \in S THEN Line(f[k - 1], Order[k]) ELSE f[k - 1]]
    BY <2>1
  <2>3. LineTurns(f, s, S, 0)
    BY <2>2 DEF LineTurns
  <2> HIDE DEF f
  <2> QED
    BY <2>3
<1>2. ASSUME NEW n \in 0 .. N - 1, n \in P PROVE n + 1 \in P
  <2>1. PICK g : LineTurns(g, s, S, n)
    BY <1>2
  <2>2. PICK last : last = IF Order[n + 1] \in S THEN Line(g[n], Order[n + 1]) ELSE g[n]
    OBVIOUS
  <2> DEFINE h == [k \in 0 .. n + 1 |-> IF k = n + 1 THEN last ELSE g[k]]
  <2>3. \A k \in 0 .. n : h[k] = g[k]
    OBVIOUS
  <2>4. \A k \in 0 .. n : g[k] = IF k = 0 THEN s ELSE
                                 IF Order[k] \in S THEN Line(g[k - 1], Order[k]) ELSE g[k - 1]
    BY <2>1 DEF LineTurns
  <2>5. ASSUME NEW k \in 0 .. n + 1
        PROVE  h[k] = IF k = 0 THEN s ELSE
                      IF Order[k] \in S THEN Line(h[k - 1], Order[k]) ELSE h[k - 1]
    <3>1. CASE k = n + 1
      <4>1. k # 0 /\ k - 1 = n /\ n \in 0 .. n
        BY <3>1
      <4>2. h[k] = last /\ h[k - 1] = g[n]
        BY <2>3, <3>1, <4>1
      <4> HIDE DEF h
      <4> QED
        BY <2>2, <3>1, <4>1, <4>2
    <3>2. CASE k # n + 1 /\ k = 0
      <4>1. h[k] = g[k]
        BY <3>2
      <4> QED
        BY <2>4, <3>2, <4>1
    <3>3. CASE k # n + 1 /\ k # 0
      <4>1. k \in 0 .. n /\ k - 1 \in 0 .. n
        BY <3>3
      <4>2. h[k] = g[k] /\ h[k - 1] = g[k - 1]
        BY <2>3, <4>1
      <4> HIDE DEF h
      <4> QED
        BY <2>4, <3>3, <4>1, <4>2
    <3> QED
      BY <3>1, <3>2, <3>3
  <2>6. h = [k \in 0 .. n + 1 |-> IF k = 0 THEN s ELSE
                IF Order[k] \in S THEN Line(h[k - 1], Order[k]) ELSE h[k - 1]]
    BY <2>5
  <2>7. LineTurns(h, s, S, n + 1)
    BY <2>6 DEF LineTurns
  <2>8. n + 1 \in 0 .. N
    OBVIOUS
  <2> HIDE DEF h
  <2> QED
    BY <2>7, <2>8
<1> HIDE DEF P
<1>3. N \in P
  BY <1>1, <1>2, CountInduction
<1> QED
  BY <1>3 DEF P

\* The whole sheet.
LEMMA LinesRan ==
    ASSUME NEW b, IsSound(b), b.wrote = {}, NEW S, NEW n, n = InTurn(Line, b, S)
    PROVE  Ran(b, n) /\ IsSound(n)
<1>1. PICK N \in Nat : N = Len(Order)
  BY CodesAre
<1>2. PICK f : f = CHOOSE g : LineTurns(g, b, S, N)
  OBVIOUS
<1>3. n = f[N]
  BY <1>1, <1>2 DEF InTurn, LineTurns
<1>4. LineTurns(f, b, S, N)
  BY <1>2, LineTurnsExist
<1>5. \A k \in 0 .. N : f[k] = IF k = 0 THEN b ELSE
                               IF Order[k] \in S THEN Line(f[k - 1], Order[k]) ELSE f[k - 1]
  BY <1>4 DEF LineTurns
<1> DEFINE P == {k \in 0 .. N : Ran(b, f[k]) /\ IsSound(f[k])}
<1>6. b \in Snapshot
  BY DEF IsSound
<1>7. 0 \in P
  <2>1. f[0] = b
    BY <1>5
  <2> QED
    BY <2>1, NothingRan
<1>8. ASSUME NEW k \in 0 .. N - 1, k \in P PROVE k + 1 \in P
  <2>1. PICK j \in 1 .. N : j = k + 1 /\ j - 1 = k /\ j \in 0 .. N /\ j # 0
    OBVIOUS
  <2>2. PICK c \in Codes : c = Order[j]
    BY <1>1, CodesAre
  <2>3. PICK s : s = f[k] /\ Ran(b, s) /\ IsSound(s)
    BY <1>8
  <2>4. PICK t : t = f[j]
    OBVIOUS
  <2>5. t = IF c \in S THEN Line(s, c) ELSE s
    BY <1>5, <2>1, <2>2, <2>3, <2>4
  <2>6. Ran(b, t) /\ IsSound(t)
    BY <1>6, <2>3, <2>5, LineRan
  <2> QED
    BY <2>1, <2>4, <2>6
<1> HIDE DEF P
<1>9. N \in P
  BY <1>7, <1>8, CountInduction
<1> QED
  BY <1>3, <1>9 DEF P

\* What each deletion leaves, in turn.
ReplaceTurns(f, s, S, N) ==
    f = [k \in 0 .. N |->
            IF k = 0 THEN s ELSE IF Order[k] \in S THEN Replace(f[k - 1], Order[k]) ELSE f[k - 1]]

LEMMA ReplaceTurnsExist ==
    ASSUME NEW s, NEW S, NEW N \in Nat
    PROVE  \E f : ReplaceTurns(f, s, S, N)
<1> DEFINE P == {n \in 0 .. N : \E f : ReplaceTurns(f, s, S, n)}
<1>1. 0 \in P
  <2> DEFINE f == [k \in 0 .. 0 |-> s]
  <2>1. \A k \in 0 .. 0 : k = 0
    OBVIOUS
  <2>2. f = [k \in 0 .. 0 |-> IF k = 0 THEN s ELSE
                IF Order[k] \in S THEN Replace(f[k - 1], Order[k]) ELSE f[k - 1]]
    BY <2>1
  <2>3. ReplaceTurns(f, s, S, 0)
    BY <2>2 DEF ReplaceTurns
  <2> HIDE DEF f
  <2> QED
    BY <2>3
<1>2. ASSUME NEW n \in 0 .. N - 1, n \in P PROVE n + 1 \in P
  <2>1. PICK g : ReplaceTurns(g, s, S, n)
    BY <1>2
  <2>2. PICK last : last = IF Order[n + 1] \in S THEN Replace(g[n], Order[n + 1]) ELSE g[n]
    OBVIOUS
  <2> DEFINE h == [k \in 0 .. n + 1 |-> IF k = n + 1 THEN last ELSE g[k]]
  <2>3. \A k \in 0 .. n : h[k] = g[k]
    OBVIOUS
  <2>4. \A k \in 0 .. n : g[k] = IF k = 0 THEN s ELSE
                                 IF Order[k] \in S THEN Replace(g[k - 1], Order[k]) ELSE g[k - 1]
    BY <2>1 DEF ReplaceTurns
  <2>5. ASSUME NEW k \in 0 .. n + 1
        PROVE  h[k] = IF k = 0 THEN s ELSE
                      IF Order[k] \in S THEN Replace(h[k - 1], Order[k]) ELSE h[k - 1]
    <3>1. CASE k = n + 1
      <4>1. k # 0 /\ k - 1 = n /\ n \in 0 .. n
        BY <3>1
      <4>2. h[k] = last /\ h[k - 1] = g[n]
        BY <2>3, <3>1, <4>1
      <4> HIDE DEF h
      <4> QED
        BY <2>2, <3>1, <4>1, <4>2
    <3>2. CASE k # n + 1 /\ k = 0
      <4>1. h[k] = g[k]
        BY <3>2
      <4> QED
        BY <2>4, <3>2, <4>1
    <3>3. CASE k # n + 1 /\ k # 0
      <4>1. k \in 0 .. n /\ k - 1 \in 0 .. n
        BY <3>3
      <4>2. h[k] = g[k] /\ h[k - 1] = g[k - 1]
        BY <2>3, <4>1
      <4> HIDE DEF h
      <4> QED
        BY <2>4, <3>3, <4>1, <4>2
    <3> QED
      BY <3>1, <3>2, <3>3
  <2>6. h = [k \in 0 .. n + 1 |-> IF k = 0 THEN s ELSE
                IF Order[k] \in S THEN Replace(h[k - 1], Order[k]) ELSE h[k - 1]]
    BY <2>5
  <2>7. ReplaceTurns(h, s, S, n + 1)
    BY <2>6 DEF ReplaceTurns
  <2>8. n + 1 \in 0 .. N
    OBVIOUS
  <2> HIDE DEF h
  <2> QED
    BY <2>7, <2>8
<1> HIDE DEF P
<1>3. N \in P
  BY <1>1, <1>2, CountInduction
<1> QED
  BY <1>3 DEF P

\* A record leaves its place to the latest of the others.
ReplacedOnly(b, t) ==
    /\ t \in Snapshot /\ (t.open <=> b.open) /\ AtMostOne(t) /\ b.wrote \subseteq t.wrote
    /\ \A d \in Codes : d \notin t.wrote => t.record[d] = b.record[d]

LEMMA ReplaceIs ==
    ASSUME NEW s \in Snapshot, AtMostOne(s), NEW c \in Codes, NEW n, n = Replace(s, c)
    PROVE  /\ ReplacedOnly(s, n)
           /\ c \notin Active(s) => n = s
           /\ c \in Active(s) =>
                 /\ "product" \in n.wrote /\ n.source = "copy"
                 /\ Active(n) \ {c} = {n.main} \ {NoCode} /\ Active(n) \ {c} \subseteq n.wrote
<1>1. /\ Active(s) \subseteq Records(s) /\ Records(s) \subseteq Codes
  BY SnapshotIs
<1>2. CASE c \notin Active(s)
  <2>1. n = s
    BY <1>2 DEF Replace
  <2> QED
    BY <1>2, <2>1 DEF ReplacedOnly
<1>3. CASE c \in Active(s)
  <2>1. Active(s) = {c}
    BY <1>3 DEF AtMostOne
  <2>2. CASE Records(s) = {c}
    <3>1. n = Sync(s, NoCode)
      BY <1>3, <2>2 DEF Replace
    <3>2. /\ n \in Snapshot /\ (n.open <=> s.open)
          /\ n.main = NoCode /\ n.source = "copy" /\ n.wrote = s.wrote \cup {"product"}
          /\ n.record = s.record /\ Active(n) = Active(s)
      BY <3>1, SyncIs
    <3>3. ReplacedOnly(s, n)
      BY <3>2 DEF ReplacedOnly, AtMostOne
    <3> QED
      BY <1>3, <2>1, <3>2, <3>3
  <2>3. CASE Records(s) # {c}
    <3>1. PICK S \in SUBSET Codes : S = Records(s) \ {c} /\ S # {}
      BY <1>1, <1>3, <2>3
    <3>2. PICK d \in Codes : d = Latest(S) /\ d # c
      BY <3>1, LatestIs
    <3>3. n = Activate(s, d)
      BY <1>3, <2>3, <3>1, <3>2 DEF Replace
    <3>7. /\ n \in Snapshot /\ (n.open <=> s.open) /\ n.main = d /\ n.source = "copy"
          /\ Active(n) = {d} /\ Records(n) = Records(s) \cup {d}
          /\ s.wrote \cup Active(s) \cup {d, "product"} \subseteq n.wrote
          /\ \A e \in Codes : e \notin n.wrote => n.record[e] = s.record[e]
      BY <3>3, ActivateIs, SMTT(30)
    <3>8. Active(s) \cup {d, "product"} \subseteq n.wrote
      BY <3>7, Zenon
    <3>4. /\ n \in Snapshot /\ (n.open <=> s.open) /\ n.main = d /\ n.source = "copy"
          /\ Active(n) = {d}
          /\ s.wrote \subseteq n.wrote
          /\ \A e \in Codes : e \notin n.wrote => n.record[e] = s.record[e]
      BY <3>7, Zenon
    <3>5. ReplacedOnly(s, n)
      BY <3>4 DEF ReplacedOnly, AtMostOne
    <3>6. Active(n) \ {c} = {n.main} \ {NoCode}
      BY <3>2, <3>4, CodesAre
    <3> QED
      BY <1>3, <3>4, <3>5, <3>6, <3>8
  <2> QED
    BY <2>2, <2>3
<1> QED
  BY <1>2, <1>3

LEMMA ReplacedIsTransitive ==
    ASSUME NEW b, NEW s, NEW t, ReplacedOnly(b, s), ReplacedOnly(s, t)
    PROVE  ReplacedOnly(b, t)
<1>1. \A d \in Codes : d \notin t.wrote => t.record[d] = b.record[d]
  BY DEF ReplacedOnly
<1>2. (t.open <=> b.open) /\ b.wrote \subseteq t.wrote /\ t \in Snapshot /\ AtMostOne(t)
  BY DEF ReplacedOnly
<1> QED
  BY <1>1, <1>2 DEF ReplacedOnly

\* Deletions in turn: nothing happens before the turn of the active record, and from then on
\* the product is written; one that goes alone is all that happens.
LEMMA ReplacesIs ==
    ASSUME NEW b \in Snapshot, AtMostOne(b), NEW S \in SUBSET Codes, NEW n, n = InTurn(Replace, b, S)
    PROVE  /\ ReplacedOnly(b, n)
           /\ Active(b) \cap S = {} => n = b
           /\ Active(b) \cap S # {} => "product" \in n.wrote
           /\ \A c \in Active(b) : S = {c} => n = Replace(b, c)
<1>1. PICK N \in Nat : N = Len(Order)
  BY CodesAre
<1>2. PICK f : f = CHOOSE g : ReplaceTurns(g, b, S, N)
  OBVIOUS
<1>3. n = f[N]
  BY <1>1, <1>2 DEF InTurn, ReplaceTurns
<1>4. ReplaceTurns(f, b, S, N)
  BY <1>2, ReplaceTurnsExist
<1>5. \A k \in 0 .. N : f[k] = IF k = 0 THEN b ELSE
                               IF Order[k] \in S THEN Replace(f[k - 1], Order[k]) ELSE f[k - 1]
  BY <1>4 DEF ReplaceTurns
<1>6. PICK A \in SUBSET Codes : A = Active(b)
  BY SnapshotIs
<1> DEFINE Met(k) == \E j \in 1 .. k : Order[j] \in A \cap S
           P == {k \in 0 .. N :
                   /\ ReplacedOnly(b, f[k])
                   /\ ~Met(k) => f[k] = b
                   /\ Met(k) => "product" \in f[k].wrote
                   /\ \A c \in A : S = {c} /\ Met(k) => f[k] = Replace(b, c)}
<1>7. 0 \in P
  <2>1. f[0] = b
    BY <1>5
  <2>2. ~Met(0)
    OBVIOUS
  <2>3. ReplacedOnly(b, b)
    BY DEF ReplacedOnly
  <2> HIDE DEF Met
  <2> QED
    BY <2>1, <2>2, <2>3
<1>8. ASSUME NEW k \in 0 .. N - 1, k \in P PROVE k + 1 \in P
  <2>1. PICK j \in 1 .. N : j = k + 1 /\ j - 1 = k /\ j \in 0 .. N /\ j # 0 /\ k \in 0 .. N
    OBVIOUS
  <2>2. PICK c \in Codes : c = Order[j]
    BY <1>1, <2>1, CodesAre
  <2>3. PICK s : s = f[k]
    OBVIOUS
  <2>4. PICK t : t = f[j]
    OBVIOUS
  <2>5. t = IF c \in S THEN Replace(s, c) ELSE s
    BY <1>5, <2>1, <2>2, <2>3, <2>4
  <2>6. Met(j) <=> Met(k) \/ c \in A \cap S
    <3>1. \A i \in 1 .. j : i \in 1 .. k \/ i = j
      BY <2>1
    <3>2. \A i \in 1 .. k : i \in 1 .. j
      BY <2>1
    <3>3. j \in 1 .. j
      BY <2>1
    <3> QED
      BY <2>2, <3>1, <3>2, <3>3
  <2>7. c \in A \cap S => ~Met(k)
    <3>1. ASSUME NEW a \in A, c \in A, NEW i \in 1 .. k, Order[i] = a PROVE FALSE
      <4>1. a = c
        BY <1>6, <3>1 DEF AtMostOne
      <4>2. i \in 1 .. N /\ i # j
        BY <2>1
      <4> QED
        BY <1>1, <2>2, <3>1, <4>1, <4>2, CodesAre
    <3> QED
      BY <3>1
  <2> HIDE DEF Met
  <2>8. /\ ReplacedOnly(b, s)
        /\ ~Met(k) => s = b
        /\ Met(k) => "product" \in s.wrote
        /\ \A a \in A : S = {a} /\ Met(k) => s = Replace(b, a)
    BY <1>8, <2>3
  <2>9. s \in Snapshot /\ AtMostOne(s) /\ s.wrote \subseteq Row
    BY <2>8, SnapshotIs DEF ReplacedOnly
  <2>10. CASE c \in A \cap S
    <3>1. s = b /\ t = Replace(b, c) /\ Met(j) /\ c \in Active(b)
      BY <1>6, <2>5, <2>6, <2>7, <2>8, <2>10
    <3>2. ReplacedOnly(b, t) /\ "product" \in t.wrote
      BY <3>1, ReplaceIs
    <3>3. \A a \in A : S = {a} => t = Replace(b, a)
      BY <2>10, <3>1
    <3> QED
      BY <2>1, <2>4, <3>1, <3>2, <3>3
  <2>11. CASE c \notin S
    <3>1. t = s /\ (Met(j) <=> Met(k))
      BY <2>5, <2>6, <2>11
    <3> QED
      BY <2>1, <2>4, <2>8, <3>1
  <2>12. CASE c \in S /\ c \notin A
    <3>1. t = Replace(s, c) /\ (Met(j) <=> Met(k))
      BY <2>5, <2>6, <2>12
    <3>2. ReplacedOnly(s, t) /\ (c \notin Active(s) => t = s)
      BY <2>9, <3>1, ReplaceIs
    <3>3. ReplacedOnly(b, t)
      BY <2>8, <3>2, ReplacedIsTransitive
    <3>4. ~Met(k) => t = b
      BY <1>6, <2>8, <2>12, <3>2
    <3>5. Met(k) => "product" \in t.wrote
      BY <2>8, <3>2 DEF ReplacedOnly
    <3>6. \A a \in A : S # {a}
      BY <2>12
    <3> QED
      BY <2>1, <2>4, <3>1, <3>3, <3>4, <3>5, <3>6
  <2> QED
    BY <2>10, <2>11, <2>12
<1>9. Met(N) <=> A \cap S # {}
  BY <1>1, CodesAre
<1> HIDE DEF Met
<1>10. N \in P
  <2> HIDE DEF P
  <2> QED
    BY <1>7, <1>8, CountInduction
<1>11. /\ ReplacedOnly(b, n)
       /\ ~Met(N) => n = b
       /\ Met(N) => "product" \in n.wrote
       /\ \A c \in A : S = {c} /\ Met(N) => n = Replace(b, c)
  BY <1>3, <1>10
<1> QED
  BY <1>6, <1>9, <1>11

\* There are finitely many barcodes.
LEMMA CodesAreFinite == IsFiniteSet(Codes)
<1>1. PICK N \in Nat : N = Len(Order) /\ DOMAIN Order = 1 .. N
  BY CodesAre
<1>2. Order \in [1 .. N -> Codes]
  BY <1>1, CodesAre
<1>3. Order \in Surjection(1 .. N, Codes)
  BY <1>1, <1>2, CodesAre DEF Surjection
<1>4. IsFiniteSet(1 .. N)
  BY FS_Interval
<1> QED
  BY <1>3, <1>4, FS_Surjection

LEMMA AloneIs ==
    ASSUME NEW S \in SUBSET Codes, ~(Cardinality(S) > 1), NEW c \in S
    PROVE  S = {c}
<1>1. IsFiniteSet(S)
  BY CodesAreFinite, FS_Subset
<1>2. PICK T : T = S \ {c}
  OBVIOUS
<1>3. IsFiniteSet(T) /\ Cardinality(T) = Cardinality(S) - 1
  BY <1>1, <1>2, FS_RemoveElement
<1>4. Cardinality(S) \in Nat /\ Cardinality(T) \in Nat
  BY <1>1, <1>3, FS_CardinalityType
<1>5. Cardinality(T) = 0
  BY <1>3, <1>4
<1>6. T = {}
  BY <1>3, <1>5, FS_EmptySet
<1> QED
  BY <1>2, <1>6

\* Records are deleted.
LEMMA UnlinkRan ==
    ASSUME NEW b, IsSound(b), b.wrote = {}, NEW S \in SUBSET Codes, NEW n, n = Unlink(b, S)
    PROVE  Ran(b, n) /\ IsSound(n)
<1>1. b \in Snapshot /\ AtMostOne(b) /\ Ran(b, b) /\ Active(b) \subseteq Codes
  BY NothingRan, SnapshotIs DEF IsSound
<1>2. PICK t : t = InTurn(Replace, b, S)
  OBVIOUS
<1>3. /\ ReplacedOnly(b, t)
      /\ Active(b) \cap S = {} => t = b
      /\ Active(b) \cap S # {} => "product" \in t.wrote
      /\ \A c \in Active(b) : S = {c} => t = Replace(b, c)
  BY <1>1, <1>2, ReplacesIs
<1>4. PICK m : m = Marked(t, S, "none")
  OBVIOUS
<1>5. /\ m \in Snapshot /\ (m.open <=> t.open)
      /\ m.main = t.main /\ m.source = t.source /\ m.wrote = t.wrote \cup S
      /\ \A c \in Codes : m.record[c] = IF c \in S THEN "none" ELSE t.record[c]
  <2>1. t \in Snapshot
    BY <1>3 DEF ReplacedOnly
  <2> QED
    BY <1>4, <2>1, MarkedIs
<1>6. Active(m) = Active(t) \ S
  BY <1>5 DEF Active
<1>7. AtMostOne(m)
  BY <1>3, <1>6 DEF ReplacedOnly, AtMostOne
<1>8. /\ m.open <=> b.open
      /\ b.wrote \subseteq m.wrote
      /\ \A c \in Codes : c \notin m.wrote => m.record[c] = b.record[c]
  BY <1>3, <1>5 DEF ReplacedOnly
<1>9. CASE Active(b) \cap S = {}
  <2>1. n = m /\ t = b
    BY <1>2, <1>3, <1>4, <1>9 DEF Unlink
  <2>2. Active(m) = Active(b)
    BY <1>6, <1>9, <2>1
  <2>3. IsSound(m)
    BY <1>5, <1>7, <2>1, <2>2 DEF IsSound
  <2>4. "product" \in m.wrote => "product" \in b.wrote
    BY <1>5, <2>1, CodesAre
  <2>5. m.main = b.main /\ m.source = b.source
    BY <1>5, <2>1
  <2>6. Ran(b, m)
    BY <1>1, <1>5, <1>8, <2>2, <2>4, <2>5, QuietRan
  <2> QED
    BY <2>1, <2>3, <2>6
<1>10. CASE Active(b) \cap S # {} /\ Cardinality(S) > 1
  <2>1. PICK by \in Source : by = "several"
    BY DEF Source
  <2>2. n = [m EXCEPT !.source = by]
    BY <1>2, <1>4, <1>10, <2>1 DEF Unlink
  <2>3. /\ n \in Snapshot /\ n.source = by /\ n.wrote = m.wrote /\ n.record = m.record
    BY <1>5, <2>2 DEF Snapshot
  <2>4. n.open <=> m.open
    BY <1>5, <2>2 DEF Snapshot
  <2>5. IsSound(n)
    BY <1>7, <2>1, <2>3 DEF IsSound, AtMostOne, Active
  <2>6. "product" \in n.wrote /\ n.source # "copy"
    BY <1>3, <1>5, <1>10, <2>1, <2>3
  <2>7. Ran(b, n)
    BY <1>1, <1>8, <2>3, <2>4, <2>6, MainRan
  <2> QED
    BY <2>5, <2>7
<1>11. CASE Active(b) \cap S # {} /\ ~(Cardinality(S) > 1)
  <2>1. PICK c \in Codes : c \in Active(b) /\ S = {c}
    BY <1>1, <1>11, AloneIs
  <2>2. n = m
    BY <1>2, <1>4, <1>11 DEF Unlink
  <2>3. t = Replace(b, c)
    BY <1>3, <2>1
  <2>4. /\ "product" \in t.wrote /\ t.source = "copy"
        /\ Active(t) \ {c} = {t.main} \ {NoCode} /\ Active(t) \ {c} \subseteq t.wrote
    BY <1>1, <2>1, <2>3, ReplaceIs
  <2>5. Active(m) = {m.main} \ {NoCode}
    BY <1>5, <1>6, <2>1, <2>4
  <2>6. IsSound(m)
    BY <1>5, <1>7, <2>4, <2>5 DEF IsSound
  <2>7. Active(b) = {c}
    BY <1>1, <2>1 DEF AtMostOne
  <2>8. "product" \in m.wrote /\ Active(b) \cup Active(m) \subseteq m.wrote
    BY <1>5, <1>6, <2>1, <2>4, <2>7
  <2>9. Ran(b, m)
    BY <1>1, <1>5, <1>8, <2>8, MainRan
  <2> QED
    BY <2>2, <2>6, <2>9
<1> QED
  BY <1>9, <1>10, <1>11

\* What the slow request wrote joins what the others committed.
Joins(old, n, now, rows, t) ==
    /\ t \in Snapshot
    /\ \A c \in Codes : t.record[c] = IF c \in n.wrote THEN n.record[c] ELSE now.record[c]
    /\ t.main = IF "product" \in n.wrote THEN n.main ELSE now.main
    /\ t.source = IF "product" \in n.wrote THEN n.source ELSE now.source

LEMMA JoinedIsSound ==
    ASSUME NEW old, old \in Snapshot, NEW n, IsSound(n), Ran(old, n), NEW now, IsSound(now),
           NEW rows, KeptSince(old, now, rows), n.wrote \cap rows = {},
           NEW t, Joins(old, n, now, rows, t)
    PROVE  IsSound(t)
<1>1. t \in Snapshot
  BY DEF Joins
<1>2. \A c \in Codes : c \in n.wrote => t.record[c] = n.record[c] /\ now.record[c] = old.record[c]
  BY DEF Joins, KeptSince
<1>3. \A c \in Codes : c \notin n.wrote => t.record[c] = now.record[c] /\ n.record[c] = old.record[c]
  BY DEF Joins, Ran
<1>4. CASE "product" \in n.wrote
  <2>1. Active(now) \subseteq Active(old) /\ t.main = n.main /\ t.source = n.source
    BY <1>4 DEF Joins, KeptSince
  <2>2. Active(t) \subseteq Active(n)
    BY <1>2, <1>3, <2>1 DEF Active
  <2>3. AtMostOne(t)
    BY <2>2 DEF IsSound, AtMostOne
  <2>4. n.source = "form" => Active(t) = {}
    BY <2>2 DEF IsSound
  <2>5. ASSUME n.source = "copy" PROVE Active(t) = Active(n)
    <3>1. Active(n) \subseteq n.wrote
      BY <1>4, <2>5 DEF Ran
    <3>2. Active(n) \subseteq Active(t)
      BY <1>2, <3>1 DEF Active
    <3> QED
      BY <2>2, <3>2
  <2>6. t.source = "copy" => Active(t) = {t.main} \ {NoCode}
    BY <2>1, <2>5 DEF IsSound
  <2> QED
    BY <1>1, <2>1, <2>3, <2>4, <2>6 DEF IsSound
<1>5. CASE "product" \notin n.wrote
  <2>1. t.main = now.main /\ t.source = now.source
    BY <1>5 DEF Joins
  <2>2. Active(n) \subseteq Active(old)
    BY <1>5 DEF Ran
  <2>3. Active(t) \subseteq Active(now)
    BY <1>2, <1>3, <2>2 DEF Active
  <2>4. AtMostOne(t) /\ (t.source = "form" => Active(t) = {})
    BY <2>1, <2>3 DEF IsSound, AtMostOne
  <2>5. ASSUME now.source = "copy", NEW c \in Active(now) PROVE c \in Active(t)
    <3>1. CASE c \notin n.wrote
      BY <1>3, <3>1 DEF Active
    <3>2. CASE c \in n.wrote
      <4>1. "product" \notin rows
        BY <2>5, <3>2 DEF KeptSince
      <4>2. old.source = "copy" /\ c \in Active(old)
        BY <2>5, <4>1 DEF KeptSince
      <4>3. c \in Active(n)
        BY <1>5, <4>2 DEF Ran
      <4> QED
        BY <1>2, <3>2, <4>3 DEF Active
    <3> QED
      BY <3>1, <3>2
  <2>6. t.source = "copy" => Active(t) = {t.main} \ {NoCode}
    <3>1. now.source = "copy" => Active(t) = Active(now)
      BY <2>3, <2>5
    <3>2. now.source = "copy" => Active(now) = {now.main} \ {NoCode}
      BY DEF IsSound
    <3> QED
      BY <2>1, <3>1, <3>2
  <2> QED
    BY <1>1, <2>4, <2>6 DEF IsSound
<1> QED
  BY <1>4, <1>5

\* A commit behind the back of the slow request.
LEMMA StillKept ==
    ASSUME NEW old, NEW rows, NEW now, KeptSince(old, now, rows), NEW n, Ran(now, n),
           NEW t, t.record = n.record, t.main = n.main, t.source = n.source
    PROVE  KeptSince(old, t, rows \cup n.wrote)
<1>1. Active(t) = Active(n)
  BY DEF Active
<1>2. \A c \in Codes : c \notin rows \cup n.wrote => t.record[c] = old.record[c]
  BY DEF KeptSince, Ran
<1>3. "product" \notin rows \cup n.wrote =>
          t.main = old.main /\ t.source = old.source /\ Active(t) \subseteq Active(old)
  BY <1>1 DEF KeptSince, Ran
<1>4. "product" \in n.wrote /\ t.source = "copy" => Active(t) \subseteq n.wrote
  BY <1>1 DEF Ran
<1>5. "product" \notin n.wrote /\ "product" \in rows /\ t.source = "copy" => Active(t) \subseteq rows
  BY <1>1 DEF KeptSince, Ran
<1> QED
  BY <1>2, <1>3, <1>4, <1>5 DEF KeptSince

\* What a request may run on is sound, and nothing ran on it.
LEMMA BaseIs ==
    ASSUME BarcodeIInv, NEW s \in Bases
    PROVE  IsSound(s) /\ s.wrote = {} /\ s \in Snapshot /\ AtMostOne(s) /\ Ran(s, s)
<1>1. CASE s = Now
  <2>1. s.wrote = {}
    BY <1>1 DEF Now
  <2>2. IsSound(s)
    BY <1>1 DEF BarcodeIInv
  <2> QED
    BY <2>1, <2>2, NothingRan DEF IsSound
<1>2. CASE s = slow /\ slow.open
  <2>1. s.wrote = {} /\ IsSound(s)
    BY <1>2 DEF BarcodeIInv
  <2> QED
    BY <2>1, NothingRan DEF IsSound
<1> QED
  BY <1>1, <1>2 DEF Bases

LEMMA NowIs == /\ Now.record = record /\ Now.main = main /\ Now.source = source
               /\ Now.wrote = {} /\ ~Now.open
BY DEF Now

LEMMA NoSnapshotIs == NoSnapshot \in Snapshot /\ ~NoSnapshot.open
<1>1. PICK f \in BOOLEAN : f = FALSE
  OBVIOUS
<1>2. PICK r \in [Codes -> {"none", "off", "on"}] : r = [c \in Codes |-> "none"]
  OBVIOUS
<1>3. PICK by \in Source : by = "form"
  BY DEF Source
<1>4. PICK W \in SUBSET Row : W = {}
  OBVIOUS
<1>5. NoSnapshot = [record |-> r, main |-> NoCode, source |-> by, wrote |-> W, open |-> f]
  BY <1>1, <1>2, <1>3, <1>4, Zenon DEF NoSnapshot
<1>6. NoSnapshot \in Snapshot
  BY <1>5 DEF Snapshot
<1>7. NoSnapshot.open = f
  BY <1>5
<1> QED
  BY <1>1, <1>6, <1>7

\* A sound request commits.
LEMMA Lands ==
    ASSUME BarcodeIInv, NEW s \in Bases, NEW n, Ran(s, n), IsSound(n), Committed(n),
           sheet' \subseteq Codes
    PROVE  BarcodeIInv'
<1>1. PICK r : r = record'
  OBVIOUS
<1>2. PICK x : x = main'
  OBVIOUS
<1>3. PICK by : by = source'
  OBVIOUS
<1>4. PICK old : old = slow
  OBVIOUS
<1>5. PICK after : after = slow'
  OBVIOUS
<1>6. PICK rows : rows = stale
  OBVIOUS
<1>7. PICK left : left = stale'
  OBVIOUS
<1>8. PICK now : now = Now
  OBVIOUS
<1>9. PICK t : t = Now'
  OBVIOUS
<1>10. /\ now.record = record /\ now.main = main /\ now.source = source /\ ~now.open
       /\ IsSound(now) /\ now \in Snapshot
  BY <1>8, NowIs DEF BarcodeIInv, IsSound
<1>11. /\ n.open => n.wrote \cap rows = {}
       /\ r = [c \in Codes |-> IF c \in n.wrote THEN n.record[c] ELSE now.record[c]]
       /\ x = IF "product" \in n.wrote THEN n.main ELSE now.main
       /\ by = IF "product" \in n.wrote THEN n.source ELSE now.source
       /\ after = IF n.open THEN NoSnapshot ELSE old
       /\ left = IF n.open \/ ~old.open THEN {} ELSE rows \cup n.wrote
  BY <1>1, <1>2, <1>3, <1>4, <1>5, <1>6, <1>7, <1>10 DEF Committed, NoRowConflict
<1>12. /\ n \in Snapshot /\ n.record \in [Codes -> {"none", "off", "on"}] /\ n.wrote \subseteq Row
       /\ n.main \in Codes \cup {NoCode} /\ n.source \in Source
       /\ now.record \in [Codes -> {"none", "off", "on"}]
       /\ now.main \in Codes \cup {NoCode} /\ now.source \in Source
  BY <1>10, SnapshotIs DEF IsSound
<1>13. /\ r \in [Codes -> {"none", "off", "on"}] /\ x \in Codes \cup {NoCode} /\ by \in Source
  BY <1>11, <1>12
<1>14. t \in Snapshot /\ t.record = r /\ t.main = x /\ t.source = by
  <2>1. PICK f \in BOOLEAN : f = FALSE
    OBVIOUS
  <2>2. PICK W \in SUBSET Row : W = {}
    OBVIOUS
  <2>3. t = [record |-> r, main |-> x, source |-> by, wrote |-> W, open |-> f]
    BY <1>1, <1>2, <1>3, <1>9, <2>1, <2>2, Zenon DEF Now
  <2> QED
    BY <1>13, <2>3 DEF Snapshot
<1>15. old \in Snapshot /\ rows \subseteq Row
  BY <1>4, <1>6 DEF BarcodeIInv, BarcodeTypeOK
<1>16. Joins(s, n, now, rows, t)
  <2>1. \A c \in Codes : t.record[c] = IF c \in n.wrote THEN n.record[c] ELSE now.record[c]
    BY <1>11, <1>14
  <2> QED
    BY <1>11, <1>14, <2>1 DEF Joins
<1>17. CASE n.open
  <2>1. s = old /\ old.open
    <3>1. s.open
      BY <1>17 DEF Ran
    <3> QED
      BY <1>4, <1>8, <1>10, <3>1 DEF Bases
  <2>2. KeptSince(s, now, rows)
    BY <1>4, <1>6, <1>8, <2>1 DEF BarcodeIInv
  <2>3. n.wrote \cap rows = {} /\ s \in Snapshot
    BY <1>11, <1>15, <1>17, <2>1
  <2>4. IsSound(t)
    BY <1>10, <1>16, <2>2, <2>3, JoinedIsSound
  <2>5. after \in Snapshot /\ ~after.open /\ left = {}
    BY <1>11, <1>17, NoSnapshotIs
  <2>6. BarcodeTypeOK'
    BY <1>1, <1>2, <1>3, <1>5, <1>7, <1>13, <2>5 DEF BarcodeTypeOK
  <2> QED
    BY <1>5, <1>7, <1>9, <2>4, <2>5, <2>6 DEF BarcodeIInv
<1>18. CASE ~n.open
  <2>1. s = now
    <3>1. ~s.open
      BY <1>18 DEF Ran
    <3> QED
      BY <1>8, <3>1 DEF Bases
  <2>2. /\ \A c \in Codes : c \notin n.wrote => n.record[c] = now.record[c]
        /\ "product" \notin n.wrote => n.main = now.main /\ n.source = now.source
    BY <2>1 DEF Ran
  <2>3. r = n.record /\ x = n.main /\ by = n.source
    <3>1. \A c \in Codes : r[c] = n.record[c]
      BY <1>11, <2>2
    <3> QED
      BY <1>11, <1>12, <1>13, <2>2, <3>1
  <2>4. t.record = n.record /\ t.main = n.main /\ t.source = n.source
    BY <1>14, <2>3
  <2>5. IsSound(t)
    BY <1>14, <2>4 DEF IsSound, AtMostOne, Active
  <2>6. after = old /\ after \in Snapshot
    BY <1>11, <1>15, <1>18
  <2>7. left \subseteq Row
    BY <1>11, <1>12, <1>15
  <2>8. BarcodeTypeOK'
    BY <1>1, <1>2, <1>3, <1>5, <1>7, <1>13, <2>6, <2>7 DEF BarcodeTypeOK
  <2>9. CASE old.open
    <3>1. old.wrote = {} /\ IsSound(old) /\ KeptSince(old, now, rows)
      BY <1>4, <1>6, <1>8, <2>9 DEF BarcodeIInv
    <3>2. Ran(now, n)
      BY <2>1
    <3>3. KeptSince(old, t, rows \cup n.wrote)
      BY <2>4, <3>1, <3>2, StillKept
    <3>4. KeptSince(after, t, left) /\ after.wrote = {} /\ IsSound(after) /\ after.open
      BY <1>11, <1>18, <2>6, <2>9, <3>1, <3>3
    <3> QED
      BY <1>5, <1>7, <1>9, <2>5, <2>8, <3>4 DEF BarcodeIInv
  <2>10. CASE ~old.open
    <3>1. ~after.open /\ left = {}
      BY <1>11, <2>6, <2>10
    <3> QED
      BY <1>5, <1>7, <1>9, <2>5, <2>8, <3>1 DEF BarcodeIInv
  <2> QED
    BY <2>9, <2>10
<1> QED
  BY <1>17, <1>18

LEMMA BarcodeFirst == BarcodeInit => BarcodeIInv
<1> SUFFICES ASSUME BarcodeInit PROVE BarcodeIInv
  OBVIOUS
<1>1. /\ record \in [Codes -> {"none", "off", "on"}] /\ \A c \in Codes : record[c] = "none"
      /\ main \in Codes \cup {NoCode} /\ sheet \subseteq Codes /\ stale \subseteq Row /\ stale = {}
  BY CodesAre DEF BarcodeInit
<1>2. slow \in Snapshot /\ ~slow.open
  BY NoSnapshotIs DEF BarcodeInit
<1>3. PICK by \in Source : by = "form" /\ source = by
  BY DEF BarcodeInit, Source
<1>4. PICK f \in BOOLEAN : f = FALSE
  OBVIOUS
<1>5. PICK W \in SUBSET Row : W = {}
  OBVIOUS
<1>6. Now = [record |-> record, main |-> main, source |-> source, wrote |-> W, open |-> f]
  BY <1>4, <1>5, Zenon DEF Now
<1>7. Now \in Snapshot
  BY <1>1, <1>3, <1>6 DEF Snapshot
<1>8. Active(Now) = {}
  BY <1>1, NowIs DEF Active
<1>9. IsSound(Now)
  BY <1>3, <1>7, <1>8, NowIs DEF IsSound, AtMostOne
<1> QED
  BY <1>1, <1>2, <1>3, <1>9 DEF BarcodeIInv, BarcodeTypeOK

\* The slow request takes its snapshot.
LEMMA OpenKeeps == BarcodeIInv /\ Open => BarcodeIInv'
<1> SUFFICES ASSUME BarcodeIInv, Open PROVE BarcodeIInv'
  OBVIOUS
<1>1. PICK now : now = Now
  OBVIOUS
<1>2. now \in Snapshot /\ IsSound(now) /\ now.wrote = {}
  BY <1>1, NowIs DEF BarcodeIInv, IsSound
<1>3. PICK f \in BOOLEAN : f = TRUE
  OBVIOUS
<1>4. PICK s : s = slow'
  OBVIOUS
<1>5. s = [now EXCEPT !.open = f]
  BY <1>1, <1>3, <1>4, Zenon DEF Open
<1>6. /\ s \in Snapshot /\ s.record = now.record /\ s.main = now.main /\ s.source = now.source
      /\ s.wrote = now.wrote
  BY <1>2, <1>5 DEF Snapshot
<1>7. s.open = f
  BY <1>2, <1>5 DEF Snapshot
<1>8. Active(s) = Active(now)
  BY <1>6 DEF Active
<1>9. IsSound(s) /\ s.wrote = {}
  BY <1>2, <1>6, <1>8 DEF IsSound, AtMostOne
<1>10. PICK none : none = stale
  OBVIOUS
<1>11. none = {} /\ stale' = none
  BY <1>10 DEF Open, BarcodeIInv
<1>12. KeptSince(s, now, none)
  BY <1>6, <1>8, <1>11 DEF KeptSince
<1>13. Now' = now
  BY <1>1 DEF Open, Now
<1>14. BarcodeTypeOK'
  BY <1>4, <1>6 DEF Open, BarcodeIInv, BarcodeTypeOK
<1> QED
  BY <1>2, <1>3, <1>4, <1>7, <1>9, <1>11, <1>12, <1>13, <1>14 DEF BarcodeIInv

LEMMA GiveUpKeeps == BarcodeIInv /\ GiveUp => BarcodeIInv'
<1> SUFFICES ASSUME BarcodeIInv, GiveUp PROVE BarcodeIInv'
  OBVIOUS
<1>1. PICK now : now = Now
  OBVIOUS
<1>2. Now' = now /\ IsSound(now)
  BY <1>1 DEF GiveUp, Now, BarcodeIInv
<1>3. slow' \in Snapshot /\ ~slow'.open /\ stale' = {}
  BY NoSnapshotIs DEF GiveUp
<1>4. BarcodeTypeOK'
  BY <1>3 DEF GiveUp, BarcodeIInv, BarcodeTypeOK
<1> QED
  BY <1>2, <1>3, <1>4 DEF BarcodeIInv

\* Requests that leave the sheet alone.
LEMMA AddKeeps == ASSUME BarcodeIInv, NEW c \in Codes, Add(c) PROVE BarcodeIInv'
<1>1. PICK s \in Bases, on \in BOOLEAN :
          s.record[c] = "none" /\ (on => Active(s) = {}) /\ Committed(Create(s, c, on))
  BY DEF Add
<1>2. PICK n : n = Create(s, c, on)
  OBVIOUS
<1>3. IsSound(s) /\ s \in Snapshot /\ Ran(s, s)
  BY BaseIs
<1>4. Ran(s, n) /\ IsSound(n)
  BY <1>1, <1>2, <1>3, CreateRan
<1>5. sheet' \subseteq Codes
  BY DEF Add, BarcodeIInv, BarcodeTypeOK
<1>6. Committed(n)
  BY <1>1, <1>2
<1> QED
  BY <1>4, <1>5, <1>6, Lands

LEMMA ToggleKeeps == ASSUME BarcodeIInv, NEW c \in Codes, Toggle(c) PROVE BarcodeIInv'
<1>1. PICK s \in Bases : \/ s.record[c] = "off" /\ Committed(Activate(s, c))
                         \/ s.record[c] = "on" /\ Committed(Deactivate(s, c))
  BY DEF Toggle
<1>2. IsSound(s) /\ s \in Snapshot /\ Ran(s, s)
  BY BaseIs
<1>3. sheet' \subseteq Codes
  BY DEF Toggle, BarcodeIInv, BarcodeTypeOK
<1>4. CASE s.record[c] = "off" /\ Committed(Activate(s, c))
  <2>1. PICK n : n = Activate(s, c)
    OBVIOUS
  <2>2. Ran(s, n) /\ IsSound(n)
    BY <1>2, <2>1, ActivateRan
  <2>3. Committed(n)
    BY <1>4, <2>1
  <2> QED
    BY <1>3, <2>2, <2>3, Lands
<1>5. CASE s.record[c] = "on" /\ Committed(Deactivate(s, c))
  <2>1. PICK n : n = Deactivate(s, c)
    OBVIOUS
  <2>2. c \in Active(s)
    BY <1>5 DEF Active
  <2>3. Ran(s, n) /\ IsSound(n)
    BY <1>2, <2>1, <2>2, DeactivateRan
  <2>4. Committed(n)
    BY <1>5, <2>1
  <2> QED
    BY <1>3, <2>3, <2>4, Lands
<1> QED
  BY <1>1, <1>4, <1>5

LEMMA DeleteKeeps == BarcodeIInv /\ Delete => BarcodeIInv'
<1> SUFFICES ASSUME BarcodeIInv, Delete PROVE BarcodeIInv'
  OBVIOUS
<1>8. PICK s \in Bases : \E S \in SUBSET Records(s) : Committed(Unlink(s, S))
  BY DEF Delete
<1>1. PICK S \in SUBSET Records(s) : Committed(Unlink(s, S))
  BY <1>8
<1>2. IsSound(s) /\ s.wrote = {} /\ Records(s) \subseteq Codes
  BY BaseIs, SnapshotIs
<1>3. PICK n : n = Unlink(s, S)
  OBVIOUS
<1>4. S \in SUBSET Codes
  BY <1>2
<1>5. Ran(s, n) /\ IsSound(n)
  BY <1>2, <1>3, <1>4, UnlinkRan
<1>6. sheet' \subseteq Codes
  BY DEF Delete, BarcodeIInv, BarcodeTypeOK
<1>7. Committed(n)
  BY <1>1, <1>3
<1> QED
  BY <1>5, <1>6, <1>7, Lands

LEMMA SaveKeeps == BarcodeIInv /\ Save => BarcodeIInv'
<1> SUFFICES ASSUME BarcodeIInv, Save PROVE BarcodeIInv'
  OBVIOUS
<1>1. PICK s \in Bases : \/ Committed(Saved(s))
                         \/ \E c \in Codes \cup {NoCode} : Committed(Saved(WithMain(s, c, "form")))
  BY DEF Save
<1>2. IsSound(s) /\ s \in Snapshot /\ AtMostOne(s) /\ Ran(s, s)
  BY BaseIs
<1>3. sheet' \subseteq Codes
  BY DEF Save, BarcodeIInv, BarcodeTypeOK
<1>4. CASE Committed(Saved(s))
  <2>1. PICK n : n = Saved(s)
    OBVIOUS
  <2>2. Ran(s, n) /\ IsSound(n)
    BY <1>2, <2>1, SavedRan
  <2>3. Committed(n)
    BY <1>4, <2>1
  <2> QED
    BY <1>3, <2>2, <2>3, Lands
<1>5. ASSUME NEW c \in Codes \cup {NoCode}, Committed(Saved(WithMain(s, c, "form")))
      PROVE  BarcodeIInv'
  <2>1. PICK by \in {"form", "sql"} : by = "form"
    OBVIOUS
  <2>2. PICK t : t = WithMain(s, c, by)
    OBVIOUS
  <2>3. Ran(s, t) /\ AtMostOne(t) /\ t.source = "form"
    BY <1>2, <2>1, <2>2, WithMainRan
  <2>4. PICK n : n = Saved(t)
    OBVIOUS
  <2>5. Ran(s, n) /\ IsSound(n)
    BY <1>2, <2>3, <2>4, SavedRan
  <2>6. Committed(n)
    BY <1>5, <2>1, <2>2, <2>4
  <2> QED
    BY <1>3, <2>5, <2>6, Lands
<1> QED
  BY <1>1, <1>4, <1>5

LEMMA ImportItemKeeps == BarcodeIInv /\ ImportItem => BarcodeIInv'
<1> SUFFICES ASSUME BarcodeIInv, ImportItem PROVE BarcodeIInv'
  OBVIOUS
<1>1. PICK s \in Bases, taken \in BOOLEAN : Committed(Item(s, taken))
  BY DEF ImportItem
<1>2. PICK n : n = Item(s, taken)
  OBVIOUS
<1>3. IsSound(s) /\ s.wrote = {}
  BY BaseIs
<1>4. Ran(s, n) /\ IsSound(n)
  BY <1>2, <1>3, ItemRan
<1>5. sheet' \subseteq Codes
  BY DEF ImportItem, BarcodeIInv, BarcodeTypeOK
<1>6. Committed(n)
  BY <1>1, <1>2
<1> QED
  BY <1>4, <1>5, <1>6, Lands

LEMMA FixGs1Keeps == BarcodeIInv /\ FixGs1 => BarcodeIInv'
<1> SUFFICES ASSUME BarcodeIInv, FixGs1 PROVE BarcodeIInv'
  OBVIOUS
<1>1. PICK s \in Bases : s.main # NoCode /\ Committed(Overwritten(s, Corrected[s.main]))
  BY DEF FixGs1
<1>2. IsSound(s) /\ s \in Snapshot /\ AtMostOne(s) /\ Ran(s, s)
  BY BaseIs
<1>3. PICK c \in Codes : c = Corrected[s.main]
  BY <1>1, <1>2, SnapshotIs, CodesAre
<1>4. PICK by \in {"form", "sql"} : by = "sql"
  OBVIOUS
<1>5. PICK n : n = WithMain(s, c, by)
  OBVIOUS
<1>6. Ran(s, n) /\ IsSound(n)
  BY <1>2, <1>4, <1>5, WithMainRan
<1>7. Committed(n)
  BY <1>1, <1>3, <1>4, <1>5 DEF Overwritten
<1>8. sheet' \subseteq Codes
  BY DEF FixGs1, BarcodeIInv, BarcodeTypeOK
<1> QED
  BY <1>6, <1>7, <1>8, Lands

\* The sheet of barcodes.
LEMMA LoadSheetKeeps == BarcodeIInv /\ LoadSheet => BarcodeIInv'
<1> SUFFICES ASSUME BarcodeIInv, LoadSheet PROVE BarcodeIInv'
  OBVIOUS
<1>1. PICK now : now = Now
  OBVIOUS
<1>2. Now' = now /\ slow' = slow /\ stale' = stale
  BY <1>1 DEF LoadSheet, Now
<1>3. BarcodeTypeOK'
  BY DEF LoadSheet, BarcodeIInv, BarcodeTypeOK
<1> QED
  BY <1>1, <1>2, <1>3 DEF BarcodeIInv

LEMMA ConfirmKeeps == BarcodeIInv /\ Confirm => BarcodeIInv'
<1> SUFFICES ASSUME BarcodeIInv, Confirm PROVE BarcodeIInv'
  OBVIOUS
<1>1. PICK s \in Bases : Committed(InTurn(Line, s, sheet))
  BY DEF Confirm
<1>2. PICK n : n = InTurn(Line, s, sheet)
  OBVIOUS
<1>3. IsSound(s) /\ s.wrote = {}
  BY BaseIs
<1>4. Ran(s, n) /\ IsSound(n)
  BY <1>2, <1>3, LinesRan
<1>5. sheet' \subseteq Codes
  BY DEF Confirm
<1>6. Committed(n)
  BY <1>1, <1>2
<1> QED
  BY <1>4, <1>5, <1>6, Lands

LEMMA BarcodeIsKept == BarcodeIInv /\ [BarcodeNext]_barcodeVars => BarcodeIInv'
<1> SUFFICES ASSUME BarcodeIInv, [BarcodeNext]_barcodeVars PROVE BarcodeIInv'
  OBVIOUS
<1>1. CASE UNCHANGED barcodeVars
  <2>1. PICK now : now = Now
    OBVIOUS
  <2>2. Now' = now /\ slow' = slow /\ stale' = stale
    BY <1>1, <2>1 DEF barcodeVars, Now
  <2>3. BarcodeTypeOK'
    BY <1>1 DEF barcodeVars, BarcodeIInv, BarcodeTypeOK
  <2> QED
    BY <2>1, <2>2, <2>3 DEF BarcodeIInv
<1>2. CASE BarcodeNext
  BY <1>2, OpenKeeps, GiveUpKeeps, AddKeeps, ToggleKeeps, DeleteKeeps, SaveKeeps, LoadSheetKeeps,
     ConfirmKeeps, ImportItemKeeps, FixGs1Keeps DEF BarcodeNext
<1> QED
  BY <1>1, <1>2

\* At most one is active, and it is the latest of the active ones.
LEMMA BarcodeInvFollows == BarcodeIInv => BarcodeInv
<1> SUFFICES ASSUME BarcodeIInv PROVE BarcodeInv
  OBVIOUS
<1>1. IsSound(Now) /\ Now.main = main /\ Now.source = source /\ BarcodeTypeOK
  BY NowIs DEF BarcodeIInv
<1>2. Active(Now) \subseteq Codes
  BY DEF Active
<1>3. OneActive
  <2>1. CASE Active(Now) = {}
    BY <2>1, FS_EmptySet DEF OneActive
  <2>2. ASSUME NEW c \in Active(Now) PROVE OneActive
    <3>1. Active(Now) = {c}
      BY <1>1 DEF IsSound, AtMostOne
    <3>2. PICK A : A = Active(Now)
      OBVIOUS
    <3>3. Cardinality(A) = 1
      BY <3>1, <3>2, FS_Singleton
    <3> QED
      BY <3>2, <3>3 DEF OneActive
  <2> QED
    BY <2>1, <2>2
<1>4. source = "copy" => main = IF Active(Now) = {} THEN NoCode ELSE Latest(Active(Now))
  <2>1. ASSUME source = "copy", Active(Now) = {} PROVE main = NoCode
    BY <1>1, <2>1 DEF IsSound
  <2>2. ASSUME source = "copy", NEW c \in Active(Now) PROVE main = Latest(Active(Now))
    <3>1. Latest(Active(Now)) \in Active(Now)
      BY <1>2, LatestIs
    <3>2. main = c /\ Latest(Active(Now)) = c
      BY <1>1, <2>2, <3>1 DEF IsSound, AtMostOne
    <3> QED
      BY <3>2
  <2> QED
    BY <2>1, <2>2
<1>5. source = "form" => Active(Now) = {}
  BY <1>1 DEF IsSound
<1> QED
  BY <1>1, <1>3, <1>4, <1>5 DEF BarcodeInv, MainIsTheActive

\* Whatever two requests at once do with the barcodes of a product, at most one is active, and the
\* main barcode is the active one's, unless it was typed where none is, written by SQL, or left by
\* the deletion of several (_check_unique_active_barcode, write and unlink of product_multiple_barcodes.py,
\* under the row conflicts of PostgreSQL).
THEOREM BarcodesAgree == BarcodeSpec => []BarcodeInv
<1>1. BarcodeSpec => []BarcodeIInv
  BY BarcodeFirst, BarcodeIsKept, PTL DEF BarcodeSpec
<1> QED
  BY <1>1, BarcodeInvFollows, PTL

-----------------------------------------------------------------------------
(* The four side by side.                                                  *)

\* Contacts, products, sheets and barcodes are right in every behaviour of the four together.
THEOREM CatalogueIsSound ==
    CatalogueSpec => /\ []CatalogueInv
                     /\ CleanImportIsComplete /\ []LossIsBounded /\ ContactsAreAsTold /\ SheetsAreTold
<1>1. CatalogueInit => ProductInit /\ BarcodeInit /\ ContactInit /\ SheetInit
  BY DEF CatalogueInit
<1>2. [CatalogueNext]_catalogueVars =>
          /\ [ProductNext]_productVars /\ [BarcodeNext]_barcodeVars
          /\ [ContactNext]_contactVars /\ [SheetNext]_sheetVars
  BY DEF CatalogueNext, catalogueVars
<1>3. CatalogueSpec => ProductSpec /\ BarcodeSpec /\ ContactSpec /\ SheetSpec
  BY <1>1, <1>2, PTL DEF CatalogueSpec, ProductSpec, BarcodeSpec, ContactSpec, SheetSpec
<1>4. ProductTypeOK /\ BarcodeInv /\ ContactTypeOK /\ SheetInv => CatalogueInv
  BY DEF CatalogueInv
<1> QED
  BY <1>3, <1>4, ProductsAreComplete, LossesAreBounded, BarcodesAgree, ContactsAreRight,
     SheetsAreRight, PTL
=============================================================================
