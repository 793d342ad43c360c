--------------------------- MODULE ContactImport ---------------------------
(***************************************************************************)
(* The import of contacts from SAGE X3                                     *)
(* (custom_api_sage_x3/models/create_contact_sage.py).  Every page is read *)
(* before the first contact is written; each contact is written in a       *)
(* savepoint, and the transaction is committed at every ContactStep-th.    *)
(*                                                                         *)
(* What a contact is told by X3 is abstracted to whether it is alive       *)
(* (active); its credit limit is in LimitCredit.  A page holds one contact.*)
(* One import is followed; another one commits contacts meanwhile.         *)
(***************************************************************************)
EXTENDS Naturals, Sequences, SequencesExt

CONSTANTS
    Customers,    \* the codes of X3, in the order of its pages
    ContactStep,  \* COMMIT_STEP
    MaxContacts   \* bound: contacts of one code, active or archived

CustomerCodes == Range(Customers)

ASSUME ContactAssumption ==
    /\ Customers \in Seq(CustomerCodes) /\ IsInjective(Customers)
    /\ ContactStep \in Nat \ {0} /\ MaxContacts \in Nat

VARIABLES
    alive,    \* bpcstA_0 of each code in X3
    contact,  \* the contacts of each code that Odoo has committed
    load      \* the import

contactVars == <<alive, contact, load>>

Contact == [active : 0 .. MaxContacts, archived : 0 .. MaxContacts]

\* told: what the pages said, idx: contacts done; seen: the snapshot of the open
\* transaction; pending: what it did to a code; moved: codes whose contact others
\* wrote since.  Of the proof only: raised; alone, no other import
\* has run, nor left a duplicate.
Load == [pc : {"idle", "pages", "contacts"}, told : Seq([code : CustomerCodes, alive : BOOLEAN]),
         idx : Nat, seen : [CustomerCodes -> Contact],
         pending : [CustomerCodes -> {"nothing", "made", "written", "filed", "archived"}],
         moved : SUBSET CustomerCodes, raised : SUBSET CustomerCodes, alone : BOOLEAN]

NoLoad == [pc |-> "idle", told |-> <<>>, idx |-> 0,
           seen |-> [c \in CustomerCodes |-> [active |-> 0, archived |-> 0]],
           pending |-> [c \in CustomerCodes |-> "nothing"],
           moved |-> {}, raised |-> {}, alone |-> TRUE]

ContactInit ==
    /\ alive \in [CustomerCodes -> BOOLEAN]
    /\ contact = [c \in CustomerCodes |-> [active |-> 0, archived |-> 0]]
    /\ load = NoLoad

\* Overlapping imports can both make a contact: no constraint forbids it.
Duplicated == {c \in CustomerCodes : contact[c].active > 1}

-----------------------------------------------------------------------------
Change(c) ==
    /\ alive' = [alive EXCEPT ![c] = ~@]
    /\ UNCHANGED <<contact, load>>

BeginLoad ==
    /\ load.pc = "idle"
    /\ load' = [NoLoad EXCEPT !.pc = "pages", !.seen = contact, !.alone = Duplicated = {}]
    /\ UNCHANGED <<alive, contact>>

\* A page.
Fetch ==
    /\ load.pc = "pages" /\ Len(load.told) < Len(Customers)
    /\ LET c == Customers[Len(load.told) + 1] IN
       load' = [load EXCEPT !.told = Append(@, [code |-> c, alive |-> alive[c]])]
    /\ UNCHANGED <<alive, contact>>

\* The last page was read, or MAX_PAGES, or MAX_DURATION is over.
StartContacts ==
    /\ load.pc = "pages"
    /\ load' = [load EXCEPT !.pc = "contacts"]
    /\ UNCHANGED <<alive, contact>>

\* A page that fails, a worker killed.
Break ==
    /\ load.pc # "idle"
    /\ load' = NoLoad
    /\ UNCHANGED <<alive, contact>>

-----------------------------------------------------------------------------
(* What a contact becomes.                                                 *)

Applied(r, did) ==
    CASE did = "made"     -> [r EXCEPT !.active = @ + 1]
      [] did = "filed"    -> [r EXCEPT !.archived = @ + 1]
      [] did = "archived" -> [active |-> r.active - 1, archived |-> r.archived + 1]
      [] OTHER            -> r

\* The search finds active contacts only: one that was archived is made again.
Upsert(r, is) ==
    IF r.active > 0 THEN IF is THEN "written" ELSE "archived"
    ELSE IF is THEN "made" ELSE "filed"

Bounded(r) == r.active <= MaxContacts /\ r.archived <= MaxContacts

AtStep(m) == m.idx % ContactStep = 0

\* The commit of m, which goes on as n: what it made is added to what the other
\* has committed.
CommitLoad(m, n) ==
    /\ contact' = [c \in CustomerCodes |-> Applied(contact[c], m.pending[c])]
    /\ \A c \in CustomerCodes : Bounded(contact'[c])
    /\ load' = [n EXCEPT !.seen = contact', !.pending = NoLoad.pending, !.moved = {}]

\* One contact, in its savepoint.
Contacted ==
    /\ load.pc = "contacts" /\ load.idx < Len(load.told)
    /\ LET said == load.told[load.idx + 1]
           c == said.code
           did == Upsert(load.seen[c], said.alive)
           n == [load EXCEPT !.idx = @ + 1, !.pending[c] = did]
       IN  /\ did \in {"written", "archived"} => c \notin load.moved
           /\ IF AtStep(n) THEN CommitLoad(n, n) ELSE load' = n /\ UNCHANGED contact
    /\ UNCHANGED alive

\* Variant: what was not committed is rolled back, as in the import of products.
Isolated_All(m) == [m EXCEPT !.pending = NoLoad.pending]

Isolated(m) == m

\* It raises, without a code or a name, or on a row that has moved: its savepoint
\* is rolled back, and the commit is skipped.
Raise ==
    /\ load.pc = "contacts" /\ load.idx < Len(load.told)
    /\ load' = [Isolated(load) EXCEPT !.idx = @ + 1,
                                      !.raised = @ \cup {load.told[load.idx + 1].code}]
    /\ UNCHANGED <<alive, contact>>

EndLoad ==
    /\ load.pc = "contacts" /\ load.idx = Len(load.told)
    /\ CommitLoad(load, NoLoad)
    /\ UNCHANGED alive

\* The other import commits a contact, in a snapshot of now or of before the last
\* commit.  It waits for a row that this one has written.
Other(c) ==
    /\ \E r \in {contact[c], load.seen[c]}, is \in BOOLEAN :
          LET did == Upsert(r, is) IN
          /\ did \in {"written", "archived"} =>
                load.pending[c] \notin {"written", "archived"} /\ contact[c].active > 0
          /\ contact' = [contact EXCEPT ![c] = Applied(@, did)]
          /\ load' = IF load.pc = "idle" THEN load
                     ELSE [load EXCEPT !.alone = FALSE,
                              !.moved = IF did \in {"written", "archived"} THEN @ \cup {c} ELSE @]
    /\ Bounded(contact'[c])
    /\ UNCHANGED alive

-----------------------------------------------------------------------------
ContactNext ==
    \/ \E c \in CustomerCodes : Change(c) \/ Other(c)
    \/ BeginLoad \/ Fetch \/ StartContacts \/ Break
    \/ Contacted \/ Raise \/ EndLoad

ContactSpec == ContactInit /\ [][ContactNext]_contactVars

-----------------------------------------------------------------------------
ContactTypeOK ==
    /\ alive \in [CustomerCodes -> BOOLEAN]
    /\ contact \in [CustomerCodes -> Contact]
    /\ load \in Load

\* "Rollback par contact en cas d'erreur isolée": an import that ran alone leaves
\* every contact that it was told of and that did not raise as X3 said, whatever
\* raised before or after it, wherever the commits fell: one active contact, or
\* none.
ContactsAreAsTold ==
    [][EndLoad /\ load.alone =>
          \A i \in 1 .. Len(load.told) :
             LET said == load.told[i] IN
             said.code \notin load.raised
                 => (contact'[said.code].active > 0) = said.alive]_contactVars
=============================================================================
