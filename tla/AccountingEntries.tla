------------------------- MODULE AccountingEntries -------------------------
(***************************************************************************)
(* The daily transfer of one company's takings to the accounts of SAGE X3  *)
(* (custom_api_sage_x3/models/account_move.py and its wizard): one ENCAI   *)
(* entry (sales of the POS sessions, customer settlements), one DECAI      *)
(* entry (takings that are not cash), one FACLI entry for every payment on *)
(* account, then the invoices of sale orders.  Each entry is a post of its *)
(* own, errors are collected and the run goes on.                          *)
(*                                                                         *)
(* As the code stands, pos.payment, pos.session and account.move are never *)
(* marked as sent (the calls are commented out): only settlements are, and *)
(* the only flag kept here is theirs.  Days and companies do not interact. *)
(***************************************************************************)
EXTENDS Naturals

CONSTANTS
    Sessions,     \* POS sessions of the day, each with cash and other takings
    Limits,       \* payments on account (is_limit)
    SessionOf,    \* the session of a payment on account
    Settlements,  \* account.payment of the day
    Coded,        \* settlements of partners that have a customer_id
    SaleInvoices,     \* invoices of sale orders
    Senders,      \* wizards that may be run at once
    MaxRetries,   \* MAX_RETRIES
    MaxCopies     \* bound: entries at X3 are counted up to this

ASSUME EntriesAssumption ==
    /\ SessionOf \in [Limits -> Sessions]
    /\ Coded \subseteq Settlements /\ Sessions \intersect Settlements = {}
    /\ MaxRetries \in Nat \ {0}
    /\ MaxCopies \in Nat \ {0}

VARIABLES
    session,   \* pos.session
    paid,      \* settlements in state paid
    flagged,   \* settlements with sage_x3_sent
    posted,    \* posted invoices
    booked,    \* how many times X3 holds each thing, by kind of entry
    excused,   \* settlements marked for a reason other than their booking (history)
    sender     \* the wizards

entryVars == <<session, paid, flagged, posted, booked, excused, sender>>

InEncai  == Sessions \union Settlements
InFacli  == Limits \union SaleInvoices
Kinds    == {"ENCAI", "DECAI", "FACLI"}
Bookable == ({"ENCAI"} \X InEncai) \union ({"DECAI"} \X Sessions)
                \union ({"FACLI"} \X InFacli)

\* sessions, settlements: in the day's entries; limits, invoices: still to
\* send; seen: unmarked settlements of the snapshot; fresh: a commit has ended
\* that snapshot; encai: fate of the ENCAI entry, misread when the answer
\* does not tell and the code takes it for a success.
Sender == [pc : {"idle", "encai", "decai", "facli", "mark", "refunds", "invoices"},
           sessions : SUBSET Sessions, settlements : SUBSET Settlements,
           limits : SUBSET Limits, invoices : SUBSET SaleInvoices,
           seen : SUBSET Settlements, fresh : BOOLEAN,
           encai : {"none", "ok", "misread", "failed"}]

NoSender == [pc |-> "idle", sessions |-> {}, settlements |-> {}, limits |-> {},
             invoices |-> {}, seen |-> {}, fresh |-> FALSE, encai |-> "none"]

EntriesInit ==
    /\ session = [x \in Sessions |-> "none"]
    /\ paid = {}
    /\ flagged = {}
    /\ posted = {}
    /\ booked = [k \in Bookable |-> 0]
    /\ excused = {}
    /\ sender = [w \in Senders |-> NoSender]

-----------------------------------------------------------------------------
(* The shop.                                                               *)

OpenSession(x) ==
    /\ session[x] = "none"
    /\ session' = [session EXCEPT ![x] = "open"]
    /\ UNCHANGED <<paid, flagged, posted, booked, excused, sender>>

CloseSession(x) ==
    /\ session[x] = "open"
    /\ session' = [session EXCEPT ![x] = "closed"]
    /\ UNCHANGED <<paid, flagged, posted, booked, excused, sender>>

Settle(s) ==
    /\ s \notin paid
    /\ paid' = paid \union {s}
    /\ UNCHANGED <<session, flagged, posted, booked, excused, sender>>

PostInvoice(i) ==
    /\ i \notin posted
    /\ posted' = posted \union {i}
    /\ UNCHANGED <<session, paid, flagged, booked, excused, sender>>

-----------------------------------------------------------------------------
(* The wizard: the entries of the day.                                     *)

Due     == {x \in Sessions : session[x] # "none"}
Blocked == \E x \in Sessions : session[x] = "open"

Unmarked == paid \ flagged

\* Variant: marked settlements are not left out of the entry.
ToSend_Again == paid \intersect Coded

ToSend == Unmarked \intersect Coded

\* _prepare_daily_entry; an open session, or nothing to send, ends the day.
Begin(w) ==
    /\ sender[w].pc = "idle"
    /\ sender' = [sender EXCEPT ![w] =
          IF Blocked \/ (Due = {} /\ ToSend = {})
          THEN [NoSender EXCEPT !.pc = "refunds"]
          ELSE [NoSender EXCEPT !.pc = "encai", !.sessions = Due,
                    !.settlements = ToSend, !.seen = Unmarked,
                    !.limits = {p \in Limits : SessionOf[p] \in Due}]]
    /\ UNCHANGED <<session, paid, flagged, posted, booked, excused>>

\* The login is refused: the day is given up before anything is sent.
LoginFails(w) ==
    /\ sender[w].pc = "encai"
    /\ sender' = [sender EXCEPT ![w] = [NoSender EXCEPT !.pc = "refunds"]]
    /\ UNCHANGED <<session, paid, flagged, posted, booked, excused>>

Saturate(n) == IF n > MaxCopies THEN MaxCopies ELSE n

\* One post of an entry about the things of K.  X3 may have handled it several
\* times, whatever the answer: see RemoteCall.  ok and failed: what X3 says;
\* misread: not a list, not JSON, or an empty list.
PostEntry(K, result) ==
    \E n \in (IF result = "ok" THEN 1 ELSE 0) .. MaxRetries :
        booked' = [k \in Bookable |-> IF k \in K THEN Saturate(booked[k] + n)
                                                 ELSE booked[k]]

Results == {"ok", "misread", "failed"}

\* An answer taken for a success is followed by a commit if the entry lists
\* POS payments (their marking, between the two, is commented out).
Succeeded(result) == result \in {"ok", "misread"}

PostEncai(w) ==
    LET r == sender[w] IN
    /\ r.pc = "encai"
    /\ \E result \in Results :
         /\ PostEntry({"ENCAI"} \X (r.sessions \union r.settlements), result)
         /\ sender' = [sender EXCEPT ![w] =
               [r EXCEPT !.encai = result,
                         !.pc = IF r.sessions # {} THEN "decai" ELSE "mark",
                         !.fresh = @ \/ (Succeeded(result) /\ r.sessions # {})]]
    /\ UNCHANGED <<session, paid, flagged, posted, excused>>

PostDecai(w) ==
    /\ sender[w].pc = "decai"
    /\ \E result \in Results :
         /\ PostEntry({"DECAI"} \X sender[w].sessions, result)
         /\ sender' = [sender EXCEPT ![w] =
               [sender[w] EXCEPT !.pc = IF sender[w].limits # {} THEN "facli" ELSE "mark",
                         !.fresh = @ \/ Succeeded(result)]]
    /\ UNCHANGED <<session, paid, flagged, posted, excused>>

PostFacli(w) ==
    /\ sender[w].pc = "facli"
    /\ \E p \in sender[w].limits, result \in Results :
         /\ PostEntry({<<"FACLI", p>>}, result)
         /\ sender' = [sender EXCEPT ![w] =
               [sender[w] EXCEPT !.pc = IF sender[w].limits = {p} THEN "mark" ELSE "facli",
                         !.limits = @ \ {p},
                         !.fresh = @ \/ Succeeded(result)]]
    /\ UNCHANGED <<session, paid, flagged, posted, excused>>

\* Variant: the marking does not wait for the ENCAI entry to succeed.
Marks_Always(r) == TRUE

\* Variant: the marking waits for another entry of the day as well.
Marks_NeedsAnother(r) == r.encai = "ok" /\ r.fresh

Marks(r) == Succeeded(r.encai)

\* What _mark_account_payments_as_sent finds when it searches again.
Found(r) == IF r.fresh THEN Unmarked ELSE r.seen

\* The settlements are marked and committed; rows of the old snapshot another
\* wizard has marked since are a conflict (Abort).
Mark(w) ==
    LET r == sender[w] IN
    /\ r.pc = "mark"
    /\ IF Marks(r)
       THEN /\ Found(r) \subseteq Unmarked
            /\ flagged' = flagged \union Found(r)
            /\ excused' = excused \union
                  (IF r.encai = "misread" THEN Found(r) ELSE Found(r) \ r.settlements)
       ELSE UNCHANGED <<flagged, excused>>
    /\ sender' = [sender EXCEPT ![w] = [NoSender EXCEPT !.pc = "refunds"]]
    /\ UNCHANGED <<session, paid, posted, booked>>

-----------------------------------------------------------------------------
(* The wizard: refunds and invoices.                                       *)

\* POS refunds on account are selected, and every one is turned down because
\* it comes from a POS order.  Ends with a commit; the invoices are searched
\* after it.
Refunds(w) ==
    /\ sender[w].pc = "refunds"
    /\ sender' = [sender EXCEPT ![w] = [NoSender EXCEPT !.pc = "invoices",
                                                        !.invoices = posted]]
    /\ UNCHANGED <<session, paid, flagged, posted, booked, excused>>

\* One invoice; whatever happens the loop goes on with the next.  The answer is
\* not recorded on success.
SendInvoice(w) ==
    /\ sender[w].pc = "invoices"
    /\ \E i \in sender[w].invoices :
         /\ \/ \E result \in Results : PostEntry({<<"FACLI", i>>}, result)
            \/ UNCHANGED booked    \* no customer_id, login refused
         /\ sender' = [sender EXCEPT ![w].invoices = @ \ {i}]
    /\ UNCHANGED <<session, paid, flagged, posted, excused>>

\* The dashboard sends the invoices without the day's entries.
BeginInvoices(w) ==
    /\ sender[w].pc = "idle"
    /\ sender' = [sender EXCEPT ![w] = [NoSender EXCEPT !.pc = "invoices",
                                                        !.invoices = posted]]
    /\ UNCHANGED <<session, paid, flagged, posted, booked, excused>>

End(w) ==
    /\ sender[w].pc = "invoices"
    /\ sender[w].invoices = {}
    /\ sender' = [sender EXCEPT ![w] = NoSender]
    /\ UNCHANGED <<session, paid, flagged, posted, booked, excused>>

\* A killed worker or a conflict: what is not committed is undone.
Abort(w) ==
    /\ sender[w].pc # "idle"
    /\ sender' = [sender EXCEPT ![w] = NoSender]
    /\ UNCHANGED <<session, paid, flagged, posted, booked, excused>>

-----------------------------------------------------------------------------
Shop ==
    \/ \E x \in Sessions : OpenSession(x) \/ CloseSession(x)
    \/ \E s \in Settlements : Settle(s)
    \/ \E i \in SaleInvoices : PostInvoice(i)

Wizard(w) ==
    \/ LoginFails(w) \/ PostEncai(w) \/ PostDecai(w) \/ PostFacli(w) \/ Mark(w)
    \/ Refunds(w) \/ SendInvoice(w) \/ End(w) \/ Abort(w)

EntriesNext ==
    \/ Shop
    \/ \E w \in Senders : Begin(w) \/ BeginInvoices(w) \/ Wizard(w)

EntriesSpec == EntriesInit /\ [][EntriesNext]_entryVars

-----------------------------------------------------------------------------
(* Properties.                                                             *)

\* Every variable has its type.
EntriesTypeOK ==
    /\ session \in [Sessions -> {"none", "open", "closed"}]
    /\ paid \subseteq Settlements
    /\ flagged \subseteq Settlements
    /\ posted \subseteq SaleInvoices
    /\ booked \in [Bookable -> 0 .. MaxCopies]
    /\ excused \subseteq Settlements
    /\ sender \in [Senders -> Sender]

\* A settlement marked as sent is in the accounts of X3, unless the run that
\* marked it had not put it in its ENCAI entry or could not read X3's answer:
\* no crash, refusal or parallel wizard marks one without its booking.
MarkedIsBooked ==
    \A s \in flagged \ excused : booked[<<"ENCAI", s>>] > 0

\* X3 books a marked settlement again only for a wizard that had prepared its
\* entry before the mark.
MarkedIsNotSentAgain ==
    [][\A s \in flagged :
          booked'[<<"ENCAI", s>>] > booked[<<"ENCAI", s>>]
              => \E w \in Senders : sender[w].pc = "encai" /\ s \in sender[w].seen
      ]_entryVars

\* Once X3 has taken the ENCAI entry, every settlement in it is marked by the
\* time the run goes on to the refunds, whatever became of the DECAI and FACLI
\* entries, of other runs and of the settlements paid meanwhile.
EncaiMarksItsSettlements ==
    [][\A w \in Senders :
          /\ sender[w].encai = "ok"
          /\ sender'[w].pc = "refunds"
          => sender[w].settlements \subseteq flagged']_entryVars

\* The invariant of entries: their types, and no settlement marked without its booking.
EntriesInv == EntriesTypeOK /\ MarkedIsBooked

\* Marks follow the entry: all that an accepted entry holds is marked, and what is
\* marked is prepared no more.
MarksFollowTheEntry == MarkedIsNotSentAgain /\ EncaiMarksItsSettlements
=============================================================================
