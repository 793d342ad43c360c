------------------------- MODULE Accounting_proofs -------------------------
(***************************************************************************)
(* Proofs about what leaves the accounts: AccountingEntries, for any       *)
(* sessions, settlements, payments on account, invoices and wizards,       *)
(* EntryLines, for any tickets, payments, rates, settlements and invoices  *)
(* of any amounts, SalesReports, for any orders, payments, sessions and    *)
(* invoices of any amounts, and FneCertification, for any invoices, notes, *)
(* users and number of documents at FNE.                                   *)
(***************************************************************************)
EXTENDS MCAccounting, Sums

-----------------------------------------------------------------------------
(* Entries.                                                                *)

\* What a wizard remembers: a settlement it sends was unmarked and paid when it began,
\* and is booked once X3 has taken the ENCAI entry.
SenderInv ==
    \A w \in Senders :
        /\ sender[w].pc \in {"idle", "encai", "refunds", "invoices"} => sender[w].encai = "none"
        /\ sender[w].settlements \subseteq sender[w].seen
        /\ sender[w].seen \subseteq paid
        /\ sender[w].encai = "ok" =>
              \A s \in sender[w].settlements : booked[<<"ENCAI", s>>] > 0

EntriesIInv == EntriesTypeOK /\ MarkedIsBooked /\ SenderInv

-----------------------------------------------------------------------------
(* Posts.                                                                  *)

\* A post only adds to what X3 holds, and a success adds to all that it is about.
LEMMA PostAdds ==
    ASSUME EntriesTypeOK, NEW K, NEW result, PostEntry(K, result)
    PROVE  /\ booked' \in [Bookable -> 0 .. MaxCopies]
           /\ \A k \in Bookable : booked[k] <= booked'[k]
           /\ \A k \in Bookable : k \notin K => booked'[k] = booked[k]
           /\ result = "ok" => \A k \in Bookable : k \in K => booked'[k] > 0
<1>1. PICK n \in (IF result = "ok" THEN 1 ELSE 0) .. MaxRetries :
        booked' = [k \in Bookable |-> IF k \in K THEN Saturate(booked[k] + n) ELSE booked[k]]
  BY DEF PostEntry
<1>2. n \in Nat /\ (result = "ok" => n > 0) /\ MaxCopies \in Nat /\ MaxCopies > 0
  BY EntriesAssumption
<1>3. \A k \in Bookable : booked[k] \in 0 .. MaxCopies
  BY DEF EntriesTypeOK
<1>4. \A b \in 0 .. MaxCopies :
        /\ Saturate(b + n) \in 0 .. MaxCopies
        /\ b <= Saturate(b + n)
        /\ n > 0 => Saturate(b + n) > 0
  BY <1>2 DEF Saturate
<1> QED
  BY <1>1, <1>2, <1>3, <1>4

\* An entry about settlements is one that X3 can hold.
LEMMA EncaiBookable ==
    \A s \in Settlements : <<"ENCAI", s>> \in Bookable
BY DEF Bookable, InEncai

\* The steps that post, and what they post.
LEMMA Posts ==
    ASSUME EntriesTypeOK, [EntriesNext]_entryVars
    PROVE  \/ UNCHANGED booked
           \/ \E w \in Senders : \E K, result :
                 /\ PostEntry(K, result)
                 /\ UNCHANGED <<paid, flagged, excused>>
                 /\ \/ PostEncai(w) /\ K = {"ENCAI"} \X (sender[w].sessions \union sender[w].settlements)
                    \/ K \subseteq {"DECAI", "FACLI"} \X (Sessions \union InFacli)
<1>1. ASSUME NEW w \in Senders, PostEncai(w)
      PROVE  \E K, result : /\ PostEntry(K, result)
                            /\ UNCHANGED <<paid, flagged, excused>>
                            /\ K = {"ENCAI"} \X (sender[w].sessions \union sender[w].settlements)
  BY <1>1 DEF PostEncai
<1>2. ASSUME NEW w \in Senders, PostDecai(w)
      PROVE  \E K, result : /\ PostEntry(K, result)
                            /\ UNCHANGED <<paid, flagged, excused>>
                            /\ K \subseteq {"DECAI", "FACLI"} \X (Sessions \union InFacli)
  <2>1. {"DECAI"} \X sender[w].sessions \subseteq {"DECAI", "FACLI"} \X (Sessions \union InFacli)
    BY DEF EntriesTypeOK, Sender
  <2> QED
    BY <1>2, <2>1 DEF PostDecai
<1>3. ASSUME NEW w \in Senders, PostFacli(w)
      PROVE  \E K, result : /\ PostEntry(K, result)
                            /\ UNCHANGED <<paid, flagged, excused>>
                            /\ K \subseteq {"DECAI", "FACLI"} \X (Sessions \union InFacli)
  <2>1. \A p \in sender[w].limits : {<<"FACLI", p>>} \subseteq {"DECAI", "FACLI"} \X (Sessions \union InFacli)
    BY DEF EntriesTypeOK, Sender, InFacli
  <2> QED
    BY <1>3, <2>1 DEF PostFacli
<1>4. ASSUME NEW w \in Senders, SendInvoice(w)
      PROVE  \/ UNCHANGED booked
             \/ \E K, result : /\ PostEntry(K, result)
                               /\ UNCHANGED <<paid, flagged, excused>>
                               /\ K \subseteq {"DECAI", "FACLI"} \X (Sessions \union InFacli)
  <2>1. \A i \in sender[w].invoices : {<<"FACLI", i>>} \subseteq {"DECAI", "FACLI"} \X (Sessions \union InFacli)
    BY DEF EntriesTypeOK, Sender, InFacli
  <2> QED
    BY <1>4, <2>1 DEF SendInvoice
<1> QED
  BY <1>1, <1>2, <1>3, <1>4
  DEF EntriesNext, Shop, Wizard, OpenSession, CloseSession, Settle, PostInvoice, Begin, BeginInvoices,
      LoginFails, Mark, Refunds, End, Abort, entryVars

\* X3 holds no less of anything after a step, and what it holds more of a settlement was
\* in the ENCAI entry of a wizard.
LEMMA BookedGrows ==
    ASSUME EntriesTypeOK, [EntriesNext]_entryVars, NEW s \in Settlements
    PROVE  /\ booked[<<"ENCAI", s>>] <= booked'[<<"ENCAI", s>>]
           /\ booked'[<<"ENCAI", s>>] > booked[<<"ENCAI", s>>] =>
                 \E w \in Senders : PostEncai(w) /\ s \in sender[w].settlements
<1>0. <<"ENCAI", s>> \in Bookable /\ booked[<<"ENCAI", s>>] \in Nat
  BY EncaiBookable DEF EntriesTypeOK
<1>1. CASE UNCHANGED booked
  BY <1>0, <1>1
<1>2. ASSUME NEW w \in Senders, NEW K, NEW result, PostEntry(K, result), PostEncai(w),
             K = {"ENCAI"} \X (sender[w].sessions \union sender[w].settlements)
      PROVE  /\ booked[<<"ENCAI", s>>] <= booked'[<<"ENCAI", s>>]
             /\ booked'[<<"ENCAI", s>>] > booked[<<"ENCAI", s>>] => s \in sender[w].settlements
  <2>1. /\ booked[<<"ENCAI", s>>] <= booked'[<<"ENCAI", s>>]
        /\ <<"ENCAI", s>> \notin K => booked'[<<"ENCAI", s>>] = booked[<<"ENCAI", s>>]
    BY <1>0, <1>2, PostAdds
  <2>2. s \notin sender[w].sessions
    BY EntriesAssumption DEF EntriesTypeOK, Sender
  <2>3. s \notin sender[w].settlements => <<"ENCAI", s>> \notin K
    BY <1>2, <2>2
  <2> QED
    BY <1>0, <2>1, <2>3
<1>3. ASSUME NEW K, NEW result, PostEntry(K, result),
             K \subseteq {"DECAI", "FACLI"} \X (Sessions \union InFacli)
      PROVE  booked[<<"ENCAI", s>>] = booked'[<<"ENCAI", s>>]
  <2>1. <<"ENCAI", s>> \notin K
    BY <1>3
  <2> QED
    BY <1>0, <1>3, <2>1, PostAdds
<1> QED
  BY <1>0, <1>1, <1>2, <1>3, Posts

-----------------------------------------------------------------------------
(* The inductive invariant.                                                *)

\* Nothing is paid, marked or booked at first.
LEMMA InitEntries == EntriesInit => EntriesIInv
BY EntriesAssumption
DEF EntriesInit, EntriesIInv, EntriesTypeOK, MarkedIsBooked, SenderInv, Sender, NoSender

\* Every step keeps the types.
LEMMA StepEntriesType ==
    ASSUME EntriesTypeOK, [EntriesNext]_entryVars
    PROVE  EntriesTypeOK'
<1> USE DEF EntriesTypeOK
<1>1. booked' \in [Bookable -> 0 .. MaxCopies]
  BY Posts, PostAdds
<1>2. CASE Shop
  BY <1>2 DEF Shop, OpenSession, CloseSession, Settle, PostInvoice
<1>3. ASSUME NEW w \in Senders, Begin(w) \/ BeginInvoices(w) \/ LoginFails(w) \/ Refunds(w) \/ End(w) \/ Abort(w)
      PROVE  EntriesTypeOK'
  <2>1. NoSender \in Sender
    BY DEF NoSender, Sender
  <2>2. sender' \in [Senders -> Sender]
    <3>1. CASE Begin(w)
      BY <3>1, <2>1 DEF Begin, NoSender, Sender, Due, ToSend, Unmarked
    <3>2. CASE BeginInvoices(w) \/ LoginFails(w) \/ Refunds(w) \/ End(w) \/ Abort(w)
      <4>1. /\ [NoSender EXCEPT !.pc = "invoices", !.invoices = posted] \in Sender
            /\ [NoSender EXCEPT !.pc = "refunds"] \in Sender
        BY DEF NoSender, Sender
      <4> QED
        BY <3>2, <2>1, <4>1 DEF BeginInvoices, LoginFails, Refunds, End, Abort
    <3> QED
      BY <1>3, <3>1, <3>2
  <2> QED
    BY <1>3, <2>2 DEF Begin, BeginInvoices, LoginFails, Refunds, End, Abort
<1>4. ASSUME NEW w \in Senders, PostEncai(w)
      PROVE  EntriesTypeOK'
  <2>0. sender[w] \in Sender
    OBVIOUS
  <2>1. sender' \in [Senders -> Sender]
    <3>1. PICK result \in Results :
            sender' = [sender EXCEPT ![w] = [sender[w] EXCEPT !.encai = result,
                         !.pc = IF sender[w].sessions # {} THEN "decai" ELSE "mark",
                         !.fresh = @ \/ (Succeeded(result) /\ sender[w].sessions # {})]]
      BY <1>4 DEF PostEncai
    <3>2. [sender[w] EXCEPT !.encai = result,
                         !.pc = IF sender[w].sessions # {} THEN "decai" ELSE "mark",
                         !.fresh = @ \/ (Succeeded(result) /\ sender[w].sessions # {})]
            \in Sender
      BY <2>0 DEF Results, Succeeded, Sender
    <3>3. \E r \in Sender : sender' = [sender EXCEPT ![w] = r]
      BY <3>1, <3>2, Zenon
    <3> QED
      BY <3>3
  <2> QED
    BY <1>1, <1>4, <2>1 DEF PostEncai
<1>5. ASSUME NEW w \in Senders, PostDecai(w)
      PROVE  EntriesTypeOK'
  <2>0. sender[w] \in Sender
    OBVIOUS
  <2>1. sender' \in [Senders -> Sender]
    <3>1. PICK result \in Results :
            sender' = [sender EXCEPT ![w] = [sender[w] EXCEPT !.pc = IF sender[w].limits # {} THEN "facli" ELSE "mark",
                         !.fresh = @ \/ Succeeded(result)]]
      BY <1>5 DEF PostDecai
    <3>2. [sender[w] EXCEPT !.pc = IF sender[w].limits # {} THEN "facli" ELSE "mark",
                         !.fresh = @ \/ Succeeded(result)]
            \in Sender
      BY <2>0 DEF Results, Succeeded, Sender
    <3>3. \E r \in Sender : sender' = [sender EXCEPT ![w] = r]
      BY <3>1, <3>2, Zenon
    <3> QED
      BY <3>3
  <2> QED
    BY <1>1, <1>5, <2>1 DEF PostDecai
<1>6. ASSUME NEW w \in Senders, PostFacli(w)
      PROVE  EntriesTypeOK'
  <2>0. sender[w] \in Sender
    OBVIOUS
  <2>1. sender' \in [Senders -> Sender]
    <3>1. PICK p \in sender[w].limits, result \in Results :
            sender' = [sender EXCEPT ![w] = [sender[w] EXCEPT !.pc = IF sender[w].limits = {p} THEN "mark" ELSE "facli",
                         !.limits = @ \ {p},
                         !.fresh = @ \/ Succeeded(result)]]
      BY <1>6 DEF PostFacli
    <3>2. [sender[w] EXCEPT !.pc = IF sender[w].limits = {p} THEN "mark" ELSE "facli",
                         !.limits = @ \ {p},
                         !.fresh = @ \/ Succeeded(result)]
            \in Sender
      BY <2>0 DEF Results, Succeeded, Sender
    <3>3. \E r \in Sender : sender' = [sender EXCEPT ![w] = r]
      BY <3>1, <3>2, Zenon
    <3> QED
      BY <3>3
  <2> QED
    BY <1>1, <1>6, <2>1 DEF PostFacli
<1>7. ASSUME NEW w \in Senders, Mark(w)
      PROVE  EntriesTypeOK'
  <2>1. sender' \in [Senders -> Sender]
    BY <1>7 DEF Mark, NoSender, Sender
  <2>2. flagged' \subseteq Settlements /\ excused' \subseteq Settlements
    BY <1>7 DEF Mark, Unmarked
  <2> QED
    BY <1>7, <2>1, <2>2 DEF Mark
<1>8. ASSUME NEW w \in Senders, SendInvoice(w)
      PROVE  EntriesTypeOK'
  <2>1. sender' \in [Senders -> Sender]
    BY <1>8 DEF SendInvoice, Sender
  <2> QED
    BY <1>1, <1>8, <2>1 DEF SendInvoice
<1>9. CASE UNCHANGED entryVars
  BY <1>9 DEF entryVars
<1> QED
  BY <1>2, <1>3, <1>4, <1>5, <1>6, <1>7, <1>8, <1>9 DEF EntriesNext, Wizard

\* What a wizard remembers stays true: payments stay, and bookings only grow.
LEMMA StepSender ==
    ASSUME EntriesTypeOK, SenderInv, [EntriesNext]_entryVars
    PROVE  SenderInv'
<1> DEFINE Good(r, p, b) ==
        /\ r.pc \in {"idle", "encai", "refunds", "invoices"} => r.encai = "none"
        /\ r.settlements \subseteq r.seen
        /\ r.seen \subseteq p
        /\ r.encai = "ok" => \A s \in r.settlements : b[<<"ENCAI", s>>] > 0
<1>1. paid \subseteq paid'
  BY DEF EntriesNext, Shop, Wizard, OpenSession, CloseSession, Settle, PostInvoice, Begin, BeginInvoices,
      LoginFails, PostEncai, PostDecai, PostFacli, Mark, Refunds, SendInvoice, End, Abort, entryVars
<1>2. \A s \in Settlements : booked[<<"ENCAI", s>>] > 0 => booked'[<<"ENCAI", s>>] > 0
  <2> SUFFICES ASSUME NEW s \in Settlements, booked[<<"ENCAI", s>>] > 0
               PROVE  booked'[<<"ENCAI", s>>] > 0
    OBVIOUS
  <2>1. booked[<<"ENCAI", s>>] <= booked'[<<"ENCAI", s>>]
    BY BookedGrows
  <2>2. booked[<<"ENCAI", s>>] \in Nat /\ booked'[<<"ENCAI", s>>] \in Nat
    BY EncaiBookable, StepEntriesType DEF EntriesTypeOK
  <2> QED
    BY <2>1, <2>2
<1>3. \A w \in Senders : sender[w].settlements \subseteq Settlements
  BY DEF EntriesTypeOK, Sender
<1>4. ASSUME NEW v \in Senders, sender'[v] = sender[v]
      PROVE  Good(sender'[v], paid', booked')
  BY <1>1, <1>2, <1>3, <1>4 DEF SenderInv
<1>5. Good(NoSender, paid', booked')
  BY DEF NoSender
<1>6. ASSUME NEW w \in Senders, Begin(w)
      PROVE  Good(sender'[w], paid', booked')
  <2>1. ToSend \subseteq Unmarked /\ Unmarked \subseteq paid
    BY DEF ToSend, Unmarked
  <2> QED
    BY <1>6, <2>1 DEF Begin, NoSender, EntriesTypeOK
<1>7. ASSUME NEW w \in Senders,
             BeginInvoices(w) \/ LoginFails(w) \/ Mark(w) \/ Refunds(w) \/ End(w) \/ Abort(w)
      PROVE  Good(sender'[w], paid', booked')
  <2>0. PICK r : sender' = [sender EXCEPT ![w] = r] /\ r.encai = "none" /\ r.settlements = {} /\ r.seen = {}
    <3>1. \A r : r \in {NoSender, [NoSender EXCEPT !.pc = "refunds"],
                       [NoSender EXCEPT !.pc = "invoices", !.invoices = posted]} =>
                r.encai = "none" /\ r.settlements = {} /\ r.seen = {}
      <4>1. NoSender.encai = "none" /\ NoSender.settlements = {} /\ NoSender.seen = {}
        BY DEF NoSender
      <4>2. LET r == [NoSender EXCEPT !.pc = "refunds"]
            IN  r.encai = "none" /\ r.settlements = {} /\ r.seen = {}
        BY DEF NoSender
      <4>3. LET r == [NoSender EXCEPT !.pc = "invoices", !.invoices = posted]
            IN  r.encai = "none" /\ r.settlements = {} /\ r.seen = {}
        BY DEF NoSender
      <4> QED
        BY <4>1, <4>2, <4>3
    <3>2. \E r \in {NoSender, [NoSender EXCEPT !.pc = "refunds"],
                    [NoSender EXCEPT !.pc = "invoices", !.invoices = posted]} :
                sender' = [sender EXCEPT ![w] = r]
      BY <1>7 DEF BeginInvoices, LoginFails, Mark, Refunds, End, Abort
    <3> QED
      BY <3>1, <3>2
  <2>1. /\ sender'[w].encai = "none" /\ sender'[w].settlements = {} /\ sender'[w].seen = {}
    BY <2>0 DEF EntriesTypeOK
  <2> QED
    BY <2>1
<1>8. ASSUME NEW w \in Senders, PostEncai(w)
      PROVE  Good(sender'[w], paid', booked')
  <2>1. PICK result \in Results :
          /\ PostEntry({"ENCAI"} \X (sender[w].sessions \union sender[w].settlements), result)
          /\ sender'[w].encai = result
          /\ sender'[w].pc \in {"decai", "mark"}
          /\ sender'[w].settlements = sender[w].settlements /\ sender'[w].seen = sender[w].seen
    BY <1>8 DEF PostEncai, EntriesTypeOK, Sender
  <2>2. ASSUME result = "ok", NEW s \in sender[w].settlements
        PROVE  booked'[<<"ENCAI", s>>] > 0
    <3>1. <<"ENCAI", s>> \in {"ENCAI"} \X (sender[w].sessions \union sender[w].settlements)
      OBVIOUS
    <3>2. <<"ENCAI", s>> \in Bookable
      BY <1>3, EncaiBookable
    <3> QED
      BY <2>1, <2>2, <3>1, <3>2, PostAdds
  <2> QED
    BY <1>1, <2>1, <2>2 DEF SenderInv
<1>9. ASSUME NEW w \in Senders, PostDecai(w) \/ PostFacli(w) \/ SendInvoice(w)
      PROVE  Good(sender'[w], paid', booked')
  <2>1. /\ sender'[w].encai = sender[w].encai
        /\ sender'[w].pc \in {"idle", "encai", "refunds", "invoices"} => sender[w].pc = "invoices"
        /\ sender'[w].settlements = sender[w].settlements /\ sender'[w].seen = sender[w].seen
    <3>0. sender[w] \in Sender /\ DOMAIN sender = Senders
      BY DEF EntriesTypeOK
    <3>1. CASE PostDecai(w)
      BY <3>0, <3>1 DEF PostDecai, Sender
    <3>2. CASE PostFacli(w)
      BY <3>0, <3>2 DEF PostFacli, Sender
    <3>3. CASE SendInvoice(w)
      BY <3>0, <3>3 DEF SendInvoice, Sender
    <3> QED
      BY <1>9, <3>1, <3>2, <3>3
  <2> QED
    BY <1>1, <1>2, <1>3, <2>1 DEF SenderInv
<1>10. ASSUME NEW w \in Senders, Begin(w) \/ BeginInvoices(w) \/ Wizard(w)
       PROVE  \A v \in Senders : v # w => sender'[v] = sender[v]
  BY <1>10 DEF Begin, BeginInvoices, Wizard, LoginFails, PostEncai, PostDecai, PostFacli, Mark, Refunds,
               SendInvoice, End, Abort, EntriesTypeOK
<1>11. CASE UNCHANGED sender
  BY <1>4, <1>11 DEF SenderInv
<1>12. ASSUME NEW w \in Senders, Begin(w) \/ BeginInvoices(w) \/ Wizard(w)
       PROVE  SenderInv'
  <2>1. Good(sender'[w], paid', booked')
    BY <1>6, <1>7, <1>8, <1>9, <1>12 DEF Wizard
  <2>2. \A v \in Senders : Good(sender'[v], paid', booked')
    BY <1>4, <1>10, <1>12, <2>1
  <2> QED
    BY <2>2 DEF SenderInv
<1> QED
  BY <1>11, <1>12 DEF EntriesNext, Shop, OpenSession, CloseSession, Settle, PostInvoice, entryVars

\* A settlement is marked by a wizard whose ENCAI entry X3 has taken, or is excused.
LEMMA StepMarked ==
    ASSUME EntriesTypeOK, SenderInv, MarkedIsBooked, [EntriesNext]_entryVars
    PROVE  MarkedIsBooked'
<1> SUFFICES ASSUME NEW s \in flagged', s \notin excused'
             PROVE  booked'[<<"ENCAI", s>>] > 0
  BY DEF MarkedIsBooked
<1>1. s \in Settlements
  BY StepEntriesType DEF EntriesTypeOK
<1>2. ASSUME booked[<<"ENCAI", s>>] > 0
      PROVE  booked'[<<"ENCAI", s>>] > 0
  <2>1. booked[<<"ENCAI", s>>] <= booked'[<<"ENCAI", s>>]
    BY <1>1, BookedGrows
  <2>2. booked[<<"ENCAI", s>>] \in Nat /\ booked'[<<"ENCAI", s>>] \in Nat
    BY <1>1, EncaiBookable, StepEntriesType DEF EntriesTypeOK
  <2> QED
    BY <1>2, <2>1, <2>2
<1>3. CASE UNCHANGED <<flagged, excused>>
  BY <1>2, <1>3 DEF MarkedIsBooked
<1>4. ASSUME NEW w \in Senders, Mark(w)
      PROVE  booked[<<"ENCAI", s>>] > 0
  <2>1. CASE s \in flagged
    BY <1>4, <2>1 DEF Mark, MarkedIsBooked
  <2>2. CASE s \notin flagged
    <3>1. sender[w].encai = "ok" /\ s \in sender[w].settlements
      BY <1>4, <2>2 DEF Mark, Marks, Succeeded
    <3> QED
      BY <3>1 DEF SenderInv
  <2> QED
    BY <2>1, <2>2
<1> QED
  BY <1>2, <1>3, <1>4
  DEF EntriesNext, Shop, Wizard, OpenSession, CloseSession, Settle, PostInvoice, Begin, BeginInvoices,
      LoginFails, PostEncai, PostDecai, PostFacli, Refunds, SendInvoice, End, Abort, entryVars

\* Every step keeps the inductive invariant.
LEMMA StepEntries == EntriesIInv /\ [EntriesNext]_entryVars => EntriesIInv'
BY StepEntriesType, StepSender, StepMarked DEF EntriesIInv

\* Every state is well typed, and no settlement is marked as sent before X3 holds its
\* booking, unless the run that marked it had not put it in its entry or could not read
\* the answer: for any number of wizards at once, settlements and sessions.
THEOREM EntriesInvariant == EntriesSpec => []EntriesInv
<1>1. EntriesIInv => EntriesInv
  BY DEF EntriesIInv, EntriesInv
<1> QED
  BY <1>1, InitEntries, StepEntries, PTL DEF EntriesSpec

-----------------------------------------------------------------------------
(* Marks and entries.                                                      *)

\* All that an accepted ENCAI entry holds is marked when its run goes on to the refunds.
LEMMA StepEncaiMarks ==
    ASSUME EntriesIInv, [EntriesNext]_entryVars, NEW w \in Senders,
           sender[w].encai = "ok", sender'[w].pc = "refunds"
    PROVE  sender[w].settlements \subseteq flagged'
<1>0. /\ sender[w].pc \notin {"idle", "encai", "refunds", "invoices"}
      /\ sender[w].settlements \subseteq sender[w].seen /\ sender[w].seen \subseteq paid
      /\ \A v \in Senders : sender[v] \in Sender
  BY DEF EntriesIInv, SenderInv, EntriesTypeOK
<1>1. CASE Mark(w)
  BY <1>0, <1>1 DEF Mark, Marks, Succeeded, Found, Unmarked
<1>2. sender'[w] = sender[w] => FALSE
  BY <1>0
<1>3. ASSUME NEW v \in Senders, v # w, Begin(v) \/ BeginInvoices(v) \/ Wizard(v)
      PROVE  sender'[w] = sender[w]
  BY <1>3 DEF Begin, BeginInvoices, Wizard, LoginFails, PostEncai, PostDecai, PostFacli, Mark, Refunds,
              SendInvoice, End, Abort, EntriesIInv, EntriesTypeOK
<1>4. PostDecai(w) \/ PostFacli(w) => FALSE
  <2>0. sender[w] \in Sender /\ DOMAIN sender = Senders
    BY DEF EntriesIInv, EntriesTypeOK
  <2>1. PostDecai(w) => sender'[w].pc \in {"facli", "mark"}
    BY <2>0 DEF PostDecai, Sender
  <2>2. PostFacli(w) => sender'[w].pc \in {"facli", "mark"}
    BY <2>0 DEF PostFacli, Sender
  <2> QED
    BY <2>1, <2>2
<1>5. End(w) \/ Abort(w) => FALSE
  BY DEF End, Abort, NoSender, EntriesIInv, EntriesTypeOK
<1>6. Begin(w) \/ BeginInvoices(w) \/ LoginFails(w) \/ PostEncai(w) \/ Refunds(w) \/ SendInvoice(w) => FALSE
  BY <1>0 DEF Begin, BeginInvoices, LoginFails, PostEncai, Refunds, SendInvoice
<1>7. Shop \/ UNCHANGED entryVars => FALSE
  BY <1>2 DEF Shop, OpenSession, CloseSession, Settle, PostInvoice, entryVars
<1>8. PICK v \in Senders : Begin(v) \/ BeginInvoices(v) \/ Wizard(v)
  BY <1>7 DEF EntriesNext
<1>9. v = w
  BY <1>2, <1>3, <1>8
<1> QED
  BY <1>1, <1>4, <1>5, <1>6, <1>8, <1>9 DEF Wizard

\* Once X3 has taken the ENCAI entry all its settlements are marked, and X3 books a
\* marked settlement again only for a wizard that had prepared its entry before.
THEOREM MarksFollow == EntriesSpec => MarksFollowTheEntry
<1>1. EntriesSpec => []EntriesIInv
  BY InitEntries, StepEntries, PTL DEF EntriesSpec
<1>2. EntriesIInv /\ [EntriesNext]_entryVars =>
        [\A s \in flagged :
            booked'[<<"ENCAI", s>>] > booked[<<"ENCAI", s>>]
                => \E w \in Senders : sender[w].pc = "encai" /\ s \in sender[w].seen]_entryVars
  <2> SUFFICES ASSUME EntriesIInv, [EntriesNext]_entryVars, NEW s \in flagged,
                      booked'[<<"ENCAI", s>>] > booked[<<"ENCAI", s>>]
               PROVE  \E w \in Senders : sender[w].pc = "encai" /\ s \in sender[w].seen
    OBVIOUS
  <2>1. s \in Settlements /\ EntriesTypeOK
    BY DEF EntriesIInv, EntriesTypeOK
  <2>2. PICK w \in Senders : PostEncai(w) /\ s \in sender[w].settlements
    BY <2>1, BookedGrows
  <2>3. sender[w].pc = "encai" /\ s \in sender[w].seen
    BY <2>2 DEF PostEncai, EntriesIInv, SenderInv
  <2> QED
    BY <2>3
<1>3. EntriesIInv /\ [EntriesNext]_entryVars =>
        [\A w \in Senders :
            /\ sender[w].encai = "ok"
            /\ sender'[w].pc = "refunds"
            => sender[w].settlements \subseteq flagged']_entryVars
  BY StepEncaiMarks
<1>4. EntriesSpec => MarkedIsNotSentAgain
  BY <1>1, <1>2, PTL DEF EntriesSpec, MarkedIsNotSentAgain
<1>5. EntriesSpec => EncaiMarksItsSettlements
  BY <1>1, <1>3, PTL DEF EntriesSpec, EncaiMarksItsSettlements
<1> QED
  BY <1>4, <1>5 DEF MarksFollowTheEntry

-----------------------------------------------------------------------------
(* Certificates.                                                           *)

\* Only a certificate gives a reference, and only a move that was made has a certificate
\* or a wizard on it.
ReferenceIsOfCertificate ==
    \A m \in Moves :
        /\ move[m].reference # 0 => move[m].certified
        /\ move[m].certified => move[m].state # "none"

ShownIsMade == \A n \in Notes : shown[n] # {} => move[n].state # "none"

\* The row of a move holds what FNE signed, in the documents sg, under its reference, or
\* what a wizard showed, as sh tells.
Holds(row, m, sg, sh) ==
    row.certified =>
        /\ row.reference \in DOMAIN sg
        /\ sg[row.reference].move = m
        /\ IF sg[row.reference].wizard
           THEN m \in Notes /\ sg[row.reference].version \in sh[m]
           ELSE row.state = "posted" /\ sg[row.reference].version = row.version

\* A certificate stays with its reference.
Keeps(old, new) == old.certified => new.certified /\ new.reference = old.reference

\* A note that is certified refunds the document of its invoice.
NoteRefunds(rows, m, sg) ==
    m \in Notes /\ rows[m].certified =>
        /\ rows[Reverses[m]].certified
        /\ sg[rows[m].reference].origin = rows[Reverses[m]].reference

\* What a request r knows when the moves are mv, the documents sg and the wizards show
\* sh.  A certificate that it found is still there, in what it reads too; what it does not
\* write it reads as it found it.
ReadsWhatItFound(r, mv) ==
    /\ \A m \in Moves : Keeps(r.began[m], mv[m]) /\ Keeps(r.began[m], r.read[m])
    /\ \A m \in Moves \ r.wrote : r.read[m] = r.began[m]

\* What it has written was made and, once certified, holds what FNE signed; a note has the
\* certificate of its invoice.
WritesWhatIsSigned(r, sg, sh) ==
    \A m \in r.wrote :
        /\ r.read[m].state # "none"
        /\ r.read[m].reference # 0 => r.read[m].certified
        /\ Holds(r.read[m], m, sg, sh)
        /\ NoteRefunds(r.read, m, sg)

\* The lines of a wizard are those that it showed of the note to certify.
SendsWhatIsShown(r, sh) ==
    r.lines # 0 => \A m \in r.todo :
        m \in Notes /\ r.lines \in sh[m] /\ r.read[m].state # "none"

\* It holds the reference of every document it made.
KeepsItsPosts(r, sg) ==
    \A p \in r.posts :
        /\ p \in DOMAIN sg
        /\ sg[p].move \in r.wrote
        /\ r.read[sg[p].move].certified
        /\ r.read[sg[p].move].reference = p

\* Without a request there is nothing to certify or to remember.
IdleHasNothing(r) == r.op = "idle" => r.todo = {} /\ r.posts = {}

Sound(r, mv, sg, sh) ==
    /\ ReadsWhatItFound(r, mv)
    /\ WritesWhatIsSigned(r, sg, sh)
    /\ SendsWhatIsShown(r, sh)
    /\ KeepsItsPosts(r, sg)
    /\ IdleHasNothing(r)

RequestInv == \A u \in Users : Sound(request[u], move, signed, shown)

FneIInv == FneInv /\ ReferenceIsOfCertificate /\ ShownIsMade /\ RequestInv

-----------------------------------------------------------------------------
(* What the steps do.                                                      *)

\* No request is one that a user may have.
LEMMA NoRequestType == NoRequest \in Request
BY FneAssumption DEF NoRequest, Request, NewMove, Move

\* A move that is made, in any state, is a move.
LEMMA NewMoveType ==
    ASSUME NEW state \in {"none", "draft", "posted", "cancel"}
    PROVE  NewMove(state) \in Move
BY FneAssumption DEF NewMove, Move

\* What a request sends to FNE is a document.
LEMMA DocumentType ==
    ASSUME NEW read \in [Moves -> Move], NEW m \in Moves, NEW lines \in 0 .. MaxVersion
    PROVE  DocumentOf(m, read, lines) \in Document
<1>1. m \in Notes => Reverses[m] \in Moves
  BY FneAssumption DEF Moves
<1>2. \A n \in Moves : read[n].version \in 1 .. MaxVersion /\ read[n].reference \in 0 .. MaxSigned
  BY DEF Move
<1> DEFINE version == IF lines = 0 THEN read[m].version ELSE lines
           origin == IF m \in Notes THEN read[Reverses[m]].reference ELSE 0
<1>3. version \in 1 .. MaxVersion /\ origin \in 0 .. MaxSigned /\ (lines # 0) \in BOOLEAN
  BY <1>1, <1>2, FneAssumption
<1>4. DocumentOf(m, read, lines) =
        [move |-> m, version |-> version, wizard |-> lines # 0, origin |-> origin]
  BY DEF DocumentOf
<1> HIDE DEF version, origin
<1> QED
  BY <1>3, <1>4 DEF Document

\* A certificate adds one document to the posts and changes the row of its move only.
LEMMA CertificateIs ==
    ASSUME NEW r \in Request, NEW m \in Moves, NEW reference \in 1 .. MaxSigned
    PROVE  LET c == WithCertificate(r, m, reference) IN
           /\ c \in Request
           /\ c.todo = r.todo \ {m} /\ c.wrote = r.wrote \cup {m}
           /\ c.op = r.op /\ c.lines = r.lines /\ c.began = r.began /\ c.posts = r.posts \cup {reference}
           /\ \A n \in Moves : n # m => c.read[n] = r.read[n]
           /\ c.read[m].certified /\ c.read[m].reference = reference
           /\ c.read[m].state = r.read[m].state /\ c.read[m].version = r.read[m].version
<1>1. /\ r.todo \in SUBSET Moves /\ r.wrote \in SUBSET Moves
      /\ r.read \in [Moves -> Move] /\ r.began \in [Moves -> Move] /\ r.posts \in SUBSET (1 .. MaxSigned)
      /\ r.read[m] \in Move
  BY DEF Request
<1>2. [r.read[m] EXCEPT !.certified = TRUE, !.reference = reference] \in Move
  <2>1. reference \in 0 .. MaxSigned
    BY FneAssumption
  <2> QED
    BY <1>1, <2>1 DEF Move
<1> DEFINE row == [r.read[m] EXCEPT !.certified = TRUE, !.reference = reference]
<1>3. /\ row.certified /\ row.reference = reference
      /\ row.state = r.read[m].state /\ row.version = r.read[m].version
  BY <1>1 DEF Move
<1>4. WithCertificate(r, m, reference) =
        [r EXCEPT !.todo = @ \ {m}, !.wrote = @ \cup {m}, !.read[m] = row, !.posts = @ \cup {reference}]
  BY DEF WithCertificate
<1> HIDE DEF row
<1>5. row \in Move
  BY <1>2 DEF row
<1> DEFINE c == WithCertificate(r, m, reference)
<1>6. /\ c.todo = r.todo \ {m} /\ c.wrote = r.wrote \cup {m}
      /\ c.op = r.op /\ c.lines = r.lines /\ c.began = r.began /\ c.posts = r.posts \cup {reference}
      /\ c.read = [r.read EXCEPT ![m] = row]
  BY <1>4 DEF Request
<1>7. c \in Request
  <2>1. /\ r.todo \ {m} \in SUBSET Moves /\ r.wrote \cup {m} \in SUBSET Moves
        /\ [r.read EXCEPT ![m] = row] \in [Moves -> Move]
        /\ r.posts \cup {reference} \in SUBSET (1 .. MaxSigned)
    BY <1>1, <1>5
  <2>2. c = [op |-> r.op, lines |-> r.lines, todo |-> r.todo \ {m}, wrote |-> r.wrote \cup {m},
             read |-> [r.read EXCEPT ![m] = row], began |-> r.began,
             posts |-> r.posts \cup {reference}]
    BY <1>4 DEF Request
  <2>3. r.op \in {"idle", "post", "certify"} /\ r.lines \in 0 .. MaxVersion
    BY DEF Request
  <2> HIDE DEF c
  <2> QED
    BY <1>1, <2>1, <2>2, <2>3 DEF Request
<1> QED
  BY <1>1, <1>3, <1>6, <1>7

\* FNE forgets no document.
LEMMA SignedStays ==
    ASSUME FneTypeOK, [FneNext]_fneVars
    PROVE  /\ Len(signed) <= Len(signed')
           /\ \A i \in DOMAIN signed : i \in DOMAIN signed' /\ signed'[i] = signed[i]
<1>1. CASE UNCHANGED signed
  BY <1>1 DEF FneTypeOK
<1>2. ASSUME NEW d \in Document, signed' = Append(signed, d)
      PROVE  /\ Len(signed) <= Len(signed')
             /\ \A i \in DOMAIN signed : i \in DOMAIN signed' /\ signed'[i] = signed[i]
  BY <1>2 DEF FneTypeOK
<1>3. ASSUME NEW u \in Users, NEW m \in request[u].todo, PostAnswered(u, m) \/ PostUnheard(u, m)
      PROVE  \E d \in Document : signed' = Append(signed, d)
  <2>1. m \in Moves /\ request[u].read \in [Moves -> Move] /\ request[u].lines \in 0 .. MaxVersion
    BY DEF FneTypeOK, Request
  <2> QED
    BY <1>3, <2>1, DocumentType DEF PostAnswered, PostUnheard
<1> QED
  BY <1>1, <1>2, <1>3
  DEF FneNext, fneVars, ReverseMove, EditMove, ResetToDraft, CancelMove, PostMoves, OpenWizard, CertifyInWizard, CertifyMove,
      PostRefused, CommitRequest, AbortRequest

\* A commit writes the rows of the request and leaves the others.
LEMMA CommitIs ==
    ASSUME FneTypeOK, RequestInv, NEW u \in Users, CommitRequest(u), NEW m \in Moves
    PROVE  /\ m \in request[u].wrote => move'[m] = request[u].read[m] /\ move[m] = request[u].began[m]
           /\ m \notin request[u].wrote => move'[m] = move[m]
           /\ Keeps(move[m], move'[m])
<1>1. /\ m \in request[u].wrote => move'[m] = request[u].read[m] /\ move[m] = request[u].began[m]
      /\ m \notin request[u].wrote => move'[m] = move[m]
  BY DEF CommitRequest, Conflict
<1>2. Keeps(request[u].began[m], request[u].read[m])
  BY DEF RequestInv, Sound, ReadsWhatItFound
<1> QED
  BY <1>1, <1>2 DEF Keeps

\* What users do to a move outside FNE keeps its certificate, and what FNE signed from the
\* form; what they do to the others is nothing.
LEMMA UsersKeep ==
    ASSUME move \in [Moves -> Move], CertifiedIsAsSigned, ReferenceIsOfCertificate, NEW n \in Moves,
           ReverseMove(n) \/ EditMove(n) \/ ResetToDraft(n) \/ CancelMove(n), NEW m \in Moves
    PROVE  /\ Keeps(move[m], move'[m])
           /\ move'[m].certified => move[m].certified
           /\ move'[m].reference # 0 => move'[m].certified
           /\ move'[m].state # "none" \/ move'[m] = move[m]
           /\ Holds(move'[m], m, signed, shown)
<1>1. Holds(move[m], m, signed, shown) /\ move[m] \in Move
  BY DEF CertifiedIsAsSigned, Holds
<1>2. /\ move[m].reference # 0 => move[m].certified
      /\ move[m].certified => move[m].state # "none"
  BY DEF ReferenceIsOfCertificate
<1>3. CASE m # n
  <2>1. move'[m] = move[m]
    BY <1>3 DEF ReverseMove, EditMove, ResetToDraft, CancelMove
  <2> QED
    BY <1>1, <1>2, <2>1 DEF Keeps
<1>4. CASE ReverseMove(n) /\ m = n
  <2>1. ~move[m].certified /\ move'[m] = NewMove("draft")
    BY <1>2, <1>4 DEF ReverseMove
  <2> QED
    BY <2>1 DEF NewMove, Keeps, Holds
<1>5. CASE EditMove(n) /\ m = n
  <2>1. /\ move[m].state = "draft" /\ move'[m].state = "draft"
        /\ move'[m].certified = move[m].certified /\ move'[m].reference = move[m].reference
    BY <1>1, <1>5 DEF EditMove, Move
  <2> QED
    BY <1>1, <1>2, <2>1 DEF Keeps, Holds
<1>6. CASE (ResetToDraft(n) \/ CancelMove(n)) /\ m = n
  <2>1. /\ move[m].state = "draft" \/ ~move[m].certified
        /\ move'[m].state \in {"draft", "cancel"}
        /\ move'[m].certified = move[m].certified /\ move'[m].reference = move[m].reference
    BY <1>1, <1>6 DEF ResetToDraft, CancelMove, Move
  <2> QED
    BY <1>1, <1>2, <2>1 DEF Keeps, Holds
<1> QED
  BY <1>3, <1>4, <1>5, <1>6

\* A certificate stays, with its reference.
LEMMA CertifiedStays ==
    ASSUME FneIInv, [FneNext]_fneVars, NEW m \in Moves
    PROVE  Keeps(move[m], move'[m])
<1>1. /\ move \in [Moves -> Move] /\ CertifiedIsAsSigned /\ ReferenceIsOfCertificate
      /\ FneTypeOK /\ RequestInv
  BY DEF FneIInv, FneInv, FneTypeOK
<1>2. ASSUME NEW n \in Moves, ReverseMove(n) \/ EditMove(n) \/ ResetToDraft(n) \/ CancelMove(n)
      PROVE  Keeps(move[m], move'[m])
  BY <1>1, <1>2, UsersKeep
<1>3. ASSUME NEW u \in Users, CommitRequest(u)
      PROVE  Keeps(move[m], move'[m])
  BY <1>1, <1>3, CommitIs
<1>4. CASE UNCHANGED move
  BY <1>4 DEF Keeps
<1> QED
  BY <1>2, <1>3, <1>4
  DEF FneNext, fneVars, PostMoves, OpenWizard, CertifyInWizard, CertifyMove, PostAnswered, PostRefused,
      PostUnheard, AbortRequest, RollBack

\* What wizards showed they have shown.
LEMMA ShownStays ==
    ASSUME FneTypeOK, [FneNext]_fneVars, NEW n \in Notes
    PROVE  shown[n] \subseteq shown'[n]
BY DEF FneTypeOK, FneNext, fneVars, ReverseMove, EditMove, ResetToDraft, CancelMove, PostMoves, OpenWizard,
       CertifyInWizard, CertifyMove, PostAnswered, PostRefused, PostUnheard, CommitRequest, AbortRequest

\* A row that holds what FNE signed or a wizard showed still does.
LEMMA HoldsStays ==
    ASSUME FneTypeOK, [FneNext]_fneVars, NEW m \in Moves, NEW row, Holds(row, m, signed, shown)
    PROVE  Holds(row, m, signed', shown')
BY SignedStays, ShownStays DEF Holds

-----------------------------------------------------------------------------
(* Types.                                                                  *)

\* Nothing is signed at first.
LEMMA InitFne == FneInit => FneIInv
<1> SUFFICES ASSUME FneInit PROVE FneIInv
  OBVIOUS
<1>1. \A m \in Moves : ~move[m].certified /\ move[m].reference = 0
  BY DEF FneInit, NewMove
<1>2. FneTypeOK
  <2>1. \A m \in Moves : NewMove(IF m \in Invoices THEN "draft" ELSE "none") \in Move
    BY NewMoveType
  <2>2. move \in [Moves -> Move] /\ request \in [Users -> Request]
    BY <2>1, NoRequestType DEF FneInit
  <2> QED
    BY <2>2, FneAssumption DEF FneInit, FneTypeOK
<1>3. RequestInv
  <2>1. Sound(NoRequest, move, signed, shown)
    BY DEF NoRequest, NewMove, Sound, ReadsWhatItFound, Keeps, WritesWhatIsSigned, SendsWhatIsShown,
           KeepsItsPosts, IdleHasNothing
  <2> QED
    BY <2>1 DEF FneInit, RequestInv
<1>4. StrayIsUnheard
  BY DEF FneInit, StrayIsUnheard
<1>5. ShownIsMade
  BY DEF FneInit, ShownIsMade
<1> QED
  BY <1>1, <1>2, <1>3, <1>4, <1>5
  DEF FneIInv, FneInv, CertifiedIsAsSigned, RefundIsOfItsInvoice, ReferenceIsOfCertificate, Moves

\* A request that has one move less to certify is a request.
LEMMA LessToDoType ==
    ASSUME NEW r \in Request, NEW m
    PROVE  [r EXCEPT !.todo = @ \ {m}] \in Request
BY DEF Request

\* Every step keeps the types.
LEMMA StepFneType ==
    ASSUME FneTypeOK, RequestInv, [FneNext]_fneVars
    PROVE  FneTypeOK'
<1> USE DEF FneTypeOK
<1>0. /\ \A u \in Users : /\ request[u] \in Request
                          /\ request[u].todo \subseteq Moves /\ request[u].wrote \subseteq Moves
                          /\ request[u].read \in [Moves -> Move]
                          /\ request[u].posts \subseteq 1 .. MaxSigned
                          /\ request[u].lines \in 0 .. MaxVersion
  BY DEF Request
<1>00. \A u \in Users : request[u].posts \subseteq DOMAIN signed
  BY DEF RequestInv, Sound, KeepsItsPosts
<1>1. ASSUME NEW m \in Moves, ReverseMove(m) \/ EditMove(m) \/ ResetToDraft(m) \/ CancelMove(m)
      PROVE  FneTypeOK'
  <2>1. move' \in [Moves -> Move]
    <3>1. CASE ReverseMove(m)
      BY <3>1, NewMoveType DEF ReverseMove
    <3>2. CASE EditMove(m)
      <4>1. move[m].version + 1 \in 1 .. MaxVersion
        BY <3>2, FneAssumption DEF EditMove, Move
      <4> QED
        BY <3>2, <4>1 DEF EditMove, Move
    <3>3. CASE ResetToDraft(m) \/ CancelMove(m)
      BY <3>3 DEF ResetToDraft, CancelMove, Move
    <3> QED
      BY <1>1, <3>1, <3>2, <3>3
  <2> QED
    BY <1>1, <2>1 DEF ReverseMove, EditMove, ResetToDraft, CancelMove
<1>2. ASSUME NEW u \in Users, PostMoves(u)
      PROVE  FneTypeOK'
  <2>1. PICK ms \in SUBSET Moves :
          request' = [request EXCEPT ![u] =
              [op |-> "post", lines |-> 0, todo |-> {m \in ms : ~move[m].certified}, wrote |-> ms,
               read |-> Posted(ms), began |-> move, posts |-> {}]]
    BY <1>2 DEF PostMoves
  <2>2. Posted(ms) \in [Moves -> Move] /\ {m \in ms : ~move[m].certified} \in SUBSET Moves
    BY DEF Posted, Move
  <2>4. PICK z \in 0 .. MaxVersion : z = 0
    BY FneAssumption
  <2> DEFINE todo == {m \in ms : ~move[m].certified}
             read == Posted(ms)
  <2>5. request' = [request EXCEPT ![u] =
              [op |-> "post", lines |-> z, todo |-> todo, wrote |-> ms, read |-> read,
               began |-> move, posts |-> {}]]
    BY <2>1, <2>4
  <2>6. todo \in SUBSET Moves /\ read \in [Moves -> Move]
    BY <2>2
  <2> HIDE DEF todo, read
  <2>3. request' \in [Users -> Request]
    BY <2>4, <2>5, <2>6 DEF Request
  <2> QED
    BY <1>2, <2>3 DEF PostMoves
<1>3. ASSUME NEW u \in Users, NEW m \in Moves, NEW lines \in 0 .. MaxVersion,
             request' = [request EXCEPT ![u] = Certifying(lines, m)], UNCHANGED <<move, shown, signed, unheard>>
      PROVE  FneTypeOK'
  <2>1. Certifying(lines, m) \in Request
    BY DEF Certifying, Request
  <2> QED
    BY <1>3, <2>1
<1>31. ASSUME NEW u \in Users, NEW m \in Moves, CertifyMove(u, m)
       PROVE  FneTypeOK'
  <2>1. PICK z \in 0 .. MaxVersion : z = 0
    BY FneAssumption
  <2>2. /\ request' = [request EXCEPT ![u] = Certifying(z, m)]
        /\ UNCHANGED <<move, shown, signed, unheard>>
    BY <1>31, <2>1 DEF CertifyMove
  <2> QED
    BY <1>3, <2>2
<1>32. ASSUME NEW u \in Users, NEW n \in Notes, NEW lines \in shown[n], CertifyInWizard(u, n, lines)
       PROVE  FneTypeOK'
  <2>1. n \in Moves /\ lines \in 0 .. MaxVersion
    BY FneAssumption DEF Moves
  <2> QED
    BY <1>3, <1>32, <2>1 DEF CertifyInWizard
<1>33. ASSUME NEW n \in Notes, OpenWizard(n)
       PROVE  FneTypeOK'
  <2>1. move[n].version \in 1 .. MaxVersion
    BY DEF Moves, Move
  <2> QED
    BY <1>33, <2>1 DEF OpenWizard
<1>4. ASSUME NEW u \in Users, NEW m \in request[u].todo, PostAnswered(u, m)
      PROVE  FneTypeOK'
  <2>1. m \in Moves /\ Len(signed) + 1 \in 1 .. MaxSigned
    BY <1>0, <1>4, FneAssumption DEF PostAnswered
  <2>2. WithCertificate(request[u], m, Len(signed) + 1) \in Request
    BY <1>0, <2>1, CertificateIs
  <2>4. PICK d \in Document : signed' = Append(signed, d)
    BY <1>0, <1>4, <2>1, DocumentType DEF PostAnswered
  <2>3. signed' \in Seq(Document) /\ Len(signed') = Len(signed) + 1
    BY <2>4
  <2> QED
    BY <1>4, <2>1, <2>2, <2>3 DEF PostAnswered
<1>5. ASSUME NEW u \in Users, NEW m \in request[u].todo, NEW posts,
             Fails(u, m, posts), posts \subseteq DOMAIN signed', signed' \in Seq(Document),
             Len(signed) <= Len(signed'), Len(signed') <= MaxSigned, UNCHANGED <<move, shown>>
      PROVE  FneTypeOK'
  <2>1. request' \in [Users -> Request]
    <3>1. [request[u] EXCEPT !.todo = @ \ {m}] \in Request
      BY <1>0, LessToDoType
    <3>2. CASE request' = [request EXCEPT ![u].todo = @ \ {m}]
      <4>1. request' = [request EXCEPT ![u] = [request[u] EXCEPT !.todo = @ \ {m}]]
        BY <3>2
      <4> QED
        BY <3>1, <4>1
    <3>3. CASE request' = [request EXCEPT ![u] = NoRequest]
      BY <3>3, NoRequestType
    <3> QED
      BY <1>5, <3>2, <3>3 DEF Fails, RollBack
  <2>2. DOMAIN signed \subseteq DOMAIN signed'
    BY <1>5
  <2>3. unheard' \subseteq DOMAIN signed'
    BY <1>00, <1>5, <2>2 DEF Fails, RollBack
  <2> QED
    BY <1>5, <2>1, <2>3
<1>6. ASSUME NEW u \in Users, CommitRequest(u)
      PROVE  FneTypeOK'
  BY <1>0, <1>6, NoRequestType DEF CommitRequest
<1>7. CASE UNCHANGED fneVars
  BY <1>7 DEF fneVars
<1>8. ASSUME NEW u \in Users, AbortRequest(u)
      PROVE  FneTypeOK'
  BY <1>00, <1>8, NoRequestType DEF AbortRequest, RollBack
<1>9. ASSUME NEW u \in Users, NEW m \in request[u].todo, PostRefused(u, m)
      PROVE  FneTypeOK'
  BY <1>5, <1>9 DEF PostRefused
<1>10. ASSUME NEW u \in Users, NEW m \in request[u].todo, PostUnheard(u, m)
       PROVE  FneTypeOK'
  <2>1. PICK d \in Document : signed' = Append(signed, d)
    BY <1>0, <1>10, DocumentType DEF PostUnheard
  <2>2. signed' \in Seq(Document) /\ Len(signed') = Len(signed) + 1 /\ Len(signed) < MaxSigned
    BY <1>10, <2>1 DEF PostUnheard
  <2>3. {Len(signed) + 1} \subseteq DOMAIN signed' /\ Len(signed') <= MaxSigned /\ Len(signed) <= Len(signed')
    BY <2>2, FneAssumption
  <2> QED
    BY <1>5, <1>10, <2>2, <2>3 DEF PostUnheard
<1> QED
  BY <1>1, <1>2, <1>31, <1>32, <1>33, <1>4, <1>6, <1>7, <1>8, <1>9, <1>10 DEF FneNext

-----------------------------------------------------------------------------
(* Requests.                                                               *)

\* What a request knows does not depend on what the others do, as long as it reads and
\* writes the same and has no more to do.
LEMMA SoundStays ==
    ASSUME FneIInv, [FneNext]_fneVars, NEW u \in Users, NEW r, r.todo \subseteq request[u].todo,
           r.wrote = request[u].wrote, r.read = request[u].read, r.began = request[u].began,
           r.op = request[u].op, r.lines = request[u].lines, r.posts = request[u].posts
    PROVE  Sound(r, move', signed', shown')
<1> DEFINE q == request[u]
<1>1. q \in Request /\ Sound(q, move, signed, shown) /\ FneTypeOK
  BY DEF FneIInv, FneInv, FneTypeOK, RequestInv
<1>0. q.wrote \subseteq Moves /\ q.todo \subseteq Moves
  BY <1>1 DEF Request
<1>2. ReadsWhatItFound(r, move')
  BY <1>1, CertifiedStays DEF Sound, ReadsWhatItFound, Keeps
<1>3. \A i \in DOMAIN signed : i \in DOMAIN signed' /\ signed'[i] = signed[i]
  BY <1>1, SignedStays
<1>4. WritesWhatIsSigned(r, signed', shown')
  <2> SUFFICES ASSUME NEW m \in q.wrote
               PROVE  /\ q.read[m].state # "none"
                      /\ q.read[m].reference # 0 => q.read[m].certified
                      /\ Holds(q.read[m], m, signed', shown')
                      /\ NoteRefunds(q.read, m, signed')
    BY DEF WritesWhatIsSigned
  <2>1. /\ q.read[m].state # "none"
        /\ q.read[m].reference # 0 => q.read[m].certified
        /\ Holds(q.read[m], m, signed, shown)
        /\ NoteRefunds(q.read, m, signed)
    BY <1>1 DEF Sound, WritesWhatIsSigned
  <2>2. NoteRefunds(q.read, m, signed')
    BY <1>3, <2>1 DEF NoteRefunds, Holds
  <2> QED
    BY <1>0, <1>1, <2>1, <2>2, HoldsStays
<1>5. KeepsItsPosts(r, signed')
  BY <1>1, <1>3 DEF Sound, KeepsItsPosts
<1>6. SendsWhatIsShown(r, shown')
  BY <1>1, ShownStays DEF Sound, SendsWhatIsShown
<1>7. IdleHasNothing(r)
  BY <1>1 DEF Sound, IdleHasNothing
<1> QED
  BY <1>2, <1>4, <1>5, <1>6, <1>7 DEF Sound

\* A request without moves to certify, that wrote nothing, knows nothing.
LEMMA SoundNoRequest == Sound(NoRequest, move', signed', shown')
BY DEF NoRequest, NewMove, Sound, ReadsWhatItFound, Keeps, WritesWhatIsSigned, SendsWhatIsShown,
       KeepsItsPosts, IdleHasNothing

\* A request that certifies one move, by its form or by a wizard, knows what it found.
LEMMA SoundCertifying ==
    ASSUME NEW m \in Moves, NEW lines, lines # 0 => m \in Notes /\ lines \in shown[m], ShownIsMade
    PROVE  Sound(Certifying(lines, m), move, signed, shown)
<1> DEFINE r == Certifying(lines, m)
<1>1. /\ r.op = "certify" /\ r.lines = lines /\ r.todo = {m} /\ r.wrote = {} /\ r.posts = {}
      /\ r.read = move /\ r.began = move
  BY DEF Certifying
<1> HIDE DEF r
<1>2. SendsWhatIsShown(r, shown)
  BY <1>1 DEF SendsWhatIsShown, ShownIsMade
<1>3. ReadsWhatItFound(r, move) /\ WritesWhatIsSigned(r, signed, shown)
      /\ KeepsItsPosts(r, signed) /\ IdleHasNothing(r)
  BY <1>1 DEF ReadsWhatItFound, Keeps, WritesWhatIsSigned, KeepsItsPosts, IdleHasNothing
<1> QED
  BY <1>2, <1>3 DEF Sound, r

\* A request that begins knows what it found.
LEMMA SoundStart ==
    ASSUME FneIInv, NEW u \in Users,
           \/ PostMoves(u) \/ \E m \in Moves : CertifyMove(u, m)
           \/ \E n \in Notes : \E lines \in shown[n] : CertifyInWizard(u, n, lines)
    PROVE  Sound(request'[u], move', signed', shown')
<1>1. /\ DOMAIN request = Users /\ move \in [Moves -> Move] /\ CertifiedIsAsSigned
      /\ RefundIsOfItsInvoice /\ ReferenceIsOfCertificate /\ ShownIsMade
  BY DEF FneIInv, FneInv, FneTypeOK
<1>2. ASSUME PostMoves(u)
      PROVE  Sound(request'[u], move', signed', shown')
  <2>1. PICK ms \in SUBSET {m \in Moves : move[m].state = "draft"} :
          request'[u] = [op |-> "post", lines |-> 0, todo |-> {m \in ms : ~move[m].certified},
                         wrote |-> ms, read |-> Posted(ms), began |-> move, posts |-> {}]
    BY <1>1, <1>2 DEF PostMoves
  <2>2. \A m \in ms : /\ m \in Moves /\ move[m].state = "draft"
                      /\ move[m].reference # 0 => move[m].certified
    BY <1>1 DEF ReferenceIsOfCertificate
  <2>3. \A m \in Moves : /\ Posted(ms)[m].reference = move[m].reference
                         /\ Posted(ms)[m].certified = move[m].certified
                         /\ Posted(ms)[m].version = move[m].version
                         /\ m \in ms => Posted(ms)[m].state = "posted"
    BY <1>1 DEF Posted, Move
  <2>4. \A m \in Moves \ ms : Posted(ms)[m] = move[m]
    BY DEF Posted
  <2>5. move' = move /\ signed' = signed /\ shown' = shown
    BY <1>2 DEF PostMoves
  <2> DEFINE r == request'[u]
             read == Posted(ms)
  <2>6. /\ r.op = "post" /\ r.lines = 0 /\ r.wrote = ms /\ r.posts = {}
        /\ r.read = read /\ r.began = move
    BY <2>1
  <2> HIDE DEF r, read
  <2>7. ReadsWhatItFound(r, move)
    BY <2>3, <2>4, <2>6 DEF ReadsWhatItFound, Keeps, read
  <2>8. WritesWhatIsSigned(r, signed, shown)
    <3> SUFFICES ASSUME NEW m \in ms
                 PROVE  /\ read[m].state # "none"
                        /\ read[m].reference # 0 => read[m].certified
                        /\ Holds(read[m], m, signed, shown)
                        /\ NoteRefunds(read, m, signed)
      BY <2>6 DEF WritesWhatIsSigned
    <3>1. /\ m \in Moves /\ read[m].state = "posted" /\ read[m].version = move[m].version
          /\ read[m].reference = move[m].reference /\ read[m].certified = move[m].certified
          /\ move[m].reference # 0 => move[m].certified
      BY <2>2, <2>3 DEF read
    <3>2. Holds(read[m], m, signed, shown)
      BY <1>1, <2>2, <3>1 DEF CertifiedIsAsSigned, Holds
    <3>3. ASSUME m \in Notes, read[m].certified
          PROVE  /\ read[Reverses[m]].certified
                 /\ signed[read[m].reference].origin = read[Reverses[m]].reference
      <4>1. Reverses[m] \in Moves
        BY <3>3, FneAssumption DEF Moves
      <4> QED
        BY <1>1, <2>3, <3>1, <3>3, <4>1 DEF RefundIsOfItsInvoice, read
    <3> QED
      BY <3>1, <3>2, <3>3 DEF NoteRefunds
  <2>9. SendsWhatIsShown(r, shown) /\ KeepsItsPosts(r, signed) /\ IdleHasNothing(r)
    BY <2>6 DEF SendsWhatIsShown, KeepsItsPosts, IdleHasNothing
  <2> QED
    BY <2>5, <2>7, <2>8, <2>9 DEF Sound, r
<1>3. ASSUME NEW m \in Moves, NEW lines, lines # 0 => m \in Notes /\ lines \in shown[m],
             request' = [request EXCEPT ![u] = Certifying(lines, m)], UNCHANGED <<move, shown, signed>>
      PROVE  Sound(request'[u], move', signed', shown')
  BY <1>1, <1>3, SoundCertifying
<1>4. ASSUME NEW m \in Moves, CertifyMove(u, m)
      PROVE  Sound(request'[u], move', signed', shown')
  BY <1>3, <1>4 DEF CertifyMove
<1>5. ASSUME NEW n \in Notes, NEW lines \in shown[n], CertifyInWizard(u, n, lines)
      PROVE  Sound(request'[u], move', signed', shown')
  BY <1>3, <1>5 DEF CertifyInWizard, Moves
<1> QED
  BY <1>2, <1>4, <1>5

\* A post that fails leaves a request with less to certify, or none.
LEMMA SoundFails ==
    ASSUME FneIInv, [FneNext]_fneVars, NEW u \in Users, NEW m, NEW posts, Fails(u, m, posts)
    PROVE  Sound(request'[u], move', signed', shown')
<1> DEFINE r == request[u]
<1>1. r \in Request /\ FneTypeOK /\ DOMAIN request = Users
  BY DEF FneIInv, FneInv, FneTypeOK
<1>2. CASE request'[u] = NoRequest
  BY <1>2, SoundNoRequest
<1>3. CASE request' = [request EXCEPT ![u].todo = @ \ {m}]
  <2>1. /\ request'[u].todo = r.todo \ {m} /\ request'[u].wrote = r.wrote
        /\ request'[u].op = r.op /\ request'[u].lines = r.lines /\ request'[u].read = r.read
        /\ request'[u].began = r.began /\ request'[u].posts = r.posts
    BY <1>1, <1>3 DEF Request
  <2> QED
    BY <2>1, SoundStays
<1> QED
  BY <1>1, <1>2, <1>3 DEF Fails, RollBack

\* A request that receives a certificate writes what FNE signed.
LEMMA SoundAnswered ==
    ASSUME FneIInv, [FneNext]_fneVars, NEW u \in Users, NEW m \in request[u].todo, PostAnswered(u, m)
    PROVE  Sound(request'[u], move', signed', shown')
<1> DEFINE r == request[u]
           c == request'[u]
           ref == Len(signed) + 1
<1>1. /\ r \in Request /\ Sound(r, move', signed', shown') /\ FneTypeOK /\ DOMAIN request = Users
      /\ m \in Moves /\ Len(signed) \in Nat /\ Sound(r, move, signed, shown)
  BY SoundStays DEF FneIInv, FneInv, FneTypeOK, RequestInv, Request
<1>2. /\ ~r.read[m].certified /\ (r.lines = 0 => r.read[m].state = "posted") /\ Refundable(m, r.read)
      /\ Len(signed) < MaxSigned /\ shown' = shown
      /\ signed' = Append(signed, DocumentOf(m, r.read, r.lines))
      /\ c = WithCertificate(r, m, ref)
  BY <1>1 DEF PostAnswered, Certifiable
<1>3. ref \in 1 .. MaxSigned
  BY <1>1, <1>2, FneAssumption
<1>4. /\ c.op = r.op /\ c.todo = r.todo \ {m} /\ c.wrote = r.wrote \cup {m} /\ c.lines = r.lines
      /\ c.began = r.began /\ c.posts = r.posts \cup {ref}
      /\ \A n \in Moves : n # m => c.read[n] = r.read[n]
      /\ c.read[m].certified /\ c.read[m].reference = ref
      /\ c.read[m].state = r.read[m].state /\ c.read[m].version = r.read[m].version
  BY <1>1, <1>2, <1>3, CertificateIs
<1>5. /\ ref \in DOMAIN signed' /\ signed'[ref] = DocumentOf(m, r.read, r.lines) /\ ref \notin DOMAIN signed
  <2>1. DocumentOf(m, r.read, r.lines) \in Document /\ signed \in Seq(Document)
    BY <1>1, DocumentType DEF FneTypeOK, Request
  <2> QED
    BY <1>1, <1>2, <2>1
<1>6. r.wrote \subseteq Moves /\ r.todo \subseteq Moves
  BY <1>1 DEF Request
<1>61. r.lines # 0 => m \in Notes /\ r.lines \in shown[m] /\ r.read[m].state # "none"
  BY <1>1 DEF Sound, SendsWhatIsShown
<1>62. KeepsItsPosts(r, signed)
  BY <1>1 DEF Sound
<1> HIDE DEF r, c, ref
<1>7. ReadsWhatItFound(c, move')
  <2>1. ~r.began[m].certified
    BY <1>1, <1>2 DEF Sound, ReadsWhatItFound, Keeps
  <2> QED
    BY <1>1, <1>4, <1>6, <2>1 DEF Sound, ReadsWhatItFound, Keeps
<1>8. ASSUME m \in Notes
      PROVE  /\ c.read[Reverses[m]].certified
             /\ signed'[ref].origin = c.read[Reverses[m]].reference
  <2>1. Reverses[m] \in Moves /\ Reverses[m] # m
    BY <1>8, FneAssumption DEF Moves
  <2> QED
    BY <1>2, <1>4, <1>5, <1>8, <2>1 DEF Refundable, DocumentOf
<1>9. ASSUME NEW n \in r.wrote, n # m
      PROVE  /\ c.read[n] = r.read[n]
             /\ n \in Notes /\ r.read[n].certified => c.read[Reverses[n]] = r.read[Reverses[n]]
  <2>1. n \in Notes => Reverses[n] \in Moves
    BY FneAssumption DEF Moves
  <2>2. n \in Notes /\ r.read[n].certified => Reverses[n] # m
    BY <1>1, <1>2, <1>9 DEF Sound, WritesWhatIsSigned, NoteRefunds
  <2> QED
    BY <1>4, <1>6, <1>9, <2>1, <2>2
<1>10. WritesWhatIsSigned(c, signed', shown')
  <2> SUFFICES ASSUME NEW n \in c.wrote
               PROVE  /\ c.read[n].state # "none"
                      /\ c.read[n].reference # 0 => c.read[n].certified
                      /\ Holds(c.read[n], n, signed', shown')
                      /\ NoteRefunds(c.read, n, signed')
    BY DEF WritesWhatIsSigned
  <2>1. CASE n = m
    <3>1. c.read[m].state # "none"
      BY <1>2, <1>4, <1>61
    <3>2. /\ signed'[ref].move = m /\ signed'[ref].wizard = (r.lines # 0)
          /\ signed'[ref].version = IF r.lines = 0 THEN r.read[m].version ELSE r.lines
      BY <1>5 DEF DocumentOf
    <3>3. Holds(c.read[m], m, signed', shown')
      BY <1>2, <1>4, <1>5, <1>61, <3>2 DEF Holds
    <3> QED
      BY <1>4, <1>8, <2>1, <3>1, <3>3 DEF NoteRefunds
  <2>2. CASE n # m
    <3>1. n \in r.wrote
      BY <1>4, <2>2
    <3>2. c.read[n] = r.read[n]
      BY <1>9, <2>2, <3>1
    <3>3. /\ r.read[n].state # "none"
          /\ r.read[n].reference # 0 => r.read[n].certified
          /\ Holds(r.read[n], n, signed', shown')
          /\ NoteRefunds(r.read, n, signed')
      BY <1>1, <3>1 DEF Sound, WritesWhatIsSigned
    <3>4. n \in Notes /\ r.read[n].certified => c.read[Reverses[n]] = r.read[Reverses[n]]
      BY <1>9, <2>2, <3>1
    <3> QED
      BY <3>2, <3>3, <3>4 DEF NoteRefunds
  <2> QED
    BY <2>1, <2>2
<1>11. KeepsItsPosts(c, signed')
  <2> SUFFICES ASSUME NEW p \in c.posts
               PROVE  /\ p \in DOMAIN signed'
                      /\ signed'[p].move \in c.wrote
                      /\ c.read[signed'[p].move].certified
                      /\ c.read[signed'[p].move].reference = p
    BY DEF KeepsItsPosts
  <2>1. CASE p = ref
    BY <1>4, <1>5, <2>1 DEF DocumentOf
  <2>2. CASE p # ref
    <3>1. /\ p \in DOMAIN signed' /\ signed'[p].move \in r.wrote
          /\ r.read[signed'[p].move].certified /\ r.read[signed'[p].move].reference = p
      BY <1>1, <1>4, <2>2 DEF Sound, KeepsItsPosts
    <3>2. signed'[p].move # m
      BY <1>2, <3>1
    <3>3. c.read[signed'[p].move] = r.read[signed'[p].move]
      BY <1>9, <3>1, <3>2
    <3> QED
      BY <1>4, <3>1, <3>3
  <2> QED
    BY <2>1, <2>2
<1>12. IdleHasNothing(c) /\ SendsWhatIsShown(c, shown')
  <2>1. IdleHasNothing(r) /\ SendsWhatIsShown(r, shown')
    BY <1>1 DEF Sound
  <2>2. r.op # "idle"
    BY <2>1 DEF IdleHasNothing, r
  <2>3. \A n \in c.todo : c.read[n] = r.read[n]
    BY <1>4, <1>6
  <2> QED
    BY <1>4, <2>1, <2>2, <2>3 DEF IdleHasNothing, SendsWhatIsShown
<1> QED
  BY <1>7, <1>10, <1>11, <1>12 DEF Sound, c

\* A step touches the request of one user at most.
LEMMA OneRequest ==
    ASSUME FneTypeOK, [FneNext]_fneVars
    PROVE  \/ UNCHANGED request
           \/ \E u \in Users :
                /\ \A v \in Users : v # u => request'[v] = request[v]
                /\ \/ PostMoves(u) \/ (\E m \in Moves : CertifyMove(u, m))
                   \/ \E n \in Notes : \E lines \in shown[n] : CertifyInWizard(u, n, lines)
                   \/ CommitRequest(u) \/ AbortRequest(u)
                   \/ \E m \in request[u].todo :
                         PostAnswered(u, m) \/ PostRefused(u, m) \/ PostUnheard(u, m)
<1>1. ASSUME NEW u \in Users,
             \/ PostMoves(u) \/ (\E m \in Moves : CertifyMove(u, m))
             \/ \E n \in Notes : \E lines \in shown[n] : CertifyInWizard(u, n, lines)
             \/ CommitRequest(u) \/ AbortRequest(u)
             \/ \E m \in request[u].todo :
                   PostAnswered(u, m) \/ PostRefused(u, m) \/ PostUnheard(u, m)
      PROVE  \A v \in Users : v # u => request'[v] = request[v]
  BY <1>1 DEF PostMoves, OpenWizard, CertifyInWizard, CertifyMove, CommitRequest, AbortRequest, RollBack, PostAnswered, PostRefused,
              PostUnheard, Fails, FneTypeOK
<1> QED
  BY <1>1 DEF FneNext, fneVars, ReverseMove, EditMove, ResetToDraft, CancelMove, OpenWizard

\* What every request knows stays true.
LEMMA StepRequests ==
    ASSUME FneIInv, [FneNext]_fneVars
    PROVE  RequestInv'
<1>1. FneTypeOK
  BY DEF FneIInv, FneInv
<1>2. ASSUME NEW u \in Users, request'[u] = request[u]
      PROVE  Sound(request'[u], move', signed', shown')
  BY <1>2, SoundStays
<1>3. ASSUME NEW u \in Users, CommitRequest(u) \/ AbortRequest(u)
      PROVE  Sound(request'[u], move', signed', shown')
  <2>1. request'[u] = NoRequest
    BY <1>1, <1>3 DEF CommitRequest, AbortRequest, RollBack, FneTypeOK
  <2> QED
    BY <2>1, SoundNoRequest
<1>4. ASSUME NEW u \in Users, NEW m \in request[u].todo, PostRefused(u, m) \/ PostUnheard(u, m)
      PROVE  Sound(request'[u], move', signed', shown')
  BY <1>4, SoundFails DEF PostRefused, PostUnheard
<1> QED
  BY <1>1, <1>2, <1>3, <1>4, OneRequest, SoundStart, SoundAnswered DEF RequestInv

-----------------------------------------------------------------------------
(* Moves and documents.                                                    *)

\* A commit writes what FNE signed or a wizard showed, and leaves the references of the
\* invoices of its notes as it read them.
LEMMA CommitWrites ==
    ASSUME FneIInv, NEW u \in Users, CommitRequest(u), NEW m \in request[u].wrote
    PROVE  /\ m \in Moves /\ move'[m] = request[u].read[m] /\ signed' = signed /\ shown' = shown
           /\ Holds(move'[m], m, signed, shown) /\ NoteRefunds(move', m, signed)
           /\ move'[m].state # "none" /\ (move'[m].reference # 0 => move'[m].certified)
<1> DEFINE r == request[u]
<1>1. r \in Request /\ Sound(r, move, signed, shown) /\ FneTypeOK /\ RequestInv
  BY DEF FneIInv, FneInv, FneTypeOK, RequestInv
<1>2. m \in Moves /\ move'[m] = r.read[m] /\ signed' = signed /\ shown' = shown
  BY <1>1 DEF CommitRequest, Request
<1>3. ASSUME m \in Notes, r.read[m].certified
      PROVE  Keeps(r.read[Reverses[m]], move'[Reverses[m]])
  <2>1. Reverses[m] \in Moves
    BY <1>3, FneAssumption DEF Moves
  <2>2. CASE Reverses[m] \in r.wrote
    BY <1>1, <2>1, <2>2, CommitIs DEF Keeps
  <2>3. CASE Reverses[m] \notin r.wrote
    <3>1. Keeps(r.read[Reverses[m]], move[Reverses[m]])
      BY <1>1, <2>1, <2>3 DEF Sound, ReadsWhatItFound
    <3> QED
      BY <1>1, <2>1, <2>3, <3>1, CommitIs
  <2> QED
    BY <2>2, <2>3
<1>4. /\ Holds(r.read[m], m, signed, shown) /\ NoteRefunds(r.read, m, signed)
      /\ r.read[m].state # "none" /\ (r.read[m].reference # 0 => r.read[m].certified)
  BY <1>1 DEF Sound, WritesWhatIsSigned
<1> QED
  BY <1>2, <1>3, <1>4 DEF NoteRefunds, Keeps

\* What a row must be: made if it is certified, with no reference otherwise, and as FNE
\* signed it or a wizard showed it.
Proper(row, m, sg, sh) ==
    /\ row.reference # 0 => row.certified
    /\ row.certified => row.state # "none"
    /\ Holds(row, m, sg, sh)

\* A row that a step changes is proper after it, and was made.
LEMMA ChangedIsProper ==
    ASSUME FneIInv, [FneNext]_fneVars, NEW m \in Moves, move'[m] # move[m]
    PROVE  Proper(move'[m], m, signed, shown) /\ move'[m].state # "none"
<1>1. /\ move \in [Moves -> Move] /\ CertifiedIsAsSigned /\ ReferenceIsOfCertificate
      /\ FneTypeOK /\ RequestInv
  BY DEF FneIInv, FneInv, FneTypeOK
<1>2. ASSUME NEW n \in Moves, ReverseMove(n) \/ EditMove(n) \/ ResetToDraft(n) \/ CancelMove(n)
      PROVE  Proper(move'[m], m, signed, shown) /\ move'[m].state # "none"
  BY <1>1, <1>2, UsersKeep DEF Proper
<1>3. ASSUME NEW u \in Users, CommitRequest(u)
      PROVE  Proper(move'[m], m, signed, shown) /\ move'[m].state # "none"
  <2>1. m \in request[u].wrote
    BY <1>1, <1>3, CommitIs
  <2> QED
    BY <1>3, <2>1, CommitWrites DEF Proper
<1> QED
  BY <1>2, <1>3
  DEF FneNext, fneVars, PostMoves, OpenWizard, CertifyInWizard, CertifyMove, PostAnswered, PostRefused,
      PostUnheard, AbortRequest, RollBack

\* A note that a step certifies was certified by a commit.
LEMMA NewCertificate ==
    ASSUME FneIInv, [FneNext]_fneVars, NEW m \in Moves, move'[m].certified
    PROVE  move[m].certified \/ \E u \in Users : CommitRequest(u) /\ m \in request[u].wrote
<1>1. /\ move \in [Moves -> Move] /\ CertifiedIsAsSigned /\ ReferenceIsOfCertificate
      /\ FneTypeOK /\ RequestInv
  BY DEF FneIInv, FneInv, FneTypeOK
<1>2. ASSUME NEW n \in Moves, ReverseMove(n) \/ EditMove(n) \/ ResetToDraft(n) \/ CancelMove(n)
      PROVE  move[m].certified
  BY <1>1, <1>2, UsersKeep
<1>3. ASSUME NEW u \in Users, CommitRequest(u), m \notin request[u].wrote
      PROVE  move[m].certified
  BY <1>1, <1>3, CommitIs
<1> QED
  BY <1>2, <1>3
  DEF FneNext, fneVars, PostMoves, OpenWizard, CertifyInWizard, CertifyMove, PostAnswered, PostRefused,
      PostUnheard, AbortRequest, RollBack

\* Certified moves stay what FNE signed or a wizard showed.
LEMMA StepMoves ==
    ASSUME FneIInv, [FneNext]_fneVars
    PROVE  CertifiedIsAsSigned' /\ RefundIsOfItsInvoice' /\ ReferenceIsOfCertificate' /\ ShownIsMade'
<1>0. /\ FneTypeOK /\ CertifiedIsAsSigned /\ RefundIsOfItsInvoice /\ ReferenceIsOfCertificate
      /\ ShownIsMade /\ RequestInv
  BY DEF FneIInv, FneInv
<1>1. \A i \in DOMAIN signed : i \in DOMAIN signed' /\ signed'[i] = signed[i]
  BY <1>0, SignedStays
<1>2. ASSUME NEW m \in Moves
      PROVE  Proper(move'[m], m, signed', shown')
  <2>1. Proper(move'[m], m, signed, shown)
    <3>1. CASE move'[m] = move[m]
      BY <1>0, <3>1 DEF Proper, CertifiedIsAsSigned, ReferenceIsOfCertificate, Holds
    <3> QED
      BY <3>1, ChangedIsProper
  <2> QED
    BY <1>0, <2>1, HoldsStays DEF Proper
<1>3. CertifiedIsAsSigned' /\ ReferenceIsOfCertificate'
  BY <1>2 DEF Proper, Holds, CertifiedIsAsSigned, ReferenceIsOfCertificate
<1>4. ASSUME NEW m \in Notes, move'[m].certified
      PROVE  /\ move'[Reverses[m]].certified
             /\ signed'[move'[m].reference].origin = move'[Reverses[m]].reference
  <2>0. m \in Moves /\ Reverses[m] \in Moves
    BY FneAssumption DEF Moves
  <2>1. CASE move[m].certified
    <3>1. /\ move[Reverses[m]].certified
          /\ signed[move[m].reference].origin = move[Reverses[m]].reference
      BY <1>0, <2>1 DEF RefundIsOfItsInvoice
    <3>2. move[m].reference \in DOMAIN signed
      BY <1>0, <2>0, <2>1 DEF CertifiedIsAsSigned
    <3>3. Keeps(move[m], move'[m]) /\ Keeps(move[Reverses[m]], move'[Reverses[m]])
      BY <2>0, CertifiedStays
    <3> QED
      BY <1>1, <2>1, <3>1, <3>2, <3>3 DEF Keeps
  <2>2. ASSUME NEW u \in Users, CommitRequest(u), m \in request[u].wrote
        PROVE  /\ move'[Reverses[m]].certified
               /\ signed'[move'[m].reference].origin = move'[Reverses[m]].reference
    <3>1. NoteRefunds(move', m, signed) /\ signed' = signed
      BY <2>2, CommitWrites
    <3> QED
      BY <1>4, <3>1 DEF NoteRefunds
  <2> QED
    BY <1>4, <2>0, <2>1, <2>2, NewCertificate
<1>5. ShownIsMade'
  <2> SUFFICES ASSUME NEW n \in Notes, shown'[n] # {}
               PROVE  move'[n].state # "none"
    BY DEF ShownIsMade
  <2>0. n \in Moves
    BY DEF Moves
  <2>1. CASE move'[n] # move[n]
    BY <2>0, <2>1, ChangedIsProper
  <2>2. CASE move'[n] = move[n] /\ shown'[n] = shown[n]
    BY <1>0, <2>2 DEF ShownIsMade
  <2>3. CASE move'[n] = move[n] /\ shown'[n] # shown[n]
    <3>1. PICK k \in Notes : OpenWizard(k)
      BY <2>3 DEF FneNext, fneVars, ReverseMove, EditMove, ResetToDraft, CancelMove, PostMoves,
         CertifyInWizard, CertifyMove, PostAnswered, PostRefused, PostUnheard, CommitRequest, AbortRequest
    <3>2. k = n
      BY <1>0, <2>3, <3>1 DEF OpenWizard, FneTypeOK
    <3> QED
      BY <2>3, <3>1, <3>2 DEF OpenWizard
  <2> QED
    BY <2>1, <2>2, <2>3
<1> QED
  BY <1>3, <1>4, <1>5 DEF RefundIsOfItsInvoice

\* A document without a move stays one that was lost with its answer or its request.
LEMMA StepStray ==
    ASSUME FneIInv, [FneNext]_fneVars
    PROVE  StrayIsUnheard'
<1>0. FneTypeOK /\ StrayIsUnheard /\ ReferenceIsOfCertificate /\ RequestInv /\ DOMAIN request = Users
  BY DEF FneIInv, FneInv, FneTypeOK
<1>1. \A i \in DOMAIN signed : i \in DOMAIN signed' /\ signed'[i] = signed[i]
  BY <1>0, SignedStays
<1> SUFFICES ASSUME NEW p \in DOMAIN signed'
             PROVE  p \in unheard' \cup InFlight' \/ move'[signed'[p].move].reference = p
  BY DEF StrayIsUnheard
<1>2. ASSUME p \in DOMAIN signed, move[signed[p].move].reference = p
      PROVE  move'[signed'[p].move].reference = p
  <2>1. signed[p].move \in Moves /\ p # 0
    <3>1. signed \in Seq(Document)
      BY <1>0 DEF FneTypeOK
    <3>2. p \in 1 .. Len(signed) /\ signed[p] \in Document
      BY <1>2, <3>1
    <3> QED
      BY <3>2 DEF Document
  <2>2. move[signed[p].move].certified
    BY <1>0, <1>2, <2>1 DEF ReferenceIsOfCertificate
  <2> QED
    BY <1>1, <1>2, <2>1, <2>2, CertifiedStays DEF Keeps
<1>3. unheard \subseteq unheard'
  BY DEF FneNext, fneVars, ReverseMove, EditMove, ResetToDraft, CancelMove, PostMoves, OpenWizard, CertifyInWizard, CertifyMove,
         CommitRequest, AbortRequest, PostAnswered, PostRefused, PostUnheard, Fails, RollBack
<1>4. ASSUME NEW u \in Users, p \in request[u].posts
      PROVE  p \in unheard' \cup InFlight' \/ move'[signed'[p].move].reference = p
  <2>0. Sound(request[u], move, signed, shown) /\ request[u] \in Request
    BY <1>0 DEF RequestInv, FneTypeOK
  <2>1. CASE request'[u] = request[u]
    BY <1>4, <2>1 DEF InFlight
  <2>2. ASSUME \/ PostMoves(u) \/ \E m \in Moves : CertifyMove(u, m)
               \/ \E n \in Notes : \E lines \in shown[n] : CertifyInWizard(u, n, lines)
        PROVE  FALSE
    BY <1>4, <2>0, <2>2 DEF PostMoves, OpenWizard, CertifyInWizard, CertifyMove, Sound, IdleHasNothing
  <2>3. ASSUME NEW m \in request[u].todo, PostAnswered(u, m)
        PROVE  p \in InFlight'
    <3>1. request[u].posts \subseteq request'[u].posts
      <4>1. m \in Moves /\ Len(signed) + 1 \in 1 .. MaxSigned
        BY <1>0, <2>0, <2>3, FneAssumption DEF PostAnswered, Request, FneTypeOK
      <4> QED
        BY <1>0, <2>0, <2>3, <4>1, CertificateIs DEF PostAnswered
    <3> QED
      BY <1>4, <3>1 DEF InFlight
  <2>4. ASSUME NEW m \in request[u].todo, PostRefused(u, m) \/ PostUnheard(u, m)
        PROVE  p \in unheard' \cup InFlight'
    <3>1. PICK posts : Fails(u, m, posts)
      BY <2>4 DEF PostRefused, PostUnheard
    <3>2. CASE RollBack(u, request[u].posts \cup posts)
      BY <1>4, <3>2 DEF RollBack
    <3>3. CASE request' = [request EXCEPT ![u].todo = @ \ {m}]
      <4>1. request'[u].posts = request[u].posts
        BY <1>0, <2>0, <3>3 DEF Request
      <4> QED
        BY <1>4, <4>1 DEF InFlight
    <3> QED
      BY <3>1, <3>2, <3>3 DEF Fails
  <2>5. ASSUME CommitRequest(u)
        PROVE  move'[signed'[p].move].reference = p
    <3>1. /\ signed[p].move \in request[u].wrote
          /\ request[u].read[signed[p].move].reference = p
      BY <1>4, <2>0 DEF Sound, KeepsItsPosts
    <3> QED
      BY <2>5, <3>1, CommitWrites
  <2>6. CASE AbortRequest(u)
    BY <1>4, <2>6 DEF AbortRequest, RollBack
  <2> QED
    BY <1>0, <2>1, <2>2, <2>3, <2>4, <2>5, <2>6, OneRequest
<1>5. CASE p \in DOMAIN signed
  <2>1. p \in unheard \cup InFlight \/ move[signed[p].move].reference = p
    BY <1>0, <1>5 DEF StrayIsUnheard
  <2> QED
    BY <1>2, <1>3, <1>4, <1>5, <2>1 DEF InFlight
<1>6. CASE p \notin DOMAIN signed
  <2>1. ASSUME NEW u \in Users, NEW m \in request[u].todo, PostAnswered(u, m)
        PROVE  p \in InFlight'
    <3>0. request[u] \in Request /\ m \in Moves /\ Len(signed) + 1 \in 1 .. MaxSigned
      BY <1>0, <2>1, FneAssumption DEF PostAnswered, Request, FneTypeOK
    <3>1. DocumentOf(m, request[u].read, request[u].lines) \in Document
      BY <3>0, DocumentType DEF Request
    <3>2. p = Len(signed) + 1
      BY <1>0, <1>6, <2>1, <3>1 DEF PostAnswered, FneTypeOK
    <3>3. p \in request'[u].posts
      BY <1>0, <2>1, <3>0, <3>2, CertificateIs DEF PostAnswered
    <3> QED
      BY <3>3 DEF InFlight
  <2>2. ASSUME NEW u \in Users, NEW m \in request[u].todo, PostUnheard(u, m)
        PROVE  p \in unheard'
    <3>0. request[u] \in Request /\ m \in Moves
      BY <1>0, <2>2 DEF Request, FneTypeOK
    <3>1. DocumentOf(m, request[u].read, request[u].lines) \in Document
      BY <3>0, DocumentType DEF Request
    <3>2. p = Len(signed) + 1
      BY <1>0, <1>6, <2>2, <3>1 DEF PostUnheard, FneTypeOK
    <3> QED
      BY <2>2, <3>2 DEF PostUnheard, Fails, RollBack
  <2>3. signed' # signed
    BY <1>6
  <2> QED
    BY <2>1, <2>2, <2>3
    DEF FneNext, fneVars, ReverseMove, EditMove, ResetToDraft, CancelMove, PostMoves, OpenWizard, CertifyInWizard, CertifyMove,
        PostRefused, CommitRequest, AbortRequest
<1> QED
  BY <1>5, <1>6

\* Every step keeps the inductive invariant.
LEMMA StepFne == FneIInv /\ [FneNext]_fneVars => FneIInv'
BY StepFneType, StepRequests, StepMoves, StepStray DEF FneIInv, FneInv

\* A certified move says what FNE signed under its reference, or is a note whose refund
\* wizard showed what FNE signed; a certified note refunds the document of its invoice, and a document at FNE that no move refers to comes from
\* a lost answer or from a request that kept nothing: for any invoices, notes, users and
\* number of documents, whoever edits, resets or certifies them while posts are on their
\* way.
THEOREM CertificatesAreSigned == FneSpec => []FneInv
<1> QED
  BY InitFne, StepFne, PTL DEF FneSpec, FneIInv

-----------------------------------------------------------------------------
(* The amounts of the entries.                                             *)

Basket == [ht : Int, tax : [Rates -> Int], taxed : BOOLEAN]
Content == [untaxed : Nat, tax : [Rates -> Int], rounding : Int]

\* A basket, sold or not, and without taxes unless it is taxed.
LEMMA BasketIs ==
    ASSUME NEW b \in Baskets \union {NoTicket}
    PROVE  b \in Basket /\ (~b.taxed => \A r \in Rates : b.tax[r] = 0)
<1>1. CASE b \in Baskets
  BY <1>1, LinesAssumption DEF Basket
<1>2. CASE b = NoTicket
  <2>1. PICK z \in Int : z = 0
    OBVIOUS
  <2>2. PICK f \in BOOLEAN : f = FALSE
    OBVIOUS
  <2>3. [r \in Rates |-> z] \in [Rates -> Int]
    OBVIOUS
  <2>4. b = [ht |-> z, tax |-> [r \in Rates |-> z], taxed |-> f]
    BY <1>2, <2>1, <2>2, Zenon DEF NoTicket
  <2>5. b \in Basket
    BY <2>3, <2>4 DEF Basket
  <2>6. \A r \in Rates : b.tax[r] = 0
    BY <2>1, <2>4
  <2> QED
    BY <2>5, <2>6
<1> QED
  BY <1>1, <1>2

\* What an invoice holds.
LEMMA ContentIs ==
    ASSUME NEW c \in Contents \union {NoPiece}
    PROVE  c \in Content
<1>1. CASE c \in Contents
  <2>1. c \in [untaxed : Nat \ {0}, tax : [Rates -> Int], rounding : Int]
    BY <1>1, LinesAssumption
  <2> QED
    BY <2>1 DEF Content
<1>2. CASE c = NoPiece
  <2>1. PICK z \in Nat : z = 0
    OBVIOUS
  <2>2. [r \in Rates |-> z] \in [Rates -> Int]
    OBVIOUS
  <2>3. c = [untaxed |-> z, tax |-> [r \in Rates |-> z], rounding |-> z]
    BY <1>2, <2>1, Zenon DEF NoPiece
  <2> QED
    BY <2>2, <2>3 DEF Content
<1> QED
  BY <1>1, <1>2

\* The sum over the payments, ticket by ticket.
LEMMA SumByTicket ==
    ASSUME NEW f \in [Payments -> Int], NEW E \in SUBSET Tickets,
           NEW g, \A t \in E : g[t] = SumFunctionOnSet(f, PaymentsOf(t)),
           NEW h, \A p \in Payments : h[p] = (IF TicketOf[p] \in E THEN f[p] ELSE 0)
    PROVE  SumFunctionOnSet(g, E) = SumFunctionOnSet(h, Payments)
<1> DEFINE k == [p \in Payments |-> [t \in E |-> IF TicketOf[p] = t THEN f[p] ELSE 0]]
           m == [t \in E |-> [p \in Payments |-> IF TicketOf[p] = t THEN f[p] ELSE 0]]
<1>1. IsFiniteSet(E) /\ IsFiniteSet(Payments)
  BY FS_Subset, LinesAssumption
<1>2. \A t \in E, p \in Payments : m[t][p] = IF TicketOf[p] = t THEN f[p] ELSE 0
  OBVIOUS
<1>3. \A t \in E, p \in Payments : m[t][p] \in Int
  BY <1>2
<1>4. ASSUME NEW t \in E PROVE g[t] = SumFunctionOnSet(m[t], Payments)
  <2>1. \A p \in Payments : f[p] \in Int /\ m[t][p] = IF p \in PaymentsOf(t) THEN f[p] ELSE 0
    BY <1>2 DEF PaymentsOf
  <2>2. PaymentsOf(t) \in SUBSET Payments
    BY DEF PaymentsOf
  <2> HIDE DEF m
  <2>3. SumFunctionOnSet(m[t], Payments) = SumFunctionOnSet(f, PaymentsOf(t))
    BY <1>1, <2>1, <2>2, SumPart
  <2> QED
    BY <2>3
<1>5. ASSUME NEW p \in Payments PROVE h[p] = SumFunctionOnSet(k[p], E)
  <2> DEFINE c == k[p]
  <2>1. \A t \in E : c[t] = IF TicketOf[p] = t THEN f[p] ELSE 0
    OBVIOUS
  <2> HIDE DEF c
  <2>2. CASE TicketOf[p] \in E
    <3>1. c[TicketOf[p]] = f[p] /\ f[p] \in Int
      BY <2>1, <2>2
    <3>2. \A t \in E : t # TicketOf[p] => c[t] = 0
      BY <2>1
    <3>3. SumFunctionOnSet(c, E) = c[TicketOf[p]]
      BY <1>1, <2>2, <3>1, <3>2, SumOnly
    <3> QED
      BY <2>2, <3>1, <3>3 DEF c
  <2>3. CASE TicketOf[p] \notin E
    <3>1. \A t \in E : c[t] = 0
      BY <2>1, <2>3
    <3>2. SumFunctionOnSet(c, E) = 0
      BY <1>1, <3>1, SumZero
    <3> QED
      BY <2>3, <3>2 DEF c
  <2> QED
    BY <2>2, <2>3
<1>6. \A t \in E, p \in Payments : m[t][p] \in Int /\ k[p][t] = m[t][p]
  BY <1>2, <1>3
<1> HIDE DEF m, k
<1>7. Transposed(m, k, E, Payments)
  BY <1>6 DEF Transposed
<1>8. SumsByLine(g, m, E, Payments)
  BY <1>4 DEF SumsByLine
<1>9. SumsByLine(h, k, Payments, E)
  BY <1>5 DEF SumsByLine
<1> QED
  BY <1>1, <1>7, <1>8, <1>9, SumExchange

\* The sum of the function of a record.
LEMMA SumOfIs ==
    ASSUME NEW f, NEW S, DOMAIN f = S
    PROVE  SumOf(f) = SumFunctionOnSet(f, S)
BY DEF SumOf

-----------------------------------------------------------------------------
(* The payments of a ticket cover it.                                      *)

PaidUp == \A t \in Tickets : SumFunctionOnSet(amount, PaymentsOf(t)) = TotalOf(basket[t])

LinesIInv == LinesTypeOK /\ PaidUp

LEMMA InitLines == LinesInit => LinesIInv
<1> SUFFICES ASSUME LinesInit PROVE LinesIInv
  OBVIOUS
<1>1. LinesTypeOK
  BY DEF LinesInit, LinesTypeOK
<1>2. ASSUME NEW t \in Tickets
      PROVE  SumFunctionOnSet(amount, PaymentsOf(t)) = TotalOf(basket[t])
  <2>1. IsFiniteSet(PaymentsOf(t)) /\ IsFiniteSet(Rates)
    BY FS_Subset, LinesAssumption DEF PaymentsOf
  <2>2. \A p \in PaymentsOf(t) : amount[p] = 0
    BY DEF LinesInit, PaymentsOf
  <2>3. SumFunctionOnSet(amount, PaymentsOf(t)) = 0
    BY <2>1, <2>2, SumZero
  <2>4. basket[t] = NoTicket
    BY DEF LinesInit
  <2>5. DOMAIN NoTicket.tax = Rates /\ \A r \in Rates : NoTicket.tax[r] = 0
    BY DEF NoTicket
  <2>6. SumOf(NoTicket.tax) = 0
    BY <2>1, <2>5, SumZero DEF SumOf
  <2>7. NoTicket.ht = 0
    BY DEF NoTicket
  <2> QED
    BY <2>3, <2>4, <2>6, <2>7 DEF TotalOf
<1> QED
  BY <1>1, <1>2 DEF LinesIInv, PaidUp

LEMMA StepLines == LinesIInv /\ [LinesNext]_lineVars => LinesIInv'
<1> SUFFICES ASSUME LinesIInv, [LinesNext]_lineVars PROVE LinesIInv'
  OBVIOUS
<1> USE DEF LinesIInv
<1>1. ASSUME NEW t \in Tickets, NEW b \in Baskets, NEW tendered \in [PaymentsOf(t) -> Amounts],
             SellTicket(t, b, tendered)
      PROVE  LinesIInv'
  <2>1. amount' = [p \in Payments |-> IF TicketOf[p] = t THEN tendered[p] ELSE amount[p]]
    BY <1>1 DEF SellTicket
  <2>2. ASSUME NEW p \in Payments PROVE amount'[p] \in Int
    <3>1. CASE TicketOf[p] = t
      <4>1. p \in PaymentsOf(t)
        BY <3>1 DEF PaymentsOf
      <4>2. tendered[p] \in Int
        BY <4>1, LinesAssumption
      <4> QED
        BY <2>1, <3>1, <4>2
    <3>2. CASE TicketOf[p] # t
      BY <2>1, <3>2 DEF LinesTypeOK
    <3> QED
      BY <3>1, <3>2
  <2>3. basket' = [basket EXCEPT ![t] = b] /\ basket \in [Tickets -> Baskets \union {NoTicket}]
    BY <1>1 DEF SellTicket, LinesTypeOK
  <2>4. LinesTypeOK'
    <3>1. amount' \in [Payments -> Int]
      BY <2>1, <2>2
    <3>2. basket' \in [Tickets -> Baskets \union {NoTicket}]
      BY <2>3
    <3> QED
      BY <1>1, <3>1, <3>2 DEF SellTicket, LinesTypeOK
  <2>5. ASSUME NEW u \in Tickets
        PROVE  SumFunctionOnSet(amount', PaymentsOf(u)) = TotalOf(basket'[u])
    <3>0. IsFiniteSet(PaymentsOf(u))
      BY FS_Subset, LinesAssumption DEF PaymentsOf
    <3>1. CASE u = t
      <4>1. \A p \in PaymentsOf(u) : amount'[p] = tendered[p]
        BY <2>1, <3>1 DEF PaymentsOf
      <4>2. SumFunctionOnSet(amount', PaymentsOf(u)) = SumFunctionOnSet(tendered, PaymentsOf(u))
        BY <3>0, <4>1, SumSame
      <4>3. basket'[u] = b
        BY <2>3, <3>1
      <4> QED
        BY <1>1, <3>1, <4>2, <4>3 DEF SellTicket
    <3>2. CASE u # t
      <4>1. \A p \in PaymentsOf(u) : amount'[p] = amount[p]
        BY <2>1, <3>2 DEF PaymentsOf
      <4>2. SumFunctionOnSet(amount', PaymentsOf(u)) = SumFunctionOnSet(amount, PaymentsOf(u))
        BY <3>0, <4>1, SumSame
      <4>3. basket'[u] = basket[u]
        BY <2>3, <3>2
      <4> QED
        BY <4>2, <4>3 DEF PaidUp
    <3> QED
      BY <3>1, <3>2
  <2> QED
    BY <2>4, <2>5 DEF PaidUp, PaymentsOf, TotalOf, SumOf
<1>2. ASSUME NEW s \in Reglements, NEW n \in Amounts, PayReglement(s, n)
      PROVE  LinesIInv'
  <2>1. n \in Nat
    BY <1>2, LinesAssumption DEF PayReglement
  <2>2. UNCHANGED <<basket, amount>>
    BY <1>2 DEF PayReglement
  <2>3. LinesTypeOK'
    BY <1>2, <2>1 DEF PayReglement, LinesTypeOK
  <2>4. PaidUp'
    BY <2>2 DEF PaidUp, PaymentsOf, TotalOf, SumOf
  <2> QED
    BY <2>3, <2>4
<1>3. ASSUME NEW i \in Pieces, NEW c \in Contents, PostPiece(i, c)
      PROVE  LinesIInv'
  <2>1. UNCHANGED <<basket, amount>>
    BY <1>3 DEF PostPiece
  <2>2. LinesTypeOK'
    BY <1>3 DEF PostPiece, LinesTypeOK
  <2>3. PaidUp'
    BY <2>1 DEF PaidUp, PaymentsOf, TotalOf, SumOf
  <2> QED
    BY <2>2, <2>3
<1>4. CASE UNCHANGED lineVars
  BY <1>4 DEF lineVars, LinesTypeOK, PaidUp, PaymentsOf, TotalOf, SumOf
<1> QED
  BY <1>1, <1>2, <1>3, <1>4 DEF LinesNext

-----------------------------------------------------------------------------
(* The entries balance.                                                    *)

\* What is put back in balance from the debit side balances.
LEMMA DebitEquilibrer ==
    ASSUME NEW d \in Int, NEW c \in Int, NEW s \in Int,
           NEW e, e = Equilibrer(Entry(d, c, s), 1)
    PROVE  e = Entry(c, c, s)
<1>1. Entry(d, c, s) = [debit |-> d, credit |-> c, sale |-> s]
  BY DEF Entry
<1>2. e = [Entry(d, c, s) EXCEPT !.debit = @ - (d - c)]
  BY <1>1 DEF Equilibrer
<1>3. e = [debit |-> d - (d - c), credit |-> c, sale |-> s]
  BY <1>1, <1>2
<1>4. d - (d - c) = c
  OBVIOUS
<1> QED
  BY <1>3, <1>4 DEF Entry

\* From the credit side, the difference changes its sign only.
LEMMA CreditEquilibrer ==
    ASSUME NEW d \in Int, NEW c \in Int, NEW s \in Int,
           NEW e, e = Equilibrer(Entry(d, c, s), -1)
    PROVE  e = Entry(d, c - (d - c), s)
<1>1. Entry(d, c, s) = [debit |-> d, credit |-> c, sale |-> s]
  BY DEF Entry
<1>2. -1 # 1
  OBVIOUS
<1>3. e = [Entry(d, c, s) EXCEPT !.credit = @ - (d - c)]
  BY <1>1, <1>2 DEF Equilibrer
<1> QED
  BY <1>1, <1>3 DEF Entry

\* The sum of integers indexed by a finite set of which the function is all.
LEMMA SumOfType ==
    ASSUME NEW S, IsFiniteSet(S), NEW f, DOMAIN f = S, \A x \in S : f[x] \in Int
    PROVE  SumOf(f) \in Int
BY SumType DEF SumOf

LEMMA EligibleType == IsFiniteSet(Eligible) /\ Eligible \subseteq Tickets /\ IsFiniteSet(Rates)
                      /\ IsFiniteSet(Payments) /\ IsFiniteSet(Tickets) /\ IsFiniteSet(Reglements)
BY FS_Subset, LinesAssumption DEF Eligible

\* The lines of the entries are integers.
LEMMA AmountsType ==
    ASSUME LinesTypeOK
    PROVE  /\ TotalHt \in Int /\ \A r \in Rates : TotalTva(r) \in Int
           /\ \A t \in Tickets : basket[t] \in Basket
           /\ \A p \in Payments : amount[p] \in Int
           /\ SumOf(reglement) \in Int
<1>1. \A t \in Tickets : basket[t] \in Basket
  BY BasketIs DEF LinesTypeOK
<1>2. TotalHt \in Int
  <2> DEFINE f == [t \in Tickets |-> basket[t].ht]
  <2>1. \A t \in Eligible : f[t] \in Int
    BY <1>1, EligibleType DEF Basket
  <2> HIDE DEF f
  <2>2. SumFunctionOnSet(f, Eligible) \in Int
    BY <2>1, EligibleType, SumType
  <2> QED
    BY <2>2 DEF TotalHt, f
<1>3. ASSUME NEW r \in Rates PROVE TotalTva(r) \in Int
  <2> DEFINE f == [t \in Tickets |-> basket[t].tax[r]]
  <2>1. \A t \in Eligible : f[t] \in Int
    BY <1>1, EligibleType DEF Basket
  <2> HIDE DEF f
  <2>2. SumFunctionOnSet(f, Eligible) \in Int
    BY <2>1, EligibleType, SumType
  <2> QED
    BY <2>2 DEF TotalTva, f
<1>4. SumOf(reglement) \in Int
  <2>1. DOMAIN reglement = Reglements /\ \A s \in Reglements : reglement[s] \in Int
    BY DEF LinesTypeOK
  <2> QED
    BY <2>1, SumOfType, EligibleType
<1>5. \A p \in Payments : amount[p] \in Int
  BY DEF LinesTypeOK
<1> QED
  BY <1>1, <1>2, <1>3, <1>4, <1>5

\* The taxes of ENCAI, the lines of tax of one entry, and what they add up to.
LEMMA PositiveType == \A n \in Int : Positive(n) \in Nat /\ Abs(n) \in Nat
BY DEF Positive, Abs

LEMMA LinesType ==
    ASSUME NEW x \in [Rates -> Int]
    PROVE  /\ SumOf(x) \in Int
           /\ SumOf([r \in Rates |-> Positive(x[r])]) \in Nat
           /\ SumOf([r \in Rates |-> Abs(x[r])]) \in Nat
<1>1. SumOf(x) \in Int
  BY SumOfType, EligibleType
<1>2. SumOf([r \in Rates |-> Positive(x[r])]) \in Nat
  <2> DEFINE f == [r \in Rates |-> Positive(x[r])]
  <2>1. DOMAIN f = Rates /\ \A r \in Rates : f[r] \in Nat
    BY PositiveType
  <2> HIDE DEF f
  <2>2. SumFunctionOnSet(f, Rates) \in Nat
    BY <2>1, SumNatural, EligibleType
  <2> QED
    BY <2>1, <2>2, SumOfIs DEF f
<1>3. SumOf([r \in Rates |-> Abs(x[r])]) \in Nat
  <2> DEFINE f == [r \in Rates |-> Abs(x[r])]
  <2>1. DOMAIN f = Rates /\ \A r \in Rates : f[r] \in Nat
    BY PositiveType
  <2> HIDE DEF f
  <2>2. SumFunctionOnSet(f, Rates) \in Nat
    BY <2>1, SumNatural, EligibleType
  <2> QED
    BY <2>1, <2>2, SumOfIs DEF f
<1> QED
  BY <1>1, <1>2, <1>3

\* The sides of ENCAI and of DECAI.
Taxes == SumOf([r \in Rates |-> Positive(TotalTva(r))])
Taken == [p \in Payments |-> IF Decaisse(p) THEN Abs(amount[p]) ELSE 0]

LEMMA EncaiIs ==
    ASSUME LinesTypeOK
    PROVE  /\ Taxes \in Int
           /\ Encai.debit = (Positive(TotalHt) + Taxes) + SumOf(reglement)
           /\ Encai.credit = (Positive(TotalHt) + Taxes) + SumOf(reglement)
           /\ Encai.sale = Positive(TotalHt)
<1>1. Taxes \in Int
  <2> DEFINE f == [r \in Rates |-> Positive(TotalTva(r))]
  <2>1. DOMAIN f = Rates /\ \A r \in Rates : f[r] \in Int
    BY PositiveType, AmountsType
  <2> HIDE DEF f
  <2>2. SumOf(f) \in Int
    BY <2>1, SumOfType, EligibleType
  <2> QED
    BY <2>2 DEF f, Taxes
<1>2. PICK s \in Int : s = Positive(TotalHt)
  BY PositiveType, AmountsType
<1>3. PICK c \in Int : c = (s + Taxes) + SumOf(reglement)
  BY <1>1, AmountsType
<1>4. Encai = Equilibrer(Entry(c, c, s), 1)
  BY <1>2, <1>3 DEF Encai, Taxes
<1>5. Encai = Entry(c, c, s)
  BY <1>4, DebitEquilibrer
<1> QED
  BY <1>1, <1>2, <1>3, <1>5 DEF Entry

LEMMA DecaiIs ==
    Decai.debit = SumFunctionOnSet(Taken, Payments) /\ Decai.credit = SumFunctionOnSet(Taken, Payments)
BY DEF Decai, Entry, Taken, SumOf

\* The entry of a payment on account, and of a refund.
LEMMA FacliIs ==
    ASSUME LinesTypeOK, NEW p \in Payments, NEW b, b = basket[TicketOf[p]],
           NEW s, s = (IF b.taxed THEN b.ht ELSE amount[p]),
           NEW x, x = SumOf([r \in Rates |-> Positive(b.tax[r])])
    PROVE  /\ s \in Int /\ x \in Nat
           /\ Facli(p).debit = s + x /\ Facli(p).credit = s + x /\ Facli(p).sale = s
<1>1. b \in Basket /\ amount[p] \in Int
  BY AmountsType, LinesAssumption
<1>2. s \in Int
  BY <1>1 DEF Basket
<1>3. b.tax \in [Rates -> Int]
  BY <1>1 DEF Basket
<1>4. x \in Nat
  BY <1>3, LinesType
<1>5. Facli(p) = Equilibrer(Entry(amount[p], s + x, s), 1)
  BY DEF Facli
<1>6. PICK c \in Int : c = s + x
  BY <1>2, <1>4
<1>7. PICK a \in Int : a = amount[p]
  BY <1>1
<1>8. Facli(p) = Equilibrer(Entry(a, c, s), 1)
  BY <1>5, <1>6, <1>7
<1>9. Facli(p) = Entry(c, c, s)
  BY <1>2, <1>8, DebitEquilibrer
<1> QED
  BY <1>2, <1>4, <1>6, <1>9 DEF Entry

LEMMA AvcliIs ==
    ASSUME LinesTypeOK, NEW p \in Payments, NEW b, b = basket[TicketOf[p]],
           NEW s, s = AvoirHt(p),
           NEW x, x = SumOf([r \in Rates |-> Abs(b.tax[r])]),
           NEW a, a = Abs(amount[p])
    PROVE  /\ s \in Nat /\ x \in Nat /\ a \in Nat
           /\ Avcli(p).debit = a /\ Avcli(p).credit = a
           /\ Avcli(p).sale = s + (a - (s + x))
<1>1. b \in Basket /\ amount[p] \in Int
  BY AmountsType, LinesAssumption
<1>2. s \in Nat
  BY <1>1, PositiveType DEF Basket, AvoirHt
<1>3. b.tax \in [Rates -> Int]
  BY <1>1 DEF Basket
<1>4. x \in Nat /\ a \in Nat
  BY <1>1, <1>3, LinesType, PositiveType
<1> DEFINE e == Entry(s + x, a, s)
           f == Equilibrer(e, 1)
<1>5. Avcli(p) = [f EXCEPT !.sale = @ + (f.debit - e.debit)]
  BY DEF Avcli
<1>6. PICK d \in Int : d = s + x
  BY <1>2, <1>4
<1>7. s \in Int /\ a \in Int
  BY <1>2, <1>4
<1>8. f = Entry(a, a, s)
  BY <1>6, <1>7, DebitEquilibrer
<1>9. e.debit = d /\ f = [debit |-> a, credit |-> a, sale |-> s]
  BY <1>6, <1>8 DEF Entry
<1> HIDE DEF e, f
<1>10. Avcli(p) = [debit |-> a, credit |-> a, sale |-> s + (a - d)]
  BY <1>5, <1>9
<1> QED
  BY <1>2, <1>4, <1>6, <1>10

\* The lines of an invoice and its total.
LEMMA PieceIs ==
    ASSUME LinesTypeOK, NEW i \in Pieces
    PROVE  /\ Lignes(piece[i]) \in Int /\ Total(piece[i]) \in Int /\ piece[i].untaxed \in Int
<1>1. piece[i] \in Content
  BY ContentIs DEF LinesTypeOK
<1>2. PICK u \in Int : u = piece[i].untaxed
  BY <1>1 DEF Content
<1>3. piece[i].tax \in [Rates -> Int] /\ piece[i].rounding \in Int
  BY <1>1 DEF Content
<1>4. PICK x : x = piece[i].tax
  OBVIOUS
<1>5. SumOf(x) \in Int /\ SumOf([r \in Rates |-> Abs(x[r])]) \in Nat
  BY <1>3, <1>4, LinesType
<1>6. Lignes(piece[i]) = u + SumOf([r \in Rates |-> Abs(x[r])])
  BY <1>2, <1>4 DEF Lignes
<1>7. Total(piece[i]) = (u + SumOf(x)) + piece[i].rounding
  BY <1>2, <1>4 DEF Total
<1> QED
  BY <1>2, <1>3, <1>5, <1>6, <1>7

LEMMA EntriesAreBalanced == ASSUME LinesTypeOK PROVE EntriesBalance
<1>1. Balanced(Encai)
  BY EncaiIs DEF Balanced
<1>2. Balanced(Decai)
  BY DecaiIs DEF Balanced
<1>3. ASSUME NEW p \in OnAccount PROVE Balanced(EntryOf(p))
  <2>1. p \in Payments
    BY DEF OnAccount
  <2>2. Facli(p).debit = Facli(p).credit
    <3>1. PICK b : b = basket[TicketOf[p]]
      OBVIOUS
    <3>2. PICK s : s = IF b.taxed THEN b.ht ELSE amount[p]
      OBVIOUS
    <3>3. PICK x : x = SumOf([r \in Rates |-> Positive(b.tax[r])])
      OBVIOUS
    <3> QED
      BY <2>1, <3>1, <3>2, <3>3, FacliIs
  <2>3. Avcli(p).debit = Avcli(p).credit
    BY <2>1, AvcliIs
  <2> QED
    BY <2>2, <2>3 DEF Balanced, EntryOf
<1>4. ASSUME NEW i \in Pieces
      PROVE  Balanced(PieceEntry(i)) <=> (i \in Avoirs => Total(piece[i]) = Lignes(piece[i]))
  <2>1. PICK l \in Int : l = Lignes(piece[i])
    BY PieceIs
  <2>2. PICK t \in Int : t = Total(piece[i])
    BY PieceIs
  <2>3. PICK u \in Int : u = piece[i].untaxed
    BY PieceIs
  <2>4. CASE i \in Avoirs
    <3>1. PieceEntry(i) = Equilibrer(Entry(l, t, u), -1)
      BY <2>1, <2>2, <2>3, <2>4 DEF PieceEntry
    <3>2. PieceEntry(i) = Entry(l, t - (l - t), u)
      BY <3>1, CreditEquilibrer
    <3>3. l = t - (l - t) <=> t = l
      OBVIOUS
    <3> QED
      BY <2>1, <2>2, <2>4, <3>2, <3>3 DEF Balanced, Entry
  <2>5. CASE i \notin Avoirs
    <3>1. PieceEntry(i) = Equilibrer(Entry(t, l, u), 1)
      BY <2>1, <2>2, <2>3, <2>5 DEF PieceEntry
    <3>2. PieceEntry(i) = Entry(l, l, u)
      BY <3>1, DebitEquilibrer
    <3> QED
      BY <2>5, <3>2 DEF Balanced, Entry
  <2> QED
    BY <2>4, <2>5
<1> QED
  BY <1>1, <1>2, <1>3, <1>4 DEF EntriesBalance

-----------------------------------------------------------------------------
(* The till's account and the sales.                                       *)

\* A payment that is made without its ticket being eligible is on account.
LEMMA OthersAreEligible ==
    ASSUME NEW p \in Payments, amount[p] # 0, TicketOf[p] \notin Eligible
    PROVE  p \in OnAccount
<1>1. TicketOf[p] \in Tickets /\ p \in PaymentsOf(TicketOf[p])
  BY LinesAssumption DEF PaymentsOf
<1> QED
  BY <1>1 DEF Eligible, OnAccount

\* What the tickets of E come to is what their payments do.
LEMMA TicketsArePaid ==
    ASSUME LinesTypeOK, PaidUp, NEW E \in SUBSET Tickets,
           NEW g, g = [t \in Tickets |-> TotalOf(basket[t])],
           NEW h, h = [p \in Payments |-> IF TicketOf[p] \in E THEN amount[p] ELSE 0]
    PROVE  SumFunctionOnSet(g, E) = SumFunctionOnSet(h, Payments)
<1>1. amount \in [Payments -> Int]
  BY DEF LinesTypeOK
<1>2. \A t \in E : g[t] = SumFunctionOnSet(amount, PaymentsOf(t))
  BY DEF PaidUp
<1>3. \A p \in Payments : h[p] = (IF TicketOf[p] \in E THEN amount[p] ELSE 0)
  OBVIOUS
<1> QED
  BY <1>1, <1>2, <1>3, SumByTicket

\* The sales and the taxes of the eligible tickets are what they come to.
LEMMA SalesAndTaxes ==
    ASSUME LinesTypeOK, NEW g, g = [t \in Tickets |-> TotalOf(basket[t])],
           NEW x, x = [r \in Rates |-> TotalTva(r)]
    PROVE  SumFunctionOnSet(g, Eligible) = TotalHt + SumFunctionOnSet(x, Rates)
<1> DEFINE ht == [t \in Tickets |-> basket[t].ht]
           tva == [t \in Tickets |-> SumOf(basket[t].tax)]
           k == [t \in Tickets |-> basket[t].tax]
           m == [r \in Rates |-> [t \in Tickets |-> basket[t].tax[r]]]
<1>1. ASSUME NEW t \in Tickets
      PROVE  /\ basket[t].ht \in Int /\ basket[t].tax \in [Rates -> Int]
             /\ SumOf(basket[t].tax) \in Int
             /\ SumOf(basket[t].tax) = SumFunctionOnSet(basket[t].tax, Rates)
  <2>1. basket[t].ht \in Int /\ basket[t].tax \in [Rates -> Int]
    BY AmountsType DEF Basket
  <2>2. DOMAIN (basket[t].tax) = Rates /\ \A r \in Rates : basket[t].tax[r] \in Int
    BY <2>1
  <2>3. PICK y : y = basket[t].tax
    OBVIOUS
  <2>4. SumOf(y) = SumFunctionOnSet(y, Rates)
    BY <2>2, <2>3, SumOfIs
  <2>5. SumOf(y) \in Int
    BY <2>2, <2>3, SumOfType, EligibleType
  <2> QED
    BY <2>1, <2>3, <2>4, <2>5
<1>2. \A t \in Eligible : ht[t] \in Int /\ tva[t] \in Int /\ g[t] = ht[t] + tva[t]
  BY <1>1, EligibleType DEF TotalOf
<1>3. SumFunctionOnSet(g, Eligible) = SumFunctionOnSet(ht, Eligible) + SumFunctionOnSet(tva, Eligible)
  <2> HIDE DEF ht, tva
  <2> QED
    BY <1>2, EligibleType, SumAdd
<1>4. SumFunctionOnSet(x, Rates) = SumFunctionOnSet(tva, Eligible)
  <2>1. Transposed(m, k, Rates, Eligible)
    <3>1. \A r \in Rates, t \in Eligible : m[r][t] = basket[t].tax[r] /\ k[t][r] = basket[t].tax[r]
      BY EligibleType
    <3>2. \A r \in Rates, t \in Eligible : basket[t].tax[r] \in Int
      BY <1>1, EligibleType
    <3> HIDE DEF m, k
    <3> QED
      BY <3>1, <3>2 DEF Transposed
  <2>2. SumsByLine(x, m, Rates, Eligible)
    BY DEF SumsByLine, TotalTva
  <2>3. SumsByLine(tva, k, Eligible, Rates)
    <3>1. \A t \in Eligible : tva[t] = SumFunctionOnSet(k[t], Rates)
      BY <1>1, EligibleType
    <3> HIDE DEF tva, k
    <3> QED
      BY <3>1 DEF SumsByLine
  <2> HIDE DEF m, k, tva
  <2> QED
    BY <2>1, <2>2, <2>3, EligibleType, SumExchange
<1>5. TotalHt = SumFunctionOnSet(ht, Eligible)
  BY DEF TotalHt
<1> HIDE DEF ht, tva
<1> QED
  BY <1>3, <1>4, <1>5

\* The till's account holds the cash, the settlements and what TillShare says.
LEMMA TillExplained == ASSUME LinesTypeOK, PaidUp PROVE TillIsExplained
<1> SUFFICES ASSUME TotalHt >= 0, \A r \in Rates : TotalTva(r) >= 0
             PROVE  Encai.debit - Decai.credit
                      = SumOf([p \in Payments |-> TillShare(p)]) + SumOf(reglement)
  BY DEF TillIsExplained
<1> DEFINE share == [p \in Payments |-> TillShare(p)]
           part == [p \in Payments |-> IF TicketOf[p] \in Eligible THEN amount[p] ELSE 0]
<1>1. PICK g : g = [t \in Tickets |-> TotalOf(basket[t])]
  OBVIOUS
<1>2. PICK x : x = [r \in Rates |-> TotalTva(r)]
  OBVIOUS
<1>3. SumFunctionOnSet(g, Eligible) = TotalHt + SumFunctionOnSet(x, Rates)
  BY <1>1, <1>2, SalesAndTaxes
<1>4. Taxes = SumFunctionOnSet(x, Rates)
  <2>1. \A r \in Rates : TotalTva(r) \in Int
    BY AmountsType
  <2>2. \A r \in Rates : Positive(TotalTva(r)) = TotalTva(r)
    BY <2>1 DEF Positive
  <2>3. [r \in Rates |-> Positive(TotalTva(r))] = x
    BY <1>2, <2>2
  <2>4. DOMAIN x = Rates
    BY <1>2
  <2> QED
    BY <2>3, <2>4, SumOfIs DEF Taxes
<1>5. Positive(TotalHt) = TotalHt
  BY AmountsType DEF Positive
<1>6. SumFunctionOnSet(g, Eligible) = SumFunctionOnSet(part, Payments)
  <2>1. PICK E \in SUBSET Tickets : E = Eligible
    BY EligibleType
  <2>2. part = [p \in Payments |-> IF TicketOf[p] \in E THEN amount[p] ELSE 0]
    BY <2>1
  <2> HIDE DEF part
  <2> QED
    BY <1>1, <2>1, <2>2, TicketsArePaid
<1>7. ASSUME NEW p \in Payments
      PROVE  share[p] \in Int /\ Taken[p] \in Int /\ part[p] = share[p] + Taken[p]
  <2>1. PICK a \in Int : a = amount[p]
    BY AmountsType
  <2>2. Abs(a) \in Int
    BY PositiveType
  <2>3. Kind[p] \in PaymentKinds
    BY LinesAssumption
  <2>4. TicketOf[p] \notin Eligible => a = 0 \/ Kind[p] = "limit"
    BY <2>1, OthersAreEligible DEF OnAccount
  <2>5. share[p] = TillShare(p) /\ Taken[p] = (IF Decaisse(p) THEN Abs(a) ELSE 0)
    BY <2>1 DEF Taken
  <2>6. part[p] = (IF TicketOf[p] \in Eligible THEN a ELSE 0)
    BY <2>1
  <2> HIDE DEF share, part
  <2>7. CASE Kind[p] \in {"food", "grouped"}
    <3>1. Decaisse(p) /\ TillShare(p) = a - Abs(a)
      BY <2>1, <2>7 DEF Decaisse, TillShare
    <3>2. part[p] = a
      BY <2>4, <2>6, <2>7
    <3> QED
      BY <2>2, <2>5, <3>1, <3>2
  <2>8. CASE Kind[p] = "limit" /\ TicketOf[p] \notin Eligible
    <3>1. ~Decaisse(p) /\ TillShare(p) = 0
      BY <2>8 DEF Decaisse, TillShare
    <3> QED
      BY <2>5, <2>6, <2>8, <3>1
  <2>9. CASE Kind[p] \notin {"food", "grouped"} /\ ~(Kind[p] = "limit" /\ TicketOf[p] \notin Eligible)
    <3>1. ~Decaisse(p) /\ TillShare(p) = a
      BY <2>1, <2>9 DEF Decaisse, TillShare
    <3>2. part[p] = a
      BY <2>4, <2>6, <2>9
    <3> QED
      BY <2>5, <3>1, <3>2
  <2> QED
    BY <2>7, <2>8, <2>9
<1>8. SumFunctionOnSet(part, Payments)
        = SumFunctionOnSet(share, Payments) + SumFunctionOnSet(Taken, Payments)
  <2> HIDE DEF part, share
  <2> QED
    BY <1>7, EligibleType, SumAdd
<1>9. SumFunctionOnSet(share, Payments) \in Int /\ SumFunctionOnSet(Taken, Payments) \in Int
  <2> HIDE DEF part, share
  <2> QED
    BY <1>7, EligibleType, SumType
<1>10. SumOf(share) = SumFunctionOnSet(share, Payments)
  BY SumOfIs
<1>11. PICK s, d : s = SumFunctionOnSet(share, Payments) /\ d = SumFunctionOnSet(Taken, Payments)
  OBVIOUS
<1> HIDE DEF share, part
<1>12. Encai.debit = (s + d) + SumOf(reglement)
  BY <1>3, <1>4, <1>5, <1>6, <1>8, <1>11, EncaiIs
<1>13. Decai.credit = d
  BY <1>11, DecaiIs
<1>14. ((s + d) + SumOf(reglement)) - d = s + SumOf(reglement)
  BY <1>9, <1>11, AmountsType
<1> QED
  BY <1>10, <1>11, <1>12, <1>13, <1>14 DEF share

\* What a plain ticket on account comes to, all of one sign.
LEMMA SameSign ==
    ASSUME NEW b \in Basket
    PROVE  /\ TotalOf(b) = b.ht + SumFunctionOnSet(b.tax, Rates)
           /\ SumFunctionOnSet(b.tax, Rates) \in Int
           /\ (\A r \in Rates : b.tax[r] >= 0)
                 => /\ SumFunctionOnSet(b.tax, Rates) >= 0
                    /\ SumOf([r \in Rates |-> Positive(b.tax[r])]) = SumFunctionOnSet(b.tax, Rates)
           /\ (\A r \in Rates : b.tax[r] <= 0)
                 => SumOf([r \in Rates |-> Abs(b.tax[r])]) = -SumFunctionOnSet(b.tax, Rates)
<1>1. b.ht \in Int /\ b.tax \in [Rates -> Int] /\ IsFiniteSet(Rates)
  BY LinesAssumption DEF Basket
<1>2. PICK x \in [Rates -> Int] : x = b.tax
  BY <1>1
<1>3. SumOf(x) = SumFunctionOnSet(x, Rates)
  BY SumOfIs
<1>4. SumFunctionOnSet(x, Rates) \in Int
  BY <1>1, SumType
<1>5. ASSUME \A r \in Rates : x[r] >= 0
      PROVE  /\ SumFunctionOnSet(x, Rates) >= 0
             /\ SumOf([r \in Rates |-> Positive(x[r])]) = SumFunctionOnSet(x, Rates)
  <2>1. \A r \in Rates : x[r] \in Nat /\ Positive(x[r]) = x[r]
    BY <1>5 DEF Positive
  <2>2. SumFunctionOnSet(x, Rates) \in Nat
    BY <1>1, <2>1, SumNatural
  <2>3. [r \in Rates |-> Positive(x[r])] = x
    BY <2>1
  <2> QED
    BY <1>3, <2>2, <2>3
<1>6. ASSUME \A r \in Rates : x[r] <= 0
      PROVE  SumOf([r \in Rates |-> Abs(x[r])]) = -SumFunctionOnSet(x, Rates)
  <2> DEFINE y == [r \in Rates |-> Abs(x[r])]
             z == [r \in Rates |-> 0]
  <2>1. \A r \in Rates : x[r] \in Int /\ y[r] \in Int /\ z[r] = x[r] + y[r]
    BY <1>6 DEF Abs
  <2>2. \A r \in Rates : z[r] = 0
    OBVIOUS
  <2>3. DOMAIN y = Rates
    OBVIOUS
  <2> HIDE DEF y, z
  <2>4. SumFunctionOnSet(z, Rates) = SumFunctionOnSet(x, Rates) + SumFunctionOnSet(y, Rates)
    BY <1>1, <2>1, SumAdd
  <2>5. SumFunctionOnSet(z, Rates) = 0
    BY <1>1, <2>2, SumZero
  <2>6. SumFunctionOnSet(y, Rates) \in Int
    BY <1>1, <2>1, SumType
  <2>7. SumOf(y) = SumFunctionOnSet(y, Rates)
    BY <2>3, SumOfIs
  <2> QED
    BY <1>4, <2>4, <2>5, <2>6, <2>7 DEF y
<1> QED
  BY <1>1, <1>2, <1>3, <1>4, <1>5, <1>6 DEF TotalOf

\* The entry of the one payment of a plain ticket on account.
LEMMA PlainEntry ==
    ASSUME LinesTypeOK, PaidUp, NEW p \in OnAccount, Plain(TicketOf[p])
    PROVE  /\ EntryOf(p).debit = Abs(amount[p])
           /\ SaleOf(p) = basket[TicketOf[p]].ht
           /\ SaleOf(p) \in Int
<1>1. PICK t \in Tickets : t = TicketOf[p]
  BY LinesAssumption DEF OnAccount
<1>2. PICK b \in Basket : b = basket[t]
  BY AmountsType
<1>3. p \in Payments /\ p \in PaymentsOf(t) /\ amount[p] # 0
  BY <1>1 DEF OnAccount, PaymentsOf
<1>4. PICK a \in Int : a = amount[p]
  BY <1>3, AmountsType
<1>5. PICK x \in Int : x = SumFunctionOnSet(b.tax, Rates)
  BY SameSign
<1>6. PICK h \in Int : h = b.ht
  BY DEF Basket
<1>7. a = h + x
  <2>1. IsFiniteSet(PaymentsOf(t))
    BY FS_Subset, EligibleType DEF PaymentsOf
  <2>2. \A q \in PaymentsOf(t) : q # p => amount[q] = 0
    BY <1>1, <1>3 DEF Plain
  <2>3. SumFunctionOnSet(amount, PaymentsOf(t)) = amount[p]
    BY <1>3, <1>4, <2>1, <2>2, SumOnly
  <2>4. TotalOf(b) = h + x
    BY <1>5, <1>6, SameSign
  <2> QED
    BY <1>2, <1>4, <2>3, <2>4 DEF PaidUp
<1>8. ~b.taxed => x = 0
  <2>1. ~b.taxed => \A r \in Rates : b.tax[r] = 0
    BY <1>2, BasketIs DEF LinesTypeOK
  <2> QED
    BY <1>5, <2>1, SumZero, EligibleType
<1>9. \/ h >= 0 /\ \A r \in Rates : b.tax[r] >= 0
      \/ h <= 0 /\ \A r \in Rates : b.tax[r] <= 0
  BY <1>1, <1>2, <1>6 DEF Plain
<1>10. PICK f : f = SumOf([r \in Rates |-> Positive(b.tax[r])])
  OBVIOUS
<1>11. PICK v : v = SumOf([r \in Rates |-> Abs(b.tax[r])])
  OBVIOUS
<1>12. (\A r \in Rates : b.tax[r] >= 0) => f = x /\ x >= 0
  BY <1>5, <1>10, SameSign
<1>13. (\A r \in Rates : b.tax[r] <= 0) => v = -x
  BY <1>5, <1>11, SameSign
<1>14. PICK s : s = IF b.taxed THEN b.ht ELSE amount[p]
  OBVIOUS
<1>15. s = h
  <2>1. CASE b.taxed
    BY <2>1, <1>6, <1>14
  <2>2. CASE ~b.taxed
    <3>1. s = a
      BY <2>2, <1>4, <1>14
    <3>2. x = 0
      BY <2>2, <1>8
    <3> QED
      BY <3>1, <3>2, <1>7
  <2> QED
    BY <2>1, <2>2
<1>16. b = basket[TicketOf[p]]
  BY <1>1, <1>2
<1>17. CASE a > 0
  <2>1. Facli(p).debit = s + f /\ Facli(p).sale = s
    BY <1>3, <1>10, <1>14, <1>16, FacliIs
  <2>2. \A r \in Rates : b.tax[r] >= 0
    <3>1. ASSUME h <= 0, \A r \in Rates : b.tax[r] <= 0 PROVE FALSE
      <4>1. v = -x /\ v \in Nat
        BY <1>11, <1>13, <3>1, LinesType DEF Basket
      <4> QED
        BY <1>7, <1>17, <3>1, <4>1
    <3> QED
      BY <1>9, <3>1
  <2>3. EntryOf(p) = Facli(p) /\ SaleOf(p) = Facli(p).sale
    BY <1>4, <1>17 DEF EntryOf, SaleOf
  <2>4. Abs(a) = a
    BY <1>17 DEF Abs
  <2> QED
    BY <1>4, <1>6, <1>7, <1>12, <1>15, <1>16, <2>1, <2>2, <2>3, <2>4
<1>18. CASE a < 0
  <2>1. h <= 0 /\ \A r \in Rates : b.tax[r] <= 0
    BY <1>7, <1>9, <1>12, <1>18
  <2>2. PICK w : w = AvoirHt(p)
    OBVIOUS
  <2>3. PICK c : c = Abs(a)
    OBVIOUS
  <2>4. c = -a /\ w = -h
    <3>1. Abs(a) = -a /\ Abs(h) = -h
      BY <1>18, <2>1 DEF Abs
    <3>2. AvoirHt(p) = IF b.taxed THEN Abs(h) ELSE Abs(a)
      BY <1>4, <1>6, <1>16 DEF AvoirHt
    <3> QED
      BY <1>7, <1>8, <2>2, <2>3, <3>1, <3>2
  <2>5. Avcli(p).debit = c /\ Avcli(p).sale = w + (c - (w + v))
    BY <1>3, <1>4, <1>11, <1>16, <2>2, <2>3, AvcliIs
  <2>6. v = -x
    BY <1>13, <2>1
  <2>7. ~(a > 0)
    BY <1>18
  <2>8. EntryOf(p) = Avcli(p) /\ SaleOf(p) = -Avcli(p).sale
    BY <1>4, <2>7 DEF EntryOf, SaleOf
  <2>9. -(w + (c - (w + v))) = h
    BY <1>7, <2>4, <2>6
  <2> QED
    BY <1>4, <1>6, <1>16, <2>3, <2>5, <2>8, <2>9
<1> QED
  BY <1>3, <1>4, <1>17, <1>18

\* Ticket by ticket, the sales are in ENCAI or in the entry of the client.
LEMMA PlainTicket ==
    ASSUME LinesTypeOK, PaidUp, NEW t \in Tickets, Plain(t),
           NEW s, s = [p \in Payments |-> SaleOf(p)]
    PROVE  SumFunctionOnSet(s, PaymentsOf(t)) = IF t \in Eligible THEN 0 ELSE basket[t].ht
<1>0. IsFiniteSet(PaymentsOf(t)) /\ PaymentsOf(t) \subseteq Payments
  BY FS_Subset, EligibleType DEF PaymentsOf
<1>1. \A p \in PaymentsOf(t) : p \notin OnAccount => s[p] = 0
  BY <1>0 DEF SaleOf
<1>2. CASE t \in Eligible
  <2>1. PICK q \in PaymentsOf(t) : amount[q] # 0 /\ Kind[q] # "limit"
    BY <1>2 DEF Eligible
  <2>2. \A p \in PaymentsOf(t) : p \notin OnAccount
    BY <2>1 DEF Plain, OnAccount
  <2> QED
    BY <1>0, <1>1, <1>2, <2>2, SumZero
<1>3. CASE t \notin Eligible /\ \E p \in PaymentsOf(t) : p \in OnAccount
  <2>1. PICK p \in PaymentsOf(t) : p \in OnAccount
    BY <1>3
  <2>2. TicketOf[p] = t
    BY DEF PaymentsOf
  <2>3. SaleOf(p) = basket[t].ht /\ SaleOf(p) \in Int
    BY <2>1, <2>2, PlainEntry
  <2>4. \A q \in PaymentsOf(t) : q # p => q \notin OnAccount
    BY <2>1 DEF Plain, OnAccount
  <2>5. s[p] = SaleOf(p) /\ \A q \in PaymentsOf(t) : q # p => s[q] = 0
    BY <1>0, <1>1, <2>4
  <2>6. SumFunctionOnSet(s, PaymentsOf(t)) = s[p]
    BY <1>0, <2>3, <2>5, SumOnly
  <2> QED
    BY <1>3, <2>3, <2>5, <2>6
<1>4. CASE t \notin Eligible /\ \A p \in PaymentsOf(t) : p \notin OnAccount
  <2>1. \A p \in PaymentsOf(t) : s[p] = 0
    BY <1>1, <1>4
  <2>2. SumFunctionOnSet(s, PaymentsOf(t)) = 0
    BY <1>0, <2>1, SumZero
  <2>3. \A p \in PaymentsOf(t) : amount[p] = 0
    BY <1>0, <1>4, OthersAreEligible DEF PaymentsOf
  <2>4. SumFunctionOnSet(amount, PaymentsOf(t)) = 0
    BY <1>0, <2>3, SumZero
  <2>5. PICK b \in Basket : b = basket[t]
    BY AmountsType
  <2>6. b.ht + SumFunctionOnSet(b.tax, Rates) = 0
    BY <2>4, <2>5, SameSign DEF PaidUp
  <2>7. PICK x \in Int : x = SumFunctionOnSet(b.tax, Rates)
    BY SameSign
  <2>8. PICK h \in Int : h = b.ht
    BY DEF Basket
  <2>9. \/ h >= 0 /\ \A r \in Rates : b.tax[r] >= 0
        \/ h <= 0 /\ \A r \in Rates : b.tax[r] <= 0
    BY <2>5, <2>8 DEF Plain
  <2>10. (\A r \in Rates : b.tax[r] >= 0) => x >= 0
    BY <2>7, SameSign
  <2>11. (\A r \in Rates : b.tax[r] <= 0) => x <= 0
    <3>1. PICK v : v = SumOf([r \in Rates |-> Abs(b.tax[r])])
      OBVIOUS
    <3>2. v \in Nat
      BY <3>1, LinesType DEF Basket
    <3>3. (\A r \in Rates : b.tax[r] <= 0) => v = -x
      BY <2>7, <3>1, SameSign
    <3> QED
      BY <3>2, <3>3
  <2>12. h = 0
    BY <2>6, <2>7, <2>8, <2>9, <2>10, <2>11
  <2> QED
    BY <1>4, <2>2, <2>5, <2>8, <2>12
<1> QED
  BY <1>2, <1>3, <1>4

\* The sales of the day are booked once if every ticket is plain.
LEMMA SalesBooked == ASSUME LinesTypeOK, PaidUp PROVE SalesAreBookedOnce
<1> SUFFICES ASSUME \A t \in Tickets : Plain(t) PROVE
      /\ TotalHt >= 0 => Encai.sale + SumOf([p \in Payments |-> SaleOf(p)])
                           = SumOf([t \in Tickets |-> basket[t].ht])
      /\ \A p \in OnAccount : EntryOf(p).debit = Abs(amount[p])
  BY DEF SalesAreBookedOnce
<1>1. ASSUME NEW p \in OnAccount PROVE EntryOf(p).debit = Abs(amount[p])
  <2>1. Plain(TicketOf[p])
    BY LinesAssumption DEF OnAccount
  <2> QED
    BY <2>1, PlainEntry
<1>2. PICK s : s = [p \in Payments |-> SaleOf(p)]
  OBVIOUS
<1>3. PICK ht : ht = [t \in Tickets |-> basket[t].ht]
  OBVIOUS
<1>4. s \in [Payments -> Int]
  <2>1. ASSUME NEW p \in Payments PROVE SaleOf(p) \in Int
    <3>1. CASE p \in OnAccount
      <4>1. Plain(TicketOf[p])
        BY LinesAssumption
      <4> QED
        BY <3>1, <4>1, PlainEntry
    <3>2. CASE p \notin OnAccount
      BY <3>2 DEF SaleOf
    <3> QED
      BY <3>1, <3>2
  <2> QED
    BY <1>2, <2>1
<1>5. \A t \in Tickets : ht[t] = basket[t].ht /\ ht[t] \in Int
  BY <1>3, AmountsType DEF Basket
<1> DEFINE rest == [t \in Tickets |-> IF t \in Eligible THEN 0 ELSE ht[t]]
           eligible == [t \in Tickets |-> IF t \in Eligible THEN ht[t] ELSE 0]
<1>6. SumFunctionOnSet(rest, Tickets) = SumFunctionOnSet(s, Payments)
  <2>1. \A t \in Tickets : rest[t] = SumFunctionOnSet(s, PaymentsOf(t))
    BY <1>2, <1>5, PlainTicket
  <2>2. \A p \in Payments : s[p] = (IF TicketOf[p] \in Tickets THEN s[p] ELSE 0)
    BY LinesAssumption
  <2>3. PICK E \in SUBSET Tickets : E = Tickets
    OBVIOUS
  <2>4. \A t \in E : rest[t] = SumFunctionOnSet(s, PaymentsOf(t))
    BY <2>1
  <2>5. \A p \in Payments : s[p] = (IF TicketOf[p] \in E THEN s[p] ELSE 0)
    BY <2>2, <2>3
  <2> HIDE DEF rest
  <2>6. SumFunctionOnSet(rest, E) = SumFunctionOnSet(s, Payments)
    BY <1>4, <2>4, <2>5, SumByTicket
  <2> QED
    BY <2>3, <2>6
<1>7. SumFunctionOnSet(eligible, Tickets) = SumFunctionOnSet(ht, Eligible)
  <2>1. \A t \in Tickets : ht[t] \in Int /\ eligible[t] = (IF t \in Eligible THEN ht[t] ELSE 0)
    BY <1>5
  <2> HIDE DEF eligible
  <2> QED
    BY <2>1, EligibleType, SumPart
<1>8. SumFunctionOnSet(ht, Tickets) = SumFunctionOnSet(eligible, Tickets) + SumFunctionOnSet(rest, Tickets)
  <2>1. \A t \in Tickets : eligible[t] \in Int /\ rest[t] \in Int /\ ht[t] = eligible[t] + rest[t]
    BY <1>5
  <2> HIDE DEF eligible, rest
  <2> QED
    BY <2>1, EligibleType, SumAdd
<1>9. TotalHt = SumFunctionOnSet(ht, Eligible)
  BY <1>3 DEF TotalHt
<1>10. ASSUME TotalHt >= 0 PROVE Encai.sale = TotalHt
  <2>1. Positive(TotalHt) = TotalHt
    BY <1>10, AmountsType DEF Positive
  <2> QED
    BY <2>1, EncaiIs
<1>11. SumOf(s) = SumFunctionOnSet(s, Payments) /\ SumOf(ht) = SumFunctionOnSet(ht, Tickets)
  BY <1>2, <1>3, SumOfIs
<1> HIDE DEF eligible, rest
<1>12. TotalHt >= 0 => Encai.sale + SumOf(s) = SumOf(ht)
  BY <1>6, <1>7, <1>8, <1>9, <1>10, <1>11
<1> QED
  BY <1>1, <1>2, <1>3, <1>12

-----------------------------------------------------------------------------
\* The entries of a day balance, its till's account tells its cash and its settlements
\* and its sales are booked once: for any tickets, payments, rates of tax, settlements
\* and invoices, of any amounts.
THEOREM LinesAreSound == LinesSpec => []LinesInv
<1>1. LinesIInv => LinesInv
  BY EntriesAreBalanced, TillExplained, SalesBooked DEF LinesIInv, LinesInv
<1> QED
  BY <1>1, InitLines, StepLines, PTL DEF LinesSpec

-----------------------------------------------------------------------------
(* Reports: sets and amounts.                                              *)

\* All that the reports search is finite.
LEMMA ReportSets ==
    /\ IsFiniteSet(Orders) /\ IsFiniteSet(Lines) /\ IsFiniteSet(Settled)
    /\ IsFiniteSet(Drawers) /\ IsFiniteSet(Dates)
    /\ \A U \in SUBSET Orders : IsFiniteSet(U)
    /\ \A U \in SUBSET Lines : IsFiniteSet(U)
    /\ \A U \in SUBSET Settled : IsFiniteSet(U)
    /\ \A U \in SUBSET Dates : IsFiniteSet(U)
    /\ \A U \in SUBSET Drawers : IsFiniteSet(U)
    /\ \A U : LinesOf(U) \subseteq Lines /\ PaysOf(U) \subseteq Settled
BY ReportsAssumption, FS_Subset DEF LinesOf, PaysOf

\* What is in the database has a type.
LEMMA ReportedType ==
    ASSUME ReportsTypeOK
    PROVE  /\ valid \subseteq Orders /\ billed \subseteq Bills
           /\ \A l \in Lines : /\ Ht[l] = line[l].ht /\ Tva[l] = line[l].tva
                               /\ line[l].ht \in Int /\ line[l].tva \in Int
                               /\ line[l].quantity \in Int
           /\ \A p \in Settled : settled[p] \in Int
           /\ \A s \in Drawers : /\ Start[s] = drawer[s].start /\ CashOut[s] = drawer[s].counted
                                 /\ Start[s] \in Int /\ CashOut[s] \in Int
BY DEF ReportsTypeOK, Ht, Tva, Start, CashOut

\* The orders of each report are orders, of their source and their day.
LEMMA OrdersOfReports ==
    ASSUME ReportsTypeOK, NEW D \in Periods
    PROVE  /\ TicketsOf(D) \subseteq Orders /\ CreditNotes(D) \subseteq Orders
           /\ Invoiced(D) \subseteq Orders
           /\ \A o \in TicketsOf(D) : Source[o] = "pos"
           /\ \A o \in CreditNotes(D) : Source[o] = "refund"
           /\ \A o \in Invoiced(D) : Source[o] = "sale" /\ o \in valid
BY ReportsAssumption DEF ReportsTypeOK, TicketsOf, CreditNotes, Invoiced

\* The turnover of an order is that of its lines.
LEMMA CaIs ==
    ASSUME ReportsTypeOK, NEW o \in Orders
    PROVE  CaHt[o] = SumFunctionOnSet(Ht, LinesOf({o})) /\ CaHt[o] \in Int
<1> DEFINE ttc == [l \in Lines |-> line[l].ht + line[l].tva]
           L == LinesOf({o})
<1>1. IsFiniteSet(L) /\ L \subseteq Lines
  BY ReportSets
<1>2. \A l \in L : ttc[l] \in Int /\ Tva[l] \in Int /\ Ht[l] \in Int /\ Ht[l] = ttc[l] - Tva[l]
  <2> TAKE l \in L
  <2>1. l \in Lines
    BY <1>1
  <2>2. ttc[l] = line[l].ht + line[l].tva
    BY <2>1
  <2>3. /\ line[l].ht \in Int /\ line[l].tva \in Int
        /\ Ht[l] = line[l].ht /\ Tva[l] = line[l].tva
    BY <2>1, ReportedType
  <2> QED
    BY <2>2, <2>3
<1>3. CaHt[o] = SumFunctionOnSet(ttc, L) - SumFunctionOnSet(Tva, L)
  BY DEF CaHt, AmountTotal, AmountTax
<1> HIDE DEF ttc, L
<1>4. SumFunctionOnSet(Ht, L) = SumFunctionOnSet(ttc, L) - SumFunctionOnSet(Tva, L)
  BY <1>1, <1>2, SumSubtract
<1>5. SumFunctionOnSet(Ht, L) \in Int
  BY <1>1, <1>2, SumType
<1> QED
  BY <1>3, <1>4, <1>5 DEF L

\* The turnover of some orders is that of their lines.
LEMMA CaOfOrders ==
    ASSUME ReportsTypeOK, NEW U \in SUBSET Orders
    PROVE  /\ SumFunctionOnSet(CaHt, U) = SumFunctionOnSet(Ht, LinesOf(U))
           /\ SumFunctionOnSet(CaHt, U) \in Int
<1> DEFINE X == LinesOf(U)
<1>1. IsFiniteSet(X) /\ IsFiniteSet(U) /\ X \subseteq Lines
  BY ReportSets
<1>2. Keyed(OrderOf, Ht, X, U)
  BY <1>1, ReportedType DEF Keyed, LinesOf
<1>3. ASSUME NEW o \in U
      PROVE  CaHt[o] = SumFunctionOnSet(Ht, {l \in X : OrderOf[l] = o})
  <2>1. {l \in X : OrderOf[l] = o} = LinesOf({o})
    BY DEF LinesOf
  <2> QED
    BY <2>1, CaIs
<1> HIDE DEF X
<1>4. SumsByKey(CaHt, OrderOf, Ht, X, U)
  BY <1>3 DEF SumsByKey
<1>5. SumFunctionOnSet(CaHt, U) = SumFunctionOnSet(Ht, X)
  BY <1>1, <1>2, <1>4, SumByKey
<1>6. \A o \in U : CaHt[o] \in Int
  BY CaIs
<1>7. SumFunctionOnSet(CaHt, U) \in Int
  BY <1>1, <1>6, SumType
<1> QED
  BY <1>5, <1>7 DEF X

-----------------------------------------------------------------------------
(* The days of a period.                                                   *)

\* The tickets of a period are those of its days.
LEMMA TicketsByDay ==
    ASSUME ReportsTypeOK, NEW D \in Periods,
           NEW f, \A d \in D : f[d] = SumFunctionOnSet(CaHt, TicketsOf({d}))
    PROVE  SumFunctionOnSet(f, D) = SumFunctionOnSet(CaHt, TicketsOf(D))
<1> DEFINE X == TicketsOf(D)
<1>1. IsFiniteSet(X) /\ IsFiniteSet(D) /\ X \subseteq Orders
  BY ReportSets, OrdersOfReports DEF Periods
<1>2. Keyed(OrderDate, CaHt, X, D)
  BY <1>1, CaIs DEF Keyed, TicketsOf
<1>3. ASSUME NEW d \in D
      PROVE  f[d] = SumFunctionOnSet(CaHt, {o \in X : OrderDate[o] = d})
  <2>1. {o \in X : OrderDate[o] = d} = TicketsOf({d})
    BY DEF TicketsOf
  <2> QED
    BY <2>1
<1> HIDE DEF X
<1>4. SumsByKey(f, OrderDate, CaHt, X, D)
  BY <1>3 DEF SumsByKey
<1> QED
  BY <1>1, <1>2, <1>4, SumByKey DEF X

\* So are its credit notes.
LEMMA CreditNotesByDay ==
    ASSUME ReportsTypeOK, NEW D \in Periods,
           NEW f, \A d \in D : f[d] = SumFunctionOnSet(CaHt, CreditNotes({d}))
    PROVE  SumFunctionOnSet(f, D) = SumFunctionOnSet(CaHt, CreditNotes(D))
<1> DEFINE X == CreditNotes(D)
<1>1. IsFiniteSet(X) /\ IsFiniteSet(D) /\ X \subseteq Orders
  BY ReportSets, OrdersOfReports DEF Periods
<1>2. Keyed(OrderDate, CaHt, X, D)
  BY <1>1, CaIs DEF Keyed, CreditNotes
<1>3. ASSUME NEW d \in D
      PROVE  f[d] = SumFunctionOnSet(CaHt, {o \in X : OrderDate[o] = d})
  <2>1. {o \in X : OrderDate[o] = d} = CreditNotes({d})
    BY DEF CreditNotes
  <2> QED
    BY <2>1
<1> HIDE DEF X
<1>4. SumsByKey(f, OrderDate, CaHt, X, D)
  BY <1>3 DEF SumsByKey
<1> QED
  BY <1>1, <1>2, <1>4, SumByKey DEF X

\* So are its sales, if none is invoiced on two of them.
LEMMA InvoicedByDay ==
    ASSUME ReportsTypeOK, NEW D \in Periods, BilledOnOneDay(D),
           NEW f, \A d \in D : f[d] = SumFunctionOnSet(CaHt, Invoiced({d}))
    PROVE  SumFunctionOnSet(f, D) = SumFunctionOnSet(CaHt, Invoiced(D))
<1> DEFINE X == Invoiced(D)
           key == [o \in X |-> CHOOSE d \in D : o \in Invoiced({d})]
<1>1. IsFiniteSet(X) /\ IsFiniteSet(D) /\ X \subseteq Orders
  BY ReportSets, OrdersOfReports DEF Periods
<1>2. ASSUME NEW o \in X PROVE key[o] \in D /\ o \in Invoiced({key[o]})
  <2>1. \E d \in D : o \in Invoiced({d})
    BY DEF Invoiced
  <2> QED
    BY <2>1
<1>3. ASSUME NEW o \in X, NEW d \in D, o \in Invoiced({d}) PROVE key[o] = d
  <2>1. PICK a \in billed : BilledOrder[a] = o /\ BillDate[a] = d
    BY <1>3 DEF Invoiced
  <2>2. PICK b \in billed : BilledOrder[b] = o /\ BillDate[b] = key[o]
    BY <1>2, <1>3 DEF Invoiced
  <2> HIDE DEF key
  <2> QED
    BY <1>2, <1>3, <2>1, <2>2 DEF BilledOnOneDay
<1>4. \A d \in D : Invoiced({d}) \subseteq X
  BY DEF Invoiced
<1> HIDE DEF X, key
<1>5. Keyed(key, CaHt, X, D)
  BY <1>1, <1>2, CaIs DEF Keyed
<1>6. ASSUME NEW d \in D
      PROVE  f[d] = SumFunctionOnSet(CaHt, {o \in X : key[o] = d})
  <2>1. {o \in X : key[o] = d} = Invoiced({d})
    BY <1>2, <1>3, <1>4
  <2> QED
    BY <2>1
<1>7. SumsByKey(f, key, CaHt, X, D)
  BY <1>6 DEF SumsByKey
<1> QED
  BY <1>1, <1>5, <1>7, SumByKey DEF X

\* What the sales and the tickets of a period count for in a report about a source.
SalesPart(D, type) == IF type # "pos" THEN SumFunctionOnSet(CaHt, Invoiced(D)) ELSE 0
TicketsPart(D, type) == IF type # "sale" THEN SumFunctionOnSet(CaHt, TicketsOf(D)) ELSE 0

\* Both are numbers.
LEMMA PartsType ==
    ASSUME ReportsTypeOK, NEW D \in Periods, NEW type
    PROVE  /\ SalesPart(D, type) \in Int /\ TicketsPart(D, type) \in Int
           /\ SumFunctionOnSet(CaHt, CreditNotes(D)) \in Int
BY OrdersOfReports, CaOfOrders DEF SalesPart, TicketsPart

\* The turnover of the days of a period.
LEMMA TotauxIs ==
    ASSUME ReportsTypeOK, NEW D \in Periods, NEW type, type = "pos" \/ BilledOnOneDay(D)
    PROVE  Totaux(D, type)
             = (SalesPart(D, type) + TicketsPart(D, type)) - SumFunctionOnSet(CaHt, CreditNotes(D))
<1> DEFINE a == [d \in Dates |-> SalesPart({d}, type)]
           b == [d \in Dates |-> TicketsPart({d}, type)]
           c == [d \in Dates |-> SumFunctionOnSet(CaHt, CreditNotes({d}))]
           e == [d \in Dates |-> SalesPart({d}, type) + TicketsPart({d}, type)]
           t == [d \in Dates |-> DailySales(d, type)]
<1>1. D \subseteq Dates /\ IsFiniteSet(D) /\ \A d \in D : {d} \in Periods
  BY ReportSets DEF Periods
<1>2. ASSUME NEW d \in D
      PROVE  /\ a[d] \in Int /\ b[d] \in Int /\ c[d] \in Int
             /\ e[d] = a[d] + b[d] /\ t[d] = e[d] - c[d]
  <2>1. /\ SalesPart({d}, type) \in Int /\ TicketsPart({d}, type) \in Int
        /\ SumFunctionOnSet(CaHt, CreditNotes({d})) \in Int
    BY <1>1, PartsType
  <2>2. DailySales(d, type) = SalesPart({d}, type) + TicketsPart({d}, type)
                                - SumFunctionOnSet(CaHt, CreditNotes({d}))
    BY DEF DailySales, SalesPart, TicketsPart
  <2> QED
    BY <1>1, <2>1, <2>2
<1>3. SumFunctionOnSet(a, D) = SalesPart(D, type)
  <2>1. CASE type # "pos"
    <3>1. \A d \in D : a[d] = SumFunctionOnSet(CaHt, Invoiced({d}))
      BY <1>1, <2>1 DEF SalesPart
    <3> HIDE DEF a
    <3> QED
      BY <2>1, <3>1, InvoicedByDay DEF SalesPart
  <2>2. CASE type = "pos"
    <3>1. \A d \in D : a[d] = 0
      BY <1>1, <2>2 DEF SalesPart
    <3> HIDE DEF a
    <3> QED
      BY <1>1, <2>2, <3>1, SumZero DEF SalesPart
  <2> QED
    BY <2>1, <2>2
<1>4. SumFunctionOnSet(b, D) = TicketsPart(D, type)
  <2>1. CASE type # "sale"
    <3>1. \A d \in D : b[d] = SumFunctionOnSet(CaHt, TicketsOf({d}))
      BY <1>1, <2>1 DEF TicketsPart
    <3> HIDE DEF b
    <3> QED
      BY <2>1, <3>1, TicketsByDay DEF TicketsPart
  <2>2. CASE type = "sale"
    <3>1. \A d \in D : b[d] = 0
      BY <1>1, <2>2 DEF TicketsPart
    <3> HIDE DEF b
    <3> QED
      BY <1>1, <2>2, <3>1, SumZero DEF TicketsPart
  <2> QED
    BY <2>1, <2>2
<1>5. SumFunctionOnSet(c, D) = SumFunctionOnSet(CaHt, CreditNotes(D))
  <2>1. \A d \in D : c[d] = SumFunctionOnSet(CaHt, CreditNotes({d}))
    BY <1>1
  <2> HIDE DEF c
  <2> QED
    BY <2>1, CreditNotesByDay
<1>6. Totaux(D, type) = SumFunctionOnSet(t, D)
  BY DEF Totaux
<1> HIDE DEF a, b, c, e, t
<1>7. SumFunctionOnSet(e, D) = SumFunctionOnSet(a, D) + SumFunctionOnSet(b, D)
  BY <1>1, <1>2, SumAdd
<1>8. \A d \in D : e[d] \in Int /\ c[d] \in Int /\ t[d] = e[d] - c[d]
  BY <1>2
<1>9. SumFunctionOnSet(t, D) = SumFunctionOnSet(e, D) - SumFunctionOnSet(c, D)
  BY <1>1, <1>8, SumSubtract
<1> QED
  BY <1>3, <1>4, <1>5, <1>6, <1>7, <1>9

-----------------------------------------------------------------------------
(* The statistics.                                                         *)

\* The orders that are fetched, credit notes deducted, come to the sales and the tickets
\* without the credit notes.
LEMMA FetchedIs ==
    ASSUME ReportsTypeOK, NEW D \in Periods, NEW type
    PROVE  /\ FetchOrders(D, type) \subseteq Orders
           /\ SumFunctionOnSet(SignedCa, FetchOrders(D, type))
                = (SalesPart(D, type) + TicketsPart(D, type)) - SumFunctionOnSet(CaHt, CreditNotes(D))
<1> DEFINE T == IF type # "sale" THEN TicketsOf(D) ELSE {}
           I == IF type # "pos" THEN Invoiced(D) ELSE {}
           C == CreditNotes(D)
           TI == T \union I
<1>1. /\ T \subseteq Orders /\ I \subseteq Orders /\ C \subseteq Orders
      /\ \A o \in T : Source[o] = "pos"
      /\ \A o \in I : Source[o] = "sale"
      /\ \A o \in C : Source[o] = "refund"
  BY OrdersOfReports
<1>2. FetchOrders(D, type) = TI \union C
  BY DEF FetchOrders
<1>3. /\ \A o \in T : CaHt[o] \in Int /\ SignedCa[o] = CaHt[o]
      /\ \A o \in I : CaHt[o] \in Int /\ SignedCa[o] = CaHt[o]
      /\ \A o \in C : CaHt[o] \in Int /\ SignedCa[o] = -CaHt[o]
  BY <1>1, CaIs DEF SignedCa
<1>4. SumFunctionOnSet(CaHt, I) = SalesPart(D, type) /\ SumFunctionOnSet(CaHt, T) = TicketsPart(D, type)
  BY SumEmpty DEF SalesPart, TicketsPart
<1>5. T \intersect I = {} /\ TI \intersect C = {} /\ TI \subseteq Orders
  BY <1>1
<1> HIDE DEF T, I, C
<1>6. IsFiniteSet(T) /\ IsFiniteSet(I) /\ IsFiniteSet(C) /\ IsFiniteSet(TI)
  BY <1>1, <1>5, ReportSets
<1>7. /\ SumFunctionOnSet(SignedCa, T) = SumFunctionOnSet(CaHt, T)
      /\ SumFunctionOnSet(SignedCa, I) = SumFunctionOnSet(CaHt, I)
  BY <1>3, <1>6, SumSame
<1>8. SumFunctionOnSet(SignedCa, C) = -SumFunctionOnSet(CaHt, C)
  BY <1>3, <1>6, SumNegate
<1>9. /\ \A o \in T \union I : SignedCa[o] \in Int
      /\ \A o \in TI \union C : SignedCa[o] \in Int
  BY <1>3
<1>10. SumFunctionOnSet(SignedCa, TI) = SumFunctionOnSet(SignedCa, T) + SumFunctionOnSet(SignedCa, I)
  BY <1>5, <1>6, <1>9, SumUnion
<1> HIDE DEF TI
<1>11. SumFunctionOnSet(SignedCa, TI \union C)
         = SumFunctionOnSet(SignedCa, TI) + SumFunctionOnSet(SignedCa, C)
  BY <1>5, <1>6, <1>9, SumUnion
<1>12. PICK t, i, c : /\ t = SumFunctionOnSet(CaHt, T) /\ i = SumFunctionOnSet(CaHt, I)
                      /\ c = SumFunctionOnSet(CaHt, C)
  OBVIOUS
<1>13. t \in Int /\ i \in Int /\ c \in Int
  BY <1>4, <1>12, PartsType DEF C
<1>14. (t + i) + (-c) = (i + t) - c
  BY <1>13
<1>15. SumFunctionOnSet(SignedCa, TI \union C) = (i + t) - c
  BY <1>7, <1>8, <1>10, <1>11, <1>12, <1>14
<1>16. i = SalesPart(D, type) /\ t = TicketsPart(D, type) /\ c = SumFunctionOnSet(CaHt, CreditNotes(D))
  BY <1>4, <1>12 DEF C
<1>17. FetchOrders(D, type) \subseteq Orders
  BY <1>1, <1>2, <1>5
<1> QED
  BY <1>2, <1>15, <1>16, <1>17

\* The amounts of the lines of an order, with its sign, come to its own.
LEMMA SignedIs ==
    ASSUME ReportsTypeOK, NEW o \in Orders
    PROVE  SignedCa[o] = SumFunctionOnSet(SignedHt, LinesOf({o})) /\ SignedCa[o] \in Int
<1> DEFINE L == LinesOf({o})
<1>1. IsFiniteSet(L) /\ L \subseteq Lines /\ \A l \in L : OrderOf[l] = o
  BY ReportSets DEF LinesOf
<1>2. CaHt[o] = SumFunctionOnSet(Ht, L) /\ CaHt[o] \in Int
  BY CaIs
<1>3. \A l \in L : Ht[l] \in Int
  BY <1>1, ReportedType
<1>4. CASE Source[o] = "refund"
  <2>1. \A l \in L : Ht[l] \in Int /\ SignedHt[l] = -Ht[l]
    BY <1>1, <1>3, <1>4 DEF SignedHt
  <2>2. SignedCa[o] = -CaHt[o]
    BY <1>4 DEF SignedCa
  <2> HIDE DEF L
  <2>3. SumFunctionOnSet(SignedHt, L) = -SumFunctionOnSet(Ht, L)
    BY <1>1, <2>1, SumNegate
  <2> QED
    BY <1>2, <2>2, <2>3 DEF L
<1>5. CASE Source[o] # "refund"
  <2>1. \A l \in L : SignedHt[l] = Ht[l]
    BY <1>1, <1>5 DEF SignedHt
  <2>2. SignedCa[o] = CaHt[o]
    BY <1>5 DEF SignedCa
  <2> HIDE DEF L
  <2>3. SumFunctionOnSet(SignedHt, L) = SumFunctionOnSet(Ht, L)
    BY <1>1, <2>1, SumSame
  <2> QED
    BY <1>2, <2>2, <2>3 DEF L
<1> QED
  BY <1>4, <1>5

\* By client.
LEMMA ByCustomerIs ==
    ASSUME ReportsTypeOK, NEW D \in Periods, NEW type
    PROVE  SumOver(ByCustomer(D, type)) = SumFunctionOnSet(SignedCa, FetchOrders(D, type))
<1> DEFINE X == FetchOrders(D, type)
           g == ByCustomer(D, type)
<1>1. X \subseteq Orders /\ IsFiniteSet(X) /\ IsFiniteSet(Buyers)
  BY FetchedIs, ReportSets, ReportsAssumption
<1>2. Keyed(Buyer, SignedCa, X, Buyers)
  BY <1>1, SignedIs, ReportsAssumption DEF Keyed
<1>3. SumsByKey(g, Buyer, SignedCa, X, Buyers) /\ DOMAIN g = Buyers
  BY DEF SumsByKey, ByCustomer
<1> HIDE DEF X, g
<1>4. SumFunctionOnSet(g, Buyers) = SumFunctionOnSet(SignedCa, X)
  BY <1>1, <1>2, <1>3, SumByKey
<1> QED
  BY <1>3, <1>4 DEF SumOver, X, g

\* By product.
LEMMA ByProductIs ==
    ASSUME ReportsTypeOK, NEW D \in Periods, NEW type
    PROVE  SumOver(ByProduct(D, type)) = SumFunctionOnSet(SignedCa, FetchOrders(D, type))
<1> DEFINE F == FetchOrders(D, type)
           X == LinesOf(F)
           g == ByProduct(D, type)
<1>1. /\ F \subseteq Orders /\ IsFiniteSet(F) /\ X \subseteq Lines /\ IsFiniteSet(X)
      /\ IsFiniteSet(Articles) /\ \A l \in X : OrderOf[l] \in F
  BY FetchedIs, ReportSets, ReportsAssumption DEF LinesOf
<1>2. \A l \in X : SignedHt[l] \in Int /\ Article[l] \in Articles
  <2> TAKE l \in X
  <2>1. l \in Lines /\ Ht[l] \in Int /\ Article[l] \in Articles
    BY <1>1, ReportedType, ReportsAssumption
  <2> QED
    BY <2>1 DEF SignedHt
<1>3. Keyed(Article, SignedHt, X, Articles) /\ Keyed(OrderOf, SignedHt, X, F)
  BY <1>1, <1>2 DEF Keyed
<1>4. SumsByKey(g, Article, SignedHt, X, Articles) /\ DOMAIN g = Articles
  BY DEF SumsByKey, ByProduct
<1>5. SumsByKey(SignedCa, OrderOf, SignedHt, X, F)
  <2>1. ASSUME NEW o \in F
        PROVE  SignedCa[o] = SumFunctionOnSet(SignedHt, {l \in X : OrderOf[l] = o})
    <3>1. {l \in X : OrderOf[l] = o} = LinesOf({o})
      BY DEF LinesOf
    <3> QED
      BY <1>1, <3>1, SignedIs
  <2> QED
    BY <2>1 DEF SumsByKey
<1> HIDE DEF F, X, g
<1>6. SumFunctionOnSet(g, Articles) = SumFunctionOnSet(SignedHt, X)
  BY <1>1, <1>3, <1>4, SumByKey
<1>7. SumFunctionOnSet(SignedCa, F) = SumFunctionOnSet(SignedHt, X)
  BY <1>1, <1>3, <1>5, SumByKey
<1> QED
  BY <1>4, <1>6, <1>7 DEF SumOver, F, g

\* Of a set that has at most one element, each has.
LEMMA AtMostOne ==
    ASSUME NEW S, IsFiniteSet(S), Cardinality(S) <= 1, NEW x \in S, NEW y \in S
    PROVE  x = y
<1>1. SUFFICES ASSUME x # y PROVE FALSE
  OBVIOUS
<1>2. /\ IsFiniteSet(S \ {x}) /\ Cardinality(S \ {x}) = Cardinality(S) - 1
      /\ Cardinality(S) \in Nat
  BY FS_RemoveElement, FS_CardinalityType
<1>3. Cardinality(S \ {x}) \in Nat
  BY <1>2, FS_CardinalityType
<1>4. Cardinality(S \ {x}) = 0
  BY <1>2, <1>3
<1>5. S \ {x} = {}
  BY <1>2, <1>4, FS_EmptySet
<1> QED
  BY <1>1, <1>5

\* By category of clients, if no client has two.
LEMMA ByCategoryIs ==
    ASSUME ReportsTypeOK, NEW D \in Periods, NEW type,
           \A o \in FetchOrders(D, type) : Cardinality(LabelsOf[Buyer[o]]) <= 1
    PROVE  SumOver(ByCustomerCategory(D, type)) = SumFunctionOnSet(SignedCa, FetchOrders(D, type))
<1> DEFINE X == FetchOrders(D, type)
           K == Labels \union {NoCat}
           g == ByCustomerCategory(D, type)
           key == [o \in X |-> CHOOSE h : h \in LabelsIn(Buyer[o])]
<1>1. X \subseteq Orders /\ IsFiniteSet(X) /\ IsFiniteSet(K)
  BY FetchedIs, ReportSets, ReportsAssumption, FS_Union, FS_Singleton
<1>2. ASSUME NEW o \in X
      PROVE  /\ LabelsIn(Buyer[o]) \subseteq K /\ LabelsIn(Buyer[o]) # {}
             /\ \A h, k \in LabelsIn(Buyer[o]) : h = k
  <2>1. LabelsOf[Buyer[o]] \subseteq Labels
    BY <1>1, ReportsAssumption
  <2>2. IsFiniteSet(LabelsOf[Buyer[o]]) /\ Cardinality(LabelsOf[Buyer[o]]) <= 1
    BY <2>1, FS_Subset, ReportsAssumption
  <2>3. \A h, k \in LabelsOf[Buyer[o]] : h = k
    BY <2>2, AtMostOne
  <2>4. CASE LabelsOf[Buyer[o]] = {}
    BY <2>4 DEF LabelsIn
  <2>5. CASE LabelsOf[Buyer[o]] # {}
    BY <2>1, <2>3, <2>5 DEF LabelsIn
  <2> QED
    BY <2>4, <2>5
<1>3. ASSUME NEW o \in X
      PROVE  key[o] \in K /\ \A h : h \in LabelsIn(Buyer[o]) <=> key[o] = h
  <2>1. key[o] \in LabelsIn(Buyer[o])
    <3>1. \E h : h \in LabelsIn(Buyer[o])
      BY <1>2
    <3> QED
      BY <3>1
  <2> HIDE DEF key
  <2> QED
    BY <1>2, <2>1
<1>4. DOMAIN g = K
  BY DEF ByCustomerCategory
<1>5. ASSUME NEW h \in K
      PROVE  g[h] = SumFunctionOnSet(SignedCa, {o \in X : key[o] = h})
  <2>1. g[h] = SumFunctionOnSet(SignedCa, {o \in X : h \in LabelsIn(Buyer[o])})
    BY DEF ByCustomerCategory
  <2> HIDE DEF key, X, g
  <2>2. {o \in X : h \in LabelsIn(Buyer[o])} = {o \in X : key[o] = h}
    BY <1>3
  <2> QED
    BY <2>1, <2>2
<1> HIDE DEF X, K, g, key
<1>6. Keyed(key, SignedCa, X, K)
  BY <1>1, <1>3, SignedIs DEF Keyed
<1>7. SumsByKey(g, key, SignedCa, X, K)
  BY <1>5 DEF SumsByKey
<1>8. SumFunctionOnSet(g, K) = SumFunctionOnSet(SignedCa, X)
  BY <1>1, <1>6, <1>7, SumByKey
<1> QED
  BY <1>4, <1>8 DEF SumOver, X, g

\* The statistics agree with the days, by client, by product and by category.
LEMMA StatisticsHold == ASSUME ReportsTypeOK PROVE StatisticsAgree
<1> SUFFICES ASSUME NEW D \in Periods, NEW type \in Reported
             PROVE  /\ SumOver(ByCustomer(D, type)) = SumOver(ByProduct(D, type))
                    /\ (\A o \in FetchOrders(D, type) : Cardinality(LabelsOf[Buyer[o]]) <= 1)
                         => SumOver(ByCustomerCategory(D, type)) = SumOver(ByCustomer(D, type))
                    /\ BilledOnOneDay(D) => SumOver(ByCustomer(D, type)) = Totaux(D, type)
  BY DEF StatisticsAgree
<1>1. SumOver(ByCustomer(D, type)) = SumOver(ByProduct(D, type))
  BY ByCustomerIs, ByProductIs
<1>2. (\A o \in FetchOrders(D, type) : Cardinality(LabelsOf[Buyer[o]]) <= 1)
        => SumOver(ByCustomerCategory(D, type)) = SumOver(ByCustomer(D, type))
  BY ByCustomerIs, ByCategoryIs
<1>3. BilledOnOneDay(D) => SumOver(ByCustomer(D, type)) = Totaux(D, type)
  BY ByCustomerIs, FetchedIs, TotauxIs
<1> QED
  BY <1>1, <1>2, <1>3

-----------------------------------------------------------------------------
(* The detailed report.                                                    *)

\* The lines of tickets are those of the tickets of the days, and each counts for what it is
\* if it has the sign of its quantity.
LEMMA DetailOfTickets ==
    ASSUME ReportsTypeOK, NEW D \in Periods,
           \A l \in Detailed(D, "pos") : line[l].quantity < 0 <=> line[l].ht < 0
    PROVE  DetailedTotal(D, "pos") = Totaux(D, "pos") + SumFunctionOnSet(CaHt, CreditNotes(D))
<1> DEFINE X == Detailed(D, "pos")
           f == [l \in Lines |-> MtHtSigne(l)]
<1>1. X = LinesOf(TicketsOf(D))
  BY DEF Detailed, LinesOf, TicketsOf
<1>2. IsFiniteSet(X) /\ X \subseteq Lines /\ TicketsOf(D) \subseteq Orders
  BY <1>1, ReportSets, OrdersOfReports
<1>3. ASSUME NEW l \in X PROVE f[l] = Ht[l]
  <2>1. /\ l \in Lines /\ Source[OrderOf[l]] = "pos" /\ Ht[l] = line[l].ht
        /\ line[l].ht \in Int /\ line[l].quantity \in Int
    BY <1>2, ReportedType DEF Detailed
  <2>2. f[l] = MtHtSigne(l)
    BY <2>1
  <2>3. line[l].quantity < 0 <=> line[l].ht < 0
    OBVIOUS
  <2>4. CASE line[l].ht < 0
    <3>1. MtHtSigne(l) = -(-line[l].ht)
      BY <2>1, <2>3, <2>4 DEF MtHtSigne
    <3> QED
      BY <2>1, <2>2, <3>1
  <2>5. CASE ~(line[l].ht < 0)
    <3>1. MtHtSigne(l) = line[l].ht
      BY <2>1, <2>3, <2>5 DEF MtHtSigne
    <3> QED
      BY <2>1, <2>2, <3>1
  <2> QED
    BY <2>4, <2>5
<1>4. DetailedTotal(D, "pos") = SumFunctionOnSet(f, X)
  BY DEF DetailedTotal
<1> HIDE DEF X, f
<1>5. SumFunctionOnSet(f, X) = SumFunctionOnSet(Ht, X)
  BY <1>2, <1>3, SumSame
<1>6. SumFunctionOnSet(Ht, X) = SumFunctionOnSet(CaHt, TicketsOf(D))
  BY <1>1, <1>2, CaOfOrders
<1>7. SalesPart(D, "pos") = 0 /\ TicketsPart(D, "pos") = SumFunctionOnSet(CaHt, TicketsOf(D))
  BY DEF SalesPart, TicketsPart
<1>8. Totaux(D, "pos") = (0 + TicketsPart(D, "pos")) - SumFunctionOnSet(CaHt, CreditNotes(D))
  BY <1>7, TotauxIs
<1>9. TicketsPart(D, "pos") \in Int /\ SumFunctionOnSet(CaHt, CreditNotes(D)) \in Int
  BY PartsType
<1>10. PICK t, c : t = TicketsPart(D, "pos") /\ c = SumFunctionOnSet(CaHt, CreditNotes(D))
  OBVIOUS
<1>11. ((0 + t) - c) + c = t
  BY <1>9, <1>10
<1> QED
  BY <1>4, <1>5, <1>6, <1>7, <1>8, <1>10, <1>11

\* The lines of sales are those of the sales of the days, if each is invoiced on the day
\* it is dated, and each counts for what it is if no goods come back.
LEMMA DetailOfSales ==
    ASSUME ReportsTypeOK, NEW D \in Periods, BilledOnOneDay(D),
           Invoiced(D) = {o \in valid : Source[o] = "sale" /\ OrderDate[o] \in D},
           \A l \in Detailed(D, "sale") : line[l].quantity >= 0
    PROVE  DetailedTotal(D, "sale") = Totaux(D, "sale") + SumFunctionOnSet(CaHt, CreditNotes(D))
<1> DEFINE X == Detailed(D, "sale")
           f == [l \in Lines |-> MtHtSigne(l)]
<1>1. X = LinesOf(Invoiced(D))
  BY DEF Detailed, LinesOf
<1>2. IsFiniteSet(X) /\ X \subseteq Lines /\ Invoiced(D) \subseteq Orders
  BY <1>1, ReportSets, OrdersOfReports
<1>3. ASSUME NEW l \in X PROVE f[l] = Ht[l]
  <2>1. /\ l \in Lines /\ Source[OrderOf[l]] = "sale" /\ Ht[l] = line[l].ht
        /\ line[l].ht \in Int /\ line[l].quantity \in Int
    BY <1>2, ReportedType DEF Detailed
  <2>2. f[l] = MtHtSigne(l)
    BY <2>1
  <2>3. ~(line[l].quantity < 0)
    BY <2>1
  <2>4. MtHtSigne(l) = line[l].ht
    BY <2>1, <2>3 DEF MtHtSigne
  <2> QED
    BY <2>1, <2>2, <2>4
<1>4. DetailedTotal(D, "sale") = SumFunctionOnSet(f, X)
  BY DEF DetailedTotal
<1> HIDE DEF X, f
<1>5. SumFunctionOnSet(f, X) = SumFunctionOnSet(Ht, X)
  BY <1>2, <1>3, SumSame
<1>6. SumFunctionOnSet(Ht, X) = SumFunctionOnSet(CaHt, Invoiced(D))
  BY <1>1, <1>2, CaOfOrders
<1>7. TicketsPart(D, "sale") = 0 /\ SalesPart(D, "sale") = SumFunctionOnSet(CaHt, Invoiced(D))
  BY DEF SalesPart, TicketsPart
<1>8. Totaux(D, "sale") = (SalesPart(D, "sale") + 0) - SumFunctionOnSet(CaHt, CreditNotes(D))
  BY <1>7, TotauxIs
<1>9. SalesPart(D, "sale") \in Int /\ SumFunctionOnSet(CaHt, CreditNotes(D)) \in Int
  BY PartsType
<1>10. PICK t, c : t = SalesPart(D, "sale") /\ c = SumFunctionOnSet(CaHt, CreditNotes(D))
  OBVIOUS
<1>11. ((t + 0) - c) + c = t
  BY <1>9, <1>10
<1> QED
  BY <1>4, <1>5, <1>6, <1>7, <1>8, <1>10, <1>11

\* So the detailed report agrees with the days.
LEMMA DetailHolds == ASSUME ReportsTypeOK PROVE DetailAgrees
BY DetailOfTickets, DetailOfSales DEF DetailAgrees

-----------------------------------------------------------------------------
(* Amounts by cashier and by session.                                      *)

\* The sum of five numbers.
Five(a, b, c, d, e) == a + b + c + d + e

\* The sum of five functions is the sum of their sums.
LEMMA SumFive ==
    ASSUME NEW a, NEW b, NEW c, NEW d, NEW e, NEW h, NEW S, IsFiniteSet(S),
           \A x \in S : /\ a[x] \in Int /\ b[x] \in Int /\ c[x] \in Int /\ d[x] \in Int /\ e[x] \in Int
                        /\ h[x] = Five(a[x], b[x], c[x], d[x], e[x])
    PROVE  SumFunctionOnSet(h, S)
             = Five(SumFunctionOnSet(a, S), SumFunctionOnSet(b, S), SumFunctionOnSet(c, S),
                    SumFunctionOnSet(d, S), SumFunctionOnSet(e, S))
<1> DEFINE two   == [x \in S |-> a[x] + b[x]]
           three == [x \in S |-> (a[x] + b[x]) + c[x]]
           four  == [x \in S |-> ((a[x] + b[x]) + c[x]) + d[x]]
<1>1. \A x \in S : /\ two[x] = a[x] + b[x] /\ three[x] = two[x] + c[x]
                   /\ four[x] = three[x] + d[x]
  OBVIOUS
<1>2. \A x \in S : h[x] = four[x] + e[x]
  BY DEF Five
<1> HIDE DEF two, three, four
<1>3. \A x \in S : a[x] \in Int /\ b[x] \in Int /\ two[x] = a[x] + b[x]
  BY <1>1
<1>4. \A x \in S : two[x] \in Int /\ c[x] \in Int /\ three[x] = two[x] + c[x]
  BY <1>1, <1>3
<1>5. \A x \in S : three[x] \in Int /\ d[x] \in Int /\ four[x] = three[x] + d[x]
  BY <1>1, <1>4
<1>6. \A x \in S : four[x] \in Int /\ e[x] \in Int /\ h[x] = four[x] + e[x]
  BY <1>2, <1>5
<1>7. SumFunctionOnSet(two, S) = SumFunctionOnSet(a, S) + SumFunctionOnSet(b, S)
  BY <1>3, SumAdd
<1>8. SumFunctionOnSet(three, S) = SumFunctionOnSet(two, S) + SumFunctionOnSet(c, S)
  BY <1>4, SumAdd
<1>9. SumFunctionOnSet(four, S) = SumFunctionOnSet(three, S) + SumFunctionOnSet(d, S)
  BY <1>5, SumAdd
<1>10. SumFunctionOnSet(h, S) = SumFunctionOnSet(four, S) + SumFunctionOnSet(e, S)
  BY <1>6, SumAdd
<1> QED
  BY <1>7, <1>8, <1>9, <1>10 DEF Five

\* Each of some orders has a key in a finite set.
OrdersKeyed(key, T, K) ==
    T \in SUBSET Orders /\ IsFiniteSet(K) /\ \A o \in T : key[o] \in K

\* Those with a key.
OrdersWith(key, T, k) == {o \in T : key[o] = k}

\* The turnover of some orders, key by key.
LEMMA CaByKey ==
    ASSUME ReportsTypeOK, NEW T, NEW K, NEW key, OrdersKeyed(key, T, K),
           NEW f, \A k \in K : f[k] = OrderCa(OrdersWith(key, T, k))
    PROVE  SumFunctionOnSet(f, K) = OrderCa(T)
<1> DEFINE X == Counted(T)
           kl == [l \in Lines |-> key[OrderOf[l]]]
<1>1. IsFiniteSet(X) /\ X \subseteq Lines /\ IsFiniteSet(K) /\ \A l \in X : OrderOf[l] \in T
  BY ReportSets DEF Counted, LinesOf, OrdersKeyed
<1>2. \A l \in X : Ht[l] \in Int /\ kl[l] = key[OrderOf[l]] /\ kl[l] \in K
  BY <1>1, ReportedType DEF OrdersKeyed
<1>3. ASSUME NEW k \in K PROVE f[k] = SumFunctionOnSet(Ht, {l \in X : kl[l] = k})
  <2>1. Counted(OrdersWith(key, T, k)) = {l \in X : key[OrderOf[l]] = k}
    BY DEF Counted, LinesOf, OrdersWith
  <2>2. {l \in X : key[OrderOf[l]] = k} = {l \in X : kl[l] = k}
    BY <1>2
  <2>3. f[k] = SumFunctionOnSet(Ht, Counted(OrdersWith(key, T, k)))
    BY DEF OrderCa
  <2> QED
    BY <2>1, <2>2, <2>3
<1> HIDE DEF X, kl
<1>4. Keyed(kl, Ht, X, K)
  BY <1>2 DEF Keyed
<1>5. SumsByKey(f, kl, Ht, X, K)
  BY <1>3 DEF SumsByKey
<1>6. SumFunctionOnSet(f, K) = SumFunctionOnSet(Ht, X)
  BY <1>1, <1>4, <1>5, SumByKey
<1> QED
  BY <1>6 DEF OrderCa, X

\* What is paid for them with a mark, key by key.
LEMMA PaidByKey ==
    ASSUME ReportsTypeOK, NEW T, NEW K, NEW key, OrdersKeyed(key, T, K), NEW mark,
           NEW f, \A k \in K : f[k] = PmtTotal(PaysOf(OrdersWith(key, T, k)), mark)
    PROVE  SumFunctionOnSet(f, K) = PmtTotal(PaysOf(T), mark)
<1> DEFINE X == {p \in PaysOf(T) : mark \in Flags[p]}
           kp == [p \in Settled |-> key[SettledOrder[p]]]
<1>1. IsFiniteSet(X) /\ X \subseteq Settled /\ IsFiniteSet(K) /\ \A p \in X : SettledOrder[p] \in T
  BY ReportSets DEF PaysOf, OrdersKeyed
<1>2. \A p \in X : settled[p] \in Int /\ kp[p] = key[SettledOrder[p]] /\ kp[p] \in K
  BY <1>1, ReportedType DEF OrdersKeyed
<1>3. ASSUME NEW k \in K PROVE f[k] = SumFunctionOnSet(settled, {p \in X : kp[p] = k})
  <2>1. {p \in PaysOf(OrdersWith(key, T, k)) : mark \in Flags[p]} = {p \in X : key[SettledOrder[p]] = k}
    BY DEF PaysOf, OrdersWith
  <2>2. {p \in X : key[SettledOrder[p]] = k} = {p \in X : kp[p] = k}
    BY <1>2
  <2>3. f[k] = SumFunctionOnSet(settled, {p \in PaysOf(OrdersWith(key, T, k)) : mark \in Flags[p]})
    BY DEF PmtTotal
  <2> QED
    BY <2>1, <2>2, <2>3
<1>4. PmtTotal(PaysOf(T), mark) = SumFunctionOnSet(settled, X)
  BY DEF PmtTotal
<1> HIDE DEF X, kp
<1>5. Keyed(kp, settled, X, K)
  BY <1>2 DEF Keyed
<1>6. SumsByKey(f, kp, settled, X, K)
  BY <1>3 DEF SumsByKey
<1>7. SumFunctionOnSet(f, K) = SumFunctionOnSet(settled, X)
  BY <1>1, <1>5, <1>6, SumByKey
<1> QED
  BY <1>4, <1>7

\* Payments come to numbers.
LEMMA PaidType ==
    ASSUME ReportsTypeOK, NEW T
    PROVE  /\ \A mark : PmtTotal(PaysOf(T), mark) \in Int
           /\ Avoir(PaysOf(T)) \in Int
<1>1. PaysOf(T) \subseteq Settled /\ \A p \in PaysOf(T) : settled[p] \in Int
  BY ReportSets, ReportedType
<1>2. ASSUME NEW Q \in SUBSET PaysOf(T) PROVE SumFunctionOnSet(settled, Q) \in Int
  <2>1. IsFiniteSet(Q) /\ \A p \in Q : settled[p] \in Int
    BY <1>1, ReportSets
  <2> QED
    BY <2>1, SumType
<1>3. \A mark : {p \in PaysOf(T) : mark \in Flags[p]} \in SUBSET PaysOf(T)
  OBVIOUS
<1>4. {p \in PaysOf(T) : "loyalty" \in Flags[p] \/ "food" \in Flags[p]} \in SUBSET PaysOf(T)
  OBVIOUS
<1> QED
  BY <1>2, <1>3, <1>4 DEF PmtTotal, Avoir

\* The payments in cash, with cheques, cards and vouchers and on account.
General(P) ==
    Five(PmtTotal(P, "cash"), PmtTotal(P, "cheque"), PmtTotal(P, "card"), PmtTotal(P, "voucher"),
         PmtTotal(P, "limit"))

\* They add up key by key.
LEMMA GeneralByKey ==
    ASSUME ReportsTypeOK, NEW T, NEW K, NEW key, OrdersKeyed(key, T, K),
           NEW f, \A k \in K : f[k] = General(PaysOf(OrdersWith(key, T, k)))
    PROVE  SumFunctionOnSet(f, K) = General(PaysOf(T))
<1> DEFINE P(k) == PaysOf(OrdersWith(key, T, k))
           a == [k \in K |-> PmtTotal(P(k), "cash")]
           b == [k \in K |-> PmtTotal(P(k), "cheque")]
           c == [k \in K |-> PmtTotal(P(k), "card")]
           d == [k \in K |-> PmtTotal(P(k), "voucher")]
           e == [k \in K |-> PmtTotal(P(k), "limit")]
<1>1. \A k \in K : /\ a[k] = PmtTotal(P(k), "cash") /\ b[k] = PmtTotal(P(k), "cheque")
                   /\ c[k] = PmtTotal(P(k), "card") /\ d[k] = PmtTotal(P(k), "voucher")
                   /\ e[k] = PmtTotal(P(k), "limit")
  OBVIOUS
<1>2. \A k \in K : /\ a[k] \in Int /\ b[k] \in Int /\ c[k] \in Int /\ d[k] \in Int /\ e[k] \in Int
                   /\ f[k] = Five(a[k], b[k], c[k], d[k], e[k])
  BY <1>1, PaidType DEF General
<1> HIDE DEF a, b, c, d, e
<1>3. IsFiniteSet(K)
  BY DEF OrdersKeyed
<1>4. SumFunctionOnSet(f, K)
        = Five(SumFunctionOnSet(a, K), SumFunctionOnSet(b, K), SumFunctionOnSet(c, K),
               SumFunctionOnSet(d, K), SumFunctionOnSet(e, K))
  BY <1>2, <1>3, SumFive
<1>5. SumFunctionOnSet(a, K) = PmtTotal(PaysOf(T), "cash")
  BY <1>1, PaidByKey
<1>6. SumFunctionOnSet(b, K) = PmtTotal(PaysOf(T), "cheque")
  BY <1>1, PaidByKey
<1>7. SumFunctionOnSet(c, K) = PmtTotal(PaysOf(T), "card")
  BY <1>1, PaidByKey
<1>8. SumFunctionOnSet(d, K) = PmtTotal(PaysOf(T), "voucher")
  BY <1>1, PaidByKey
<1>9. SumFunctionOnSet(e, K) = PmtTotal(PaysOf(T), "limit")
  BY <1>1, PaidByKey
<1> QED
  BY <1>4, <1>5, <1>6, <1>7, <1>8, <1>9 DEF General

\* What the recapitulation and the closing of a session show.
LEMMA RecapIs ==
    ASSUME ReportsTypeOK, NEW D, NEW C, NEW T, T = RecapOrders(D, C)
    PROVE  /\ Recap(D, C).comptant = OrderCa(T \ EnCompte(T))
           /\ Recap(D, C).en_compte = OrderCa(EnCompte(T))
           /\ Recap(D, C).fdc_init = SumFunctionOnSet(Start, RecapSessions(D, C))
           /\ Recap(D, C).especes = PmtTotal(PaysOf(T), "cash")
           /\ Recap(D, C).ecart = SumFunctionOnSet(CashOut, RecapSessions(D, C)) - PmtTotal(PaysOf(T), "cash")
           /\ Recap(D, C).general = General(PaysOf(T))
<1>1. /\ Recap(D, C).comptant = OrderCa(T \ EnCompte(T))
      /\ Recap(D, C).en_compte = OrderCa(EnCompte(T))
      /\ Recap(D, C).fdc_init = SumFunctionOnSet(Start, RecapSessions(D, C))
      /\ Recap(D, C).especes = PmtTotal(PaysOf(T), "cash")
      /\ Recap(D, C).ecart = SumFunctionOnSet(CashOut, RecapSessions(D, C)) - PmtTotal(PaysOf(T), "cash")
  BY DEF Recap
<1> DEFINE P == PaysOf(T)
<1>2. Recap(D, C).general = (Comptants(P) - (PmtTotal(P, "food") + PmtTotal(P, "loyalty"))) + PmtTotal(P, "limit")
  BY DEF Recap
<1>3. PICK a, b, c, d, e, g, h :
        /\ a = PmtTotal(P, "cash") /\ b = PmtTotal(P, "cheque") /\ c = PmtTotal(P, "card")
        /\ d = PmtTotal(P, "voucher") /\ e = PmtTotal(P, "limit")
        /\ g = PmtTotal(P, "food") /\ h = PmtTotal(P, "loyalty")
  OBVIOUS
<1>4. a \in Int /\ b \in Int /\ c \in Int /\ d \in Int /\ e \in Int /\ g \in Int /\ h \in Int
  BY <1>3, PaidType
<1>5. Comptants(P) = a + b + c + d + g + h
  BY <1>3 DEF Comptants
<1>6. (a + b + c + d + g + h - (g + h)) + e = a + b + c + d + e
  BY <1>4
<1>7. General(P) = a + b + c + d + e
  BY <1>3 DEF General, Five
<1>8. Comptants(P) \in Int
  BY <1>4, <1>5
<1> HIDE DEF P
<1>9. Recap(D, C).general = General(P)
  BY <1>2, <1>3, <1>4, <1>5, <1>6, <1>7
<1> QED
  BY <1>1, <1>9 DEF P

\* What the closing of a session shows.
LEMMA ClotureIs ==
    ASSUME ReportsTypeOK, NEW s, NEW T, T = SessionOrders(s)
    PROVE  /\ Cloture(s).especes = PmtTotal(PaysOf(T), "cash")
           /\ Cloture(s).fond = drawer[s].start
           /\ Cloture(s).ecart = drawer[s].counted - PmtTotal(PaysOf(T), "cash")
           /\ Cloture(s).total - Cloture(s).avoir + Cloture(s).en_compte = General(PaysOf(T))
<1> DEFINE P == PaysOf(T)
<1>1. /\ Cloture(s).especes = PmtTotal(P, "cash")
      /\ Cloture(s).fond = drawer[s].start
      /\ Cloture(s).ecart = drawer[s].counted - PmtTotal(P, "cash")
      /\ Cloture(s).avoir = Avoir(P)
      /\ Cloture(s).en_compte = PmtTotal(P, "limit")
      /\ Cloture(s).total = PmtTotal(P, "cash") + PmtTotal(P, "cheque") + PmtTotal(P, "card")
                              + Avoir(P) + PmtTotal(P, "voucher")
  BY DEF Cloture
<1>2. PICK a, b, c, d, e, g :
        /\ a = PmtTotal(P, "cash") /\ b = PmtTotal(P, "cheque") /\ c = PmtTotal(P, "card")
        /\ d = PmtTotal(P, "voucher") /\ e = PmtTotal(P, "limit") /\ g = Avoir(P)
  OBVIOUS
<1>3. a \in Int /\ b \in Int /\ c \in Int /\ d \in Int /\ e \in Int /\ g \in Int
  BY <1>2, PaidType
<1>4. (a + b + c + g + d) - g + e = a + b + c + d + e
  BY <1>3
<1>5. General(P) = a + b + c + d + e
  BY <1>2 DEF General, Five
<1> HIDE DEF P
<1>6. Cloture(s).total - Cloture(s).avoir + Cloture(s).en_compte = General(P)
  BY <1>1, <1>2, <1>4, <1>5
<1> QED
  BY <1>1, <1>6 DEF P

-----------------------------------------------------------------------------
(* The recapitulation.                                                     *)

\* Without a filter all tickets, with one cashier his.
LEMMA RecapOrdersAre ==
    ASSUME NEW D, NEW c
    PROVE  /\ RecapOrders(D, {}) = TicketsOf(D)
           /\ RecapOrders(D, {c}) = OrdersWith(Cashier, TicketsOf(D), c)
           /\ EnCompte(OrdersWith(Cashier, TicketsOf(D), c))
                = OrdersWith(Cashier, EnCompte(TicketsOf(D)), c)
           /\ OrdersWith(Cashier, TicketsOf(D), c) \ EnCompte(OrdersWith(Cashier, TicketsOf(D), c))
                = OrdersWith(Cashier, TicketsOf(D) \ EnCompte(TicketsOf(D)), c)
BY DEF RecapOrders, OrdersWith, EnCompte

\* Tickets have a cashier.
LEMMA TicketsKeyed ==
    ASSUME ReportsTypeOK, NEW D \in Periods, NEW T \in SUBSET TicketsOf(D)
    PROVE  OrdersKeyed(Cashier, T, Cashiers)
BY OrdersOfReports, ReportsAssumption DEF OrdersKeyed

\* The turnover of orders, lines that are counted and lines that are not.
LEMMA CountedAndNot ==
    ASSUME ReportsTypeOK, NEW T \in SUBSET Orders
    PROVE  OrderCa(T) + LeftOut(T) = SumFunctionOnSet(CaHt, T)
<1> DEFINE A == Counted(T)
           B == {l \in LinesOf(T) : Sort[l] # "plain"}
<1>1. A \union B = LinesOf(T) /\ A \intersect B = {} /\ A \subseteq Lines /\ B \subseteq Lines
  BY DEF Counted, LinesOf
<1>2. OrderCa(T) = SumFunctionOnSet(Ht, A) /\ LeftOut(T) = SumFunctionOnSet(Ht, B)
  BY DEF OrderCa, LeftOut
<1> HIDE DEF A, B
<1>3. IsFiniteSet(A) /\ IsFiniteSet(B) /\ \A l \in A \union B : Ht[l] \in Int
  BY <1>1, ReportSets, ReportedType
<1>4. SumFunctionOnSet(Ht, A \union B) = SumFunctionOnSet(Ht, A) + SumFunctionOnSet(Ht, B)
  BY <1>1, <1>3, SumUnion
<1> QED
  BY <1>1, <1>2, <1>4, CaOfOrders

\* The turnover of tickets on account and of others.
LEMMA OnAccountAndNot ==
    ASSUME ReportsTypeOK, NEW T \in SUBSET Orders
    PROVE  OrderCa(T \ EnCompte(T)) + OrderCa(EnCompte(T)) = OrderCa(T)
<1> DEFINE A == Counted(T \ EnCompte(T))
           B == Counted(EnCompte(T))
<1>1. EnCompte(T) \subseteq T
  BY DEF EnCompte
<1>2. A \union B = Counted(T) /\ A \intersect B = {} /\ A \subseteq Lines /\ B \subseteq Lines
  BY <1>1 DEF Counted, LinesOf
<1>3. OrderCa(T \ EnCompte(T)) = SumFunctionOnSet(Ht, A) /\ OrderCa(EnCompte(T)) = SumFunctionOnSet(Ht, B)
  BY DEF OrderCa
<1> HIDE DEF A, B
<1>4. IsFiniteSet(A) /\ IsFiniteSet(B) /\ \A l \in A \union B : Ht[l] \in Int
  BY <1>2, ReportSets, ReportedType
<1>5. SumFunctionOnSet(Ht, A \union B) = SumFunctionOnSet(Ht, A) + SumFunctionOnSet(Ht, B)
  BY <1>2, <1>4, SumUnion
<1> QED
  BY <1>2, <1>3, <1>5 DEF OrderCa

\* The bases of the rates come to the turnover.
LEMMA BasesAdd ==
    ASSUME ReportsTypeOK, NEW S
    PROVE  SumOver([r \in TaxRates |-> BaseHt(S, r)]) = OrderCa(S)
<1> DEFINE X == Counted(S)
           g == [r \in TaxRates |-> BaseHt(S, r)]
<1>1. IsFiniteSet(X) /\ X \subseteq Lines /\ IsFiniteSet(TaxRates)
  BY ReportSets, ReportsAssumption DEF Counted, LinesOf
<1>2. Keyed(Rate, Ht, X, TaxRates)
  BY <1>1, ReportedType, ReportsAssumption DEF Keyed
<1>3. SumsByKey(g, Rate, Ht, X, TaxRates) /\ DOMAIN g = TaxRates
  BY DEF SumsByKey, BaseHt
<1> HIDE DEF X, g
<1>4. SumFunctionOnSet(g, TaxRates) = SumFunctionOnSet(Ht, X)
  BY <1>1, <1>2, <1>3, SumByKey
<1> QED
  BY <1>3, <1>4 DEF SumOver, OrderCa, X, g

\* Every session of the period had tickets.
AllSold(D) == \A s \in Drawers : DrawerDate[s] \in D => \E o \in TicketsOf(D) : Drawer[o] = s

\* The sessions of the period are those of the cashiers, each once.
LEMMA SessionsByCashier ==
    ASSUME ReportsTypeOK, NEW D \in Periods, OneCashier(D), Aligned(D), AllSold(D),
           NEW f, \A s \in Drawers : f[s] \in Int,
           NEW g, \A c \in Cashiers : g[c] = SumFunctionOnSet(f, RecapSessions(D, {c}))
    PROVE  SumFunctionOnSet(g, Cashiers) = SumFunctionOnSet(f, RecapSessions(D, {}))
<1> DEFINE X == RecapSessions(D, {})
           key == [s \in Drawers |-> CHOOSE c : \E o \in TicketsOf(D) : Drawer[o] = s /\ Cashier[o] = c]
<1>1. X = {s \in Drawers : DrawerDate[s] \in D}
  BY DEF RecapSessions
<1>2. IsFiniteSet(X) /\ X \subseteq Drawers /\ IsFiniteSet(Cashiers)
  BY <1>1, ReportSets, ReportsAssumption
<1>3. \A o \in TicketsOf(D) : o \in Orders /\ Cashier[o] \in Cashiers /\ Drawer[o] \in Drawers
  BY OrdersOfReports, ReportsAssumption
<1>4. ASSUME NEW s \in X
      PROVE  \E o \in TicketsOf(D) : Drawer[o] = s /\ Cashier[o] = key[s]
  <2>1. PICK o \in TicketsOf(D) : Drawer[o] = s
    BY <1>1 DEF AllSold
  <2>2. \E c : \E u \in TicketsOf(D) : Drawer[u] = s /\ Cashier[u] = c
    BY <2>1
  <2>3. key[s] = CHOOSE c : \E u \in TicketsOf(D) : Drawer[u] = s /\ Cashier[u] = c
    BY <1>2
  <2> QED
    BY <2>2, <2>3
<1> HIDE DEF key
<1>5. ASSUME NEW o \in TicketsOf(D) PROVE Drawer[o] \in X /\ key[Drawer[o]] = Cashier[o]
  <2>1. o \in valid /\ Source[o] = "pos" /\ OrderDate[o] \in D
    BY DEF TicketsOf
  <2>2. DrawerDate[Drawer[o]] \in D
    BY <2>1 DEF Aligned
  <2>3. Drawer[o] \in X
    BY <1>1, <1>3, <2>2
  <2>4. PICK u \in TicketsOf(D) : Drawer[u] = Drawer[o] /\ Cashier[u] = key[Drawer[o]]
    BY <1>4, <2>3
  <2> QED
    BY <2>3, <2>4 DEF OneCashier
<1>6. \A s \in X : key[s] \in Cashiers /\ f[s] \in Int
  BY <1>2, <1>3, <1>4
<1>7. ASSUME NEW c \in Cashiers
      PROVE  g[c] = SumFunctionOnSet(f, {s \in X : key[s] = c})
  <2>1. RecapSessions(D, {c}) = {Drawer[o] : o \in OrdersWith(Cashier, TicketsOf(D), c)}
    BY RecapOrdersAre DEF RecapSessions
  <2> HIDE DEF X
  <2>2. {Drawer[o] : o \in OrdersWith(Cashier, TicketsOf(D), c)} \subseteq {s \in X : key[s] = c}
    BY <1>5 DEF OrdersWith
  <2>3. {s \in X : key[s] = c} \subseteq {Drawer[o] : o \in OrdersWith(Cashier, TicketsOf(D), c)}
    BY <1>4 DEF OrdersWith
  <2>4. RecapSessions(D, {c}) = {s \in X : key[s] = c}
    BY <2>1, <2>2, <2>3
  <2> QED
    BY <2>4
<1> HIDE DEF X
<1>8. Keyed(key, f, X, Cashiers)
  BY <1>6 DEF Keyed
<1>9. SumsByKey(g, key, f, X, Cashiers)
  BY <1>7 DEF SumsByKey
<1> QED
  BY <1>2, <1>8, <1>9, SumByKey DEF X

\* The recapitulation agrees with the days, with its table of taxes and with those of the
\* cashiers.
LEMMA RecapHolds == ASSUME ReportsTypeOK PROVE RecapAgrees
<1> DEFINE Agrees(D, all, each) ==
        /\ all.comptant + all.en_compte + LeftOut(TicketsOf(D))
             = Totaux(D, "pos") + SumFunctionOnSet(CaHt, CreditNotes(D))
        /\ SumOver([r \in TaxRates |-> BaseHt(TicketsOf(D), r)]) = all.comptant + all.en_compte
        /\ all.comptant = SumOver([c \in Cashiers |-> each[c].comptant])
        /\ all.en_compte = SumOver([c \in Cashiers |-> each[c].en_compte])
        /\ all.general = SumOver([c \in Cashiers |-> each[c].general])
        /\ OneCashier(D) /\ Aligned(D) /\ AllSold(D)
             => /\ all.fdc_init = SumOver([c \in Cashiers |-> each[c].fdc_init])
                /\ all.ecart = SumOver([c \in Cashiers |-> each[c].ecart])
<1> SUFFICES ASSUME NEW D \in Periods
             PROVE  Agrees(D, Recap(D, {}), [c \in Cashiers |-> Recap(D, {c})])
  BY DEF RecapAgrees, AllSold
<1>0. PICK all, each : all = Recap(D, {}) /\ each = [c \in Cashiers |-> Recap(D, {c})]
  OBVIOUS
<1> HIDE DEF Agrees
<1> SUFFICES Agrees(D, all, each)
  BY <1>0
<1> DEFINE T == TicketsOf(D)
           A == EnCompte(T)
           U == RecapSessions(D, {})
<1>1. T \in SUBSET Orders /\ A \in SUBSET T /\ T \ A \in SUBSET T
  BY OrdersOfReports DEF EnCompte
<1>2. /\ all.comptant = OrderCa(T \ A) /\ all.en_compte = OrderCa(A)
      /\ all.fdc_init = SumFunctionOnSet(Start, U)
      /\ all.ecart = SumFunctionOnSet(CashOut, U) - PmtTotal(PaysOf(T), "cash")
      /\ all.general = General(PaysOf(T))
  <2>1. T = RecapOrders(D, {})
    BY RecapOrdersAre
  <2> HIDE DEF T
  <2> QED
    BY <1>0, <2>1, RecapIs DEF A, U
<1>3. ASSUME NEW c \in Cashiers
      PROVE  /\ each[c].comptant = OrderCa(OrdersWith(Cashier, T \ A, c))
             /\ each[c].en_compte = OrderCa(OrdersWith(Cashier, A, c))
             /\ each[c].fdc_init = SumFunctionOnSet(Start, RecapSessions(D, {c}))
             /\ each[c].ecart = SumFunctionOnSet(CashOut, RecapSessions(D, {c}))
                                  - PmtTotal(PaysOf(OrdersWith(Cashier, T, c)), "cash")
             /\ each[c].general = General(PaysOf(OrdersWith(Cashier, T, c)))
  <2>1. each[c] = Recap(D, {c})
    BY <1>0
  <2>2. PICK R : R = OrdersWith(Cashier, T, c)
    OBVIOUS
  <2>3. R = RecapOrders(D, {c})
    BY <2>2, RecapOrdersAre
  <2>4. /\ each[c].comptant = OrderCa(R \ EnCompte(R)) /\ each[c].en_compte = OrderCa(EnCompte(R))
        /\ each[c].fdc_init = SumFunctionOnSet(Start, RecapSessions(D, {c}))
        /\ each[c].ecart = SumFunctionOnSet(CashOut, RecapSessions(D, {c})) - PmtTotal(PaysOf(R), "cash")
        /\ each[c].general = General(PaysOf(R))
    BY <2>1, <2>3, RecapIs
  <2>5. EnCompte(R) = OrdersWith(Cashier, A, c) /\ R \ EnCompte(R) = OrdersWith(Cashier, T \ A, c)
    BY <2>2, RecapOrdersAre
  <2> QED
    BY <2>2, <2>4, <2>5
<1>4. OrderCa(T \ A) + OrderCa(A) = OrderCa(T)
  BY <1>1, OnAccountAndNot
<1>5. /\ OrdersKeyed(Cashier, T, Cashiers) /\ OrdersKeyed(Cashier, A, Cashiers)
      /\ OrdersKeyed(Cashier, T \ A, Cashiers)
  BY <1>1, TicketsKeyed
<1>6. OrderCa(T) + LeftOut(T) = Totaux(D, "pos") + SumFunctionOnSet(CaHt, CreditNotes(D))
  <2>1. SalesPart(D, "pos") = 0 /\ TicketsPart(D, "pos") = SumFunctionOnSet(CaHt, T)
    BY DEF SalesPart, TicketsPart
  <2>2. PICK t, n : t = TicketsPart(D, "pos") /\ n = SumFunctionOnSet(CaHt, CreditNotes(D))
    OBVIOUS
  <2>3. t \in Int /\ n \in Int
    BY <2>2, PartsType
  <2>4. Totaux(D, "pos") = (0 + t) - n
    BY <2>1, <2>2, TotauxIs
  <2>5. ((0 + t) - n) + n = t
    BY <2>3
  <2>6. OrderCa(T) + LeftOut(T) = t
    BY <1>1, <2>1, <2>2, CountedAndNot
  <2> QED
    BY <2>2, <2>4, <2>5, <2>6
<1>7. SumOver([r \in TaxRates |-> BaseHt(T, r)]) = OrderCa(T)
  BY BasesAdd
<1> HIDE DEF T, A, U
<1>8. all.comptant = SumOver([c \in Cashiers |-> each[c].comptant])
  <2> DEFINE f == [c \in Cashiers |-> each[c].comptant]
  <2>1. \A c \in Cashiers : f[c] = OrderCa(OrdersWith(Cashier, T \ A, c))
    BY <1>3
  <2>2. DOMAIN f = Cashiers
    OBVIOUS
  <2>3. PICK N : N = T \ A
    OBVIOUS
  <2> HIDE DEF f
  <2>4. SumFunctionOnSet(f, Cashiers) = OrderCa(N)
    BY <1>5, <2>1, <2>3, CaByKey
  <2> QED
    BY <1>2, <2>2, <2>3, <2>4 DEF SumOver, f
<1>9. all.en_compte = SumOver([c \in Cashiers |-> each[c].en_compte])
  <2> DEFINE f == [c \in Cashiers |-> each[c].en_compte]
  <2>1. \A c \in Cashiers : f[c] = OrderCa(OrdersWith(Cashier, A, c))
    BY <1>3
  <2>2. DOMAIN f = Cashiers
    OBVIOUS
  <2> HIDE DEF f
  <2>3. SumFunctionOnSet(f, Cashiers) = OrderCa(A)
    BY <1>5, <2>1, CaByKey
  <2> QED
    BY <1>2, <2>2, <2>3 DEF SumOver, f
<1>10. all.general = SumOver([c \in Cashiers |-> each[c].general])
  <2> DEFINE f == [c \in Cashiers |-> each[c].general]
  <2>1. \A c \in Cashiers : f[c] = General(PaysOf(OrdersWith(Cashier, T, c)))
    BY <1>3
  <2>2. DOMAIN f = Cashiers
    OBVIOUS
  <2> HIDE DEF f
  <2>3. SumFunctionOnSet(f, Cashiers) = General(PaysOf(T))
    BY <1>5, <2>1, GeneralByKey
  <2> QED
    BY <1>2, <2>2, <2>3 DEF SumOver, f
<1>11. ASSUME OneCashier(D), Aligned(D), AllSold(D)
       PROVE  all.fdc_init = SumOver([c \in Cashiers |-> each[c].fdc_init])
  <2> DEFINE f == [c \in Cashiers |-> each[c].fdc_init]
  <2>1. \A c \in Cashiers : f[c] = SumFunctionOnSet(Start, RecapSessions(D, {c}))
    BY <1>3
  <2>2. DOMAIN f = Cashiers
    OBVIOUS
  <2>3. \A s \in Drawers : Start[s] \in Int
    BY ReportedType
  <2> HIDE DEF f
  <2>4. SumFunctionOnSet(f, Cashiers) = SumFunctionOnSet(Start, RecapSessions(D, {}))
    BY <1>11, <2>1, <2>3, SessionsByCashier
  <2> QED
    BY <1>2, <2>2, <2>4 DEF SumOver, f, U
<1>12. ASSUME OneCashier(D), Aligned(D), AllSold(D)
       PROVE  all.ecart = SumOver([c \in Cashiers |-> each[c].ecart])
  <2> DEFINE f == [c \in Cashiers |-> each[c].ecart]
             g == [c \in Cashiers |-> SumFunctionOnSet(CashOut, RecapSessions(D, {c}))]
             h == [c \in Cashiers |-> PmtTotal(PaysOf(OrdersWith(Cashier, T, c)), "cash")]
  <2>1. \A s \in Drawers : CashOut[s] \in Int
    BY ReportedType
  <2>2. \A c \in Cashiers : RecapSessions(D, {c}) \subseteq Drawers
    <3> TAKE c \in Cashiers
    <3>1. RecapSessions(D, {c}) = {Drawer[o] : o \in OrdersWith(Cashier, TicketsOf(D), c)}
      BY RecapOrdersAre DEF RecapSessions
    <3>2. \A o \in OrdersWith(Cashier, TicketsOf(D), c) : o \in Orders
      BY OrdersOfReports DEF OrdersWith
    <3>3. \A o \in Orders : Drawer[o] \in Drawers
      BY ReportsAssumption
    <3> QED
      BY <3>1, <3>2, <3>3
  <2>3. ASSUME NEW c \in Cashiers PROVE SumFunctionOnSet(CashOut, RecapSessions(D, {c})) \in Int
    <3>1. PICK Q : Q = RecapSessions(D, {c})
      OBVIOUS
    <3>2. IsFiniteSet(Q) /\ \A s \in Q : CashOut[s] \in Int
      BY <2>1, <2>2, <3>1, ReportSets
    <3> QED
      BY <3>1, <3>2, SumType
  <2>4. \A c \in Cashiers : /\ f[c] = each[c].ecart
                            /\ g[c] = SumFunctionOnSet(CashOut, RecapSessions(D, {c}))
                            /\ h[c] = PmtTotal(PaysOf(OrdersWith(Cashier, T, c)), "cash")
    OBVIOUS
  <2>5. DOMAIN f = Cashiers
    OBVIOUS
  <2> HIDE DEF f, g, h
  <2>6. \A c \in Cashiers : g[c] \in Int /\ h[c] \in Int /\ f[c] = g[c] - h[c]
    <3> TAKE c \in Cashiers
    <3>1. g[c] \in Int
      BY <2>3, <2>4
    <3>2. PICK R : R = OrdersWith(Cashier, T, c)
      OBVIOUS
    <3>3. h[c] = PmtTotal(PaysOf(R), "cash")
      BY <2>4, <3>2
    <3>4. h[c] \in Int
      BY <3>3, PaidType
    <3>5. f[c] = g[c] - h[c]
      BY <1>3, <2>4
    <3> QED
      BY <3>1, <3>4, <3>5
  <2>7. SumFunctionOnSet(f, Cashiers) = SumFunctionOnSet(g, Cashiers) - SumFunctionOnSet(h, Cashiers)
    BY <2>6, SumSubtract, ReportsAssumption
  <2>8. SumFunctionOnSet(g, Cashiers) = SumFunctionOnSet(CashOut, RecapSessions(D, {}))
    BY <1>12, <2>1, <2>4, SessionsByCashier
  <2>9. SumFunctionOnSet(h, Cashiers) = PmtTotal(PaysOf(T), "cash")
    <3>1. \A c \in Cashiers : h[c] = PmtTotal(PaysOf(OrdersWith(Cashier, T, c)), "cash")
      BY <2>4
    <3>2. PICK mark : mark = "cash"
      OBVIOUS
    <3>3. SumFunctionOnSet(h, Cashiers) = PmtTotal(PaysOf(T), mark)
      BY <1>5, <3>1, <3>2, PaidByKey
    <3> QED
      BY <3>2, <3>3
  <2> QED
    BY <1>2, <2>5, <2>7, <2>8, <2>9 DEF SumOver, f, U
<1>13. all.comptant + all.en_compte + LeftOut(T)
         = Totaux(D, "pos") + SumFunctionOnSet(CaHt, CreditNotes(D))
  BY <1>2, <1>4, <1>6
<1>14. SumOver([r \in TaxRates |-> BaseHt(T, r)]) = all.comptant + all.en_compte
  BY <1>2, <1>4, <1>7
<1> QED
  BY <1>8, <1>9, <1>10, <1>11, <1>12, <1>13, <1>14 DEF T, Agrees

-----------------------------------------------------------------------------
(* The closings.                                                           *)

\* The tickets of a period are those of its sessions, if none runs over its end.
LEMMA SessionsKeyed ==
    ASSUME ReportsTypeOK, NEW D \in Periods, Aligned(D),
           NEW K, K = {s \in Drawers : DrawerDate[s] \in D}
    PROVE  /\ OrdersKeyed(Drawer, TicketsOf(D), K)
           /\ \A s \in K : SessionOrders(s) = OrdersWith(Drawer, TicketsOf(D), s)
<1>1. IsFiniteSet(K)
  BY ReportSets
<1>2. ASSUME NEW o \in TicketsOf(D) PROVE Drawer[o] \in K
  <2>1. o \in valid /\ Source[o] = "pos" /\ OrderDate[o] \in D /\ o \in Orders
    BY OrdersOfReports DEF TicketsOf
  <2>2. Drawer[o] \in Drawers
    BY <2>1, ReportsAssumption
  <2> QED
    BY <2>1, <2>2 DEF Aligned
<1>3. ASSUME NEW s \in K PROVE SessionOrders(s) = OrdersWith(Drawer, TicketsOf(D), s)
  <2>1. \A o \in valid : Source[o] = "pos" /\ Drawer[o] = s => OrderDate[o] \in D
    BY DEF Aligned
  <2> QED
    BY <2>1 DEF SessionOrders, OrdersWith, TicketsOf
<1> QED
  BY <1>1, <1>2, <1>3, OrdersOfReports DEF OrdersKeyed

\* The tables of taxes of the closings.
LEMMA TaxesOfClosings ==
    ASSUME ReportsTypeOK, NEW D \in Periods, Aligned(D),
           NEW K, K = {s \in Drawers : DrawerDate[s] \in D}, NEW r,
           NEW f, \A s \in K : f[s] = ClotureHt(s, r)
    PROVE  SumFunctionOnSet(f, K)
             = BaseHt(TicketsOf(D), r)
               + SumFunctionOnSet(Ht, {l \in RewardsOf(TicketsOf(D)) : Rate[l] = r})
               + SumFunctionOnSet(Ht, {l \in Cancelled(D) : Rate[l] = r})
<1> DEFINE A == {l \in Counted(TicketsOf(D)) : Rate[l] = r}
           B == {l \in RewardsOf(TicketsOf(D)) : Rate[l] = r}
           C == {l \in Cancelled(D) : Rate[l] = r}
           AB == A \union B
           X == {l \in Lines : /\ Source[OrderOf[l]] = "pos" /\ DrawerDate[Drawer[OrderOf[l]]] \in D
                               /\ Sort[l] # "child" /\ Rate[l] = r}
           key == [l \in Lines |-> Drawer[OrderOf[l]]]
<1>1. /\ A \subseteq Lines /\ B \subseteq Lines /\ C \subseteq Lines /\ X \subseteq Lines
      /\ \A l \in Lines : OrderOf[l] \in Orders /\ Drawer[OrderOf[l]] \in Drawers
  BY ReportsAssumption DEF Counted, RewardsOf, LinesOf, Cancelled
<1>2. A \intersect B = {} /\ AB \intersect C = {}
  BY DEF Counted, RewardsOf, LinesOf, Cancelled, TicketsOf
<1>3. X = AB \union C
  <2>1. ASSUME NEW l \in X PROVE l \in AB \union C
    <3>1. /\ l \in Lines /\ Source[OrderOf[l]] = "pos" /\ DrawerDate[Drawer[OrderOf[l]]] \in D
          /\ Sort[l] # "child" /\ Rate[l] = r
      OBVIOUS
    <3>2. CASE OrderOf[l] \in valid
      <4>1. OrderOf[l] \in TicketsOf(D)
        BY <3>1, <3>2 DEF Aligned, TicketsOf
      <4>2. Sort[l] = "plain" \/ Sort[l] = "reward"
        BY <3>1, ReportsAssumption
      <4> QED
        BY <3>1, <4>1, <4>2 DEF Counted, RewardsOf, LinesOf
    <3>3. CASE OrderOf[l] \notin valid
      BY <3>1, <3>3 DEF Cancelled
    <3> QED
      BY <3>2, <3>3
  <2>2. ASSUME NEW l \in AB PROVE l \in X
    <3>1. l \in Lines /\ OrderOf[l] \in TicketsOf(D) /\ Rate[l] = r /\ Sort[l] # "child"
      BY DEF Counted, RewardsOf, LinesOf
    <3>2. OrderOf[l] \in valid /\ Source[OrderOf[l]] = "pos" /\ OrderDate[OrderOf[l]] \in D
      BY <3>1 DEF TicketsOf
    <3>3. DrawerDate[Drawer[OrderOf[l]]] \in D
      BY <3>2 DEF Aligned
    <3> QED
      BY <3>1, <3>2, <3>3
  <2>3. ASSUME NEW l \in C PROVE l \in X
    BY DEF Cancelled
  <2> HIDE DEF AB, C, X
  <2> QED
    BY <2>1, <2>2, <2>3
<1>4. ASSUME NEW s \in K PROVE f[s] = SumFunctionOnSet(Ht, {l \in X : key[l] = s})
  <2>1. f[s] = SumFunctionOnSet(Ht, {l \in Lines :
                  Source[OrderOf[l]] = "pos" /\ Drawer[OrderOf[l]] = s /\ Sort[l] # "child" /\ Rate[l] = r})
    BY DEF ClotureHt
  <2>2. {l \in Lines : Source[OrderOf[l]] = "pos" /\ Drawer[OrderOf[l]] = s /\ Sort[l] # "child" /\ Rate[l] = r}
          = {l \in X : key[l] = s}
    OBVIOUS
  <2> QED
    BY <2>1, <2>2
<1>5. \A l \in X : Ht[l] \in Int /\ key[l] \in K
  BY <1>1, ReportedType
<1>6. BaseHt(TicketsOf(D), r) = SumFunctionOnSet(Ht, A)
  BY DEF BaseHt
<1> HIDE DEF A, B, C, X, key
<1>7. /\ IsFiniteSet(A) /\ IsFiniteSet(B) /\ IsFiniteSet(C) /\ IsFiniteSet(X) /\ IsFiniteSet(K)
      /\ \A l \in A \union B : Ht[l] \in Int
      /\ \A l \in AB \union C : Ht[l] \in Int
  BY <1>1, ReportSets, ReportedType
<1>8. IsFiniteSet(AB)
  BY <1>7, FS_Union
<1>9. SumFunctionOnSet(Ht, AB) = SumFunctionOnSet(Ht, A) + SumFunctionOnSet(Ht, B)
  BY <1>2, <1>7, SumUnion
<1> HIDE DEF AB
<1>10. SumFunctionOnSet(Ht, AB \union C) = SumFunctionOnSet(Ht, AB) + SumFunctionOnSet(Ht, C)
  BY <1>2, <1>7, <1>8, SumUnion
<1>11. Keyed(key, Ht, X, K)
  BY <1>5 DEF Keyed
<1>12. SumsByKey(f, key, Ht, X, K)
  BY <1>4 DEF SumsByKey
<1>13. SumFunctionOnSet(f, K) = SumFunctionOnSet(Ht, X)
  BY <1>7, <1>11, <1>12, SumByKey
<1>14. SumFunctionOnSet(f, K) = SumFunctionOnSet(Ht, A) + SumFunctionOnSet(Ht, B) + SumFunctionOnSet(Ht, C)
  BY <1>3, <1>9, <1>10, <1>13
<1> QED
  BY <1>6, <1>14 DEF B, C

\* What a payment counts for with a mark.
Marked(mark) == [p \in Settled |-> IF mark \in Flags[p] THEN settled[p] ELSE 0]

\* The sum of these is what is paid with the mark.
LEMMA MarkedIs ==
    ASSUME ReportsTypeOK, NEW T, NEW mark
    PROVE  /\ SumFunctionOnSet(Marked(mark), PaysOf(T)) = PmtTotal(PaysOf(T), mark)
           /\ \A p \in Settled : /\ Marked(mark)[p] \in Int
                                 /\ Marked(mark)[p] = IF mark \in Flags[p] THEN settled[p] ELSE 0
<1> DEFINE P == PaysOf(T)
           Q == {p \in P : mark \in Flags[p]}
           f == Marked(mark)
<1>1. P \subseteq Settled /\ IsFiniteSet(P) /\ Q \in SUBSET P
  BY ReportSets
<1>2. \A p \in Settled : /\ f[p] \in Int
                         /\ f[p] = IF mark \in Flags[p] THEN settled[p] ELSE 0
  BY ReportedType DEF Marked
<1>3. \A p \in P : settled[p] \in Int /\ f[p] = (IF p \in Q THEN settled[p] ELSE 0)
  BY <1>1, <1>2, ReportedType
<1>4. PmtTotal(P, mark) = SumFunctionOnSet(settled, Q)
  BY DEF PmtTotal
<1> HIDE DEF P, Q, f
<1>5. SumFunctionOnSet(f, P) = SumFunctionOnSet(settled, Q)
  BY <1>1, <1>3, SumPart
<1> QED
  BY <1>2, <1>4, <1>5 DEF P, f

\* There are few marks.
LEMMA MarksAreFinite == IsFiniteSet(MethodMarks)
<1>1. \A x, y, S : IsFiniteSet(S) => IsFiniteSet(S \union {x, y})
  <2> TAKE x, y, S
  <2>1. SUFFICES ASSUME IsFiniteSet(S) PROVE IsFiniteSet(S \union {x, y})
    OBVIOUS
  <2>2. IsFiniteSet(S \union {x})
    BY <2>1, FS_AddElement
  <2>3. IsFiniteSet((S \union {x}) \union {y})
    BY <2>2, FS_AddElement
  <2>4. (S \union {x}) \union {y} = S \union {x, y}
    OBVIOUS
  <2> QED
    BY <2>3, <2>4
<1>2. IsFiniteSet({} \union {"cash", "cheque"})
  BY <1>1, FS_EmptySet
<1>3. IsFiniteSet(({} \union {"cash", "cheque"}) \union {"card", "voucher"})
  BY <1>1, <1>2
<1>4. IsFiniteSet((({} \union {"cash", "cheque"}) \union {"card", "voucher"}) \union {"food", "loyalty"})
  BY <1>1, <1>3
<1>5. IsFiniteSet(((({} \union {"cash", "cheque"}) \union {"card", "voucher"})
                      \union {"food", "loyalty"}) \union {"limit", "limit"})
  BY <1>1, <1>4
<1>6. MethodMarks = ((({} \union {"cash", "cheque"}) \union {"card", "voucher"})
                        \union {"food", "loyalty"}) \union {"limit", "limit"}
  BY DEF MethodMarks
<1> QED
  BY <1>5, <1>6

\* A payment of a method with one mark counts once, and not for food or a card.
LEMMA MarkedOnce ==
    ASSUME ReportsTypeOK, OneMark, NEW p \in Settled
    PROVE  (IF Flags[p] \notin {{}, {"food"}, {"loyalty"}} THEN settled[p] ELSE 0)
             = Five(Marked("cash")[p], Marked("cheque")[p], Marked("card")[p], Marked("voucher")[p],
                    Marked("limit")[p])
<1>1. \A mark : Marked(mark)[p] = IF mark \in Flags[p] THEN settled[p] ELSE 0
  BY MarkedIs
<1>2. settled[p] \in Int /\ Flags[p] \subseteq MethodMarks
  BY ReportedType, ReportsAssumption
<1>3. CASE settled[p] = 0
  <2>1. \A mark : Marked(mark)[p] = 0
    BY <1>1, <1>3
  <2> QED
    BY <1>3, <2>1 DEF Five
<1>4. CASE settled[p] # 0
  <2>1. IsFiniteSet(Flags[p]) /\ Cardinality(Flags[p]) <= 1
    <3>1. IsFiniteSet(MethodMarks)
      BY MarksAreFinite
    <3>2. IsFiniteSet(Flags[p])
      BY <1>2, <3>1, FS_Subset
    <3> QED
      BY <1>4, <3>2 DEF OneMark
  <2>2. \A m, n \in Flags[p] : m = n
    BY <2>1, AtMostOne
  <2>3. CASE Flags[p] = {}
    <3>1. \A mark : Marked(mark)[p] = 0
      BY <1>1, <2>3
    <3> QED
      BY <2>3, <3>1 DEF Five
  <2>4. ASSUME NEW m \in MethodMarks, Flags[p] = {m}
        PROVE  (IF Flags[p] \notin {{}, {"food"}, {"loyalty"}} THEN settled[p] ELSE 0)
             = Five(Marked("cash")[p], Marked("cheque")[p], Marked("card")[p], Marked("voucher")[p],
                    Marked("limit")[p])
    <3>1. \A mark : Marked(mark)[p] = IF mark = m THEN settled[p] ELSE 0
      BY <1>1, <2>4
    <3>2. Flags[p] \in {{}, {"food"}, {"loyalty"}} <=> m = "food" \/ m = "loyalty"
      BY <2>4
    <3>3. PICK x : x = settled[p]
      OBVIOUS
    <3>4. CASE m = "food" \/ m = "loyalty"
      <4>1. /\ Marked("cash")[p] = 0 /\ Marked("cheque")[p] = 0 /\ Marked("card")[p] = 0
            /\ Marked("voucher")[p] = 0 /\ Marked("limit")[p] = 0
        BY <3>1, <3>4
      <4> QED
        BY <3>2, <3>4, <4>1 DEF Five
    <3>5. CASE m \in {"cash", "cheque", "card", "voucher", "limit"}
      <4>1. /\ Marked("cash")[p] = (IF m = "cash" THEN x ELSE 0)
            /\ Marked("cheque")[p] = (IF m = "cheque" THEN x ELSE 0)
            /\ Marked("card")[p] = (IF m = "card" THEN x ELSE 0)
            /\ Marked("voucher")[p] = (IF m = "voucher" THEN x ELSE 0)
            /\ Marked("limit")[p] = (IF m = "limit" THEN x ELSE 0)
        BY <3>1, <3>3
      <4>2. x \in Int
        BY <1>2, <3>3
      <4>3. Five(Marked("cash")[p], Marked("cheque")[p], Marked("card")[p], Marked("voucher")[p],
                 Marked("limit")[p]) = x
        BY <3>5, <4>1, <4>2 DEF Five
      <4>4. Flags[p] \notin {{}, {"food"}, {"loyalty"}}
        BY <3>2, <3>5
      <4> QED
        BY <3>3, <4>3, <4>4
    <3> QED
      BY <3>4, <3>5 DEF MethodMarks
  <2>5. CASE Flags[p] # {}
    <3>1. PICK m \in Flags[p] : TRUE
      BY <2>5
    <3>2. m \in MethodMarks /\ Flags[p] = {m}
      BY <1>2, <2>2, <3>1
    <3> QED
      BY <2>4, <3>2
  <2> QED
    BY <2>3, <2>5
<1> QED
  BY <1>3, <1>4

\* So the general total is what is paid by a method with another mark than food or a card.
LEMMA GeneralOnce ==
    ASSUME ReportsTypeOK, OneMark, NEW T
    PROVE  General(PaysOf(T))
             = SumFunctionOnSet(settled, {p \in PaysOf(T) : Flags[p] \notin {{}, {"food"}, {"loyalty"}}})
<1> DEFINE P == PaysOf(T)
           Q == {p \in P : Flags[p] \notin {{}, {"food"}, {"loyalty"}}}
           h == [p \in Settled |-> IF Flags[p] \notin {{}, {"food"}, {"loyalty"}} THEN settled[p] ELSE 0]
<1>1. P \subseteq Settled /\ IsFiniteSet(P) /\ Q \in SUBSET P
  BY ReportSets
<1>2. PICK a, b, c, d, e : /\ a = Marked("cash") /\ b = Marked("cheque") /\ c = Marked("card")
                           /\ d = Marked("voucher") /\ e = Marked("limit")
  OBVIOUS
<1>3. \A p \in P : /\ a[p] \in Int /\ b[p] \in Int /\ c[p] \in Int /\ d[p] \in Int /\ e[p] \in Int
                   /\ h[p] = Five(a[p], b[p], c[p], d[p], e[p])
  <2> TAKE p \in P
  <2>1. p \in Settled
    BY <1>1
  <2>2. \A mark : Marked(mark)[p] \in Int
    BY <2>1, MarkedIs
  <2>3. h[p] = IF Flags[p] \notin {{}, {"food"}, {"loyalty"}} THEN settled[p] ELSE 0
    BY <2>1
  <2>4. h[p] = Five(a[p], b[p], c[p], d[p], e[p])
    BY <1>2, <2>1, <2>3, MarkedOnce
  <2> QED
    BY <1>2, <2>2, <2>4
<1>4. \A p \in P : settled[p] \in Int /\ h[p] = (IF p \in Q THEN settled[p] ELSE 0)
  BY <1>1, ReportedType
<1>5. /\ SumFunctionOnSet(a, P) = PmtTotal(P, "cash") /\ SumFunctionOnSet(b, P) = PmtTotal(P, "cheque")
      /\ SumFunctionOnSet(c, P) = PmtTotal(P, "card") /\ SumFunctionOnSet(d, P) = PmtTotal(P, "voucher")
      /\ SumFunctionOnSet(e, P) = PmtTotal(P, "limit")
  BY <1>2, MarkedIs
<1> HIDE DEF P, Q, h
<1>6. SumFunctionOnSet(h, P)
        = Five(SumFunctionOnSet(a, P), SumFunctionOnSet(b, P), SumFunctionOnSet(c, P),
               SumFunctionOnSet(d, P), SumFunctionOnSet(e, P))
  BY <1>1, <1>3, SumFive
<1>7. SumFunctionOnSet(h, P) = SumFunctionOnSet(settled, Q)
  BY <1>1, <1>4, SumPart
<1>8. General(P) = SumFunctionOnSet(settled, Q)
  BY <1>5, <1>6, <1>7 DEF General
<1> QED
  BY <1>8 DEF P, Q

\* The closings agree with the recapitulation.
LEMMA ClosingsHold == ASSUME ReportsTypeOK PROVE ClosingsAgree
<1> DEFINE Agrees(D, all, closed, sessions) ==
        /\ all.especes = SumFunctionOnSet([s \in Drawers |-> closed[s].especes], sessions)
        /\ all.ecart = SumFunctionOnSet([s \in Drawers |-> closed[s].ecart], sessions)
        /\ all.fdc_init = SumFunctionOnSet([s \in Drawers |-> closed[s].fond], sessions)
        /\ \A r \in TaxRates :
              SumFunctionOnSet([s \in Drawers |-> ClotureHt(s, r)], sessions)
                = BaseHt(TicketsOf(D), r)
                  + SumFunctionOnSet(Ht, {l \in RewardsOf(TicketsOf(D)) : Rate[l] = r})
                  + SumFunctionOnSet(Ht, {l \in Cancelled(D) : Rate[l] = r})
        /\ all.general = SumFunctionOnSet(
              [s \in Drawers |-> closed[s].total - closed[s].avoir + closed[s].en_compte], sessions)
        /\ OneMark =>
              all.general = SumFunctionOnSet(settled,
                    {p \in PaysOf(TicketsOf(D)) : Flags[p] \notin {{}, {"food"}, {"loyalty"}}})
<1> SUFFICES ASSUME NEW D \in Periods, Aligned(D)
             PROVE  Agrees(D, Recap(D, {}), [s \in Drawers |-> Cloture(s)],
                           {s \in Drawers : DrawerDate[s] \in D})
  BY DEF ClosingsAgree
<1>0. PICK all, closed, K : /\ all = Recap(D, {}) /\ closed = [s \in Drawers |-> Cloture(s)]
                            /\ K = {s \in Drawers : DrawerDate[s] \in D}
  OBVIOUS
<1> HIDE DEF Agrees
<1> SUFFICES Agrees(D, all, closed, K)
  BY <1>0
<1>1. PICK T : T = TicketsOf(D)
  OBVIOUS
<1>2. T = RecapOrders(D, {}) /\ RecapSessions(D, {}) = K
  BY <1>0, <1>1, RecapOrdersAre DEF RecapSessions
<1>3. /\ all.fdc_init = SumFunctionOnSet(Start, K)
      /\ all.especes = PmtTotal(PaysOf(T), "cash")
      /\ all.ecart = SumFunctionOnSet(CashOut, K) - PmtTotal(PaysOf(T), "cash")
      /\ all.general = General(PaysOf(T))
  <2>1. /\ Recap(D, {}).fdc_init = SumFunctionOnSet(Start, RecapSessions(D, {}))
        /\ Recap(D, {}).especes = PmtTotal(PaysOf(T), "cash")
        /\ Recap(D, {}).ecart = SumFunctionOnSet(CashOut, RecapSessions(D, {})) - PmtTotal(PaysOf(T), "cash")
        /\ Recap(D, {}).general = General(PaysOf(T))
    BY <1>2, RecapIs
  <2> QED
    BY <1>0, <1>2, <2>1
<1>4. OrdersKeyed(Drawer, T, K) /\ \A s \in K : SessionOrders(s) = OrdersWith(Drawer, T, s)
  BY <1>0, <1>1, SessionsKeyed
<1>5. K \subseteq Drawers /\ IsFiniteSet(K)
  BY <1>0, ReportSets
<1>6. ASSUME NEW s \in K
      PROVE  /\ closed[s].especes = PmtTotal(PaysOf(OrdersWith(Drawer, T, s)), "cash")
             /\ closed[s].fond = Start[s]
             /\ closed[s].ecart = CashOut[s] - PmtTotal(PaysOf(OrdersWith(Drawer, T, s)), "cash")
             /\ closed[s].total - closed[s].avoir + closed[s].en_compte
                  = General(PaysOf(OrdersWith(Drawer, T, s)))
  <2>1. closed[s] = Cloture(s) /\ s \in Drawers
    BY <1>0, <1>5
  <2>2. PICK R : R = SessionOrders(s)
    OBVIOUS
  <2>3. /\ Cloture(s).especes = PmtTotal(PaysOf(R), "cash")
        /\ Cloture(s).fond = drawer[s].start
        /\ Cloture(s).ecart = drawer[s].counted - PmtTotal(PaysOf(R), "cash")
        /\ Cloture(s).total - Cloture(s).avoir + Cloture(s).en_compte = General(PaysOf(R))
    BY <2>2, ClotureIs
  <2>4. Start[s] = drawer[s].start /\ CashOut[s] = drawer[s].counted
    BY <2>1, ReportedType
  <2>5. R = OrdersWith(Drawer, T, s)
    BY <1>4, <2>2
  <2> QED
    BY <2>1, <2>3, <2>4, <2>5
<1>7. PICK f, g, h, i :
        /\ f = [s \in Drawers |-> closed[s].especes]
        /\ g = [s \in Drawers |-> closed[s].ecart]
        /\ h = [s \in Drawers |-> closed[s].fond]
        /\ i = [s \in Drawers |-> closed[s].total - closed[s].avoir + closed[s].en_compte]
  OBVIOUS
<1>8. \A s \in K : /\ f[s] = closed[s].especes /\ g[s] = closed[s].ecart /\ h[s] = closed[s].fond
                   /\ i[s] = closed[s].total - closed[s].avoir + closed[s].en_compte
  BY <1>5, <1>7
<1>9. SumFunctionOnSet(f, K) = PmtTotal(PaysOf(T), "cash")
  <2>1. PICK mark : mark = "cash"
    OBVIOUS
  <2>2. \A s \in K : f[s] = PmtTotal(PaysOf(OrdersWith(Drawer, T, s)), mark)
    BY <1>6, <1>8, <2>1
  <2>3. SumFunctionOnSet(f, K) = PmtTotal(PaysOf(T), mark)
    BY <1>4, <2>2, PaidByKey
  <2> QED
    BY <2>1, <2>3
<1>10. SumFunctionOnSet(g, K) = SumFunctionOnSet(CashOut, K) - SumFunctionOnSet(f, K)
  <2>1. \A s \in K : CashOut[s] \in Int /\ f[s] \in Int /\ g[s] = CashOut[s] - f[s]
    <3> TAKE s \in K
    <3>1. CashOut[s] \in Int
      BY <1>5, ReportedType
    <3>2. PICK R : R = OrdersWith(Drawer, T, s)
      OBVIOUS
    <3>3. f[s] = PmtTotal(PaysOf(R), "cash") /\ g[s] = CashOut[s] - PmtTotal(PaysOf(R), "cash")
      BY <1>6, <1>8, <3>2
    <3>4. PmtTotal(PaysOf(R), "cash") \in Int
      BY PaidType
    <3> QED
      BY <3>1, <3>3, <3>4
  <2>2. PICK o : o = CashOut
    OBVIOUS
  <2>3. SumFunctionOnSet(g, K) = SumFunctionOnSet(o, K) - SumFunctionOnSet(f, K)
    BY <1>5, <2>1, <2>2, SumSubtract
  <2> QED
    BY <2>2, <2>3
<1>11. SumFunctionOnSet(h, K) = SumFunctionOnSet(Start, K)
  <2>1. PICK o : o = Start
    OBVIOUS
  <2>2. \A s \in K : h[s] = o[s]
    BY <1>6, <1>8, <2>1
  <2> QED
    BY <1>5, <2>1, <2>2, SumSame
<1>12. SumFunctionOnSet(i, K) = General(PaysOf(T))
  <2>1. \A s \in K : i[s] = General(PaysOf(OrdersWith(Drawer, T, s)))
    BY <1>6, <1>8
  <2> QED
    BY <1>4, <2>1, GeneralByKey
<1>13. ASSUME NEW r \in TaxRates
       PROVE  SumFunctionOnSet([s \in Drawers |-> ClotureHt(s, r)], K)
                = BaseHt(TicketsOf(D), r)
                  + SumFunctionOnSet(Ht, {l \in RewardsOf(TicketsOf(D)) : Rate[l] = r})
                  + SumFunctionOnSet(Ht, {l \in Cancelled(D) : Rate[l] = r})
  <2>1. PICK o : o = [s \in Drawers |-> ClotureHt(s, r)]
    OBVIOUS
  <2>2. \A s \in K : o[s] = ClotureHt(s, r)
    BY <1>5, <2>1
  <2>3. SumFunctionOnSet(o, K)
          = BaseHt(TicketsOf(D), r)
            + SumFunctionOnSet(Ht, {l \in RewardsOf(TicketsOf(D)) : Rate[l] = r})
            + SumFunctionOnSet(Ht, {l \in Cancelled(D) : Rate[l] = r})
    BY <1>0, <2>2, TaxesOfClosings
  <2> QED
    BY <2>1, <2>3
<1>14. OneMark => all.general = SumFunctionOnSet(settled,
                    {p \in PaysOf(T) : Flags[p] \notin {{}, {"food"}, {"loyalty"}}})
  BY <1>3, GeneralOnce
<1> QED
  BY <1>1, <1>3, <1>7, <1>9, <1>10, <1>11, <1>12, <1>13, <1>14 DEF Agrees

-----------------------------------------------------------------------------
(* Types, and the theorem.                                                 *)

\* Nothing is sold at first.
LEMMA InitReports == ReportsInit => ReportsTypeOK
<1> SUFFICES ASSUME ReportsInit PROVE ReportsTypeOK
  OBVIOUS
<1>1. PICK z \in Int : z = 0
  OBVIOUS
<1>2. line = [l \in Lines |-> [quantity |-> z, ht |-> z, tva |-> z]]
  BY <1>1, Zenon DEF ReportsInit, NoLine
<1>3. line \in [Lines -> [quantity : Int, ht : Int, tva : Int]]
  BY <1>2
<1>4. drawer = [s \in Drawers |-> [start |-> z, counted |-> z]]
  BY <1>1, Zenon DEF ReportsInit
<1>5. drawer \in [Drawers -> [start : Int, counted : Int]]
  BY <1>4
<1>6. settled \in [Settled -> Int]
  BY DEF ReportsInit
<1>7. valid \subseteq Orders /\ billed \subseteq Bills /\ \A b \in billed : BilledOrder[b] \in valid
  BY DEF ReportsInit
<1> QED
  BY <1>3, <1>5, <1>6, <1>7 DEF ReportsTypeOK

\* The lines that are entered are lines.
LEMMA EnterType ==
    ASSUME ReportsTypeOK, NEW o \in Orders, Enter(o)
    PROVE  line' \in [Lines -> [quantity : Int, ht : Int, tva : Int]]
<1>1. PICK held \in [LinesOf({o}) -> UNION {Holdings[l] : l \in LinesOf({o})}] :
          /\ \A l \in LinesOf({o}) : held[l] \in Holdings[l]
          /\ line' = [l \in Lines |-> IF OrderOf[l] = o THEN held[l] ELSE line[l]]
  BY DEF Enter
<1>2. ASSUME NEW l \in Lines
      PROVE  (IF OrderOf[l] = o THEN held[l] ELSE line[l]) \in [quantity : Int, ht : Int, tva : Int]
  <2>1. CASE OrderOf[l] = o
    <3>1. l \in LinesOf({o})
      BY <2>1 DEF LinesOf
    <3>2. held[l] \in Holdings[l]
      BY <1>1, <3>1
    <3> QED
      BY <2>1, <3>2, ReportsAssumption
  <2>2. CASE OrderOf[l] # o
    BY <2>2 DEF ReportsTypeOK
  <2> QED
    BY <2>1, <2>2
<1> QED
  BY <1>1, <1>2

\* Each step keeps the types.
LEMMA StepReports == ReportsTypeOK /\ [ReportsNext]_reportVars => ReportsTypeOK'
<1> SUFFICES ASSUME ReportsTypeOK, [ReportsNext]_reportVars PROVE ReportsTypeOK'
  OBVIOUS
<1>1. ASSUME NEW o \in Orders, Validate(o) PROVE ReportsTypeOK'
  <2>1. /\ valid' = valid \union {o} /\ UNCHANGED <<billed, drawer>> /\ Enter(o)
    BY <1>1 DEF Validate
  <2>2. PICK given \in [PaysOf({o}) -> Tenders] :
           settled' = [p \in Settled |-> IF SettledOrder[p] = o THEN given[p] ELSE settled[p]]
    BY <1>1 DEF Validate
  <2>3. settled' \in [Settled -> Int]
    <3>1. ASSUME NEW p \in Settled
          PROVE  (IF SettledOrder[p] = o THEN given[p] ELSE settled[p]) \in Int
      <4>1. CASE SettledOrder[p] = o
        <5>1. p \in PaysOf({o})
          BY <4>1 DEF PaysOf
        <5> QED
          BY <2>2, <4>1, <5>1, ReportsAssumption
      <4>2. CASE SettledOrder[p] # o
        BY <4>2 DEF ReportsTypeOK
      <4> QED
        BY <4>1, <4>2
    <3> QED
      BY <2>2, <3>1
  <2>4. line' \in [Lines -> [quantity : Int, ht : Int, tva : Int]]
    BY <2>1, EnterType
  <2> QED
    BY <2>1, <2>3, <2>4 DEF ReportsTypeOK
<1>2. ASSUME NEW o \in Orders, Cancel(o) PROVE ReportsTypeOK'
  BY <1>2, EnterType DEF Cancel, ReportsTypeOK
<1>3. ASSUME NEW b \in Bills, PostBill(b) PROVE ReportsTypeOK'
  BY <1>3 DEF PostBill, ReportsTypeOK
<1>4. ASSUME NEW s \in Drawers, NEW n \in Counts, CountDrawer(s, n) PROVE ReportsTypeOK'
  <2>1. Float \in Int /\ n \in Int
    BY ReportsAssumption
  <2>2. PICK x \in [start : Int, counted : Int] : x = [start |-> Float, counted |-> n]
    BY <2>1
  <2>3. drawer' = [drawer EXCEPT ![s] = x]
    BY <1>4, <2>2 DEF CountDrawer
  <2>4. drawer' \in [Drawers -> [start : Int, counted : Int]]
    BY <2>3 DEF ReportsTypeOK
  <2> QED
    BY <1>4, <2>4 DEF CountDrawer, ReportsTypeOK
<1>5. CASE UNCHANGED reportVars
  BY <1>5 DEF reportVars, ReportsTypeOK
<1> QED
  BY <1>1, <1>2, <1>3, <1>4, <1>5 DEF ReportsNext

\* The reports on the same sales agree but for the stated differences.
THEOREM ReportsAgree == ReportsSpec => []ReportsInv
<1>1. ReportsTypeOK => ReportsInv
  BY StatisticsHold, DetailHolds, RecapHolds, ClosingsHold DEF ReportsInv
<1> QED
  BY <1>1, InitReports, StepReports, PTL DEF ReportsSpec

-----------------------------------------------------------------------------
(* The four side by side.                                                  *)

\* Entries, their amounts, reports and certificates are right in every behaviour of the
\* four together.
THEOREM AccountsAreSound ==
    AccountingSpec => [](EntriesInv /\ AmountsInv /\ FneInv) /\ MarksFollowTheEntry
<1>1. AccountingInit => EntriesInit /\ LinesInit /\ ReportsInit /\ FneInit
  BY DEF AccountingInit
<1>2. [AccountingNext]_accountingVars
        => /\ [EntriesNext]_entryVars /\ [LinesNext]_lineVars
           /\ [ReportsNext]_reportVars /\ [FneNext]_fneVars
  BY DEF AccountingNext, accountingVars
<1>3. AccountingSpec => EntriesSpec /\ LinesSpec /\ ReportsSpec /\ FneSpec
  BY <1>1, <1>2, PTL DEF AccountingSpec, EntriesSpec, LinesSpec, ReportsSpec, FneSpec
<1>4. LinesInv /\ ReportsInv => AmountsInv
  BY DEF AmountsInv
<1> QED
  BY <1>3, <1>4, EntriesInvariant, LinesAreSound, ReportsAgree, MarksFollow, CertificatesAreSigned, PTL
=============================================================================
