-------------------------- MODULE FneCertification --------------------------
(***************************************************************************)
(* Certification of invoices and credit notes by the tax administration's  *)
(* platform (fne_certification).  The post is not part of the transaction  *)
(* of the request that sends it: it stays at FNE when the answer is lost   *)
(* or when the transaction does not commit, and a request whose commit     *)
(* finds its rows changed by another is run again, post included.          *)
(*                                                                         *)
(* The reads of a request are of the moment it began (REPEATABLE READ).    *)
(* Left out: the lines (a note whose lines are unknown to FNE is refused   *)
(* like any other, and a wizard may send some of the lines it shows), the  *)
(* configuration, which is active and the company's, and                   *)
(* fne_error_message, which nothing reads.                                 *)
(***************************************************************************)
EXTENDS Integers, Sequences, FiniteSets

CONSTANTS
    Invoices,     \* out_invoice
    Notes,        \* out_refund
    Reverses,     \* reversed_entry_id of each note
    Users,
    MaxVersion,   \* bound: contents of a move
    MaxSigned,    \* bound: documents at FNE
    MaxUnheard    \* bound: documents at FNE whose transaction kept nothing, before one more

ASSUME FneAssumption ==
    /\ Invoices \cap Notes = {}
    /\ Reverses \in [Notes -> Invoices]
    /\ MaxVersion \in Nat \ {0}
    /\ MaxSigned \in Nat
    /\ MaxUnheard \in Nat

VARIABLES
    move,         \* account.move
    shown,        \* the versions of a note that the refund wizards open on it show
    signed,       \* the documents at FNE; a reference is a position in them
    request,      \* the request of each user
    unheard       \* posts FNE handled whose transaction kept nothing (history)

fneVars == <<move, shown, signed, request, unheard>>

Moves == Invoices \cup Notes

\* version: what the document says.  reference: fne_reference and the UUID that
\* comes with it; 0 without a certificate.
Move == [state : {"none", "draft", "posted", "cancel"}, version : 1 .. MaxVersion,
         certified : BOOLEAN, reference : 0 .. MaxSigned]

\* origin: the reference that the URL of a refund names, 0 for an invoice.
Document == [move : Moves, version : 1 .. MaxVersion, origin : 0 .. MaxSigned, wizard : BOOLEAN]

\* op: action_post, or one certification, which raises when it fails.  lines: the
\* version that a wizard shows, 0 without one.  todo: the moves still to certify.
\* read: what the request sees, its own writes included.  began: what it found.
\* posts: documents that it made at FNE.
Request == [op : {"idle", "post", "certify"}, lines : 0 .. MaxVersion, todo : SUBSET Moves,
            wrote : SUBSET Moves, read : [Moves -> Move], began : [Moves -> Move],
            posts : SUBSET (1 .. MaxSigned)]

\* A move that was never made.
NewMove(state) == [state |-> state, version |-> 1, certified |-> FALSE, reference |-> 0]

NoRequest ==
    [op |-> "idle", lines |-> 0, todo |-> {}, wrote |-> {}, posts |-> {},
     read |-> [m \in Moves |-> NewMove("none")], began |-> [m \in Moves |-> NewMove("none")]]

FneInit ==
    /\ move = [m \in Moves |-> NewMove(IF m \in Invoices THEN "draft" ELSE "none")]
    /\ shown = [n \in Notes |-> {}]
    /\ signed = <<>>
    /\ request = [u \in Users |-> NoRequest]
    /\ unheard = {}

-----------------------------------------------------------------------------
(* Invoices and notes, outside FNE.                                        *)

\* A note of a posted invoice, in draft.
ReverseMove(m) ==
    /\ m \in Notes /\ move[m].state = "none"
    /\ move[Reverses[m]].state = "posted"
    /\ move' = [move EXCEPT ![m] = NewMove("draft")]
    /\ UNCHANGED <<shown, signed, request, unheard>>

EditMove(m) ==
    /\ move[m].state = "draft"
    /\ move[m].version < MaxVersion
    /\ move' = [move EXCEPT ![m].version = @ + 1]
    /\ UNCHANGED <<shown, signed, request, unheard>>

\* Variant: a certified move may go back to draft.
ResetToDraft_Certified(m) ==
    /\ move[m].state \in {"posted", "cancel"}
    /\ move' = [move EXCEPT ![m].state = "draft"]
    /\ UNCHANGED <<shown, signed, request, unheard>>

\* button_draft
ResetToDraft(m) ==
    /\ move[m].state \in {"posted", "cancel"}
    /\ ~move[m].certified
    /\ move' = [move EXCEPT ![m].state = "draft"]
    /\ UNCHANGED <<shown, signed, request, unheard>>

\* button_cancel, which takes a posted move through button_draft.
CancelMove(m) ==
    /\ \/ move[m].state = "draft"
       \/ move[m].state = "posted" /\ ~move[m].certified
    /\ move' = [move EXCEPT ![m].state = "cancel"]
    /\ UNCHANGED <<shown, signed, request, unheard>>

-----------------------------------------------------------------------------
(* Certification.                                                          *)

\* Variant: the note of an invoice without certificate is sent too.
Refundable_Any(m, read) == TRUE

\* _certify_fne_refund, the wizard: the invoice of a note has its certificate.
Refundable(m, read) == m \in Notes => read[Reverses[m]].certified

\* Variant: a move that is certified may be certified again.
Certifiable_Again(m, read, lines) ==
    (lines = 0 => read[m].state = "posted") /\ Refundable(m, read)

\* action_certify_fne; action_certify_fne_refund, which looks at no state.
Certifiable(m, read, lines) ==
    /\ ~read[m].certified
    /\ lines = 0 => read[m].state = "posted"
    /\ Refundable(m, read)

Posted(ms) == [m \in Moves |-> IF m \in ms THEN [move[m] EXCEPT !.state = "posted"] ELSE move[m]]

\* action_post posts all the moves, then certifies one after the other those that have
\* no certificate.
PostMoves(u) ==
    \E ms \in SUBSET {m \in Moves : move[m].state = "draft"} \ {{}} :
        /\ request[u].op = "idle"
        /\ request' = [request EXCEPT ![u] =
              [op |-> "post", lines |-> 0, todo |-> {m \in ms : ~move[m].certified}, wrote |-> ms,
               read |-> Posted(ms), began |-> move, posts |-> {}]]
        /\ UNCHANGED <<move, shown, signed, unheard>>

Certifying(lines, m) ==
    [op |-> "certify", lines |-> lines, todo |-> {m}, wrote |-> {}, read |-> move,
     began |-> move, posts |-> {}]

\* The button of a form, which may be out of date.
CertifyMove(u, m) ==
    /\ request[u].op = "idle"
    /\ Certifiable(m, move, 0)
    /\ request' = [request EXCEPT ![u] = Certifying(0, m)]
    /\ UNCHANGED <<move, shown, signed, unheard>>

\* The refund wizard, which is in the Action menu of every form (binding_model_id): it
\* takes the lines of the note as it opens.
OpenWizard(n) ==
    /\ move[n].state # "none"
    /\ move[Reverses[n]].certified
    /\ shown' = [shown EXCEPT ![n] = @ \cup {move[n].version}]
    /\ UNCHANGED <<move, signed, request, unheard>>

CertifyInWizard(u, n, lines) ==
    /\ request[u].op = "idle"
    /\ Certifiable(n, move, lines)
    /\ request' = [request EXCEPT ![u] = Certifying(lines, n)]
    /\ UNCHANGED <<move, shown, signed, unheard>>

\* Variant: the URL of a refund names the invoice by its id in Odoo.
DocumentOf_Local(m, read, lines) ==
    [move |-> m, version |-> IF lines = 0 THEN read[m].version ELSE lines, wizard |-> lines # 0,
     origin |-> IF m \in Notes THEN Reverses[m] ELSE 0]

DocumentOf(m, read, lines) ==
    [move |-> m, version |-> IF lines = 0 THEN read[m].version ELSE lines, wizard |-> lines # 0,
     origin |-> IF m \in Notes THEN read[Reverses[m]].reference ELSE 0]

\* The request ends and keeps nothing.
RollBack(u, posts) ==
    /\ request' = [request EXCEPT ![u] = NoRequest]
    /\ unheard' = unheard \cup posts

\* _process_fne_success_response
WithCertificate(r, m, reference) ==
    [r EXCEPT !.todo = @ \ {m},
              !.wrote = @ \cup {m},
              !.read[m] = [@ EXCEPT !.certified = TRUE, !.reference = reference],
              !.posts = @ \cup {reference}]

\* requests.post, answered.
PostAnswered(u, m) ==
    LET reference == Len(signed) + 1 IN
    /\ Certifiable(m, request[u].read, request[u].lines)
    /\ Len(signed) < MaxSigned
    /\ signed' = Append(signed, DocumentOf(m, request[u].read, request[u].lines))
    /\ request' = [request EXCEPT ![u] = WithCertificate(@, m, reference)]
    /\ UNCHANGED <<move, shown, unheard>>

\* The bound on documents that no transaction kept.
MayLose == Cardinality(unheard) < MaxUnheard

\* A failure raises.  action_post logs it and goes on with the next move; the
\* certification of one move ends.
Fails(u, m, posts) ==
    IF request[u].op = "post"
    THEN /\ request' = [request EXCEPT ![u].todo = @ \ {m}]
         /\ unheard' = unheard \cup posts
    ELSE RollBack(u, request[u].posts \cup posts)

\* Not sent, refused, or no connection.
PostRefused(u, m) ==
    /\ Fails(u, m, {})
    /\ UNCHANGED <<move, shown, signed>>

\* FNE signs, and the answer is late, lost or unreadable.
PostUnheard(u, m) ==
    /\ Certifiable(m, request[u].read, request[u].lines)
    /\ Len(signed) < MaxSigned /\ MayLose
    /\ signed' = Append(signed, DocumentOf(m, request[u].read, request[u].lines))
    /\ Fails(u, m, {Len(signed) + 1})
    /\ UNCHANGED <<move, shown>>

\* A row that the request writes was changed since the request began.
Conflict(u) == \E m \in request[u].wrote : move[m] # request[u].began[m]

CommitRequest(u) ==
    /\ request[u].op # "idle" /\ request[u].todo = {}
    /\ ~Conflict(u)
    /\ move' = [m \in Moves |->
          IF m \in request[u].wrote THEN request[u].read[m] ELSE move[m]]
    /\ request' = [request EXCEPT ![u] = NoRequest]
    /\ UNCHANGED <<shown, signed, unheard>>

\* The commit is refused, or the request is interrupted; when it is run again
\* (Odoo's retrying), that is a new PostMoves or CertifyMove.
AbortRequest(u) ==
    /\ request[u].op # "idle"
    /\ request[u].posts # {} => MayLose
    /\ RollBack(u, request[u].posts)
    /\ UNCHANGED <<move, shown, signed>>

-----------------------------------------------------------------------------
FneNext ==
    \/ \E m \in Moves : ReverseMove(m) \/ EditMove(m) \/ ResetToDraft(m) \/ CancelMove(m)
    \/ \E n \in Notes : OpenWizard(n)
    \/ \E u \in Users :
          \/ PostMoves(u) \/ CommitRequest(u) \/ AbortRequest(u)
          \/ \E m \in Moves : CertifyMove(u, m)
          \/ \E n \in Notes : \E lines \in shown[n] : CertifyInWizard(u, n, lines)
          \/ \E m \in request[u].todo :
                PostAnswered(u, m) \/ PostRefused(u, m) \/ PostUnheard(u, m)

FneSpec == FneInit /\ [][FneNext]_fneVars

-----------------------------------------------------------------------------
\* Type invariant of moves, documents and requests.
FneTypeOK ==
    /\ move \in [Moves -> Move]
    /\ shown \in [Notes -> SUBSET (1 .. MaxVersion)]
    /\ signed \in Seq(Document) /\ Len(signed) <= MaxSigned
    /\ request \in [Users -> Request]
    /\ unheard \subseteq DOMAIN signed

\* What a certified move says is what FNE signed under its reference, and it stays posted:
\* whoever resets, edits, cancels or certifies it while a post is on its way.  Not so of a
\* note that the refund wizard certified, whose state nobody looked at and whose lines are
\* those the wizard opened with: FNE signed what some wizard showed, the note may say
\* something else since, be a draft, and be edited or cancelled after.
CertifiedIsAsSigned ==
    \A m \in Moves : move[m].certified =>
        /\ move[m].reference \in DOMAIN signed
        /\ LET document == signed[move[m].reference] IN
              /\ document.move = m
              /\ IF document.wizard
                 THEN m \in Notes /\ document.version \in shown[m]
                 ELSE move[m].state = "posted" /\ document.version = move[m].version

\* A certified note refunds, at FNE, the document that its invoice refers to.
RefundIsOfItsInvoice ==
    \A m \in Notes : move[m].certified =>
        /\ move[Reverses[m]].certified
        /\ signed[move[m].reference].origin = move[Reverses[m]].reference

InFlight == UNION {request[u].posts : u \in Users}

\* A document at FNE that no move refers to comes from a lost answer or from a
\* request that kept nothing: never from a certificate that another replaced.
StrayIsUnheard ==
    \A r \in DOMAIN signed :
        r \in unheard \cup InFlight \/ move[signed[r].move].reference = r

\* The invariant of certificates: types, moves that are what FNE signed, notes that refund
\* what their invoice refers to, and documents that no move refers to.
FneInv == FneTypeOK /\ CertifiedIsAsSigned /\ RefundIsOfItsInvoice /\ StrayIsUnheard
=============================================================================
