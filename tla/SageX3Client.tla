---------------------------- MODULE SageX3Client ----------------------------
(***************************************************************************)
(* The HTTP client of custom_api_sage_x3/models/sage_x3_mixin.py: the      *)
(* bearer token cached per worker process, the login, the retry loops of   *)
(* _safe_post and _safe_get.  A process may serve requests with several    *)
(* threads, which share its cache: every access to the cache is a step.    *)
(* One company: caches of different companies do not interact.             *)
(***************************************************************************)
EXTENDS Naturals, TLC

CONSTANTS
    Threads,     \* threads that serve requests
    Processes,   \* worker processes
    ProcessOf,   \* the process of a thread
    Tokens,      \* bearer tokens X3 can issue
    NoToken,     \* no token: nothing cached, no header yet
    MaxRetries,  \* MAX_RETRIES
    TokenTTL     \* TOKEN_TTL, in clock ticks

ASSUME ClientAssumption ==
    /\ ProcessOf \in [Threads -> Processes]
    /\ NoToken \notin Tokens
    /\ MaxRetries \in Nat /\ MaxRetries >= 2
    /\ TokenTTL \in Nat \ {0}

VARIABLES
    cache,       \* _TOKEN_CACHE of each process
    ttl,         \* what is left of _TOKEN_EXPIRY, 0 when expired or absent
    good,        \* tokens X3 honours
    call         \* the call of each thread

clientVars == <<cache, ttl, good, call>>

MaybeToken == Tokens \union {NoToken}

\* attempt: index of the loop; header: token sent; fresh, life: token just
\* issued to this thread and what is left of its lifetime; handled: times X3
\* handled the request; renewing: in the 401 branch; renewed: a turn of this call
\* was spent there (history); fault, revoked: whether X3 or the network failed,
\* or a token was revoked, during the call.
Call == [pc : {"idle", "auth", "hit", "login", "store", "send", "returned", "raised"},
         verb : {"post", "get"}, attempt : 0 .. MaxRetries, header : MaybeToken,
         fresh : MaybeToken, life : 0 .. TokenTTL, handled : 0 .. MaxRetries,
         renewing : BOOLEAN, renewed : BOOLEAN, fault : BOOLEAN, revoked : BOOLEAN]

NoCall == [pc |-> "idle", verb |-> "post", attempt |-> 0, header |-> NoToken,
           fresh |-> NoToken, life |-> 0, handled |-> 0, renewing |-> FALSE,
           renewed |-> FALSE, fault |-> FALSE, revoked |-> FALSE]

Init ==
    /\ cache = [p \in Processes |-> NoToken]
    /\ ttl = [p \in Processes |-> 0]
    /\ good = {}
    /\ call = [t \in Threads |-> NoCall]

-----------------------------------------------------------------------------
(* Authentication with the cache.                                          *)

Start(t, verb) ==
    /\ call[t].pc = "idle"
    /\ call' = [call EXCEPT ![t].pc = "auth", ![t].verb = verb]
    /\ UNCHANGED <<cache, ttl, good>>

\* The test of the cache; on a miss the login dates the token from now.
CheckCache(t) ==
    LET p == ProcessOf[t] IN
    /\ call[t].pc = "auth"
    /\ call' = IF cache[p] # NoToken /\ ttl[p] > 0
               THEN [call EXCEPT ![t].pc = "hit"]
               ELSE [call EXCEPT ![t].pc = "login", ![t].life = TokenTTL]
    /\ UNCHANGED <<cache, ttl, good>>

\* Variant: the retry loop runs once more than it should.
NextAttempt_OneTooMany(c) ==
    IF c.attempt < MaxRetries
    THEN [c EXCEPT !.attempt = @ + 1, !.pc = "send"]
    ELSE [c EXCEPT !.pc = "raised"]

\* Variant: the turn spent on a renewal is not used up.
NextAttempt_RenewalIsFree(c) ==
    IF c.renewed /\ c.attempt = 0 THEN [c EXCEPT !.pc = "send"]
    ELSE IF c.attempt + 1 < MaxRetries
    THEN [c EXCEPT !.attempt = @ + 1, !.pc = "send"]
    ELSE [c EXCEPT !.pc = "raised"]

\* The end of one turn of the retry loop.
NextAttempt(c) ==
    IF c.attempt + 1 < MaxRetries
    THEN [c EXCEPT !.attempt = @ + 1, !.pc = "send"]
    ELSE [c EXCEPT !.pc = "raised"]

\* The read after the test: another thread may have emptied the cache since,
\* and the KeyError ends the call, or the turn if it comes from the 401 branch.
ReadCache(t) ==
    LET token == cache[ProcessOf[t]] IN
    /\ call[t].pc = "hit"
    /\ call' = [call EXCEPT ![t] =
          IF token # NoToken
          THEN IF @.renewing
               THEN NextAttempt([@ EXCEPT !.header = token, !.renewing = FALSE])
               ELSE [@ EXCEPT !.header = token, !.pc = "send"]
          ELSE IF @.renewing
               THEN NextAttempt([@ EXCEPT !.renewing = FALSE])
               ELSE [@ EXCEPT !.pc = "raised"]]
    /\ UNCHANGED <<cache, ttl, good>>

\* Tokens somebody in Odoo holds; any other one is as good as new.
InUse == {cache[p] : p \in Processes}
              \union {call[t].header : t \in Threads}
              \union {call[t].fresh : t \in Threads}

LoginOk(t) ==
    /\ call[t].pc = "login"
    /\ \E token \in Tokens \ InUse :
         /\ good' = good \union {token}
         /\ call' = [call EXCEPT ![t].pc = "store", ![t].fresh = token]
    /\ UNCHANGED <<cache, ttl>>

\* Refused, unreachable or without a token in the answer: None.  The 401
\* branch goes on with the header it has.
LoginFails(t) ==
    /\ call[t].pc = "login"
    /\ call' = [call EXCEPT ![t] =
          LET failed == [@ EXCEPT !.fault = TRUE, !.life = 0] IN
          IF @.renewing THEN NextAttempt([failed EXCEPT !.renewing = FALSE])
                        ELSE [failed EXCEPT !.pc = "raised"]]
    /\ UNCHANGED <<cache, ttl, good>>

Store(t) ==
    LET p == ProcessOf[t] IN
    /\ call[t].pc = "store"
    /\ cache' = [cache EXCEPT ![p] = call[t].fresh]
    /\ ttl' = [ttl EXCEPT ![p] = call[t].life]
    /\ call' = [call EXCEPT ![t] =
          LET stored == [@ EXCEPT !.header = call[t].fresh, !.fresh = NoToken, !.life = 0] IN
          IF @.renewing THEN NextAttempt([stored EXCEPT !.renewing = FALSE])
                        ELSE [stored EXCEPT !.pc = "send"]]
    /\ UNCHANGED good

-----------------------------------------------------------------------------
(* One turn of the retry loops.                                            *)

\* 200 or 201: the answer is returned.
Answered(t) ==
    /\ call[t].pc = "send"
    /\ call[t].header \in good
    /\ call' = [call EXCEPT ![t].pc = "returned", ![t].handled = @ + 1]
    /\ UNCHANGED <<cache, ttl, good>>

Failed(c) == NextAttempt([c EXCEPT !.fault = TRUE])

\* X3 handled the request, but a timeout, a network error or an error status
\* is all the client sees.
AnswerLost(t) ==
    LET handled == [call[t] EXCEPT !.handled = @ + 1] IN
    /\ call[t].pc = "send"
    /\ call[t].header \in good
    /\ call' = [call EXCEPT ![t] = Failed(handled)]
    /\ UNCHANGED <<cache, ttl, good>>

NoAnswer(t) ==
    /\ call[t].pc = "send"
    /\ call' = [call EXCEPT ![t] = Failed(@)]
    /\ UNCHANGED <<cache, ttl, good>>

\* Variant: the token is kept when X3 answers 401.
RenewsOn401_Never(c) == FALSE

\* _safe_post renews the token on the first turn only, _safe_get never.
RenewsOn401(c) == c.verb = "post" /\ c.attempt = 0

Unauthorized(t) ==
    LET p == ProcessOf[t] IN
    /\ call[t].pc = "send"
    /\ call[t].header \notin good
    /\ IF RenewsOn401(call[t])
       THEN /\ cache' = [cache EXCEPT ![p] = NoToken]
            /\ ttl' = [ttl EXCEPT ![p] = 0]
            /\ call' = [call EXCEPT ![t].pc = "auth", ![t].renewing = TRUE,
                                    ![t].renewed = TRUE]
       ELSE /\ call' = [call EXCEPT ![t] = NextAttempt(@)]
            /\ UNCHANGED <<cache, ttl>>
    /\ UNCHANGED good

\* The caller takes the answer or the exception.
Finish(t) ==
    /\ call[t].pc \in {"returned", "raised"}
    /\ call' = [call EXCEPT ![t] = NoCall]
    /\ UNCHANGED <<cache, ttl, good>>

-----------------------------------------------------------------------------
(* The environment.                                                        *)

\* X3 forgets a token: restart, its own expiry.
Revoke(token) ==
    /\ token \in good \intersect InUse
    /\ good' = good \ {token}
    /\ call' = [t \in Threads |-> IF call[t].pc = "idle" THEN call[t]
                                  ELSE [call[t] EXCEPT !.revoked = TRUE]]
    /\ UNCHANGED <<cache, ttl>>

Tick ==
    /\ \/ \E p \in Processes : ttl[p] > 0
       \/ \E t \in Threads : call[t].life > 0
    /\ ttl' = [p \in Processes |-> IF ttl[p] > 0 THEN ttl[p] - 1 ELSE 0]
    /\ call' = [t \in Threads |-> [call[t] EXCEPT !.life = IF @ > 0 THEN @ - 1 ELSE 0]]
    /\ UNCHANGED <<cache, good>>

ThreadStep(t) ==
    \/ CheckCache(t) \/ ReadCache(t) \/ LoginOk(t) \/ LoginFails(t) \/ Store(t)
    \/ Answered(t) \/ AnswerLost(t) \/ NoAnswer(t) \/ Unauthorized(t)

Next ==
    \/ \E t \in Threads :
          \/ \E verb \in {"post", "get"} : Start(t, verb)
          \/ ThreadStep(t)
          \/ Finish(t)
    \/ \E token \in Tokens : Revoke(token)
    \/ Tick

Spec == Init /\ [][Next]_clientVars

\* Every request of the client has a timeout and every wait between attempts
\* a length, so that a running call is never suspended for ever; time passes.
Fairness == /\ \A t \in Threads : WF_clientVars(ThreadStep(t))
            /\ WF_clientVars(Tick)

FairSpec == Spec /\ Fairness

-----------------------------------------------------------------------------
(* Properties.                                                             *)

\* Every variable has its type.
TypeOK ==
    /\ cache \in [Processes -> MaybeToken]
    /\ ttl \in [Processes -> 0 .. TokenTTL]
    /\ good \subseteq Tokens
    /\ call \in [Threads -> Call]

\* The client promises RemoteCall to its callers: no more handled requests
\* than attempts, none left out when it returns, whatever the renewals.
Remote == INSTANCE RemoteCall WITH
    Callers <- Threads,
    Limit <- MaxRetries,
    phase <- [t \in Threads |->
                IF call[t].pc \in {"idle", "returned", "raised"}
                THEN call[t].pc ELSE "calling"],
    handled <- [t \in Threads |-> call[t].handled]

ImplementsRemoteCall == Remote!CallSpec

\* Turns spent on a renewal, and the turn in progress when it is spent: the call is
\* over, or it is renewing.
Renewals(c) == IF c.renewed THEN 1 ELSE 0
LastTurn(c) == IF c.pc \in {"returned", "raised"} \/ c.renewing THEN 1 ELSE 0

\* A turn of the loop is spent once: on a renewal of the token, after which it is
\* not available to the request any more, or on a request that X3 may handle.  So
\* the renewal of a call and the times X3 handled it fit together in the turns it
\* has taken, whatever the cache and the other threads do meanwhile; a post that
\* renewed its token is handled at most MAX_RETRIES - 1 times.
HandledWithinTurns ==
    \A t \in Threads :
        call[t].handled + Renewals(call[t]) <= call[t].attempt + LastTurn(call[t])

\* In a process of one thread a post fails only if X3 or the network failed, or
\* X3 revoked a token while it was running: a token that was already stale when
\* the call started is not enough.  With several threads it can be: the renewal
\* may take from the cache a token another thread stored after its revocation.
StaleTokenDoesNotFailPost ==
    \A t \in Threads :
        /\ call[t].verb = "post"
        /\ call[t].pc = "raised"
        => call[t].fault \/ call[t].revoked

\* Every call ends: the retries are bounded and a token is renewed once.
CallsEnd == \A t \in Threads : call[t].pc = "auth" ~> call[t].pc \in {"returned", "raised"}

-----------------------------------------------------------------------------
(* The instance of Threaded.cfg: a threaded server is one process.         *)

OneProcess == [t \in Threads |-> CHOOSE p \in Processes : TRUE]

TokenSymmetry == Permutations(Tokens)
=============================================================================
