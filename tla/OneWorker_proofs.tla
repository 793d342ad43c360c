-------------------------- MODULE OneWorker_proofs --------------------------
(***************************************************************************)
(* Proofs about SageX3Client, DeliveryImport and TillLoyalty, for any      *)
(* threads, processes, tokens, orders, deliveries, imports, batch sizes,   *)
(* tills' orders, clients and carts, and any bounds.                       *)
(***************************************************************************)
EXTENDS MCOneWorker, Sums

-----------------------------------------------------------------------------
(* The client.  Every step changes the call of one thread, or, for Revoke  *)
(* and Tick, the fields of all calls that the loop does not look at.  So   *)
(* the invariant and the refinement are stated of one call, and each       *)
(* action is reduced to what it does to that call.                         *)
Ended(c) == c.pc \in {"returned", "raised"}

\* One call: typed, within its turns, and with no more handled requests and
\* renewals than turns it has taken; it renews only on its way to a token.
Bounded(c) ==
    /\ c \in Call
    /\ c.attempt < MaxRetries
    /\ c.handled + Renewals(c) <= c.attempt + LastTurn(c)
    /\ c.pc \in {"idle", "send", "returned", "raised"} => ~c.renewing

CacheOK ==
    /\ cache \in [Processes -> MaybeToken]
    /\ ttl \in [Processes -> 0 .. TokenTTL]
    /\ good \subseteq Tokens

IInv ==
    /\ CacheOK
    /\ call \in [Threads -> Call]
    /\ \A t \in Threads : Bounded(call[t])

\* What a step may do to a call: nothing that matters, begin, be handled, raise,
\* end.
CallStep(c, d) ==
    LET calling(e) == e.pc \notin {"idle", "returned", "raised"} IN
    \/ /\ d.handled = c.handled
       /\ (calling(c) /\ calling(d)) \/ d.pc = c.pc
    \/ /\ d.handled = c.handled
       /\ c.pc = "idle" /\ calling(d)
    \/ /\ d.handled = c.handled + 1
       /\ calling(c) /\ d.pc # "idle"
    \/ /\ d.handled = c.handled
       /\ calling(c) /\ d.pc = "raised"
    \/ /\ d.handled = 0
       /\ Ended(c) /\ d.pc = "idle"

-----------------------------------------------------------------------------
LEMMA NoCallBounded == Bounded(NoCall)
BY ClientAssumption DEF Bounded, NoCall, Call, Renewals, LastTurn, MaybeToken

\* The end of a turn keeps a call within its turns, even if the turn was one X3
\* handled.
LEMMA NextAttemptBounded ==
    ASSUME NEW c \in Call, c.attempt < MaxRetries, ~c.renewing,
           c.handled + Renewals(c) <= c.attempt + 1
    PROVE  /\ Bounded(NextAttempt(c))
           /\ NextAttempt(c).handled = c.handled
           /\ NextAttempt(c).pc \in {"send", "raised"}
<1>1. /\ MaxRetries \in Nat /\ c.attempt \in Nat /\ c.handled \in 0 .. MaxRetries
      /\ Renewals(c) \in {0, 1}
  BY ClientAssumption DEF Call, Renewals
<1>2. CASE c.attempt + 1 < MaxRetries
  <2> DEFINE d == [c EXCEPT !.attempt = @ + 1, !.pc = "send"]
  <2>1. NextAttempt(c) = d
    BY <1>2 DEF NextAttempt
  <2>2. c.attempt + 1 \in 0 .. MaxRetries
    BY <1>1, <1>2
  <2>3. d \in Call
    BY <2>2 DEF Call
  <2>4. /\ d.attempt = c.attempt + 1 /\ d.handled = c.handled /\ d.pc = "send"
        /\ d.renewing = c.renewing /\ Renewals(d) = Renewals(c)
    BY DEF Call, Renewals
  <2> HIDE DEF d
  <2>5. LastTurn(d) = 0
    BY <2>4 DEF LastTurn
  <2> QED
    BY <1>1, <1>2, <2>1, <2>3, <2>4, <2>5 DEF Bounded
<1>3. CASE ~(c.attempt + 1 < MaxRetries)
  <2> DEFINE d == [c EXCEPT !.pc = "raised"]
  <2>1. NextAttempt(c) = d
    BY <1>3 DEF NextAttempt
  <2>2. d \in Call
    BY DEF Call
  <2>3. /\ d.attempt = c.attempt /\ d.handled = c.handled /\ d.pc = "raised"
        /\ d.renewing = c.renewing /\ Renewals(d) = Renewals(c)
    BY DEF Call, Renewals
  <2> HIDE DEF d
  <2>4. LastTurn(d) = 1
    BY <2>3 DEF LastTurn
  <2> QED
    BY <2>1, <2>2, <2>3, <2>4 DEF Bounded
<1> QED
  BY <1>2, <1>3

\* A thread's step replaces its call by a bounded one, in a way RemoteCall knows.
ThreadMoves(t) ==
    \E d \in Call :
        /\ call' = [call EXCEPT ![t] = d]
        /\ Bounded(d)
        /\ CallStep(call[t], d)

LEMMA StartMoves ==
    ASSUME IInv, NEW t \in Threads, NEW verb \in {"post", "get"}, Start(t, verb)
    PROVE  CacheOK' /\ ThreadMoves(t)
<1> DEFINE d == [call[t] EXCEPT !.pc = "auth", !.verb = verb]
<1>1. CacheOK'
  BY DEF IInv, CacheOK, Start
<1>2. call' = [call EXCEPT ![t] = d] /\ call[t] \in Call /\ Bounded(call[t]) /\ call[t].pc = "idle"
  BY DEF IInv, Start
<1>3. d \in Call /\ Bounded(d) /\ CallStep(call[t], d)
  BY <1>2, ClientAssumption DEF Call, Bounded, Ended, CallStep, Renewals, LastTurn
<1> QED
  BY <1>1, <1>2, <1>3 DEF ThreadMoves

\* A step that goes on, raises, or ends the turn of a call c that was handled
\* as often as before.
LEMMA TurnMoves ==
    ASSUME NEW t \in Threads, call[t] \in Call, Bounded(call[t]),
           call[t].pc \notin {"idle", "returned", "raised"},
           NEW c \in Call, c.attempt = call[t].attempt, c.handled = call[t].handled,
           c.renewed = call[t].renewed,
           \/ /\ c.pc \notin {"idle", "returned"}
              /\ c.renewing = call[t].renewing
              /\ c.pc \in {"send", "raised"} => ~c.renewing
              /\ call' = [call EXCEPT ![t] = c]
           \/ ~c.renewing /\ call' = [call EXCEPT ![t] = NextAttempt(c)]
    PROVE  ThreadMoves(t)
<1>0. /\ Renewals(c) = Renewals(call[t]) /\ Renewals(c) \in {0, 1}
      /\ LastTurn(call[t]) \in {0, 1} /\ LastTurn(c) \in {0, 1}
      /\ c.attempt \in Nat /\ c.handled \in Nat
  BY ClientAssumption DEF Renewals, LastTurn, Call
<1>1. CASE /\ c.pc \notin {"idle", "returned"}
           /\ c.renewing = call[t].renewing
           /\ c.pc \in {"send", "raised"} => ~c.renewing
           /\ call' = [call EXCEPT ![t] = c]
  <2>1. LastTurn(c) >= LastTurn(call[t])
    BY <1>1 DEF LastTurn
  <2>2. c.handled + Renewals(c) <= c.attempt + LastTurn(c)
    BY <1>0, <2>1 DEF Bounded
  <2>3. Bounded(c) /\ CallStep(call[t], c)
    BY <1>1, <2>2 DEF Bounded, Ended, CallStep, Call
  <2> QED
    BY <1>1, <2>3 DEF ThreadMoves
<1>2. CASE ~c.renewing /\ call' = [call EXCEPT ![t] = NextAttempt(c)]
  <2> DEFINE d == NextAttempt(c)
  <2>1. c.attempt < MaxRetries /\ c.handled + Renewals(c) <= c.attempt + 1
    BY <1>0, ClientAssumption DEF Bounded, Call
  <2>2. Bounded(d) /\ d.handled = c.handled /\ d.pc \in {"send", "raised"}
    BY <1>2, <2>1, NextAttemptBounded
  <2>3. d \in Call /\ CallStep(call[t], d)
    BY <2>2 DEF Bounded, CallStep
  <2> QED
    BY <1>2, <2>2, <2>3 DEF ThreadMoves
<1> QED
  BY <1>1, <1>2

LEMMA CheckCacheMoves ==
    ASSUME IInv, NEW t \in Threads, CheckCache(t)
    PROVE  CacheOK' /\ ThreadMoves(t)
<1> DEFINE hit  == [call[t] EXCEPT !.pc = "hit"]
           miss == [call[t] EXCEPT !.pc = "login", !.life = TokenTTL]
<1>1. CacheOK'
  BY DEF IInv, CacheOK, CheckCache
<1>2. call[t] \in Call /\ Bounded(call[t]) /\ call[t].pc = "auth"
  BY DEF IInv, CheckCache
<1>3. call' = [call EXCEPT ![t] = hit] \/ call' = [call EXCEPT ![t] = miss]
  BY DEF CheckCache
<1>4. /\ hit \in Call /\ miss \in Call
      /\ hit.pc = "hit" /\ miss.pc = "login"
      /\ hit.attempt = call[t].attempt /\ miss.attempt = call[t].attempt
      /\ hit.handled = call[t].handled /\ miss.handled = call[t].handled
      /\ hit.renewed = call[t].renewed /\ miss.renewed = call[t].renewed
      /\ hit.renewing = call[t].renewing /\ miss.renewing = call[t].renewing
  <2>1. TokenTTL \in 0 .. TokenTTL
    BY ClientAssumption
  <2> QED
    BY <1>2, <2>1 DEF Call
<1>5. ThreadMoves(t)
  <2> HIDE DEF hit, miss
  <2> QED
    BY <1>2, <1>3, <1>4, TurnMoves
<1> QED
  BY <1>1, <1>5

LEMMA ReadCacheMoves ==
    ASSUME IInv, NEW t \in Threads, ReadCache(t)
    PROVE  CacheOK' /\ ThreadMoves(t)
<1> DEFINE token == cache[ProcessOf[t]]
           c  == call[t]
           e1 == [c EXCEPT !.header = token, !.renewing = FALSE]
           e2 == [c EXCEPT !.header = token, !.pc = "send"]
           e3 == [c EXCEPT !.renewing = FALSE]
           e4 == [c EXCEPT !.pc = "raised"]
<1>1. CacheOK'
  BY DEF IInv, CacheOK, ReadCache
<1>2. c \in Call /\ Bounded(c) /\ c.pc = "hit" /\ token \in MaybeToken
  BY ClientAssumption DEF IInv, ReadCache, CacheOK
<1>3. \/ call' = [call EXCEPT ![t] = NextAttempt(e1)]
      \/ ~c.renewing /\ call' = [call EXCEPT ![t] = e2]
      \/ call' = [call EXCEPT ![t] = NextAttempt(e3)]
      \/ ~c.renewing /\ call' = [call EXCEPT ![t] = e4]
  BY DEF ReadCache, IInv
<1>4. /\ e1 \in Call /\ e1.attempt = c.attempt /\ e1.handled = c.handled
      /\ e1.renewed = c.renewed /\ ~e1.renewing
      /\ e2 \in Call /\ e2.attempt = c.attempt /\ e2.handled = c.handled /\ e2.pc = "send"
      /\ e2.renewed = c.renewed /\ e2.renewing = c.renewing
      /\ e3 \in Call /\ e3.attempt = c.attempt /\ e3.handled = c.handled
      /\ e3.renewed = c.renewed /\ ~e3.renewing
      /\ e4 \in Call /\ e4.attempt = c.attempt /\ e4.handled = c.handled /\ e4.pc = "raised"
      /\ e4.renewed = c.renewed /\ e4.renewing = c.renewing
  BY <1>2 DEF Call
<1>5. ThreadMoves(t)
  <2> HIDE DEF e1, e2, e3, e4
  <2>1. CASE call' = [call EXCEPT ![t] = NextAttempt(e1)]
    BY <2>1, <1>2, <1>4, TurnMoves
  <2>2. CASE ~c.renewing /\ call' = [call EXCEPT ![t] = e2]
    BY <2>2, <1>2, <1>4, TurnMoves
  <2>3. CASE call' = [call EXCEPT ![t] = NextAttempt(e3)]
    BY <2>3, <1>2, <1>4, TurnMoves
  <2>4. CASE ~c.renewing /\ call' = [call EXCEPT ![t] = e4]
    BY <2>4, <1>2, <1>4, TurnMoves
  <2> QED
    BY <1>3, <2>1, <2>2, <2>3, <2>4
<1> QED
  BY <1>1, <1>5

LEMMA LoginMoves ==
    ASSUME IInv, NEW t \in Threads, LoginOk(t) \/ LoginFails(t)
    PROVE  CacheOK' /\ ThreadMoves(t)
<1>1. call[t] \in Call /\ Bounded(call[t]) /\ call[t].pc = "login"
  BY DEF IInv, LoginOk, LoginFails
<1>2. CASE LoginOk(t)
  <2>1. PICK token \in Tokens : /\ good' = good \union {token}
                                /\ call' = [call EXCEPT ![t].pc = "store", ![t].fresh = token]
    BY <1>2 DEF LoginOk
  <2> DEFINE d == [call[t] EXCEPT !.pc = "store", !.fresh = token]
  <2>2. CacheOK'
    BY <1>2, <2>1 DEF IInv, CacheOK, LoginOk
  <2>3. call' = [call EXCEPT ![t] = d]
    BY <2>1
  <2>4. /\ d \in Call /\ d.pc = "store"
        /\ d.attempt = call[t].attempt /\ d.handled = call[t].handled
        /\ d.renewed = call[t].renewed /\ d.renewing = call[t].renewing
    BY <1>1 DEF Call, MaybeToken
  <2>5. ThreadMoves(t)
    <3> HIDE DEF d
    <3> QED
      BY <1>1, <2>3, <2>4, TurnMoves
  <2> QED
    BY <2>2, <2>5
<1>3. CASE LoginFails(t)
  <2> DEFINE c  == [call[t] EXCEPT !.fault = TRUE, !.life = 0]
             e1 == [c EXCEPT !.renewing = FALSE]
             e2 == [c EXCEPT !.pc = "raised"]
  <2>1. CacheOK'
    BY <1>3 DEF IInv, CacheOK, LoginFails
  <2>2. \/ call' = [call EXCEPT ![t] = NextAttempt(e1)]
        \/ ~call[t].renewing /\ call' = [call EXCEPT ![t] = e2]
    BY <1>3, <1>1 DEF LoginFails, IInv, Call
  <2>3. /\ c \in Call /\ c.attempt = call[t].attempt /\ c.handled = call[t].handled
        /\ c.renewed = call[t].renewed /\ c.renewing = call[t].renewing
    <3>1. 0 \in 0 .. TokenTTL
      BY ClientAssumption
    <3> QED
      BY <1>1, <3>1 DEF Call
  <2>4. /\ e1 \in Call /\ e1.attempt = call[t].attempt /\ e1.handled = call[t].handled
        /\ e2 \in Call /\ e2.attempt = call[t].attempt /\ e2.handled = call[t].handled
        /\ e2.pc = "raised" /\ e2.renewing = call[t].renewing
        /\ e1.renewed = call[t].renewed /\ e2.renewed = call[t].renewed /\ ~e1.renewing
    <3> HIDE DEF c
    <3> QED
      BY <2>3 DEF Call
  <2>5. ThreadMoves(t)
    <3> HIDE DEF e1, e2
    <3>1. CASE call' = [call EXCEPT ![t] = NextAttempt(e1)]
      BY <3>1, <1>1, <2>4, TurnMoves
    <3>2. CASE ~call[t].renewing /\ call' = [call EXCEPT ![t] = e2]
      BY <3>2, <1>1, <2>4, TurnMoves
    <3> QED
      BY <2>2, <3>1, <3>2
  <2> QED
    BY <2>1, <2>5
<1> QED
  BY <1>2, <1>3

LEMMA StoreMoves ==
    ASSUME IInv, NEW t \in Threads, Store(t)
    PROVE  CacheOK' /\ ThreadMoves(t)
<1> DEFINE c  == [call[t] EXCEPT !.header = call[t].fresh, !.fresh = NoToken, !.life = 0]
           e1 == [c EXCEPT !.renewing = FALSE]
           e2 == [c EXCEPT !.pc = "send"]
<1>1. call[t] \in Call /\ Bounded(call[t]) /\ call[t].pc = "store"
  BY DEF IInv, Store
<1>2. CacheOK'
  BY <1>1 DEF IInv, CacheOK, Store, Call
<1>3. \/ call' = [call EXCEPT ![t] = NextAttempt(e1)]
      \/ ~call[t].renewing /\ call' = [call EXCEPT ![t] = e2]
  BY <1>1 DEF Store, IInv, Call
<1>4. /\ c \in Call /\ c.attempt = call[t].attempt /\ c.handled = call[t].handled
      /\ c.renewed = call[t].renewed /\ c.renewing = call[t].renewing
  <2>1. 0 \in 0 .. TokenTTL /\ NoToken \in MaybeToken
    BY ClientAssumption DEF MaybeToken
  <2> QED
    BY <1>1, <2>1 DEF Call
<1>5. /\ e1 \in Call /\ e1.attempt = call[t].attempt /\ e1.handled = call[t].handled
      /\ e2 \in Call /\ e2.attempt = call[t].attempt /\ e2.handled = call[t].handled
      /\ e2.pc = "send" /\ e2.renewing = call[t].renewing
      /\ e1.renewed = call[t].renewed /\ e2.renewed = call[t].renewed /\ ~e1.renewing
  <2> HIDE DEF c
  <2> QED
    BY <1>4 DEF Call
<1>6. ThreadMoves(t)
  <2> HIDE DEF e1, e2
  <2>1. CASE call' = [call EXCEPT ![t] = NextAttempt(e1)]
    BY <2>1, <1>1, <1>5, TurnMoves
  <2>2. CASE ~call[t].renewing /\ call' = [call EXCEPT ![t] = e2]
    BY <2>2, <1>1, <1>5, TurnMoves
  <2> QED
    BY <1>3, <2>1, <2>2
<1> QED
  BY <1>2, <1>6

\* One more handled request fits the turn the call is in.
LEMMA HandledOnce ==
    ASSUME NEW c \in Call, Bounded(c), c.pc = "send"
    PROVE  /\ c.handled + 1 \in 0 .. MaxRetries
           /\ c.handled + 1 + Renewals(c) <= c.attempt + 1
           /\ ~c.renewing
<1>1. Renewals(c) \in {0, 1} /\ LastTurn(c) = 0
  BY DEF Bounded, Renewals, LastTurn, Call
<1> QED
  BY <1>1, ClientAssumption DEF Bounded, Call

LEMMA AnsweredMoves ==
    ASSUME IInv, NEW t \in Threads, Answered(t)
    PROVE  CacheOK' /\ ThreadMoves(t)
<1> DEFINE d == [call[t] EXCEPT !.pc = "returned", !.handled = @ + 1]
<1>1. call[t] \in Call /\ Bounded(call[t]) /\ call[t].pc = "send"
  BY DEF IInv, Answered
<1>2. CacheOK' /\ call' = [call EXCEPT ![t] = d]
  BY DEF IInv, CacheOK, Answered
<1>3. /\ d \in Call /\ d.attempt = call[t].attempt
      /\ d.handled = call[t].handled + 1 /\ d.pc = "returned"
      /\ d.renewing = call[t].renewing /\ d.renewed = call[t].renewed
  BY <1>1, HandledOnce DEF Call
<1>4. Bounded(d) /\ CallStep(call[t], d)
  <2> HIDE DEF d
  <2>1. Renewals(d) = Renewals(call[t]) /\ LastTurn(d) = 1
    BY <1>3 DEF Renewals, LastTurn
  <2> QED
    BY <1>1, <1>3, <2>1, HandledOnce DEF Bounded, Ended, CallStep
<1> QED
  BY <1>2, <1>3, <1>4 DEF ThreadMoves

LEMMA AnswerLostMoves ==
    ASSUME IInv, NEW t \in Threads, AnswerLost(t)
    PROVE  CacheOK' /\ ThreadMoves(t)
<1> DEFINE h == [call[t] EXCEPT !.handled = @ + 1]
           c == [h EXCEPT !.fault = TRUE]
           d == NextAttempt(c)
<1>1. call[t] \in Call /\ Bounded(call[t]) /\ call[t].pc = "send"
  BY DEF IInv, AnswerLost
<1>2. CacheOK' /\ call' = [call EXCEPT ![t] = d]
  <2>1. CacheOK'
    BY DEF IInv, CacheOK, AnswerLost
  <2>2. call' = [call EXCEPT ![t] = d]
    BY DEF AnswerLost, Failed
  <2> QED
    BY <2>1, <2>2
<1>3. /\ h \in Call /\ h.attempt = call[t].attempt /\ h.handled = call[t].handled + 1
      /\ h.renewing = call[t].renewing /\ h.renewed = call[t].renewed
  BY <1>1, HandledOnce DEF Call
<1>4. /\ c \in Call /\ c.attempt = call[t].attempt /\ c.handled = call[t].handled + 1
      /\ c.renewing = call[t].renewing /\ c.renewed = call[t].renewed
  <2> HIDE DEF h
  <2> QED
    BY <1>3 DEF Call
<1>5. Bounded(d) /\ d.handled = call[t].handled + 1 /\ d.pc \in {"send", "raised"}
  <2> HIDE DEF c
  <2>1. /\ c.attempt < MaxRetries /\ ~c.renewing
        /\ c.handled + Renewals(c) <= c.attempt + 1
    BY <1>1, <1>4, HandledOnce DEF Bounded, Renewals
  <2> QED
    BY <1>4, <2>1, NextAttemptBounded
<1>6. d \in Call /\ CallStep(call[t], d)
  <2> HIDE DEF d
  <2> QED
    BY <1>1, <1>5 DEF Bounded, CallStep
<1> QED
  BY <1>2, <1>5, <1>6 DEF ThreadMoves

LEMMA NoAnswerMoves ==
    ASSUME IInv, NEW t \in Threads, NoAnswer(t)
    PROVE  CacheOK' /\ ThreadMoves(t)
<1> DEFINE c == [call[t] EXCEPT !.fault = TRUE]
<1>1. call[t] \in Call /\ Bounded(call[t]) /\ call[t].pc = "send"
  BY DEF IInv, NoAnswer
<1>2. CacheOK' /\ call' = [call EXCEPT ![t] = NextAttempt(c)]
  BY DEF IInv, CacheOK, NoAnswer, Failed
<1>3. /\ c \in Call /\ c.attempt = call[t].attempt /\ c.handled = call[t].handled
      /\ c.renewed = call[t].renewed /\ ~c.renewing
  BY <1>1 DEF Call, Bounded
<1>4. ThreadMoves(t)
  <2> HIDE DEF c
  <2> QED
    BY <1>1, <1>2, <1>3, TurnMoves
<1> QED
  BY <1>2, <1>4

LEMMA UnauthorizedMoves ==
    ASSUME IInv, NEW t \in Threads, Unauthorized(t)
    PROVE  CacheOK' /\ ThreadMoves(t)
<1> DEFINE d == [call[t] EXCEPT !.pc = "auth", !.renewing = TRUE, !.renewed = TRUE]
<1>1. /\ call[t] \in Call /\ Bounded(call[t]) /\ call[t].pc = "send"
      /\ ~call[t].renewing
  BY DEF IInv, Unauthorized, Bounded
<1>2. CacheOK'
  <2>1. 0 \in 0 .. TokenTTL /\ NoToken \in MaybeToken
    BY ClientAssumption DEF MaybeToken
  <2> QED
    BY <2>1 DEF IInv, CacheOK, Unauthorized
<1>3. call' = [call EXCEPT ![t] = d] \/ call' = [call EXCEPT ![t] = NextAttempt(call[t])]
  BY DEF Unauthorized
<1>4. CASE call' = [call EXCEPT ![t] = d]
  <2>1. /\ d \in Call /\ d.attempt = call[t].attempt /\ d.handled = call[t].handled
        /\ d.pc = "auth" /\ d.renewing /\ d.renewed
    BY <1>1 DEF Call
  <2> HIDE DEF d
  <2>2. Renewals(d) = 1 /\ LastTurn(d) = 1
    BY <2>1 DEF Renewals, LastTurn
  <2>3. Renewals(call[t]) \in {0, 1} /\ LastTurn(call[t]) = 0
    BY <1>1 DEF Renewals, LastTurn
  <2>4. Bounded(d) /\ CallStep(call[t], d)
    BY <1>1, <2>1, <2>2, <2>3, ClientAssumption DEF Bounded, CallStep, Call
  <2> QED
    BY <1>2, <1>4, <2>1, <2>4 DEF ThreadMoves
<1>5. CASE call' = [call EXCEPT ![t] = NextAttempt(call[t])]
  BY <1>1, <1>2, <1>5, TurnMoves
<1> QED
  BY <1>3, <1>4, <1>5, <1>2

LEMMA FinishMoves ==
    ASSUME IInv, NEW t \in Threads, Finish(t)
    PROVE  CacheOK' /\ ThreadMoves(t)
<1>1. CacheOK' /\ call' = [call EXCEPT ![t] = NoCall]
  BY DEF IInv, CacheOK, Finish
<1>2. CallStep(call[t], NoCall)
  BY DEF Finish, CallStep, Ended, NoCall
<1>3. NoCall \in Call /\ Bounded(NoCall)
  BY NoCallBounded DEF Bounded
<1> QED
  BY <1>1, <1>2, <1>3 DEF ThreadMoves

\* What X3 and time do to the calls.
AllStay ==
    /\ call' \in [Threads -> Call]
    /\ \A t \in Threads : /\ call'[t].pc = call[t].pc
                          /\ call'[t].attempt = call[t].attempt
                          /\ call'[t].handled = call[t].handled
                          /\ call'[t].renewing = call[t].renewing
                          /\ call'[t].renewed = call[t].renewed

LEMMA RevokeStays ==
    ASSUME IInv, NEW token \in Tokens, Revoke(token)
    PROVE  CacheOK' /\ AllStay
<1>1. CacheOK'
  BY DEF IInv, CacheOK, Revoke
<1>2. call' = [t \in Threads |-> IF call[t].pc = "idle" THEN call[t]
                                  ELSE [call[t] EXCEPT !.revoked = TRUE]]
  BY DEF Revoke
<1>3. ASSUME NEW t \in Threads
      PROVE  /\ call'[t] \in Call /\ call'[t].pc = call[t].pc
             /\ call'[t].attempt = call[t].attempt /\ call'[t].handled = call[t].handled
             /\ call'[t].renewing = call[t].renewing /\ call'[t].renewed = call[t].renewed
  <2>1. call[t] \in Call
    BY DEF IInv
  <2>2. [call[t] EXCEPT !.revoked = TRUE] \in Call
    BY <2>1 DEF Call
  <2>3. call'[t] = IF call[t].pc = "idle" THEN call[t] ELSE [call[t] EXCEPT !.revoked = TRUE]
    BY <1>2
  <2> QED
    BY <2>1, <2>2, <2>3 DEF Call
<1> QED
  BY <1>1, <1>2, <1>3 DEF AllStay

LEMMA TickStays ==
    ASSUME IInv, Tick
    PROVE  CacheOK' /\ AllStay
<1>1. \A n \in 0 .. TokenTTL : n > 0 => n - 1 \in 0 .. TokenTTL
  BY ClientAssumption
<1>2. 0 \in 0 .. TokenTTL
  BY ClientAssumption
<1>3. CacheOK'
  BY <1>1, <1>2 DEF IInv, CacheOK, Tick
<1>4. ASSUME NEW t \in Threads
      PROVE  /\ call'[t] \in Call /\ call'[t].pc = call[t].pc
             /\ call'[t].attempt = call[t].attempt /\ call'[t].handled = call[t].handled
             /\ call'[t].renewing = call[t].renewing /\ call'[t].renewed = call[t].renewed
  <2> DEFINE n == IF call[t].life > 0 THEN call[t].life - 1 ELSE 0
  <2>1. call[t] \in Call
    BY DEF IInv
  <2>2. n \in 0 .. TokenTTL
    BY <1>1, <1>2, <2>1 DEF Call
  <2>3. call'[t] = [call[t] EXCEPT !.life = n]
    BY DEF Tick
  <2> HIDE DEF n
  <2> QED
    BY <2>1, <2>2, <2>3 DEF Call
<1>5. call' = [t \in Threads |-> call'[t]]
  BY DEF Tick
<1> QED
  BY <1>3, <1>4, <1>5 DEF AllStay

-----------------------------------------------------------------------------
(* The invariant.                                                          *)

\* Every step is a thread's, or leaves the calls as they are.
LEMMA StepMoves ==
    ASSUME IInv, Next
    PROVE  CacheOK' /\ ((\E t \in Threads : ThreadMoves(t)) \/ AllStay)
<1>1. ASSUME NEW t \in Threads, NEW verb \in {"post", "get"}, Start(t, verb)
      PROVE  CacheOK' /\ ThreadMoves(t)
  BY <1>1, StartMoves
<1>2. ASSUME NEW t \in Threads, ThreadStep(t) PROVE CacheOK' /\ ThreadMoves(t)
  BY <1>2, CheckCacheMoves, ReadCacheMoves, LoginMoves, StoreMoves, AnsweredMoves,
     AnswerLostMoves, NoAnswerMoves, UnauthorizedMoves DEF ThreadStep
<1>3. ASSUME NEW t \in Threads, Finish(t) PROVE CacheOK' /\ ThreadMoves(t)
  BY <1>3, FinishMoves
<1>4. ASSUME NEW token \in Tokens, Revoke(token) PROVE CacheOK' /\ AllStay
  BY <1>4, RevokeStays
<1>5. CASE Tick
  BY <1>5, TickStays
<1> QED
  BY <1>1, <1>2, <1>3, <1>4, <1>5 DEF Next

LEMMA InitIInv == Init => IInv
<1> SUFFICES ASSUME Init PROVE IInv
  OBVIOUS
<1>1. CacheOK
  BY ClientAssumption DEF Init, CacheOK, MaybeToken
<1>2. NoCall \in Call /\ Bounded(NoCall)
  BY NoCallBounded DEF Bounded
<1> QED
  BY <1>1, <1>2 DEF Init, IInv

LEMMA NextIInv == IInv /\ [Next]_clientVars => IInv'
<1> SUFFICES ASSUME IInv, [Next]_clientVars PROVE IInv'
  OBVIOUS
<1>1. ASSUME NEW t \in Threads, CacheOK', ThreadMoves(t) PROVE IInv'
  <2>1. PICK d \in Call : call' = [call EXCEPT ![t] = d] /\ Bounded(d)
    BY <1>1 DEF ThreadMoves
  <2>2. call' \in [Threads -> Call]
    BY <2>1 DEF IInv
  <2>3. \A s \in Threads : call'[s] = IF s = t THEN d ELSE call[s]
    BY <2>1 DEF IInv
  <2>4. \A s \in Threads : Bounded(call'[s])
    BY <2>1, <2>3 DEF IInv
  <2> QED
    BY <1>1, <2>2, <2>4 DEF IInv, Bounded, Renewals, LastTurn
<1>2. ASSUME CacheOK', AllStay PROVE IInv'
  <2>1. \A t \in Threads : Bounded(call'[t])
    BY <1>2 DEF IInv, AllStay, Bounded, Renewals, LastTurn
  <2> QED
    BY <1>2, <2>1 DEF IInv, AllStay, Bounded, Renewals, LastTurn
<1>3. CASE UNCHANGED clientVars
  BY <1>3 DEF IInv, CacheOK, clientVars, Bounded, Renewals, LastTurn
<1> QED
  BY <1>1, <1>2, <1>3, StepMoves

\* The inductive invariant holds in every reachable state.
THEOREM Invariance == Spec => []IInv
BY InitIInv, NextIInv, PTL DEF Spec

\* Every variable keeps its type: the counters of the retry loop stay within
\* MAX_RETRIES and the remaining lifetimes within TOKEN_TTL.
THEOREM TypeCorrect == Spec => []TypeOK
<1>1. IInv => TypeOK
  BY DEF IInv, CacheOK, TypeOK
<1> QED
  BY <1>1, Invariance, PTL

\* The renewal of a call and the times X3 handled it fit together in the turns it has
\* taken: a turn of _safe_post or _safe_get has X3 handle the request at most once, and
\* the turn spent on renewing a token not at all.
THEOREM OncePerTurn == Spec => []HandledWithinTurns
<1>1. IInv => HandledWithinTurns
  BY DEF IInv, HandledWithinTurns, Bounded
<1> QED
  BY <1>1, Invariance, PTL

-----------------------------------------------------------------------------
(* The refinement.                                                         *)

Phase(c) == IF c.pc \in {"idle", "returned", "raised"} THEN c.pc ELSE "calling"

Phases  == [t \in Threads |-> IF call[t].pc \in {"idle", "returned", "raised"}
                              THEN call[t].pc ELSE "calling"]
HandledBy == [t \in Threads |-> call[t].handled]

\* A thread's step is a step of RemoteCall, or none.
LEMMA ThreadRefines ==
    ASSUME IInv, NEW t \in Threads, ThreadMoves(t)
    PROVE  [Remote!CallNext]_Remote!callVars
<1>1. PICK d \in Call : /\ call' = [call EXCEPT ![t] = d]
                        /\ Bounded(d)
                        /\ CallStep(call[t], d)
  BY DEF ThreadMoves
<1> DEFINE c == call[t]
<1>2. c \in Call /\ Bounded(c)
  BY DEF IInv
<1>3. /\ Phases' = [Phases EXCEPT ![t] = Phase(d)]
      /\ HandledBy' = [HandledBy EXCEPT ![t] = d.handled]
      /\ Phases[t] = Phase(c) /\ HandledBy[t] = c.handled
  <2>1. \A s \in Threads : call'[s] = IF s = t THEN d ELSE call[s]
    BY <1>1 DEF IInv
  <2> QED
    BY <2>1 DEF Phases, HandledBy, Phase
<1>4. d.pc \in {"idle", "auth", "hit", "login", "store", "send", "returned", "raised"}
  BY DEF Call
<1>5. CASE d.handled = c.handled /\ Phase(c) = Phase(d)
  <2>1. Phases = [s \in Threads |-> Phases[s]] /\ HandledBy = [s \in Threads |-> HandledBy[s]]
    BY DEF Phases, HandledBy
  <2>2. Phases' = Phases /\ HandledBy' = HandledBy
    BY <1>3, <1>5, <2>1
  <2> QED
    BY <2>2 DEF Remote!callVars, Phases, HandledBy
<1>6. CASE d.handled = c.handled /\ Phase(c) = "idle" /\ Phase(d) = "calling"
  <2>1. Phases[t] = "idle" /\ Phases' = [Phases EXCEPT ![t] = "calling"]
        /\ HandledBy' = HandledBy
    BY <1>3, <1>6 DEF HandledBy
  <2>2. Remote!Begin(t)
    BY <2>1 DEF Remote!Begin, Phases, HandledBy
  <2> QED
    BY <2>2 DEF Remote!CallNext
<1>7. CASE Phase(c) = "calling" /\ Phase(d) # "idle" /\ d.handled = c.handled + 1
  <2>1. c.handled < MaxRetries
    <3>1. Renewals(d) \in {0, 1} /\ LastTurn(d) \in {0, 1}
      BY DEF Renewals, LastTurn
    <3> QED
      BY <1>2, <1>7, <1>1, <3>1, ClientAssumption DEF Bounded, Call
  <2>2. Phase(d) \in {"calling", "returned", "raised"}
    BY <1>7, <1>4 DEF Phase
  <2>3. /\ Phases[t] = "calling" /\ HandledBy[t] < MaxRetries
        /\ HandledBy' = [HandledBy EXCEPT ![t] = HandledBy[t] + 1]
        /\ Phases' = [Phases EXCEPT ![t] = Phase(d)]
    BY <1>3, <1>7, <2>1
  <2>4. Remote!Handle(t)
    BY <2>2, <2>3 DEF Remote!Handle, Phases, HandledBy
  <2> QED
    BY <2>4 DEF Remote!CallNext
<1>8. CASE d.handled = c.handled /\ Phase(c) = "calling" /\ Phase(d) = "raised"
  <2>1. Phases[t] = "calling" /\ Phases' = [Phases EXCEPT ![t] = "raised"]
        /\ HandledBy' = HandledBy
    BY <1>3, <1>8 DEF HandledBy
  <2>2. Remote!Raise(t)
    BY <2>1 DEF Remote!Raise, Phases, HandledBy
  <2> QED
    BY <2>2 DEF Remote!CallNext
<1>9. CASE Phase(c) \in {"returned", "raised"} /\ Phase(d) = "idle" /\ d.handled = 0
  <2>1. Phases[t] \in {"returned", "raised"} /\ Phases' = [Phases EXCEPT ![t] = "idle"]
        /\ HandledBy' = [HandledBy EXCEPT ![t] = 0]
    BY <1>3, <1>9
  <2>2. Remote!End(t)
    BY <2>1 DEF Remote!End, Phases, HandledBy
  <2> QED
    BY <2>2 DEF Remote!CallNext
<1> QED
  BY <1>1, <1>4, <1>5, <1>6, <1>7, <1>8, <1>9 DEF CallStep, Phase, Ended

\* The client promises RemoteCall to its callers: whatever the cache, the other
\* threads and the renewals do, a call is handled at most MAX_RETRIES times, at
\* least once if it returns.
THEOREM Refinement == Spec => ImplementsRemoteCall
<1>1. Init => Remote!CallInit
  BY DEF Init, NoCall, Remote!CallInit
<1>2. IInv /\ [Next]_clientVars => [Remote!CallNext]_Remote!callVars
  <2> SUFFICES ASSUME IInv, [Next]_clientVars PROVE [Remote!CallNext]_Remote!callVars
    OBVIOUS
  <2>1. CASE AllStay
    <3>1. \A t \in Threads : call'[t].pc = call[t].pc /\ call'[t].handled = call[t].handled
      BY <2>1 DEF AllStay
    <3> QED
      BY <3>1 DEF Remote!callVars
  <2>2. CASE UNCHANGED clientVars
    BY <2>2 DEF clientVars, Remote!callVars
  <2> QED
    BY <2>1, <2>2, StepMoves, ThreadRefines
<1> QED
  BY <1>1, <1>2, Invariance, PTL DEF Spec, ImplementsRemoteCall, Remote!CallSpec

-----------------------------------------------------------------------------
(* A token that was stale already, where a process has one thread.         *)

\* What a call knows of the token that its process keeps (k) and of those X3 honours (g): a
\* post that nothing failed has renewed its token at most once, from an empty cache, and
\* has sent no stale token since.
Honoured(c, k, g) ==
    /\ c.pc \in {"idle", "auth", "hit", "login", "store"} => c.attempt = 0
    /\ c.pc \notin {"auth", "hit", "login", "store"} => ~c.renewing
    /\ c.verb = "post" /\ ~c.fault /\ ~c.revoked =>
          /\ c.pc = "auth" /\ c.renewing => k = NoToken
          /\ c.pc = "hit" => ~c.renewing /\ k # NoToken
          /\ c.pc = "store" => c.fresh \in g
          /\ c.pc = "send" => c.attempt = 0 \/ c.header \in g
          /\ c.pc # "raised"

TokensAreHonoured == \A t \in Threads : Honoured(call[t], cache[ProcessOf[t]], good)

OneThreadEach == \A t, s \in Threads : ProcessOf[t] = ProcessOf[s] => t = s

\* A step of one thread, where processes have one each.
LEMMA OneThreadMoves ==
    ASSUME OneThreadEach, IInv, TokensAreHonoured, NEW t \in Threads,
           \A s \in Threads \ {t} : call'[s] = call[s],
           \A p \in Processes \ {ProcessOf[t]} : cache'[p] = cache[p],
           good \subseteq good',
           Honoured(call'[t], cache'[ProcessOf[t]], good')
    PROVE  TokensAreHonoured'
<1>1. ASSUME NEW s \in Threads, s # t
      PROVE  Honoured(call'[s], cache'[ProcessOf[s]], good')
  <2>1. ProcessOf[s] \in Processes \ {ProcessOf[t]}
    BY <1>1, ClientAssumption DEF OneThreadEach
  <2>2. call'[s] = call[s] /\ cache'[ProcessOf[s]] = cache[ProcessOf[s]]
    BY <1>1, <2>1
  <2> QED
    BY <2>2 DEF TokensAreHonoured, Honoured
<1> QED
  BY <1>1 DEF TokensAreHonoured

\* The end of a turn.
LEMMA TurnHonoured ==
    ASSUME NEW c \in Call, ~c.renewing, NEW k, NEW g,
           c.verb = "post" /\ ~c.fault /\ ~c.revoked => c.attempt = 0 /\ c.header \in g
    PROVE  Honoured(NextAttempt(c), k, g)
<1> DEFINE d == [c EXCEPT !.attempt = c.attempt + 1, !.pc = "send"]
           e == [c EXCEPT !.pc = "raised"]
<1>1. MaxRetries \in Nat /\ MaxRetries >= 2 /\ c.attempt \in Nat
  BY ClientAssumption DEF Call
<1>2. NextAttempt(c) = IF c.attempt + 1 < MaxRetries THEN d ELSE e
  BY DEF NextAttempt, Call
<1>3. /\ d.pc = "send" /\ d.verb = c.verb /\ d.fault = c.fault /\ d.revoked = c.revoked
      /\ d.renewing = c.renewing /\ d.header = c.header
  BY DEF Call
<1>4. /\ e.pc = "raised" /\ e.verb = c.verb /\ e.fault = c.fault /\ e.revoked = c.revoked
      /\ e.renewing = c.renewing
  BY DEF Call
<1> HIDE DEF d, e
<1>5. CASE c.attempt + 1 < MaxRetries
  BY <1>2, <1>3, <1>5 DEF Honoured
<1>6. CASE ~(c.attempt + 1 < MaxRetries)
  <2>1. c.attempt # 0
    BY <1>1, <1>6
  <2> QED
    BY <1>2, <1>4, <1>6, <2>1 DEF Honoured
<1> QED
  BY <1>5, <1>6

\* Each step of a thread.
LEMMA ThreadHonours ==
    ASSUME OneThreadEach, IInv, TokensAreHonoured, NEW t \in Threads,
           ThreadStep(t) \/ Finish(t) \/ \E verb \in {"post", "get"} : Start(t, verb)
    PROVE  TokensAreHonoured'
<1> DEFINE x == call[t]
           p == ProcessOf[t]
<1>1. x \in Call /\ p \in Processes /\ Honoured(x, cache[p], good)
  BY ClientAssumption DEF IInv, TokensAreHonoured
<1>2. ASSUME NEW y, call' = [call EXCEPT ![t] = y], cache' = cache, good \subseteq good',
             Honoured(y, cache[p], good')
      PROVE  TokensAreHonoured'
  <2>1. call'[t] = y /\ \A s \in Threads \ {t} : call'[s] = call[s]
    BY <1>2 DEF IInv
  <2> QED
    BY <1>2, <2>1, OneThreadMoves
<1>3. ASSUME NEW y, call' = [call EXCEPT ![t] = y], good' = good, NEW k,
             cache' = [cache EXCEPT ![p] = k], Honoured(y, k, good)
      PROVE  TokensAreHonoured'
  <2>1. call'[t] = y /\ \A s \in Threads \ {t} : call'[s] = call[s]
    BY <1>3 DEF IInv
  <2>2. cache'[p] = k /\ \A q \in Processes \ {p} : cache'[q] = cache[q]
    BY <1>1, <1>3 DEF IInv, CacheOK
  <2> QED
    BY <1>3, <2>1, <2>2, OneThreadMoves
<1>4. CASE \E verb \in {"post", "get"} : Start(t, verb)
  <2>1. PICK verb \in {"post", "get"} : Start(t, verb)
    BY <1>4
  <2> DEFINE y == [x EXCEPT !.pc = "auth", !.verb = verb]
  <2>2. y.pc = "auth" /\ y.attempt = x.attempt /\ y.renewing = x.renewing /\ x.pc = "idle"
    BY <1>1, <2>1 DEF Start, Call
  <2>3. call' = [call EXCEPT ![t] = y] /\ UNCHANGED <<cache, good>>
    BY <2>1 DEF Start
  <2> HIDE DEF x, y
  <2>4. Honoured(y, cache[p], good)
    BY <1>1, <2>2 DEF Honoured
  <2> QED
    BY <1>2, <2>3, <2>4
<1>5. CASE CheckCache(t)
  <2> DEFINE y == [x EXCEPT !.pc = "hit"]
             z == [x EXCEPT !.pc = "login", !.life = TokenTTL]
  <2>1. y.pc = "hit" /\ y.attempt = x.attempt /\ y.renewing = x.renewing /\ x.pc = "auth"
        /\ y.verb = x.verb /\ y.fault = x.fault /\ y.revoked = x.revoked
    BY <1>1, <1>5 DEF CheckCache, Call
  <2>2. z.pc = "login" /\ z.attempt = x.attempt
    BY <1>1 DEF Call
  <2>3. \/ cache[p] # NoToken /\ call' = [call EXCEPT ![t] = y]
        \/ call' = [call EXCEPT ![t] = z]
    BY <1>5 DEF CheckCache
  <2>4. UNCHANGED <<cache, good>>
    BY <1>5 DEF CheckCache
  <2> HIDE DEF x, y, z
  <2>5. Honoured(z, cache[p], good)
    BY <1>1, <2>1, <2>2 DEF Honoured
  <2>6. cache[p] # NoToken => Honoured(y, cache[p], good)
    BY <1>1, <2>1 DEF Honoured
  <2> QED
    BY <1>2, <2>3, <2>4, <2>5, <2>6
<1>6. CASE ReadCache(t)
  <2> DEFINE token == cache[p]
             y1 == [x EXCEPT !.header = token, !.renewing = FALSE]
             y2 == [x EXCEPT !.header = token, !.pc = "send"]
             y3 == [x EXCEPT !.renewing = FALSE]
             y4 == [x EXCEPT !.pc = "raised"]
  <2>1. x.pc = "hit" /\ UNCHANGED <<cache, good>> /\ x.attempt = 0
    BY <1>1, <1>6 DEF ReadCache, Honoured
  <2>2. \/ x.renewing /\ call' = [call EXCEPT ![t] = NextAttempt(y1)]
        \/ ~x.renewing /\ call' = [call EXCEPT ![t] = y2]
        \/ x.renewing /\ call' = [call EXCEPT ![t] = NextAttempt(y3)]
        \/ token = NoToken /\ ~x.renewing /\ call' = [call EXCEPT ![t] = y4]
    BY <1>1, <1>6 DEF ReadCache, IInv, Call
  <2>3. token \in MaybeToken
    BY <1>1 DEF IInv, CacheOK
  <2>4. y1 \in Call /\ ~y1.renewing /\ y1.verb = x.verb /\ y1.fault = x.fault /\ y1.revoked = x.revoked
    BY <1>1, <2>3 DEF Call
  <2>5. y2.pc = "send" /\ y2.renewing = x.renewing /\ y2.attempt = x.attempt
    BY <1>1, <2>3 DEF Call
  <2>6. y3 \in Call /\ ~y3.renewing /\ y3.verb = x.verb /\ y3.fault = x.fault /\ y3.revoked = x.revoked
    BY <1>1 DEF Call
  <2>7. y4.pc = "raised" /\ y4.renewing = x.renewing /\ y4.verb = x.verb /\ y4.fault = x.fault /\ y4.revoked = x.revoked
    BY <1>1 DEF Call
  <2> HIDE DEF x, token, y1, y2, y3, y4
  <2>8. x.renewing => ~(x.verb = "post" /\ ~x.fault /\ ~x.revoked)
    BY <1>1, <2>1 DEF Honoured
  <2>9. token = NoToken => ~(x.verb = "post" /\ ~x.fault /\ ~x.revoked)
    BY <1>1, <2>1 DEF Honoured, token
  <2>10. x.renewing => Honoured(NextAttempt(y1), cache[p], good)
                       /\ Honoured(NextAttempt(y3), cache[p], good)
    BY <2>4, <2>6, <2>8, TurnHonoured
  <2>11. ~x.renewing => Honoured(y2, cache[p], good)
    BY <2>1, <2>5 DEF Honoured
  <2>12. token = NoToken /\ ~x.renewing => Honoured(y4, cache[p], good)
    BY <2>7, <2>9 DEF Honoured
  <2> QED
    BY <1>2, <2>1, <2>2, <2>10, <2>11, <2>12
<1>7. CASE LoginOk(t)
  <2>1. PICK token \in Tokens : /\ good' = good \cup {token} /\ cache' = cache
                                /\ call' = [call EXCEPT ![t] = [x EXCEPT !.pc = "store", !.fresh = token]]
    BY <1>7 DEF LoginOk
  <2> DEFINE y == [x EXCEPT !.pc = "store", !.fresh = token]
  <2>2. y.pc = "store" /\ y.fresh = token /\ y.attempt = x.attempt /\ x.pc = "login"
    BY <1>1, <1>7 DEF LoginOk, Call
  <2>3. call' = [call EXCEPT ![t] = y]
    BY <2>1
  <2> HIDE DEF x, y
  <2>4. Honoured(y, cache[p], good')
    BY <1>1, <2>1, <2>2 DEF Honoured
  <2>5. good \subseteq good'
    BY <2>1
  <2> QED
    BY <1>2, <2>1, <2>3, <2>4, <2>5
<1>8. CASE LoginFails(t)
  <2> DEFINE failed == [x EXCEPT !.fault = TRUE, !.life = 0]
             y1 == [failed EXCEPT !.renewing = FALSE]
             y2 == [failed EXCEPT !.pc = "raised"]
  <2>1. UNCHANGED <<cache, good>>
    BY <1>8 DEF LoginFails
  <2>2. \/ call' = [call EXCEPT ![t] = NextAttempt(y1)]
        \/ ~x.renewing /\ call' = [call EXCEPT ![t] = y2]
    BY <1>1, <1>8 DEF LoginFails, IInv, Call
  <2>3. failed \in Call /\ failed.fault /\ failed.renewing = x.renewing
    <3>1. PICK f \in BOOLEAN : f = TRUE
      OBVIOUS
    <3>2. PICK n \in 0 .. TokenTTL : n = 0
      BY ClientAssumption
    <3>3. failed = [x EXCEPT !.fault = f, !.life = n]
      BY <3>1, <3>2, Zenon
    <3> HIDE DEF failed
    <3> QED
      BY <1>1, <3>1, <3>3 DEF Call
  <2> HIDE DEF x, failed
  <2>4. y1 \in Call /\ y1.fault /\ ~y1.renewing
    BY <2>3 DEF Call
  <2>5. y2.pc = "raised" /\ y2.fault /\ y2.renewing = failed.renewing
    BY <2>3 DEF Call
  <2> HIDE DEF y1, y2
  <2>6. Honoured(NextAttempt(y1), cache[p], good)
    BY <2>4, TurnHonoured
  <2>7. ~x.renewing => Honoured(y2, cache[p], good)
    BY <2>3, <2>5 DEF Honoured
  <2> QED
    BY <1>2, <2>1, <2>2, <2>6, <2>7
<1>9. CASE Store(t)
  <2> DEFINE stored == [x EXCEPT !.header = x.fresh, !.fresh = NoToken, !.life = 0]
             y1 == [stored EXCEPT !.renewing = FALSE]
             y2 == [stored EXCEPT !.pc = "send"]
  <2>1. x.pc = "store" /\ good' = good /\ cache' = [cache EXCEPT ![p] = x.fresh]
    BY <1>9 DEF Store
  <2>2. \/ x.renewing /\ call' = [call EXCEPT ![t] = NextAttempt(y1)]
        \/ ~x.renewing /\ call' = [call EXCEPT ![t] = y2]
    BY <1>1, <1>9 DEF Store, IInv, Call
  <2>3. /\ stored \in Call /\ stored.header = x.fresh /\ stored.verb = x.verb
        /\ stored.fault = x.fault /\ stored.revoked = x.revoked /\ stored.attempt = x.attempt
        /\ stored.renewing = x.renewing
    <3>1. PICK n \in 0 .. TokenTTL : n = 0
      BY ClientAssumption
    <3>2. PICK k \in MaybeToken : k = NoToken
      BY DEF MaybeToken
    <3>3. stored = [x EXCEPT !.header = x.fresh, !.fresh = k, !.life = n]
      BY <3>1, <3>2, Zenon
    <3> HIDE DEF stored
    <3> QED
      BY <1>1, <3>3 DEF Call
  <2> HIDE DEF stored
  <2>4. /\ y1 \in Call /\ y1.header = stored.header /\ y1.verb = stored.verb
        /\ y1.fault = stored.fault /\ y1.revoked = stored.revoked
        /\ y1.attempt = stored.attempt /\ ~y1.renewing
    BY <2>3 DEF Call
  <2>5. y2.pc = "send" /\ y2.attempt = stored.attempt /\ y2.renewing = stored.renewing
    BY <2>3 DEF Call
  <2> HIDE DEF x, y1, y2
  <2>6. x.attempt = 0 /\ (x.verb = "post" /\ ~x.fault /\ ~x.revoked => x.fresh \in good)
    BY <1>1, <2>1 DEF Honoured
  <2>7. Honoured(NextAttempt(y1), x.fresh, good)
    BY <2>3, <2>4, <2>6, TurnHonoured
  <2>8. ~x.renewing => Honoured(y2, x.fresh, good)
    BY <2>3, <2>5, <2>6 DEF Honoured
  <2> QED
    BY <1>3, <2>1, <2>2, <2>7, <2>8
<1>10. CASE Answered(t)
  <2> DEFINE y == [x EXCEPT !.pc = "returned", !.handled = @ + 1]
  <2>1. y.pc = "returned" /\ y.renewing = x.renewing /\ x.pc = "send"
    BY <1>1, <1>10 DEF Answered, Call
  <2>2. Honoured(y, cache[p], good)
    BY <1>1, <2>1 DEF Honoured
  <2> QED
    BY <1>2, <1>10, <2>2 DEF Answered
<1>11. CASE AnswerLost(t) \/ NoAnswer(t)
  <2> DEFINE h == [x EXCEPT !.handled = @ + 1]
  <2>1. UNCHANGED <<cache, good>> /\ x.pc = "send"
    BY <1>11 DEF AnswerLost, NoAnswer
  <2>2. \/ call' = [call EXCEPT ![t] = Failed(h)] /\ AnswerLost(t)
        \/ call' = [call EXCEPT ![t] = Failed(x)]
    BY <1>11 DEF AnswerLost, NoAnswer
  <2>3. ASSUME NEW c \in Call, ~c.renewing PROVE Honoured(Failed(c), cache[p], good)
    <3> DEFINE d == [c EXCEPT !.fault = TRUE]
    <3>1. d \in Call /\ d.fault /\ ~d.renewing
      BY <2>3 DEF Call
    <3>2. Failed(c) = NextAttempt(d)
      BY DEF Failed
    <3> HIDE DEF d
    <3> QED
      BY <3>1, <3>2, TurnHonoured
  <2>4. ~x.renewing
    BY <1>1, <2>1 DEF Honoured
  <2>5. h \in Call /\ ~h.renewing
    <3>1. Bounded(x)
      BY DEF IInv
    <3>2. x.handled + 1 \in 0 .. MaxRetries
      BY <1>1, <2>1, <3>1, HandledOnce
    <3> QED
      BY <1>1, <2>4, <3>2 DEF Call
  <2> HIDE DEF x, h
  <2> QED
    BY <1>1, <1>2, <2>1, <2>2, <2>3, <2>4, <2>5
<1>12. CASE Unauthorized(t)
  <2>1. x.pc = "send" /\ x.header \notin good /\ good' = good /\ ~x.renewing
    BY <1>1, <1>12 DEF Unauthorized, Honoured
  <2>2. CASE RenewsOn401(x)
    <3> DEFINE y == [x EXCEPT !.pc = "auth", !.renewing = TRUE, !.renewed = TRUE]
    <3>1. call' = [call EXCEPT ![t] = y] /\ cache' = [cache EXCEPT ![p] = NoToken]
      BY <1>12, <2>2 DEF Unauthorized
    <3>2. y.pc = "auth" /\ y.attempt = x.attempt
      BY <1>1 DEF Call
    <3>3. x.attempt = 0
      BY <2>2 DEF RenewsOn401
    <3> HIDE DEF x, y
    <3>4. Honoured(y, NoToken, good)
      BY <3>2, <3>3 DEF Honoured
    <3> QED
      BY <1>3, <2>1, <3>1, <3>4
  <2>3. CASE ~RenewsOn401(x)
    <3>1. call' = [call EXCEPT ![t] = NextAttempt(x)] /\ cache' = cache
      BY <1>12, <2>3 DEF Unauthorized
    <3> HIDE DEF x
    <3>3. ~(x.verb = "post" /\ ~x.fault /\ ~x.revoked)
      BY <1>1, <2>1, <2>3 DEF Honoured, RenewsOn401
    <3>4. Honoured(NextAttempt(x), cache[p], good)
      BY <1>1, <2>1, <3>3, TurnHonoured
    <3> QED
      BY <1>2, <2>1, <3>1, <3>4
  <2> QED
    BY <2>2, <2>3
<1>13. CASE Finish(t)
  <2>1. call' = [call EXCEPT ![t] = NoCall] /\ UNCHANGED <<cache, good>>
    BY <1>13 DEF Finish
  <2>2. NoCall.pc = "idle" /\ NoCall.attempt = 0 /\ ~NoCall.renewing
    BY DEF NoCall
  <2>3. Honoured(NoCall, cache[p], good)
    BY <2>2 DEF Honoured
  <2> QED
    BY <1>2, <2>1, <2>3
<1> QED
  BY <1>4, <1>5, <1>6, <1>7, <1>8, <1>9, <1>10, <1>11, <1>12, <1>13 DEF ThreadStep

\* X3 forgets a token, which every call that is running is told of, and time passes.
LEMMA OthersHonour ==
    ASSUME IInv, TokensAreHonoured, Tick \/ \E token \in Tokens : Revoke(token)
    PROVE  TokensAreHonoured'
<1> SUFFICES ASSUME NEW t \in Threads
             PROVE  Honoured(call'[t], cache'[ProcessOf[t]], good')
  BY DEF TokensAreHonoured
<1> DEFINE x == call[t]
           k == cache[ProcessOf[t]]
<1>1. x \in Call /\ Honoured(x, k, good) /\ cache' = cache
  BY DEF IInv, TokensAreHonoured, Tick, Revoke
<1>2. CASE Tick
  <2> DEFINE n == IF x.life > 0 THEN x.life - 1 ELSE 0
             y == [x EXCEPT !.life = n]
  <2>1. call'[t] = y /\ good' = good
    BY <1>2 DEF Tick
  <2>2. /\ y.pc = x.pc /\ y.attempt = x.attempt /\ y.renewing = x.renewing /\ y.verb = x.verb
        /\ y.fault = x.fault /\ y.revoked = x.revoked /\ y.fresh = x.fresh /\ y.header = x.header
    BY <1>1 DEF Call
  <2> HIDE DEF x, k, y
  <2> QED
    BY <1>1, <2>1, <2>2 DEF Honoured, k
<1>3. CASE \E token \in Tokens : Revoke(token)
  <2> DEFINE y == [x EXCEPT !.revoked = TRUE]
  <2>1. call'[t] = IF x.pc = "idle" THEN x ELSE y
    BY <1>3 DEF Revoke
  <2>2. y.pc = x.pc /\ y.attempt = x.attempt /\ y.renewing = x.renewing /\ y.revoked
    BY <1>1 DEF Call
  <2> HIDE DEF x, y
  <2>3. CASE x.pc = "idle"
    BY <1>1, <2>1, <2>3 DEF Honoured
  <2>4. CASE x.pc # "idle"
    BY <1>1, <2>1, <2>2, <2>4 DEF Honoured
  <2> QED
    BY <2>3, <2>4
<1> QED
  BY <1>2, <1>3

\* In a process of one thread a post fails only if X3 or the network failed, or X3 revoked
\* a token while it ran: a token that was stale before is renewed once, and once is enough
\* (sage_x3_mixin.py, the 401 branch of _safe_post).
THEOREM StaleTokenIsRenewed ==
    ASSUME OneThreadEach
    PROVE  Spec => []StaleTokenDoesNotFailPost
<1>1. Init => TokensAreHonoured
  <2> SUFFICES ASSUME Init, NEW t \in Threads
               PROVE  Honoured(call[t], cache[ProcessOf[t]], good)
    BY DEF TokensAreHonoured
  <2>1. call[t].pc = "idle" /\ call[t].attempt = 0 /\ ~call[t].renewing
    BY DEF Init, NoCall
  <2> QED
    BY <2>1 DEF Honoured
<1>2. IInv /\ TokensAreHonoured /\ [Next]_clientVars => TokensAreHonoured'
  <2> SUFFICES ASSUME IInv, TokensAreHonoured, [Next]_clientVars PROVE TokensAreHonoured'
    OBVIOUS
  <2>1. CASE Next
    BY <2>1, ThreadHonours, OthersHonour DEF Next
  <2>2. CASE UNCHANGED clientVars
    BY <2>2 DEF clientVars, TokensAreHonoured
  <2> QED
    BY <2>1, <2>2
<1>3. TokensAreHonoured => StaleTokenDoesNotFailPost
  BY DEF TokensAreHonoured, Honoured, StaleTokenDoesNotFailPost
<1> QED
  BY <1>1, <1>2, <1>3, Invariance, PTL DEF Spec

-----------------------------------------------------------------------------
(* The import of deliveries.                                               *)

\* What the committed cursor, and one that is written but not committed, have passed was
\* published and handled.
MarkInv ==
    /\ behind \subseteq Published
    /\ \A j \in Jobs : job[j].marked =>
          job[j].mark \subseteq Published /\ \A d \in job[j].mark : fate[d] # "new"

\* What was published before an import asked, and is not handled yet, is on its list.
ListInv ==
    \A j \in Jobs :
        /\ PastQuestion(j) => \A d \in Deliveries : fate[d] = "new" => d \in job[j].todo
        /\ job[j].pc = "date" => job[j].todo = {}

Marked == {"filled", "noted"}

\* Orders are received once a delivery of theirs is marked, and hold the goods of their
\* own, written, deliveries.
ReceiptInv ==
    /\ \A d \in Deliveries : fate[d] \in Marked => order[OrderOf[d]].received
    /\ \A o \in Orders : \A d \in Deliveries :
          d = order[o].open \/ d \in order[o].receipts =>
              OrderOf[d] = o /\ fate[d] \in {"filled", "torn", "noted"}
    /\ \A o \in Orders : order[o].state = "none" => order[o] = NoOrder

\* What an import preloaded is still to be received, or is stale.
AskInv ==
    \A j \in Jobs : job[j].pc = "ask" =>
        \A o \in job[j].loaded :
            /\ o \in Loadable \/ o \in job[j].stale
            /\ order[o].state # "none"
            /\ OneJob => ~order[o].received

ApplyInv ==
    \A j \in Jobs : job[j].pc = "apply" =>
        /\ \A o \in job[j].cache : order[o].state # "none"
        /\ OneBatch => \A o \in job[j].cache : o \in Loadable \/ o \in job[j].stale
        /\ OneJob => \A d \in job[j].todo : OrderOf[d] \in job[j].cache => fate[d] \notin Marked

ImportIInv == ImportInv /\ MarkInv /\ ListInv
GoodsInv == ReceiptInv /\ AskInv /\ ApplyInv

-----------------------------------------------------------------------------
(* The parts of a job's record.                                            *)

\* There are finitely many awaiting orders, no more than orders.
LEMMA LoadableIsFinite ==
    /\ Loadable \subseteq Orders /\ Eligible \subseteq Orders
    /\ Cardinality(Loadable) \in 0 .. Cardinality(Orders)
    /\ Cardinality(Orders) \in Nat
<1>1. Loadable \subseteq Orders /\ Eligible \subseteq Orders
  BY DEF Loadable, Eligible
<1>2. IsFiniteSet(Loadable) /\ Cardinality(Loadable) <= Cardinality(Orders)
  BY <1>1, ImportAssumption, FS_Subset
<1> QED
  BY <1>1, <1>2, ImportAssumption, FS_CardinalityType

\* An import that is not running is one.
LEMMA NoJobType == NoJob \in Job
<1>1. 0 \in 0 .. Cardinality(Orders)
  BY LoadableIsFinite
<1> QED
  BY <1>1 DEF NoJob, Job

\* A new snapshot changes what the import has read, and nothing else.
LEMMA SnapshotIs ==
    ASSUME NEW r \in Job
    PROVE  LET s == Snapshot(r) IN
           /\ s \in Job
           /\ s.pc = r.pc /\ s.rounds = r.rounds /\ s.todo = r.todo
           /\ s.loaded = Loadable /\ s.stale = {}
           /\ s.marked = r.marked /\ s.mark = r.mark
<1>1. Loadable \in SUBSET Orders /\ Eligible \in SUBSET Orders
  BY LoadableIsFinite
<1> QED
  BY <1>1 DEF Snapshot, Job

\* After a round the import asks again with what it has read, or is over but for its
\* commit; what it wrote of the cursor stays.
LEMMA EndRoundIs ==
    ASSUME NEW r \in Job
    PROVE  LET e == EndRound(r) IN
           /\ e \in Job
           /\ e.pc \in {"ask", "commit"}
           /\ e.pc = "ask" => e.loaded = r.loaded /\ e.stale = r.stale
           /\ e.marked = r.marked /\ e.mark = r.mark
<1>1. CASE r.rounds > 1
  <2>1. r.rounds - 1 \in 0 .. Cardinality(Orders)
    BY <1>1, LoadableIsFinite DEF Job
  <2>2. EndRound(r) = [r EXCEPT !.rounds = @ - 1, !.pc = "ask", !.cache = {}]
    BY <1>1 DEF EndRound
  <2> QED
    BY <2>1, <2>2 DEF Job
<1>2. CASE ~(r.rounds > 1)
  <2>1. EndRound(r) = [NoJob EXCEPT !.pc = "commit", !.staleCursor = r.staleCursor,
                                    !.marked = r.marked, !.mark = r.mark]
    BY <1>2 DEF EndRound
  <2>2. EndRound(r) \in Job
    BY <2>1, NoJobType DEF Job
  <2>3. EndRound(r).pc = "commit" /\ EndRound(r).marked = r.marked /\ EndRound(r).mark = r.mark
    BY <2>1 DEF NoJob
  <2> QED
    BY <2>2, <2>3
<1> QED
  BY <1>1, <1>2

\* A batch takes its deliveries off the list and commits what was written.
LEMMA AfterBatchIs ==
    ASSUME NEW r \in Job, NEW B
    PROVE  LET a == AfterBatch(r, B) IN
           /\ a \in Job
           /\ a.pc \in {"date", "apply"} /\ (a.pc = "date" <=> r.todo = B)
           /\ a.todo = r.todo \ B /\ a.cache = r.cache
           /\ ~a.marked
<1>1. r.todo \ B \in SUBSET Deliveries
  BY DEF Job
<1> QED
  BY <1>1 DEF AfterBatch, Job

\* Another's commit makes orders stale for those that may still write them.
LEMMA AfterCommitIs ==
    ASSUME ImportTypeOK, NEW j \in Jobs, NEW S \in SUBSET Orders
    PROVE  /\ AfterCommit(j, S) \in [Jobs -> Job]
           /\ AfterCommit(j, S)[j] = job[j]
           /\ \A k \in Jobs : LET a == AfterCommit(j, S)[k] IN
                /\ a.pc = job[k].pc /\ a.loaded = job[k].loaded /\ a.cache = job[k].cache
                /\ a.todo = job[k].todo /\ a.marked = job[k].marked /\ a.mark = job[k].mark
                /\ job[k].stale \subseteq a.stale
                /\ k # j /\ job[k].pc \in {"ask", "apply"} => S \subseteq a.stale
<1>1. \A k \in Jobs : job[k] \in Job /\ job[k].stale \in SUBSET Orders
  BY DEF ImportTypeOK, Job
<1>2. AfterCommit(j, S)[j] = job[j]
  BY DEF AfterCommit
<1>3. ASSUME NEW k \in Jobs
      PROVE  LET a == AfterCommit(j, S)[k] IN
             /\ a \in Job
             /\ a.pc = job[k].pc /\ a.loaded = job[k].loaded /\ a.cache = job[k].cache
             /\ a.todo = job[k].todo /\ a.marked = job[k].marked /\ a.mark = job[k].mark
             /\ job[k].stale \subseteq a.stale
             /\ k # j /\ job[k].pc \in {"ask", "apply"} => S \subseteq a.stale
  <2>1. CASE k = j \/ job[k].pc \in {"idle", "date"}
    BY <1>1, <2>1 DEF AfterCommit
  <2>2. CASE ~(k = j \/ job[k].pc \in {"idle", "date"})
    <3> DEFINE st == IF k \in Holding THEN job[k].stale \union S ELSE job[k].stale
               sc == job[k].staleCursor \/ job[j].marked
    <3>1. st \in SUBSET Orders /\ sc \in BOOLEAN
      BY <1>1
    <3>2. AfterCommit(j, S)[k] = [job[k] EXCEPT !.stale = st, !.staleCursor = sc]
      BY <2>2 DEF AfterCommit
    <3>3. job[k].stale \subseteq st /\ (job[k].pc \in {"ask", "apply"} => S \subseteq st)
      BY DEF Holding
    <3> HIDE DEF st, sc
    <3>4. AfterCommit(j, S)[k] \in Job
      BY <1>1, <3>1, <3>2 DEF Job
    <3> QED
      BY <1>1, <3>2, <3>3, <3>4 DEF Job
  <2> QED
    BY <2>1, <2>2
<1> QED
  BY <1>2, <1>3 DEF AfterCommit

\* So does a commit of the office.
LEMMA CommitIs ==
    ASSUME ImportTypeOK, NEW o \in Orders, NEW row, Commit(o, row)
    PROVE  /\ order' = [order EXCEPT ![o] = row]
           /\ UNCHANGED <<behind, dated, fate>>
           /\ job' \in [Jobs -> Job]
           /\ \A k \in Jobs :
                /\ job'[k].pc = job[k].pc /\ job'[k].loaded = job[k].loaded /\ job'[k].cache = job[k].cache
                /\ job'[k].todo = job[k].todo /\ job'[k].marked = job[k].marked /\ job'[k].mark = job[k].mark
                /\ job[k].stale \subseteq job'[k].stale
                /\ job[k].pc \in {"ask", "apply"} => o \in job'[k].stale
<1>1. \A k \in Jobs : job[k] \in Job /\ job[k].stale \in SUBSET Orders
  BY DEF ImportTypeOK, Job
<1>2. ASSUME NEW k \in Jobs
      PROVE  /\ job'[k] \in Job
             /\ job'[k].pc = job[k].pc /\ job'[k].loaded = job[k].loaded /\ job'[k].cache = job[k].cache
             /\ job'[k].todo = job[k].todo /\ job'[k].marked = job[k].marked /\ job'[k].mark = job[k].mark
             /\ job[k].stale \subseteq job'[k].stale
             /\ job[k].pc \in {"ask", "apply"} => o \in job'[k].stale
  <2>1. CASE k \in Holding
    <3>1. job'[k] = [job[k] EXCEPT !.stale = @ \union {o}]
      BY <2>1 DEF Commit
    <3>2. job[k].stale \union {o} \in SUBSET Orders
      BY <1>1
    <3> QED
      BY <1>1, <3>1, <3>2 DEF Job
  <2>2. CASE k \notin Holding
    BY <1>1, <2>2 DEF Commit, Holding
  <2> QED
    BY <2>1, <2>2
<1> QED
  BY <1>2 DEF Commit

-----------------------------------------------------------------------------
(* The orders.                                                             *)

\* The office never unmarks an order nor puts a delivery into its receipt, but on an order
\* that it makes.
LEMMA OfficeRows ==
    ASSUME ImportTypeOK, ReceiptInv, NEW o \in Orders, Office(o)
    PROVE  \E row \in Order :
              /\ Commit(o, row)
              /\ row.state # "none"
              /\ order[o].received => row.received
              /\ order[o].state # "none" => row.received = order[o].received
              /\ row.open \in {Planned, Nothing, order[o].open}
              /\ row.receipts \subseteq order[o].receipts \union {order[o].open}
<1> DEFINE r == order[o]
           Good(row) ==
              /\ row \in Order
              /\ Commit(o, row)
              /\ row.state # "none"
              /\ r.received => row.received
              /\ r.state # "none" => row.received = r.received
              /\ row.open \in {Planned, Nothing, r.open}
              /\ row.receipts \subseteq r.receipts \union {r.open}
<1>1. r \in Order /\ \A p \in Orders : order[p].received \in BOOLEAN
  BY DEF ImportTypeOK, Order
<1>2. r.state = "none" => ~r.received
  BY DEF ReceiptInv, NoOrder
<1>3. CASE Create(o)
  <2>1. Good([NoOrder EXCEPT !.state = "sent"])
    BY <1>2, <1>3 DEF Create, NoOrder, Order
  <2> QED
    BY <2>1
<1>4. CASE \E p \in Orders : Duplicate(p, o)
  <2>1. PICK p \in Orders : Duplicate(p, o)
    BY <1>4
  <2>2. Good([NoOrder EXCEPT !.state = "sent", !.received = order[p].received])
    BY <1>1, <1>2, <2>1 DEF Duplicate, NoOrder, Order
  <2> QED
    BY <2>2
<1>5. CASE Accept(o)
  <2>1. \/ Good([r EXCEPT !.ack = "accepted", !.state = "purchase", !.open = Planned])
        \/ Good([r EXCEPT !.ack = "accepted"])
    BY <1>1, <1>5 DEF Accept, Order
  <2> QED
    BY <2>1
<1>6. CASE Cancel(o)
  <2>1. Good([r EXCEPT !.state = "cancel", !.open = Nothing])
    BY <1>1, <1>6 DEF Cancel, Order
  <2> QED
    BY <2>1
<1>7. CASE Reset(o)
  <2>1. \/ Good([r EXCEPT !.state = "sent"])
        \/ Good([r EXCEPT !.state = "sent", !.ack = "reset"])
    BY <1>1, <1>7 DEF Reset, Order
  <2> QED
    BY <2>1
<1>8. CASE Receive(o)
  <2>1. PICK rest \in {Planned, Nothing} :
          Commit(o, [r EXCEPT !.receipts = @ \union {r.open}, !.open = rest])
    BY <1>8 DEF Receive
  <2>2. r.receipts \union {r.open} \in SUBSET (Deliveries \union {Planned})
    BY <1>1, <1>8 DEF Receive, Order
  <2>3. Good([r EXCEPT !.receipts = @ \union {r.open}, !.open = rest])
    BY <1>1, <1>8, <2>1, <2>2 DEF Receive, Order
  <2> QED
    BY <2>3
<1> QED
  BY <1>3, <1>4, <1>5, <1>6, <1>7, <1>8 DEF Office

Handled == {"filled", "torn", "noted"}

\* What a batch does: to its orders, which it preloaded and no one else has committed to
\* since, to the fates of its deliveries, and to the imports.
BatchEffect(j, B, S) ==
    /\ OneBatch => B = job[j].todo
    /\ \A o \in S : o \in job[j].cache /\ o \notin job[j].stale
    /\ \A o \in Orders \ S : order'[o] = order[o]
    /\ order' \in [Orders -> Order]
    /\ \A o \in Orders :
          /\ order'[o].state = order[o].state /\ order'[o].receipts = order[o].receipts
          /\ order[o].received => order'[o].received
          /\ \/ order'[o].open = order[o].open
             \/ /\ order'[o].open \in B /\ OrderOf[order'[o].open] = o
                /\ fate'[order'[o].open] \in Handled
    /\ fate' \in [Deliveries -> Fates]
    /\ \A d \in Deliveries \ B : fate'[d] = fate[d]
    /\ \A d \in B :
          /\ fate'[d] # "absent" /\ fate'[d] # "new"
          /\ fate[d] \in Handled => fate'[d] \in Handled
          /\ fate'[d] \in Marked /\ fate'[d] # fate[d] => order'[OrderOf[d]].received
    /\ CommitCursor(j)
    /\ job' = [AfterCommit(j, S) EXCEPT ![j] = AfterBatch(job[j], B)]

\* Every batch has such an effect.
LEMMA BatchIs ==
    ASSUME ImportTypeOK, NEW j \in Jobs, ApplyBatch(j)
    PROVE  \E B \in SUBSET job[j].todo, S \in SUBSET Orders : BatchEffect(j, B, S)
<1>0. job[j] \in Job /\ job[j].todo \subseteq Deliveries
  BY DEF ImportTypeOK, Job
<1>01. PICK B \in NextBatch(j) :
          \E result \in [B -> {"skipped", "failed", "torn", "noted", "filled"}] :
          \E last \in [{o \in Orders : Of(o, B, result, WritesQuantity) # {}} -> B] :
            /\ \A d \in B : result[d] \in Outcomes(j, d)
            /\ \A o \in DOMAIN last : last[o] \in Of(o, B, result, WritesQuantity)
            /\ NoConflict(j, Touched(B, result))
            /\ order' = [o \in Orders |-> Applied(o, B, result, last)]
            /\ fate' = [d \in Deliveries |->
                          IF d \notin B \/ (result[d] \in {"skipped", "failed"}
                                            /\ fate[d] \in WritesQuantity \union MarksReceived)
                          THEN fate[d] ELSE result[d]]
            /\ CommitCursor(j)
            /\ job' = [AfterCommit(j, Touched(B, result)) EXCEPT ![j] = AfterBatch(@, B)]
  BY DEF ApplyBatch
<1>02. PICK result \in [B -> {"skipped", "failed", "torn", "noted", "filled"}] :
          \E last \in [{o \in Orders : Of(o, B, result, WritesQuantity) # {}} -> B] :
            /\ \A d \in B : result[d] \in Outcomes(j, d)
            /\ \A o \in DOMAIN last : last[o] \in Of(o, B, result, WritesQuantity)
            /\ NoConflict(j, Touched(B, result))
            /\ order' = [o \in Orders |-> Applied(o, B, result, last)]
            /\ fate' = [d \in Deliveries |->
                          IF d \notin B \/ (result[d] \in {"skipped", "failed"}
                                            /\ fate[d] \in WritesQuantity \union MarksReceived)
                          THEN fate[d] ELSE result[d]]
            /\ CommitCursor(j)
            /\ job' = [AfterCommit(j, Touched(B, result)) EXCEPT ![j] = AfterBatch(@, B)]
  BY <1>01
<1>1. PICK last \in [{o \in Orders : Of(o, B, result, WritesQuantity) # {}} -> B] :
          /\ \A d \in B : result[d] \in Outcomes(j, d)
          /\ \A o \in DOMAIN last : last[o] \in Of(o, B, result, WritesQuantity)
          /\ NoConflict(j, Touched(B, result))
          /\ order' = [o \in Orders |-> Applied(o, B, result, last)]
          /\ fate' = [d \in Deliveries |->
                        IF d \notin B \/ (result[d] \in {"skipped", "failed"}
                                          /\ fate[d] \in WritesQuantity \union MarksReceived)
                        THEN fate[d] ELSE result[d]]
          /\ CommitCursor(j)
          /\ job' = [AfterCommit(j, Touched(B, result)) EXCEPT ![j] = AfterBatch(@, B)]
  BY <1>02
<1> DEFINE S == Touched(B, result)
<1>2. B \subseteq job[j].todo /\ B \subseteq Deliveries
  BY <1>0, <1>1 DEF NextBatch
<1>3. S \subseteq Orders
  BY <1>2, ImportAssumption DEF Touched
<1>4. ASSUME OneBatch
      PROVE  B = job[j].todo
  <2>1. IsFiniteSet(job[j].todo) /\ Cardinality(job[j].todo) <= Cardinality(Deliveries)
    BY <1>0, ImportAssumption, FS_Subset
  <2>2. Cardinality(job[j].todo) \in Nat /\ Cardinality(Deliveries) \in Nat
    BY <2>1, ImportAssumption, FS_CardinalityType
  <2>3. Cardinality(B) = Cardinality(job[j].todo)
    BY <1>1, <1>4, <2>1, <2>2, ImportAssumption DEF NextBatch, OneBatch
  <2> QED
    BY <1>2, <2>1, <2>3, FS_Subset
<1>5. \A o \in S : o \in job[j].cache /\ o \notin job[j].stale
  BY <1>1 DEF Touched, Outcomes, NoConflict, WritesQuantity, MarksReceived
<1>6. ASSUME NEW o \in Orders
      PROVE  /\ order'[o] \in Order
             /\ o \notin S => order'[o] = order[o]
             /\ order'[o].state = order[o].state /\ order'[o].receipts = order[o].receipts
             /\ order'[o].received = (order[o].received \/ Of(o, B, result, MarksReceived) # {})
             /\ \/ order'[o].open = order[o].open
                \/ order'[o].open \in Of(o, B, result, WritesQuantity)
  <2> DEFINE open == IF Of(o, B, result, WritesQuantity) # {} THEN last[o] ELSE order[o].open
             rec == order[o].received \/ Of(o, B, result, MarksReceived) # {}
  <2>1. order[o] \in Order /\ order[o].received \in BOOLEAN
    BY DEF ImportTypeOK, Order
  <2>2. order'[o] = [order[o] EXCEPT !.open = open, !.received = rec]
    BY <1>1 DEF Applied
  <2>3. open = order[o].open \/ (open \in Of(o, B, result, WritesQuantity) /\ open \in Deliveries)
    BY <1>1, <1>2 DEF Of
  <2>4. rec \in BOOLEAN
    OBVIOUS
  <2>5. o \notin S => open = order[o].open /\ rec = order[o].received
    BY <2>1 DEF Touched, Of
  <2> HIDE DEF open, rec
  <2>6. order'[o] \in Order
    BY <2>1, <2>2, <2>3, <2>4 DEF Order
  <2>7. o \notin S => order'[o] = order[o]
    BY <2>1, <2>2, <2>5 DEF Order
  <2>8. /\ order'[o].state = order[o].state /\ order'[o].receipts = order[o].receipts
        /\ order'[o].received = rec /\ order'[o].open = open
    BY <2>1, <2>2 DEF Order
  <2> QED
    BY <2>3, <2>6, <2>7, <2>8 DEF rec
<1>7. \A d \in Deliveries : d \in B =>
          /\ fate'[d] # "absent" /\ fate'[d] # "new"
          /\ fate[d] \in Handled => fate'[d] \in Handled
          /\ result[d] \in WritesQuantity => fate'[d] \in Handled
          /\ fate'[d] \in Marked /\ fate'[d] # fate[d] => result[d] \in MarksReceived
  BY <1>1 DEF Handled, Marked, WritesQuantity, MarksReceived
<1>8. fate' \in [Deliveries -> Fates]
  BY <1>1 DEF ImportTypeOK, Fates
<1>9. \A d \in Deliveries \ B : fate'[d] = fate[d]
  BY <1>1
<1>10. \A d \in B : result[d] \in MarksReceived => order'[OrderOf[d]].received
  <2> SUFFICES ASSUME NEW d \in B, result[d] \in MarksReceived
               PROVE  order'[OrderOf[d]].received
    OBVIOUS
  <2>1. OrderOf[d] \in Orders /\ d \in Of(OrderOf[d], B, result, MarksReceived)
    BY <1>2, ImportAssumption DEF Of
  <2> QED
    BY <1>6, <2>1
<1>11. job' = [AfterCommit(j, S) EXCEPT ![j] = AfterBatch(job[j], B)]
  <2>1. AfterCommit(j, S)[j] = job[j]
    BY <1>3, AfterCommitIs
  <2> QED
    BY <1>1, <2>1
<1>12. \A o \in Orders : \/ order'[o].open = order[o].open
                         \/ /\ order'[o].open \in B /\ OrderOf[order'[o].open] = o
                            /\ fate'[order'[o].open] \in Handled
  BY <1>2, <1>6, <1>7 DEF Of
<1>13. order' \in [Orders -> Order]
  BY <1>1, <1>6
<1> HIDE DEF S
<1>14. BatchEffect(j, B, S)
  BY <1>1, <1>2, <1>4, <1>5, <1>6, <1>7, <1>8, <1>9, <1>10, <1>11, <1>12, <1>13 DEF BatchEffect
<1> QED
  BY <1>2, <1>3, <1>14

-----------------------------------------------------------------------------
(* The steps.                                                              *)

Begins(j) == BeginQueued(j) \/ BeginButton(j)

\* An import that begins reads its orders, and has written no cursor.
LEMMA BeginsIs ==
    ASSUME ImportTypeOK, NEW j \in Jobs, Begins(j)
    PROVE  /\ job' \in [Jobs -> Job]
           /\ job'[j].pc = "ask" /\ job'[j].loaded = Loadable /\ ~job'[j].marked
           /\ \A k \in Jobs \ {j} : job'[k] = job[k]
           /\ UNCHANGED <<order, behind, dated, fate>>
<1>1. \E r \in Job : /\ job' = [job EXCEPT ![j] = Snapshot(r)]
                     /\ r.pc = "ask" /\ ~r.marked
  <2>1. CASE BeginQueued(j)
    <3>1. LET r == [NoJob EXCEPT !.pc = "ask", !.rounds = 1]
          IN  r \in Job /\ r.pc = "ask" /\ ~r.marked
      BY NoJobType DEF Job, NoJob
    <3> QED
      BY <2>1, <3>1 DEF BeginQueued
  <2>2. CASE BeginButton(j)
    <3>1. LET r == [NoJob EXCEPT !.pc = "ask", !.button = TRUE, !.rounds = Cardinality(Loadable)]
          IN  r \in Job /\ r.pc = "ask" /\ ~r.marked
      BY NoJobType, LoadableIsFinite DEF Job, NoJob
    <3> QED
      BY <2>2, <3>1 DEF BeginButton
  <2> QED
    BY <2>1, <2>2 DEF Begins
<1>2. PICK r \in Job : /\ job' = [job EXCEPT ![j] = Snapshot(r)]
                       /\ r.pc = "ask" /\ ~r.marked
  BY <1>1
<1> QED
  BY <1>2, SnapshotIs DEF ImportTypeOK, Begins, BeginQueued, BeginButton

\* An import that does nothing itself keeps what it has read; others make it stale.
KeepsReading(k) ==
    /\ job'[k].pc = job[k].pc /\ job'[k].loaded = job[k].loaded /\ job'[k].cache = job[k].cache
    /\ job'[k].todo = job[k].todo /\ job'[k].marked = job[k].marked /\ job'[k].mark = job[k].mark
    /\ job[k].stale \subseteq job'[k].stale

\* What a commit leaves to the imports.
LEMMA BatchJobs ==
    ASSUME ImportTypeOK, NEW j \in Jobs, NEW S \in SUBSET Orders, NEW r \in Job,
           job' = [AfterCommit(j, S) EXCEPT ![j] = r]
    PROVE  /\ job' \in [Jobs -> Job]
           /\ job'[j] = r
           /\ \A k \in Jobs \ {j} :
                KeepsReading(k) /\ (job[k].pc \in {"ask", "apply"} => S \subseteq job'[k].stale)
<1>1. AfterCommit(j, S) \in [Jobs -> Job]
  BY AfterCommitIs
<1>2. job' \in [Jobs -> Job] /\ job'[j] = r /\ \A k \in Jobs \ {j} : job'[k] = AfterCommit(j, S)[k]
  BY <1>1
<1> QED
  BY <1>2, AfterCommitIs DEF KeepsReading

\* The steps of the others leave it what it has read.
LEMMA OnlyOwnSteps ==
    ASSUME ImportTypeOK, ReceiptInv, [ImportNext]_importVars, NEW k \in Jobs
    PROVE  KeepsReading(k) \/ Begins(k) \/ JobStep(k)
<1> USE DEF ImportTypeOK
<1>1. CASE UNCHANGED job
  BY <1>1 DEF KeepsReading
<1>2. ASSUME NEW o \in Orders, Office(o)
      PROVE  KeepsReading(k)
  BY <1>2, OfficeRows, CommitIs DEF KeepsReading
<1>3. ASSUME NEW j \in Jobs, j # k, Begins(j) \/ JobStep(j)
      PROVE  KeepsReading(k)
  <2>1. CASE Begins(j) \/ Ask(j) \/ AskFails(j) \/ Date(j) \/ Abort(j)
    BY <1>3, <2>1 DEF Begins, BeginQueued, BeginButton, Ask, AskFails, Date, Abort, KeepsReading
  <2>2. CASE ApplyBatch(j)
    <3>1. PICK B \in SUBSET job[j].todo, S \in SUBSET Orders : BatchEffect(j, B, S)
      BY <2>2, BatchIs
    <3>2. AfterBatch(job[j], B) \in Job
      BY AfterBatchIs
    <3> QED
      BY <1>3, <3>1, <3>2, BatchJobs DEF BatchEffect
  <2>3. CASE FinishJob(j)
    <3>1. {} \in SUBSET Orders /\ NoJob \in Job
      BY NoJobType
    <3> QED
      BY <1>3, <2>3, <3>1, BatchJobs DEF FinishJob
  <2> QED
    BY <1>3, <2>1, <2>2, <2>3 DEF JobStep
<1> QED
  BY <1>1, <1>2, <1>3 DEF ImportNext, Publish, Age, importVars, Begins

\* What becomes of a delivery: nothing published is forgotten, nothing handled is new
\* again, and what an import past its question has not seen is late.
LEMMA FateSteps ==
    ASSUME ImportTypeOK, ReceiptInv, [ImportNext]_importVars
    PROVE  /\ fate' \in [Deliveries -> Fates]
           /\ \A d \in Deliveries :
                /\ fate[d] # "absent" => fate'[d] # "absent"
                /\ fate[d] \notin {"absent", "new"} => fate'[d] # "new"
                /\ fate[d] = "absent" /\ fate'[d] = "new" => \A j \in Jobs : ~PastQuestion(j)
                /\ fate[d] \in Handled => fate'[d] \in Handled
                /\ fate'[d] \in Marked /\ fate'[d] # fate[d] =>
                      (\E j \in Jobs : ApplyBatch(j)) /\ order'[OrderOf[d]].received
<1> USE DEF ImportTypeOK
<1>1. CASE UNCHANGED fate
  BY <1>1
<1>2. ASSUME NEW d \in Deliveries, Publish(d) \/ Age(d)
      PROVE  /\ fate' \in [Deliveries -> Fates]
             /\ \A e \in Deliveries : e # d => fate'[e] = fate[e]
             /\ (fate'[d] # "absent" /\ fate'[d] \notin Marked) \/ fate'[d] = fate[d]
             /\ fate[d] \notin {"absent", "new"} => fate'[d] # "new"
             /\ fate[d] = "absent" /\ fate'[d] = "new" => \A j \in Jobs : ~PastQuestion(j)
             /\ fate[d] \in Handled => fate'[d] \in Handled
  <2>1. CASE Publish(d)
    BY <2>1 DEF Publish, Marked, Handled, Fates
  <2>2. CASE Age(d)
    BY <2>2 DEF Age, Marked, Handled, Fates, Published
  <2> QED
    BY <1>2, <2>1, <2>2
<1>3. ASSUME NEW j \in Jobs, Ask(j)
      PROVE  /\ fate' \in [Deliveries -> Fates]
             /\ \A d \in Deliveries :
                  fate'[d] = fate[d] \/ (fate'[d] = "filtered" /\ fate[d] \in {"new", "late", "aged"})
  BY <1>3 DEF Ask, Fates
<1>4. ASSUME NEW j \in Jobs, ApplyBatch(j)
      PROVE  /\ fate' \in [Deliveries -> Fates]
             /\ \A d \in Deliveries :
                  \/ fate'[d] = fate[d]
                  \/ /\ fate'[d] # "absent" /\ fate'[d] # "new"
                     /\ fate[d] \in Handled => fate'[d] \in Handled
                     /\ fate'[d] \in Marked /\ fate'[d] # fate[d] => order'[OrderOf[d]].received
  BY <1>4, BatchIs DEF BatchEffect
<1>5. UNCHANGED fate \/ (\E d \in Deliveries : Publish(d) \/ Age(d))
        \/ (\E j \in Jobs : Ask(j)) \/ (\E j \in Jobs : ApplyBatch(j))
  BY OfficeRows
  DEF ImportNext, importVars, Commit, BeginQueued, BeginButton, JobStep, AskFails, Date, FinishJob, Abort
<1>6. CASE \E d \in Deliveries : Publish(d) \/ Age(d)
  BY <1>2, <1>6 DEF Marked
<1>7. CASE \E j \in Jobs : Ask(j)
  BY <1>3, <1>7 DEF Marked, Handled
<1>8. CASE \E j \in Jobs : ApplyBatch(j)
  BY <1>4, <1>8
<1> QED
  BY <1>1, <1>5, <1>6, <1>7, <1>8

\* Nothing is imported at first.
LEMMA InitImport == ImportInit => ImportIInv /\ GoodsInv
<1> SUFFICES ASSUME ImportInit PROVE ImportIInv /\ GoodsInv
  OBVIOUS
<1>1. ImportTypeOK
  <2>1. NoOrder \in Order
    BY DEF NoOrder, Order
  <2>2. order \in [Orders -> Order]
    BY <2>1 DEF ImportInit
  <2>3. job \in [Jobs -> Job]
    BY NoJobType DEF ImportInit
  <2>4. fate \in [Deliveries -> Fates] /\ \A d \in Deliveries : fate[d] = "absent"
    BY DEF ImportInit, Fates
  <2> QED
    BY <2>2, <2>3, <2>4 DEF ImportInit, ImportTypeOK
<1>2. \A j \in Jobs : job[j].pc = "idle" /\ ~job[j].marked
  BY DEF ImportInit, NoJob
<1>3. \A d \in Deliveries : fate[d] = "absent"
  BY DEF ImportInit
<1>4. \A o \in Orders : order[o] = NoOrder
  BY DEF ImportInit
<1>5. MarkInv /\ ListInv /\ PassedWasHandled
  BY <1>2 DEF ImportInit, MarkInv, ListInv, PastQuestion, PassedWasHandled
<1>6. ReceiptInv
  <2>1. \A d \in Deliveries : d # Nothing /\ fate[d] \notin Marked
    BY <1>3, ImportAssumption DEF Marked
  <2>2. \A o \in Orders : order[o].open = Nothing /\ order[o].receipts = {}
    BY <1>4 DEF NoOrder
  <2> QED
    BY <1>4, <2>1, <2>2 DEF ReceiptInv
<1>7. AskInv /\ ApplyInv
  BY <1>2 DEF AskInv, ApplyInv
<1> QED
  BY <1>1, <1>5, <1>6, <1>7 DEF ImportIInv, GoodsInv, ImportInv

\* Every step keeps the types.
LEMMA StepImportType ==
    ASSUME ImportTypeOK, ReceiptInv, [ImportNext]_importVars
    PROVE  ImportTypeOK'
<1> USE DEF ImportTypeOK
<1>0. \A j \in Jobs : job[j] \in Job /\ job[j].mark \subseteq Deliveries
  BY DEF Job
<1>1. fate' \in [Deliveries -> Fates]
  BY FateSteps
<1>2. ASSUME NEW o \in Orders, Office(o)
      PROVE  ImportTypeOK'
  BY <1>2, OfficeRows, CommitIs
<1>3. ASSUME NEW d \in Deliveries, Publish(d) \/ Age(d)
      PROVE  ImportTypeOK'
  BY <1>1, <1>3 DEF Publish, Age
<1>4. ASSUME NEW j \in Jobs, Begins(j)
      PROVE  ImportTypeOK'
  BY <1>4, BeginsIs
<1>5. ASSUME NEW j \in Jobs, Ask(j)
      PROVE  ImportTypeOK'
  <2>1. Kept(j) \in SUBSET Deliveries
    BY DEF Kept, Answer, Published
  <2>2. [job[j] EXCEPT !.pc = "apply", !.cache = job[j].loaded, !.todo = Kept(j),
                       !.eligible = {}, !.loaded = {}] \in Job
    BY <1>0, <2>1 DEF Job
  <2>3. EndRound(job[j]) \in Job
    BY <1>0, EndRoundIs
  <2>4. job' \in [Jobs -> Job]
    BY <1>5, <2>2, <2>3 DEF Ask
  <2> QED
    BY <1>1, <1>5, <2>4 DEF Ask
<1>6. ASSUME NEW j \in Jobs, AskFails(j)
      PROVE  ImportTypeOK'
  BY <1>0, <1>6, EndRoundIs, NoJobType DEF AskFails
<1>7. ASSUME NEW j \in Jobs, CommitCursor(j)
      PROVE  behind' \subseteq Deliveries /\ dated' \in BOOLEAN
  BY <1>0, <1>7 DEF CommitCursor, Job
<1>8. ASSUME NEW j \in Jobs, ApplyBatch(j)
      PROVE  ImportTypeOK'
  <2>1. PICK B \in SUBSET job[j].todo, S \in SUBSET Orders : BatchEffect(j, B, S)
    BY <1>8, BatchIs
  <2>2. AfterBatch(job[j], B) \in Job
    BY <1>0, AfterBatchIs
  <2>3. job' \in [Jobs -> Job]
    BY <2>1, <2>2, BatchJobs DEF BatchEffect
  <2> QED
    BY <1>7, <2>1, <2>3 DEF BatchEffect
<1>9. ASSUME NEW j \in Jobs, Date(j)
      PROVE  ImportTypeOK'
  <2> DEFINE r == [job[j] EXCEPT !.marked = TRUE, !.mark = Published]
  <2>1. r \in Job
    BY <1>0 DEF Job, Published
  <2>2. job' = [job EXCEPT ![j] = EndRound(Snapshot(r))]
    BY <1>9 DEF Date
  <2> HIDE DEF r
  <2>3. EndRound(Snapshot(r)) \in Job
    BY <2>1, SnapshotIs, EndRoundIs
  <2> QED
    BY <1>9, <2>2, <2>3 DEF Date
<1>10. ASSUME NEW j \in Jobs, FinishJob(j)
       PROVE  ImportTypeOK'
  <2>1. job' \in [Jobs -> Job]
    BY <1>10, NoJobType, BatchJobs DEF FinishJob
  <2> QED
    BY <1>7, <1>10, <2>1 DEF FinishJob
<1>11. ASSUME NEW j \in Jobs, Abort(j)
       PROVE  ImportTypeOK'
  BY <1>11, NoJobType DEF Abort
<1>12. CASE UNCHANGED importVars
  BY <1>12 DEF importVars
<1> QED
  BY <1>2, <1>3, <1>4, <1>5, <1>6, <1>8, <1>9, <1>10, <1>11, <1>12 DEF ImportNext, JobStep, Begins

-----------------------------------------------------------------------------
(* The cursor.                                                             *)

\* What an import's own steps do with the cursor it has written: only Date writes it, once
\* the list is empty.
LEMMA OwnMark ==
    ASSUME ImportTypeOK, NEW j \in Jobs, Begins(j) \/ JobStep(j)
    PROVE  \/ job'[j].marked = job[j].marked /\ job'[j].mark = job[j].mark
           \/ ~job'[j].marked
           \/ Date(j) /\ job'[j].mark = Published
<1>0. job[j] \in Job /\ DOMAIN job = Jobs
  BY DEF ImportTypeOK
<1>1. CASE Begins(j)
  BY <1>1, BeginsIs
<1>2. CASE Ask(j)
  BY <1>0, <1>2, EndRoundIs DEF Ask, Job
<1>3. CASE AskFails(j)
  BY <1>0, <1>3, EndRoundIs DEF AskFails, NoJob
<1>4. CASE ApplyBatch(j)
  <2>1. PICK B \in SUBSET job[j].todo, S \in SUBSET Orders : BatchEffect(j, B, S)
    BY <1>4, BatchIs
  <2>2. AfterBatch(job[j], B) \in Job /\ ~AfterBatch(job[j], B).marked
    BY <1>0, AfterBatchIs
  <2> QED
    BY <2>1, <2>2, BatchJobs DEF BatchEffect
<1>5. CASE Date(j)
  <2> DEFINE r == [job[j] EXCEPT !.marked = TRUE, !.mark = Published]
  <2>1. r \in Job /\ r.mark = Published
    BY <1>0 DEF Job, Published
  <2>2. job'[j] = EndRound(Snapshot(r))
    BY <1>0, <1>5 DEF Date
  <2> HIDE DEF r
  <2> QED
    BY <1>5, <2>1, <2>2, SnapshotIs, EndRoundIs
<1>6. CASE FinishJob(j)
  <2>1. job'[j] = NoJob
    BY <1>6, NoJobType, BatchJobs DEF FinishJob
  <2> QED
    BY <2>1 DEF NoJob
<1>7. CASE Abort(j)
  BY <1>0, <1>7 DEF Abort, NoJob
<1> QED
  BY <1>1, <1>2, <1>3, <1>4, <1>5, <1>6, <1>7 DEF JobStep

\* What the cursors have passed stays published and handled.
LEMMA StepMark ==
    ASSUME ImportTypeOK, PassedWasHandled, MarkInv, ListInv, ReceiptInv, [ImportNext]_importVars
    PROVE  PassedWasHandled' /\ MarkInv'
<1>1. \A d \in Published : fate[d] # "new" => d \in Published' /\ fate'[d] # "new"
  BY FateSteps DEF Published
<1>2. ASSUME NEW d \in behind'
      PROVE  d \in Published' /\ fate'[d] # "new"
  <2>1. CASE d \in behind
    BY <1>1, <2>1 DEF MarkInv, PassedWasHandled
  <2>2. CASE \E j \in Jobs : job[j].marked /\ d \in job[j].mark
    BY <1>1, <2>2 DEF MarkInv
  <2>3. CASE Age(d)
    BY <2>3 DEF Age, ImportTypeOK, Published
  <2>4. ASSUME NEW e \in Deliveries, Age(e), e # d
        PROVE  d \in behind
    BY <1>2, <2>4 DEF Age
  <2>5. ASSUME NEW j \in Jobs, CommitCursor(j)
        PROVE  d \in behind \/ (job[j].marked /\ d \in job[j].mark)
    BY <1>2, <2>5 DEF CommitCursor
  <2>6. (\E j \in Jobs : CommitCursor(j)) \/ (\E e \in Deliveries : Age(e)) \/ UNCHANGED behind
    <3>1. \A j \in Jobs : ApplyBatch(j) => CommitCursor(j)
      BY DEF ApplyBatch
    <3> QED
      BY <3>1, OfficeRows
      DEF ImportNext, importVars, Commit, Publish, BeginQueued, BeginButton, JobStep, Ask, AskFails, Date,
          FinishJob, Abort
  <2> QED
    BY <1>2, <2>1, <2>2, <2>3, <2>4, <2>5, <2>6
<1>3. ASSUME NEW k \in Jobs, job'[k].marked, NEW d \in job'[k].mark
      PROVE  d \in Published' /\ fate'[d] # "new"
  <2>1. CASE job'[k].marked = job[k].marked /\ job'[k].mark = job[k].mark
    BY <1>1, <1>3, <2>1 DEF MarkInv
  <2>2. CASE Date(k) /\ job'[k].mark = Published
    <3>1. d \in Published /\ fate[d] # "new"
      BY <1>3, <2>2 DEF Date, ListInv, PastQuestion, Published
    <3> QED
      BY <1>1, <3>1
  <2> QED
    BY <1>3, <2>1, <2>2, OnlyOwnSteps, OwnMark DEF KeepsReading
<1> QED
  BY <1>2, <1>3 DEF PassedWasHandled, MarkInv

\* The list of an import holds all that is new to it.
LEMMA StepList ==
    ASSUME ImportTypeOK, PassedWasHandled, MarkInv, ListInv, ReceiptInv, [ImportNext]_importVars
    PROVE  ListInv'
<1>0. \A j \in Jobs : job[j] \in Job
  BY DEF ImportTypeOK
<1> DEFINE Lists(k) ==
        /\ PastQuestion(k)' => \A d \in Deliveries : fate'[d] = "new" => d \in job'[k].todo
        /\ job'[k].pc = "date" => job'[k].todo = {}
<1> SUFFICES ASSUME NEW k \in Jobs PROVE Lists(k)
  BY DEF ListInv
<1>1. CASE KeepsReading(k)
  <2>1. ASSUME PastQuestion(k), NEW d \in Deliveries, fate'[d] = "new"
        PROVE  d \in job[k].todo
    BY <2>1, FateSteps DEF ListInv
  <2> QED
    BY <1>1, <2>1 DEF KeepsReading, PastQuestion, ListInv
<1>2. CASE job'[k].pc \notin {"apply", "date"}
  BY <1>2 DEF PastQuestion
<1>3. CASE Ask(k)
  <2>1. CASE Kept(k) = {}
    <3>1. job'[k] = EndRound(job[k])
      BY <1>3, <2>1 DEF Ask, ImportTypeOK
    <3> QED
      BY <1>0, <1>2, <3>1, EndRoundIs
  <2>2. CASE Kept(k) # {}
    <3>1. job'[k].pc = "apply" /\ job'[k].todo = Kept(k)
      BY <1>0, <1>3, <2>2 DEF Ask, ImportTypeOK, Job
    <3>2. ASSUME NEW d \in Deliveries, fate'[d] = "new"
          PROVE  d \in Kept(k)
      <4>1. fate[d] = "new" /\ d \notin Answer(k) \ Kept(k)
        BY <1>3, <3>2 DEF Ask
      <4>2. d \in Answer(k)
        BY <4>1 DEF Answer, Published, MarkInv, PassedWasHandled
      <4> QED
        BY <4>1, <4>2
    <3> QED
      BY <3>1, <3>2
  <2> QED
    BY <2>1, <2>2
<1>4. CASE ApplyBatch(k)
  <2>1. PICK B \in SUBSET job[k].todo, S \in SUBSET Orders : BatchEffect(k, B, S)
    BY <1>4, BatchIs
  <2>2. LET a == AfterBatch(job[k], B) IN
        /\ a \in Job /\ (a.pc = "date" => job[k].todo = B) /\ a.todo = job[k].todo \ B
    BY <1>0, AfterBatchIs
  <2>3. job'[k] = AfterBatch(job[k], B)
    BY <2>1, <2>2, BatchJobs DEF BatchEffect
  <2>4. ASSUME NEW d \in Deliveries, fate'[d] = "new"
        PROVE  d \in job[k].todo \ B
    <3>1. d \notin B /\ fate[d] = "new"
      BY <2>1, <2>4 DEF BatchEffect
    <3> QED
      BY <1>4, <3>1 DEF ApplyBatch, ListInv, PastQuestion
  <2> QED
    BY <2>2, <2>3, <2>4
<1>5. CASE Begins(k)
  BY <1>2, <1>5, BeginsIs
<1>6. CASE AskFails(k) \/ Abort(k)
  <2>1. job'[k] = EndRound(job[k]) \/ job'[k] = NoJob
    BY <1>6 DEF AskFails, Abort, ImportTypeOK
  <2> QED
    BY <1>0, <1>2, <2>1, EndRoundIs DEF NoJob
<1>7. CASE FinishJob(k)
  <2>1. job'[k] = NoJob
    BY <1>7, NoJobType, BatchJobs DEF FinishJob
  <2> QED
    BY <1>2, <2>1 DEF NoJob
<1>8. CASE Date(k)
  <2> DEFINE r == [job[k] EXCEPT !.marked = TRUE, !.mark = Published]
  <2>1. r \in Job
    BY <1>0 DEF Job, Published
  <2>2. job'[k] = EndRound(Snapshot(r))
    BY <1>8 DEF Date, ImportTypeOK
  <2> HIDE DEF r
  <2>3. job'[k].pc \in {"ask", "commit"}
    BY <2>1, <2>2, SnapshotIs, EndRoundIs
  <2> QED
    BY <1>2, <2>3
<1> QED
  BY <1>1, <1>3, <1>4, <1>5, <1>6, <1>7, <1>8, OnlyOwnSteps DEF JobStep

-----------------------------------------------------------------------------
(* The goods.                                                              *)

\* The steps that change orders.
LEMMA OrderSteps ==
    ASSUME [ImportNext]_importVars
    PROVE  \/ UNCHANGED order
           \/ \E o \in Orders : Office(o)
           \/ \E j \in Jobs : ApplyBatch(j)
BY DEF ImportNext, importVars, Publish, Age, BeginQueued, BeginButton, JobStep, Ask, AskFails, Date,
       FinishJob, Abort

\* An order that exists goes on existing, stays received, and is marked by imports only.
LEMMA OrderStays ==
    ASSUME ImportTypeOK, ReceiptInv, [ImportNext]_importVars, NEW o \in Orders
    PROVE  /\ order[o].received => order'[o].received
           /\ order[o].state # "none" => order'[o].state # "none"
           /\ order[o].state # "none" /\ order'[o].received # order[o].received =>
                 \E j \in Jobs : ApplyBatch(j)
<1>1. ASSUME NEW p \in Orders, Office(p)
      PROVE  /\ order[o].received => order'[o].received
             /\ order[o].state # "none" => order'[o].state # "none"
             /\ order[o].state # "none" => order'[o].received = order[o].received
  <2>1. PICK row \in Order : /\ Commit(p, row)
                             /\ row.state # "none"
                             /\ order[p].received => row.received
                             /\ order[p].state # "none" => row.received = order[p].received
    BY <1>1, OfficeRows
  <2>2. order' = [order EXCEPT ![p] = row]
    BY <2>1, CommitIs
  <2> QED
    BY <2>1, <2>2 DEF ImportTypeOK
<1>2. ASSUME NEW j \in Jobs, ApplyBatch(j)
      PROVE  /\ order[o].received => order'[o].received
             /\ order'[o].state = order[o].state
  BY <1>2, BatchIs DEF BatchEffect
<1> QED
  BY <1>1, <1>2, OrderSteps

\* An import that may still write an order either finds it as it read it, or stale.
LEMMA Noticed ==
    ASSUME ImportTypeOK, ReceiptInv, [ImportNext]_importVars, NEW k \in Jobs,
           job[k].pc \in {"ask", "apply"}, ~ApplyBatch(k), NEW o \in Orders
    PROVE  \/ order'[o] = order[o]
           \/ KeepsReading(k) /\ o \in job'[k].stale
<1>1. ASSUME NEW p \in Orders, Office(p)
      PROVE  order'[o] = order[o] \/ (KeepsReading(k) /\ o \in job'[k].stale)
  <2>1. PICK row \in Order : Commit(p, row)
    BY <1>1, OfficeRows
  <2> QED
    BY <2>1, CommitIs DEF KeepsReading, ImportTypeOK
<1>2. ASSUME NEW j \in Jobs, j # k, ApplyBatch(j)
      PROVE  order'[o] = order[o] \/ (KeepsReading(k) /\ o \in job'[k].stale)
  <2>1. PICK B \in SUBSET job[j].todo, S \in SUBSET Orders : BatchEffect(j, B, S)
    BY <1>2, BatchIs
  <2>2. AfterBatch(job[j], B) \in Job
    BY AfterBatchIs DEF ImportTypeOK
  <2>3. KeepsReading(k) /\ S \subseteq job'[k].stale
    BY <1>2, <2>1, <2>2, BatchJobs DEF BatchEffect
  <2> QED
    BY <2>1, <2>3 DEF BatchEffect
<1> QED
  BY <1>1, <1>2, OrderSteps

\* Orders hold the goods of their own deliveries, and are received once one is marked.
LEMMA StepReceipt ==
    ASSUME ImportTypeOK, ReceiptInv, ApplyInv, [ImportNext]_importVars
    PROVE  ReceiptInv'
<1>1. ASSUME NEW d \in Deliveries, fate'[d] \in Marked
      PROVE  order'[OrderOf[d]].received
  <2>1. OrderOf[d] \in Orders
    BY ImportAssumption
  <2> QED
    BY <1>1, <2>1, FateSteps, OrderStays DEF ReceiptInv
<1>2. \A d \in Deliveries : fate[d] \in Handled => fate'[d] \in Handled
  BY FateSteps
<1>3. \A o \in Orders : \A d \in Deliveries :
          d = order[o].open \/ d \in order[o].receipts => OrderOf[d] = o /\ fate'[d] \in Handled
  BY <1>2 DEF ReceiptInv, Handled
<1>4. ASSUME NEW o \in Orders, NEW d \in Deliveries,
             d = order'[o].open \/ d \in order'[o].receipts
      PROVE  OrderOf[d] = o /\ fate'[d] \in Handled
  <2>1. ASSUME NEW p \in Orders, Office(p)
        PROVE  d = order[o].open \/ d \in order[o].receipts
    <3>1. PICK row \in Order : /\ Commit(p, row)
                               /\ row.open \in {Planned, Nothing, order[p].open}
                               /\ row.receipts \subseteq order[p].receipts \union {order[p].open}
      BY <2>1, OfficeRows
    <3>2. order' = [order EXCEPT ![p] = row]
      BY <3>1, CommitIs
    <3>3. d # Planned /\ d # Nothing
      BY ImportAssumption
    <3> QED
      BY <1>4, <3>1, <3>2, <3>3 DEF ImportTypeOK
  <2>2. ASSUME NEW j \in Jobs, ApplyBatch(j)
        PROVE  \/ d = order[o].open \/ d \in order[o].receipts
               \/ OrderOf[d] = o /\ fate'[d] \in Handled
    <3>1. PICK B \in SUBSET job[j].todo, S \in SUBSET Orders : BatchEffect(j, B, S)
      BY <2>2, BatchIs
    <3> QED
      BY <1>4, <3>1 DEF BatchEffect
  <2> QED
    BY <1>3, <1>4, <2>1, <2>2, OrderSteps
<1>5. ASSUME NEW o \in Orders, order'[o].state = "none"
      PROVE  order'[o] = NoOrder
  <2>1. order[o] = NoOrder /\ order[o].state = "none"
    BY <1>5, OrderStays DEF ReceiptInv
  <2>2. ASSUME NEW p \in Orders, Office(p)
        PROVE  order'[o] = order[o]
    <3>1. PICK row \in Order : Commit(p, row) /\ row.state # "none"
      BY <2>2, OfficeRows
    <3>2. order' = [order EXCEPT ![p] = row]
      BY <3>1, CommitIs
    <3> QED
      BY <1>5, <3>1, <3>2 DEF ImportTypeOK
  <2>3. ASSUME NEW j \in Jobs, ApplyBatch(j)
        PROVE  order'[o] = order[o]
    <3>1. PICK B \in SUBSET job[j].todo, S \in SUBSET Orders : BatchEffect(j, B, S)
      BY <2>3, BatchIs
    <3>2. o \notin job[j].cache
      BY <2>1, <2>3 DEF ApplyInv, ApplyBatch
    <3> QED
      BY <3>1, <3>2 DEF BatchEffect
  <2> QED
    BY <2>1, <2>2, <2>3, OrderSteps
<1> QED
  BY <1>1, <1>4, <1>5 DEF ReceiptInv, Handled

\* What an import preloads stays awaiting, or becomes stale; with one import, nothing it
\* preloaded is received before it applies it.
LEMMA StepAsk ==
    ASSUME ImportTypeOK, ReceiptInv, AskInv, [ImportNext]_importVars
    PROVE  AskInv'
<1>0. \A j \in Jobs : job[j] \in Job /\ job[j].loaded \subseteq Orders
  BY DEF ImportTypeOK, Job
<1> DEFINE Awaits(k) ==
        \A o \in job'[k].loaded :
            /\ o \in Loadable' \/ o \in job'[k].stale
            /\ order'[o].state # "none"
            /\ OneJob => ~order'[o].received
<1> SUFFICES ASSUME NEW k \in Jobs, job'[k].pc = "ask" PROVE Awaits(k)
  BY DEF AskInv, OneJob
<1>1. \A o \in Loadable : order[o].state # "none" /\ ~order[o].received
  BY DEF Loadable, Eligible
<1>2. CASE UNCHANGED order /\ job'[k].loaded = Loadable
  <2>1. Loadable' = Loadable
    BY <1>2 DEF Loadable, Eligible
  <2> QED
    BY <1>1, <1>2, <2>1
<1>3. CASE /\ UNCHANGED order /\ job[k].pc = "ask"
           /\ job'[k].loaded = job[k].loaded /\ job'[k].stale = job[k].stale
  <2>1. Loadable' = Loadable
    BY <1>3 DEF Loadable, Eligible
  <2> QED
    BY <1>3, <2>1 DEF AskInv
<1>4. CASE KeepsReading(k)
  <2>1. job[k].pc = "ask" /\ ~ApplyBatch(k)
    BY <1>4 DEF KeepsReading, ApplyBatch
  <2>2. ASSUME NEW o \in job[k].loaded
        PROVE  o \in Loadable' \/ o \in job'[k].stale
    <3>1. o \in Orders /\ (o \in Loadable \/ o \in job'[k].stale)
      BY <1>0, <1>4, <2>1 DEF AskInv, KeepsReading
    <3>2. order'[o] = order[o] \/ o \in job'[k].stale
      BY <2>1, <3>1, Noticed
    <3> QED
      BY <3>1, <3>2 DEF Loadable, Eligible
  <2>3. ASSUME NEW o \in job[k].loaded
        PROVE  /\ order'[o].state # "none"
               /\ OneJob => ~order'[o].received
    <3>1. o \in Orders /\ order[o].state # "none" /\ (OneJob => ~order[o].received)
      BY <1>0, <2>1 DEF AskInv
    <3>2. ASSUME OneJob, NEW j \in Jobs, ApplyBatch(j)
          PROVE  FALSE
      BY <2>1, <3>2 DEF OneJob
    <3>3. order[o].received \in BOOLEAN /\ order'[o].received \in BOOLEAN
      BY <3>1, StepImportType DEF ImportTypeOK, Order
    <3> QED
      BY <3>1, <3>2, <3>3, OrderStays
  <2> QED
    BY <1>4, <2>2, <2>3 DEF KeepsReading
<1>5. CASE Begins(k)
  BY <1>2, <1>5, BeginsIs
<1>6. CASE Ask(k) \/ AskFails(k)
  <2>1. job'[k].pc # "ask" \/ job'[k] = EndRound(job[k])
    <3>1. [job[k] EXCEPT !.pc = "apply", !.cache = job[k].loaded, !.todo = Kept(k),
                         !.eligible = {}, !.loaded = {}].pc = "apply"
      BY <1>0 DEF Job
    <3>2. NoJob.pc = "idle"
      BY DEF NoJob
    <3> QED
      BY <1>6, <3>1, <3>2 DEF Ask, AskFails, ImportTypeOK
  <2>2. job'[k].loaded = job[k].loaded /\ job'[k].stale = job[k].stale
    BY <1>0, <2>1, EndRoundIs
  <2> QED
    BY <1>3, <1>6, <2>2 DEF Ask, AskFails
<1>7. CASE ApplyBatch(k)
  <2>1. PICK B \in SUBSET job[k].todo, S \in SUBSET Orders : BatchEffect(k, B, S)
    BY <1>7, BatchIs
  <2>2. AfterBatch(job[k], B) \in Job /\ AfterBatch(job[k], B).pc # "ask"
    BY <1>0, AfterBatchIs
  <2> QED
    BY <2>1, <2>2, BatchJobs DEF BatchEffect
<1>8. CASE FinishJob(k) \/ Abort(k)
  <2>1. job'[k] = NoJob
    BY <1>8, NoJobType, BatchJobs DEF FinishJob, Abort, ImportTypeOK
  <2> QED
    BY <2>1 DEF NoJob
<1>9. CASE Date(k)
  <2> DEFINE r == [job[k] EXCEPT !.marked = TRUE, !.mark = Published]
  <2>1. r \in Job
    BY <1>0 DEF Job, Published
  <2>2. job'[k] = EndRound(Snapshot(r)) /\ UNCHANGED order
    BY <1>9 DEF Date, ImportTypeOK
  <2> HIDE DEF r
  <2>3. job'[k].loaded = Loadable
    BY <2>1, <2>2, SnapshotIs, EndRoundIs
  <2> QED
    BY <1>2, <2>2, <2>3
<1> QED
  BY <1>4, <1>5, <1>6, <1>7, <1>8, <1>9, OnlyOwnSteps DEF JobStep

\* What an import applies awaits its delivery, or is stale, in its first batch; with one
\* import, what is still on its list is not marked.
LEMMA StepApply ==
    ASSUME ImportTypeOK, ReceiptInv, AskInv, ApplyInv, [ImportNext]_importVars
    PROVE  ApplyInv'
<1>0. \A j \in Jobs : job[j] \in Job /\ job[j].loaded \subseteq Orders /\ job[j].cache \subseteq Orders
                      /\ job[j].todo \subseteq Deliveries
  BY DEF ImportTypeOK, Job
<1> DEFINE Applies(k) ==
        /\ \A o \in job'[k].cache : order'[o].state # "none"
        /\ OneBatch => \A o \in job'[k].cache : o \in Loadable' \/ o \in job'[k].stale
        /\ OneJob => \A d \in job'[k].todo : OrderOf[d] \in job'[k].cache => fate'[d] \notin Marked
<1> SUFFICES ASSUME NEW k \in Jobs, job'[k].pc = "apply" PROVE Applies(k)
  BY DEF ApplyInv, OneJob, OneBatch
<1>1. CASE ApplyBatch(k)
  <2>1. PICK B \in SUBSET job[k].todo, S \in SUBSET Orders : BatchEffect(k, B, S)
    BY <1>1, BatchIs
  <2>2. LET a == AfterBatch(job[k], B) IN
        /\ a \in Job /\ (job[k].todo = B => a.pc = "date") /\ a.todo = job[k].todo \ B
        /\ a.cache = job[k].cache
    BY <1>0, AfterBatchIs
  <2>3. job'[k] = AfterBatch(job[k], B)
    BY <2>1, <2>2, BatchJobs DEF BatchEffect
  <2>4. ~OneBatch
    BY <2>1, <2>2, <2>3 DEF BatchEffect
  <2>5. job[k].pc = "apply"
    BY <1>1 DEF ApplyBatch
  <2>6. \A o \in Orders : order'[o].state = order[o].state
    BY <2>1 DEF BatchEffect
  <2>7. \A d \in Deliveries \ B : fate'[d] = fate[d]
    BY <2>1 DEF BatchEffect
  <2> QED
    BY <1>0, <2>2, <2>3, <2>4, <2>5, <2>6, <2>7 DEF ApplyInv
<1>2. CASE KeepsReading(k) /\ ~ApplyBatch(k)
  <2>1. job[k].pc = "apply"
    BY <1>2 DEF KeepsReading
  <2>2. \A o \in job[k].cache : order'[o].state # "none"
    BY <1>0, <2>1, OrderStays DEF ApplyInv
  <2>3. ASSUME OneBatch, NEW o \in job[k].cache
        PROVE  o \in Loadable' \/ o \in job'[k].stale
    <3>1. o \in Orders /\ (o \in Loadable \/ o \in job'[k].stale)
      BY <1>0, <1>2, <2>1, <2>3 DEF ApplyInv, KeepsReading
    <3>2. order'[o] = order[o] \/ o \in job'[k].stale
      BY <1>2, <2>1, <3>1, Noticed
    <3> QED
      BY <3>1, <3>2 DEF Loadable, Eligible
  <2>4. ASSUME OneJob, NEW d \in job[k].todo, OrderOf[d] \in job[k].cache
        PROVE  fate'[d] \notin Marked
    <3>1. fate[d] \notin Marked /\ d \in Deliveries
      BY <1>0, <2>1, <2>4 DEF ApplyInv
    <3>2. \A j \in Jobs : ~ApplyBatch(j)
      BY <1>2, <2>4 DEF OneJob
    <3> QED
      BY <3>1, <3>2, FateSteps
  <2> QED
    BY <1>2, <2>2, <2>3, <2>4 DEF KeepsReading
<1>3. CASE Ask(k)
  <2>1. Kept(k) # {} /\ job'[k] = [job[k] EXCEPT !.pc = "apply", !.cache = job[k].loaded,
                                        !.todo = Kept(k), !.eligible = {}, !.loaded = {}]
    <3>1. job'[k] # EndRound(job[k])
      BY <1>0, EndRoundIs
    <3> QED
      BY <1>3, <3>1 DEF Ask, ImportTypeOK
  <2>2. /\ job'[k].cache = job[k].loaded /\ job'[k].todo = Kept(k) /\ job'[k].stale = job[k].stale
        /\ UNCHANGED order /\ job[k].pc = "ask"
    BY <1>0, <1>3, <2>1 DEF Ask, Job
  <2>3. Loadable' = Loadable
    BY <2>2 DEF Loadable, Eligible
  <2>4. ASSUME OneJob, NEW d \in Kept(k), OrderOf[d] \in job[k].loaded
        PROVE  fate'[d] \notin Marked
    <3>1. d \in Deliveries /\ ~order[OrderOf[d]].received
      BY <2>2, <2>4 DEF Kept, Answer, Published, AskInv
    <3>2. fate[d] \notin Marked
      BY <3>1 DEF ReceiptInv
    <3> QED
      BY <1>3, <3>1, <3>2 DEF Ask, Marked
  <2> QED
    BY <2>2, <2>3, <2>4 DEF AskInv
<1>4. CASE Begins(k)
  BY <1>4, BeginsIs
<1>5. CASE AskFails(k) \/ Abort(k)
  <2>1. job'[k] = EndRound(job[k]) \/ job'[k] = NoJob
    BY <1>5 DEF AskFails, Abort, ImportTypeOK
  <2> QED
    BY <1>0, <2>1, EndRoundIs DEF NoJob
<1>6. CASE FinishJob(k)
  <2>1. job'[k] = NoJob
    BY <1>6, NoJobType, BatchJobs DEF FinishJob
  <2> QED
    BY <2>1 DEF NoJob
<1>7. CASE Date(k)
  <2> DEFINE r == [job[k] EXCEPT !.marked = TRUE, !.mark = Published]
  <2>1. r \in Job
    BY <1>0 DEF Job, Published
  <2>2. job'[k] = EndRound(Snapshot(r))
    BY <1>7 DEF Date, ImportTypeOK
  <2> HIDE DEF r
  <2>3. job'[k].pc \in {"ask", "commit"}
    BY <2>1, <2>2, SnapshotIs, EndRoundIs
  <2> QED
    BY <2>3
<1> QED
  BY <1>1, <1>2, <1>3, <1>4, <1>5, <1>6, <1>7, OnlyOwnSteps DEF JobStep

\* Every step keeps the inductive invariant.
LEMMA StepImport ==
    ImportIInv /\ GoodsInv /\ [ImportNext]_importVars => (ImportIInv /\ GoodsInv)'
BY StepImportType, StepMark, StepList, StepReceipt, StepAsk, StepApply DEF ImportIInv, GoodsInv, ImportInv

-----------------------------------------------------------------------------
(* The theorems.                                                           *)

\* A batch that changes an order wrote it as it had preloaded it.
LEMMA BatchOfAwaiting ==
    ASSUME ImportIInv, GoodsInv, NEW j \in Jobs, ApplyBatch(j), NEW o \in Orders, order'[o] # order[o]
    PROVE  /\ OneBatch => o \in Loadable
           /\ order'[o].open # order[o].open =>
                 /\ order'[o].open \in Deliveries
                 /\ OneJob => fate[order'[o].open] \notin Marked
<1>0. ImportTypeOK /\ job[j].pc = "apply" /\ job[j].todo \subseteq Deliveries
  BY DEF ImportIInv, ImportInv, ImportTypeOK, ApplyBatch, Job
<1>1. PICK B \in SUBSET job[j].todo, S \in SUBSET Orders : BatchEffect(j, B, S)
  BY <1>0, BatchIs
<1>2. o \in job[j].cache /\ o \notin job[j].stale
  BY <1>1 DEF BatchEffect
<1>3. order'[o].open # order[o].open => order'[o].open \in job[j].todo /\ OrderOf[order'[o].open] = o
  BY <1>1 DEF BatchEffect
<1> QED
  BY <1>0, <1>2, <1>3 DEF GoodsInv, ApplyInv

\* Every state is well typed, and a delivery the cursor has passed was handled, turned
\* down, or slipped by in one of the two ways that are named: for any orders, deliveries,
\* batch size and number of imports at once, which may crash, conflict and fail to ask.
THEOREM PassedIsHandled == ImportSpec => []ImportInv
<1> QED
  BY InitImport, StepImport, PTL DEF ImportSpec, ImportIInv

\* The goods of a delivery go into one receipt only, if imports do not overlap or their
\* deliveries fit one batch, and unless the delivery failed halfway.
THEOREM OneReceipt == ImportSpec => DeliveryFillsOneReceipt
<1>1. ImportIInv /\ GoodsInv /\ [ImportNext]_importVars =>
        [OneJob \/ OneBatch =>
           \A o \in Orders : \A d \in order[o].receipts \ {Planned} :
              /\ order'[o].open = d
              /\ order[o].open # d
              => fate[d] = "torn"]_importVars
  <2> SUFFICES ASSUME ImportIInv, GoodsInv, [ImportNext]_importVars, OneJob \/ OneBatch,
                      NEW o \in Orders, NEW d \in order[o].receipts \ {Planned},
                      order'[o].open = d, order[o].open # d
               PROVE  fate[d] = "torn"
    OBVIOUS
  <2>1. ImportTypeOK /\ ReceiptInv
    BY DEF ImportIInv, ImportInv, GoodsInv
  <2>2. d \in Deliveries
    BY <2>1 DEF ImportTypeOK, Order
  <2>3. fate[d] \in {"filled", "torn", "noted"} /\ OrderOf[d] = o
    BY <2>1, <2>2 DEF ReceiptInv
  <2>4. ASSUME NEW p \in Orders, Office(p)
        PROVE  FALSE
    <3>1. PICK row \in Order : Commit(p, row) /\ row.open \in {Planned, Nothing, order[p].open}
      BY <2>1, <2>4, OfficeRows
    <3>2. order' = [order EXCEPT ![p] = row]
      BY <2>1, <3>1, CommitIs
    <3>3. d # Planned /\ d # Nothing
      BY <2>2, ImportAssumption
    <3> QED
      BY <2>1, <3>1, <3>2, <3>3 DEF ImportTypeOK
  <2>5. PICK j \in Jobs : ApplyBatch(j)
    BY <2>4, OrderSteps
  <2>6. fate[d] \notin Marked
    <3>1. (OneBatch => o \in Loadable) /\ (OneJob => fate[d] \notin Marked)
      BY <2>5, BatchOfAwaiting
    <3>2. o \in Loadable => ~order[o].received
      BY DEF Loadable, Eligible
    <3> QED
      BY <2>1, <2>2, <2>3, <3>1, <3>2 DEF ReceiptInv
  <2> QED
    BY <2>3, <2>6 DEF Marked
<1> QED
  BY <1>1, InitImport, StepImport, PTL DEF ImportSpec, DeliveryFillsOneReceipt

\* If one batch is enough, an order is marked received only in the very state it was
\* preloaded for, however many imports and users work on it at once.
THEOREM MarkedAsPreloaded == ImportSpec => MarkedWhileAwaiting
<1>1. ImportIInv /\ GoodsInv /\ [ImportNext]_importVars =>
        [OneBatch =>
           \A o \in Orders :
              order[o].state # "none" /\ order'[o].received # order[o].received
                  => o \in Loadable]_importVars
  <2> SUFFICES ASSUME ImportIInv, GoodsInv, [ImportNext]_importVars, OneBatch, NEW o \in Orders,
                      order[o].state # "none", order'[o].received # order[o].received
               PROVE  o \in Loadable
    OBVIOUS
  <2>1. ImportTypeOK /\ ReceiptInv
    BY DEF ImportIInv, ImportInv, GoodsInv
  <2> QED
    BY <2>1, OrderStays, BatchOfAwaiting
<1> QED
  BY <1>1, InitImport, StepImport, PTL DEF ImportSpec, MarkedWhileAwaiting

-----------------------------------------------------------------------------
(* Cards at the till.                                                      *)

\* What the invariant says of one order: whose balance it has, what was moved since it was
\* pushed, and what its receipt adds up to.
OrderIsTold(x) ==
    /\ x.balance # None => x.whose = x.client \/ x.crossed
    /\ x.client # Nobody /\ x.state = "pushed" => x.moved = x.credited - x.card
    /\ x.client # Nobody /\ x.state = "confirmed" =>
          /\ x.balance # None /\ x.won # None /\ x.spent # None
          /\ x.card >= 0 /\ x.credited = x.change =>
                x.moved = (x.won - (x.spent + x.payment)) + x.change

\* A lookup that nothing crossed is for the client of the order on the screen.
LookupIsTold ==
    lookup.at # "idle" =>
        /\ lookup.client \in Clients
        /\ lookup.crossed \/ ticket[screen].client = lookup.client

CardIInv ==
    /\ CardTypeOK
    /\ LookupIsTold
    /\ \A t \in Tickets : OrderIsTold(ticket[t])
    /\ GiftIsTold

\* The points of an order are a whole number.
LEMMA PointsAreWhole ==
    ASSUME NEW cart \in Carts \cup {{}}
    PROVE  CustomPoints(cart) \in Int
<1>1. ASSUME NEW f \in Families PROVE Total(cart, f) \in Int
  <2> DEFINE S == {l \in Counted(cart) : l.family = f}
             g == [l \in S |-> l.price]
  <2>1. S \subseteq cart
    BY DEF Counted
  <2>2. IsFiniteSet(cart)
    BY TillLoyaltyAssumption, FS_EmptySet
  <2>3. IsFiniteSet(S)
    BY <2>1, <2>2, FS_Subset
  <2>4. \A l \in S : g[l] \in Int
    BY <2>1, TillLoyaltyAssumption
  <2>5. Total(cart, f) = SumFunctionOnSet(g, S)
    BY DEF Total
  <2> HIDE DEF S, g
  <2> QED
    BY <2>3, <2>4, <2>5, SumType
<1> DEFINE h == [f \in Families |-> IF Threshold[f] = 0 THEN 0
                                    ELSE (Total(cart, f) \div Threshold[f]) * Earned[f]]
<1>2. ASSUME NEW f \in Families PROVE h[f] \in Int
  <2>1. Threshold[f] \in Nat /\ Earned[f] \in Nat /\ Total(cart, f) \in Int
    BY <1>1, TillLoyaltyAssumption
  <2>2. CASE Threshold[f] = 0
    BY <2>2
  <2>3. CASE Threshold[f] # 0
    <3>1. PICK q \in Int : q = Total(cart, f) \div Threshold[f]
      BY <2>1, <2>3
    <3>2. q * Earned[f] \in Int
      BY <2>1
    <3> QED
      BY <2>3, <3>1, <3>2
  <2> QED
    BY <2>2, <2>3
<1>3. CustomPoints(cart) = SumFunctionOnSet(h, Families)
  BY DEF CustomPoints
<1> HIDE DEF h
<1> QED
  BY <1>2, <1>3, SumType, TillLoyaltyAssumption

LEMMA PointsForType ==
    ASSUME ticket \in [Tickets -> Ticket], NEW t \in Tickets
    PROVE  PointsFor(t) \in Int
<1>1. ticket[t] \in Ticket
  OBVIOUS
<1>2. ticket[t].cart \in Carts \cup {{}}
  BY <1>1 DEF Ticket
<1> QED
  BY <1>2, PointsAreWhole DEF PointsFor

\* What a step that writes one order keeps of the orders.
LEMMA OneTicketWritten ==
    ASSUME CardIInv, NEW t \in Tickets, NEW y \in Ticket, OrderIsTold(y),
           ticket' = [ticket EXCEPT ![t] = y]
    PROVE  /\ ticket' \in [Tickets -> Ticket]
           /\ \A u \in Tickets : OrderIsTold(ticket'[u])
BY DEF CardIInv, CardTypeOK

\* What export_as_JSON writes: an order that is confirmed has all of it already.
LEMMA ExportedIsTold ==
    ASSUME CardIInv, NEW t \in Tickets
    PROVE  /\ Exported(t) \in Ticket /\ OrderIsTold(Exported(t))
           /\ Exported(t).client = ticket[t].client
           /\ Exported(t).state = ticket[t].state
<1> DEFINE x == ticket[t]
<1>1. x \in Ticket /\ OrderIsTold(x)
  BY DEF CardIInv, CardTypeOK
<1>2. CASE ~HasStat(t)
  BY <1>1, <1>2 DEF Exported
<1>3. CASE HasStat(t)
  <2>1. x.client \in Clients
    BY <1>1, <1>3 DEF HasStat, Ticket
  <2>2. PICK b \in Int : b = StatBalance(t)
    BY <2>1 DEF StatBalance, CardIInv, CardTypeOK
  <2>3. PICK s \in Int : s = StatSpent(t) /\ (x.state = "confirmed" => s = 0)
    BY <1>1 DEF StatSpent, Ticket
  <2>4. PICK w \in Int : w = StatWon(t)
    BY PointsForType DEF StatWon, CardIInv, CardTypeOK
  <2> DEFINE y == [x EXCEPT !.balance = b, !.whose = x.client, !.spent = s, !.won = w]
             z == [x EXCEPT !.spent = s, !.won = w]
  <2>5. Exported(t) = IF x.balance = None THEN y ELSE IF s > 0 THEN z ELSE x
    BY <1>3, <2>2, <2>3, <2>4 DEF Exported
  <2>6. /\ y \in Ticket /\ y.client = x.client /\ y.state = x.state
        /\ y.balance = b /\ y.whose = x.client
        /\ y.moved = x.moved /\ y.credited = x.credited /\ y.card = x.card
    BY <1>1 DEF Ticket, Points
  <2>7. /\ z \in Ticket /\ z.client = x.client /\ z.state = x.state
        /\ z.balance = x.balance /\ z.whose = x.whose /\ z.crossed = x.crossed
        /\ z.moved = x.moved /\ z.credited = x.credited /\ z.card = x.card
    BY <1>1 DEF Ticket, Points
  <2> HIDE DEF x, y, z
  <2>8. x.client # Nobody
    BY <1>3 DEF HasStat, x
  <2>9. CASE x.balance = None
    <3>1. x.state # "confirmed"
      BY <1>1, <2>8, <2>9 DEF OrderIsTold
    <3>2. OrderIsTold(y)
      BY <1>1, <2>6, <2>8, <3>1 DEF OrderIsTold
    <3> QED
      BY <2>5, <2>6, <2>9, <3>2 DEF x
  <2>10. CASE x.balance # None /\ s > 0
    <3>1. x.state # "confirmed"
      BY <2>3, <2>10 DEF x
    <3>2. OrderIsTold(z)
      BY <1>1, <2>7, <2>8, <3>1 DEF OrderIsTold
    <3> QED
      BY <2>5, <2>7, <2>10, <3>2 DEF x
  <2>11. CASE x.balance # None /\ ~(s > 0)
    BY <1>1, <2>5, <2>11 DEF x
  <2> QED
    BY <2>9, <2>10, <2>11
<1> QED
  BY <1>2, <1>3

\* What postProcessLoyalty captures of an order that is pushed.
LEMMA CapturedIs ==
    ASSUME CardIInv, NEW t \in Tickets, ticket[t].state = "pushed"
    PROVE  LET x == ticket[t]
               c == Captured(t) IN
           /\ c \in Ticket /\ c.client = x.client /\ c.state = x.state
           /\ c.card = x.card /\ c.change = x.change /\ c.credited = x.credited
           /\ c.moved = x.moved /\ c.claimed = x.claimed /\ c.gift = x.gift
           /\ c.payment = Abs(x.card)
           /\ c.balance # None => c.whose = c.client \/ c.crossed
           /\ x.client # Nobody =>
                 c.balance # None /\ c.won = PointsFor(t) /\ c.spent = x.claimed
<1> DEFINE x == ticket[t]
<1>1. x \in Ticket /\ OrderIsTold(x)
  BY DEF CardIInv, CardTypeOK
<1>2. PICK a \in 0 .. 1 : a = Abs(x.card)
  <2>1. x.card \in -1 .. 1
    BY <1>1 DEF Ticket
  <2> QED
    BY <2>1 DEF Abs
<1>3. CASE ~HasStat(t)
  <2>1. Captured(t) = [x EXCEPT !.payment = a]
    BY <1>2, <1>3 DEF Captured
  <2> QED
    BY <1>1, <1>2, <1>3, <2>1 DEF HasStat, Ticket, OrderIsTold
<1>4. CASE HasStat(t)
  <2>1. x.client \in Clients /\ x.client # Nobody
    BY <1>1, <1>4 DEF HasStat, Ticket
  <2>2. PICK b \in Int : b = StatBalance(t)
    BY <2>1 DEF StatBalance, CardIInv, CardTypeOK
  <2>3. StatSpent(t) = x.claimed
    BY DEF StatSpent
  <2>4. PICK w \in Int : w = PointsFor(t) /\ w = StatWon(t)
    BY PointsForType DEF StatWon, CardIInv, CardTypeOK
  <2>5. PICK bal \in Points : bal = IF x.balance = None THEN b ELSE x.balance
    BY <1>1 DEF Ticket, Points
  <2>6. PICK who \in Clients \cup {Nobody} : who = IF x.balance = None THEN x.client ELSE x.whose
    BY <1>1 DEF Ticket
  <2> DEFINE y == [x EXCEPT !.payment = a, !.balance = bal, !.whose = who, !.won = w,
                            !.spent = x.claimed]
  <2>7. Captured(t) = y
    BY <1>1, <1>2, <1>4, <2>2, <2>3, <2>4, <2>5, <2>6 DEF Captured, Ticket
  <2>8. /\ y \in Ticket /\ y.client = x.client /\ y.state = x.state
        /\ y.card = x.card /\ y.change = x.change /\ y.credited = x.credited
        /\ y.moved = x.moved /\ y.claimed = x.claimed /\ y.gift = x.gift
        /\ y.payment = a /\ y.balance = bal /\ y.whose = who /\ y.won = w /\ y.spent = x.claimed
        /\ y.crossed = x.crossed
    <3> DEFINE y0 == [x EXCEPT !.payment = a, !.balance = bal, !.whose = who]
    <3>1. /\ y0 \in Ticket /\ y0.client = x.client /\ y0.state = x.state
          /\ y0.card = x.card /\ y0.change = x.change /\ y0.credited = x.credited
          /\ y0.moved = x.moved /\ y0.claimed = x.claimed /\ y0.gift = x.gift
          /\ y0.payment = a /\ y0.balance = bal /\ y0.whose = who /\ y0.crossed = x.crossed
      BY <1>1 DEF Ticket
    <3>2. y = [y0 EXCEPT !.won = w, !.spent = x.claimed]
      OBVIOUS
    <3>3. w \in Points /\ x.claimed \in Points
      BY <1>1 DEF Ticket, Points
    <3> HIDE DEF y0, y, x
    <3> QED
      BY <3>1, <3>2, <3>3 DEF Ticket
  <2>9. bal # None
    BY <2>2, <2>5, TillLoyaltyAssumption
  <2>10. who = x.client \/ x.crossed
    BY <1>1, <2>5, <2>6 DEF OrderIsTold
  <2> HIDE DEF y
  <2> QED
    BY <1>2, <2>4, <2>7, <2>8, <2>9, <2>10
<1> QED
  BY <1>3, <1>4

-----------------------------------------------------------------------------
(* One lemma for each kind of step.                                        *)

\* What the other conjuncts need of the variables a step leaves alone.
CardsTyped ==
    /\ card \in [Clients -> Points] /\ \A p \in Clients : card[p] # None => card[p] <= MaxCard
    /\ kept \in [Clients -> [id : {"none", "real", "temp"}, points : Int]]

\* The cashier writes an open order, or takes another one, and a lookup on its way may be
\* crossed.
LEMMA CashierSteps ==
    ASSUME CardIInv, NEW t \in Tickets,
           \/ SelectTicket(t) \/ FillCart(t) \/ ClaimReward(t) \/ OpenLoyaltyWizard(t)
           \/ PayWithCard(t) \/ StartScan(t)
           \/ \E p \in Clients : SetPartner(t, p) \/ ScanClient(t, p)
    PROVE  CardIInv'
<1> DEFINE x == ticket[t]
<1>1. x \in Ticket /\ OrderIsTold(x)
  BY DEF CardIInv, CardTypeOK
<1>2. UNCHANGED <<online, card, kept, gift, giftKept>>
  BY DEF SelectTicket, FillCart, ClaimReward, OpenLoyaltyWizard, PayWithCard, StartScan,
     SetPartner, ScanClient
<1>3. Cross \in [at : {"idle", "first", "second"}, client : Clients \cup {Nobody},
                 crossed : BOOLEAN]
      /\ Cross.client = lookup.client /\ Cross.at = lookup.at
      /\ (lookup.at # "idle" => Cross.crossed)
  <2>1. lookup \in [at : {"idle", "first", "second"}, client : Clients \cup {Nobody},
                    crossed : BOOLEAN]
    BY DEF CardIInv, CardTypeOK
  <2>2. PICK f \in BOOLEAN : f = TRUE
    OBVIOUS
  <2>3. Cross = IF lookup.at = "idle" THEN lookup ELSE [lookup EXCEPT !.crossed = f]
    BY <2>2, Zenon DEF Cross
  <2> QED
    BY <2>1, <2>2, <2>3
<1>4. CASE SelectTicket(t)
  BY <1>2, <1>3, <1>4 DEF SelectTicket, CardIInv, CardTypeOK, LookupIsTold, GiftIsTold
<1>5. CASE StartScan(t)
  BY <1>2, <1>5 DEF StartScan, CardIInv, CardTypeOK, LookupIsTold, GiftIsTold
<1>6. ASSUME NEW y \in Ticket, OrderIsTold(y), ticket' = [ticket EXCEPT ![t] = y],
             \/ y.client = x.client /\ UNCHANGED <<screen, lookup, scan>>
             \/ lookup' = Cross /\ UNCHANGED <<screen, scan>>
      PROVE  CardIInv'
  <2>1. ticket' \in [Tickets -> Ticket] /\ \A u \in Tickets : OrderIsTold(ticket'[u])
    BY <1>6, OneTicketWritten
  <2>2. CardTypeOK'
    BY <1>2, <1>3, <1>6, <2>1 DEF CardIInv, CardTypeOK
  <2>3. LookupIsTold'
    BY <1>3, <1>6 DEF CardIInv, CardTypeOK, LookupIsTold
  <2> QED
    BY <1>2, <2>1, <2>2, <2>3 DEF CardIInv, GiftIsTold
<1> DEFINE Written(y) == y \in Ticket /\ OrderIsTold(y)
<1>7. CASE x.state = "open"
  <2>1. ASSUME NEW c \in Carts PROVE Written([x EXCEPT !.cart = c])
                                     /\ [x EXCEPT !.cart = c].client = x.client
    BY <1>1, <1>7 DEF Ticket, OrderIsTold
  <2>2. ASSUME NEW n \in Nat PROVE Written([x EXCEPT !.claimed = n])
                                   /\ [x EXCEPT !.claimed = n].client = x.client
    BY <1>1, <1>7 DEF Ticket, OrderIsTold
  <2>3. ASSUME NEW n \in 0 .. 1 PROVE Written([x EXCEPT !.change = n])
                                      /\ [x EXCEPT !.change = n].client = x.client
    BY <1>1, <1>7 DEF Ticket, OrderIsTold
  <2>4. ASSUME NEW n \in -1 .. 1 PROVE Written([x EXCEPT !.card = n])
                                       /\ [x EXCEPT !.card = n].client = x.client
    BY <1>1, <1>7 DEF Ticket, OrderIsTold
  <2>5. ASSUME NEW p \in Clients PROVE Written(WithClient(x, p))
    <3> DEFINE y == [x EXCEPT !.client = p, !.claimed = 0, !.card = 0,
                              !.balance = None, !.won = None, !.spent = None]
    <3>1. y \in Ticket /\ y.balance = None /\ y.state = "open"
      <4>1. PICK none \in Points : none = None
        BY DEF Points
      <4> DEFINE z == [x EXCEPT !.client = p, !.claimed = 0, !.card = 0,
                                !.balance = none, !.won = none, !.spent = none]
      <4> DEFINE z1 == [x EXCEPT !.client = p]
                 z0 == [z1 EXCEPT !.claimed = 0, !.card = 0]
      <4>2. z0 \in Ticket /\ z0.state = x.state
        <5>1. z1 \in Ticket /\ z1.state = x.state
          BY <1>1 DEF Ticket
        <5> HIDE DEF z1
        <5>2. PICK n \in -1 .. 1 : n = 0
          OBVIOUS
        <5>3. z0 = [z1 EXCEPT !.claimed = 0, !.card = n]
          BY <5>2
        <5> HIDE DEF z0
        <5> QED
          BY <5>1, <5>3 DEF Ticket
      <4>3. z = [z0 EXCEPT !.balance = none, !.won = none, !.spent = none]
        OBVIOUS
      <4> HIDE DEF z1, z0, z, x
      <4>4. z \in Ticket /\ z.balance = none /\ z.state = x.state
        BY <4>2, <4>3 DEF Ticket
      <4> USE DEF z, x
      <4> QED
        BY <1>7, <4>1, <4>4
    <3>2. OrderIsTold(y)
      BY <3>1 DEF OrderIsTold
    <3>3. WithClient(x, p) = x \/ WithClient(x, p) = y
      BY DEF WithClient
    <3> HIDE DEF x, y
    <3> QED
      BY <1>1, <3>1, <3>2, <3>3
  <2>6. CASE FillCart(t)
    <3>1. PICK c \in Carts : ticket' = [ticket EXCEPT ![t].cart = c]
      BY <2>6 DEF FillCart
    <3> QED
      BY <1>6, <2>1, <2>6, <3>1 DEF FillCart, CardIInv, CardTypeOK
  <2>7. CASE ClaimReward(t)
    <3>1. PICK n \in 1 .. kept[x.client].points : ticket' = [ticket EXCEPT ![t].claimed = n]
      BY <2>7 DEF ClaimReward
    <3>2. x.client \in Clients
      BY <1>1, <2>7 DEF ClaimReward, Ticket
    <3>3. n \in Nat
      BY <3>1, <3>2 DEF CardIInv, CardTypeOK
    <3> QED
      BY <1>6, <2>2, <2>7, <3>1, <3>3 DEF ClaimReward, CardIInv, CardTypeOK
  <2>8. CASE OpenLoyaltyWizard(t)
    <3>1. PICK n \in 0 .. 1 : ticket' = [ticket EXCEPT ![t].change = n]
      BY <2>8 DEF OpenLoyaltyWizard
    <3> QED
      BY <1>6, <2>3, <2>8, <3>1 DEF OpenLoyaltyWizard, CardIInv, CardTypeOK
  <2>9. CASE PayWithCard(t)
    <3>1. PICK n \in {-1, 1} : ticket' = [ticket EXCEPT ![t].card = n]
      BY <2>9 DEF PayWithCard
    <3>2. n \in -1 .. 1
      OBVIOUS
    <3> QED
      BY <1>6, <2>4, <2>9, <3>1, <3>2 DEF PayWithCard, CardIInv, CardTypeOK
  <2>10. CASE \E p \in Clients : SetPartner(t, p) \/ ScanClient(t, p)
    <3>1. PICK p \in Clients : ticket' = [ticket EXCEPT ![t] = WithClient(x, p)]
                               /\ lookup' = Cross /\ UNCHANGED <<screen, scan>>
      BY <2>10 DEF SetPartner, ScanClient
    <3> QED
      BY <1>6, <2>5, <3>1
  <2> QED
    BY <1>4, <1>5, <2>6, <2>7, <2>8, <2>9, <2>10
<1>8. CASE x.state # "open"
  BY <1>4, <1>5, <1>8 DEF FillCart, ClaimReward, OpenLoyaltyWizard, PayWithCard, SetPartner,
     ScanClient, Editable
<1> QED
  BY <1>7, <1>8

\* A lookup begins with the client of the order on the screen.
LEMMA LookupStarts == ASSUME CardIInv, StartLookup PROVE CardIInv'
<1>1. ticket[screen] \in Ticket
  BY DEF CardIInv, CardTypeOK
<1>2. ticket[screen].client \in Clients
  BY <1>1 DEF StartLookup, Ticket
<1>3. PICK f \in BOOLEAN : f = FALSE
  OBVIOUS
<1>4. lookup' = [at |-> "first", client |-> ticket[screen].client, crossed |-> f]
  BY <1>3, Zenon DEF StartLookup
<1> QED
  BY <1>2, <1>4 DEF StartLookup, CardIInv, CardTypeOK, LookupIsTold, GiftIsTold

LEMMA NoLookupIs ==
    NoLookup \in [at : {"idle", "first", "second"}, client : Clients \cup {Nobody},
                  crossed : BOOLEAN] /\ NoLookup.at = "idle"
<1>1. PICK f \in BOOLEAN : f = FALSE
  OBVIOUS
<1>2. NoLookup = [at |-> "idle", client |-> Nobody, crossed |-> f]
  BY <1>1, Zenon DEF NoLookup
<1> QED
  BY <1>2

\* The order on the screen takes the balance that was found.
LEMMA CaptureKeeps ==
    ASSUME CardIInv, lookup.at # "idle",
           NEW c \in [id : {"none", "real", "temp"}, points : Int], Capture(c),
           UNCHANGED <<online, card, screen, scan, gift, giftKept>>
    PROVE  CardIInv'
<1> DEFINE x == ticket[screen]
           y == [x EXCEPT !.balance = c.points, !.whose = lookup.client,
                          !.crossed = lookup.crossed]
<1>1. x \in Ticket /\ OrderIsTold(x) /\ screen \in Tickets
  BY DEF CardIInv, CardTypeOK
<1>2. lookup.client \in Clients /\ lookup.crossed \in BOOLEAN
      /\ (lookup.crossed \/ x.client = lookup.client)
  BY DEF CardIInv, CardTypeOK, LookupIsTold
<1>3. c.points \in Int /\ c.points \in Points
  BY DEF Points
<1>4. /\ y \in Ticket /\ y.client = x.client /\ y.state = x.state
      /\ y.balance = c.points /\ y.whose = lookup.client /\ y.crossed = lookup.crossed
      /\ y.moved = x.moved /\ y.credited = x.credited /\ y.card = x.card
  BY <1>1, <1>2, <1>3 DEF Ticket
<1>5. ticket' = [ticket EXCEPT ![screen] = IF x.balance # None THEN x ELSE y]
      /\ lookup' = NoLookup /\ kept' = [kept EXCEPT ![lookup.client] = c]
  BY DEF Capture
<1> HIDE DEF x, y
<1>6. CASE x.balance # None
  <2>1. ticket' = ticket
    BY <1>1, <1>5, <1>6 DEF x, CardIInv, CardTypeOK
  <2> QED
    BY <1>2, <1>5, <2>1, NoLookupIs DEF CardIInv, CardTypeOK, LookupIsTold, GiftIsTold
<1>7. CASE x.balance = None
  <2>1. OrderIsTold(y)
    BY <1>1, <1>2, <1>4, <1>7 DEF OrderIsTold
  <2>2. ticket' = [ticket EXCEPT ![screen] = y]
    BY <1>5, <1>7
  <2>3. ticket' \in [Tickets -> Ticket] /\ \A u \in Tickets : OrderIsTold(ticket'[u])
    BY <1>1, <1>4, <2>1, <2>2, OneTicketWritten
  <2> QED
    BY <1>2, <1>5, <2>3, NoLookupIs DEF CardIInv, CardTypeOK, LookupIsTold, GiftIsTold
<1> QED
  BY <1>6, <1>7

\* The answers to a lookup.
LEMMA LookupAnswers == ASSUME CardIInv, AnswerFirst \/ AnswerSecond PROVE CardIInv'
<1> DEFINE p == lookup.client
<1>1. lookup.at # "idle" /\ p \in Clients
  BY DEF CardIInv, CardTypeOK, LookupIsTold, AnswerFirst, AnswerSecond
<1>2. UNCHANGED <<online, card, screen, scan, gift, giftKept>>
  BY DEF AnswerFirst, AnswerSecond
<1>3. kept[p] \in [id : {"none", "real", "temp"}, points : Int]
  BY <1>1 DEF CardIInv, CardTypeOK
<1>4. \A c \in Fetched(p) : c \in [id : {"none", "real", "temp"}, points : Int]
  <2>1. card[p] # None => card[p] \in Int
    BY <1>1 DEF CardIInv, CardTypeOK, Points
  <2> QED
    BY <1>3, <2>1 DEF Fetched
<1>5. [id |-> "temp", points |-> 0] \in [id : {"none", "real", "temp"}, points : Int]
  OBVIOUS
<1>6. \/ \E c \in [id : {"none", "real", "temp"}, points : Int] : Capture(c)
      \/ lookup' = [lookup EXCEPT !.at = "second"] /\ UNCHANGED <<kept, ticket>>
  BY <1>3, <1>4, <1>5 DEF AnswerFirst, AnswerSecond
<1>7. CASE \E c \in [id : {"none", "real", "temp"}, points : Int] : Capture(c)
  BY <1>1, <1>2, <1>7, CaptureKeeps
<1>8. CASE lookup' = [lookup EXCEPT !.at = "second"] /\ UNCHANGED <<kept, ticket>>
  BY <1>1, <1>2, <1>8 DEF CardIInv, CardTypeOK, LookupIsTold, GiftIsTold
<1> QED
  BY <1>6, <1>7, <1>8

\* A code is answered: an order that is open may take the gift card.
LEMMA ScanAnswers == ASSUME CardIInv, AnswerScan PROVE CardIInv'
<1>1. UNCHANGED <<online, card, kept, screen, lookup, gift>> /\ scan' = Nobody /\ scan # Nobody
  BY DEF AnswerScan
<1>2. scan \in Tickets
  BY <1>1 DEF CardIInv, CardTypeOK
<1> DEFINE x == ticket[scan]
           balance == IF online THEN gift.points ELSE giftKept
           taken == IF balance < 1 THEN balance ELSE 1
<1>3. x \in Ticket /\ OrderIsTold(x)
  BY <1>2 DEF CardIInv, CardTypeOK
<1>4. CASE UNCHANGED <<ticket, giftKept>>
  BY <1>1, <1>4 DEF CardIInv, CardTypeOK, LookupIsTold, GiftIsTold
<1>5. CASE /\ balance # None /\ balance > 0 /\ x.state = "open"
           /\ giftKept' = balance
           /\ ticket' = [ticket EXCEPT ![scan].activated = TRUE, ![scan].gift = taken]
  <2>1. balance \in Points
    BY DEF CardIInv, CardTypeOK, Points
  <2>2. taken = 1
    BY <1>5, <2>1 DEF Points
  <2>3. PICK f \in BOOLEAN : f = TRUE
    OBVIOUS
  <2>4. PICK n \in 0 .. 1 : n = taken
    BY <2>2
  <2> DEFINE y == [x EXCEPT !.activated = f, !.gift = n]
  <2> HIDE DEF taken, balance
  <2>5. ticket' = [ticket EXCEPT ![scan] = y]
    BY <1>2, <1>5, <2>3, <2>4, Zenon DEF CardIInv, CardTypeOK
  <2>6. y \in Ticket /\ y.client = x.client /\ y.state = "open" /\ y.balance = x.balance
        /\ y.whose = x.whose /\ y.crossed = x.crossed
    BY <1>3, <1>5 DEF Ticket
  <2> HIDE DEF y
  <2>7. OrderIsTold(y)
    BY <1>3, <2>6 DEF OrderIsTold
  <2>8. ticket' \in [Tickets -> Ticket] /\ \A u \in Tickets : OrderIsTold(ticket'[u])
    BY <1>2, <2>5, <2>6, <2>7, OneTicketWritten
  <2>9. ticket'[screen].client = ticket[screen].client
    BY <1>2, <2>5, <2>6 DEF CardIInv, CardTypeOK
  <2> QED
    BY <1>1, <1>5, <2>1, <2>8, <2>9 DEF CardIInv, CardTypeOK, LookupIsTold, GiftIsTold
<1> QED
  BY <1>4, <1>5 DEF AnswerScan

\* The server takes an order.
LEMMA PushKeeps == ASSUME CardIInv, NEW t \in Tickets, Push(t) PROVE CardIInv'
<1> DEFINE x == ticket[t]
           p == x.client
           has == p # Nobody /\ card[p] # None
           change == IF has /\ p \notin Excluded THEN x.change ELSE 0
           moved == IF has THEN change - x.card ELSE 0
           y == [x EXCEPT !.state = "pushed", !.credited = change, !.moved = moved]
<1>1. x \in Ticket /\ OrderIsTold(x)
  BY DEF CardIInv, CardTypeOK
<1>2. UNCHANGED <<online, kept, screen, lookup, scan, gift, giftKept>>
  BY DEF Push
<1>3. change \in 0 .. 1 /\ x.card \in Int /\ moved \in Int
  BY <1>1 DEF Ticket
<1>4. x.card # 0 => has
  BY DEF Push
<1>5. ticket' = [ticket EXCEPT ![t] = y]
  BY DEF Push, CardIInv, CardTypeOK
<1>6. moved = change - x.card
  BY <1>1, <1>4 DEF Ticket
<1> HIDE DEF change, moved
<1>7. y \in Ticket /\ y.client = x.client /\ y.state = "pushed" /\ y.balance = x.balance
      /\ y.whose = x.whose /\ y.crossed = x.crossed /\ y.credited = change
      /\ y.moved = moved /\ y.card = x.card
  BY <1>1, <1>3 DEF Ticket
<1>8. has => card' = [card EXCEPT ![p] = (card[p] - x.card) + change]
  BY DEF Push, change
<1>9. ~has => card' = card
  BY DEF Push
<1>10. card' \in [Clients -> Points] /\ \A q \in Clients : card'[q] # None => card'[q] <= MaxCard
  <2>1. CASE has
    <3>1. p \in Clients /\ card[p] \in Int
      BY <1>1, <2>1 DEF Ticket, CardIInv, CardTypeOK, Points
    <3>2. PICK v \in Int : v = (card[p] - x.card) + change
      BY <1>3, <3>1
    <3>3. (card[p] - x.card) + change <= MaxCard
      BY <2>1 DEF Push, change
    <3> HIDE DEF x, p, has
    <3> QED
      BY <1>8, <2>1, <3>1, <3>2, <3>3 DEF CardIInv, CardTypeOK, Points
  <2>2. CASE ~has
    BY <1>9, <2>2 DEF CardIInv, CardTypeOK
  <2> QED
    BY <2>1, <2>2
<1> HIDE DEF y
<1>11. OrderIsTold(y)
  BY <1>1, <1>6, <1>7 DEF OrderIsTold
<1>12. ticket' \in [Tickets -> Ticket] /\ \A u \in Tickets : OrderIsTold(ticket'[u])
  BY <1>5, <1>7, <1>11, OneTicketWritten
<1>13. ticket'[screen].client = ticket[screen].client
  BY <1>5, <1>7 DEF CardIInv, CardTypeOK
<1> QED
  BY <1>2, <1>10, <1>12, <1>13 DEF CardIInv, CardTypeOK, LookupIsTold, GiftIsTold

\* What an order that the till has finished is worth: OrderIsTold of a captured order.
LEMMA ConfirmKeeps == ASSUME CardIInv, NEW t \in Tickets, Confirm(t) PROVE CardIInv'
<1> DEFINE o == ticket[t]
           x == Captured(t)
           p == x.client
           won == IF p = Nobody THEN 0 ELSE PointsFor(t) - x.claimed
           before == IF card[p] = None THEN 0 ELSE card[p]
           y == [x EXCEPT !.state = "confirmed", !.moved = x.moved + won]
<1>1. o \in Ticket /\ OrderIsTold(o) /\ o.state = "pushed"
  BY DEF Confirm, CardIInv, CardTypeOK
<1>2. /\ x \in Ticket /\ p = o.client
      /\ x.card = o.card /\ x.change = o.change /\ x.credited = o.credited
      /\ x.moved = o.moved /\ x.gift = o.gift /\ x.claimed = o.claimed
      /\ x.payment = Abs(o.card)
      /\ x.balance # None => x.whose = p \/ x.crossed
      /\ p # Nobody => x.balance # None /\ x.won = PointsFor(t) /\ x.spent = o.claimed
  BY <1>1, CapturedIs
<1>3. PointsFor(t) \in Int /\ x.claimed \in Nat /\ x.moved \in Int
  BY <1>2, PointsForType DEF CardIInv, CardTypeOK, Ticket
<1>4. won \in Int
  BY <1>3
<1>5. PICK m \in Int : m = x.moved + won
  BY <1>3, <1>4
<1>6. UNCHANGED <<online, screen, lookup, scan, giftKept>> /\ gift' = GiftAfter(t, x.gift)
      /\ ticket' = [ticket EXCEPT ![t] = y]
  BY DEF Confirm
<1>7. /\ y \in Ticket /\ y.client = p /\ y.state = "confirmed" /\ y.moved = m
      /\ y.card = x.card /\ y.change = x.change /\ y.credited = x.credited
      /\ y.payment = x.payment /\ y.balance = x.balance /\ y.whose = x.whose
      /\ y.crossed = x.crossed /\ y.won = x.won /\ y.spent = x.spent
  BY <1>2, <1>5 DEF Ticket
<1>8. OrderIsTold(y)
  <2>1. CASE p = Nobody
    BY <1>2, <1>7, <2>1 DEF OrderIsTold
  <2>2. CASE p # Nobody
    <3>1. x.won \in Int /\ x.spent \in Int /\ x.spent = x.claimed /\ x.won = PointsFor(t)
      BY <1>2, <1>3, <2>2
    <3>2. won = x.won - x.spent
      BY <2>2, <3>1
    <3>3. x.moved = x.credited - x.card
      BY <1>1, <1>2, <2>2 DEF OrderIsTold
    <3>4. x.card \in Int /\ x.credited \in Int /\ x.change \in Int
      BY <1>2 DEF Ticket
    <3>5. x.card >= 0 => x.payment = x.card
      BY <1>2, <3>4 DEF Abs
    <3> HIDE DEF won, x, y, o, p
    <3>6. x.card >= 0 /\ x.credited = x.change =>
             m = (x.won - (x.spent + x.payment)) + x.change
      BY <1>5, <3>1, <3>2, <3>3, <3>4, <3>5
    <3>7. y.won # None /\ y.spent # None
      BY <1>7, <3>1, TillLoyaltyAssumption
    <3> QED
      BY <1>2, <1>7, <2>2, <3>6, <3>7 DEF OrderIsTold
  <2> QED
    BY <2>1, <2>2
<1>9. /\ card' \in [Clients -> Points] /\ \A q \in Clients : card'[q] # None => card'[q] <= MaxCard
      /\ kept' \in [Clients -> [id : {"none", "real", "temp"}, points : Int]]
  <2>1. CASE p = Nobody
    BY <2>1 DEF Confirm, CardIInv, CardTypeOK
  <2>2. CASE p # Nobody
    <3>1. p \in Clients
      BY <1>1, <1>2, <2>2 DEF Ticket
    <3>2. before \in Int
      BY <3>1 DEF CardIInv, CardTypeOK, Points
    <3>3. PICK v \in Int : v = before + won
      BY <1>4, <3>2
    <3>4. /\ card' = [card EXCEPT ![p] = before + won]
          /\ kept' = [kept EXCEPT ![p] = [id |-> "real", points |-> before + won]]
          /\ before + won <= MaxCard
      BY <2>2 DEF Confirm
    <3> HIDE DEF won, before, x, p
    <3>5. card' = [card EXCEPT ![p] = v] /\ kept' = [kept EXCEPT ![p] = [id |-> "real", points |-> v]]
          /\ v <= MaxCard
      BY <3>3, <3>4
    <3>6. card' \in [Clients -> Points] /\ \A q \in Clients : card'[q] # None => card'[q] <= MaxCard
      BY <3>1, <3>5 DEF CardIInv, CardTypeOK, Points
    <3>7. [id |-> "real", points |-> v] \in [id : {"none", "real", "temp"}, points : Int]
      OBVIOUS
    <3>8. kept' \in [Clients -> [id : {"none", "real", "temp"}, points : Int]]
      BY <3>1, <3>5, <3>7 DEF CardIInv, CardTypeOK
    <3> QED
      BY <3>6, <3>8
  <2> QED
    BY <2>1, <2>2
<1>10. GiftIsTold' /\ gift' \in [points : Int, rows : Int, source : Tickets \cup {Nobody}, used : Int]
  <2> DEFINE n == x.gift
             linked == [gift EXCEPT !.source = IF gift.source = Nobody THEN t ELSE gift.source,
                                    !.used = gift.used + n]
             taken == [linked EXCEPT !.points = linked.points - n, !.rows = linked.rows - n]
  <2>1. n \in 0 .. 1
    BY <1>2 DEF Ticket
  <2>2. gift \in [points : Int, rows : Int, source : Tickets \cup {Nobody}, used : Int]
        /\ gift.points = GiftPoints + gift.rows
        /\ (gift.points >= 0 => gift.rows = -gift.used)
    BY DEF CardIInv, CardTypeOK, GiftIsTold
  <2>3. gift' = IF n = 0 THEN gift ELSE IF -n = gift.points THEN linked ELSE taken
    BY <1>6, <2>2 DEF GiftAfter
  <2> HIDE DEF n
  <2>4. linked \in [points : Int, rows : Int, source : Tickets \cup {Nobody}, used : Int]
        /\ linked.points = gift.points /\ linked.rows = gift.rows /\ linked.used = gift.used + n
    <3>1. PICK src \in Tickets \cup {Nobody} :
             src = IF gift.source = Nobody THEN t ELSE gift.source
      BY <2>2
    <3>2. PICK u \in Int : u = gift.used + n
      BY <2>1, <2>2
    <3>3. linked = [gift EXCEPT !.source = src, !.used = u]
      BY <3>1, <3>2
    <3> HIDE DEF linked
    <3> QED
      BY <2>2, <3>2, <3>3
  <2> HIDE DEF linked
  <2>5. taken \in [points : Int, rows : Int, source : Tickets \cup {Nobody}, used : Int]
        /\ taken.points = gift.points - n /\ taken.rows = gift.rows - n /\ taken.used = gift.used + n
    <3>1. PICK v \in Int : v = gift.points - n
      BY <2>1, <2>2
    <3>2. PICK w \in Int : w = gift.rows - n
      BY <2>1, <2>2
    <3>3. taken = [linked EXCEPT !.points = v, !.rows = w]
      BY <2>4, <3>1, <3>2
    <3> HIDE DEF taken
    <3> QED
      BY <2>4, <3>1, <3>2, <3>3
  <2> HIDE DEF taken
  <2>6. GiftPoints \in Nat
    BY TillLoyaltyAssumption
  <2>7. CASE n = 0
    BY <2>2, <2>3, <2>7 DEF GiftIsTold
  <2>8. CASE n = 1 /\ gift.points = -1
    <3>1. gift' = linked
      BY <2>3, <2>8
    <3> QED
      BY <2>2, <2>4, <2>6, <2>8, <3>1 DEF GiftIsTold
  <2>9. CASE n = 1 /\ gift.points # -1
    <3>1. gift' = taken
      BY <2>2, <2>3, <2>9
    <3> QED
      BY <2>2, <2>5, <2>6, <2>9, <3>1 DEF GiftIsTold
  <2> QED
    BY <2>1, <2>7, <2>8, <2>9
<1> HIDE DEF o, x, p, won, before, y
<1>11. ticket' \in [Tickets -> Ticket] /\ \A u \in Tickets : OrderIsTold(ticket'[u])
  BY <1>6, <1>7, <1>8, OneTicketWritten
<1>12. ticket'[screen].client = ticket[screen].client
  BY <1>2, <1>6, <1>7 DEF CardIInv, CardTypeOK, o
<1> QED
  BY <1>6, <1>9, <1>10, <1>11, <1>12 DEF CardIInv, CardTypeOK, LookupIsTold

\* An order that is not confirmed, one that the till writes down, one that it reads again.
LEMMA TillKeeps ==
    ASSUME CardIInv, NEW t \in Tickets, ConfirmFails(t) \/ Export(t) \/ Reload(t)
    PROVE  CardIInv'
<1>1. UNCHANGED <<online, card, kept, screen, lookup, scan, gift, giftKept>>
  BY DEF ConfirmFails, Export, Reload
<1>2. ASSUME NEW y \in Ticket, OrderIsTold(y), ticket' = [ticket EXCEPT ![t] = y],
             y.client = ticket[t].client
      PROVE  CardIInv'
  <2>1. ticket' \in [Tickets -> Ticket] /\ \A u \in Tickets : OrderIsTold(ticket'[u])
    BY <1>2, OneTicketWritten
  <2>2. ticket'[screen].client = ticket[screen].client
    BY <1>2 DEF CardIInv, CardTypeOK
  <2> QED
    BY <1>1, <2>1, <2>2 DEF CardIInv, CardTypeOK, LookupIsTold, GiftIsTold
<1>3. CASE ConfirmFails(t)
  <2> DEFINE x == Captured(t)
             y == [x EXCEPT !.state = "failed"]
  <2>1. x \in Ticket /\ x.client = ticket[t].client
        /\ (x.balance # None => x.whose = x.client \/ x.crossed)
    BY <1>3, CapturedIs DEF ConfirmFails
  <2> HIDE DEF x
  <2>2. y \in Ticket /\ y.client = x.client /\ y.state = "failed" /\ y.balance = x.balance
        /\ y.whose = x.whose /\ y.crossed = x.crossed
    BY <2>1 DEF Ticket
  <2>3. OrderIsTold(y)
    BY <2>1, <2>2 DEF OrderIsTold
  <2>4. ticket' = [ticket EXCEPT ![t] = y]
    BY <1>3 DEF ConfirmFails, x
  <2> QED
    BY <1>2, <2>1, <2>2, <2>3, <2>4
<1>4. CASE Export(t)
  BY <1>2, <1>4, ExportedIsTold DEF Export
<1>5. CASE Reload(t)
  <2> DEFINE x == Exported(t)
  <2>1. x \in Ticket /\ OrderIsTold(x) /\ x.client = ticket[t].client
    BY ExportedIsTold
  <2>2. PICK w \in Points : w = IF x.won = None THEN 0 ELSE x.won
    BY <2>1 DEF Ticket, Points
  <2>3. PICK s \in Points : s = IF x.spent = None THEN 0 ELSE x.spent
    BY <2>1 DEF Ticket, Points
  <2> DEFINE y == [x EXCEPT !.won = w, !.spent = s]
  <2>4. ticket' = [ticket EXCEPT ![t] = y]
    <3>1. ticket' = [ticket EXCEPT ![t] = [x EXCEPT !.won = IF x.won = None THEN 0 ELSE x.won,
                                                    !.spent = IF x.spent = None THEN 0 ELSE x.spent]]
      BY <1>5, <2>1 DEF Reload, Ticket
    <3> QED
      BY <2>2, <2>3, <3>1
  <2> HIDE DEF x
  <2>5. /\ y \in Ticket /\ y.client = x.client /\ y.state = x.state /\ y.moved = x.moved
        /\ y.card = x.card /\ y.change = x.change /\ y.credited = x.credited
        /\ y.payment = x.payment /\ y.balance = x.balance /\ y.whose = x.whose
        /\ y.crossed = x.crossed /\ y.won = w /\ y.spent = s
    BY <2>1 DEF Ticket
  <2>6. x.won # None => w = x.won
    BY <2>2
  <2>7. x.spent # None => s = x.spent
    BY <2>3
  <2> HIDE DEF y
  <2>8. OrderIsTold(y)
    BY <2>1, <2>5, <2>6, <2>7 DEF OrderIsTold
  <2> QED
    BY <1>2, <2>1, <2>4, <2>5, <2>8
<1> QED
  BY <1>3, <1>4, <1>5

\* What happens at other tills, and to the connection.
LEMMA ElsewhereKeeps ==
    ASSUME CardIInv,
           \/ Connection \/ UseGiftElsewhere
           \/ \E p \in Clients : SpendElsewhere(p)
    PROVE  CardIInv'
<1>1. CASE Connection
  BY <1>1 DEF Connection, CardIInv, CardTypeOK, LookupIsTold, GiftIsTold
<1>2. CASE UseGiftElsewhere
  <2>1. gift \in [points : Int, rows : Int, source : Tickets \cup {Nobody}, used : Int]
    BY DEF CardIInv, CardTypeOK
  <2>2. /\ gift' \in [points : Int, rows : Int, source : Tickets \cup {Nobody}, used : Int]
        /\ gift'.points = gift.points - 1 /\ gift'.rows = gift.rows - 1
        /\ gift'.used = gift.used + 1
    <3>1. PICK v \in Int : v = gift.points - 1
      BY <2>1
    <3>2. PICK w \in Int : w = gift.rows - 1
      BY <2>1
    <3>3. PICK u \in Int : u = gift.used + 1
      BY <2>1
    <3>4. gift' = [gift EXCEPT !.points = v, !.rows = w, !.used = u]
      BY <1>2, <2>1, <3>1, <3>2, <3>3 DEF UseGiftElsewhere
    <3> QED
      BY <2>1, <3>1, <3>2, <3>3, <3>4
  <2>3. GiftIsTold'
    BY <2>1, <2>2, <1>2, TillLoyaltyAssumption DEF CardIInv, GiftIsTold, UseGiftElsewhere
  <2> QED
    BY <1>2, <2>2, <2>3 DEF UseGiftElsewhere, CardIInv, CardTypeOK, LookupIsTold
<1>3. CASE \E p \in Clients : SpendElsewhere(p)
  <2>1. PICK p \in Clients : SpendElsewhere(p)
    BY <1>3
  <2>2. card[p] \in Int /\ card[p] <= MaxCard
    BY <2>1 DEF SpendElsewhere, CardIInv, CardTypeOK, Points
  <2>3. PICK v \in Int : v = card[p] - 1
    BY <2>2
  <2>4. v <= MaxCard
    BY <2>2, <2>3, TillLoyaltyAssumption
  <2>5. card' = [card EXCEPT ![p] = v]
    BY <2>1, <2>3 DEF SpendElsewhere
  <2>6. card' \in [Clients -> Points] /\ \A q \in Clients : card'[q] # None => card'[q] <= MaxCard
    BY <2>4, <2>5 DEF CardIInv, CardTypeOK, Points
  <2> QED
    BY <2>1, <2>6 DEF SpendElsewhere, CardIInv, CardTypeOK, LookupIsTold, GiftIsTold
<1> QED
  BY <1>1, <1>2, <1>3

-----------------------------------------------------------------------------

LEMMA CardFirst == CardInit => CardIInv
<1> SUFFICES ASSUME CardInit PROVE CardIInv
  OBVIOUS
<1>1. None \in Points /\ MaxCard \in Int /\ MaxCard \in Points /\ GiftPoints \in Int
  BY TillLoyaltyAssumption DEF Points
<1>2. NewTicket \in Ticket /\ NewTicket.balance = None /\ NewTicket.state = "open"
  <2>1. PICK f \in BOOLEAN : f = FALSE
    OBVIOUS
  <2>2. PICK n \in -1 .. 1 : n = 0
    OBVIOUS
  <2>3. NewTicket =
          [state |-> "open", client |-> Nobody, cart |-> {}, claimed |-> 0, card |-> n,
           change |-> 0, gift |-> 0, activated |-> f,
           balance |-> None, won |-> None, spent |-> None, payment |-> 0,
           whose |-> Nobody, crossed |-> f, credited |-> 0, moved |-> 0]
    BY <2>1, <2>2, Zenon DEF NewTicket
  <2> QED
    BY <1>1, <2>3 DEF Ticket
<1>3. OrderIsTold(NewTicket)
  BY <1>2 DEF OrderIsTold
<1>4. NotKept \in [id : {"none", "real", "temp"}, points : Int]
  BY DEF NotKept
<1>5. \A p \in Clients : card[p] # None => card[p] = MaxCard
  BY DEF CardInit
<1>6. \A p \in Clients : kept[p] \in [id : {"none", "real", "temp"}, points : Int]
  <2> TAKE p \in Clients
  <2>1. kept[p] = IF card[p] # None /\ card[p] > 0 THEN [id |-> "real", points |-> card[p]]
                  ELSE NotKept
    BY DEF CardInit
  <2>2. CASE card[p] # None /\ card[p] > 0
    <3>1. kept[p] = [id |-> "real", points |-> MaxCard]
      BY <1>5, <2>1, <2>2
    <3> QED
      BY <1>1, <3>1
  <2>3. CASE ~(card[p] # None /\ card[p] > 0)
    BY <1>4, <2>1, <2>3
  <2> QED
    BY <2>2, <2>3
<1>7. card \in [Clients -> Points]
  BY <1>1 DEF CardInit
<1>8. kept = [p \in Clients |-> kept[p]]
  BY DEF CardInit
<1>9. CardTypeOK
  <2>1. \A p \in Clients : card[p] # None => card[p] <= MaxCard
    BY <1>1, <1>5
  <2>2. kept \in [Clients -> [id : {"none", "real", "temp"}, points : Int]]
    BY <1>6, <1>8
  <2>3. gift \in [points : Int, rows : Int, source : Tickets \cup {Nobody}, used : Int]
    BY <1>1 DEF CardInit
  <2>4. online \in BOOLEAN
    BY DEF CardInit
  <2>5. ticket \in [Tickets -> Ticket]
    BY <1>2 DEF CardInit
  <2>6. /\ screen \in Tickets /\ scan \in Tickets \cup {Nobody}
        /\ lookup \in [at : {"idle", "first", "second"}, client : Clients \cup {Nobody},
                       crossed : BOOLEAN]
        /\ giftKept \in Points
    BY <1>1, NoLookupIs DEF CardInit, Points
  <2> QED
    BY <1>7, <2>1, <2>2, <2>3, <2>4, <2>5, <2>6 DEF CardTypeOK
<1>10. GiftIsTold
  <2>1. gift.points = GiftPoints /\ gift.rows = 0 /\ gift.used = 0
    BY DEF CardInit
  <2>2. GiftPoints + 0 = GiftPoints
    BY <1>1
  <2>3. gift.points = GiftPoints + gift.rows
    BY <2>1, <2>2
  <2>4. \A u, v \in Int : u + v = 0 => v = -u
    OBVIOUS
  <2>5. gift.used \in Int /\ gift.rows \in Int /\ gift.used + gift.rows = 0
    BY <2>1
  <2>6. gift.rows = -gift.used
    BY <2>4, <2>5
  <2> QED
    BY <2>3, <2>6 DEF GiftIsTold
<1> QED
  BY <1>2, <1>3, <1>9, <1>10, NoLookupIs DEF CardInit, CardIInv, LookupIsTold

LEMMA CardStep == CardIInv /\ [CardNext]_cardVars => CardIInv'
<1> SUFFICES ASSUME CardIInv, [CardNext]_cardVars PROVE CardIInv'
  OBVIOUS
<1>1. CASE UNCHANGED cardVars
  BY <1>1 DEF cardVars, CardIInv, CardTypeOK, LookupIsTold, GiftIsTold
<1>2. ASSUME NEW t \in Tickets,
             \/ SelectTicket(t) \/ FillCart(t) \/ ClaimReward(t) \/ OpenLoyaltyWizard(t)
             \/ PayWithCard(t) \/ StartScan(t)
             \/ \E p \in Clients : SetPartner(t, p) \/ ScanClient(t, p)
      PROVE  CardIInv'
  BY <1>2, CashierSteps
<1>3. ASSUME NEW t \in Tickets, Push(t) \/ Confirm(t) \/ ConfirmFails(t) \/ Export(t) \/ Reload(t)
      PROVE  CardIInv'
  BY <1>3, PushKeeps, ConfirmKeeps, TillKeeps
<1>4. CASE StartLookup \/ AnswerFirst \/ AnswerSecond \/ AnswerScan
  BY <1>4, LookupStarts, LookupAnswers, ScanAnswers
<1>5. CASE Connection \/ UseGiftElsewhere \/ \E p \in Clients : SpendElsewhere(p)
  BY <1>5, ElsewhereKeeps
<1> QED
  BY <1>1, <1>2, <1>3, <1>4, <1>5 DEF CardNext

\* The invariant implies the properties.
LEMMA CardIsTold == CardIInv => CardInv
<1> SUFFICES ASSUME CardIInv PROVE CardInv
  OBVIOUS
<1>1. BalanceIsOwn
  BY DEF CardIInv, OrderIsTold, BalanceIsOwn
<1>2. ReceiptAddsUp
  <2> SUFFICES ASSUME NEW t \in Tickets, ticket[t].state = "confirmed",
                      ticket[t].client # Nobody, ticket[t].card >= 0,
                      ticket[t].credited = ticket[t].change
               PROVE  Receipt(t) - ticket[t].balance = ticket[t].moved
    BY DEF ReceiptAddsUp
  <2> DEFINE x == ticket[t]
  <2>1. x \in Ticket /\ OrderIsTold(x)
    BY DEF CardIInv, CardTypeOK
  <2>2. /\ x.balance # None /\ x.won # None /\ x.spent # None
        /\ x.moved = (x.won - (x.spent + x.payment)) + x.change
    BY <2>1 DEF OrderIsTold
  <2>3. x.balance \in Int /\ x.won \in Int /\ x.spent \in Int /\ x.payment \in Int /\ x.change \in Int
    BY <2>1, <2>2 DEF Ticket, Points
  <2>4. Receipt(t) = x.balance + (x.won - (x.spent + x.payment)) + x.change
    BY <2>2 DEF Receipt
  <2> HIDE DEF x
  <2>5. (x.balance + (x.won - (x.spent + x.payment)) + x.change) - x.balance = x.moved
    BY <2>2, <2>3
  <2> QED
    BY <2>4, <2>5 DEF x
<1> QED
  BY <1>1, <1>2 DEF CardInv, CardIInv

\* The balance on a ticket is that of its client unless the cashier went on during the
\* lookup, a receipt adds up to what the server did to the card, and a gift card tells its
\* uses (loyalty.js, addButtonLoyaltyCard.js, session.py), whatever the interleaving.
THEOREM CardsAreTold == CardSpec => []CardInv
  BY CardFirst, CardStep, CardIsTold, PTL DEF CardSpec

-----------------------------------------------------------------------------
(* The three side by side.                                                 *)

\* In every behaviour of a server's worker and a till: a stale token does not fail a post
\* of a process with one thread, the cards are told, and a delivery fills one receipt.
THEOREM WorkerIsSound ==
    ASSUME OneThreadEach
    PROVE  WorkerSpec => [](StaleTokenDoesNotFailPost /\ CardInv) /\ DeliveryFillsOneReceipt
<1>1. WorkerInit => ImportInit /\ Init /\ CardInit
  BY DEF WorkerInit
<1>2. [WorkerNext]_workerVars => [ImportNext]_importVars /\ [Next]_clientVars /\ [CardNext]_cardVars
  BY DEF WorkerNext, workerVars
<1>3. WorkerSpec => ImportSpec /\ Spec /\ CardSpec
  BY <1>1, <1>2, PTL DEF WorkerSpec, ImportSpec, Spec, CardSpec
<1> QED
  BY <1>3, StaleTokenIsRenewed, CardsAreTold, OneReceipt, PTL
=============================================================================
