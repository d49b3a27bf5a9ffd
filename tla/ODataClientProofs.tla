------------------------- MODULE ODataClientProofs -------------------------
(***************************************************************************)
(* Proofs about ODataClient, for every set of requests and batches, every  *)
(* number of retries and of sessions.                                      *)
(***************************************************************************)
EXTENDS ODataClient, TLAPS

USE RequestsAssumption, BoundsAssumption

(* Only the refetch after the last attempt is past the end of the loop.    *)
LoopBounded == \A r \in Requests : pc[r] # "fetching" => attempt[r] <= Retries

(* No token is known that the server has not given out.                    *)
TokensKnown ==
  /\ csrf <= opened
  /\ \A r \in Requests : sent[r].token <= opened
  /\ \A k \in rejected : k <= opened

(* A cached token that came with a cookie belongs to the session of the    *)
(* cached cookie: every later answer that replaces the cookie replaces the *)
(* token with it, and one that sets no cookie brings a token that is bare. *)
CacheMatches == csrf \in Sessions \ bare => cookie = csrf

(* A batch has taken no effect before it settles.                          *)
BatchOnce ==
  \A b \in Batches : pc[b] \notin {"ok", "failed"} => executed[b] = 0 /\ b \notin unread

IInv ==
  /\ TypeOK /\ LoopBounded /\ TokensKnown /\ CacheMatches
  /\ TokenMatchesCookie /\ RejectedIsDropped /\ EffectsAccounted /\ BatchOnce

USE DEF None, Unused, Sessions, Tokens, Nothing, Places, Goto

-----------------------------------------------------------------------------
(* The initial states satisfy the invariant.                               *)
LEMMA InitIInv == Init => IInv
  <1> SUFFICES ASSUME Init PROVE IInv
    OBVIOUS
  <1>1. TypeOK
    <2>1. 0 \in 0..(Retries + 1) /\ 0 \in 0..MaxSessions /\ 0 \in Nat
      OBVIOUS
    <2>2. Nothing \in [token : Tokens, cookie : Sessions \union {None}]
      OBVIOUS
    <2>3. attempt \in [Requests -> 0..(Retries + 1)]
      BY <2>1 DEF Init
    <2>4. sent \in [Requests -> [token : Tokens, cookie : Sessions \union {None}]]
      BY <2>2 DEF Init
    <2>5. executed \in [Requests -> Nat] /\ lost \in [Requests -> Nat]
      BY <2>1 DEF Init
    <2>6. pc \in [Requests -> Places]
      BY DEF Init
    <2> QED
      BY <2>1, <2>3, <2>4, <2>5, <2>6 DEF Init, TypeOK
  <1>2. LoopBounded /\ TokensKnown
    BY DEF Init, LoopBounded, TokensKnown
  <1>3. CacheMatches /\ TokenMatchesCookie /\ RejectedIsDropped
    BY DEF Init, CacheMatches, TokenMatchesCookie, RejectedIsDropped
  <1>4. EffectsAccounted
    <2>1. \A r \in Requests : executed[r] = 0 /\ lost[r] = 0 /\ pc[r] = "new"
      BY DEF Init
    <2> SUFFICES ASSUME NEW r \in Requests
                 PROVE  /\ executed[r] = lost[r] + (IF pc[r] = "ok" \/ r \in unread THEN 1 ELSE 0)
                        /\ r \in Batches => executed[r] <= 1
      BY DEF EffectsAccounted
    <2>2. pc[r] # "ok" /\ executed[r] = 0 /\ lost[r] = 0 /\ unread = {}
      BY <2>1 DEF Init
    <2> QED
      BY <2>2
  <1>5. BatchOnce
    BY DEF Init, BatchOnce
  <1> QED
    BY <1>1, <1>2, <1>3, <1>4, <1>5 DEF IInv

(* The end of a call.                                                      *)
LEMMA EndsLocals ==
  ASSUME TypeOK, LoopBounded, NEW r \in Requests, NEW result \in {"ok", "failed"},
         Ends(r, result)
  PROVE  /\ pc' \in [Requests -> Places]
         /\ attempt' \in [Requests -> 0..(Retries + 1)]
         /\ sent' \in [Requests -> [token : Tokens, cookie : Sessions \union {None}]]
         /\ LoopBounded'
         /\ sent'[r] = Nothing
         /\ pc'[r] = result
         /\ \A q \in Requests \ {r} : pc'[q] = pc[q] /\ sent'[q] = sent[q]
  BY DEF Ends, TypeOK, LoopBounded

(* The end of an attempt.                                                  *)
LEMMA FailsLocals ==
  ASSUME TypeOK, LoopBounded, NEW r \in Requests, pc[r] # "fetching", Fails(r)
  PROVE  /\ pc' \in [Requests -> Places]
         /\ attempt' \in [Requests -> 0..(Retries + 1)]
         /\ sent' \in [Requests -> [token : Tokens, cookie : Sessions \union {None}]]
         /\ LoopBounded'
         /\ sent'[r] = Nothing
         /\ pc'[r] \in {"executing", "failed"}
         /\ r \in Batches => pc'[r] = "failed"
         /\ \A q \in Requests \ {r} : pc'[q] = pc[q] /\ sent'[q] = sent[q]
  <1>1. CASE attempt[r] < Retries /\ r \notin Batches
    <2>1. /\ pc' = [pc EXCEPT ![r] = "executing"]
          /\ sent' = [sent EXCEPT ![r] = Nothing]
          /\ attempt' = [attempt EXCEPT ![r] = attempt[r] + 1]
      BY <1>1 DEF Fails
    <2>2. attempt[r] + 1 \in 0..Retries
      BY <1>1 DEF TypeOK
    <2>3. attempt' \in [Requests -> 0..(Retries + 1)]
      BY <2>1, <2>2 DEF TypeOK
    <2>4. LoopBounded'
      BY <2>1, <2>2 DEF TypeOK, LoopBounded
    <2> QED
      BY <1>1, <2>1, <2>3, <2>4 DEF TypeOK
  <1>2. CASE ~(attempt[r] < Retries /\ r \notin Batches)
    BY <1>2, EndsLocals DEF Fails
  <1> QED
    BY <1>1, <1>2

(* A token arrives, and with it the cookie, or only a placeholder.         *)
LEMMA FetchedStep ==
  ASSUME IInv, NEW r \in Requests, TokenArrives(r) \/ TokenMissing(r)
  PROVE  IInv'
  <1> USE DEF IInv
  <1>1. pc[r] = "fetching" /\ Fetched(r)
    BY DEF TokenArrives, TokenMissing
  <1>2. /\ pc' \in [Requests -> Places]
        /\ attempt' \in [Requests -> 0..(Retries + 1)]
        /\ sent' \in [Requests -> [token : Tokens, cookie : Sessions \union {None}]]
        /\ LoopBounded'
        /\ pc'[r] \in {"executing", "failed"}
        /\ sent'[r] \in {sent[r], Nothing}
        /\ \A q \in Requests \ {r} : pc'[q] = pc[q] /\ sent'[q] = sent[q]
    <2>1. CASE attempt[r] > Retries
      BY <1>1, <2>1, EndsLocals DEF Fetched
    <2>2. CASE ~(attempt[r] > Retries)
      BY <1>1, <2>2 DEF Fetched, TypeOK, LoopBounded
    <2> QED
      BY <2>1, <2>2
  <1>3. opened' \in opened..MaxSessions /\ live' \subseteq 1..opened'
    <2>1. CASE opened' = opened + 1 /\ opened < MaxSessions /\ live' = live \union {opened'}
      BY <2>1 DEF TypeOK
    <2>2. CASE UNCHANGED <<opened, live>>
      BY <2>2 DEF TypeOK
    <2> QED
      BY <2>1, <2>2 DEF TokenArrives, TokenMissing
  <1>4. TypeOK'
    <2>1. csrf' \in Tokens /\ cookie' \in Sessions \union {None} /\ bare' \subseteq Sessions
      <3>1. CASE TokenArrives(r)
        <4>1. opened' \in Sessions
          BY <3>1 DEF TokenArrives, TypeOK
        <4> QED
          BY <3>1, <4>1 DEF TokenArrives, Cookies, TypeOK
      <3>2. CASE TokenMissing(r)
        <4>1. opened' = opened + 1 /\ opened < MaxSessions => opened' \in Sessions
          BY DEF TypeOK
        <4> QED
          BY <3>2, <4>1 DEF TokenMissing, TypeOK
      <3> QED
        BY <3>1, <3>2
    <2>2. fresh' = TRUE /\ UNCHANGED <<executed, lost, unread, rejected>>
      BY <1>1 DEF Fetched
    <2> QED
      BY <1>2, <1>3, <2>1, <2>2 DEF TypeOK
  <1>5. TokensKnown'
    <2>1. csrf' <= opened'
      BY <1>3 DEF TokensKnown, TokenArrives, TokenMissing, TypeOK
    <2>2. \A q \in Requests : sent'[q].token <= opened'
      BY <1>2, <1>3 DEF TokensKnown, TypeOK
    <2>3. \A k \in rejected' : k <= opened'
      BY <1>1, <1>3 DEF TokensKnown, Fetched, TypeOK
    <2> QED
      BY <2>1, <2>2, <2>3 DEF TokensKnown
  <1>6. CacheMatches' /\ RejectedIsDropped'
    BY <1>1 DEF CacheMatches, RejectedIsDropped, TokensKnown, TokenArrives, TokenMissing,
                Cookies, Fetched, TypeOK
  <1>7. TokenMatchesCookie'
    <2>1. bare \subseteq bare'
      BY DEF TokenArrives, TokenMissing, Cookies
    <2> QED
      BY <1>2, <2>1 DEF TokenMatchesCookie
  <1>8. EffectsAccounted' /\ BatchOnce'
    <2>1. UNCHANGED <<executed, lost, unread>>
      BY <1>1 DEF Fetched
    <2> QED
      BY <1>1, <1>2, <2>1 DEF EffectsAccounted, BatchOnce
  <1>9. LoopBounded'
    BY <1>2
  <1> QED
    BY <1>4, <1>5, <1>6, <1>7, <1>8, <1>9

(* What a request does before it is sent.                                  *)
LEMMA ExecuteStep ==
  ASSUME IInv, NEW r \in Requests, Begin(r) \/ BuildBatch(r) \/ Send(r)
  PROVE  IInv'
  <1> USE DEF IInv
  <1>0. UNCHANGED <<attempt, client, server, history>>
    BY DEF Begin, BuildBatch, Send
  <1>1. /\ pc' \in [Requests -> Places]
        /\ sent' \in [Requests -> [token : Tokens, cookie : Sessions \union {None}]]
        /\ LoopBounded'
        /\ \A q \in Requests : sent'[q].token \in {sent[q].token, csrf}
    <2>1. CASE Begin(r)
      BY <2>1 DEF Begin, TypeOK, LoopBounded
    <2>2. CASE BuildBatch(r)
      BY <2>2 DEF BuildBatch, TypeOK, LoopBounded
    <2>3. CASE Send(r)
      BY <2>3 DEF Send, TypeOK, LoopBounded
    <2> QED
      BY <2>1, <2>2, <2>3
  <1>2. TypeOK' /\ LoopBounded' /\ TokensKnown'
    BY <1>0, <1>1 DEF TypeOK, TokensKnown, client, server, history
  <1>3. CacheMatches' /\ RejectedIsDropped'
    BY DEF Begin, BuildBatch, Send, CacheMatches, RejectedIsDropped, client, history
  <1>4. TokenMatchesCookie'
    BY DEF Begin, BuildBatch, Send, TypeOK, CacheMatches, TokenMatchesCookie, client, history
  <1>5. EffectsAccounted' /\ BatchOnce'
    BY DEF Begin, BuildBatch, Send, TypeOK, EffectsAccounted, BatchOnce, server, history
  <1> QED
    BY <1>1, <1>2, <1>3, <1>4, <1>5

(* A call or an attempt ends without an effect that is new to the server.  *)
LEMMA FailureStep ==
  ASSUME IInv, NEW r \in Requests,
         NoHeaders(r) \/ NotSent(r) \/ Refused(r) \/ Unauthorized(r)
  PROVE  IInv'
  <1> USE DEF IInv
  <1>1. /\ pc' \in [Requests -> Places]
        /\ attempt' \in [Requests -> 0..(Retries + 1)]
        /\ sent' \in [Requests -> [token : Tokens, cookie : Sessions \union {None}]]
        /\ LoopBounded'
        /\ sent'[r] = Nothing
        /\ pc[r] \notin {"ok", "failed"}
        /\ pc'[r] \in {"executing", "failed"}
        /\ \A q \in Requests \ {r} : pc'[q] = pc[q] /\ sent'[q] = sent[q]
    BY EndsLocals, FailsLocals DEF NoHeaders, NotSent, Refused, Unauthorized
  <1>2. UNCHANGED <<csrf, fresh, cookie, opened, live, executed, history>>
    BY DEF NoHeaders, NotSent, Refused, Unauthorized, client, server
  <1>3. TypeOK'
    BY <1>1, <1>2 DEF TypeOK, history
  <1>4. TokensKnown'
    BY <1>1, <1>2 DEF TokensKnown, TypeOK, history
  <1>5. CacheMatches' /\ RejectedIsDropped' /\ TokenMatchesCookie'
    BY <1>1, <1>2 DEF CacheMatches, RejectedIsDropped, TokenMatchesCookie, history
  <1>6. EffectsAccounted' /\ BatchOnce'
    BY <1>1, <1>2 DEF EffectsAccounted, BatchOnce, history
  <1> QED
    BY <1>1, <1>3, <1>4, <1>5, <1>6

(* The server executes the request, and the answer is read, cannot be      *)
(* read, or is lost.                                                       *)
LEMMA EffectStep ==
  ASSUME IInv, NEW r \in Requests, Succeeds(r) \/ Unreadable(r) \/ NoAnswer(r)
  PROVE  IInv'
  <1> USE DEF IInv
  <1>1. /\ pc' \in [Requests -> Places]
        /\ attempt' \in [Requests -> 0..(Retries + 1)]
        /\ sent' \in [Requests -> [token : Tokens, cookie : Sessions \union {None}]]
        /\ LoopBounded'
        /\ sent'[r] = Nothing
        /\ pc[r] = "sent"
        /\ pc'[r] # "sent"
        /\ r \in Batches => pc'[r] \in {"ok", "failed"}
        /\ \A q \in Requests \ {r} : pc'[q] = pc[q] /\ sent'[q] = sent[q]
    BY EndsLocals, FailsLocals DEF Succeeds, Unreadable, NoAnswer
  <1>2. UNCHANGED <<csrf, fresh, cookie, opened, live, bare, rejected>>
    BY DEF Succeeds, Unreadable, NoAnswer, Takes, client, history
  <1>3. /\ executed' \in [Requests -> Nat] /\ lost' \in [Requests -> Nat]
        /\ unread' \subseteq Batches
        /\ EffectsAccounted' /\ BatchOnce'
    <2>1. CASE Succeeds(r)
      BY <1>1, <2>1 DEF Succeeds, Ends, Takes, TypeOK, EffectsAccounted, BatchOnce, history
    <2>2. CASE NoAnswer(r)
      <3>1. pc'[r] # "ok"
        BY <1>1, <2>2, FailsLocals DEF NoAnswer
      <3>2. PICK n \in {0, 1} : executed' = [executed EXCEPT ![r] = @ + n]
                                /\ lost' = [lost EXCEPT ![r] = @ + n]
        BY <2>2 DEF NoAnswer, Takes
      <3>3. UNCHANGED unread
        BY <2>2 DEF NoAnswer
      <3>4. executed' \in [Requests -> Nat] /\ lost' \in [Requests -> Nat]
        BY <3>2 DEF TypeOK
      <3>5. EffectsAccounted' /\ BatchOnce'
        BY <1>1, <3>1, <3>2, <3>3 DEF TypeOK, EffectsAccounted, BatchOnce
      <3> QED
        BY <3>3, <3>4, <3>5 DEF TypeOK
    <2>3. CASE Unreadable(r)
      <3>1. /\ r \in Batches /\ r \notin unread /\ executed[r] = 0
            /\ pc' = [pc EXCEPT ![r] = "failed"]
            /\ executed' = [executed EXCEPT ![r] = @ + 1]
            /\ unread' = unread \union {r} /\ UNCHANGED lost
        BY <1>1, <2>3 DEF Unreadable, Ends, Takes, BatchOnce
      <3> QED
        BY <1>1, <3>1 DEF TypeOK, EffectsAccounted, BatchOnce
    <2> QED
      BY <2>1, <2>2, <2>3
  <1>4. TypeOK'
    BY <1>1, <1>2, <1>3 DEF TypeOK
  <1>5. TokensKnown'
    BY <1>1, <1>2 DEF TokensKnown, TypeOK
  <1>6. CacheMatches' /\ RejectedIsDropped' /\ TokenMatchesCookie'
    BY <1>1, <1>2 DEF CacheMatches, RejectedIsDropped, TokenMatchesCookie
  <1> QED
    BY <1>1, <1>3, <1>4, <1>5, <1>6

(* A rejection is noticed and the cached token dropped.                    *)
LEMMA NoticedStep ==
  ASSUME IInv, NEW r \in Requests, Noticed(r)
  PROVE  IInv'
  <1> USE DEF IInv
  <1>1. /\ csrf' = None /\ fresh' = FALSE
        /\ UNCHANGED <<cookie, opened, live, executed, lost, bare, unread>>
        /\ rejected' = rejected \union ({sent[r].token} \intersect Sessions)
        /\ pc[r] = "sent" /\ r \notin Batches
    BY DEF Noticed, Notices, server
  <1>2. /\ pc' \in [Requests -> Places]
        /\ attempt' \in [Requests -> 0..(Retries + 1)]
        /\ sent' \in [Requests -> [token : Tokens, cookie : Sessions \union {None}]]
        /\ LoopBounded'
        /\ sent'[r] = Nothing
        /\ pc'[r] \in {"executing", "fetching", "failed"}
        /\ \A q \in Requests \ {r} : pc'[q] = pc[q] /\ sent'[q] = sent[q]
    <2>1. CASE r \in Foreign
      BY <1>1, <2>1, FailsLocals DEF Noticed
    <2>2. CASE r \notin Foreign
      <3>1. Refetch(r)
        BY <2>2 DEF Noticed
      <3>2. attempt[r] + 1 \in 0..(Retries + 1)
        BY <1>1 DEF TypeOK, LoopBounded
      <3>3. attempt' \in [Requests -> 0..(Retries + 1)]
        BY <3>1, <3>2 DEF Refetch, TypeOK
      <3> QED
        BY <3>1, <3>3 DEF Refetch, TypeOK, LoopBounded
    <2> QED
      BY <2>1, <2>2
  <1>3. TypeOK'
    BY <1>1, <1>2 DEF TypeOK
  <1>4. TokensKnown'
    BY <1>1, <1>2 DEF TypeOK, TokensKnown
  <1>5. CacheMatches' /\ RejectedIsDropped' /\ TokenMatchesCookie'
    BY <1>1, <1>2 DEF CacheMatches, RejectedIsDropped, TokenMatchesCookie
  <1>6. EffectsAccounted' /\ BatchOnce'
    BY <1>1, <1>2 DEF EffectsAccounted, BatchOnce
  <1> QED
    BY <1>2, <1>3, <1>4, <1>5, <1>6

(* The token goes stale, or its session ends.                              *)
LEMMA OtherStep ==
  ASSUME IInv, CsrfExpires \/ (\E k \in Sessions : SessionEnds(k)) \/ UNCHANGED vars
  PROVE  IInv'
  BY DEF IInv, CsrfExpires, SessionEnds, vars, client, server, history, TypeOK, LoopBounded,
         TokensKnown, CacheMatches, TokenMatchesCookie, RejectedIsDropped, EffectsAccounted,
         BatchOnce

(* In every reachable state the strengthened invariant holds.              *)
THEOREM Invariance == Spec => []IInv
  <1>1. IInv /\ [Next]_vars => IInv'
    <2> SUFFICES ASSUME IInv, [Next]_vars PROVE IInv'
      OBVIOUS
    <2> QED
      BY FetchedStep, ExecuteStep, FailureStep, EffectStep, NoticedStep, OtherStep
         DEF Next, Prepare, Execute, Answer
  <1> QED
    BY InitIInv, <1>1, PTL DEF Spec

(* The variables keep their types, and no loop runs more than once past    *)
(* its last attempt.                                                       *)
THEOREM TypeCorrect == Spec => []TypeOK
  BY Invariance, PTL DEF IInv

(* No retried request carries a token that came with a cookie next to the  *)
(* cookie of another session, however the fetches overlap.                 *)
THEOREM TokensMatchCookies == Spec => []TokenMatchesCookie
  BY Invariance, PTL DEF IInv

(* A token whose rejection was noticed never comes back into the cache.    *)
THEOREM RejectedAreDropped == Spec => []RejectedIsDropped
  BY Invariance, PTL DEF IInv

(* A request takes effect only once, but for the answers that were lost,   *)
(* and a batch once at most.                                               *)
THEOREM EffectsAreAccounted == Spec => []EffectsAccounted
  BY Invariance, PTL DEF IInv
=============================================================================
