---------------------------- MODULE ODataClient ----------------------------
(***************************************************************************)
(* Concurrent modifying requests through one OData client: post(), patch() *)
(* and delete(), which are retried, and batch(), which is not, of          *)
(* lib/odata/client.js.  They share the CSRF token and the cookies.        *)
(*                                                                         *)
(* The server is external.  A token request opens a session there; the     *)
(* token is good in this session only, which the cookies name, and only    *)
(* while it lives.  An answer may set no cookie: its token is bare, and    *)
(* what the server makes of it next to an older cookie is open.  Sessions  *)
(* and their tokens are numbered from 1.                                   *)
(***************************************************************************)
EXTENDS Integers

CONSTANTS Requests,    (* the calls                                        *)
          Batches,     (* those that are calls of batch()                  *)
          Foreign,     (* those whose url does not start with baseUrl      *)
          Retries,     (* options.retries                                  *)
          MaxSessions  (* bound: sessions the server opens                 *)

ASSUME RequestsAssumption == Batches \subseteq Requests /\ Foreign \subseteq Requests
ASSUME BoundsAssumption == Retries \in Nat /\ MaxSessions \in Nat

None == 0      (* _csrfToken is null                                       *)
Unused == -1   (* the placeholder 'unused'                                 *)
Sessions == 1..MaxSessions
Nothing == [token |-> None, cookie |-> None]

VARIABLES
  pc,       (* pc[r]: "new", "fetching" (a token), "executing", "built",   *)
            (* "sent", "ok" or "failed"                                    *)
  attempt,  (* attempt[r]: the loop variable of _executeWithRetry          *)
  sent,     (* sent[r]: the token and the cookie r is sent with            *)
  csrf,     (* _csrfToken                                                  *)
  fresh,    (* Date.now() < _csrfExpiry                                    *)
  cookie,   (* _cookies: the session they name, or None                    *)
  opened,   (* server: sessions opened so far                              *)
  live,     (* server: sessions alive                                      *)
  executed, (* server: executed[r], how often the request took effect      *)
  lost,     (* lost[r]: history, effects whose answer was lost             *)
  bare,     (* history: tokens that came without a cookie                  *)
  unread,   (* history: batches that took effect, their answers unreadable *)
  rejected  (* history: tokens whose rejection the client noticed          *)

client == <<csrf, fresh, cookie>>
server == <<opened, live, executed>>
history == <<lost, bare, unread, rejected>>
vars == <<pc, attempt, sent, client, server, history>>

Init ==
  /\ pc = [r \in Requests |-> "new"]
  /\ attempt = [r \in Requests |-> 0]
  /\ sent = [r \in Requests |-> Nothing]
  /\ csrf = None /\ fresh = FALSE /\ cookie = None
  /\ opened = 0 /\ live = {}
  /\ executed = [r \in Requests |-> 0]
  /\ lost = [r \in Requests |-> 0]
  /\ bare = {} /\ unread = {} /\ rejected = {}

Goto(r, place) == pc' = [pc EXCEPT ![r] = place]

(* The call settles, and its local variables are gone.                     *)
Ends(r, result) ==
  /\ Goto(r, result)
  /\ sent' = [sent EXCEPT ![r] = Nothing]
  /\ attempt' = [attempt EXCEPT ![r] = 0]

-----------------------------------------------------------------------------
(* _ensureCsrfToken().  Between its check and the answer of the server     *)
(* others run; each that finds no token fetches one of its own.  The HEAD  *)
(* request carries no cookie, so the server opens a session for it.        *)

Begin(r) ==
  /\ pc[r] = "new"
  /\ Goto(r, IF csrf # None /\ fresh THEN "executing" ELSE "fetching")
  /\ UNCHANGED <<attempt, sent, client, server, history>>

(* The auth provider throws, which _ensureCsrfToken() does not catch.      *)
NoHeaders(r) ==
  /\ pc[r] = "fetching"
  /\ Ends(r, "failed")
  /\ UNCHANGED <<client, server, history>>

(* The token is there, or its placeholder; a loop that is through throws.  *)
Fetched(r) ==
  /\ fresh' = TRUE
  /\ IF attempt[r] > Retries
     THEN Ends(r, "failed")
     ELSE Goto(r, "executing") /\ UNCHANGED <<attempt, sent>>
  /\ UNCHANGED <<executed, lost, unread, rejected>>

(* The answer replaces the cookies only if it sets one.                    *)
Cookies ==
  \/ cookie' = opened' /\ UNCHANGED bare
  \/ UNCHANGED cookie /\ bare' = bare \union {opened'}

TokenKept(r) ==
  /\ pc[r] = "fetching" /\ opened < MaxSessions
  /\ opened' = opened + 1 /\ live' = live \union {opened'}
  /\ csrf' = (IF csrf = None THEN opened' ELSE csrf) /\ Cookies
  /\ Fetched(r)

TokenArrives(r) ==
  /\ pc[r] = "fetching" /\ opened < MaxSessions
  /\ opened' = opened + 1 /\ live' = live \union {opened'}
  /\ csrf' = opened' /\ Cookies
  /\ Fetched(r)

(* The fetch failed, or the answer names no token; it may still set a     *)
(* cookie.                                                                 *)
TokenMissing(r) ==
  /\ pc[r] = "fetching"
  /\ csrf' = Unused
  /\ \/ UNCHANGED <<cookie, opened, live>>
     \/ opened < MaxSessions /\ opened' = opened + 1 /\ cookie' = opened'
        /\ live' = live \union {opened'}
  /\ UNCHANGED bare
  /\ Fetched(r)

-----------------------------------------------------------------------------
(* _execute().  The token is read after the auth provider was awaited.     *)

(* batch() built its headers with the token of that time; a token there is *)
(* now takes precedence.                                                   *)
BuildBatch(r) ==
  /\ pc[r] = "executing" /\ r \in Batches
  /\ Goto(r, "built")
  /\ sent' = [sent EXCEPT ![r].token = csrf]
  /\ UNCHANGED <<attempt, client, server, history>>

Send(r) ==
  /\ pc[r] = (IF r \in Batches THEN "built" ELSE "executing")
  /\ sent' = [sent EXCEPT ![r] = [token |-> IF csrf # None \/ r \notin Batches THEN csrf ELSE @.token,
                                  cookie |-> cookie]]
  /\ Goto(r, "sent")
  /\ UNCHANGED <<attempt, client, server, history>>

(* The end of an attempt that failed: wait and try again, or throw.        *)
Fails(r) ==
  IF attempt[r] < Retries /\ r \notin Batches
  THEN /\ Goto(r, "executing")
       /\ sent' = [sent EXCEPT ![r] = Nothing]
       /\ attempt' = [attempt EXCEPT ![r] = @ + 1]
  ELSE Ends(r, "failed")

(* The circuit breaker is open, or the auth provider throws.               *)
NotSent(r) ==
  /\ pc[r] = (IF r \in Batches THEN "built" ELSE "executing")
  /\ Fails(r)
  /\ UNCHANGED <<client, server, history>>

-----------------------------------------------------------------------------
(* The answer                                                              *)

(* A server that names no token takes the placeholder.  A bare token next  *)
(* to the cookie of another session may be taken or rejected.              *)
Accepted(r) ==
  \/ sent[r].token = Unused
  \/ sent[r].token \in live /\ (sent[r].token \in bare \/ sent[r].cookie = sent[r].token)

Rejected(r) == sent[r].token \notin live \/ sent[r].cookie # sent[r].token

Takes(r, n) ==
  /\ executed' = [executed EXCEPT ![r] = @ + n]
  /\ UNCHANGED <<opened, live>>

SucceedsUnread(r) ==
  /\ pc[r] = "sent" /\ Accepted(r)
  /\ Takes(r, 1)
  /\ Ends(r, "ok") \/ Fails(r)
  /\ UNCHANGED <<client, history>>

(* An answer of post(), patch() or delete() that is not JSON is returned   *)
(* as it is.                                                               *)
Succeeds(r) ==
  /\ pc[r] = "sent" /\ Accepted(r)
  /\ Takes(r, 1)
  /\ Ends(r, "ok")
  /\ UNCHANGED <<client, history>>

(* The answer to a batch is empty or cannot be parsed: batch() throws,     *)
(* with the batch executed.                                                *)
Unreadable(r) ==
  /\ pc[r] = "sent" /\ Accepted(r) /\ r \in Batches
  /\ Takes(r, 1)
  /\ Ends(r, "failed")
  /\ unread' = unread \union {r}
  /\ UNCHANGED <<client, lost, bare, rejected>>

Refused(r) ==
  /\ pc[r] = "sent"
  /\ Fails(r)
  /\ UNCHANGED <<client, server, history>>

Unauthorized(r) ==
  /\ pc[r] = "sent"
  /\ Ends(r, "failed")
  /\ UNCHANGED <<client, server, history>>

(* A timeout, a broken connection or a 5xx: the request may have been      *)
(* executed.                                                               *)
NoAnswer(r) ==
  /\ pc[r] = "sent"
  /\ \E n \in {0, 1} :
       /\ n = 1 => Accepted(r)
       /\ Takes(r, n)
       /\ lost' = [lost EXCEPT ![r] = @ + n]
  /\ Fails(r)
  /\ UNCHANGED <<client, bare, unread, rejected>>

Notices(r) ==
  /\ pc[r] = "sent" /\ Rejected(r) /\ r \notin Batches
  /\ rejected' = rejected \union ({sent[r].token} \intersect Sessions)

(* The refetch is awaited even if there is no next attempt.                *)
Refetch(r) ==
  /\ Goto(r, "fetching")
  /\ sent' = [sent EXCEPT ![r] = Nothing]
  /\ attempt' = [attempt EXCEPT ![r] = @ + 1]

NoticedAgain(r) ==
  /\ Notices(r)
  /\ csrf' = None /\ fresh' = FALSE
  /\ Goto(r, "fetching")
  /\ sent' = [sent EXCEPT ![r] = Nothing]
  /\ UNCHANGED <<attempt, cookie, server, lost, bare, unread>>

NoticedOnly(r) ==
  /\ Notices(r)
  /\ IF r \in Foreign \/ (csrf # None /\ fresh) THEN Fails(r) ELSE Refetch(r)
  /\ UNCHANGED <<client, server, lost, bare, unread>>

(* 403, and the status line names CSRF: the token is dropped, also if it   *)
(* is another one by now, and a new one fetched before the next attempt,   *)
(* unless the url is not under baseUrl.                                    *)
Noticed(r) ==
  /\ Notices(r)
  /\ csrf' = None /\ fresh' = FALSE
  /\ IF r \in Foreign THEN Fails(r) ELSE Refetch(r)
  /\ UNCHANGED <<cookie, server, lost, bare, unread>>

-----------------------------------------------------------------------------
CsrfExpires ==
  /\ fresh /\ fresh' = FALSE
  /\ UNCHANGED <<pc, attempt, sent, csrf, cookie, server, history>>

SessionEnds(k) ==
  /\ k \in live /\ live' = live \ {k}
  /\ UNCHANGED <<pc, attempt, sent, client, opened, executed, history>>

Prepare(r) == Begin(r) \/ NoHeaders(r) \/ TokenArrives(r) \/ TokenMissing(r)
Execute(r) == BuildBatch(r) \/ Send(r) \/ NotSent(r)
Answer(r) ==
  \/ Succeeds(r) \/ Unreadable(r) \/ Refused(r) \/ Unauthorized(r)
  \/ NoAnswer(r) \/ Noticed(r)

Next ==
  \/ \E r \in Requests : Prepare(r) \/ Execute(r) \/ Answer(r)
  \/ CsrfExpires \/ \E k \in Sessions : SessionEnds(k)

(* Every fetch() has a timeout, so it settles one way or the other: while  *)
(* a call is under way, some call goes on.                                 *)
Fairness == WF_vars(\E r \in Requests : Prepare(r) \/ Execute(r) \/ Answer(r))

Spec == Init /\ [][Next]_vars
FairSpec == Spec /\ Fairness

-----------------------------------------------------------------------------
(* Properties                                                              *)

Tokens == Sessions \union {None, Unused}
Places == {"new", "fetching", "executing", "built", "sent", "ok", "failed"}

TypeOK ==
  /\ pc \in [Requests -> Places]
  /\ attempt \in [Requests -> 0..(Retries + 1)]
  /\ sent \in [Requests -> [token : Tokens, cookie : Sessions \union {None}]]
  /\ csrf \in Tokens /\ fresh \in BOOLEAN /\ cookie \in Sessions \union {None}
  /\ opened \in 0..MaxSessions /\ live \subseteq 1..opened
  /\ executed \in [Requests -> Nat] /\ lost \in [Requests -> Nat]
  /\ bare \subseteq Sessions /\ unread \subseteq Batches /\ rejected \subseteq Sessions

(* However the token requests of several callers overlap, a token that     *)
(* came with a cookie is never sent with the cookie of another session by  *)
(* a request that is retried.                                              *)
TokenMatchesCookie ==
  \A r \in Requests \ Batches :
    pc[r] = "sent" /\ sent[r].token \in Sessions \ bare => sent[r].cookie = sent[r].token

(* A token whose rejection was noticed never comes back into the cache,    *)
(* whatever answers are still on their way.                                *)
RejectedIsDropped == csrf \in Sessions => csrf \notin rejected

(* A request has taken effect once if it succeeded or its answer could not *)
(* be read, and once more for every attempt whose answer was lost; no      *)
(* other retry ever repeats it, and nothing repeats a batch.               *)
EffectsAccounted ==
  \A r \in Requests :
    /\ executed[r] = lost[r] + (IF pc[r] = "ok" \/ r \in unread THEN 1 ELSE 0)
    /\ r \in Batches => executed[r] <= 1

(* All requests come to an end, also when all of them drop the token of    *)
(* the others.                                                             *)
RequestsEnd == <>(\A r \in Requests : pc[r] \in {"ok", "failed"})
=============================================================================
