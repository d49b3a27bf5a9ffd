------------------------------ MODULE RfcPool ------------------------------
(***************************************************************************)
(* The RFC connection pool, lib/rfc/pool.js.                               *)
(*                                                                         *)
(* JavaScript runs one callback at a time, so an action is the code        *)
(* between two awaits.  A request is one acquire() and, when it gets a     *)
(* client, the release() of its finally block.  acquire() creates at most  *)
(* one RfcClient and release() at most one, so the client objects are the  *)
(* pairs <<request, which of the two created it>>.                         *)
(***************************************************************************)
EXTENDS Naturals, FiniteSets, SequencesExt

CONSTANTS Requests,   (* the acquire()/release() pairs                     *)
          PoolSize,   (* options.poolSize                                  *)
          None        (* null                                              *)

Clients == Requests \X {"acquire", "release"}

ASSUME PoolSizeAssumption == PoolSize \in Nat \ {0}
ASSUME NoneAssumption == None \notin Clients /\ None \notin Requests
ASSUME RequestsFinite == IsFiniteSet(Requests)

VARIABLES
  pc,          (* pc[r]: the await at which request r is suspended         *)
  held,        (* held[r]: the client r owns, or is opening; else None     *)
  serving,     (* serving[r]: the waiter r's release opens a client for    *)
  conn,        (* conn[k]: "none" not opened yet, else client.isConnected  *)
  available,   (* _available: a stack, pushed and popped at the end        *)
  busy,        (* _busy                                                    *)
  waitQueue,   (* _waitQueue                                               *)
  drained      (* _drained                                                 *)

vars == <<pc, held, serving, conn, available, busy, waitQueue, drained>>

(***************************************************************************)
(* "discarding" awaits client.close() of a dead idle client, "opening" and *)
(* "waiting" are the other two awaits of acquire(); "releasing" awaits the *)
(* open of the client release() creates for a waiter.                      *)
(***************************************************************************)
PC == {"idle", "discarding", "opening", "waiting", "holding", "releasing",
       "done", "failed"}

Init ==
  /\ pc = [r \in Requests |-> "idle"]
  /\ held = [r \in Requests |-> None]
  /\ serving = [r \in Requests |-> None]
  /\ conn = [k \in Clients |-> "none"]
  /\ available = <<>>
  /\ busy = {}
  /\ waitQueue = <<>>
  /\ drained = FALSE

-----------------------------------------------------------------------------
(* acquire()                                                               *)

PeekIdle == UNCHANGED available

PopIdle == available' = Front(available)

(* The top of the stack is connected: it becomes busy and is returned.     *)
TakeIdle(r) ==
  /\ available # <<>> /\ conn[Last(available)] = "up"
  /\ PopIdle
  /\ busy' = busy \union {Last(available)}
  /\ held' = [held EXCEPT ![r] = Last(available)]
  /\ pc' = [pc EXCEPT ![r] = "holding"]
  /\ UNCHANGED <<serving, conn, waitQueue>>

(* The top of the stack is dead: it is dropped, and close() is awaited.    *)
DiscardIdle(r) ==
  /\ available # <<>> /\ conn[Last(available)] # "up"
  /\ PopIdle
  /\ pc' = [pc EXCEPT ![r] = "discarding"]
  /\ UNCHANGED <<held, serving, conn, busy, waitQueue>>

IdleNotConsulted == TRUE

NoIdleLeft == available = <<>>

(* Room in the pool: open() is awaited, and only then is the client busy.  *)
StartOpen(r) ==
  /\ NoIdleLeft /\ Cardinality(busy) < PoolSize
  /\ held' = [held EXCEPT ![r] = <<r, "acquire">>]
  /\ pc' = [pc EXCEPT ![r] = "opening"]
  /\ UNCHANGED <<serving, conn, available, busy, waitQueue>>

StartWait(r) ==
  /\ NoIdleLeft /\ Cardinality(busy) >= PoolSize
  /\ waitQueue' = Append(waitQueue, r)
  /\ pc' = [pc EXCEPT ![r] = "waiting"]
  /\ UNCHANGED <<held, serving, conn, available, busy>>

AcquireLoop(r) == TakeIdle(r) \/ DiscardIdle(r) \/ StartOpen(r) \/ StartWait(r)

Acquire(r) ==
  /\ pc[r] = "idle" /\ ~drained
  /\ AcquireLoop(r)
  /\ UNCHANGED drained

AcquireDrained(r) ==
  /\ pc[r] = "idle" /\ drained
  /\ pc' = [pc EXCEPT ![r] = "failed"]
  /\ UNCHANGED <<held, serving, conn, available, busy, waitQueue, drained>>

(* The while loop goes on after the close(): _drained is not read again.   *)
AcquireContinue(r) ==
  /\ pc[r] = "discarding"
  /\ AcquireLoop(r)
  /\ UNCHANGED drained

(* open() of the client of r settled.                                      *)
OpenDone(r) ==
  /\ pc[r] = "opening"
  /\ conn' = [conn EXCEPT ![held[r]] = "up"]
  /\ busy' = busy \union {held[r]}
  /\ pc' = [pc EXCEPT ![r] = "holding"]
  /\ UNCHANGED <<held, serving, available, waitQueue, drained>>

OpenFailed(r) ==
  /\ pc[r] = "opening"
  /\ conn' = [conn EXCEPT ![held[r]] = "down"]
  /\ held' = [held EXCEPT ![r] = None]
  /\ pc' = [pc EXCEPT ![r] = "failed"]
  /\ UNCHANGED <<serving, available, busy, waitQueue, drained>>

NoTimer(r) == FALSE

(***************************************************************************)
(* The acquire timer.  The findIndex compares the promise's resolve with   *)
(* the closure stored in the queue and never finds it, so the waiter stays *)
(* in _waitQueue; the promise is rejected all the same.                    *)
(***************************************************************************)
AcquireTimeout(r) ==
  /\ pc[r] = "waiting"
  /\ pc' = [pc EXCEPT ![r] = "failed"]
  /\ UNCHANGED <<held, serving, conn, available, busy, waitQueue, drained>>

-----------------------------------------------------------------------------
(* release()                                                               *)

DeliverUnchecked(r, w, k) ==
  /\ pc' = [pc EXCEPT ![r] = "done", ![w] = "holding"]
  /\ held' = [held EXCEPT ![r] = None, ![w] = k]

(* waiter.resolve(k): without effect on a promise already rejected.        *)
Deliver(r, w, k) ==
  IF pc[w] = "waiting"
  THEN /\ pc' = [pc EXCEPT ![r] = "done", ![w] = "holding"]
       /\ held' = [held EXCEPT ![r] = None, ![w] = k]
  ELSE /\ pc' = [pc EXCEPT ![r] = "done"]
       /\ held' = [held EXCEPT ![r] = None]

CloseForgotten(k) == UNCHANGED conn

Close(k) == conn' = [conn EXCEPT ![k] = "down"]

Return(r) ==
  /\ pc' = [pc EXCEPT ![r] = "done"]
  /\ held' = [held EXCEPT ![r] = None]

ReleaseDrained(r) ==
  /\ pc[r] = "holding" /\ drained
  /\ busy' = busy \ {held[r]}
  /\ Close(held[r])
  /\ Return(r)
  /\ UNCHANGED <<serving, available, waitQueue, drained>>

(* A live client goes straight to the waiter at the head of the queue.     *)
ReleaseToWaiter(r) ==
  /\ pc[r] = "holding" /\ ~drained
  /\ waitQueue # <<>> /\ conn[held[r]] = "up"
  /\ waitQueue' = Tail(waitQueue)
  /\ busy' = (busy \ {held[r]}) \union {held[r]}
  /\ Deliver(r, Head(waitQueue), held[r])
  /\ UNCHANGED <<serving, conn, available, drained>>

(* A dead client is replaced for the waiter: close() and open() awaited.   *)
ReleaseReopen(r) ==
  /\ pc[r] = "holding" /\ ~drained
  /\ waitQueue # <<>> /\ conn[held[r]] # "up"
  /\ waitQueue' = Tail(waitQueue)
  /\ busy' = busy \ {held[r]}
  /\ serving' = [serving EXCEPT ![r] = Head(waitQueue)]
  /\ held' = [held EXCEPT ![r] = <<r, "release">>]
  /\ pc' = [pc EXCEPT ![r] = "releasing"]
  /\ UNCHANGED <<conn, available, drained>>

ReopenDone(r) ==
  /\ pc[r] = "releasing"
  /\ conn' = [conn EXCEPT ![held[r]] = "up"]
  /\ busy' = busy \union {held[r]}
  /\ Deliver(r, serving[r], held[r])
  /\ serving' = [serving EXCEPT ![r] = None]
  /\ UNCHANGED <<available, waitQueue, drained>>

WaiterNotTold(r, w) == pc' = [pc EXCEPT ![r] = "done"]

(* waiter.reject(err), and the release itself returns normally.            *)
RejectWaiter(r, w) ==
  pc' = [q \in Requests |->
           IF q = r THEN "done"
           ELSE IF q = w /\ pc[q] = "waiting" THEN "failed" ELSE pc[q]]

(* The waiters still queued are not woken although there is room now.      *)
ReopenFailed(r) ==
  /\ pc[r] = "releasing"
  /\ conn' = [conn EXCEPT ![held[r]] = "down"]
  /\ RejectWaiter(r, serving[r])
  /\ held' = [held EXCEPT ![r] = None]
  /\ serving' = [serving EXCEPT ![r] = None]
  /\ UNCHANGED <<available, busy, waitQueue, drained>>

(* Nobody waits: a live client becomes idle again, a dead one is closed.   *)
ReleaseIdle(r) ==
  /\ pc[r] = "holding" /\ ~drained
  /\ waitQueue = <<>> /\ conn[held[r]] = "up"
  /\ busy' = busy \ {held[r]}
  /\ available' = Append(available, held[r])
  /\ Return(r)
  /\ UNCHANGED <<serving, conn, waitQueue, drained>>

ReleaseDead(r) ==
  /\ pc[r] = "holding" /\ ~drained
  /\ waitQueue = <<>> /\ conn[held[r]] # "up"
  /\ busy' = busy \ {held[r]}
  /\ Close(held[r])
  /\ Return(r)
  /\ UNCHANGED <<serving, available, waitQueue, drained>>

Release(r) ==
  \/ ReleaseDrained(r) \/ ReleaseToWaiter(r) \/ ReleaseReopen(r)
  \/ ReleaseIdle(r) \/ ReleaseDead(r)

-----------------------------------------------------------------------------
(* drain(): refuses the queued waiters, closes idle and busy clients.      *)
Drain ==
  /\ drained' = TRUE
  /\ pc' = [r \in Requests |->
              IF r \in ToSet(waitQueue) /\ pc[r] = "waiting" THEN "failed" ELSE pc[r]]
  /\ waitQueue' = <<>>
  /\ conn' = [k \in Clients |->
                IF k \in busy \union ToSet(available) THEN "down" ELSE conn[k]]
  /\ available' = <<>>
  /\ busy' = {}
  /\ UNCHANGED <<held, serving>>

-----------------------------------------------------------------------------
(* RfcClient.call() of the holder: a transient failure whose reopen fails  *)
(* leaves the client disconnected, the next call opens it again.           *)
HolderCall(r) ==
  /\ pc[r] = "holding"
  /\ conn' = [conn EXCEPT ![held[r]] = IF @ = "up" THEN "down" ELSE "up"]
  /\ UNCHANGED <<pc, held, serving, available, busy, waitQueue, drained>>

(* A call that outlived its release (a caller that had two calls running)  *)
(* drops the connection flag of a client that is already idle.             *)
IdleDies(k) ==
  /\ k \in ToSet(available) /\ conn[k] = "up"
  /\ conn' = [conn EXCEPT ![k] = "down"]
  /\ UNCHANGED <<pc, held, serving, available, busy, waitQueue, drained>>

-----------------------------------------------------------------------------
Settle(r) ==
  \/ AcquireContinue(r) \/ OpenDone(r) \/ OpenFailed(r)
  \/ ReopenDone(r) \/ ReopenFailed(r)

Next ==
  \/ \E r \in Requests :
       \/ Acquire(r) \/ AcquireDrained(r) \/ AcquireTimeout(r)
       \/ Settle(r) \/ Release(r) \/ HolderCall(r)
  \/ \E k \in Clients : IdleDies(k)
  \/ Drain

(***************************************************************************)
(* Fairness: a promise that is awaited settles and the timer fires; every  *)
(* caller releases in a finally block (function-caller.js, table-reader.js)*)
(* so a holder's release happens.  Nobody has to call acquire or drain.    *)
(***************************************************************************)
Fairness ==
  \A r \in Requests :
    WF_vars(Settle(r)) /\ WF_vars(AcquireTimeout(r)) /\ WF_vars(Release(r))

Spec == Init /\ [][Next]_vars
FairSpec == Spec /\ Fairness

-----------------------------------------------------------------------------
(* Properties                                                              *)

TypeOK ==
  /\ pc \in [Requests -> PC]
  /\ held \in [Requests -> Clients \union {None}]
  /\ serving \in [Requests -> Requests \union {None}]
  /\ conn \in [Clients -> {"none", "up", "down"}]
  /\ available \in Seq(Clients)
  /\ busy \in SUBSET Clients
  /\ waitQueue \in Seq(Requests)
  /\ drained \in BOOLEAN

(* No client is with two callers at a time, and none that a caller uses is *)
(* in the stack the next acquire() takes from: whatever the order of       *)
(* hand-overs, late timeouts, reopened clients and a drain.                *)
LeaseExclusive ==
  /\ \A r, q \in Requests : r # q /\ held[r] # None => held[r] # held[q]
  /\ \A r \in Requests : held[r] \notin ToSet(available)

(* acquire() never queues, or stays queued, beside an idle client.         *)
NobodyWaitsBesideIdle == waitQueue # <<>> => available = <<>>

(* A caller suspended in _waitForRelease() is still known to the pool: it  *)
(* is queued, or one running release() opens a client for it.              *)
WaiterAccounted ==
  \A r \in Requests : pc[r] = "waiting" =>
    r \in ToSet(waitQueue) \/ \E q \in Requests : serving[q] = r

Held == {held[r] : r \in Requests}

(* Clients in _busy that no caller has: handed to a waiter that timed out. *)
Lost == busy \ Held

(* Every acquire() ends, with a client or with an error.                   *)
AcquireSettles ==
  \A r \in Requests :
    pc[r] \in {"discarding", "opening", "waiting"}
      ~> pc[r] \in {"holding", "releasing", "done", "failed"}

(* After drain() the only connections that stay open are the lost ones:    *)
(* those opened while it ran are closed by the release of their caller.    *)
DrainCloses == drained ~> \A k \in Clients : conn[k] = "up" => k \in Lost

PhaseOf(p) ==
  CASE p = "idle" -> "new"
    [] p \in {"discarding", "opening", "waiting"} -> "pending"
    [] p = "holding" -> "granted"
    [] p = "failed" -> "refused"
    [] OTHER -> "returned"

PhaseView == [r \in Requests |-> PhaseOf(pc[r])]

LeaseView == [r \in Requests |-> IF pc[r] = "holding" THEN held[r] ELSE None]

Leases == INSTANCE LeasePool WITH phase <- PhaseView, lease <- LeaseView

(* The pool implements the abstract lease: one grant, refusal or return    *)
(* per request, one owner per client.                                      *)
LeaseSpec == Leases!Spec

(* "If someone is waiting, give them this connection directly"             *)
(* (pool.js:100): a busy client is with somebody.  Fails: a waiter that    *)
(* timed out is still queued, and the client it is handed is never         *)
(* released.                                                               *)
NoneLost == Lost = {}
=============================================================================
