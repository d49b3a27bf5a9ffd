----------------------------- MODULE LeasePool -----------------------------
(***************************************************************************)
(* What a connection pool promises its callers, with no queue, no timer    *)
(* and no socket in sight: a request asks once, is granted one connection  *)
(* or refused, and gives the connection back once; a connection is leased  *)
(* to at most one request at a time.  RfcPool implements it.               *)
(***************************************************************************)
CONSTANTS Requests,   (* the acquire()/release() pairs of all callers      *)
          Clients,    (* the connection objects                            *)
          None        (* no connection                                     *)

VARIABLES phase,      (* phase[r]: where request r is                      *)
          lease       (* lease[r]: the connection r owns, or None          *)

leaseVars == <<phase, lease>>

Phases == {"new", "pending", "granted", "refused", "returned"}

Init ==
  /\ phase = [r \in Requests |-> "new"]
  /\ lease = [r \in Requests |-> None]

Leased == {lease[r] : r \in Requests} \ {None}

Ask(r) ==
  /\ phase[r] = "new"
  /\ phase' = [phase EXCEPT ![r] = "pending"]
  /\ UNCHANGED lease

(* Several requests may be granted or refused by one step of the pool (a   *)
(* release that hands its connection over, a drain that refuses everyone). *)
Grant(r, k) ==
  /\ phase[r] \in {"new", "pending"}
  /\ k \notin Leased
  /\ phase' = [phase EXCEPT ![r] = "granted"]
  /\ lease' = [lease EXCEPT ![r] = k]

Refuse(R) ==
  /\ \A r \in R : phase[r] \in {"new", "pending"}
  /\ phase' = [r \in Requests |-> IF r \in R THEN "refused" ELSE phase[r]]
  /\ UNCHANGED lease

Return(r) ==
  /\ phase[r] = "granted"
  /\ phase' = [phase EXCEPT ![r] = "returned"]
  /\ lease' = [lease EXCEPT ![r] = None]

(* release() gives the connection of r straight to the waiting request w.  *)
HandOver(r, w) ==
  /\ phase[r] = "granted" /\ phase[w] = "pending"
  /\ phase' = [phase EXCEPT ![r] = "returned", ![w] = "granted"]
  /\ lease' = [lease EXCEPT ![r] = None, ![w] = lease[r]]

Next ==
  \/ \E r \in Requests : Ask(r) \/ Return(r)
  \/ \E r \in Requests, k \in Clients : Grant(r, k)
  \/ \E R \in SUBSET Requests : Refuse(R)
  \/ \E r, w \in Requests : HandOver(r, w)

Spec == Init /\ [][Next]_leaseVars
=============================================================================
