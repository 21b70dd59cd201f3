---------------------------- MODULE ConnectionUse ----------------------------
(***************************************************************************)
(* The database connections behind AccountService.  Begin takes one for    *)
(* the transaction, on which nothing is ever executed, and keeps it to the *)
(* end of the request; every statement takes a second one, over the pool,  *)
(* and gives it back.  NewDB sets no limit to the pool, so a statement     *)
(* that finds no connection free does not wait: PostgreSQL refuses to open *)
(* another one and the statement fails.                                    *)
(*                                                                         *)
(* Nothing else fails here: every error answer below is one of load.       *)
(***************************************************************************)
EXTENDS AccountService, FiniteSets, Functions

CONSTANT Slots  \* max_connections of the PostgreSQL server

(* Finitely many requests reach the server. *)
ASSUME PoolAssumption ==
  /\ Slots \in Nat \ {0}
  /\ IsFiniteSet(Requests)

VARIABLE held  \* the connections each request holds

poolVars == <<vars, held>>

InTransaction == {"read", "read_peer", "write", "write_peer", "record",
                  "record_peer", "commit"}

(* The connections request r needs for its next statement.  COMMIT runs on *)
(* the connection of the transaction.                                      *)
Demand(r) ==
  IF pc[r] \in InTransaction \ {"commit"} THEN 2
  ELSE IF InFlight(r) THEN 1
  ELSE 0

InUse == SumFunction(held)

(* Mutant: an early return forgets the transaction. *)
KeptWithoutRollback(r) ==
  IF pc'[r] \in InTransaction \/ (pc[r] \in InTransaction /\ reply'[r] \in Refusals)
  THEN 1 ELSE 0

(* What r keeps after a statement: the connection of a transaction that is *)
(* neither committed nor rolled back; Rollback is deferred.  A request     *)
(* that enters its transaction has given back the connection of its lookup *)
(* and has not begun yet.                                                  *)
Kept(r) ==
  IF pc[r] \in InTransaction /\ pc'[r] \in InTransaction THEN 1 ELSE 0

(* Mutant: SetMaxOpenConns makes a request wait for a connection. *)
AcquireBlocking(r) ==
  /\ held[r] < Demand(r)
  /\ InUse < Slots
  /\ held' = [held EXCEPT ![r] = @ + 1]
  /\ UNCHANGED vars

Acquire(r) ==
  /\ held[r] < Demand(r)
  /\ IF InUse < Slots
     THEN held' = [held EXCEPT ![r] = @ + 1] /\ UNCHANGED vars
     ELSE Fail(r) /\ held' = [held EXCEPT ![r] = 0]

Execute(r) ==
  /\ held[r] >= Demand(r)
  /\ Step(r)
  /\ held' = [held EXCEPT ![r] = Kept(r)]

PoolInit == Init /\ held = [r \in Requests |-> 0]

PoolNext == \E r \in Requests : Acquire(r) \/ Execute(r)

(* Every request has its goroutine, and every statement is answered. *)
PoolSpec ==
  /\ PoolInit
  /\ [][PoolNext]_poolVars
  /\ \A r \in Requests : WF_poolVars(InFlight(r) /\ (Acquire(r) \/ Execute(r)))
-----------------------------------------------------------------------------
(* Properties.                                                             *)

(* Whichever way a request ends, by success, refusal or error, none of its *)
(* connections stays with it, and all requests together never hold more    *)
(* than the server grants.                                                 *)
ConnectionsReturned ==
  /\ \A r \in Requests : ~InFlight(r) => held[r] = 0
  /\ InUse <= Slots

(* Requests that each hold a connection while they need another one never  *)
(* wait for each other: every request that has begun is answered.          *)
AnsweredUnderLoad ==
  \A r \in Requests : InFlight(r) ~> pc[r] = "done"

Parties(r) == IF call[r] = None THEN {} ELSE {call[r].acct, call[r].peer}

(* A transfer that shares its accounts with no other request moves money   *)
(* on both or on neither, as long as no statement fails by itself.  Load   *)
(* alone breaks it: other requests take the connection its next statement  *)
(* needs.                                                                  *)
LoadNeverSplitsATransfer ==
  \A r \in Requests :
    /\ pc[r] = "done" /\ reply[r] = "error" /\ call[r].op = "transfer"
    /\ \A s \in Requests \ {r} : Parties(s) \cap Parties(r) = {}
    => \A a \in Parties(r) : account[a].balance = Opening[a].balance
=============================================================================
