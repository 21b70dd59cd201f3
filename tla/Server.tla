-------------------------------- MODULE Server --------------------------------
(***************************************************************************)
(* The life of the process: main, its HTTP server, the goroutine of the    *)
(* scheduler, and the goroutines that notify.                              *)
(*                                                                         *)
(* On a signal main waits, 30 seconds at most, for the requests that are   *)
(* open.  If they end in time its deferred calls run, the last one first:  *)
(* Stop of the scheduler, cancel of its context, Close of the pool.  If    *)
(* not, Fatalf ends the process at once.  Nothing waits for the scheduler  *)
(* or for a notification; both end where they are.                         *)
(***************************************************************************)
EXTENDS NotificationService

CONSTANTS
  Requests,  \* requests, those that move money among them
  Payments   \* payments a sweep may still make

(* A job is started by the request or by the payment of the same name. *)
ASSUME JobsAssumption ==
  Jobs \subseteq Requests \cup Payments /\ Payments \subseteq Jobs

VARIABLES
  main,       \* where main is
  request,    \* whether each request is open or answered
  scheduler,  \* the goroutine of the scheduler
  tick,       \* whether a tick waits in the ticker's channel
  quit,       \* whether the quit channel is closed
  cancelled   \* whether the scheduler's context is cancelled

processVars == <<main, request, scheduler, tick, quit, cancelled>>
serverVars == <<mailVars, processVars>>

Alive == main \notin {"exited", "failed"}

PoolOpen == main \notin {"closed", "exited"}

-----------------------------------------------------------------------------
(* Requests. *)

Accept(r) ==
  /\ main = "serving"
  /\ request[r] = "new"
  /\ request' = [request EXCEPT ![r] = "open"]
  /\ UNCHANGED <<mailVars, main, scheduler, tick, quit, cancelled>>

(* The handler commits and starts its job; requests that are refused, fail *)
(* or move no money never do.                                              *)
Commit(r) ==
  /\ Alive
  /\ request[r] = "open"
  /\ r \in Jobs
  /\ Launch(r)
  /\ UNCHANGED processVars

Answer(r) ==
  /\ Alive
  /\ request[r] = "open"
  /\ request' = [request EXCEPT ![r] = "answered"]
  /\ UNCHANGED <<mailVars, main, scheduler, tick, quit, cancelled>>

NoneOpen == \A r \in Requests : request[r] # "open"

-----------------------------------------------------------------------------
(* The scheduler. *)

Tick ==
  /\ Alive
  /\ ~tick
  /\ scheduler # "stopped"
  /\ tick' = TRUE
  /\ UNCHANGED <<mailVars, main, request, scheduler, quit, cancelled>>

(* With a tick waiting and quit closed, select picks either. *)
BeginSweep ==
  /\ Alive
  /\ scheduler = "select"
  /\ tick
  /\ scheduler' = "sweeping"
  /\ tick' = FALSE
  /\ UNCHANGED <<mailVars, main, request, quit, cancelled>>

(* A payment needs the context and the pool. *)
SweepPays(p) ==
  /\ Alive
  /\ scheduler = "sweeping"
  /\ ~cancelled /\ PoolOpen
  /\ Launch(p)
  /\ UNCHANGED processVars

EndSweep ==
  /\ Alive
  /\ scheduler = "sweeping"
  /\ scheduler' = "select"
  /\ UNCHANGED <<mailVars, main, request, tick, quit, cancelled>>

SchedulerStops ==
  /\ Alive
  /\ scheduler = "select"
  /\ quit
  /\ scheduler' = "stopped"
  /\ tick' = FALSE
  /\ UNCHANGED <<mailVars, main, request, quit, cancelled>>

(* Jobs and senders run as long as the process does; users are found only  *)
(* in an open pool.                                                        *)
Notify(j) ==
  /\ Alive
  /\ JobStep(j)
  /\ PoolOpen \/ ~FindUser(j)
  /\ UNCHANGED processVars

Mail(l) ==
  /\ Alive
  /\ SenderStep(l)
  /\ UNCHANGED processVars

-----------------------------------------------------------------------------
(* main. *)

(* Listening may fail at the start or later; Fatalf ends the process with  *)
(* whatever is under way.                                                  *)
ListenFails ==
  /\ main = "serving"
  /\ main' = "failed"
  /\ UNCHANGED <<mailVars, request, scheduler, tick, quit, cancelled>>

Signal ==
  /\ main = "serving"
  /\ main' = "draining"
  /\ UNCHANGED <<mailVars, request, scheduler, tick, quit, cancelled>>

Drained ==
  /\ main = "draining"
  /\ NoneOpen
  /\ main' = "graceful"
  /\ UNCHANGED <<mailVars, request, scheduler, tick, quit, cancelled>>

(* Mutant: Shutdown is called with a context without a deadline. *)
ShutdownFailsNever == FALSE /\ UNCHANGED serverVars

ShutdownFails ==
  /\ main = "draining"
  /\ ~NoneOpen
  /\ main' = "failed"
  /\ UNCHANGED <<mailVars, request, scheduler, tick, quit, cancelled>>

StopScheduler ==
  /\ main = "graceful"
  /\ main' = "stopped"
  /\ quit' = TRUE
  /\ UNCHANGED <<mailVars, request, scheduler, tick, cancelled>>

CancelContext ==
  /\ main = "stopped"
  /\ main' = "cancelled"
  /\ cancelled' = TRUE
  /\ UNCHANGED <<mailVars, request, scheduler, tick, quit>>

CloseDatabase ==
  /\ main = "cancelled"
  /\ main' = "closed"
  /\ UNCHANGED <<mailVars, request, scheduler, tick, quit, cancelled>>

Exit ==
  /\ main = "closed"
  /\ main' = "exited"
  /\ UNCHANGED <<mailVars, request, scheduler, tick, quit, cancelled>>

MainStep ==
  \/ Drained \/ ShutdownFails
  \/ StopScheduler \/ CancelContext \/ CloseDatabase \/ Exit

ServerInit ==
  /\ MailInit
  /\ main = "serving"
  /\ request = [r \in Requests |-> "new"]
  /\ scheduler = "select"
  /\ tick = FALSE
  /\ quit = FALSE
  /\ cancelled = FALSE

ServerNext ==
  \/ \E r \in Requests : Accept(r) \/ Commit(r) \/ Answer(r)
  \/ Tick \/ BeginSweep \/ EndSweep \/ SchedulerStops
  \/ \E p \in Payments : SweepPays(p)
  \/ \E j \in Jobs : Notify(j)
  \/ \E l \in Letters : Mail(l)
  \/ ListenFails \/ Signal \/ MainStep

(* Goroutines that can run do run, and timers fire.  Nothing is assumed of *)
(* the mail server: Send may never return.  Nor of the requests: a handler *)
(* may wait for ever.                                                      *)
ServerSpec ==
  /\ ServerInit
  /\ [][ServerNext]_serverVars
  /\ WF_serverVars(MainStep)
  /\ \A j \in Jobs : WF_serverVars(Notify(j))
  /\ \A l \in Letters : WF_serverVars(Mail(l) /\ Offer(l))
-----------------------------------------------------------------------------
(* Properties.                                                             *)

(* A signal ends the process although requests, sweeps and e-mails may     *)
(* never end.                                                              *)
ExitsAfterSignal == main = "draining" ~> main \in {"exited", "failed"}

(* Until the process ends, every job ends, whatever the mail server does.  *)
JobsEndWithProcess ==
  \A j \in Jobs : stage[j] = "lookup" ~> (stage[j] = "ended" \/ ~Alive)

(* A sender whose Send has returned ends, although nobody may be left to   *)
(* receive its result: no goroutine is leaked on the channel.              *)
SendersEndWithProcess ==
  \A l \in Letters : sender[l] \in Results ~> (sender[l] = "ended" \/ ~Alive)
=============================================================================
