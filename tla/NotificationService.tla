-------------------------- MODULE NotificationService --------------------------
(***************************************************************************)
(* E-mails.  A withdrawal, a transfer, a payment or a fine starts, after   *)
(* its COMMIT, a goroutine nobody waits for (a job): it looks up its       *)
(* users, then sends them one letter each, one after the other.            *)
(*                                                                         *)
(* SendEmail hands the letter to a goroutine of its own (the sender),      *)
(* which cannot be interrupted, and waits for its result or for 30         *)
(* seconds, whichever comes first.  A sender that is too late still puts   *)
(* its result into its channel, which has room for one.                    *)
(***************************************************************************)
EXTENDS Naturals, Sequences

CONSTANTS
  Jobs,       \* the goroutines that notify
  Recipients  \* the users each of them writes to, in order

ASSUME RecipientsAssumption ==
  \A j \in Jobs : Recipients[j] \in Seq(STRING) /\ Recipients[j] # <<>>

Letters == UNION {{j} \X DOMAIN Recipients[j] : j \in Jobs}

VARIABLES
  stage,     \* how far each job is
  at,        \* the user or the letter it is at
  outcome,   \* what SendEmail returned for each letter
  sender,    \* the sender of each letter; its result, once Send has returned
  errChan,   \* the channel from the sender to SendEmail
  delivered  \* the letters the mail server has accepted

mailVars == <<stage, at, outcome, sender, errChan, delivered>>

Results == {"sent", "failed"}

Letter(j) == <<j, at[j]>>

Last(j) == at[j] = Len(Recipients[j])

(* The COMMIT is done: go func(). *)
Launch(j) ==
  /\ stage[j] = "none"
  /\ stage' = [stage EXCEPT ![j] = "lookup"]
  /\ UNCHANGED <<at, outcome, sender, errChan, delivered>>

(* All users are looked up before the first letter is sent. *)
FindUser(j) ==
  /\ stage[j] = "lookup"
  /\ at' = [at EXCEPT ![j] = IF Last(j) THEN 1 ELSE @ + 1]
  /\ stage' = [stage EXCEPT ![j] = IF Last(j) THEN "mail" ELSE "lookup"]
  /\ UNCHANGED <<outcome, sender, errChan, delivered>>

FindUserFails(j) ==
  /\ stage[j] = "lookup"
  /\ stage' = [stage EXCEPT ![j] = "ended"]
  /\ UNCHANGED <<at, outcome, sender, errChan, delivered>>

SendEmail(j) ==
  /\ stage[j] = "mail"
  /\ stage' = [stage EXCEPT ![j] = "waiting"]
  /\ sender' = [sender EXCEPT ![Letter(j)] = "sending"]
  /\ UNCHANGED <<at, outcome, errChan, delivered>>

(* SendEmail returns; an error is logged, and the next letter is sent. *)
Return(j, result) ==
  /\ outcome' = [outcome EXCEPT ![Letter(j)] = result]
  /\ stage' = [stage EXCEPT ![j] = IF Last(j) THEN "ended" ELSE "mail"]
  /\ at' = [at EXCEPT ![j] = IF Last(j) THEN @ ELSE @ + 1]

(* Mutant: the error received is not looked at. *)
ReceiveUnchecked(j) ==
  /\ stage[j] = "waiting"
  /\ errChan[Letter(j)] # <<>>
  /\ Return(j, "sent")
  /\ errChan' = [errChan EXCEPT ![Letter(j)] = Tail(@)]
  /\ UNCHANGED <<sender, delivered>>

Receive(j) ==
  /\ stage[j] = "waiting"
  /\ errChan[Letter(j)] # <<>>
  /\ Return(j, Head(errChan[Letter(j)]))
  /\ errChan' = [errChan EXCEPT ![Letter(j)] = Tail(@)]
  /\ UNCHANGED <<sender, delivered>>

(* Mutant: the context has no deadline. *)
TimeoutNever(j) == FALSE /\ UNCHANGED mailVars

(* Select may also pick the deadline when the result is already there. *)
Timeout(j) ==
  /\ stage[j] = "waiting"
  /\ Return(j, "failed")
  /\ UNCHANGED <<sender, errChan, delivered>>

(* The mail server accepts the letter. *)
Deliver(l) ==
  /\ sender[l] = "sending"
  /\ l \notin delivered
  /\ delivered' = delivered \cup {l}
  /\ UNCHANGED <<stage, at, outcome, sender, errChan>>

(* Send may fail before the letter is accepted or after it (QUIT). *)
SendReturns(l) ==
  /\ sender[l] = "sending"
  /\ \E result \in Results :
       /\ result = "sent" => l \in delivered
       /\ sender' = [sender EXCEPT ![l] = result]
  /\ UNCHANGED <<stage, at, outcome, errChan, delivered>>

(* Mutant: a channel without a buffer takes a result only from a sender    *)
(* whose SendEmail still waits.                                            *)
HasRoomUnbuffered(l) == stage[l[1]] = "waiting" /\ l = Letter(l[1]) /\ errChan[l] = <<>>

HasRoom(l) == errChan[l] = <<>>

Offer(l) ==
  /\ sender[l] \in Results
  /\ HasRoom(l)
  /\ errChan' = [errChan EXCEPT ![l] = Append(@, sender[l])]
  /\ sender' = [sender EXCEPT ![l] = "ended"]
  /\ UNCHANGED <<stage, at, outcome, delivered>>

JobStep(j) == FindUser(j) \/ FindUserFails(j) \/ SendEmail(j) \/ Receive(j) \/ Timeout(j)

SenderStep(l) == Deliver(l) \/ SendReturns(l) \/ Offer(l)

MailInit ==
  /\ stage = [j \in Jobs |-> "none"]
  /\ at = [j \in Jobs |-> 1]
  /\ outcome = [l \in Letters |-> "none"]
  /\ sender = [l \in Letters |-> "none"]
  /\ errChan = [l \in Letters |-> <<>>]
  /\ delivered = {}
-----------------------------------------------------------------------------
(* Properties.                                                             *)

(* A success of SendEmail is true: the letter has been accepted, although  *)
(* the result travels from the sender through a channel and late results   *)
(* of earlier letters arrive after their SendEmail has gone.               *)
SentMeansDelivered ==
  \A l \in Letters : outcome[l] = "sent" => l \in delivered
=============================================================================
