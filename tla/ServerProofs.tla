----------------------------- MODULE ServerProofs -----------------------------
(***************************************************************************)
(* Proofs about NotificationService and Server, for every set of requests, *)
(* payments and jobs, and every list of recipients: what the success of    *)
(* SendEmail means, and that a sender always finds room for its result.    *)
(*                                                                         *)
(* The news that a letter was accepted travels from the sender to its      *)
(* channel and from there to SendEmail; the invariant says that it is true *)
(* at every stage, whoever has stopped waiting for it meanwhile.           *)
(***************************************************************************)
EXTENDS Server, TLAPS

-----------------------------------------------------------------------------
(* The inductive invariant.                                                *)

Stages == {"none", "lookup", "mail", "waiting", "ended"}

(* A channel has room for one result. *)
Channels == {<<>>} \cup {<<result>> : result \in Results}

MailTypeOK ==
  /\ stage \in [Jobs -> Stages]
  /\ at \in [Jobs -> Nat]
  /\ \A j \in Jobs : at[j] \in 1 .. Len(Recipients[j])
  /\ outcome \in [Letters -> Results \cup {"none"}]
  /\ sender \in [Letters -> Results \cup {"none", "sending", "ended"}]
  /\ errChan \in [Letters -> Channels]

(* A success is true wherever it is by now. *)
NewsIsTrue(l) ==
  sender[l] = "sent" \/ errChan[l] = <<"sent">> \/ outcome[l] = "sent" => l \in delivered

MailInv ==
  /\ MailTypeOK
  /\ \A l \in Letters : NewsIsTrue(l)

-----------------------------------------------------------------------------
(* E-mails.                                                                *)

(* The letter a job is at is one of its letters. *)
LEMMA LetterType ==
  ASSUME MailTypeOK, NEW j \in Jobs
  PROVE  Letter(j) \in Letters
<1>1. at[j] \in 1 .. Len(Recipients[j]) /\ Recipients[j] \in Seq(STRING)
  BY RecipientsAssumption DEF MailTypeOK
<1>2. at[j] \in DOMAIN Recipients[j]
  BY <1>1
<1>3. <<j, at[j]>> \in {j} \X DOMAIN Recipients[j]
  BY <1>2
<1> QED
  BY <1>3 DEF Letter, Letters

(* The list of a job's recipients ends somewhere, but not before it starts. *)
LEMMA RecipientsExist ==
  ASSUME NEW j \in Jobs
  PROVE  Len(Recipients[j]) \in Nat /\ Len(Recipients[j]) >= 1
BY RecipientsAssumption

(* What a channel that is not empty holds. *)
LEMMA ChannelHolds ==
  ASSUME NEW c \in Channels, c # <<>>
  PROVE  Head(c) \in Results /\ c = <<Head(c)>> /\ Tail(c) = <<>>
<1>1. PICK result \in Results : c = <<result>>
  BY DEF Channels
<1>2. Head(<<result>>) = result /\ Tail(<<result>>) = <<>>
  OBVIOUS
<1> QED
  BY <1>1, <1>2

(* SendEmail returns: the job goes on to its next letter, or it ends. *)
LEMMA ReturnType ==
  ASSUME MailTypeOK, NEW j \in Jobs, NEW result \in Results, Return(j, result)
  PROVE  /\ stage' \in [Jobs -> Stages] /\ at' \in [Jobs -> Nat]
         /\ \A i \in Jobs : at'[i] \in 1 .. Len(Recipients[i])
         /\ outcome' \in [Letters -> Results \cup {"none"}]
         /\ \A l \in Letters : outcome'[l] = outcome[l] \/ (l = Letter(j) /\ outcome'[l] = result)
<1>1. stage' \in [Jobs -> Stages] /\ at' \in [Jobs -> Nat]
  BY DEF Return, MailTypeOK, Stages
<1>2. \A i \in Jobs : at'[i] \in 1 .. Len(Recipients[i])
  BY RecipientsExist DEF Return, MailTypeOK, Last
<1>3. /\ outcome' \in [Letters -> Results \cup {"none"}]
      /\ \A l \in Letters : outcome'[l] = outcome[l] \/ (l = Letter(j) /\ outcome'[l] = result)
  BY DEF Return, MailTypeOK
<1> QED
  BY <1>1, <1>2, <1>3

(* Every step of a job keeps the invariant. *)
LEMMA JobInv ==
  ASSUME MailInv, NEW j \in Jobs, JobStep(j)
  PROVE  MailInv'
<1>1. MailTypeOK /\ Letter(j) \in Letters
  BY LetterType DEF MailInv
<1>2. CASE FindUser(j)
  <2>1. MailTypeOK'
    BY <1>1, <1>2, RecipientsExist DEF FindUser, MailTypeOK, Stages, Last
  <2> QED
    BY <1>2, <2>1 DEF FindUser, MailInv, NewsIsTrue
<1>3. CASE FindUserFails(j)
  BY <1>3 DEF FindUserFails, MailInv, MailTypeOK, Stages, NewsIsTrue
<1>4. CASE SendEmail(j)
  <2>1. /\ MailTypeOK'
        /\ \A l \in Letters : sender'[l] = sender[l] \/ sender'[l] = "sending"
    BY <1>1, <1>4 DEF SendEmail, MailTypeOK, Stages
  <2> QED
    BY <1>4, <2>1 DEF SendEmail, MailInv, NewsIsTrue
<1>5. CASE Receive(j)
  <2> DEFINE c == errChan[Letter(j)]
  <2>1. Head(c) \in Results /\ c = <<Head(c)>> /\ Tail(c) = <<>>
    BY <1>1, <1>5, ChannelHolds DEF Receive, MailTypeOK
  <2>2. /\ errChan' \in [Letters -> Channels]
        /\ \A l \in Letters : errChan'[l] = errChan[l] \/ errChan'[l] = <<>>
    BY <1>1, <1>5, <2>1 DEF Receive, MailTypeOK, Channels
  <2>3. Return(j, Head(c)) /\ UNCHANGED <<sender, delivered>>
    BY <1>5 DEF Receive
  <2>4. MailTypeOK'
    BY <1>1, <2>1, <2>2, <2>3, ReturnType DEF MailTypeOK
  <2>5. \A l \in Letters : outcome'[l] = outcome[l] \/ (l = Letter(j) /\ outcome'[l] = Head(c))
    BY <1>1, <2>1, <2>3, ReturnType
  <2>6. \A l \in Letters : NewsIsTrue(l)'
    BY <2>1, <2>2, <2>3, <2>5 DEF MailInv, NewsIsTrue
  <2> QED
    BY <2>4, <2>6 DEF MailInv
<1>6. CASE Timeout(j)
  <2>1. Return(j, "failed") /\ "failed" \in Results /\ UNCHANGED <<sender, errChan, delivered>>
    BY <1>6 DEF Timeout, Results
  <2>2. MailTypeOK' /\ \A l \in Letters : outcome'[l] = outcome[l] \/ outcome'[l] = "failed"
    BY <1>1, <2>1, ReturnType DEF MailTypeOK
  <2> QED
    BY <2>1, <2>2 DEF MailInv, NewsIsTrue
<1> QED
  BY <1>2, <1>3, <1>4, <1>5, <1>6 DEF JobStep

(* So does every step of a sender. *)
LEMMA SenderInv ==
  ASSUME MailInv, NEW l \in Letters, SenderStep(l)
  PROVE  MailInv'
<1>1. CASE Deliver(l)
  BY <1>1 DEF Deliver, MailInv, MailTypeOK, NewsIsTrue
<1>2. CASE SendReturns(l)
  <2>1. PICK result \in Results : /\ result = "sent" => l \in delivered
                                  /\ sender' = [sender EXCEPT ![l] = result]
    BY <1>2 DEF SendReturns
  <2>2. MailTypeOK'
    BY <1>2, <2>1 DEF SendReturns, MailInv, MailTypeOK
  <2> QED
    BY <1>2, <2>1, <2>2 DEF SendReturns, MailInv, MailTypeOK, NewsIsTrue
<1>3. CASE Offer(l)
  <2>1. Append(errChan[l], sender[l]) = <<sender[l]>>
    BY <1>3 DEF Offer, HasRoom
  <2>2. sender[l] \in Results /\ errChan' = [errChan EXCEPT ![l] = <<sender[l]>>]
    BY <1>3, <2>1 DEF Offer
  <2>3. MailTypeOK'
    <3>1. <<sender[l]>> \in Channels
      BY <2>2 DEF Channels
    <3>2. /\ errChan' \in [Letters -> Channels]
          /\ sender' \in [Letters -> Results \cup {"none", "sending", "ended"}]
      BY <1>3, <2>2, <3>1 DEF Offer, MailInv, MailTypeOK
    <3> QED
      BY <1>3, <3>2 DEF Offer, MailInv, MailTypeOK
  <2>4. \A k \in Letters : NewsIsTrue(k)'
    <3> SUFFICES ASSUME NEW k \in Letters PROVE NewsIsTrue(k)'
      OBVIOUS
    <3>1. errChan'[k] = <<"sent">> => errChan[k] = <<"sent">> \/ (k = l /\ sender[l] = "sent")
      BY <2>2 DEF MailInv, MailTypeOK
    <3>2. sender'[k] = "sent" => sender[k] = "sent"
      BY <1>3 DEF Offer, MailInv, MailTypeOK
    <3> QED
      BY <1>3, <3>1, <3>2 DEF Offer, MailInv, NewsIsTrue
  <2> QED
    BY <2>3, <2>4 DEF MailInv
<1> QED
  BY <1>1, <1>2, <1>3 DEF SenderStep

(* And the start of a job. *)
LEMMA LaunchInv ==
  ASSUME MailInv, NEW j \in Jobs, Launch(j)
  PROVE  MailInv'
BY DEF Launch, MailInv, MailTypeOK, Stages, NewsIsTrue

(* Steps of the process that leave the e-mails alone. *)
LEMMA MailUnchanged ==
  ASSUME MailInv, UNCHANGED mailVars
  PROVE  MailInv'
BY DEF mailVars, MailInv, MailTypeOK, NewsIsTrue

(* At the start no letter is under way. *)
LEMMA MailInitInv == MailInit => MailInv
<1>1. MailInit => MailTypeOK
  BY RecipientsExist DEF MailInit, MailTypeOK, Stages, Channels
<1> QED
  BY <1>1 DEF MailInit, MailInv, NewsIsTrue

-----------------------------------------------------------------------------
(* The process.                                                            *)

(* What the steps of the server do to the e-mails. *)
LEMMA MailSteps ==
  ASSUME [ServerNext]_serverVars
  PROVE  \/ \E j \in Jobs : Launch(j) \/ JobStep(j)
         \/ \E l \in Letters : SenderStep(l)
         \/ UNCHANGED mailVars
BY JobsAssumption
DEF ServerNext, serverVars, Accept, Commit, Answer, Tick, BeginSweep, EndSweep, SweepPays,
    SchedulerStops, Notify, Mail, ListenFails, Signal, MainStep, Drained, ShutdownFails,
    StopScheduler, CancelContext, CloseDatabase, Exit

(* Every step of the server keeps the invariant of the e-mails. *)
LEMMA NextMail ==
  ASSUME MailInv, [ServerNext]_serverVars
  PROVE  MailInv'
BY MailSteps, LaunchInv, JobInv, SenderInv, MailUnchanged

(* The inductive invariant holds in every state the server reaches. *)
THEOREM MailInvHolds == ServerSpec => []MailInv
<1>1. ServerInit => MailInv
  BY MailInitInv DEF ServerInit
<1> QED
  BY <1>1, NextMail, PTL DEF ServerSpec

(* A success of SendEmail is true: the letter has been accepted. *)
THEOREM SentMeansDeliveredHolds == ServerSpec => []SentMeansDelivered
<1>1. MailInv => SentMeansDelivered
  BY DEF MailInv, NewsIsTrue, SentMeansDelivered
<1> QED
  BY <1>1, MailInvHolds, PTL

-----------------------------------------------------------------------------
(* A sender can always leave.  SendEmail has gone when a late sender wants *)
(* to report, and nobody will empty its channel: it must find room there.  *)
(* It does because each letter has its own channel and is sent once.       *)

SenderHasRoom == \A l \in Letters : sender[l] \in Results => HasRoom(l)

(* Letter k of job j is still to be sent. *)
Unsent(j, k) ==
  \/ stage[j] \in {"none", "lookup"}
  \/ stage[j] = "mail" /\ k >= at[j]
  \/ stage[j] = "waiting" /\ k > at[j]

SentOnce ==
  \A j \in Jobs : \A k \in 1 .. Len(Recipients[j]) :
    Unsent(j, k) => sender[<<j, k>>] = "none"

(* Until its sender has reported, the channel of a letter is empty. *)
ReportedOnce == \A l \in Letters : sender[l] # "ended" => errChan[l] = <<>>

RoomInv == MailInv /\ SentOnce /\ ReportedOnce

(* The letters of a job. *)
LEMMA LettersOf ==
  ASSUME NEW j \in Jobs, NEW k \in 1 .. Len(Recipients[j])
  PROVE  <<j, k>> \in Letters
<1>1. k \in DOMAIN Recipients[j]
  BY RecipientsAssumption
<1>2. <<j, k>> \in {j} \X DOMAIN Recipients[j]
  BY <1>1
<1> QED
  BY <1>2 DEF Letters

(* A letter that was not sent yet stays so when a job finds its users or   *)
(* SendEmail returns, and senders only run once they are started.          *)
LEMMA SentOnceKept ==
  ASSUME MailInv, SentOnce,
         \A j \in Jobs : \A k \in 1 .. Len(Recipients[j]) : Unsent(j, k)' => Unsent(j, k),
         \A l \in Letters : sender[l] = "none" => sender'[l] = "none"
  PROVE  SentOnce'
BY LettersOf DEF SentOnce

(* Every step of a job keeps both. *)
LEMMA JobRoom ==
  ASSUME RoomInv, NEW j \in Jobs, JobStep(j)
  PROVE  SentOnce' /\ ReportedOnce'
<1>1. MailInv /\ MailTypeOK /\ SentOnce /\ ReportedOnce /\ Letter(j) \in Letters
  BY LetterType DEF RoomInv, MailInv
<1>2. CASE FindUser(j) \/ FindUserFails(j)
  <2>1. \A i \in Jobs : (stage'[i] = stage[i] /\ at'[i] = at[i]) \/ stage[i] = "lookup"
    BY <1>1, <1>2 DEF FindUser, FindUserFails, MailTypeOK
  <2>2. \A i \in Jobs : \A k \in 1 .. Len(Recipients[i]) : Unsent(i, k)' => Unsent(i, k)
    BY <2>1 DEF Unsent
  <2>3. UNCHANGED <<sender, errChan>>
    BY <1>2 DEF FindUser, FindUserFails
  <2> QED
    BY <1>1, <2>2, <2>3, SentOnceKept DEF ReportedOnce
<1>3. CASE SendEmail(j)
  <2>1. /\ stage[j] = "mail" /\ stage' = [stage EXCEPT ![j] = "waiting"]
        /\ sender' = [sender EXCEPT ![Letter(j)] = "sending"]
        /\ at' = at /\ errChan' = errChan
    BY <1>3 DEF SendEmail
  <2>2. sender[Letter(j)] = "none"
    <3>1. Unsent(j, at[j]) /\ at[j] \in 1 .. Len(Recipients[j])
      BY <1>1, <2>1 DEF Unsent, MailTypeOK
    <3> QED
      BY <1>1, <3>1 DEF SentOnce, Letter
  <2>3. ReportedOnce'
    BY <1>1, <2>1, <2>2 DEF ReportedOnce, MailTypeOK
  <2>4. SentOnce'
    <3> SUFFICES ASSUME NEW i \in Jobs, NEW k \in 1 .. Len(Recipients[i]), Unsent(i, k)'
                 PROVE  sender'[<<i, k>>] = "none"
      BY DEF SentOnce
    <3>1. Unsent(i, k) /\ <<i, k>> # Letter(j)
      BY <1>1, <2>1 DEF Unsent, Letter, MailTypeOK
    <3>2. <<i, k>> \in Letters /\ sender[<<i, k>>] = "none"
      BY <1>1, <3>1, LettersOf DEF SentOnce
    <3> QED
      BY <1>1, <2>1, <3>1, <3>2 DEF MailTypeOK
  <2> QED
    BY <2>3, <2>4
<1>4. ASSUME NEW result, Return(j, result), stage[j] = "waiting", UNCHANGED sender
      PROVE  SentOnce'
  <2>1. \A i \in Jobs : \A k \in 1 .. Len(Recipients[i]) : Unsent(i, k)' => Unsent(i, k)
    BY <1>1, <1>4, RecipientsExist DEF Return, Unsent, MailTypeOK
  <2> QED
    BY <1>1, <1>4, <2>1, SentOnceKept
<1>5. CASE Receive(j)
  <2>1. Tail(errChan[Letter(j)]) = <<>>
    BY <1>1, <1>5, ChannelHolds DEF Receive, MailTypeOK
  <2>2. ReportedOnce'
    BY <1>1, <1>5, <2>1 DEF Receive, ReportedOnce, MailTypeOK
  <2> QED
    BY <1>4, <1>5, <2>2 DEF Receive
<1>6. CASE Timeout(j)
  BY <1>1, <1>4, <1>6 DEF Timeout, ReportedOnce
<1> QED
  BY <1>2, <1>3, <1>5, <1>6 DEF JobStep

(* So does every step of a sender. *)
LEMMA SenderRoom ==
  ASSUME RoomInv, NEW l \in Letters, SenderStep(l)
  PROVE  SentOnce' /\ ReportedOnce'
<1>1. MailInv /\ MailTypeOK /\ SentOnce /\ ReportedOnce
  BY DEF RoomInv, MailInv
<1>2. /\ stage' = stage /\ at' = at
      /\ \A k \in Letters : sender[k] = "none" => sender'[k] = "none"
  BY <1>1 DEF SenderStep, Deliver, SendReturns, Offer, MailTypeOK, Results
<1>3. SentOnce'
  BY <1>1, <1>2, SentOnceKept DEF Unsent
<1>4. ReportedOnce'
  BY <1>1 DEF SenderStep, Deliver, SendReturns, Offer, MailTypeOK, Results, ReportedOnce
<1> QED
  BY <1>3, <1>4

(* A sender that has its result can always put it into its channel and     *)
(* end, whether or not SendEmail still waits: no goroutine is leaked on it.*)
THEOREM SenderHasRoomHolds == ServerSpec => []SenderHasRoom
<1>1. ServerInit => RoomInv
  <2> SUFFICES ASSUME ServerInit PROVE RoomInv
    OBVIOUS
  <2>1. MailInv
    BY MailInitInv DEF ServerInit
  <2>2. SentOnce /\ ReportedOnce
    BY LettersOf DEF ServerInit, MailInit, SentOnce, ReportedOnce
  <2> QED
    BY <2>1, <2>2 DEF RoomInv
<1>2. RoomInv /\ [ServerNext]_serverVars => RoomInv'
  <2> SUFFICES ASSUME RoomInv, [ServerNext]_serverVars PROVE RoomInv'
    OBVIOUS
  <2>1. MailInv'
    BY NextMail DEF RoomInv
  <2>2. ASSUME NEW j \in Jobs, Launch(j)
        PROVE  SentOnce' /\ ReportedOnce'
    <3>1. \A i \in Jobs : \A k \in 1 .. Len(Recipients[i]) : Unsent(i, k)' => Unsent(i, k)
      BY <2>2 DEF Launch, Unsent, RoomInv, MailInv, MailTypeOK
    <3> QED
      BY <2>2, <3>1, SentOnceKept DEF Launch, RoomInv, ReportedOnce
  <2>3. ASSUME UNCHANGED mailVars
        PROVE  SentOnce' /\ ReportedOnce'
    <3>1. stage' = stage /\ at' = at /\ sender' = sender /\ errChan' = errChan
      BY <2>3 DEF mailVars
    <3>2. \A i \in Jobs : \A k \in 1 .. Len(Recipients[i]) : Unsent(i, k)' => Unsent(i, k)
      BY <3>1 DEF Unsent
    <3> QED
      BY <3>1, <3>2, SentOnceKept DEF RoomInv, ReportedOnce
  <2>4. SentOnce' /\ ReportedOnce'
    BY <2>2, <2>3, MailSteps, JobRoom, SenderRoom
  <2> QED
    BY <2>1, <2>4 DEF RoomInv
<1>3. RoomInv => SenderHasRoom
  BY DEF RoomInv, ReportedOnce, SenderHasRoom, Results, HasRoom
<1> QED
  BY <1>1, <1>2, <1>3, PTL DEF ServerSpec
=============================================================================
