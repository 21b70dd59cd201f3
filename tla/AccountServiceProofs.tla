------------------------- MODULE AccountServiceProofs -------------------------
(***************************************************************************)
(* Proofs about AccountService, AccountAtomicity and ConnectionUse, for    *)
(* every set of users, accounts and requests, every table the requests     *)
(* start from and every size of the balance column.                        *)
(*                                                                         *)
(* First what holds of requests however they interleave.                   *)
(*                                                                         *)
(* Then the refinement: requests that do not overlap on an account, and    *)
(* fail before they have stored anything or not at all, are atomic         *)
(* operations.  Until its COMMIT an operation has not happened: the funds  *)
(* of the accounts it works on are the balances it has read.  That these   *)
(* are the balances it found, and that nobody else has changed them, is    *)
(* what the invariant adds.                                                *)
(*                                                                         *)
(* Then the connections: whatever load does to them, requests return them. *)
(***************************************************************************)
EXTENDS AccountAtomicity, ConnectionUse, FiniteSums

-----------------------------------------------------------------------------
(* The inductive invariant.                                                *)

(* Labels of a request whose caller has been found to own its account. *)
Authorised == {"read", "read_peer", "write", "write_peer", "record",
               "record_peer", "commit"}

(* Labels of a transfer whose destination has been read. *)
PeerRead == {"write", "write_peer", "record", "record_peer", "commit"}

(* Request r asks for what its label says. *)
CallOK(r) ==
  /\ pc[r] = "new" => call[r] = None
  /\ pc[r] # "new" => call[r] \in Calls
  /\ pc[r] \in {"check_number", "insert"} => call[r].op = "create"
  /\ pc[r] \in {"authorize"} \cup Authorised => /\ call[r].op # "create"
                                                /\ call[r].amount > 0
  /\ pc[r] \in {"read_peer", "write_peer", "record_peer"} => call[r].op = "transfer"

(* What request r has read bounds what it will write. *)
SeenOK(r) ==
  /\ pc[r] \in {"read_peer", "write"} => seen[r].acct \in Balances
  /\ pc[r] = "write" /\ call[r].op # "deposit" => call[r].amount <= seen[r].acct
  /\ pc[r] \in {"write", "write_peer"} /\ call[r].op = "transfer" =>
       seen[r].peer \in Balances

(* The rows request r works on exist. *)
RowsOK(r) ==
  /\ pc[r] \in Authorised => account[call[r].acct] # NoRow
  /\ pc[r] \in PeerRead /\ call[r].op = "transfer" => account[call[r].peer] # NoRow

Inv ==
  /\ TypeOK
  /\ NoOverdraft
  /\ \A r \in Requests : CallOK(r) /\ SeenOK(r) /\ RowsOK(r)

-----------------------------------------------------------------------------
(* What a call holds.                                                      *)

(* A call is of one of four kinds, with the fields of its kind. *)
LEMMA CallShape ==
  ASSUME NEW c \in Calls
  PROVE  /\ c # None
         /\ c.op \in {"create", "deposit", "withdraw", "transfer"}
         /\ c.op = "create" => c \in CreateCall
         /\ c.op # "create" => /\ c.user \in Users
                               /\ c.acct \in Accounts
                               /\ c.amount \in Int
                               /\ c.peer \in Accounts \cup {None}
         /\ c.op = "transfer" => c.peer \in Accounts
  BY ConstantsAssumption DEF Call, CreateCall, MoneyCall

(* A verdict is either the answer to the request or lets it proceed. *)
LEMMA VerdictType ==
  ASSUME NEW c, NEW from
  PROVE  /\ AccessVerdict(c) \in Refusals \cup {"proceed"}
         /\ TransferVerdict(c, from) \in Refusals \cup {"error", "proceed"}
  BY DEF AccessVerdict, TransferVerdict, Refusals

(* The control state keeps its type wherever a request goes. *)
ControlType ==
  /\ pc \in [Requests -> Labels]
  /\ seen \in [Requests -> [acct : Int, peer : Int]]
  /\ reply \in [Requests -> Replies]

(* An answer keeps the types of the control state. *)
LEMMA FinishType ==
  ASSUME ControlType, NEW r \in Requests, NEW answer \in Replies, Finish(r, answer)
  PROVE  ControlType'
  BY DEF ControlType, Finish, Labels, Unseen

(* So does a decision between an answer and the next statement. *)
LEMMA DecideType ==
  ASSUME ControlType, NEW r \in Requests, NEW label \in Labels,
         NEW verdict \in Replies \cup {"proceed"}, Decide(r, verdict, label)
  PROVE  ControlType'
<1>1. CASE verdict = "proceed"
  BY <1>1 DEF Decide, Goto, ControlType
<1>2. CASE verdict # "proceed"
  <2>1. Finish(r, verdict) /\ verdict \in Replies
    BY <1>2 DEF Decide
  <2> QED
    BY <2>1, FinishType
<1> QED
  BY <1>1, <1>2

(* An UPDATE of an existing row by an amount that is not negative keeps    *)
(* the table well typed, and never stores a balance outside the column.    *)
LEMMA UpdateType ==
  ASSUME ControlType, account \in [Accounts -> Row \cup {NoRow}], NoOverdraft,
         NEW r \in Requests, NEW label \in Labels, NEW v \in Nat,
         NEW a \in Accounts, account[a] # NoRow, UpdateAccount(r, a, v, label)
  PROVE  /\ ControlType'
         /\ account' \in [Accounts -> Row \cup {NoRow}]
         /\ NoOverdraft'
<1>1. CASE v <= MaxBalance
  <2>1. account' = [account EXCEPT ![a].balance = v] /\ Goto(r, label) /\ UNCHANGED seen
    BY <1>1 DEF UpdateAccount
  <2>2. account' \in [Accounts -> Row \cup {NoRow}]
    BY <2>1 DEF Row
  <2>3. NoOverdraft'
    BY <1>1, <2>1, ConstantsAssumption DEF NoOverdraft, Balances, Row
  <2> QED
    BY <2>1, <2>2, <2>3 DEF Goto, ControlType
<1>2. CASE ~(v <= MaxBalance)
  <2>1. Finish(r, "error") /\ UNCHANGED account
    BY <1>2 DEF UpdateAccount
  <2> QED
    BY <2>1, FinishType DEF Replies, NoOverdraft
<1> QED
  BY <1>1, <1>2

(* Every step of a request keeps the types and the bounds of the balances. *)
LEMMA StepType ==
  ASSUME Inv, NEW r \in Requests, Step(r) \/ Fail(r)
  PROVE  TypeOK' /\ NoOverdraft'
<1> DEFINE c == call[r]
<1>0. TypeOK /\ NoOverdraft /\ CallOK(r) /\ SeenOK(r) /\ RowsOK(r)
  BY DEF Inv
<1>t. ControlType
  BY <1>0 DEF TypeOK, ControlType
<1>c. pc[r] # "new" => c \in Calls
  BY <1>0 DEF CallOK
<1>v. /\ AccessVerdict(c) \in Replies \cup {"proceed"}
      /\ TransferVerdict(c, seen[r].acct) \in Replies \cup {"proceed"}
      /\ Refusals \subseteq Replies /\ {"ok", "error"} \subseteq Replies
  BY VerdictType DEF Replies
<1> USE DEF TypeOK
<1>1. CASE CreateAccountHandler(r)
  <2>1. PICK d \in Calls :
          /\ call' = [call EXCEPT ![r] = d]
          /\ Decide(r, IF d.currency = "RUB" THEN "proceed" ELSE "invalid_currency",
                    "check_number")
    BY <1>1 DEF CreateAccountHandler
  <2>2. (IF d.currency = "RUB" THEN "proceed" ELSE "invalid_currency")
          \in Replies \cup {"proceed"}
    BY DEF Replies, Refusals
  <2>3. ControlType'
    BY <1>t, <2>1, <2>2, DecideType DEF Labels
  <2> QED
    BY <1>0, <1>1, <2>1, <2>3 DEF CreateAccountHandler, ControlType, NoOverdraft
<1>2. CASE CheckNumber(r)
  <2>1. (IF NumberTaken(call[r].number) THEN "account_exists" ELSE "proceed")
          \in Replies \cup {"proceed"}
    BY DEF Replies, Refusals
  <2>2. ControlType'
    BY <1>t, <1>2, <2>1, DecideType DEF CheckNumber, Labels
  <2> QED
    BY <1>0, <1>2, <2>2 DEF CheckNumber, ControlType, NoOverdraft
<1>3. CASE InsertAccount(r)
  <2>1. c \in CreateCall
    BY <1>0, <1>c, <1>3, CallShape DEF InsertAccount, CallOK
  <2>2. ControlType'
    BY <1>t, <1>v, <1>3, FinishType DEF InsertAccount
  <2>3. account' \in [Accounts -> Row \cup {NoRow}] /\ NoOverdraft'
    <3>1. CASE UNCHANGED account
      BY <1>0, <3>1 DEF NoOverdraft
    <3>2. CASE ~(UNCHANGED account)
      <4>1. PICK a \in Accounts :
              account' = [account EXCEPT ![a] =
                [owner |-> c.user, number |-> c.number,
                 currency |-> c.currency, balance |-> 0]]
        BY <1>3, <3>2 DEF InsertAccount
      <4>2. [owner |-> c.user, number |-> c.number,
             currency |-> c.currency, balance |-> 0] \in Row
        BY <2>1 DEF CreateCall, Row
      <4> QED
        BY <1>0, <4>1, <4>2, ConstantsAssumption DEF NoOverdraft, Balances
    <3> QED
      BY <3>1, <3>2
  <2> QED
    BY <1>0, <1>3, <2>2, <2>3 DEF InsertAccount, ControlType
<1>4. CASE MoneyHandler(r)
  <2>1. PICK d \in Calls :
          /\ call' = [call EXCEPT ![r] = d]
          /\ Decide(r, IF d.amount <= 0 THEN "invalid_amount" ELSE "proceed",
                    "authorize")
    BY <1>4 DEF MoneyHandler
  <2>2. (IF d.amount <= 0 THEN "invalid_amount" ELSE "proceed")
          \in Replies \cup {"proceed"}
    BY DEF Replies, Refusals
  <2>3. ControlType'
    BY <1>t, <2>1, <2>2, DecideType DEF Labels
  <2> QED
    BY <1>0, <1>4, <2>1, <2>3 DEF MoneyHandler, ControlType, NoOverdraft
<1>5. CASE Authorize(r)
  <2>1. ControlType'
    BY <1>t, <1>v, <1>5, DecideType DEF Authorize, Labels
  <2> QED
    BY <1>0, <1>5, <2>1 DEF Authorize, ControlType, NoOverdraft
<1>6. CASE ReadAccount(r)
  <2>1. c.acct \in Accounts /\ account[c.acct] # NoRow
    BY <1>0, <1>6, <1>c, CallShape DEF ReadAccount, CallOK, RowsOK, Authorised
  <2>2. GetAccountByID(c.acct).balance \in Int
    BY <1>0, <2>1 DEF Row, GetAccountByID
  <2>3. ControlType'
    <3>1. CASE Finish(r, "insufficient_funds")
      BY <1>t, <3>1, FinishType DEF Replies, Refusals
    <3>2. CASE ~Finish(r, "insufficient_funds")
      <4>1. PICK label \in Labels :
              /\ seen' = [seen EXCEPT ![r].acct = GetAccountByID(c.acct).balance]
              /\ Goto(r, label)
        BY <1>6, <3>2 DEF ReadAccount, Labels
      <4> QED
        BY <1>t, <2>2, <4>1 DEF Goto, ControlType
    <3> QED
      BY <3>1, <3>2
  <2> QED
    BY <1>0, <1>6, <2>3 DEF ReadAccount, ControlType, NoOverdraft
<1>7. CASE ReadPeer(r)
  <2>1. c \in Calls /\ c.peer \in Accounts
    BY <1>0, <1>7, <1>c, CallShape DEF ReadPeer, CallOK
  <2>2. ControlType'
    <3>1. CASE TransferVerdict(c, seen[r].acct) = "proceed"
      <4>1. account[c.peer] # NoRow
        BY <3>1 DEF TransferVerdict
      <4>2. GetAccountByID(c.peer).balance \in Int
        BY <1>0, <2>1, <4>1 DEF Row, GetAccountByID
      <4> QED
        BY <1>7, <1>t, <3>1, <4>2 DEF ReadPeer, Goto, ControlType, Labels
    <3>2. CASE TransferVerdict(c, seen[r].acct) # "proceed"
      BY <1>7, <1>t, <1>v, <3>2, FinishType DEF ReadPeer
    <3> QED
      BY <3>1, <3>2
  <2> QED
    BY <1>0, <1>7, <2>2 DEF ReadPeer, ControlType, NoOverdraft
<1>8. CASE WriteAccount(r)
  <2>1. /\ c \in Calls /\ c.acct \in Accounts /\ account[c.acct] # NoRow
        /\ seen[r].acct + Delta(c) \in Nat
    BY <1>0, <1>8, <1>c, CallShape, ConstantsAssumption
       DEF WriteAccount, CallOK, SeenOK, RowsOK, Authorised, Delta, Balances
  <2>2. (IF c.op = "transfer" THEN "write_peer" ELSE "record") \in Labels
    BY DEF Labels
  <2>3. UpdateAccount(r, c.acct, seen[r].acct + Delta(c),
                      IF c.op = "transfer" THEN "write_peer" ELSE "record")
    BY <1>8 DEF WriteAccount
  <2>4. /\ ControlType' /\ NoOverdraft'
        /\ account' \in [Accounts -> Row \cup {NoRow}]
    BY <1>0, <1>t, <2>1, <2>2, <2>3, UpdateType
  <2> QED
    BY <1>0, <1>8, <2>4 DEF WriteAccount, ControlType
<1>9. CASE WritePeer(r)
  <2>1. /\ c \in Calls /\ c.peer \in Accounts /\ account[c.peer] # NoRow
        /\ seen[r].peer + c.amount \in Nat
    BY <1>0, <1>9, <1>c, CallShape, ConstantsAssumption
       DEF WritePeer, CallOK, SeenOK, RowsOK, Authorised, PeerRead, Balances
  <2>2. UpdateAccount(r, c.peer, seen[r].peer + c.amount, "record")
    BY <1>9 DEF WritePeer
  <2>3. /\ ControlType' /\ NoOverdraft'
        /\ account' \in [Accounts -> Row \cup {NoRow}]
    BY <1>0, <1>t, <2>1, <2>2, UpdateType DEF Labels
  <2> QED
    BY <1>0, <1>9, <2>3 DEF WritePeer, ControlType
<1>10. CASE RecordAccount(r)
  BY <1>0, <1>10, <1>c, CallShape DEF RecordAccount, CreateTransaction, AccountEntry,
     TransactionType, Goto, Labels, CallOK, Authorised, Delta, NoOverdraft
<1>11. CASE RecordPeer(r)
  BY <1>0, <1>11, <1>c, CallShape DEF RecordPeer, CreateTransaction, PeerEntry, Goto,
     Labels, CallOK, Authorised, NoOverdraft
<1>12. CASE Commit(r)
  BY <1>0, <1>12 DEF Commit, Finish, Labels, Replies, Unseen, NoOverdraft
<1>13. CASE Fail(r)
  BY <1>0, <1>13 DEF Fail, Finish, Labels, Replies, Unseen, NoOverdraft
<1> QED
  BY <1>1, <1>2, <1>3, <1>4, <1>5, <1>6, <1>7, <1>8, <1>9, <1>10, <1>11, <1>12, <1>13
     DEF Step

-----------------------------------------------------------------------------
(* No step deletes a row or changes its owner, number or currency: an      *)
(* account that was found stays found.                                     *)
RowsKept ==
  \A a \in Accounts : account[a] # NoRow =>
    /\ account'[a] # NoRow
    /\ account'[a].owner = account[a].owner
    /\ account'[a].number = account[a].number
    /\ account'[a].currency = account[a].currency

NoNewRows == \A a \in Accounts : account'[a] # NoRow => account[a] # NoRow

(* An UPDATE keeps the rows, and their owners, numbers and currencies. *)
LEMMA UpdateKeepsRows ==
  ASSUME TypeOK, NEW r \in Requests, NEW label, NEW v \in Int,
         NEW a \in Accounts, account[a] # NoRow, UpdateAccount(r, a, v, label)
  PROVE  RowsKept /\ NoNewRows
<1>1. CASE v <= MaxBalance
  <2>1. account' = [account EXCEPT ![a].balance = v]
    BY <1>1 DEF UpdateAccount
  <2>2. account[a] \in Row
    BY DEF TypeOK
  <2>3. [account[a] EXCEPT !.balance = v] \in Row
    BY <2>2 DEF Row
  <2>4. [account[a] EXCEPT !.balance = v] # NoRow
    BY <2>3, ConstantsAssumption
  <2> QED
    BY <2>1, <2>2, <2>4 DEF RowsKept, NoNewRows, TypeOK, Row
<1>2. CASE ~(v <= MaxBalance)
  BY <1>2 DEF UpdateAccount, RowsKept, NoNewRows
<1> QED
  BY <1>1, <1>2

(* So does every step; only one kind of step makes a row. *)
LEMMA StepKeepsRows ==
  ASSUME Inv, NEW r \in Requests, Step(r) \/ Fail(r)
  PROVE  RowsKept /\ (NoNewRows \/ InsertAccount(r))
<1> DEFINE c == call[r]
<1>0. TypeOK /\ CallOK(r) /\ SeenOK(r) /\ RowsOK(r)
  BY DEF Inv
<1>c. pc[r] # "new" => c \in Calls
  BY <1>0 DEF CallOK
<1>1. CASE UNCHANGED account
  BY <1>1 DEF RowsKept, NoNewRows
<1>2. CASE InsertAccount(r)
  BY <1>0, <1>2 DEF InsertAccount, RowsKept, TypeOK
<1>3. CASE WriteAccount(r)
  <2>1. /\ c.acct \in Accounts /\ account[c.acct] # NoRow
        /\ seen[r].acct + Delta(c) \in Int
    BY <1>0, <1>3, <1>c, CallShape
       DEF WriteAccount, CallOK, SeenOK, RowsOK, Authorised, Delta, TypeOK
  <2> QED
    BY <1>0, <1>3, <2>1, UpdateKeepsRows DEF WriteAccount
<1>4. CASE WritePeer(r)
  <2>1. /\ c.peer \in Accounts /\ account[c.peer] # NoRow
        /\ seen[r].peer + c.amount \in Int
    BY <1>0, <1>4, <1>c, CallShape
       DEF WritePeer, CallOK, SeenOK, RowsOK, Authorised, PeerRead, TypeOK
  <2> QED
    BY <1>0, <1>4, <2>1, UpdateKeepsRows DEF WritePeer
<1> QED
  BY <1>1, <1>2, <1>3, <1>4
     DEF Step, CreateAccountHandler, CheckNumber, MoneyHandler, Authorize, ReadAccount,
         ReadPeer, RecordAccount, RecordPeer, Commit, Fail
-----------------------------------------------------------------------------
(* A step of one request disturbs what holds of that request only.         *)

OwnOK(r) == CallOK(r) /\ SeenOK(r) /\ RowsOK(r)

(* Requests that do not move keep their invariant: rows are never lost.    *)
LEMMA OthersKept ==
  ASSUME Inv, RowsKept, NEW s \in Requests,
         pc'[s] = pc[s], call'[s] = call[s], seen'[s] = seen[s]
  PROVE  OwnOK(s)'
<1>1. CallOK(s) /\ SeenOK(s) /\ RowsOK(s)
  BY DEF Inv
<1>2. CallOK(s)' /\ SeenOK(s)'
  BY <1>1 DEF CallOK, SeenOK
<1>3. RowsOK(s)'
  <2>1. pc[s] \in Authorised => /\ call[s] \in Calls
                                /\ call[s].acct \in Accounts
    BY <1>1, CallShape DEF CallOK, Authorised
  <2>2. pc[s] \in PeerRead /\ call[s].op = "transfer" => call[s].peer \in Accounts
    BY <1>1, CallShape DEF CallOK, PeerRead
  <2> QED
    BY <1>1, <2>1, <2>2 DEF RowsOK, RowsKept
<1> QED
  BY <1>2, <1>3 DEF OwnOK

(* A request that has been answered works on nothing. *)
LEMMA DoneOK ==
  ASSUME NEW r \in Requests, pc'[r] = "done", call'[r] \in Calls
  PROVE  OwnOK(r)'
  BY DEF OwnOK, CallOK, SeenOK, RowsOK, Authorised, PeerRead

(* A step keeps the invariant of the request that takes it. *)
LEMMA StepOwn ==
  ASSUME Inv, NEW r \in Requests, Step(r) \/ Fail(r)
  PROVE  OwnOK(r)'
<1> DEFINE c == call[r]
<1>0. TypeOK /\ NoOverdraft /\ CallOK(r) /\ SeenOK(r) /\ RowsOK(r)
  BY DEF Inv
<1>c. pc[r] # "new" => c \in Calls
  BY <1>0 DEF CallOK
<1>d. ASSUME pc'[r] = "done", UNCHANGED call, pc[r] # "new"
      PROVE  OwnOK(r)'
  BY <1>c, <1>d, DoneOK
<1>k. RowsKept
  BY StepKeepsRows
<1> USE DEF TypeOK
<1>1. CASE CreateAccountHandler(r)
  BY <1>0, <1>1 DEF CreateAccountHandler, Decide, Goto, Finish, OwnOK, CallOK, SeenOK,
     RowsOK, Authorised, PeerRead
<1>2. CASE CheckNumber(r)
  BY <1>0, <1>2 DEF CheckNumber, Decide, Goto, Finish, OwnOK, CallOK, SeenOK,
     RowsOK, Authorised, PeerRead
<1>3. CASE InsertAccount(r)
  BY <1>0, <1>3, <1>d DEF InsertAccount, Finish
<1>4. CASE MoneyHandler(r)
  <2>1. PICK d \in Calls :
          /\ d.op # "create"
          /\ call' = [call EXCEPT ![r] = d]
          /\ Decide(r, IF d.amount <= 0 THEN "invalid_amount" ELSE "proceed",
                    "authorize")
    BY <1>4 DEF MoneyHandler
  <2>2. CASE d.amount <= 0
    BY <1>0, <2>1, <2>2, DoneOK DEF Decide, Finish
  <2>3. CASE ~(d.amount <= 0)
    <3>1. d.amount > 0
      BY <2>1, <2>3, CallShape
    <3> QED
      BY <1>0, <2>1, <2>3, <3>1 DEF Decide, Goto, OwnOK, CallOK, SeenOK, RowsOK,
         Authorised, PeerRead
  <2> QED
    BY <2>2, <2>3
<1>5. CASE Authorize(r)
  <2>1. CASE AccessVerdict(c) = "proceed"
    <3>1. pc'[r] = "read" /\ UNCHANGED <<account, call, seen>> /\ pc[r] = "authorize"
      BY <1>0, <1>5, <2>1 DEF Authorize, Decide, Goto
    <3>2. account[c.acct] # NoRow
      BY <2>1 DEF AccessVerdict
    <3> QED
      BY <1>0, <3>1, <3>2 DEF OwnOK, CallOK, SeenOK, RowsOK, Authorised, PeerRead
  <2>2. CASE AccessVerdict(c) # "proceed"
    BY <1>0, <1>5, <2>2, <1>d DEF Authorize, Decide, Finish
  <2> QED
    BY <2>1, <2>2
<1>6. CASE ReadAccount(r)
  <2>1. /\ c \in Calls /\ c.acct \in Accounts /\ account[c.acct] # NoRow
        /\ c.amount \in Int /\ c.amount > 0 /\ c.op # "create"
        /\ c.op \in {"deposit", "withdraw", "transfer"}
        /\ pc[r] = "read" /\ UNCHANGED <<account, call>>
    BY <1>0, <1>6, <1>c, CallShape DEF ReadAccount, CallOK, RowsOK, Authorised
  <2>2. GetAccountByID(c.acct).balance \in Balances
    BY <1>0, <2>1 DEF NoOverdraft, GetAccountByID
  <2>3. CASE Finish(r, "insufficient_funds")
    BY <1>0, <1>d, <2>1, <2>3 DEF Finish
  <2>4. CASE ~Finish(r, "insufficient_funds")
    <3>1. /\ seen' = [seen EXCEPT ![r].acct = GetAccountByID(c.acct).balance]
          /\ Goto(r, IF c.op = "transfer" THEN "read_peer" ELSE "write")
          /\ c.op = "withdraw" => ~(GetAccountByID(c.acct).balance < c.amount)
      BY <1>6, <2>4 DEF ReadAccount
    <3>2. /\ seen'[r].acct \in Balances
          /\ c.op = "withdraw" => c.amount <= seen'[r].acct
          /\ c.op = "transfer" => pc'[r] = "read_peer"
          /\ c.op # "transfer" => pc'[r] = "write"
      BY <1>0, <2>1, <2>2, <3>1, ConstantsAssumption DEF Goto, Balances
    <3> QED
      BY <2>1, <3>2 DEF OwnOK, CallOK, SeenOK, RowsOK, Authorised, PeerRead
  <2> QED
    BY <2>3, <2>4
<1>7. CASE ReadPeer(r)
  <2>1. /\ c \in Calls /\ c.peer \in Accounts /\ account[c.acct] # NoRow
        /\ c.amount \in Int /\ c.amount > 0 /\ c.op = "transfer"
        /\ pc[r] = "read_peer" /\ seen[r].acct \in Balances
        /\ UNCHANGED <<account, call>>
    BY <1>0, <1>7, <1>c, CallShape DEF ReadPeer, CallOK, SeenOK, RowsOK, Authorised
  <2>2. CASE TransferVerdict(c, seen[r].acct) = "proceed"
    <3>1. account[c.peer] # NoRow /\ ~(seen[r].acct < c.amount)
      BY <2>2 DEF TransferVerdict
    <3>2. GetAccountByID(c.peer).balance \in Balances
      BY <1>0, <2>1, <3>1 DEF NoOverdraft, GetAccountByID
    <3>3. /\ seen' = [seen EXCEPT ![r].peer = GetAccountByID(c.peer).balance]
          /\ Goto(r, "write")
      BY <1>7, <2>2 DEF ReadPeer
    <3>4. /\ pc'[r] = "write" /\ seen'[r].peer \in Balances
          /\ seen'[r].acct = seen[r].acct /\ c.amount <= seen[r].acct
      BY <1>0, <2>1, <3>1, <3>2, <3>3, ConstantsAssumption DEF Goto, Balances
    <3> QED
      BY <2>1, <3>1, <3>4 DEF OwnOK, CallOK, SeenOK, RowsOK, Authorised, PeerRead
  <2>3. CASE TransferVerdict(c, seen[r].acct) # "proceed"
    BY <1>0, <1>7, <2>1, <2>3, <1>d DEF ReadPeer, Finish
  <2> QED
    BY <2>2, <2>3
<1>8. CASE WriteAccount(r)
  <2>1. c \in Calls /\ pc[r] = "write" /\ UNCHANGED call
    BY <1>8, <1>c DEF WriteAccount
  <2>2. CASE pc'[r] = "done"
    BY <1>d, <2>1, <2>2
  <2>3. CASE pc'[r] # "done"
    <3>1. /\ UNCHANGED seen
          /\ c.op = "transfer" => pc'[r] = "write_peer"
          /\ c.op # "transfer" => pc'[r] = "record"
      BY <1>0, <1>8, <2>3 DEF WriteAccount, UpdateAccount, Goto, Finish
    <3>2. CallOK(r)' /\ SeenOK(r)'
      BY <1>0, <2>1, <3>1 DEF CallOK, SeenOK, Authorised
    <3>3. /\ c.acct \in Accounts /\ account[c.acct] # NoRow
          /\ c.op = "transfer" => c.peer \in Accounts /\ account[c.peer] # NoRow
      BY <1>0, <2>1, CallShape DEF CallOK, RowsOK, Authorised, PeerRead
    <3>4. RowsOK(r)'
      BY <1>k, <2>1, <3>1, <3>3 DEF RowsOK, RowsKept, Authorised, PeerRead
    <3> QED
      BY <3>2, <3>4 DEF OwnOK
  <2> QED
    BY <2>2, <2>3
<1>9. CASE WritePeer(r)
  <2>1. c \in Calls /\ pc[r] = "write_peer" /\ UNCHANGED call
    BY <1>9, <1>c DEF WritePeer
  <2>2. CASE pc'[r] = "done"
    BY <1>d, <2>1, <2>2
  <2>3. CASE pc'[r] # "done"
    <3>1. pc'[r] = "record"
      BY <1>0, <1>9, <2>3 DEF WritePeer, UpdateAccount, Goto, Finish
    <3>2. CallOK(r)' /\ SeenOK(r)'
      BY <1>0, <2>1, <3>1 DEF CallOK, SeenOK, Authorised
    <3>3. /\ c.acct \in Accounts /\ account[c.acct] # NoRow
          /\ c.op = "transfer" => c.peer \in Accounts /\ account[c.peer] # NoRow
      BY <1>0, <2>1, CallShape DEF CallOK, RowsOK, Authorised, PeerRead
    <3>4. RowsOK(r)'
      BY <1>k, <2>1, <3>1, <3>3 DEF RowsOK, RowsKept, Authorised, PeerRead
    <3> QED
      BY <3>2, <3>4 DEF OwnOK
  <2> QED
    BY <2>2, <2>3
<1>10. CASE RecordAccount(r)
  BY <1>0, <1>10 DEF RecordAccount, Goto, OwnOK, CallOK, SeenOK, RowsOK, Authorised, PeerRead
<1>11. CASE RecordPeer(r)
  BY <1>0, <1>11 DEF RecordPeer, Goto, OwnOK, CallOK, SeenOK, RowsOK, Authorised, PeerRead
<1>12. CASE Commit(r)
  BY <1>0, <1>12, <1>d DEF Commit, Finish
<1>13. CASE Fail(r)
  BY <1>0, <1>13, <1>d DEF Fail, Finish, InFlight
<1> QED
  BY <1>1, <1>2, <1>3, <1>4, <1>5, <1>6, <1>7, <1>8, <1>9, <1>10, <1>11, <1>12, <1>13
     DEF Step
-----------------------------------------------------------------------------
(* The invariant holds initially and is preserved by every step.           *)

(* The invariant holds at the start. *)
LEMMA InitInv == Init => Inv
<1> SUFFICES ASSUME Init PROVE Inv
  OBVIOUS
<1>1. ledger \subseteq [req : Requests \cup {None}, acct : Accounts,
                        type : {"deposit", "withdrawal", "transfer_out", "transfer_in"},
                        amount : Int, related : Accounts \cup {None}]
  <2>1. \A a \in Accounts : Opening[a] # NoRow => Opening[a].balance \in Int
    BY OpeningAssumption DEF Row
  <2> QED
    BY <2>1 DEF Init
<1>2. TypeOK
  BY <1>1, OpeningAssumption DEF Init, TypeOK, Labels, Replies, Unseen
<1>3. NoOverdraft
  BY OpeningAssumption DEF Init, NoOverdraft
<1>4. \A r \in Requests : CallOK(r) /\ SeenOK(r) /\ RowsOK(r)
  BY DEF Init, CallOK, SeenOK, RowsOK, Authorised, PeerRead
<1> QED
  BY <1>2, <1>3, <1>4 DEF Inv

(* A step of a request keeps the invariant of all of them. *)
LEMMA StepInv ==
  ASSUME Inv, NEW r \in Requests, Step(r) \/ Fail(r)
  PROVE  Inv'
<1>1. TypeOK' /\ NoOverdraft'
  BY StepType
<1>2. ASSUME NEW s \in Requests
      PROVE  OwnOK(s)'
  <2>1. CASE s = r
    BY <2>1, StepOwn
  <2>2. CASE s # r
    <3>1. pc'[s] = pc[s] /\ call'[s] = call[s] /\ seen'[s] = seen[s]
      BY <2>2 DEF Inv, TypeOK, Step, Fail, CreateAccountHandler, CheckNumber,
         InsertAccount, MoneyHandler, Authorize, ReadAccount, ReadPeer, WriteAccount,
         WritePeer, RecordAccount, RecordPeer, Commit, Decide, UpdateAccount, Goto, Finish
    <3> QED
      BY <3>1, StepKeepsRows, OthersKept
  <2> QED
    BY <2>1, <2>2
<1> QED
  BY <1>1, <1>2 DEF Inv, OwnOK

(* A crash keeps the invariant. *)
LEMMA CrashInv ==
  ASSUME Inv, Crash
  PROVE  Inv'
<1>1. TypeOK'
  BY DEF Inv, Crash, TypeOK, Labels, Replies, Unseen
<1>2. NoOverdraft'
  BY DEF Inv, Crash, NoOverdraft
<1>3. ASSUME NEW s \in Requests
      PROVE  OwnOK(s)'
  <2>1. CASE InFlight(s)
    BY <1>3, <2>1, DoneOK DEF Inv, CallOK, Crash, InFlight
  <2>2. CASE ~InFlight(s)
    BY <1>3, <2>2 DEF Inv, Crash, InFlight, OwnOK, CallOK, SeenOK, RowsOK, Authorised,
       PeerRead
  <2> QED
    BY <2>1, <2>2
<1> QED
  BY <1>1, <1>2, <1>3 DEF Inv, OwnOK

(* The invariant is inductive. *)
LEMMA NextInv == Inv /\ [Next]_vars => Inv'
<1> SUFFICES ASSUME Inv, [Next]_vars PROVE Inv'
  OBVIOUS
<1>1. CASE UNCHANGED vars
  BY <1>1 DEF vars, Inv, TypeOK, NoOverdraft, CallOK, SeenOK, RowsOK
<1>2. CASE Crash
  BY <1>2, CrashInv
<1>3. CASE \E r \in Requests : Step(r) \/ Fail(r)
  BY <1>3, StepInv
<1> QED
  BY <1>1, <1>2, <1>3 DEF Next, Idle

(* Every state holds rows, calls, labels and answers of the right kind;    *)
(* in particular no request ever writes to an account without a row.       *)
THEOREM TypeCorrect == Spec => []TypeOK
<1>1. Inv => TypeOK
  BY DEF Inv
<1> QED
  BY <1>1, InitInv, NextInv, PTL DEF Spec

(* No interleaving of requests, no failed statement and no crash ever      *)
(* leaves a balance that is negative or outside its column.                *)
THEOREM NoOverdraftHolds == Spec => []NoOverdraft
<1>1. Inv => NoOverdraft
  BY DEF Inv
<1> QED
  BY <1>1, InitInv, NextInv, PTL DEF Spec
-----------------------------------------------------------------------------
(* Account numbers.                                                        *)

(* A number is only given to a new row if no row has it. *)
LEMMA NumbersStep ==
  ASSUME Inv, NumbersUnique, [Next]_vars
  PROVE  NumbersUnique'
<1>1. ASSUME RowsKept, NoNewRows
      PROVE  NumbersUnique'
  BY <1>1 DEF NumbersUnique, RowsKept, NoNewRows
<1>2. ASSUME NEW r \in Requests, InsertAccount(r)
      PROVE  NumbersUnique'
  <2>1. CASE NumberTaken(call[r].number)
    BY <1>2, <2>1 DEF InsertAccount, NumbersUnique
  <2>2. CASE ~NumberTaken(call[r].number)
    <3>1. PICK a \in Accounts :
            account' = [account EXCEPT ![a] =
              [owner |-> call[r].user, number |-> call[r].number,
               currency |-> call[r].currency, balance |-> 0]]
      BY <1>2, <2>2 DEF InsertAccount
    <3> QED
      BY <2>2, <3>1 DEF NumbersUnique, NumberTaken, Inv, TypeOK
  <2> QED
    BY <2>1, <2>2
<1>3. CASE UNCHANGED account
  BY <1>3 DEF NumbersUnique
<1>4. CASE \E r \in Requests : Step(r) \/ Fail(r)
  BY <1>1, <1>2, <1>4, StepKeepsRows
<1> QED
  BY <1>3, <1>4 DEF Next, Crash, Idle, vars

(* No interleaving of requests that open accounts under the same number    *)
(* gives two accounts that number.                                         *)
THEOREM NumbersUniqueHolds == Spec => []NumbersUnique
<1>1. Init => NumbersUnique
  BY OpeningAssumption DEF Init, NumbersUnique
<1>2. Inv /\ NumbersUnique /\ [Next]_vars => (Inv /\ NumbersUnique)'
  BY NumbersStep, NextInv
<1> QED
  BY <1>1, <1>2, InitInv, PTL DEF Spec

-----------------------------------------------------------------------------
(* The transactions table.                                                 *)

(* The caller owns the account, and a destination in another currency has  *)
(* been turned down.                                                       *)
Granted(r) ==
  LET c == call[r]
  IN  /\ c \in Calls
      /\ c.op # "create"
      /\ c.amount > 0
      /\ account[c.acct] # NoRow
      /\ account[c.acct].owner = c.user

PeerGranted(r) ==
  LET c == call[r]
  IN  c.op = "transfer" => /\ account[c.peer] # NoRow
                           /\ account[c.peer].currency = account[c.acct].currency

GrantedOK(r) ==
  /\ pc[r] \in Authorised => Granted(r)
  /\ pc[r] \in PeerRead => PeerGranted(r)
  /\ EntriesOf(r) # {} => Granted(r) /\ PeerGranted(r)

(* The rows of request r are a prefix of the rows of its operation, as     *)
(* long as its label says, and its answer agrees with them.                *)
EntriesOK(r) ==
  /\ pc[r] \notin {"record_peer", "commit", "done"} => EntriesOf(r) = {}
  /\ pc[r] = "record_peer" => EntriesOf(r) = {AccountEntry(r, call[r])}
  /\ pc[r] = "commit" => EntriesOf(r) = ExpectedEntries(r)
  /\ \/ EntriesOf(r) = {}
     \/ EntriesOf(r) = {AccountEntry(r, call[r])}
     \/ EntriesOf(r) = ExpectedEntries(r)
  /\ pc[r] # "done" => reply[r] = "none"
  /\ reply[r] = "ok" => EntriesOf(r) = ExpectedEntries(r)
  /\ reply[r] \in Refusals => EntriesOf(r) = {}

(* Rows of earlier requests are deposits. *)
OpeningEntriesOK ==
  \A row \in ledger : row.req \notin Requests => /\ row.type = "deposit"
                                                 /\ row.amount > 0

LedgerInv ==
  /\ Inv
  /\ OpeningEntriesOK
  /\ \A r \in Requests : GrantedOK(r) /\ EntriesOK(r)
(* The rows of an operation. *)
LEMMA EntryShape ==
  ASSUME NEW r \in Requests, NEW c \in Calls, c.op # "create"
  PROVE  /\ AccountEntry(r, c).req = r
         /\ PeerEntry(r, c).req = r
         /\ AccountEntry(r, c).type # "transfer_in"
         /\ c.op = "transfer" => AccountEntry(r, c).type = "transfer_out"
  BY DEF AccountEntry, PeerEntry, TransactionType

(* A row is added to the rows of its request and to no others. *)
LEMMA EntriesAdded ==
  ASSUME NEW r \in Requests, NEW row, row.req = r, CreateTransaction(row)
  PROVE  /\ EntriesOf(r)' = EntriesOf(r) \cup {row}
         /\ \A s \in Requests \ {r} : EntriesOf(s)' = EntriesOf(s)
         /\ OpeningEntriesOK => OpeningEntriesOK'
<1>1. ledger' = ledger \cup {row}
  BY DEF CreateTransaction
<1>2. EntriesOf(r)' = EntriesOf(r) \cup {row}
  BY <1>1 DEF EntriesOf
<1>3. \A s \in Requests \ {r} : EntriesOf(s)' = EntriesOf(s)
  BY <1>1 DEF EntriesOf
<1>4. OpeningEntriesOK => OpeningEntriesOK'
  BY <1>1 DEF OpeningEntriesOK
<1> QED
  BY <1>2, <1>3, <1>4

(* What a request has been granted is not taken back. *)
LEMMA GrantsKept ==
  ASSUME RowsKept, NEW s \in Requests, call'[s] = call[s], Granted(s)
  PROVE  /\ Granted(s)'
         /\ PeerGranted(s) => PeerGranted(s)'
<1>1. /\ call[s].acct \in Accounts
      /\ call[s].op = "transfer" => call[s].peer \in Accounts
  BY CallShape DEF Granted
<1> QED
  BY <1>1 DEF Granted, PeerGranted, RowsKept

(* Requests that do not move keep what holds of their rows. *)
LEMMA LedgerOthersKept ==
  ASSUME LedgerInv, RowsKept, NEW s \in Requests, EntriesOf(s)' = EntriesOf(s),
         pc'[s] = pc[s], call'[s] = call[s], reply'[s] = reply[s]
  PROVE  GrantedOK(s)' /\ EntriesOK(s)'
<1>0. GrantedOK(s) /\ EntriesOK(s)
  BY DEF LedgerInv
<1>1. EntriesOK(s)'
  BY <1>0 DEF EntriesOK, ExpectedEntries, AccountEntry, PeerEntry, Delta
<1>2. PeerRead \subseteq Authorised
  BY DEF PeerRead, Authorised
<1>3. Granted(s) => /\ Granted(s)'
                    /\ PeerGranted(s) => PeerGranted(s)'
  BY GrantsKept
<1>4. GrantedOK(s)'
  BY <1>0, <1>2, <1>3 DEF GrantedOK
<1> QED
  BY <1>1, <1>4

(* An answer that agrees with the rows of the request. *)
LEMMA AnsweredOK ==
  ASSUME LedgerInv, RowsKept, NEW r \in Requests,
         pc'[r] = "done", call'[r] = call[r], EntriesOf(r)' = EntriesOf(r),
         reply'[r] = "ok" => EntriesOf(r) = ExpectedEntries(r),
         reply'[r] \in Refusals => EntriesOf(r) = {}
  PROVE  GrantedOK(r)' /\ EntriesOK(r)'
<1>0. GrantedOK(r) /\ EntriesOK(r)
  BY DEF LedgerInv
<1>1. EntriesOK(r)'
  BY <1>0 DEF EntriesOK, ExpectedEntries, AccountEntry, PeerEntry, Delta
<1>2. pc'[r] \notin Authorised /\ pc'[r] \notin PeerRead
  BY DEF Authorised, PeerRead
<1>3. Granted(r) => /\ Granted(r)'
                    /\ PeerGranted(r) => PeerGranted(r)'
  BY GrantsKept
<1>4. GrantedOK(r)'
  BY <1>0, <1>2, <1>3 DEF GrantedOK
<1> QED
  BY <1>1, <1>4

(* A request that goes on without recording anything. *)
LEMMA GoesOnOK ==
  ASSUME LedgerInv, RowsKept, NEW r \in Requests,
         pc[r] \notin {"record_peer", "commit", "done"},
         pc'[r] \notin {"record_peer", "commit", "done"},
         call'[r] = call[r], EntriesOf(r)' = EntriesOf(r), reply'[r] = reply[r],
         pc'[r] \in Authorised => Granted(r)',
         pc'[r] \in PeerRead => PeerGranted(r)'
  PROVE  GrantedOK(r)' /\ EntriesOK(r)'
<1>0. EntriesOf(r) = {} /\ reply[r] = "none"
  BY DEF LedgerInv, EntriesOK
<1>1. EntriesOK(r)'
  BY <1>0 DEF EntriesOK, Refusals
<1>2. GrantedOK(r)'
  BY <1>0 DEF GrantedOK
<1> QED
  BY <1>1, <1>2
(* A request that has recorded nothing and is not yet authorised, or is    *)
(* answered without success.                                               *)
LEMMA EmptyOK ==
  ASSUME NEW r \in Requests, EntriesOf(r)' = {}, reply'[r] # "ok",
         pc'[r] \in Labels, pc'[r] \notin Authorised,
         pc'[r] # "done" => reply'[r] = "none"
  PROVE  GrantedOK(r)' /\ EntriesOK(r)'
<1>1. pc'[r] \notin PeerRead /\ pc'[r] \notin {"record_peer", "commit"}
  BY DEF Authorised, PeerRead
<1> QED
  BY <1>1 DEF GrantedOK, EntriesOK

(* A step keeps what holds of the rows of the request that takes it. *)
LEMMA StepLedger ==
  ASSUME LedgerInv, NEW r \in Requests, Step(r) \/ Fail(r)
  PROVE  GrantedOK(r)' /\ EntriesOK(r)'
<1> DEFINE c == call[r]
<1>0. /\ TypeOK /\ CallOK(r) /\ SeenOK(r) /\ RowsOK(r)
      /\ GrantedOK(r) /\ EntriesOK(r) /\ Inv
  BY DEF LedgerInv, Inv
<1>c. pc[r] # "new" => c \in Calls
  BY <1>0 DEF CallOK
<1>k. RowsKept
  BY <1>0, StepKeepsRows
<1>e. UNCHANGED ledger => EntriesOf(r)' = EntriesOf(r)
  BY DEF EntriesOf
<1>r. "ok" \notin Refusals /\ "none" \notin Refusals /\ "error" \notin Refusals
  BY DEF Refusals
<1> USE DEF TypeOK
<1>1. CASE CreateAccountHandler(r)
  <2>1. EntriesOf(r)' = {}
    BY <1>0, <1>1, <1>e DEF CreateAccountHandler, EntriesOK
  <2>2. /\ reply'[r] # "ok" /\ pc'[r] \in {"check_number", "done"}
        /\ pc'[r] # "done" => reply'[r] = "none"
    BY <1>0, <1>1 DEF CreateAccountHandler, Decide, Goto, Finish, EntriesOK
  <2> QED
    BY <2>1, <2>2, EmptyOK DEF Labels, Authorised
<1>2. CASE CheckNumber(r)
  <2>1. EntriesOf(r)' = {}
    BY <1>0, <1>2, <1>e DEF CheckNumber, EntriesOK
  <2>2. /\ reply'[r] # "ok" /\ pc'[r] \in {"insert", "done"}
        /\ pc'[r] # "done" => reply'[r] = "none"
    BY <1>0, <1>2 DEF CheckNumber, Decide, Goto, Finish, EntriesOK
  <2> QED
    BY <2>1, <2>2, EmptyOK DEF Labels, Authorised
<1>3. CASE InsertAccount(r)
  <2>1. /\ EntriesOf(r)' = EntriesOf(r) /\ EntriesOf(r) = {}
        /\ ExpectedEntries(r) = {}
    BY <1>0, <1>3, <1>e DEF InsertAccount, EntriesOK, CallOK, ExpectedEntries
  <2>2. pc'[r] = "done" /\ reply'[r] \in {"ok", "error"} /\ call' = call
    BY <1>0, <1>3 DEF InsertAccount, Finish
  <2> QED
    BY <1>k, <1>r, <2>1, <2>2, AnsweredOK
<1>4. CASE MoneyHandler(r)
  <2>1. EntriesOf(r)' = {}
    BY <1>0, <1>4, <1>e DEF MoneyHandler, EntriesOK
  <2>2. /\ reply'[r] # "ok" /\ pc'[r] \in {"authorize", "done"}
        /\ pc'[r] # "done" => reply'[r] = "none"
    BY <1>0, <1>4 DEF MoneyHandler, Decide, Goto, Finish, EntriesOK
  <2> QED
    BY <2>1, <2>2, EmptyOK DEF Labels, Authorised
<1>5. CASE Authorize(r)
  <2>1. EntriesOf(r)' = {}
    BY <1>0, <1>5, <1>e DEF Authorize, EntriesOK
  <2>2. CASE AccessVerdict(c) = "proceed"
    <3>1. /\ pc[r] = "authorize" /\ pc'[r] = "read"
          /\ call' = call /\ account' = account /\ reply' = reply
      BY <1>0, <1>5, <2>2 DEF Authorize, Decide, Goto
    <3>2. Granted(r)
      BY <1>0, <1>c, <2>2, <3>1 DEF AccessVerdict, Granted, CallOK
    <3>3. Granted(r)'
      BY <1>k, <3>1, <3>2, GrantsKept
    <3> QED
      BY <1>0, <1>k, <2>1, <3>1, <3>3, GoesOnOK DEF EntriesOK, PeerRead
  <2>3. CASE AccessVerdict(c) # "proceed"
    <3>1. pc'[r] = "done" /\ reply'[r] = AccessVerdict(c)
      BY <1>0, <1>5, <2>3 DEF Authorize, Decide, Finish
    <3> QED
      BY <1>r, <2>1, <2>3, <3>1, VerdictType, EmptyOK DEF Labels, Authorised
  <2> QED
    BY <2>2, <2>3
<1>6. CASE ReadAccount(r)
  <2>1. /\ EntriesOf(r)' = EntriesOf(r) /\ EntriesOf(r) = {} /\ pc[r] = "read"
        /\ call' = call /\ Granted(r)
    BY <1>0, <1>6, <1>e DEF ReadAccount, EntriesOK, GrantedOK, Authorised
  <2>2. CASE Finish(r, "insufficient_funds")
    BY <1>0, <2>1, <2>2, EmptyOK DEF Finish, Labels, Authorised
  <2>3. CASE ~Finish(r, "insufficient_funds")
    <3>1. /\ pc'[r] = IF c.op = "transfer" THEN "read_peer" ELSE "write"
          /\ reply' = reply
      BY <1>0, <1>6, <2>3 DEF ReadAccount, Goto
    <3>2. Granted(r)' /\ (pc'[r] \in PeerRead => PeerGranted(r)')
      BY <1>k, <2>1, <3>1, GrantsKept DEF PeerGranted, PeerRead
    <3> QED
      BY <1>k, <2>1, <3>1, <3>2, GoesOnOK
  <2> QED
    BY <2>2, <2>3
<1>7. CASE ReadPeer(r)
  <2>1. /\ EntriesOf(r)' = EntriesOf(r) /\ EntriesOf(r) = {} /\ pc[r] = "read_peer"
        /\ call' = call /\ Granted(r)
    BY <1>0, <1>7, <1>e DEF ReadPeer, EntriesOK, GrantedOK, Authorised
  <2>2. CASE TransferVerdict(c, seen[r].acct) = "proceed"
    <3>1. pc'[r] = "write" /\ reply' = reply
      BY <1>0, <1>7, <2>2 DEF ReadPeer, Goto
    <3>2. PeerGranted(r)
      BY <2>2 DEF TransferVerdict, PeerGranted
    <3>3. Granted(r)' /\ PeerGranted(r)'
      BY <1>k, <2>1, <3>2, GrantsKept
    <3> QED
      BY <1>k, <2>1, <3>1, <3>3, GoesOnOK
  <2>3. CASE TransferVerdict(c, seen[r].acct) # "proceed"
    <3>1. pc'[r] = "done" /\ reply'[r] = TransferVerdict(c, seen[r].acct)
      BY <1>0, <1>7, <2>3 DEF ReadPeer, Finish
    <3> QED
      BY <1>r, <2>1, <2>3, <3>1, VerdictType, EmptyOK DEF Labels, Authorised
  <2> QED
    BY <2>2, <2>3
<1>8. CASE WriteAccount(r)
  <2>1. /\ EntriesOf(r)' = EntriesOf(r) /\ EntriesOf(r) = {} /\ pc[r] = "write"
        /\ call' = call /\ Granted(r) /\ PeerGranted(r)
    BY <1>0, <1>8, <1>e DEF WriteAccount, EntriesOK, GrantedOK, Authorised, PeerRead
  <2>2. \/ pc'[r] \in {"write_peer", "record"} /\ reply' = reply
        \/ pc'[r] = "done" /\ reply'[r] = "error"
    BY <1>0, <1>8 DEF WriteAccount, UpdateAccount, Goto, Finish
  <2>3. Granted(r)' /\ PeerGranted(r)'
    BY <1>k, <2>1, GrantsKept
  <2> QED
    BY <1>k, <1>r, <2>1, <2>2, <2>3, GoesOnOK, AnsweredOK
<1>9. CASE WritePeer(r)
  <2>1. /\ EntriesOf(r)' = EntriesOf(r) /\ EntriesOf(r) = {} /\ pc[r] = "write_peer"
        /\ call' = call /\ Granted(r) /\ PeerGranted(r)
    BY <1>0, <1>9, <1>e DEF WritePeer, EntriesOK, GrantedOK, Authorised, PeerRead
  <2>2. \/ pc'[r] = "record" /\ reply' = reply
        \/ pc'[r] = "done" /\ reply'[r] = "error"
    BY <1>0, <1>9 DEF WritePeer, UpdateAccount, Goto, Finish
  <2>3. Granted(r)' /\ PeerGranted(r)'
    BY <1>k, <2>1, GrantsKept
  <2> QED
    BY <1>k, <1>r, <2>1, <2>2, <2>3, GoesOnOK, AnsweredOK
<1>10. CASE RecordAccount(r)
  <2>1. /\ pc[r] = "record" /\ EntriesOf(r) = {} /\ Granted(r) /\ PeerGranted(r)
        /\ call' = call /\ reply' = reply /\ reply[r] = "none"
        /\ pc'[r] = IF c.op = "transfer" THEN "record_peer" ELSE "commit"
        /\ CreateTransaction(AccountEntry(r, c))
    BY <1>0, <1>10 DEF RecordAccount, Goto, EntriesOK, GrantedOK, Authorised, PeerRead
  <2>2. c \in Calls /\ c.op # "create"
    BY <2>1 DEF Granted
  <2>3. EntriesOf(r)' = {AccountEntry(r, c)}
    BY <2>1, <2>2, EntryShape, EntriesAdded
  <2>4. AccountEntry(r, c)' = AccountEntry(r, c) /\ call'[r] = c
    BY <2>1 DEF AccountEntry, Delta
  <2>5. c.op # "transfer" => ExpectedEntries(r)' = {AccountEntry(r, c)}
    BY <2>2, <2>4, CallShape DEF ExpectedEntries
  <2>6. Granted(r)' /\ PeerGranted(r)'
    BY <1>k, <2>1, GrantsKept
  <2> QED
    BY <1>r, <2>1, <2>3, <2>4, <2>5, <2>6 DEF GrantedOK, EntriesOK
<1>11. CASE RecordPeer(r)
  <2>1. /\ pc[r] = "record_peer" /\ EntriesOf(r) = {AccountEntry(r, c)}
        /\ Granted(r) /\ PeerGranted(r) /\ c.op = "transfer"
        /\ call' = call /\ reply' = reply /\ reply[r] = "none" /\ pc'[r] = "commit"
        /\ CreateTransaction(PeerEntry(r, c))
    BY <1>0, <1>11 DEF RecordPeer, Goto, EntriesOK, GrantedOK, Authorised, PeerRead, CallOK
  <2>2. c \in Calls /\ c.op # "create"
    BY <2>1 DEF Granted
  <2>3. EntriesOf(r)' = {AccountEntry(r, c), PeerEntry(r, c)}
    BY <2>1, <2>2, EntryShape, EntriesAdded
  <2>4. ExpectedEntries(r) = {AccountEntry(r, c), PeerEntry(r, c)}
    BY <2>1, <2>2, CallShape DEF ExpectedEntries
  <2>5. ExpectedEntries(r)' = ExpectedEntries(r)
    BY <2>1 DEF ExpectedEntries, AccountEntry, PeerEntry, Delta
  <2>6. Granted(r)' /\ PeerGranted(r)'
    BY <1>k, <2>1, GrantsKept
  <2> QED
    BY <1>r, <2>1, <2>3, <2>4, <2>5, <2>6 DEF GrantedOK, EntriesOK
<1>12. CASE Commit(r)
  <2>1. /\ EntriesOf(r)' = EntriesOf(r) /\ EntriesOf(r) = ExpectedEntries(r)
        /\ pc'[r] = "done" /\ reply'[r] = "ok" /\ call' = call
    BY <1>0, <1>12, <1>e DEF Commit, Finish, EntriesOK
  <2> QED
    BY <1>k, <1>r, <2>1, AnsweredOK
<1>13. CASE Fail(r)
  <2>1. /\ EntriesOf(r)' = EntriesOf(r)
        /\ pc'[r] = "done" /\ reply'[r] = "error" /\ call' = call
    BY <1>0, <1>13, <1>e DEF Fail, Finish
  <2> QED
    BY <1>k, <1>r, <2>1, AnsweredOK
<1> QED
  BY <1>1, <1>2, <1>3, <1>4, <1>5, <1>6, <1>7, <1>8, <1>9, <1>10, <1>11, <1>12, <1>13
     DEF Step
(* At the start no request has recorded anything. *)
LEMMA InitLedger == Init => LedgerInv
<1> SUFFICES ASSUME Init PROVE LedgerInv
  OBVIOUS
<1>1. \A row \in ledger : row.req = None /\ row.type = "deposit" /\ row.amount > 0
  <2>1. \A a \in Accounts : Opening[a] # NoRow => Opening[a].balance \in Int
    BY OpeningAssumption DEF Row
  <2> QED
    BY <2>1 DEF Init
<1>2. None \notin Requests
  BY ConstantsAssumption
<1>3. \A r \in Requests : EntriesOf(r) = {}
  BY <1>1, <1>2 DEF EntriesOf
<1>4. \A r \in Requests : GrantedOK(r) /\ EntriesOK(r)
  BY <1>3 DEF Init, GrantedOK, EntriesOK, Authorised, PeerRead, Refusals
<1> QED
  BY <1>1, <1>4, InitInv DEF LedgerInv, OpeningEntriesOK

(* A step of request r writes rows of r only. *)
LEMMA StepAddsOwn ==
  ASSUME LedgerInv, NEW r \in Requests, Step(r) \/ Fail(r)
  PROVE  /\ OpeningEntriesOK'
         /\ \A s \in Requests \ {r} : EntriesOf(s)' = EntriesOf(s)
<1>1. CASE UNCHANGED ledger
  BY <1>1 DEF LedgerInv, OpeningEntriesOK, EntriesOf
<1>2. pc[r] # "new" => call[r] \in Calls
  BY DEF LedgerInv, Inv, CallOK
<1>3. pc[r] \in Authorised => call[r].op # "create"
  BY DEF LedgerInv, Inv, CallOK
<1>4. CASE RecordAccount(r)
  BY <1>2, <1>3, <1>4, EntryShape, EntriesAdded DEF RecordAccount, Authorised, LedgerInv
<1>5. CASE RecordPeer(r)
  BY <1>2, <1>3, <1>5, EntryShape, EntriesAdded DEF RecordPeer, Authorised, LedgerInv
<1> QED
  BY <1>1, <1>4, <1>5
     DEF Step, CreateAccountHandler, CheckNumber, InsertAccount, MoneyHandler, Authorize,
         ReadAccount, ReadPeer, WriteAccount, WritePeer, Commit, Fail

(* A step of a request keeps the invariant of the rows. *)
LEMMA StepLedgerInv ==
  ASSUME LedgerInv, NEW r \in Requests, Step(r) \/ Fail(r)
  PROVE  LedgerInv'
<1>1. Inv /\ Inv' /\ RowsKept
  BY StepInv, StepKeepsRows DEF LedgerInv
<1>2. ASSUME NEW s \in Requests
      PROVE  GrantedOK(s)' /\ EntriesOK(s)'
  <2>1. CASE s = r
    BY <2>1, StepLedger
  <2>2. CASE s # r
    <3>1. pc'[s] = pc[s] /\ call'[s] = call[s] /\ reply'[s] = reply[s]
      BY <1>1, <2>2 DEF Inv, TypeOK, Step, Fail, CreateAccountHandler, CheckNumber,
         InsertAccount, MoneyHandler, Authorize, ReadAccount, ReadPeer, WriteAccount,
         WritePeer, RecordAccount, RecordPeer, Commit, Decide, UpdateAccount, Goto, Finish
    <3>2. EntriesOf(s)' = EntriesOf(s)
      BY <2>2, StepAddsOwn
    <3> QED
      BY <1>1, <3>1, <3>2, LedgerOthersKept
  <2> QED
    BY <2>1, <2>2
<1> QED
  BY <1>1, <1>2, StepAddsOwn DEF LedgerInv

(* So does a crash. *)
LEMMA CrashLedgerInv ==
  ASSUME LedgerInv, Crash
  PROVE  LedgerInv'
<1>1. Inv'
  BY CrashInv DEF LedgerInv
<1>2. OpeningEntriesOK'
  BY DEF LedgerInv, OpeningEntriesOK, Crash
<1>3. ASSUME NEW s \in Requests
      PROVE  GrantedOK(s)' /\ EntriesOK(s)'
  <2>1. RowsKept /\ EntriesOf(s)' = EntriesOf(s) /\ call' = call
    BY DEF Crash, RowsKept, EntriesOf
  <2>2. CASE InFlight(s)
    <3>1. pc'[s] = "done" /\ reply'[s] = "error"
      BY <2>2 DEF Crash
    <3> QED
      BY <2>1, <3>1, AnsweredOK DEF Refusals
  <2>3. CASE ~InFlight(s)
    <3>1. pc'[s] = pc[s] /\ reply'[s] = reply[s]
      BY <2>3 DEF Crash
    <3> QED
      BY <2>1, <3>1, LedgerOthersKept
  <2> QED
    BY <2>2, <2>3
<1> QED
  BY <1>1, <1>2, <1>3 DEF LedgerInv

(* The invariant of the rows is inductive. *)
LEMMA NextLedger == LedgerInv /\ [Next]_vars => LedgerInv'
<1> SUFFICES ASSUME LedgerInv, [Next]_vars PROVE LedgerInv'
  OBVIOUS
<1>1. CASE UNCHANGED vars
  <2>1. Inv'
    BY <1>1, NextInv DEF LedgerInv
  <2>2. OpeningEntriesOK' /\ RowsKept
    BY <1>1 DEF vars, LedgerInv, OpeningEntriesOK, RowsKept
  <2>3. \A s \in Requests : EntriesOf(s)' = EntriesOf(s)
    BY <1>1 DEF vars, EntriesOf
  <2>4. \A s \in Requests : GrantedOK(s)' /\ EntriesOK(s)'
    BY <1>1, <2>2, <2>3, LedgerOthersKept DEF vars
  <2> QED
    BY <2>1, <2>2, <2>4 DEF LedgerInv
<1>2. CASE Crash
  BY <1>2, CrashLedgerInv
<1>3. CASE \E r \in Requests : Step(r) \/ Fail(r)
  BY <1>3, StepLedgerInv
<1> QED
  BY <1>1, <1>2, <1>3 DEF Next, Idle

(* It holds in every reachable state. *)
LEMMA LedgerInvHolds == Spec => []LedgerInv
  BY InitLedger, NextLedger, PTL DEF Spec

(* A row of a request is one of the rows of its operation. *)
LEMMA RowOfRequest ==
  ASSUME LedgerInv, NEW row \in ledger, row.req \in Requests
  PROVE  LET r == row.req
         IN  /\ Granted(r) /\ PeerGranted(r)
             /\ \/ row = AccountEntry(r, call[r])
                \/ /\ call[r].op = "transfer"
                   /\ row = PeerEntry(r, call[r])
                   /\ AccountEntry(r, call[r]) \in ledger
<1> DEFINE r == row.req
<1>1. row \in EntriesOf(r)
  BY DEF EntriesOf
<1>2. GrantedOK(r) /\ EntriesOK(r)
  BY DEF LedgerInv
<1>3. Granted(r) /\ PeerGranted(r)
  BY <1>1, <1>2 DEF GrantedOK
<1>4. \/ EntriesOf(r) = {AccountEntry(r, call[r])}
      \/ EntriesOf(r) = ExpectedEntries(r)
  BY <1>1, <1>2 DEF EntriesOK
<1>5. call[r] # None /\ call[r].op # "create"
  BY <1>3, CallShape DEF Granted
<1>6. CASE EntriesOf(r) = {AccountEntry(r, call[r])}
  BY <1>1, <1>3, <1>6
<1>7. CASE EntriesOf(r) = ExpectedEntries(r)
  <2>1. CASE call[r].op = "transfer"
    <3>1. EntriesOf(r) = {AccountEntry(r, call[r]), PeerEntry(r, call[r])}
      BY <1>5, <1>7, <2>1 DEF ExpectedEntries
    <3>2. AccountEntry(r, call[r]) \in ledger
      BY <3>1 DEF EntriesOf
    <3> QED
      BY <1>1, <1>3, <2>1, <3>1, <3>2
  <2>2. CASE call[r].op # "transfer"
    BY <1>1, <1>3, <1>5, <1>7, <2>2 DEF ExpectedEntries
  <2> QED
    BY <2>1, <2>2
<1> QED
  BY <1>4, <1>6, <1>7

(* Whatever cuts a transfer short, money booked as received is booked as   *)
(* sent on the account the row names.                                      *)
THEOREM TransferInHasOutHolds == Spec => []TransferInHasOut
<1>1. LedgerInv => TransferInHasOut
  <2> SUFFICES ASSUME LedgerInv, NEW row \in ledger, row.type = "transfer_in"
               PROVE  \E out \in ledger : /\ out.type = "transfer_out"
                                          /\ out.req = row.req
                                          /\ out.amount = -row.amount
                                          /\ out.acct = row.related
                                          /\ out.related = row.acct
    BY DEF TransferInHasOut
  <2> DEFINE r == row.req
             c == call[r]
  <2>1. r \in Requests
    BY DEF LedgerInv, OpeningEntriesOK
  <2>2. Granted(r) /\ c \in Calls /\ c.op # "create"
    BY <2>1, RowOfRequest DEF Granted
  <2>3. /\ c.op = "transfer"
        /\ row = PeerEntry(r, c)
        /\ AccountEntry(r, c) \in ledger
    BY <2>1, <2>2, RowOfRequest, EntryShape
  <2>4. /\ AccountEntry(r, c).type = "transfer_out"
        /\ AccountEntry(r, c).amount = -row.amount
        /\ AccountEntry(r, c).acct = row.related
        /\ AccountEntry(r, c).related = row.acct
        /\ AccountEntry(r, c).req = r
    BY <2>1, <2>2, <2>3 DEF AccountEntry, PeerEntry, TransactionType, Delta
  <2> QED
    BY <2>3, <2>4
<1> QED
  BY <1>1, LedgerInvHolds, PTL

(* An answer never contradicts the transactions table.                     *)
THEOREM ReplyTellsLedgerHolds == Spec => []ReplyTellsLedger
<1>1. LedgerInv => ReplyTellsLedger
  <2> SUFFICES ASSUME LedgerInv, NEW r \in Requests
               PROVE  /\ reply[r] = "ok" => EntriesOf(r) = ExpectedEntries(r)
                      /\ reply[r] \in Refusals => EntriesOf(r) = {}
                      /\ EntriesOf(r) \subseteq ExpectedEntries(r)
    BY DEF ReplyTellsLedger
  <2>1. EntriesOK(r)
    BY DEF LedgerInv
  <2>2. ASSUME NEW row \in EntriesOf(r)
        PROVE  row \in ExpectedEntries(r)
    <3>1. row \in ledger /\ row.req = r
      BY DEF EntriesOf
    <3>2. call[r] # None /\ call[r].op # "create"
      BY <3>1, RowOfRequest, CallShape DEF Granted
    <3> QED
      BY <3>1, <3>2, RowOfRequest DEF ExpectedEntries
  <2> QED
    BY <2>1, <2>2 DEF EntriesOK
<1> QED
  BY <1>1, LedgerInvHolds, PTL

(* Only the owner's requests book money out of an account.                 *)
THEOREM DebitsAreAuthorisedHolds == Spec => []DebitsAreAuthorised
<1>1. LedgerInv => DebitsAreAuthorised
  <2> SUFFICES ASSUME LedgerInv, NEW row \in ledger, row.amount < 0
               PROVE  /\ row.req \in Requests
                      /\ account[row.acct] # NoRow
                      /\ account[row.acct].owner = call[row.req].user
                      /\ row.related # None =>
                           /\ account[row.related] # NoRow
                           /\ account[row.related].currency = account[row.acct].currency
    BY DEF DebitsAreAuthorised
  <2> DEFINE r == row.req
             c == call[r]
  <2>1. row.amount \in Int
    BY DEF LedgerInv, Inv, TypeOK
  <2>2. r \in Requests
    BY <2>1 DEF LedgerInv, OpeningEntriesOK
  <2>3. /\ Granted(r) /\ PeerGranted(r) /\ c \in Calls /\ c.amount > 0
        /\ c.op # "create" /\ c.amount \in Int
    BY <2>2, RowOfRequest, CallShape DEF Granted
  <2>4. row # PeerEntry(r, c)
    BY <2>1, <2>3 DEF PeerEntry
  <2>5. row = AccountEntry(r, c)
    BY <2>2, <2>4, RowOfRequest
  <2>6. row.acct = c.acct /\ row.related = c.peer
    BY <2>5 DEF AccountEntry
  <2>7. c.peer # None => c.op = "transfer"
    BY <2>3, ConstantsAssumption DEF Call, CreateCall, MoneyCall
  <2> QED
    BY <2>2, <2>3, <2>6, <2>7 DEF Granted, PeerGranted
<1> QED
  BY <1>1, LedgerInvHolds, PTL
-----------------------------------------------------------------------------
(* Requests apart: the invariant that goes with the refinement.            *)

Exclusive ==
  \A r, s \in Requests : \A a \in Accounts : Engaged(r, a) /\ Engaged(s, a) => r = s

(* What the request has read is what it found, and what it has stored is   *)
(* still there.                                                            *)
CarefulOK(r) ==
  LET c == call[r]
  IN  /\ pc[r] \in Authorised /\ c.op = "transfer" => c.acct # c.peer
      /\ pc[r] \in Reading => seen[r].acct = account[c.acct].balance
      /\ pc[r] \in {"write", "write_peer"} /\ c.op = "transfer" =>
           /\ seen[r].peer = account[c.peer].balance
           /\ seen[r].peer + c.amount <= MaxBalance
      /\ pc[r] \in Storing => account[c.acct].balance = seen[r].acct + Delta(c)
      /\ pc[r] \in Storing \ {"write_peer"} /\ c.op = "transfer" =>
           account[c.peer].balance = seen[r].peer + c.amount

CarefulInv ==
  /\ LedgerInv
  /\ Exclusive
  /\ \A r \in Requests : CarefulOK(r)

-----------------------------------------------------------------------------
(* A request under way works on accounts that exist. *)
LEMMA EngagedShape ==
  ASSUME LedgerInv, NEW r \in Requests, pc[r] \in Reading \cup Storing
  PROVE  LET c == call[r]
         IN  /\ c \in Calls /\ c.op # "create" /\ c.amount \in Int /\ c.amount > 0
             /\ c.acct \in Accounts /\ account[c.acct] # NoRow
             /\ c.op = "transfer" => c.peer \in Accounts
             /\ c.op # "transfer" => c.peer = None
             /\ pc[r] # "read_peer" /\ c.op = "transfer" => account[c.peer] # NoRow
             /\ \A a \in Accounts : Engaged(r, a) <=> a = c.acct \/ a = c.peer
             /\ None \notin Accounts
<1>1. CallOK(r) /\ RowsOK(r)
  BY DEF LedgerInv, Inv
<1>2. pc[r] \in Authorised /\ (pc[r] # "read_peer" => pc[r] \in PeerRead)
  BY DEF Reading, Storing, Authorised, PeerRead
<1>3. call[r] \in Calls /\ call[r].op # "create" /\ call[r].amount > 0
  BY <1>1, <1>2 DEF CallOK, Authorised
<1>4. /\ call[r].acct \in Accounts /\ call[r].amount \in Int
      /\ call[r].op = "transfer" => call[r].peer \in Accounts
  BY <1>3, CallShape
<1>5. call[r].op # "transfer" => call[r].peer = None
  BY <1>3, ConstantsAssumption DEF Call, CreateCall, MoneyCall
<1>6. None \notin Accounts
  BY ConstantsAssumption
<1>7. \A a \in Accounts : Engaged(r, a) <=> a = call[r].acct \/ a = call[r].peer
  BY <1>6 DEF Engaged, Touched
<1> QED
  BY <1>1, <1>2, <1>3, <1>4, <1>5, <1>6, <1>7 DEF RowsOK

(* A step of a request leaves the other requests where they are. *)
LEMMA OthersStand ==
  ASSUME LedgerInv, NEW r \in Requests, Step(r) \/ Fail(r), NEW s \in Requests, s # r
  PROVE  pc'[s] = pc[s] /\ call'[s] = call[s] /\ seen'[s] = seen[s]
BY DEF LedgerInv, Inv, TypeOK, Step, Fail, CreateAccountHandler, CheckNumber,
   InsertAccount, MoneyHandler, Authorize, ReadAccount, ReadPeer, WriteAccount,
   WritePeer, RecordAccount, RecordPeer, Commit, Decide, UpdateAccount, Goto, Finish

(* A step of a request changes only accounts it is engaged on, or opens one. *)
LEMMA AccountsTouched ==
  ASSUME LedgerInv, NEW r \in Requests, Step(r) \/ Fail(r), NEW a \in Accounts,
         account[a] # NoRow, ~Engaged(r, a)
  PROVE  account'[a] = account[a]
<1>1. TypeOK
  BY DEF LedgerInv, Inv
<1>2. CASE WriteAccount(r)
  <2>1. pc[r] \in Reading /\ call[r].acct # a
    BY <1>2, EngagedShape DEF WriteAccount, Reading
  <2> QED
    BY <1>1, <1>2, <2>1 DEF WriteAccount, UpdateAccount, TypeOK
<1>3. CASE WritePeer(r)
  <2>1. pc[r] \in Storing /\ call[r].peer # a
    BY <1>3, EngagedShape DEF WritePeer, Storing
  <2> QED
    BY <1>1, <1>3, <2>1 DEF WritePeer, UpdateAccount, TypeOK
<1>4. CASE InsertAccount(r)
  BY <1>1, <1>4 DEF InsertAccount, TypeOK
<1> QED
  BY <1>2, <1>3, <1>4
     DEF Step, CreateAccountHandler, CheckNumber, MoneyHandler, Authorize, ReadAccount,
         ReadPeer, RecordAccount, RecordPeer, Commit, Fail

(* What another request has read and stored is left alone. *)
LEMMA OthersCareful ==
  ASSUME CarefulInv, NEW r \in Requests, Step(r) \/ Fail(r), NEW s \in Requests, s # r
  PROVE  CarefulOK(s)'
<1>1. pc'[s] = pc[s] /\ call'[s] = call[s] /\ seen'[s] = seen[s]
  BY OthersStand DEF CarefulInv
<1>2. CarefulOK(s)
  BY DEF CarefulInv
<1>3. ASSUME pc[s] \in Reading \cup Storing
      PROVE  /\ account'[call[s].acct] = account[call[s].acct]
             /\ pc[s] # "read_peer" /\ call[s].op = "transfer" =>
                  account'[call[s].peer] = account[call[s].peer]
  <2>1. ASSUME NEW a \in Accounts, Engaged(s, a), account[a] # NoRow
        PROVE  account'[a] = account[a]
    <3>1. ~Engaged(r, a)
      BY <2>1 DEF CarefulInv, Exclusive
    <3> QED
      BY <2>1, <3>1, AccountsTouched DEF CarefulInv
  <2> QED
    BY <1>3, <2>1, EngagedShape DEF CarefulInv
<1> QED
  BY <1>1, <1>2, <1>3 DEF CarefulOK, Reading, Storing

(* A request that is not between authorisation and answer claims nothing. *)
LEMMA IdleCareful ==
  ASSUME NEW r \in Requests, pc'[r] \notin Authorised
  PROVE  CarefulOK(r)'
BY DEF CarefulOK, Authorised, Reading, Storing

(* A step of a careful request: it waits for the accounts it needs, for    *)
(* room at the destination, and fails only before it has stored anything.  *)
CarefulStep(r) ==
  \/ Alone(r) /\ Room(r) /\ Step(r)
  \/ pc[r] \notin Storing /\ Fail(r)

(* A careful step keeps what its request has read and stored. *)
LEMMA StepCareful ==
  ASSUME CarefulInv, NEW r \in Requests, CarefulStep(r)
  PROVE  CarefulOK(r)'
<1> DEFINE c == call[r]
<1>0. /\ LedgerInv /\ TypeOK /\ CallOK(r) /\ RowsOK(r) /\ SeenOK(r) /\ CarefulOK(r)
  BY DEF CarefulInv, LedgerInv, Inv
<1>d. ASSUME pc'[r] = "done" PROVE CarefulOK(r)'
  BY <1>d, IdleCareful DEF Authorised
<1>1. CASE CreateAccountHandler(r)
  BY <1>0, <1>1, IdleCareful
  DEF CreateAccountHandler, Decide, Goto, Finish, TypeOK, Authorised
<1>2. CASE CheckNumber(r)
  BY <1>0, <1>2, IdleCareful DEF CheckNumber, Decide, Goto, Finish, TypeOK, Authorised
<1>3. CASE InsertAccount(r)
  BY <1>0, <1>3, <1>d DEF InsertAccount, Finish, TypeOK
<1>4. CASE MoneyHandler(r)
  BY <1>0, <1>4, IdleCareful DEF MoneyHandler, Decide, Goto, Finish, TypeOK, Authorised
<1>5. CASE Authorize(r)
  <2>1. CASE AccessVerdict(c) = "proceed"
    <3>1. /\ pc' = [pc EXCEPT ![r] = "read"] /\ UNCHANGED <<account, call, seen>>
          /\ c.op = "transfer" => c.acct # c.peer
      BY <1>5, <2>1 DEF Authorize, Decide, Goto, AccessVerdict
    <3> QED
      BY <1>0, <3>1 DEF CarefulOK, TypeOK, Reading, Storing
  <2>2. CASE AccessVerdict(c) # "proceed"
    BY <1>0, <1>5, <2>2, <1>d DEF Authorize, Decide, Finish, TypeOK
  <2> QED
    BY <2>1, <2>2
<1>6. CASE ReadAccount(r)
  <2>1. CASE pc'[r] = "done"
    BY <2>1, <1>d
  <2>2. CASE pc'[r] # "done"
    <3>1. /\ pc[r] = "read" /\ UNCHANGED <<account, call>>
          /\ seen' = [seen EXCEPT ![r].acct = account[c.acct].balance]
          /\ pc' = [pc EXCEPT ![r] = IF c.op = "transfer" THEN "read_peer" ELSE "write"]
      BY <1>0, <1>6, <2>2 DEF ReadAccount, Goto, Finish, GetAccountByID, TypeOK
    <3>2. /\ pc'[r] = IF c.op = "transfer" THEN "read_peer" ELSE "write"
          /\ seen'[r].acct = account[c.acct].balance
      BY <1>0, <3>1 DEF TypeOK
    <3>3. c.op = "transfer" => c.acct # c.peer
      BY <1>0, <3>1 DEF CarefulOK, Authorised
    <3> QED
      BY <3>1, <3>2, <3>3 DEF CarefulOK, Reading, Storing
  <2> QED
    BY <2>1, <2>2
<1>7. CASE ReadPeer(r)
  <2>1. CASE TransferVerdict(c, seen[r].acct) = "proceed"
    <3>1. /\ pc[r] = "read_peer" /\ UNCHANGED <<account, call>>
          /\ seen' = [seen EXCEPT ![r].peer = account[c.peer].balance]
          /\ pc' = [pc EXCEPT ![r] = "write"]
          /\ account[c.peer] # NoRow
      BY <1>7, <2>1 DEF ReadPeer, Goto, GetAccountByID, TransferVerdict
    <3>2. /\ pc'[r] = "write" /\ seen'[r].peer = account[c.peer].balance
          /\ seen'[r].acct = seen[r].acct
      BY <1>0, <3>1 DEF TypeOK
    <3>3. Room(r)
      BY <1>0, <3>2 DEF CarefulStep, Fail, Finish, TypeOK
    <3> QED
      BY <1>0, <3>1, <3>2, <3>3 DEF CarefulOK, Room, Reading, Storing, Authorised
  <2>2. CASE TransferVerdict(c, seen[r].acct) # "proceed"
    BY <1>0, <1>7, <2>2, <1>d DEF ReadPeer, Finish, TypeOK
  <2> QED
    BY <2>1, <2>2
<1>8. CASE WriteAccount(r)
  <2>1. CASE seen[r].acct + Delta(c) <= MaxBalance
    <3>1. /\ pc[r] = "write" /\ UNCHANGED <<call, seen>>
          /\ account' = [account EXCEPT ![c.acct].balance = seen[r].acct + Delta(c)]
          /\ pc' = [pc EXCEPT ![r] = IF c.op = "transfer" THEN "write_peer" ELSE "record"]
      BY <1>8, <2>1 DEF WriteAccount, UpdateAccount, Goto
    <3>2. /\ c.acct \in Accounts /\ account[c.acct] \in Row
          /\ c.op = "transfer" => c.peer \in Accounts /\ c.acct # c.peer
      BY <1>0, <3>1, EngagedShape DEF CarefulOK, Reading, Authorised, TypeOK
    <3>3. /\ account'[c.acct].balance = seen[r].acct + Delta(c)
          /\ c.op = "transfer" => account'[c.peer] = account[c.peer]
          /\ pc'[r] = IF c.op = "transfer" THEN "write_peer" ELSE "record"
      BY <1>0, <3>1, <3>2 DEF TypeOK, Row
    <3> QED
      BY <1>0, <3>1, <3>2, <3>3 DEF CarefulOK, Reading, Storing, Authorised
  <2>2. CASE ~(seen[r].acct + Delta(c) <= MaxBalance)
    BY <1>0, <1>8, <2>2, <1>d DEF WriteAccount, UpdateAccount, Finish, TypeOK
  <2> QED
    BY <2>1, <2>2
<1>9. CASE WritePeer(r)
  <2>1. CASE seen[r].peer + c.amount <= MaxBalance
    <3>1. /\ pc[r] = "write_peer" /\ UNCHANGED <<call, seen>>
          /\ account' = [account EXCEPT ![c.peer].balance = seen[r].peer + c.amount]
          /\ pc' = [pc EXCEPT ![r] = "record"]
      BY <1>9, <2>1 DEF WritePeer, UpdateAccount, Goto
    <3>2. /\ c.op = "transfer" /\ c.peer \in Accounts /\ c.acct \in Accounts /\ c.acct # c.peer
          /\ account[c.peer] \in Row
      BY <1>0, <3>1, EngagedShape DEF CarefulOK, CallOK, Storing, Authorised, TypeOK
    <3>3. /\ account'[c.peer].balance = seen[r].peer + c.amount
          /\ account'[c.acct] = account[c.acct]
          /\ pc'[r] = "record"
      BY <1>0, <3>1, <3>2 DEF TypeOK, Row
    <3> QED
      BY <1>0, <3>1, <3>2, <3>3 DEF CarefulOK, Reading, Storing, Authorised
  <2>2. CASE ~(seen[r].peer + c.amount <= MaxBalance)
    BY <1>0, <1>9, <2>2, <1>d DEF WritePeer, UpdateAccount, Finish, TypeOK
  <2> QED
    BY <2>1, <2>2
<1>10. CASE RecordAccount(r) \/ RecordPeer(r)
  <2>1. /\ pc[r] \in {"record", "record_peer"} /\ UNCHANGED <<account, call, seen>>
        /\ pc'[r] \in {"record_peer", "commit"}
    BY <1>0, <1>10 DEF RecordAccount, RecordPeer, Goto, TypeOK
  <2> QED
    BY <1>0, <2>1 DEF CarefulOK, Reading, Storing, Authorised
<1>11. CASE Commit(r) \/ Fail(r)
  BY <1>0, <1>11, <1>d DEF Commit, Fail, Finish, TypeOK
<1> QED
  BY <1>1, <1>2, <1>3, <1>4, <1>5, <1>6, <1>7, <1>8, <1>9, <1>10, <1>11 DEF CarefulStep, Step

(* Whoever begins to read an account finds nobody else engaged on it. *)
LEMMA StepExclusive ==
  ASSUME CarefulInv, NEW r \in Requests, CarefulStep(r)
  PROVE  Exclusive'
<1>0. LedgerInv /\ TypeOK /\ Exclusive /\ (Step(r) \/ Fail(r))
  BY DEF CarefulInv, LedgerInv, Inv, CarefulStep
<1>1. \A s \in Requests, a \in Accounts : s # r => (Engaged(s, a)' <=> Engaged(s, a))
  BY <1>0, OthersStand DEF Engaged, Touched
<1>2. ASSUME NEW a \in Accounts, Engaged(r, a)', NEW s \in Requests, s # r, Engaged(s, a)
      PROVE  FALSE
  <2>1. CASE pc[r] \in Reading \cup Storing
    <3>1. pc[r] # "new"
      BY <2>1 DEF Reading, Storing
    <3>2. call'[r] = call[r]
      BY <1>0, <3>1 DEF Step, Fail, CreateAccountHandler, CheckNumber, InsertAccount,
         MoneyHandler, Authorize, ReadAccount, ReadPeer, WriteAccount, WritePeer,
         RecordAccount, RecordPeer, Commit
    <3>3. Engaged(r, a)
      BY <1>2, <2>1, <3>2 DEF Engaged, Touched
    <3> QED
      BY <1>0, <1>2, <3>3 DEF Exclusive
  <2>2. CASE pc[r] \notin Reading \cup Storing
    <3>1. pc'[r] \in Reading \cup Storing
      BY <1>2 DEF Engaged
    <3>2. ReadAccount(r)
      BY <1>0, <2>2, <3>1 DEF Step, Fail, CreateAccountHandler, CheckNumber, InsertAccount,
         MoneyHandler, Authorize, ReadPeer, WriteAccount, WritePeer, RecordAccount,
         RecordPeer, Commit, Decide, Goto, Finish, TypeOK, Reading, Storing
    <3>3. pc[r] = "read" /\ call'[r] = call[r]
      BY <3>2 DEF ReadAccount
    <3>4. Alone(r)
      BY <1>0, <3>1, <3>2 DEF CarefulStep, Fail, Finish, TypeOK, Reading, Storing
    <3>5. a \in Touched(r)
      BY <1>2, <3>3 DEF Engaged, Touched
    <3> QED
      BY <1>2, <3>3, <3>4, <3>5 DEF Alone
  <2> QED
    BY <2>1, <2>2
<1> QED
  BY <1>0, <1>1, <1>2 DEF Exclusive

(* A crash, when nobody has stored anything. *)
LEMMA CrashCareful ==
  ASSUME CarefulInv, Crash
  PROVE  CarefulInv'
<1>1. LedgerInv'
  BY CrashLedgerInv DEF CarefulInv
<1>2. \A r \in Requests : pc'[r] \in {"new", "done"}
  BY DEF Crash, InFlight
<1>3. \A r \in Requests : CarefulOK(r)'
  BY <1>2, IdleCareful DEF Authorised
<1>4. Exclusive'
  BY <1>2 DEF Exclusive, Engaged, Reading, Storing
<1> QED
  BY <1>1, <1>3, <1>4 DEF CarefulInv

(* The invariant is inductive. *)
LEMMA NextCareful == CarefulInv /\ [CarefulNext]_vars => CarefulInv'
<1> SUFFICES ASSUME CarefulInv, [CarefulNext]_vars PROVE CarefulInv'
  OBVIOUS
<1>1. ASSUME NEW r \in Requests, CarefulStep(r) PROVE CarefulInv'
  <2>1. LedgerInv'
    BY <1>1, StepLedgerInv DEF CarefulInv, CarefulStep
  <2>2. \A s \in Requests : CarefulOK(s)'
    BY <1>1, StepCareful, OthersCareful DEF CarefulStep
  <2> QED
    BY <1>1, <2>1, <2>2, StepExclusive DEF CarefulInv
<1>2. CASE UNCHANGED vars
  <2>1. LedgerInv'
    BY <1>2, NextLedger DEF CarefulInv
  <2>2. Exclusive' /\ \A r \in Requests : CarefulOK(r)'
    BY <1>2 DEF vars, CarefulInv, Exclusive, Engaged, Touched, CarefulOK
  <2> QED
    BY <2>1, <2>2 DEF CarefulInv
<1> QED
  BY <1>1, <1>2, CrashCareful DEF CarefulNext, CarefulStep, Idle

(* Nobody has begun. *)
LEMMA InitCareful == Init => CarefulInv
<1> SUFFICES ASSUME Init PROVE CarefulInv
  OBVIOUS
<1>1. \A r \in Requests : pc[r] = "new"
  BY DEF Init
<1>2. Exclusive /\ \A r \in Requests : CarefulOK(r)
  BY <1>1 DEF Exclusive, Engaged, CarefulOK, Reading, Storing, Authorised
<1> QED
  BY <1>2, InitLedger DEF CarefulInv

(* The inductive invariant holds in every state careful requests reach. *)
THEOREM CarefulInvHolds == CarefulSpec => []CarefulInv
BY InitCareful, NextCareful, PTL DEF CarefulSpec

-----------------------------------------------------------------------------
(* The funds of an account, and the rows that are booked.                  *)

FundsOf == [a \in Accounts |-> Funds(a)]

(* One request at most has stored a balance of an account. *)
LEMMA OneStores ==
  ASSUME CarefulInv, NEW r \in Requests, NEW s \in Requests, NEW a \in Accounts,
         HasStored(r, a), HasStored(s, a)
  PROVE  r = s
BY EngagedShape DEF CarefulInv, Exclusive, HasStored, Storing

(* The funds of an account are its balance, or what the request that has   *)
(* stored another one has read.                                            *)
FundsKnown ==
  \A a \in Accounts :
    /\ account[a] = NoRow => Funds(a) = NoRow
    /\ account[a] # NoRow =>
         /\ \A r \in Requests : HasStored(r, a) => Funds(a) = Before(r, a)
         /\ (\A r \in Requests : ~HasStored(r, a)) => Funds(a) = account[a].balance

(* It follows from the invariant. *)
LEMMA FundsAreKnown == CarefulInv => FundsKnown
<1> SUFFICES ASSUME CarefulInv, NEW a \in Accounts
             PROVE  /\ account[a] = NoRow => Funds(a) = NoRow
                    /\ account[a] # NoRow =>
                         /\ \A r \in Requests : HasStored(r, a) => Funds(a) = Before(r, a)
                         /\ (\A r \in Requests : ~HasStored(r, a)) =>
                              Funds(a) = account[a].balance
  BY DEF FundsKnown
<1>1. ASSUME account[a] # NoRow, NEW r \in Requests, HasStored(r, a)
      PROVE  Funds(a) = Before(r, a)
  <2> DEFINE s == CHOOSE q \in Requests : HasStored(q, a)
  <2>1. s \in Requests /\ HasStored(s, a)
    BY <1>1
  <2>2. s = r
    BY <1>1, <2>1, OneStores
  <2>3. Funds(a) = Before(s, a)
    BY <1>1 DEF Funds
  <2> QED
    BY <2>2, <2>3
<1> QED
  BY <1>1 DEF Funds

(* What a careful step does to the two tables. *)

StoresNone(r) ==
  /\ UNCHANGED <<account, ledger>>
  /\ pc[r] \notin Storing \cup {"done"} /\ pc'[r] \notin Storing

Opens(r) ==
  /\ \E a \in Accounts : /\ account[a] = NoRow
                         /\ \E row \in Row : row.balance = 0
                                          /\ account' = [account EXCEPT ![a] = row]
  /\ UNCHANGED ledger
  /\ pc[r] \notin Storing \cup {"done"} /\ pc'[r] \notin Storing

StoresOne(r) ==
  LET c == call[r]
  IN  /\ pc[r] = "write" /\ pc'[r] \in {"write_peer", "record"}
      /\ account' = [account EXCEPT ![c.acct].balance = seen[r].acct + Delta(c)]
      /\ UNCHANGED <<ledger, call, seen>>

StoresPeer(r) ==
  LET c == call[r]
  IN  /\ pc[r] = "write_peer" /\ pc'[r] = "record"
      /\ account' = [account EXCEPT ![c.peer].balance = seen[r].peer + c.amount]
      /\ UNCHANGED <<ledger, call, seen>>

Records(r) ==
  /\ pc[r] \in {"record", "record_peer"} /\ pc'[r] \in {"record_peer", "commit"}
  /\ \E row : row.req = r /\ ledger' = ledger \cup {row}
  /\ UNCHANGED <<account, call, seen>>

(* A careful step is of one of these kinds. *)
LEMMA StepKinds ==
  ASSUME CarefulInv, NEW r \in Requests, CarefulStep(r)
  PROVE  StoresNone(r) \/ Opens(r) \/ StoresOne(r) \/ StoresPeer(r) \/ Records(r) \/ Commit(r)
<1> DEFINE c == call[r]
<1>0. LedgerInv /\ TypeOK /\ CallOK(r) /\ CarefulOK(r)
  BY DEF CarefulInv, LedgerInv, Inv
<1>1. CASE \/ CreateAccountHandler(r) \/ CheckNumber(r) \/ MoneyHandler(r) \/ Authorize(r)
           \/ ReadAccount(r) \/ ReadPeer(r)
  <2>1. UNCHANGED <<account, ledger>> /\ pc[r] \notin Storing \cup {"done"}
    BY <1>1 DEF CreateAccountHandler, CheckNumber, MoneyHandler, Authorize, ReadAccount,
                ReadPeer, Storing
  <2>2. pc'[r] \notin Storing
    BY <1>0, <1>1 DEF CreateAccountHandler, CheckNumber, MoneyHandler, Authorize, ReadAccount,
                      ReadPeer, Decide, Goto, Finish, TypeOK, Storing
  <2> QED
    BY <2>1, <2>2 DEF StoresNone
<1>2. CASE pc[r] \notin Storing /\ Fail(r)
  BY <1>0, <1>2 DEF StoresNone, Fail, InFlight, Finish, TypeOK, Storing
<1>3. CASE InsertAccount(r)
  <2>1. /\ pc[r] \notin Storing \cup {"done"} /\ pc'[r] \notin Storing /\ UNCHANGED ledger
    BY <1>0, <1>3 DEF InsertAccount, Finish, TypeOK, Storing
  <2>2. CASE UNCHANGED account
    BY <2>1, <2>2 DEF StoresNone
  <2>3. CASE ~ UNCHANGED account
    <3> DEFINE row == [owner |-> c.user, number |-> c.number, currency |-> c.currency,
                       balance |-> 0]
    <3>1. PICK a \in Accounts : account[a] = NoRow /\ account' = [account EXCEPT ![a] = row]
      BY <1>3, <2>3 DEF InsertAccount
    <3>2. c \in CreateCall
      BY <1>0, <1>3, CallShape DEF InsertAccount, CallOK
    <3>3. row \in Row /\ row.balance = 0
      BY <3>2 DEF CreateCall, Row
    <3> QED
      BY <2>1, <3>1, <3>3 DEF Opens
  <2> QED
    BY <2>2, <2>3
<1>4. CASE WriteAccount(r)
  <2>1. CASE seen[r].acct + Delta(c) <= MaxBalance
    BY <1>0, <1>4, <2>1 DEF WriteAccount, UpdateAccount, Goto, StoresOne, TypeOK
  <2>2. CASE ~(seen[r].acct + Delta(c) <= MaxBalance)
    BY <1>0, <1>4, <2>2 DEF WriteAccount, UpdateAccount, Finish, StoresNone, TypeOK, Storing
  <2> QED
    BY <2>1, <2>2
<1>5. CASE WritePeer(r)
  <2>1. seen[r].peer + c.amount <= MaxBalance
    BY <1>0, <1>5 DEF WritePeer, CarefulOK, CallOK
  <2> QED
    BY <1>0, <1>5, <2>1 DEF WritePeer, UpdateAccount, Goto, StoresPeer, TypeOK
<1>6. CASE RecordAccount(r) \/ RecordPeer(r)
  <2>1. \E row : row.req = r /\ ledger' = ledger \cup {row}
    BY <1>6 DEF RecordAccount, RecordPeer, CreateTransaction, AccountEntry, PeerEntry
  <2> QED
    BY <1>0, <1>6, <2>1 DEF RecordAccount, RecordPeer, Goto, Records, TypeOK
<1> QED
  BY <1>1, <1>2, <1>3, <1>4, <1>5, <1>6 DEF CarefulStep, Step

(* Rows are booked when their request is answered. *)
LEMMA BookedStays ==
  ASSUME CarefulInv, NEW r \in Requests,
         \A s \in Requests : s # r => pc'[s] = pc[s],
         pc[r] # "done",
         \/ ledger' = ledger /\ (pc'[r] # "done" \/ EntriesOf(r) = {})
         \/ (\E row : row.req = r /\ ledger' = ledger \cup {row}) /\ pc'[r] # "done"
  PROVE  Booked' = Booked
BY DEF Booked, EntriesOf

(* A careful step that is not a COMMIT and opens no account: the funds and *)
(* the booked rows stay as they were.                                      *)
LEMMA StepStutters ==
  ASSUME CarefulInv, FundsKnown, FundsKnown', NEW r \in Requests, CarefulStep(r),
         StoresNone(r) \/ StoresOne(r) \/ StoresPeer(r) \/ Records(r)
  PROVE  FundsOf' = FundsOf /\ Booked' = Booked
<1> DEFINE c == call[r]
<1>0. LedgerInv /\ TypeOK /\ CallOK(r) /\ CarefulOK(r) /\ EntriesOK(r) /\ (Step(r) \/ Fail(r))
  BY DEF CarefulInv, LedgerInv, Inv, CarefulStep
<1>1. \A s \in Requests : s # r => pc'[s] = pc[s] /\ call'[s] = call[s] /\ seen'[s] = seen[s]
  BY <1>0, OthersStand
<1>2. Booked' = Booked
  BY <1>0, <1>1, BookedStays
  DEF StoresNone, StoresOne, StoresPeer, Records, EntriesOK, Storing
<1>3. ASSUME NEW a \in Accounts
      PROVE  Funds(a)' = Funds(a)
  <2>1. \A s \in Requests : s # r => /\ HasStored(s, a)' <=> HasStored(s, a)
                                     /\ Before(s, a)' = Before(s, a)
    BY <1>1 DEF HasStored, Before
  <2>2. RowsKept /\ NoNewRows
    <3>1. ~InsertAccount(r) \/ UNCHANGED account
      BY DEF InsertAccount, StoresNone, StoresOne, StoresPeer, Records
    <3> QED
      BY <1>0, <3>1, StepKeepsRows DEF LedgerInv, RowsKept, NoNewRows
  <2>3. account[a] = NoRow <=> account'[a] = NoRow
    BY <2>2 DEF RowsKept, NoNewRows
  <2>4. ASSUME account[a] # NoRow, NEW s \in Requests, s # r, HasStored(s, a)
        PROVE  Funds(a)' = Funds(a)
    BY <2>1, <2>3, <2>4 DEF FundsKnown
  <2>5. ASSUME account[a] # NoRow, \A s \in Requests : s # r => ~HasStored(s, a)
        PROVE  Funds(a)' = Funds(a)
    <3>1. CASE HasStored(r, a)
      <4>1. HasStored(r, a)' /\ Before(r, a)' = Before(r, a)
        BY <3>1 DEF StoresNone, StoresOne, StoresPeer, Records, HasStored, Before, Storing
      <4> QED
        BY <2>3, <2>5, <3>1, <4>1 DEF FundsKnown
    <3>2. CASE ~HasStored(r, a) /\ HasStored(r, a)'
      <4>1. Before(r, a)' = account[a].balance
        <5>1. CASE StoresOne(r)
          BY <1>0, <3>2, <5>1, EngagedShape
          DEF StoresOne, HasStored, Before, CarefulOK, Storing, Reading, Authorised
        <5>2. CASE StoresPeer(r)
          BY <1>0, <3>2, <5>2
          DEF StoresPeer, HasStored, Before, CarefulOK, CallOK, Storing, Authorised
        <5>3. CASE StoresNone(r) \/ Records(r)
          BY <3>2, <5>3 DEF StoresNone, Records, HasStored, Storing
        <5> QED
          BY <5>1, <5>2, <5>3
      <4>2. Funds(a) = account[a].balance
        BY <2>5, <3>2 DEF FundsKnown
      <4>3. Funds(a)' = Before(r, a)'
        BY <2>3, <2>5, <3>2 DEF FundsKnown
      <4> QED
        BY <4>1, <4>2, <4>3
    <3>3. CASE ~HasStored(r, a) /\ ~HasStored(r, a)'
      <4>1. account'[a] = account[a]
        BY <1>0, <3>3 DEF StoresNone, StoresOne, StoresPeer, Records, HasStored, Storing, TypeOK
      <4> QED
        BY <2>1, <2>3, <2>5, <3>3, <4>1 DEF FundsKnown
    <3> QED
      BY <3>1, <3>2, <3>3
  <2>6. ASSUME account[a] = NoRow
        PROVE  Funds(a)' = Funds(a)
    BY <2>3, <2>6 DEF FundsKnown
  <2> QED
    BY <2>4, <2>5, <2>6
<1>4. FundsOf' = FundsOf
  BY <1>3 DEF FundsOf
<1> QED
  BY <1>2, <1>4

(* Opening an account. *)
LEMMA StepOpens ==
  ASSUME CarefulInv, FundsKnown, FundsKnown', NEW r \in Requests, CarefulStep(r), Opens(r)
  PROVE  /\ Booked' = Booked
         /\ \E a \in Accounts : FundsOf[a] = NoRow /\ FundsOf' = [FundsOf EXCEPT ![a] = 0]
<1>0. LedgerInv /\ TypeOK /\ EntriesOK(r) /\ (Step(r) \/ Fail(r))
  BY DEF CarefulInv, LedgerInv, Inv, CarefulStep
<1>1. \A s \in Requests : s # r => pc'[s] = pc[s] /\ call'[s] = call[s] /\ seen'[s] = seen[s]
  BY <1>0, OthersStand
<1>2. Booked' = Booked
  BY <1>0, <1>1, BookedStays DEF Opens, EntriesOK, Storing
<1>3. PICK a \in Accounts, row \in Row :
        /\ account[a] = NoRow /\ row.balance = 0
        /\ account' = [account EXCEPT ![a] = row]
  BY DEF Opens
<1>4. row # NoRow /\ account'[a] = row /\ \A b \in Accounts : b # a => account'[b] = account[b]
  BY <1>0, <1>3, ConstantsAssumption DEF TypeOK
<1>5. \A s \in Requests, b \in Accounts : (HasStored(s, b)' <=> HasStored(s, b))
                                          /\ (HasStored(s, b) => Before(s, b)' = Before(s, b))
  BY <1>1 DEF HasStored, Before, Opens, Storing
<1>6. \A s \in Requests : ~HasStored(s, a)
  BY <1>0, <1>3, EngagedShape DEF HasStored, Storing
<1>7. Funds(a) = NoRow /\ Funds(a)' = 0
  BY <1>3, <1>4, <1>5, <1>6 DEF FundsKnown
<1>8. ASSUME NEW b \in Accounts, b # a
      PROVE  Funds(b)' = Funds(b)
  <2>1. CASE account[b] = NoRow
    BY <1>4, <1>8, <2>1 DEF FundsKnown
  <2>2. CASE account[b] # NoRow /\ \E s \in Requests : HasStored(s, b)
    BY <1>4, <1>5, <1>8, <2>2 DEF FundsKnown
  <2>3. CASE account[b] # NoRow /\ \A s \in Requests : ~HasStored(s, b)
    BY <1>4, <1>5, <1>8, <2>3 DEF FundsKnown
  <2> QED
    BY <2>1, <2>2, <2>3
<1> QED
  BY <1>2, <1>7, <1>8 DEF FundsOf

(* COMMIT: the operation takes effect, all of it at once. *)
LEMMA StepCommits ==
  ASSUME CarefulInv, FundsKnown, FundsKnown', NEW r \in Requests, Commit(r)
  PROVE  LET c == call[r]
             transfer == c.op = "transfer"
         IN  /\ Booked \subseteq Booked'
             /\ Booked' \ Booked = ExpectedEntries(r)
             /\ c.acct \in Accounts /\ FundsOf[c.acct] = seen[r].acct
             /\ transfer => c.peer \in Accounts /\ FundsOf[c.peer] = seen[r].peer
             /\ \A a \in Accounts :
                  FundsOf'[a] = IF a = c.acct THEN seen[r].acct + Delta(c)
                                ELSE IF transfer /\ a = c.peer THEN seen[r].peer + c.amount
                                ELSE FundsOf[a]
<1> DEFINE c == call[r]
<1>0. LedgerInv /\ TypeOK /\ EntriesOK(r) /\ CarefulOK(r) /\ Step(r)
  BY DEF CarefulInv, LedgerInv, Inv, Step
<1>1. /\ \A s \in Requests : s # r => pc'[s] = pc[s] /\ call'[s] = call[s] /\ seen'[s] = seen[s]
      /\ pc[r] = "commit" /\ pc'[r] = "done" /\ UNCHANGED <<account, ledger, call>>
  BY <1>0, OthersStand DEF Commit, Finish, TypeOK
<1>2. EntriesOf(r) = ExpectedEntries(r)
  BY <1>0, <1>1 DEF EntriesOK
<1>3. Booked \subseteq Booked' /\ Booked' \ Booked = EntriesOf(r)
  BY <1>1 DEF Booked, EntriesOf
<1>4. /\ c.acct \in Accounts /\ account[c.acct] # NoRow
      /\ c.op = "transfer" => c.peer \in Accounts /\ account[c.peer] # NoRow /\ c.acct # c.peer
      /\ c.op # "transfer" => c.peer = None
      /\ None \notin Accounts
  BY <1>0, <1>1, EngagedShape DEF Storing, CarefulOK, Authorised
<1>5. \A a \in Accounts : HasStored(r, a) <=> a = c.acct \/ a = c.peer
  BY <1>1 DEF HasStored, Storing
<1>6. \A a \in Accounts : ~HasStored(r, a)'
  BY <1>1 DEF HasStored, Storing
<1>7. \A s \in Requests, a \in Accounts : s # r => /\ HasStored(s, a)' <=> HasStored(s, a)
                                                   /\ Before(s, a)' = Before(s, a)
  BY <1>1 DEF HasStored, Before
<1>8. /\ Funds(c.acct) = seen[r].acct
      /\ c.op = "transfer" => Funds(c.peer) = seen[r].peer
  BY <1>4, <1>5 DEF FundsKnown, Before
<1>9. /\ account[c.acct].balance = seen[r].acct + Delta(c)
      /\ c.op = "transfer" => account[c.peer].balance = seen[r].peer + c.amount
  BY <1>0, <1>1 DEF CarefulOK, Storing
<1>10. ASSUME NEW a \in Accounts, a = c.acct \/ a = c.peer
       PROVE  Funds(a)' = account[a].balance
  <2>1. \A s \in Requests : ~HasStored(s, a)'
    BY <1>5, <1>6, <1>7, <1>10, OneStores
  <2> QED
    BY <1>1, <1>4, <1>10, <2>1 DEF FundsKnown
<1>11. ASSUME NEW a \in Accounts, a # c.acct, a # c.peer
       PROVE  Funds(a)' = Funds(a)
  <2>1. ~HasStored(r, a)
    BY <1>5, <1>11
  <2>2. CASE account[a] = NoRow
    BY <1>1, <2>2 DEF FundsKnown
  <2>3. CASE account[a] # NoRow /\ \E s \in Requests : HasStored(s, a)
    BY <1>1, <1>7, <2>1, <2>3 DEF FundsKnown
  <2>4. CASE account[a] # NoRow /\ \A s \in Requests : ~HasStored(s, a)
    BY <1>1, <1>6, <1>7, <2>4 DEF FundsKnown
  <2> QED
    BY <2>2, <2>3, <2>4
<1> QED
  BY <1>2, <1>3, <1>4, <1>8, <1>9, <1>10, <1>11 DEF FundsOf

-----------------------------------------------------------------------------
(* The refinement.                                                         *)

(* A COMMIT is a deposit, a withdrawal or a transfer of the abstract bank. *)
LEMMA CommitBooks ==
  ASSUME CarefulInv, CarefulInv', FundsKnown, FundsKnown', NEW r \in Requests, Commit(r)
  PROVE  Ledger!Book
<1> DEFINE c == call[r]
           out == AccountEntry(r, c)
           in == PeerEntry(r, c)
<1>1. pc[r] = "commit" /\ LedgerInv /\ TypeOK /\ NoOverdraft /\ account' = account
  BY DEF Commit, CarefulInv, LedgerInv, Inv
<1>2. /\ c \in Calls /\ c # None /\ c.op \in {"deposit", "withdraw", "transfer"}
      /\ c.amount \in Int /\ c.amount > 0
      /\ c.op # "transfer" => c.peer = None
      /\ account[c.acct] # NoRow /\ c.acct \in Accounts
      /\ c.op = "transfer" => c.acct # c.peer /\ c.peer \in Accounts
  BY <1>1, EngagedShape, CallShape DEF CarefulInv, CarefulOK, Storing, Authorised
<1>3. seen[r].acct \in Int /\ seen[r].peer \in Int /\ NoRow \notin Int
  BY <1>1, NoFundsAssumption DEF TypeOK
<1>4. account[c.acct].balance >= 0 /\ account[c.acct].balance = seen[r].acct + Delta(c)
  BY <1>1, <1>2, ConstantsAssumption DEF NoOverdraft, Balances, CarefulInv, CarefulOK, Storing
<1>5. /\ out.acct = c.acct /\ out.amount = Delta(c) /\ out.related = c.peer
      /\ in.acct = c.peer /\ in.amount = c.amount /\ in.related = c.acct
      /\ Delta(c) = IF c.op = "deposit" THEN c.amount ELSE -c.amount
  BY DEF AccountEntry, PeerEntry, Delta
<1>6. ExpectedEntries(r) = IF c.op = "transfer" THEN {out, in} ELSE {out}
  BY <1>2 DEF ExpectedEntries
<1>7. /\ Booked \subseteq Booked' /\ Booked' \ Booked = ExpectedEntries(r)
      /\ FundsOf[c.acct] = seen[r].acct
      /\ c.op = "transfer" => FundsOf[c.peer] = seen[r].peer
      /\ \A a \in Accounts :
           FundsOf'[a] = IF a = c.acct THEN seen[r].acct + Delta(c)
                         ELSE IF c.op = "transfer" /\ a = c.peer THEN seen[r].peer + c.amount
                         ELSE FundsOf[a]
  BY StepCommits
<1> HIDE DEF out, in, c
<1>8. CASE c.op # "transfer"
  <2>1. FundsOf' = [FundsOf EXCEPT ![c.acct] = @ + Delta(c)]
    BY <1>2, <1>7, <1>8 DEF FundsOf
  <2>2. Ledger!Deposit(out) \/ Ledger!Withdraw(out)
    BY <1>2, <1>3, <1>4, <1>5, <1>6, <1>7, <1>8, <2>1
    DEF Ledger!Deposit, Ledger!Withdraw, Ledger!Open, Ledger!Posted, FundsOf
  <2> QED
    BY <1>6, <1>7, <1>8, <2>2 DEF Ledger!Book, Ledger!Posted
<1>9. CASE c.op = "transfer"
  <2>1. FundsOf' = [FundsOf EXCEPT ![c.acct] = @ + Delta(c), ![c.peer] = @ + c.amount]
    BY <1>2, <1>7, <1>9 DEF FundsOf
  <2>2. Ledger!Transfer(out, in)
    BY <1>2, <1>3, <1>4, <1>5, <1>6, <1>7, <1>9, <2>1
    DEF Ledger!Transfer, Ledger!Open, Ledger!Posted, FundsOf
  <2> QED
    BY <1>6, <1>7, <1>9, <2>2 DEF Ledger!Book, Ledger!Posted
<1> QED
  BY <1>8, <1>9

(* The accounts and rows the requests start from. *)
LEMMA InitImplements == Init => Ledger!Init
<1> SUFFICES ASSUME Init PROVE Ledger!Init
  OBVIOUS
<1>1. CarefulInv /\ FundsKnown
  BY InitCareful, FundsAreKnown
<1>2. \A r \in Requests, a \in Accounts : ~HasStored(r, a)
  BY DEF Init, HasStored, Storing
<1>3. \A a \in Accounts : IF account[a] = NoRow THEN Funds(a) = NoRow
                          ELSE Funds(a) = account[a].balance /\ Funds(a) \in Nat
  BY <1>1, <1>2, ConstantsAssumption
  DEF FundsKnown, CarefulInv, LedgerInv, Inv, NoOverdraft, Balances
<1>4. \A row \in Booked : row.acct \in Accounts /\ account[row.acct] # NoRow
  BY DEF Init, Booked
<1> QED
  BY <1>3, <1>4, NoFundsAssumption DEF Ledger!Init, Ledger!Open

(* Every step of careful requests is a step of the abstract bank, or       *)
(* changes neither its funds nor its rows.                                 *)
LEMMA NextImplements ==
  ASSUME CarefulInv, CarefulInv', FundsKnown, FundsKnown', [CarefulNext]_vars
  PROVE  [Ledger!Next]_(Ledger!ledgerVars)
<1>1. FundsOf' = FundsOf /\ Booked' = Booked => UNCHANGED Ledger!ledgerVars
  BY DEF Ledger!ledgerVars, FundsOf
<1>2. ASSUME NEW r \in Requests, CarefulStep(r)
      PROVE  [Ledger!Next]_(Ledger!ledgerVars)
  <2>1. CASE Commit(r)
    BY <2>1, CommitBooks DEF Ledger!Next
  <2>2. CASE Opens(r)
    <3>1. Ledger!OpenAccount
      BY <1>2, <2>2, StepOpens DEF Ledger!OpenAccount, Ledger!Open, FundsOf
    <3> QED
      BY <3>1 DEF Ledger!Next
  <2>3. CASE StoresNone(r) \/ StoresOne(r) \/ StoresPeer(r) \/ Records(r)
    BY <1>1, <1>2, <2>3, StepStutters
  <2> QED
    BY <1>2, <2>1, <2>2, <2>3, StepKinds
<1>3. CASE UNCHANGED vars
  <2>1. FundsOf' = FundsOf /\ Booked' = Booked
    BY <1>3 DEF vars, FundsOf, Booked, Funds, HasStored, Before
  <2> QED
    BY <1>1, <2>1
<1>4. CASE (\A r \in Requests : pc[r] \notin Storing) /\ Crash
  <2>1. /\ \A r \in Requests, a \in Accounts : ~HasStored(r, a) /\ ~HasStored(r, a)'
        /\ account' = account /\ ledger' = ledger
    BY <1>4 DEF HasStored, Crash, InFlight, Storing
  <2>2. FundsOf' = FundsOf
    BY <2>1 DEF FundsKnown, FundsOf
  <2>3. \A r \in Requests : pc'[r] # pc[r] => EntriesOf(r) = {}
    BY <1>4 DEF Crash, InFlight, CarefulInv, LedgerInv, EntriesOK, Storing
  <2>4. \A r \in Requests : pc[r] = "done" => pc'[r] = "done"
    BY <1>4 DEF Crash, InFlight
  <2>5. Booked' = Booked
    BY <2>1, <2>3, <2>4 DEF Booked, EntriesOf
  <2> QED
    BY <1>1, <2>2, <2>5
<1> QED
  BY <1>2, <1>3, <1>4 DEF CarefulNext, CarefulStep, Idle

(* Requests that do not overlap on an account, and that fail before they   *)
(* have stored anything or not at all, behave as atomic operations.        *)
THEOREM BankLedgerImplemented == CarefulSpec => ImplementsBankLedger
<1>1. CarefulInv /\ CarefulInv' /\ [CarefulNext]_vars => [Ledger!Next]_(Ledger!ledgerVars)
  <2>1. CarefulInv => FundsKnown
    BY FundsAreKnown
  <2>2. CarefulInv' => FundsKnown'
    BY FundsAreKnown, PTL
  <2> QED
    BY <2>1, <2>2, NextImplements
<1> QED
  BY <1>1, InitImplements, CarefulInvHolds, PTL
  DEF CarefulSpec, ImplementsBankLedger, Ledger!Spec

-----------------------------------------------------------------------------
(* The connections of requests.                                            *)

(* The connections a request holds are connections its next statement      *)
(* needs: this is why a request that is answered holds none.               *)
PoolInv ==
  /\ Inv
  /\ held \in [Requests -> Nat]
  /\ \A r \in Requests : held[r] <= Demand(r)
  /\ InUse <= Slots

(* A statement of a request, or its end, leaves the other requests where   *)
(* they are.                                                               *)
LEMMA OtherDemands ==
  ASSUME TypeOK, NEW r \in Requests, Step(r) \/ Fail(r), NEW s \in Requests, s # r
  PROVE  Demand(s)' = Demand(s)
<1>1. pc'[s] = pc[s]
  BY DEF TypeOK, Step, Fail, CreateAccountHandler, CheckNumber, InsertAccount,
     MoneyHandler, Authorize, ReadAccount, ReadPeer, WriteAccount, WritePeer,
     RecordAccount, RecordPeer, Commit, Decide, UpdateAccount, Goto, Finish
<1> QED
  BY <1>1 DEF Demand, InFlight

(* The connections in use change with those of one request. *)
LEMMA InUseChanges ==
  ASSUME PoolInv, NEW r \in Requests, NEW n \in Nat, held' = [held EXCEPT ![r] = n]
  PROVE  InUse' = InUse + n - held[r] /\ InUse \in Int
<1>1. IsFiniteSet(Requests)
  BY PoolAssumption
<1>2. held \in [Requests -> Int] /\ held' \in [Requests -> Int]
  BY DEF PoolInv
<1>3. \A s \in Requests \ {r} : held'[s] = held[s]
  BY DEF PoolInv
<1>4. ASSUME NEW g \in [Requests -> Int], g = held'
      PROVE  SumFunction(g) = SumFunction(held) + g[r] - held[r]
  <2>1. \A s \in Requests \ {r} : g[s] = held[s]
    BY <1>3, <1>4
  <2>2. held \in [Requests -> Int]
    BY <1>2
  <2> QED
    BY <1>1, <2>1, <2>2, SumChange
<1>5. SumFunction(held) \in Int
  BY <1>1, <1>2, SumIsInt
<1>6. InUse' = InUse + held'[r] - held[r]
  BY <1>2, <1>4 DEF InUse
<1> QED
  BY <1>5, <1>6 DEF InUse, PoolInv

(* A request takes one of the connections that are free, or none is left   *)
(* and it fails: all of its connections go back.                           *)
LEMMA AcquireInv ==
  ASSUME PoolInv, NEW r \in Requests, Acquire(r)
  PROVE  PoolInv'
<1>1. /\ held[r] \in Nat /\ InUse <= Slots /\ Slots \in Nat
      /\ \A s \in Requests : held[s] <= Demand(s)
  BY PoolAssumption DEF PoolInv
<1>2. CASE InUse < Slots
  <2>1. held' = [held EXCEPT ![r] = held[r] + 1] /\ UNCHANGED vars /\ held[r] < Demand(r)
    BY <1>2 DEF Acquire
  <2>2. Inv' /\ pc' = pc
    BY <2>1, NextInv DEF PoolInv, vars
  <2>3. held' \in [Requests -> Nat]
    BY <1>1, <2>1 DEF PoolInv
  <2>4. \A s \in Requests : Demand(s)' = Demand(s) /\ Demand(s) \in Nat
    BY <2>2 DEF Demand, InFlight
  <2>5. \A s \in Requests : held'[s] <= Demand(s)
    BY <1>1, <2>1, <2>4 DEF PoolInv
  <2>6. InUse' = InUse + (held[r] + 1) - held[r] /\ InUse \in Int
    <3>1. held[r] + 1 \in Nat
      BY <1>1
    <3> QED
      BY <2>1, <3>1, InUseChanges
  <2>7. InUse' <= Slots
    BY <1>1, <1>2, <2>6
  <2> QED
    BY <2>2, <2>3, <2>4, <2>5, <2>7, PoolAssumption DEF PoolInv
<1>3. CASE ~(InUse < Slots)
  <2>1. held' = [held EXCEPT ![r] = 0] /\ Fail(r)
    BY <1>3 DEF Acquire
  <2>2. Inv'
    BY <2>1, StepInv DEF PoolInv
  <2>3. held' \in [Requests -> Nat]
    BY <2>1 DEF PoolInv
  <2>4. \A s \in Requests : Demand(s)' \in Nat
    BY DEF Demand
  <2>5. \A s \in Requests : held'[s] <= Demand(s)'
    BY <1>1, <2>1, <2>4, OtherDemands DEF PoolInv, Inv, TypeOK
  <2>6. InUse' = InUse + 0 - held[r] /\ InUse \in Int
    BY <2>1, InUseChanges
  <2>7. InUse' <= Slots
    BY <1>1, <2>6
  <2> QED
    BY <2>2, <2>3, <2>5, <2>7, PoolAssumption DEF PoolInv
<1> QED
  BY <1>2, <1>3

(* A statement gives back what it took; the connection of a transaction    *)
(* that goes on was among those the request held.                          *)
LEMMA ExecuteInv ==
  ASSUME PoolInv, NEW r \in Requests, Execute(r)
  PROVE  PoolInv'
<1>1. /\ held[r] \in Nat /\ InUse <= Slots /\ Slots \in Nat
      /\ \A s \in Requests : held[s] <= Demand(s)
  BY PoolAssumption DEF PoolInv
<1>2. held' = [held EXCEPT ![r] = Kept(r)] /\ Step(r) /\ held[r] >= Demand(r)
  BY DEF Execute
<1>3. Inv'
  BY <1>2, StepInv DEF PoolInv
<1>4. Kept(r) \in Nat /\ Kept(r) <= Demand(r)'
  BY DEF Kept, Demand, InTransaction, InFlight
<1>5. Kept(r) <= Demand(r)
  BY DEF Kept, Demand, InTransaction, InFlight
<1>6. \A s \in Requests : Demand(s) \in Nat
  BY DEF Demand
<1>7. held' \in [Requests -> Nat]
  BY <1>2, <1>4 DEF PoolInv
<1>8. \A s \in Requests : held'[s] <= Demand(s)'
  BY <1>1, <1>2, <1>4, OtherDemands DEF PoolInv, Inv, TypeOK
<1>9. InUse' = InUse + Kept(r) - held[r] /\ InUse \in Int
  BY <1>2, <1>4, InUseChanges
<1>10. InUse' <= Slots
  <2> HIDE DEF Kept
  <2> QED
    BY <1>1, <1>2, <1>4, <1>5, <1>6, <1>9
<1> QED
  BY <1>3, <1>7, <1>8, <1>10, PoolAssumption DEF PoolInv

(* However many requests there are and however few connections, a request  *)
(* that is answered holds none, and never are more in use than there are.  *)
THEOREM ConnectionsReturnedHolds == PoolSpec => []ConnectionsReturned
<1>1. PoolInit => PoolInv
  <2> SUFFICES ASSUME PoolInit PROVE PoolInv
    OBVIOUS
  <2>1. Inv
    BY InitInv DEF PoolInit
  <2>2. held \in [Requests -> Nat] /\ \A r \in Requests : held[r] = 0
    BY DEF PoolInit
  <2>3. InUse = 0
    BY <2>2, PoolAssumption, SumOfZeros DEF InUse
  <2>4. \A r \in Requests : Demand(r) \in Nat
    BY DEF Demand
  <2> QED
    BY <2>1, <2>2, <2>3, <2>4, PoolAssumption DEF PoolInv
<1>2. PoolInv /\ [PoolNext]_poolVars => PoolInv'
  <2> SUFFICES ASSUME PoolInv, [PoolNext]_poolVars PROVE PoolInv'
    OBVIOUS
  <2>1. CASE UNCHANGED poolVars
    <3>1. Inv' /\ held' = held /\ pc' = pc
      BY <2>1, NextInv DEF PoolInv, poolVars, vars
    <3> QED
      BY <3>1 DEF PoolInv, Demand, InFlight, InUse
  <2> QED
    BY <2>1, AcquireInv, ExecuteInv DEF PoolNext
<1>3. PoolInv => ConnectionsReturned
  BY DEF PoolInv, ConnectionsReturned, Demand, InTransaction, InFlight
<1> QED
  BY <1>1, <1>2, <1>3, PTL DEF PoolSpec
=============================================================================
