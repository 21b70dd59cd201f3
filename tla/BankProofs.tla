------------------------------ MODULE BankProofs ------------------------------
(***************************************************************************)
(* Double entry, proved: on every account that no stale and no abandoned   *)
(* write has struck, the balance is the sum of the recorded transactions   *)
(* and of what requests in flight have still to record, for every number   *)
(* of requests and credits.  First for the requests alone (AccountAudit),  *)
(* then for requests and scheduler together (Bank), with the refinement    *)
(* that lets the two be reasoned about apart.                              *)
(***************************************************************************)
EXTENDS Bank, AccountServiceProofs, FiniteSums, Sequences

-----------------------------------------------------------------------------
(* The books of an account.                                                *)

(* Only finitely many rows were ever booked on an account, and none on an  *)
(* account that does not exist yet.                                        *)
RowsBooked ==
  \A a \in Accounts : /\ IsFiniteSet(RowsOn(a))
                      /\ account[a] = NoRow => RowsOn(a) = {}

(* What the transactions and the requests in flight make of account a. *)
Books(a) == LedgerTotal(a) + StillToRecord(a)

(* Movements are integers. *)
LEMMA UnrecordedType == Inv => \A r \in Requests : \A a \in Accounts : Unrecorded(r, a) \in Int
<1> SUFFICES ASSUME Inv, NEW r \in Requests, NEW a \in Accounts
             PROVE  Unrecorded(r, a) \in Int
  OBVIOUS
<1>1. CallOK(r)
  BY DEF Inv
<1>2. pc[r] \in {"write_peer", "record", "record_peer"} => call[r] \in Calls /\ call[r].op # "create"
  BY <1>1 DEF CallOK, Authorised
<1>3. pc[r] \in {"write_peer", "record", "record_peer"} => call[r].amount \in Int
  BY <1>2, CallShape
<1> QED
  BY <1>3 DEF Unrecorded, Delta

(* They are also in the state after. *)
LEMMA UnrecordedTypeNext ==
  Inv' => (\A r \in Requests : \A a \in Accounts : Unrecorded(r, a) \in Int)'
BY UnrecordedType, PTL

(* So are the amounts of rows, and their totals. *)
LEMMA BooksType ==
  ASSUME Inv, RowsBooked, NEW a \in Accounts
  PROVE  /\ [row \in RowsOn(a) |-> row.amount] \in [RowsOn(a) -> Int]
         /\ [r \in Requests |-> Unrecorded(r, a)] \in [Requests -> Int]
         /\ LedgerTotal(a) \in Int
         /\ StillToRecord(a) \in Int
<1>1. [row \in RowsOn(a) |-> row.amount] \in [RowsOn(a) -> Int]
  BY DEF Inv, TypeOK, RowsOn
<1>2. [r \in Requests |-> Unrecorded(r, a)] \in [Requests -> Int]
  BY UnrecordedType
<1>3. LedgerTotal(a) \in Int
  BY <1>1, SumIsInt DEF LedgerTotal, RowsBooked
<1>4. StillToRecord(a) \in Int
  BY <1>2, SumIsInt, RequestsAssumption DEF StillToRecord
<1> QED
  BY <1>1, <1>2, <1>3, <1>4

(* A step of one request changes what is still to be recorded by what this *)
(* request still has to record.                                            *)
LEMMA StillToRecordStep ==
  ASSUME Inv, Inv', NEW a \in Accounts, NEW r \in Requests,
         \A s \in Requests \ {r} : pc'[s] = pc[s] /\ call'[s] = call[s]
  PROVE  StillToRecord(a)' = StillToRecord(a) + Unrecorded(r, a)' - Unrecorded(r, a)
<1> DEFINE f == [s \in Requests |-> Unrecorded(s, a)]
           g == [s \in Requests |-> Unrecorded(s, a)']
<1>1. f \in [Requests -> Int]
  BY UnrecordedType
<1>2. g \in [Requests -> Int]
  <2>1. (\A q \in Requests : \A b \in Accounts : Unrecorded(q, b) \in Int)'
    BY UnrecordedTypeNext
  <2> QED
    BY <2>1
<1>3. \A s \in Requests \ {r} : g[s] = f[s]
  BY DEF Unrecorded
<1>4. f[r] = Unrecorded(r, a) /\ g[r] = Unrecorded(r, a)'
  OBVIOUS
<1>5. StillToRecord(a) = SumFunction(f) /\ StillToRecord(a)' = SumFunction(g)
  BY DEF StillToRecord
<1> HIDE DEF f, g
<1>6. SumFunction(g) = SumFunction(f) + g[r] - f[r]
  BY <1>1, <1>2, <1>3, RequestsAssumption, SumChange
<1> QED
  BY <1>4, <1>5, <1>6

(* A row that is booked on account a adds its amount; others add nothing.  *)
LEMMA LedgerTotalStep ==
  ASSUME Inv, RowsBooked, NEW a \in Accounts, NEW row, row \notin ledger,
         ledger' = ledger \cup {row}, row.amount \in Int
  PROVE  /\ IsFiniteSet(RowsOn(a)')
         /\ row.acct = a => LedgerTotal(a)' = LedgerTotal(a) + row.amount
         /\ row.acct # a => RowsOn(a)' = RowsOn(a) /\ LedgerTotal(a)' = LedgerTotal(a)
<1>1. CASE row.acct # a
  <2>1. RowsOn(a)' = RowsOn(a)
    BY <1>1 DEF RowsOn
  <2> QED
    BY <1>1, <2>1 DEF LedgerTotal, RowsBooked
<1>2. CASE row.acct = a
  <2> DEFINE S == RowsOn(a)
             e == [q \in S |-> q.amount]
             f == [q \in S \cup {row} |-> q.amount]
  <2>1. RowsOn(a)' = S \cup {row} /\ row \notin S
    BY <1>2 DEF RowsOn
  <2>2. IsFiniteSet(S) /\ IsFiniteSet(S \cup {row})
    BY FS_AddElement DEF RowsBooked
  <2>3. e \in [S -> Int]
    BY BooksType
  <2>4. f \in [S \cup {row} -> Int] /\ f[row] = row.amount /\ \A q \in S : f[q] = e[q]
    BY <2>3
  <2>5. LedgerTotal(a) = SumFunction(e) /\ LedgerTotal(a)' = SumFunction(f)
    BY <2>1 DEF LedgerTotal
  <2>6. SumFunction(e) \in Int
    BY <2>2, <2>3, SumIsInt
  <2> HIDE DEF S, e, f
  <2>7. SumFunction(f) = f[row] + SumFunction(e)
    BY <2>1, <2>2, <2>3, <2>4, SumAdd
  <2> QED
    BY <1>2, <2>1, <2>2, <2>4, <2>5, <2>6, <2>7
<1> QED
  BY <1>1, <1>2

(* A step of request r touches no local variable of another request.       *)
LEMMA StepIsLocal ==
  ASSUME Inv, NEW r \in Requests, Step(r) \/ Fail(r)
  PROVE  \A s \in Requests \ {r} : pc'[s] = pc[s] /\ call'[s] = call[s]
<1>1. pc \in [Requests -> Labels] /\ call \in [Requests -> Calls \cup {None}]
  BY DEF Inv, TypeOK
<1>2. \A label : Goto(r, label) => \A s \in Requests \ {r} : pc'[s] = pc[s]
  BY <1>1 DEF Goto
<1>3. \A answer : Finish(r, answer) => \A s \in Requests \ {r} : pc'[s] = pc[s]
  BY <1>1 DEF Finish
<1>4. \A verdict, label : Decide(r, verdict, label) => \A s \in Requests \ {r} : pc'[s] = pc[s]
  BY <1>2, <1>3 DEF Decide
<1>5. \A b, v, label : UpdateAccount(r, b, v, label) => \A s \in Requests \ {r} : pc'[s] = pc[s]
  BY <1>2, <1>3 DEF UpdateAccount
<1>6. CASE CreateAccountHandler(r) \/ MoneyHandler(r)
  BY <1>1, <1>4, <1>6 DEF CreateAccountHandler, MoneyHandler
<1>7. CASE CheckNumber(r) \/ Authorize(r)
  BY <1>4, <1>7 DEF CheckNumber, Authorize
<1>8. CASE InsertAccount(r) \/ Commit(r) \/ Fail(r)
  BY <1>3, <1>8 DEF InsertAccount, Commit, Fail
<1>9. CASE ReadAccount(r) \/ ReadPeer(r)
  BY <1>2, <1>3, <1>9 DEF ReadAccount, ReadPeer
<1>10. CASE WriteAccount(r) \/ WritePeer(r)
  BY <1>5, <1>10 DEF WriteAccount, WritePeer
<1>11. CASE RecordAccount(r) \/ RecordPeer(r)
  BY <1>2, <1>11 DEF RecordAccount, RecordPeer
<1> QED
  BY <1>6, <1>7, <1>8, <1>9, <1>10, <1>11 DEF Step

(* The books after a step of request r that books no row, or one new row.  *)
LEMMA BooksStep ==
  ASSUME Inv, Inv', RowsBooked, NEW a \in Accounts, NEW r \in Requests,
         \A s \in Requests \ {r} : pc'[s] = pc[s] /\ call'[s] = call[s]
  PROVE  /\ ledger' = ledger =>
              Books(a)' = Books(a) + Unrecorded(r, a)' - Unrecorded(r, a)
         /\ \A row : /\ row \notin ledger /\ row.amount \in Int
                     /\ ledger' = ledger \cup {row}
                     => Books(a)' = Books(a) + Unrecorded(r, a)' - Unrecorded(r, a)
                                     + (IF row.acct = a THEN row.amount ELSE 0)
<1>1. StillToRecord(a)' = StillToRecord(a) + Unrecorded(r, a)' - Unrecorded(r, a)
  BY StillToRecordStep
<1>2. LedgerTotal(a) \in Int /\ StillToRecord(a) \in Int /\ Unrecorded(r, a) \in Int
  BY BooksType, UnrecordedType
<1>3. Unrecorded(r, a)' \in Int
  BY UnrecordedTypeNext
<1>4. ledger' = ledger => LedgerTotal(a)' = LedgerTotal(a)
  BY DEF LedgerTotal, RowsOn
<1>5. \A row : /\ row \notin ledger /\ row.amount \in Int /\ ledger' = ledger \cup {row}
               => LedgerTotal(a)' = LedgerTotal(a) + (IF row.acct = a THEN row.amount ELSE 0)
  BY <1>2, LedgerTotalStep
<1>6. Books(a) = LedgerTotal(a) + StillToRecord(a) /\ Books(a)' = LedgerTotal(a)' + StillToRecord(a)'
  BY DEF Books
<1> QED
  BY <1>1, <1>2, <1>3, <1>4, <1>5, <1>6

(* A step of request r that neither overwrites a balance it has not seen   *)
(* nor abandons a balance it has written moves the balance of an account   *)
(* and its books alike.                                                    *)
LEMMA StepBooks ==
  ASSUME LedgerInv, RowsBooked, NEW r \in Requests, Step(r) \/ Fail(r),
         NEW a \in Accounts, account[a] # NoRow,
         ~WritesStale(r, a), ~AbandonsWrite(r, a)
  PROVE  account'[a].balance - Books(a)' = account[a].balance - Books(a)
<1> DEFINE c == call[r]
           u == Unrecorded(r, a)
           v == Unrecorded(r, a)'
           Balanced == account'[a].balance - Books(a)' = account[a].balance - Books(a)
<1>1. Inv /\ TypeOK /\ CallOK(r) /\ SeenOK(r) /\ GrantedOK(r) /\ EntriesOK(r)
  BY DEF LedgerInv, Inv
<1>2. Inv'
  BY <1>1, StepInv
<1>3. \A s \in Requests \ {r} : pc'[s] = pc[s] /\ call'[s] = call[s]
  BY <1>1, StepIsLocal
<1>4. /\ u \in Int /\ v \in Int /\ account[a].balance \in Int /\ Books(a) \in Int
  <2>1. account[a].balance \in Int
    BY <1>1 DEF TypeOK, Row
  <2>2. Books(a) \in Int
    BY <1>1, BooksType DEF Books
  <2> QED
    BY <1>1, <1>2, <2>1, <2>2, UnrecordedType, UnrecordedTypeNext
<1>5. ASSUME ledger' = ledger, account'[a].balance = account[a].balance + v - u
      PROVE  Balanced
  <2>1. Books(a)' = Books(a) + v - u
    BY <1>1, <1>2, <1>3, <1>5, BooksStep
  <2> HIDE DEF u, v
  <2> QED
    BY <1>4, <1>5, <2>1
<1>6. ASSUME NEW row, row \notin ledger, row.amount \in Int, ledger' = ledger \cup {row},
             account' = account, u = v + (IF row.acct = a THEN row.amount ELSE 0)
      PROVE  Balanced
  <2>1. Books(a)' = Books(a) + v - u + (IF row.acct = a THEN row.amount ELSE 0)
    BY <1>1, <1>2, <1>3, <1>6, BooksStep
  <2> HIDE DEF u, v
  <2> QED
    BY <1>4, <1>6, <2>1
<1>7. pc[r] # "new" => c \in Calls
  BY <1>1 DEF CallOK
<1>8. c \in Calls /\ c.op # "create" => c.amount \in Int /\ Delta(c) \in Int
  BY CallShape DEF Delta
<1>9. ASSUME NEW answer, Finish(r, answer), ledger' = ledger,
             account'[a].balance = account[a].balance
      PROVE  Balanced
  <2>1. pc'[r] = "done" /\ v = 0
    BY <1>1, <1>9 DEF Finish, TypeOK, Unrecorded
  <2>2. u = 0
    BY <2>1 DEF AbandonsWrite, Unrecorded
  <2> HIDE DEF u, v
  <2> QED
    BY <1>4, <1>5, <1>9, <2>1, <2>2
<1>10. ASSUME pc[r] \notin {"write_peer", "record", "record_peer"},
              pc'[r] \notin {"write_peer", "record", "record_peer"}
       PROVE  u = 0 /\ v = 0
  BY <1>10 DEF Unrecorded
<1>11. CASE CreateAccountHandler(r) \/ MoneyHandler(r)
  <2>1. pc[r] = "new" /\ account' = account /\ ledger' = ledger
    BY <1>11 DEF CreateAccountHandler, MoneyHandler
  <2>2. pc'[r] \in {"check_number", "authorize", "done"}
    BY <1>1, <1>11 DEF CreateAccountHandler, MoneyHandler, Decide, Goto, Finish, TypeOK
  <2>3. u = 0 /\ v = 0
    BY <1>10, <2>1, <2>2
  <2> HIDE DEF u, v
  <2> QED
    BY <1>4, <1>5, <2>1, <2>3
<1>12. CASE CheckNumber(r) \/ Authorize(r)
  <2>1. pc[r] \in {"check_number", "authorize"} /\ account' = account /\ ledger' = ledger
    BY <1>12 DEF CheckNumber, Authorize
  <2>2. pc'[r] \in {"insert", "read", "done"}
    BY <1>1, <1>12 DEF CheckNumber, Authorize, Decide, Goto, Finish, TypeOK
  <2>3. u = 0 /\ v = 0
    BY <1>10, <2>1, <2>2
  <2> HIDE DEF u, v
  <2> QED
    BY <1>4, <1>5, <2>1, <2>3
<1>13. CASE InsertAccount(r)
  <2>1. pc[r] = "insert" /\ ledger' = ledger
    BY <1>13 DEF InsertAccount
  <2>2. PICK answer : Finish(r, answer)
    BY <1>13 DEF InsertAccount
  <2>3. account'[a] = account[a]
    BY <1>1, <1>13 DEF InsertAccount, TypeOK
  <2> QED
    BY <1>9, <2>1, <2>2, <2>3
<1>14. CASE ReadAccount(r) \/ ReadPeer(r)
  <2>1. pc[r] \in {"read", "read_peer"} /\ account' = account /\ ledger' = ledger
    BY <1>14 DEF ReadAccount, ReadPeer
  <2>2. pc'[r] \in {"read_peer", "write", "done"}
    BY <1>1, <1>14 DEF ReadAccount, ReadPeer, Goto, Finish, TypeOK
  <2>3. u = 0 /\ v = 0
    BY <1>10, <2>1, <2>2
  <2> HIDE DEF u, v
  <2> QED
    BY <1>4, <1>5, <2>1, <2>3
<1>15. CASE WriteAccount(r)
  <2>1. pc[r] = "write" /\ ledger' = ledger /\ call' = call
    BY <1>15 DEF WriteAccount
  <2>2. c \in Calls /\ c.op # "create"
    BY <1>1, <2>1 DEF CallOK, Authorised
  <2>3. CASE seen[r].acct + Delta(c) <= MaxBalance
    <3>1. /\ account' = [account EXCEPT ![c.acct].balance = seen[r].acct + Delta(c)]
          /\ pc'[r] = IF c.op = "transfer" THEN "write_peer" ELSE "record"
      BY <1>1, <1>15, <2>3 DEF WriteAccount, UpdateAccount, Goto, TypeOK
    <3>2. u = 0 /\ v = IF a = c.acct THEN Delta(c) ELSE 0
      BY <1>8, <2>1, <2>2, <3>1 DEF Unrecorded
    <3>3. a = c.acct => seen[r].acct = account[a].balance
      BY <2>1, <3>1 DEF WritesStale
    <3>4. account'[a].balance = IF a = c.acct THEN seen[r].acct + Delta(c) ELSE account[a].balance
      BY <1>1, <3>1 DEF TypeOK, Row
    <3> HIDE DEF u, v
    <3>5. account'[a].balance = account[a].balance + v - u
      BY <1>4, <1>8, <2>2, <3>2, <3>3, <3>4
    <3> QED
      BY <1>5, <2>1, <3>5
  <2>4. CASE ~(seen[r].acct + Delta(c) <= MaxBalance)
    <3>1. Finish(r, "error") /\ account' = account
      BY <1>15, <2>4 DEF WriteAccount, UpdateAccount
    <3> QED
      BY <1>9, <2>1, <3>1
  <2> QED
    BY <2>3, <2>4
<1>16. CASE WritePeer(r)
  <2>1. pc[r] = "write_peer" /\ ledger' = ledger /\ call' = call
    BY <1>16 DEF WritePeer
  <2>2. c \in Calls /\ c.op = "transfer"
    BY <1>1, <2>1 DEF CallOK
  <2>3. CASE seen[r].peer + c.amount <= MaxBalance
    <3>1. /\ account' = [account EXCEPT ![c.peer].balance = seen[r].peer + c.amount]
          /\ pc'[r] = "record"
      BY <1>1, <1>16, <2>3 DEF WritePeer, UpdateAccount, Goto, TypeOK
    <3>2. /\ u = IF a = c.acct THEN Delta(c) ELSE 0
          /\ v = (IF a = c.acct THEN Delta(c) ELSE 0) + (IF a = c.peer THEN c.amount ELSE 0)
      BY <1>8, <2>1, <2>2, <3>1 DEF Unrecorded
    <3>3. a = c.peer => seen[r].peer = account[a].balance
      BY <2>1, <3>1 DEF WritesStale
    <3>4. account'[a].balance = IF a = c.peer THEN seen[r].peer + c.amount ELSE account[a].balance
      BY <1>1, <3>1 DEF TypeOK, Row
    <3> HIDE DEF u, v
    <3>5. account'[a].balance = account[a].balance + v - u
      BY <1>4, <1>8, <2>2, <3>2, <3>3, <3>4
    <3> QED
      BY <1>5, <2>1, <3>5
  <2>4. CASE ~(seen[r].peer + c.amount <= MaxBalance)
    <3>1. Finish(r, "error") /\ account' = account
      BY <1>16, <2>4 DEF WritePeer, UpdateAccount
    <3> QED
      BY <1>9, <2>1, <3>1
  <2> QED
    BY <2>3, <2>4
<1>17. CASE RecordAccount(r)
  <2> DEFINE row == AccountEntry(r, c)
  <2>1. pc[r] = "record" /\ account' = account /\ call' = call /\ ledger' = ledger \cup {row}
    BY <1>17 DEF RecordAccount, CreateTransaction
  <2>2. c \in Calls /\ c.op # "create"
    BY <1>1, <2>1 DEF CallOK, Authorised
  <2>3. row.req = r /\ row.acct = c.acct /\ row.amount = Delta(c)
    BY DEF AccountEntry
  <2>4. row \notin ledger
    BY <1>1, <2>1, <2>3 DEF EntriesOK, EntriesOf
  <2>5. pc'[r] = IF c.op = "transfer" THEN "record_peer" ELSE "commit"
    BY <1>1, <1>17 DEF RecordAccount, Goto, TypeOK
  <2>6. u = v + (IF row.acct = a THEN row.amount ELSE 0)
    BY <1>8, <2>1, <2>2, <2>3, <2>5 DEF Unrecorded
  <2>7. row.amount \in Int
    BY <1>8, <2>2, <2>3
  <2> HIDE DEF u, v, row
  <2> QED
    BY <1>6, <2>1, <2>4, <2>6, <2>7
<1>18. CASE RecordPeer(r)
  <2> DEFINE row == PeerEntry(r, c)
  <2>1. pc[r] = "record_peer" /\ account' = account /\ call' = call /\ ledger' = ledger \cup {row}
    BY <1>18 DEF RecordPeer, CreateTransaction
  <2>2. c \in Calls /\ c.op = "transfer"
    BY <1>1, <2>1 DEF CallOK
  <2>3. row.req = r /\ row.acct = c.peer /\ row.amount = c.amount
    BY DEF PeerEntry
  <2>4. row \notin ledger
    <3>1. EntriesOf(r) = {AccountEntry(r, c)}
      BY <1>1, <2>1 DEF EntriesOK
    <3>2. row # AccountEntry(r, c)
      BY <2>2 DEF PeerEntry, AccountEntry, TransactionType
    <3> HIDE DEF row
    <3> QED
      BY <2>3, <3>1, <3>2 DEF EntriesOf
  <2>5. pc'[r] = "commit"
    BY <1>1, <1>18 DEF RecordPeer, Goto, TypeOK
  <2>6. u = v + (IF row.acct = a THEN row.amount ELSE 0)
    BY <1>8, <2>1, <2>2, <2>3, <2>5 DEF Unrecorded
  <2>7. row.amount \in Int
    BY <1>8, <2>2, <2>3
  <2> HIDE DEF u, v, row
  <2> QED
    BY <1>6, <2>1, <2>4, <2>6, <2>7
<1>19. CASE Commit(r) \/ Fail(r)
  <2>1. PICK answer : Finish(r, answer)
    BY <1>19 DEF Commit, Fail
  <2>2. account' = account /\ ledger' = ledger
    BY <1>19 DEF Commit, Fail
  <2> QED
    BY <1>9, <2>1, <2>2
<1> QED
  BY <1>11, <1>12, <1>13, <1>14, <1>15, <1>16, <1>17, <1>18, <1>19 DEF Step

(* A step books no row, or a new row on an account that exists.            *)
LEMMA StepBooksRow ==
  ASSUME LedgerInv, NEW r \in Requests, Step(r) \/ Fail(r)
  PROVE  \/ ledger' = ledger
         \/ \E row : /\ row \notin ledger /\ row.amount \in Int
                     /\ ledger' = ledger \cup {row}
                     /\ row.acct \in Accounts /\ account[row.acct] # NoRow
<1> DEFINE c == call[r]
<1>1. Inv /\ TypeOK /\ CallOK(r) /\ RowsOK(r) /\ EntriesOK(r)
  BY DEF LedgerInv, Inv
<1>2. CASE RecordAccount(r)
  <2> DEFINE row == AccountEntry(r, c)
  <2>1. pc[r] = "record" /\ ledger' = ledger \cup {row}
    BY <1>2 DEF RecordAccount, CreateTransaction
  <2>2. c \in Calls /\ c.op # "create" /\ account[c.acct] # NoRow
    BY <1>1, <2>1 DEF CallOK, RowsOK, Authorised
  <2>3. row.req = r /\ row.acct = c.acct /\ row.amount = Delta(c)
    BY DEF AccountEntry
  <2>4. row \notin ledger
    BY <1>1, <2>1, <2>3 DEF EntriesOK, EntriesOf
  <2>5. c.acct \in Accounts /\ Delta(c) \in Int
    BY <2>2, CallShape DEF Delta
  <2> HIDE DEF row
  <2> QED
    BY <2>1, <2>2, <2>3, <2>4, <2>5
<1>3. CASE RecordPeer(r)
  <2> DEFINE row == PeerEntry(r, c)
  <2>1. pc[r] = "record_peer" /\ ledger' = ledger \cup {row}
    BY <1>3 DEF RecordPeer, CreateTransaction
  <2>2. c \in Calls /\ c.op = "transfer" /\ account[c.peer] # NoRow
    BY <1>1, <2>1 DEF CallOK, RowsOK, PeerRead
  <2>3. row.req = r /\ row.acct = c.peer /\ row.amount = c.amount
    BY DEF PeerEntry
  <2>4. row \notin ledger
    <3>1. EntriesOf(r) = {AccountEntry(r, c)}
      BY <1>1, <2>1 DEF EntriesOK
    <3>2. row # AccountEntry(r, c)
      BY <2>2 DEF PeerEntry, AccountEntry, TransactionType
    <3> HIDE DEF row
    <3> QED
      BY <2>3, <3>1, <3>2 DEF EntriesOf
  <2>5. c.peer \in Accounts /\ c.amount \in Int
    BY <2>2, CallShape
  <2> HIDE DEF row
  <2> QED
    BY <2>1, <2>2, <2>3, <2>4, <2>5
<1>4. CASE ~RecordAccount(r) /\ ~RecordPeer(r)
  BY <1>4 DEF Step, Fail, CreateAccountHandler, CheckNumber, InsertAccount, MoneyHandler,
              Authorize, ReadAccount, ReadPeer, WriteAccount, WritePeer, Commit
<1> QED
  BY <1>2, <1>3, <1>4

(* Rows stay finitely many and on accounts that exist. *)
LEMMA StepRowsBooked ==
  ASSUME LedgerInv, RowsBooked, NEW r \in Requests, Step(r) \/ Fail(r)
  PROVE  RowsBooked'
<1>1. Inv /\ RowsKept
  BY StepKeepsRows DEF LedgerInv
<1>2. \A a \in Accounts : account'[a] = NoRow => account[a] = NoRow
  BY <1>1 DEF RowsKept
<1>3. CASE ledger' = ledger
  BY <1>2, <1>3 DEF RowsBooked, RowsOn
<1>4. ASSUME NEW row, row \notin ledger, row.amount \in Int, ledger' = ledger \cup {row},
             row.acct \in Accounts, account[row.acct] # NoRow
      PROVE  RowsBooked'
  <2> SUFFICES ASSUME NEW a \in Accounts
               PROVE  /\ IsFiniteSet(RowsOn(a)')
                      /\ account'[a] = NoRow => RowsOn(a)' = {}
    BY DEF RowsBooked
  <2>1. /\ IsFiniteSet(RowsOn(a)')
        /\ row.acct # a => RowsOn(a)' = RowsOn(a)
    BY <1>1, <1>4, LedgerTotalStep
  <2> QED
    BY <1>2, <1>4, <2>1 DEF RowsBooked
<1> QED
  BY <1>3, <1>4, StepBooksRow

(* The books of an account that does not exist are empty.                  *)
LEMMA NoBooks ==
  ASSUME Inv, RowsBooked, NEW a \in Accounts, account[a] = NoRow
  PROVE  Books(a) = 0
<1>1. \A r \in Requests : Unrecorded(r, a) = 0
  <2> SUFFICES ASSUME NEW r \in Requests PROVE Unrecorded(r, a) = 0
    OBVIOUS
  <2>1. RowsOK(r)
    BY DEF Inv
  <2> QED
    BY <2>1 DEF RowsOK, Unrecorded, Authorised, PeerRead
<1> DEFINE f == [r \in Requests |-> Unrecorded(r, a)]
           e == [row \in RowsOn(a) |-> row.amount]
<1>2. f \in [Requests -> Int] /\ \A r \in Requests : f[r] = 0
  BY <1>1
<1>3. e \in [RowsOn(a) -> Int] /\ RowsOn(a) = {}
  BY BooksType DEF RowsBooked
<1>4. Books(a) = SumFunction(e) + SumFunction(f)
  BY DEF Books, LedgerTotal, StillToRecord
<1> HIDE DEF e, f
<1>5. SumFunction(f) = 0
  BY <1>2, RequestsAssumption, SumOfZeros
<1>6. SumFunction(e) = 0
  BY <1>3, SumOfNone
<1> QED
  BY <1>4, <1>5, <1>6

(* Nothing moves when no request has more or less to record. *)
LEMMA QuietBooks ==
  ASSUME NEW a, ledger' = ledger, \A r \in Requests : Unrecorded(r, a)' = Unrecorded(r, a)
  PROVE  Books(a)' = Books(a)
<1> DEFINE f == [r \in Requests |-> Unrecorded(r, a)]
           g == [r \in Requests |-> Unrecorded(r, a)']
<1>1. f = g
  OBVIOUS
<1>2. StillToRecord(a) = SumFunction(f) /\ StillToRecord(a)' = SumFunction(g)
  BY DEF StillToRecord
<1>3. LedgerTotal(a)' = LedgerTotal(a)
  BY DEF LedgerTotal, RowsOn
<1> HIDE DEF f, g
<1> QED
  BY <1>1, <1>2, <1>3 DEF Books

(* What a crash leaves unrecorded is abandoned; otherwise nothing moves. *)
LEMMA CrashBooks ==
  ASSUME Crash, NEW a, \A r \in Requests : ~AbandonsWrite(r, a)
  PROVE  Books(a)' = Books(a)
<1>1. ledger' = ledger /\ call' = call
  BY DEF Crash
<1>2. ASSUME NEW r \in Requests
      PROVE  Unrecorded(r, a)' = Unrecorded(r, a)
  <2>1. CASE InFlight(r)
    <3>1. pc'[r] = "done" /\ pc[r] # "done"
      BY <2>1 DEF Crash, InFlight
    <3>2. Unrecorded(r, a) = 0
      BY <3>1 DEF AbandonsWrite
    <3> QED
      BY <3>1, <3>2 DEF Unrecorded
  <2>2. CASE ~InFlight(r)
    BY <1>1, <2>2 DEF Crash, Unrecorded
  <2> QED
    BY <2>1, <2>2
<1> QED
  BY <1>1, <1>2, QuietBooks

-----------------------------------------------------------------------------
(* The surplus of a balance over the books.                                *)

(* An account that does not exist has none. *)
Surplus(a) == IF account[a] = NoRow THEN 0 ELSE account[a].balance - Books(a)

(* An account is opened with the balance its books show: none. *)
LEMMA OpenedBalanced ==
  ASSUME LedgerInv, RowsBooked, NEW r \in Requests, Step(r) \/ Fail(r),
         NEW a \in Accounts, account[a] = NoRow, account'[a] # NoRow
  PROVE  account'[a].balance = 0 /\ Books(a)' = 0
<1>1. Inv /\ TypeOK
  BY DEF LedgerInv, Inv
<1>2. InsertAccount(r)
  BY <1>1, StepKeepsRows DEF NoNewRows
<1>3. pc[r] = "insert" /\ ledger' = ledger /\ \E answer : Finish(r, answer)
  BY <1>2 DEF InsertAccount
<1>4. account'[a].balance = 0
  BY <1>1, <1>2 DEF InsertAccount, TypeOK
<1>5. Unrecorded(r, a) = 0 /\ Unrecorded(r, a)' = 0
  BY <1>1, <1>3 DEF Unrecorded, Finish, TypeOK
<1>6. Books(a) = 0
  BY <1>1, NoBooks
<1>7. Books(a)' = Books(a) + Unrecorded(r, a)' - Unrecorded(r, a)
  BY <1>1, <1>3, StepInv, StepIsLocal, BooksStep
<1> QED
  BY <1>4, <1>5, <1>6, <1>7

(* No step of a request that strikes account a with neither hazard changes *)
(* the surplus of a.                                                       *)
LEMMA StepSurplus ==
  ASSUME LedgerInv, RowsBooked, NEW r \in Requests, Step(r) \/ Fail(r),
         NEW a \in Accounts, ~WritesStale(r, a), ~AbandonsWrite(r, a)
  PROVE  Surplus(a)' = Surplus(a)
<1>1. RowsKept
  BY StepKeepsRows DEF LedgerInv
<1>2. account[a] # NoRow => account'[a] # NoRow
  BY <1>1 DEF RowsKept
<1>3. CASE account[a] # NoRow
  BY <1>2, <1>3, StepBooks DEF Surplus
<1>4. CASE account[a] = NoRow
  BY <1>4, OpenedBalanced DEF Surplus
<1> QED
  BY <1>3, <1>4

(* Nor does a crash. *)
LEMMA CrashSurplus ==
  ASSUME Crash, NEW a \in Accounts, \A r \in Requests : ~AbandonsWrite(r, a)
  PROVE  Surplus(a)' = Surplus(a)
BY CrashBooks DEF Crash, Surplus

(* Before the first request, the balances are those of the opening rows.   *)
LEMMA InitSurplus ==
  ASSUME Init
  PROVE  RowsBooked /\ \A a \in Accounts : Surplus(a) = 0
<1>1. LedgerInv /\ Inv
  BY InitLedger DEF LedgerInv
<1> DEFINE opening(a) == [req |-> None, acct |-> a, type |-> "deposit",
                          amount |-> Opening[a].balance, related |-> None]
<1>2. ASSUME NEW a \in Accounts
      PROVE  RowsOn(a) = IF Opening[a] # NoRow /\ Opening[a].balance > 0
                         THEN {opening(a)} ELSE {}
  BY DEF Init, RowsOn
<1>3. RowsBooked
  <2>1. \A a \in Accounts : IsFiniteSet({opening(a)})
    BY FS_Singleton
  <2> HIDE DEF opening
  <2> QED
    BY <1>2, <2>1, FS_EmptySet DEF RowsBooked, Init
<1>4. ASSUME NEW a \in Accounts
      PROVE  Surplus(a) = 0
  <2> DEFINE f == [r \in Requests |-> Unrecorded(r, a)]
             e == [row \in RowsOn(a) |-> row.amount]
             none == [row \in {} |-> row.amount]
  <2>1. f \in [Requests -> Int] /\ \A r \in Requests : f[r] = 0
    BY DEF Init, Unrecorded
  <2>2. SumFunction(f) = 0
    <3> HIDE DEF f
    <3> QED
      BY <2>1, RequestsAssumption, SumOfZeros
  <2>3. Books(a) = SumFunction(e)
    <3>1. Books(a) = SumFunction(e) + SumFunction(f)
      BY DEF Books, LedgerTotal, StillToRecord
    <3>2. SumFunction(e) \in Int
      BY <1>1, <1>3, BooksType DEF LedgerTotal
    <3> HIDE DEF e, f
    <3> QED
      BY <2>2, <3>1, <3>2
  <2>4. account[a] = Opening[a] /\ (Opening[a] # NoRow => Opening[a].balance \in Nat)
    BY OpeningAssumption, ConstantsAssumption DEF Init, Balances
  <2>5. CASE Opening[a] # NoRow /\ Opening[a].balance > 0
    <3>1. RowsOn(a) = {opening(a)} /\ opening(a).amount = Opening[a].balance
      BY <1>2, <2>5
    <3>2. none \in [{} -> Int] /\ SumFunction(none) = 0
      <4>1. none \in [{} -> Int]
        OBVIOUS
      <4> HIDE DEF none
      <4> QED
        BY <4>1, SumOfNone
    <3>3. e \in [{} \cup {opening(a)} -> Int] /\ e[opening(a)] = Opening[a].balance
      BY <2>4, <2>5, <3>1
    <3>4. SumFunction(e) = e[opening(a)] + SumFunction(none)
      <4> DEFINE first == opening(a)
                 no == {}
      <4>1. /\ IsFiniteSet(no) /\ first \notin no /\ \A y \in no : e[y] = none[y]
            /\ none \in [no -> Int] /\ e \in [no \cup {first} -> Int]
        BY <3>2, <3>3, FS_EmptySet
      <4> HIDE DEF e, none, first, no
      <4>2. SumFunction(e) = e[first] + SumFunction(none)
        BY <4>1, SumAdd
      <4> QED
        BY <4>2 DEF first
    <3> HIDE DEF e, none
    <3> QED
      BY <2>3, <2>4, <2>5, <3>2, <3>3, <3>4 DEF Surplus
  <2>6. CASE ~(Opening[a] # NoRow /\ Opening[a].balance > 0)
    <3>1. RowsOn(a) = {}
      BY <1>2, <2>6
    <3>2. e \in [RowsOn(a) -> Int]
      BY <3>1
    <3>3. SumFunction(e) = 0
      <4> HIDE DEF e
      <4> QED
        BY <3>1, <3>2, SumOfNone
    <3>4. Books(a) = 0
      BY <2>3, <3>3
    <3> QED
      BY <2>4, <2>6, <3>4 DEF Surplus
  <2> QED
    BY <2>5, <2>6
<1> QED
  BY <1>3, <1>4

-----------------------------------------------------------------------------
(* The requests alone.                                                     *)

(* The invariant of AccountService, and a surplus only where a hazard has  *)
(* struck.                                                                 *)
AuditInv ==
  /\ LedgerInv
  /\ RowsBooked
  /\ \A a \in Accounts \ tainted : Surplus(a) = 0

(* The surplus is what UntaintedBalances speaks of. *)
LEMMA SurplusMeaning ==
  ASSUME Inv, RowsBooked, NEW a \in Accounts, account[a] # NoRow
  PROVE  /\ account[a].balance = Surplus(a) + LedgerTotal(a) + StillToRecord(a)
         /\ Surplus(a) \in Int
<1>1. LedgerTotal(a) \in Int /\ StillToRecord(a) \in Int
  BY BooksType
<1>2. account[a].balance \in Int
  BY DEF Inv, TypeOK, Row
<1> QED
  BY <1>1, <1>2 DEF Surplus, Books

(* Every step keeps the invariant. *)
LEMMA AuditNextInv == AuditInv /\ [AuditNext]_auditVars => AuditInv'
<1> SUFFICES ASSUME AuditInv, [AuditNext]_auditVars PROVE AuditInv'
  OBVIOUS
<1>1. LedgerInv /\ RowsBooked /\ \A a \in Accounts \ tainted : Surplus(a) = 0
  BY DEF AuditInv
<1>2. LedgerInv'
  BY <1>1, NextLedger DEF AuditNext, auditVars, vars
<1>3. CASE UNCHANGED vars /\ tainted \subseteq tainted'
  <2>1. \A a \in Accounts : Surplus(a)' = Surplus(a)
    <3> SUFFICES ASSUME NEW a \in Accounts PROVE Surplus(a)' = Surplus(a)
      OBVIOUS
    <3>1. Books(a)' = Books(a)
      BY <1>3, QuietBooks DEF vars, Unrecorded
    <3> QED
      BY <1>3, <3>1 DEF vars, Surplus
  <2>2. RowsBooked'
    BY <1>1, <1>3 DEF vars, RowsBooked, RowsOn
  <2> QED
    BY <1>1, <1>2, <1>3, <2>1, <2>2 DEF AuditInv
<1>4. ASSUME AuditNext, NEW a \in Accounts \ tainted'
      PROVE  a \notin tainted /\ \A r \in Requests : ~WritesStale(r, a) /\ ~AbandonsWrite(r, a)
  BY <1>4 DEF AuditNext
<1>5. CASE AuditNext /\ Crash
  <2>1. \A a \in Accounts \ tainted' : a \notin tainted /\ Surplus(a)' = Surplus(a)
    BY <1>4, <1>5, CrashSurplus
  <2>2. RowsBooked'
    BY <1>1, <1>5 DEF Crash, RowsBooked, RowsOn
  <2> QED
    BY <1>1, <1>2, <2>1, <2>2 DEF AuditInv
<1>6. ASSUME AuditNext, NEW r \in Requests, Step(r) \/ Fail(r)
      PROVE  AuditInv'
  <2>1. \A a \in Accounts \ tainted' : a \notin tainted /\ Surplus(a)' = Surplus(a)
    BY <1>1, <1>4, <1>6, StepSurplus
  <2>2. RowsBooked'
    BY <1>1, <1>6, StepRowsBooked
  <2> QED
    BY <1>1, <1>2, <2>1, <2>2 DEF AuditInv
<1>7. CASE AuditNext /\ Idle
  BY <1>3, <1>7 DEF Idle, AuditNext
<1>8. CASE UNCHANGED auditVars
  BY <1>3, <1>8 DEF auditVars, vars
<1> QED
  BY <1>5, <1>6, <1>7, <1>8 DEF AuditNext, Next

(* As long as no stale and no abandoned write has struck it, the balance   *)
(* of an account is explained by its transactions and by what requests in  *)
(* flight have still to record, for every number of requests.              *)
THEOREM UntaintedBalancesHolds == AuditSpec => []UntaintedBalances
<1>1. AuditInit => AuditInv
  BY InitLedger, InitSurplus DEF AuditInit, AuditInv
<1>2. AuditInv => UntaintedBalances
  <2> SUFFICES ASSUME AuditInv, NEW a \in Accounts, account[a] # NoRow, a \notin tainted
               PROVE  account[a].balance = LedgerTotal(a) + StillToRecord(a)
    BY DEF UntaintedBalances
  <2>1. Inv /\ RowsBooked /\ Surplus(a) = 0
    BY DEF AuditInv, LedgerInv
  <2> QED
    BY <2>1, SurplusMeaning, BooksType
<1> QED
  BY <1>1, <1>2, AuditNextInv, PTL DEF AuditSpec

-----------------------------------------------------------------------------
(* The scheduler inside the bank.                                          *)

(* What is proved of SchedulerService, for the balances of the bank. *)
Loan ==
  INSTANCE SchedulerServiceProofs
    WITH Accounts <- LoanAccounts,
         Owner <- [a \in LoanAccounts |-> Opening[a].owner],
         balance <- [a \in LoanAccounts |-> account[a].balance]

(* The constants of the bank are constants of a scheduler. *)
LEMMA LoanConstants == Loan!CreditAssumption /\ Loan!SchedulerAssumption
BY LoanAssumption DEF Loan!CreditAssumption, Scheduler!CreditAssumption,
   Loan!SchedulerAssumption, Scheduler!SchedulerAssumption, Loan!Application,
   Scheduler!Application, Loan!Credit, Scheduler!Credit, Loan!Borrowers,
   Scheduler!Borrowers, Loan!Statuses, Scheduler!Statuses

(* Its invariant is inductive here, too. *)
LEMMA LoanNextInv == Loan!Inv /\ [Loan!Next]_(Loan!vars) => Loan!Inv'
BY LoanConstants, Loan!NextInv

(* And true at the start. *)
LEMMA LoanInitInv == Loan!Init => Loan!Inv
BY LoanConstants, Loan!InitInv

(* Loan and the instance in Bank are the same scheduler: action for        *)
(* action, they are the same formulas.                                     *)
LEMMA SameScheduler ==
  /\ Loan!Init <=> Scheduler!Init
  /\ Loan!Next <=> Scheduler!Next
  /\ UNCHANGED Loan!vars <=> UNCHANGED Scheduler!vars
  /\ \A k \in CreditIds : Loan!ApplyForCredit(k) <=> Scheduler!ApplyForCredit(k)
<1>1. /\ (Loan!ReadForPayment <=> Scheduler!ReadForPayment)
      /\ (Loan!DebitAccount <=> Scheduler!DebitAccount)
      /\ (Loan!FailPayment <=> Scheduler!FailPayment)
      /\ (Loan!Day <=> Scheduler!Day)
  BY DEF Loan!ReadForPayment, Scheduler!ReadForPayment, Loan!GetCreditByID,
         Scheduler!GetCreditByID, Loan!Paying, Scheduler!Paying,
         Loan!DebitAccount, Scheduler!DebitAccount, Loan!FailPayment,
         Scheduler!FailPayment, Loan!Day, Scheduler!Day
<1>2. Loan!SettlePayment <=> Scheduler!SettlePayment
  BY DEF Loan!SettlePayment, Scheduler!SettlePayment, Loan!Target,
         Scheduler!Target, Loan!Payable, Scheduler!Payable,
         Loan!GetPaymentSchedulesByCreditID,
         Scheduler!GetPaymentSchedulesByCreditID, Loan!DueDate,
         Scheduler!DueDate, Loan!PayInstallment, Scheduler!PayInstallment,
         Loan!UpdateCredit, Scheduler!UpdateCredit, Loan!UpdatePaymentSchedule,
         Scheduler!UpdatePaymentSchedule, Loan!Paying, Scheduler!Paying,
         Loan!Min, Scheduler!Min, Loan!ReduceDebt, Scheduler!ReduceDebt
<1>3. /\ (Loan!EndSweep <=> Scheduler!EndSweep)
      /\ (Loan!SkipCredit <=> Scheduler!SkipCredit)
      /\ (Loan!EndCredit <=> Scheduler!EndCredit)
  BY DEF Loan!EndSweep, Scheduler!EndSweep, Loan!creditVars,
         Scheduler!creditVars, Loan!SkipCredit, Scheduler!SkipCredit,
         Loan!Collectible, Scheduler!Collectible, Loan!LeaveCredit,
         Scheduler!LeaveCredit, Loan!EndCredit, Scheduler!EndCredit
<1>4. /\ (Loan!FailVisit <=> Scheduler!FailVisit)
      /\ (Loan!Crash <=> Scheduler!Crash)
  BY DEF Loan!FailVisit, Scheduler!FailVisit, Loan!Fault, Scheduler!Fault,
         Loan!LeaveCredit, Scheduler!LeaveCredit, Loan!creditVars,
         Scheduler!creditVars, Loan!Crash, Scheduler!Crash, Loan!NoPayment,
         Scheduler!NoPayment
<1>5. /\ (Loan!Tick <=> Scheduler!Tick)
      /\ (Loan!VisitCredit <=> Scheduler!VisitCredit)
  BY DEF Loan!Tick, Scheduler!Tick, Loan!creditVars, Scheduler!creditVars,
         Loan!GetCreditsByUserID, Scheduler!GetCreditsByUserID, Loan!Borrowers,
         Scheduler!Borrowers, Loan!Statuses, Scheduler!Statuses,
         Loan!VisitCredit, Scheduler!VisitCredit,
         Loan!GetPaymentSchedulesByCreditID,
         Scheduler!GetPaymentSchedulesByCreditID, Loan!Collectible,
         Scheduler!Collectible, Loan!Current, Scheduler!Current
<1>6. /\ (Loan!VisitInstallment <=> Scheduler!VisitInstallment)
      /\ (Loan!PaymentResult <=> Scheduler!PaymentResult)
  BY DEF Loan!VisitInstallment, Scheduler!VisitInstallment, Loan!BeginPayment,
         Scheduler!BeginPayment, Loan!Current, Scheduler!Current, Loan!GoOn,
         Scheduler!GoOn, Loan!Overdue, Scheduler!Overdue, Loan!DueDate,
         Scheduler!DueDate, Loan!PaymentResult, Scheduler!PaymentResult,
         Loan!NoPayment, Scheduler!NoPayment
<1>7. Loan!FineInstallment <=> Scheduler!FineInstallment
  BY DEF Loan!FineInstallment, Scheduler!FineInstallment, Loan!AddFine,
         Scheduler!AddFine, Loan!AfterFine, Scheduler!AfterFine, Loan!GoOn,
         Scheduler!GoOn, Loan!Current, Scheduler!Current,
         Loan!UpdatePaymentSchedule, Scheduler!UpdatePaymentSchedule, Loan!Min,
         Scheduler!Min
<1>8. /\ (Loan!MarkOverdue <=> Scheduler!MarkOverdue)
      /\ (Loan!FailFine <=> Scheduler!FailFine)
      /\ (Loan!FailMarkOverdue <=> Scheduler!FailMarkOverdue)
  BY DEF Loan!MarkOverdue, Scheduler!MarkOverdue, Loan!UpdateCredit,
         Scheduler!UpdateCredit, Loan!Current, Scheduler!Current,
         Loan!FailFine, Scheduler!FailFine, Loan!AfterFine,
         Scheduler!AfterFine, Loan!GoOn, Scheduler!GoOn, Loan!Fault,
         Scheduler!Fault, Loan!creditVars, Scheduler!creditVars,
         Loan!FailMarkOverdue, Scheduler!FailMarkOverdue
<1>9. \A k \in CreditIds : Loan!ApplyForCredit(k) <=> Scheduler!ApplyForCredit(k)
  BY DEF Loan!ApplyForCredit, Scheduler!ApplyForCredit, Loan!Unpaid,
         Scheduler!Unpaid, Loan!AmountDue, Scheduler!AmountDue,
         Loan!Rounded, Scheduler!Rounded,
         Loan!CreateCredit, Scheduler!CreateCredit, Loan!Applicant,
         Scheduler!Applicant
<1>10. \A a \in LoanAccounts : Loan!UpdateAccount(a) <=> Scheduler!UpdateAccount(a)
  BY DEF Loan!UpdateAccount, Scheduler!UpdateAccount, Loan!Locked,
         Scheduler!Locked, Loan!Paying, Scheduler!Paying
<1>11. Loan!Fault <=> Scheduler!Fault
  BY DEF Loan!Fault, Scheduler!Fault
<1>s. UNCHANGED Loan!vars <=> UNCHANGED Scheduler!vars
  BY DEF Loan!vars, Scheduler!vars, Loan!creditVars, Scheduler!creditVars, Loan!sweepVars,
         Scheduler!sweepVars
<1>i. Loan!Init <=> Scheduler!Init
  BY DEF Loan!Init, Scheduler!Init, Loan!CreditInit, Scheduler!CreditInit, Loan!Borrowers,
         Scheduler!Borrowers, Loan!NoPayment, Scheduler!NoPayment
<1>n. Loan!Next <=> Scheduler!Next
  BY <1>1, <1>2, <1>3, <1>4, <1>5, <1>6, <1>7, <1>8, <1>9, <1>10, <1>11
     DEF Loan!Next, Scheduler!Next, Loan!Sweep, Scheduler!Sweep, Loan!Failure,
         Scheduler!Failure, Loan!Environment, Scheduler!Environment, Loan!sweepVars,
         Scheduler!sweepVars
<1> QED
  BY <1>9, <1>i, <1>n, <1>s

(* The accounts loans are taken on are open. *)
LoansOpen == \A a \in LoanAccounts : account[a] # NoRow

(* A request stores at most one balance: within its column, in an account  *)
(* it holds the label of.                                                  *)
Stores(r, label, a) ==
  /\ pc[r] = label
  /\ a \in Accounts
  /\ \E b \in Balances : account' = [account EXCEPT ![a].balance = b]

(* What a step of a request does to the balances. *)
LEMMA StepStores ==
  ASSUME Inv, NEW r \in Requests, Step(r)
  PROVE  \/ \A a \in Accounts : account[a] # NoRow => account'[a] = account[a]
         \/ Stores(r, "write", call[r].acct)
         \/ Stores(r, "write_peer", call[r].peer)
<1>1. TypeOK /\ CallOK(r) /\ SeenOK(r) /\ RowsOK(r)
  BY DEF Inv
<1>2. CASE UNCHANGED account
  BY <1>2
<1>3. CASE InsertAccount(r)
  BY <1>1, <1>3 DEF InsertAccount, TypeOK
<1>4. pc[r] # "new" => call[r] \in Calls
  BY <1>1 DEF CallOK
<1>5. CASE WriteAccount(r)
  <2>1. pc[r] = "write" /\ call[r] \in Calls /\ call[r].acct \in Accounts
    BY <1>1, <1>4, <1>5, CallShape DEF WriteAccount, CallOK, Authorised
  <2>2. seen[r].acct + Delta(call[r]) \in Nat
    BY <1>1, <2>1, CallShape, ConstantsAssumption
       DEF CallOK, SeenOK, Authorised, Delta, Balances
  <2> QED
    BY <1>2, <1>5, <2>1, <2>2, ConstantsAssumption
       DEF WriteAccount, UpdateAccount, Stores, Balances
<1>6. CASE WritePeer(r)
  <2>1. pc[r] = "write_peer" /\ call[r] \in Calls /\ call[r].peer \in Accounts
    BY <1>1, <1>4, <1>6, CallShape DEF WritePeer, CallOK, Authorised
  <2>2. seen[r].peer + call[r].amount \in Nat
    BY <1>1, <2>1, CallShape, ConstantsAssumption DEF CallOK, SeenOK, Authorised, Balances
  <2> QED
    BY <1>2, <1>6, <2>1, <2>2, ConstantsAssumption
       DEF WritePeer, UpdateAccount, Stores, Balances
<1> QED
  BY <1>2, <1>3, <1>5, <1>6
     DEF Step, CreateAccountHandler, CheckNumber, MoneyHandler, Authorize, ReadAccount,
         ReadPeer, RecordAccount, RecordPeer, Commit

(* To the scheduler, a step of a request is an UPDATE of one balance that  *)
(* no payment holds, or nothing.                                           *)
LEMMA RequestStepAllowed ==
  ASSUME Inv, LoansOpen, RequestStep
  PROVE  [Scheduler!Next]_(Scheduler!vars)
<1> DEFINE balance == [a \in LoanAccounts |-> account[a].balance]
<1>1. UNCHANGED loanVars
  BY DEF RequestStep
<1>2. ASSUME \A a \in Accounts : account[a] # NoRow => account'[a] = account[a]
      PROVE  UNCHANGED Scheduler!vars
  <2>1. \A a \in LoanAccounts : account'[a] = account[a]
    BY <1>2, BankAssumption DEF LoansOpen
  <2>2. balance' = balance
    BY <2>1
  <2> QED
    BY <1>1, <2>2 DEF Scheduler!vars, Scheduler!creditVars, Scheduler!sweepVars, loanVars
<1>3. PICK r \in Requests : (~Waits(r) /\ Step(r)) \/ Fail(r)
  BY DEF RequestStep
<1>4. CASE Fail(r)
  BY <1>2, <1>4 DEF Fail
<1>5. ASSUME NEW a \in Accounts, NEW b \in Balances,
             account' = [account EXCEPT ![a].balance = b],
             a \in LoanAccounts => ~Scheduler!Locked(a)
      PROVE  [Scheduler!Next]_(Scheduler!vars)
  <2>1. account \in [Accounts -> Row \cup {NoRow}] /\ LoanAccounts \subseteq Accounts
    BY BankAssumption DEF Inv, TypeOK
  <2>2. CASE a \in LoanAccounts
    <3>1. account[a] \in Row
      BY <2>1, <2>2 DEF LoansOpen
    <3>2. balance' = [balance EXCEPT ![a] = b]
      BY <1>5, <2>1, <2>2, <3>1 DEF Row
    <3>3. Scheduler!UpdateAccount(a)
      BY <1>1, <1>5, <2>2, <3>2 DEF Scheduler!UpdateAccount, loanVars, Balances
    <3> QED
      BY <1>1, <2>2, <3>3
         DEF Scheduler!Next, Scheduler!Environment, Scheduler!sweepVars, loanVars
  <2>3. CASE a \notin LoanAccounts
    <3>1. balance' = balance
      BY <1>5, <2>1, <2>3
    <3> QED
      BY <1>1, <3>1 DEF Scheduler!vars, Scheduler!creditVars, Scheduler!sweepVars, loanVars
  <2> QED
    BY <2>2, <2>3
<1>6. CASE ~Waits(r) /\ Step(r)
  <2>1. CASE Stores(r, "write", call[r].acct)
    BY <1>5, <1>6, <2>1 DEF Stores, Waits
  <2>2. CASE Stores(r, "write_peer", call[r].peer)
    BY <1>5, <1>6, <2>2 DEF Stores, Waits
  <2> QED
    BY <1>2, <1>6, <2>1, <2>2, StepStores
<1> QED
  BY <1>3, <1>4, <1>6

(* What the rest of the bank does, the scheduler allows. *)
LEMMA BankStepAllowed ==
  ASSUME Inv, LoansOpen, [BankNext]_bankVars
  PROVE  [Scheduler!Next]_(Scheduler!vars)
<1>1. CASE RequestStep
  BY <1>1, RequestStepAllowed
<1>2. CASE SchedulerStep
  BY <1>2 DEF SchedulerStep, Scheduler!Next, Scheduler!Failure, Scheduler!sweepVars, sweepVars
<1>3. CASE Elsewhere
  BY <1>3 DEF Elsewhere, Scheduler!Next, Scheduler!Environment, Scheduler!sweepVars, sweepVars
<1>4. ASSUME UNCHANGED <<account, loanVars>>
      PROVE  UNCHANGED Scheduler!vars
  BY <1>4 DEF Scheduler!vars, Scheduler!creditVars, Scheduler!sweepVars, loanVars
<1>5. CASE ProcessCrash
  BY <1>4, <1>5 DEF ProcessCrash, Crash, Scheduler!Next, Scheduler!Failure
<1>6. CASE UNCHANGED bankVars
  BY <1>4, <1>6 DEF bankVars
<1> QED
  BY <1>1, <1>2, <1>3, <1>5, <1>6 DEF BankNext

-----------------------------------------------------------------------------
(* What the scheduler does to balances and installments.                   *)

(* The credits taken on account a. *)
CreditsOn(a) == {l \in CreditIds : credit[l] # NoCredit /\ credit[l].acct = a}

(* A sum over credits is a sum over a finite set of naturals. *)
LEMMA CreditsOnType ==
  ASSUME Loan!Inv, NEW a
  PROVE  /\ IsFiniteSet(CreditsOn(a))
         /\ \A k \in CreditIds : collected[k] \in Nat
         /\ [k \in CreditsOn(a) |-> collected[k]] \in [CreditsOn(a) -> Int]
         /\ Installments(a) = SumFunction([k \in CreditsOn(a) |-> collected[k]])
         /\ Installments(a) \in Int
<1>1. \A k \in CreditIds : collected[k] \in Nat
  BY DEF Loan!Inv, Loan!TypeOK, Loan!CreditTypeOK
<1>2. IsFiniteSet(CreditsOn(a))
  BY LoanAssumption, FS_Subset DEF CreditsOn
<1>3. [k \in CreditsOn(a) |-> collected[k]] \in [CreditsOn(a) -> Int]
  BY <1>1 DEF CreditsOn
<1>4. Installments(a) = SumFunction([k \in CreditsOn(a) |-> collected[k]])
  BY DEF Installments, CreditsOn
<1>5. SumFunction([k \in CreditsOn(a) |-> collected[k]]) \in Int
  BY <1>2, <1>3, SumIsInt
<1> QED
  BY <1>1, <1>2, <1>3, <1>4, <1>5

(* Nothing is booked while no credit moves. *)
LEMMA InstallmentsFrame ==
  ASSUME NEW a, \A k \in CreditIds : collected'[k] = collected[k],
         CreditsOn(a)' = CreditsOn(a)
  PROVE  Installments(a)' = Installments(a)
<1>1. \A k \in CreditsOn(a) : k \in CreditIds
  BY DEF CreditsOn
<1>2. [k \in CreditsOn(a) |-> collected'[k]] = [k \in CreditsOn(a) |-> collected[k]]
  BY <1>1
<1>3. Installments(a) = SumFunction([k \in CreditsOn(a) |-> collected[k]])
  BY DEF Installments, CreditsOn
<1>4. Installments(a)' = SumFunction([k \in CreditsOn(a)' |-> collected'[k]])
  BY DEF Installments, CreditsOn
<1> QED
  BY <1>2, <1>3, <1>4

(* The payment that settles is of a credit with an account of the bank,    *)
(* and has seen a balance that covers it.                                  *)
LEMMA Settling ==
  ASSUME Loan!Inv, payment.stage = "settle"
  PROVE  LET k == payment.credit
         IN  /\ k \in CreditIds /\ credit[k] # NoCredit
             /\ credit[k].acct \in LoanAccounts
             /\ payment.amount \in Nat \ {0}
             /\ payment.seen - payment.amount \in Balances
<1> DEFINE k == payment.credit
<1>1. /\ k = Loan!Current /\ Loan!Current \in Loan!Loans /\ payment.amount > 0
      /\ phase = "paying" /\ payment \in Loan!PaymentType
  BY LoanConstants, Loan!PayingPhase DEF Loan!Running
<1>2. payment.seen \in payment.amount .. MaxBalance
  BY <1>1 DEF Loan!Inv, Loan!PaymentOK
<1>3. k \in CreditIds /\ credit[k] # NoCredit
  BY <1>1 DEF Loan!Loans
<1>4. credit[k] \in Loan!Credit
  BY <1>3 DEF Loan!Inv, Loan!TypeOK, Loan!CreditTypeOK
<1>5. credit[k].acct \in LoanAccounts /\ payment.amount \in Nat
  BY <1>1, <1>4 DEF Loan!Credit, Loan!PaymentType
<1> QED
  BY <1>1, <1>2, <1>3, <1>5, ConstantsAssumption DEF Balances

(* No balance, no installment booked, and the same credits. *)
Quiet ==
  /\ UNCHANGED <<account, collected>>
  /\ \A k \in CreditIds : (credit'[k] = NoCredit) <=> (credit[k] = NoCredit)
  /\ \A k \in CreditIds : credit[k] # NoCredit => credit'[k].acct = credit[k].acct

(* UPDATE credits changes neither the rows there are nor their accounts. *)
LEMMA SameCredits ==
  ASSUME Loan!Inv, NEW k \in CreditIds, credit[k] # NoCredit,
         NEW row \in Loan!Credit, Scheduler!UpdateCredit(k, row)
  PROVE  /\ \A l \in CreditIds : (credit'[l] = NoCredit) <=> (credit[l] = NoCredit)
         /\ \A l \in CreditIds : credit[l] # NoCredit => credit'[l].acct = credit[l].acct
<1>1. Loan!CreditTypeOK /\ k \in Loan!Loans
  BY DEF Loan!Inv, Loan!TypeOK, Loan!Loans
<1>2. Loan!UpdateCredit(k, row)
  BY DEF Loan!UpdateCredit, Scheduler!UpdateCredit
<1>3. /\ Loan!Loans' = Loan!Loans
      /\ \A l \in Loan!Loans : credit'[l].acct = credit[l].acct
  BY <1>1, <1>2, LoanConstants, Loan!UpdateCreditRow
<1> QED
  BY <1>3 DEF Loan!Loans

(* A payment that settles stores one balance and books one installment;    *)
(* every other step of the scheduler leaves both alone.                    *)
LEMMA SchedulerStepEffect ==
  ASSUME Inv, Loan!Inv, LoansOpen, SchedulerStep
  PROVE  \/ Quiet
         \/ /\ payment.stage = "settle" /\ account' = Debited
            /\ collected' = [collected EXCEPT ![payment.credit] = @ + payment.amount]
            /\ \A a : CreditsOn(a)' = CreditsOn(a)
<1> DEFINE balance == [a \in LoanAccounts |-> account[a].balance]
           k == payment.credit
           c == credit[k]
<1>1. account \in [Accounts -> Row \cup {NoRow}] /\ LoanAccounts \subseteq Accounts
  BY BankAssumption DEF Inv, TypeOK
<1>2. account' = account \/ (payment.stage = "settle" /\ account' = Debited)
  BY DEF SchedulerStep
<1>3. payment.stage = "settle" =>
        /\ k \in CreditIds /\ c # NoCredit /\ c.acct \in LoanAccounts
        /\ payment.seen - payment.amount \in Balances
  BY Settling
<1>4. ASSUME payment.stage = "settle", account' \in {account, Debited},
             balance'[c.acct] = payment.seen - payment.amount
      PROVE  account' = Debited
  <2>1. account[c.acct] \in Row /\ c.acct \in Accounts /\ c.acct \in LoanAccounts
    BY <1>1, <1>3, <1>4 DEF LoansOpen
  <2>2. CASE account' = account
    <3>1. account[c.acct].balance = payment.seen - payment.amount
      BY <1>4, <2>1, <2>2
    <3>2. [account[c.acct] EXCEPT !.balance = payment.seen - payment.amount] = account[c.acct]
      BY <2>1, <3>1 DEF Row
    <3> QED
      BY <1>1, <2>1, <2>2, <3>2 DEF Debited
  <2> QED
    BY <1>4, <2>2
<1>5. ASSUME balance' = balance
      PROVE  account' = account
  <2>1. CASE payment.stage = "settle" /\ account' = Debited
    <3>1. account[c.acct] \in Row /\ c.acct \in Accounts /\ c.acct \in LoanAccounts
      BY <1>1, <1>3, <2>1 DEF LoansOpen
    <3>2. account'[c.acct].balance = payment.seen - payment.amount
      BY <1>1, <2>1, <3>1 DEF Debited, Row
    <3>3. account[c.acct].balance = payment.seen - payment.amount
      BY <1>5, <3>1, <3>2
    <3>4. [account[c.acct] EXCEPT !.balance = payment.seen - payment.amount] = account[c.acct]
      BY <3>1, <3>3 DEF Row
    <3> QED
      BY <1>1, <2>1, <3>1, <3>4 DEF Debited
  <2> QED
    BY <1>2, <2>1
<1>6. ASSUME balance' = balance, UNCHANGED <<credit, collected>>
      PROVE  Quiet
  BY <1>5, <1>6 DEF Quiet
<1>7. CASE Scheduler!SettlePayment
  <2>1. /\ payment.stage = "settle"
        /\ balance' = [balance EXCEPT ![c.acct] = payment.seen - payment.amount]
        /\ Scheduler!UpdateCredit(k, Scheduler!ReduceDebt(c, payment.amount))
        /\ collected' = [collected EXCEPT ![k] = @ + payment.amount]
    BY <1>7 DEF Scheduler!SettlePayment, Scheduler!Paying
  <2>2. account' = Debited
    BY <1>2, <1>3, <1>4, <2>1
  <2>3. Scheduler!ReduceDebt(c, payment.amount) \in Loan!Credit
    <3>1. c \in Loan!Credit
      BY <1>3, <2>1 DEF Loan!Inv, Loan!TypeOK, Loan!CreditTypeOK
    <3>2. payment.amount \in Nat
      BY <2>1, Settling
    <3>3. Loan!ReduceDebt(c, payment.amount) \in Loan!Credit
      BY <3>1, <3>2, LoanConstants, Loan!ReducedDebt
    <3> QED
      BY <3>3 DEF Loan!ReduceDebt, Scheduler!ReduceDebt
  <2>4. \A a : CreditsOn(a)' = CreditsOn(a)
    BY <1>3, <2>1, <2>3, SameCredits DEF CreditsOn
  <2> QED
    BY <2>1, <2>2, <2>4
<1>8. CASE Scheduler!MarkOverdue
  <2>1. /\ phase = "overdue"
        /\ Scheduler!UpdateCredit(Scheduler!Current, [Head(todo).row EXCEPT !.status = "overdue"])
        /\ balance' = balance /\ UNCHANGED collected
    BY <1>8 DEF Scheduler!MarkOverdue
  <2>2. Loan!Current \in Loan!Loans /\ todo # <<>>
    BY <2>1, LoanConstants, Loan!Within
  <2>3. Loan!CopyOK(Head(todo))
    BY <2>2, LoanConstants, Loan!Visited
  <2>4. [Head(todo).row EXCEPT !.status = "overdue"] \in Loan!Credit
    BY <2>3 DEF Loan!CopyOK, Loan!Credit, Loan!Statuses
  <2>5. Scheduler!Current \in CreditIds /\ credit[Scheduler!Current] # NoCredit
    BY <2>2 DEF Loan!Current, Scheduler!Current, Loan!Loans
  <2>6. account' = account
    BY <1>5, <2>1
  <2> QED
    BY <2>1, <2>4, <2>5, <2>6, SameCredits DEF Quiet
<1>9. CASE Scheduler!ReadForPayment \/ Scheduler!DebitAccount \/ Scheduler!FailPayment
  BY <1>6, <1>9 DEF Scheduler!ReadForPayment, Scheduler!DebitAccount, Scheduler!FailPayment
<1>10. CASE Scheduler!VisitInstallment \/ Scheduler!PaymentResult \/ Scheduler!FineInstallment
  BY <1>6, <1>10 DEF Scheduler!VisitInstallment, Scheduler!PaymentResult,
                     Scheduler!FineInstallment
<1>11. CASE UNCHANGED Scheduler!creditVars
  BY <1>6, <1>11 DEF Scheduler!creditVars
<1> QED
  BY <1>7, <1>8, <1>9, <1>10, <1>11
     DEF SchedulerStep, Scheduler!Sweep, Scheduler!Tick, Scheduler!EndSweep,
         Scheduler!SkipCredit, Scheduler!VisitCredit, Scheduler!EndCredit,
         Scheduler!FailVisit, Scheduler!FailFine, Scheduler!FailMarkOverdue

(* The accounts with the balance of one of them written anew. *)
LEMMA BalanceWritten ==
  ASSUME LedgerInv, NEW a \in Accounts, account[a] # NoRow, NEW b \in Balances,
         account' = [account EXCEPT ![a].balance = b], UNCHANGED requestVars
  PROVE  /\ LedgerInv'
         /\ \A e \in Accounts : account'[e] # NoRow <=> account[e] # NoRow
         /\ \A e \in Accounts : e # a => account'[e] = account[e]
         /\ account'[a].balance = b
<1>1. Inv /\ TypeOK /\ NoOverdraft
  BY DEF LedgerInv, Inv
<1>2. account[a] \in Row /\ [account[a] EXCEPT !.balance = b] \in Row
  BY <1>1, ConstantsAssumption DEF TypeOK, Row, Balances
<1>3. [account[a] EXCEPT !.balance = b] # NoRow
  BY <1>2, ConstantsAssumption
<1>4. account' = [account EXCEPT ![a] = [account[a] EXCEPT !.balance = b]]
  OBVIOUS
<1>5. /\ \A e \in Accounts : e # a => account'[e] = account[e]
      /\ account'[a] = [account[a] EXCEPT !.balance = b]
  BY <1>1, <1>4 DEF TypeOK
<1>6. account'[a].balance = b
  BY <1>2, <1>5 DEF Row
<1>7. RowsKept
  BY <1>2, <1>3, <1>5 DEF RowsKept, Row
<1>8. TypeOK'
  BY <1>1, <1>2, <1>4 DEF TypeOK, requestVars
<1>9. NoOverdraft'
  BY <1>1, <1>5, <1>6 DEF NoOverdraft
<1>10. \A s \in Requests : OwnOK(s)'
  BY <1>1, <1>7, OthersKept DEF requestVars
<1>11. Inv'
  BY <1>8, <1>9, <1>10 DEF Inv, OwnOK
<1>12. \A s \in Requests : GrantedOK(s)' /\ EntriesOK(s)'
  <2>1. \A s \in Requests : EntriesOf(s)' = EntriesOf(s)
    BY DEF requestVars, EntriesOf
  <2> QED
    BY <1>7, <2>1, LedgerOthersKept DEF requestVars
<1>13. OpeningEntriesOK'
  BY DEF LedgerInv, OpeningEntriesOK, requestVars
<1> QED
  BY <1>3, <1>5, <1>6, <1>11, <1>12, <1>13 DEF LedgerInv

-----------------------------------------------------------------------------
(* The invariant of the bank.                                              *)

(* The invariants of both writers of the table accounts, and a surplus     *)
(* that, unless a hazard has struck, is what installments have taken.      *)
BankInv ==
  /\ LedgerInv
  /\ RowsBooked
  /\ LoansOpen
  /\ Loan!Inv
  /\ \A a \in Accounts \ tainted : Surplus(a) = -Installments(a)

(* Steps of the requests, as far as they concern the bank. *)
LEMMA RequestStepBank ==
  ASSUME BankInv, RequestStep, BankNext
  PROVE  /\ LedgerInv' /\ RowsBooked' /\ LoansOpen'
         /\ \A a \in Accounts \ tainted' : Surplus(a)' = -Installments(a)'
<1>1. LedgerInv /\ Inv /\ RowsBooked /\ LoansOpen
  BY DEF BankInv, LedgerInv
<1>2. PICK r \in Requests : Step(r) \/ Fail(r)
  BY DEF RequestStep
<1>3. LedgerInv' /\ RowsBooked' /\ RowsKept
  BY <1>1, <1>2, StepLedgerInv, StepRowsBooked, StepKeepsRows
<1>4. LoansOpen'
  BY <1>1, <1>3, BankAssumption DEF LoansOpen, RowsKept
<1>5. ASSUME NEW a \in Accounts \ tainted'
      PROVE  Surplus(a)' = -Installments(a)'
  <2>1. a \notin tainted /\ ~WritesStale(r, a) /\ ~AbandonsWrite(r, a)
    BY <1>5 DEF BankNext
  <2>2. Surplus(a)' = Surplus(a)
    BY <1>1, <1>2, <2>1, StepSurplus
  <2>3. Installments(a)' = Installments(a)
    BY InstallmentsFrame DEF RequestStep, loanVars, CreditsOn
  <2> QED
    BY <2>1, <2>2, <2>3 DEF BankInv
<1> QED
  BY <1>3, <1>4, <1>5

(* Steps that move neither balances nor requests. *)
LEMMA QuietBank ==
  ASSUME BankInv, UNCHANGED <<account, requestVars>>, tainted \subseteq tainted',
         \A a \in Accounts : Installments(a)' = Installments(a)
  PROVE  /\ LedgerInv' /\ RowsBooked' /\ LoansOpen'
         /\ \A a \in Accounts \ tainted' : Surplus(a)' = -Installments(a)'
<1>1. LedgerInv'
  BY NextLedger DEF BankInv, requestVars, vars
<1>2. RowsBooked' /\ LoansOpen'
  BY DEF BankInv, RowsBooked, RowsOn, LoansOpen, requestVars
<1>3. ASSUME NEW a \in Accounts PROVE Surplus(a)' = Surplus(a)
  <2>1. Books(a)' = Books(a)
    BY QuietBooks DEF requestVars, Unrecorded
  <2> QED
    BY <2>1 DEF Surplus
<1> QED
  BY <1>1, <1>2, <1>3 DEF BankInv

(* Steps of the scheduler. *)
LEMMA SchedulerStepBank ==
  ASSUME BankInv, SchedulerStep, BankNext
  PROVE  /\ LedgerInv' /\ RowsBooked' /\ LoansOpen'
         /\ \A a \in Accounts \ tainted' : Surplus(a)' = -Installments(a)'
<1> DEFINE k == payment.credit
           c == credit[k]
<1>1. /\ LedgerInv /\ Inv /\ RowsBooked /\ LoansOpen /\ Loan!Inv
      /\ UNCHANGED requestVars /\ tainted \subseteq tainted'
  BY DEF BankInv, LedgerInv, SchedulerStep, BankNext
<1>2. CASE Quiet
  <2>1. \A a \in Accounts : CreditsOn(a)' = CreditsOn(a)
    BY <1>2 DEF Quiet, CreditsOn
  <2>2. \A a \in Accounts : Installments(a)' = Installments(a)
    BY <1>2, <2>1, InstallmentsFrame DEF Quiet
  <2> QED
    BY <1>1, <1>2, <2>2, QuietBank DEF Quiet
<1>3. ASSUME payment.stage = "settle", account' = Debited,
             collected' = [collected EXCEPT ![k] = @ + payment.amount],
             \A a : CreditsOn(a)' = CreditsOn(a)
      PROVE  /\ LedgerInv' /\ RowsBooked' /\ LoansOpen'
             /\ \A a \in Accounts \ tainted' : Surplus(a)' = -Installments(a)'
  <2> DEFINE b == payment.seen - payment.amount
  <2>1. /\ k \in CreditIds /\ c # NoCredit /\ c.acct \in LoanAccounts
        /\ payment.amount \in Nat \ {0} /\ b \in Balances
    BY <1>1, <1>3, Settling
  <2>2. c.acct \in Accounts /\ account[c.acct] # NoRow /\ LoanAccounts \subseteq Accounts
    BY <1>1, <2>1, BankAssumption DEF LoansOpen
  <2>3. account' = [account EXCEPT ![c.acct].balance = b]
    BY <1>3 DEF Debited
  <2>4. /\ LedgerInv'
        /\ \A e \in Accounts : account'[e] # NoRow <=> account[e] # NoRow
        /\ \A e \in Accounts : e # c.acct => account'[e] = account[e]
        /\ account'[c.acct].balance = b
    <3> HIDE DEF b, c
    <3> QED
      BY <1>1, <2>1, <2>2, <2>3, BalanceWritten
  <2>5. RowsBooked' /\ LoansOpen'
    BY <1>1, <2>2, <2>4 DEF RowsBooked, RowsOn, LoansOpen, requestVars
  <2>6. ASSUME NEW a \in Accounts PROVE Books(a)' = Books(a)
    BY <1>1, QuietBooks DEF requestVars, Unrecorded
  <2>7. collected \in [CreditIds -> Nat]
    BY <1>1 DEF Loan!Inv, Loan!TypeOK, Loan!CreditTypeOK
  <2>8. ASSUME NEW a \in Accounts \ tainted', a # c.acct
        PROVE  Surplus(a)' = -Installments(a)'
    <3>1. Surplus(a)' = Surplus(a)
      BY <2>4, <2>6, <2>8 DEF Surplus
    <3>2. CreditsOn(a)' = CreditsOn(a) /\ k \notin CreditsOn(a)
      BY <1>3, <2>8 DEF CreditsOn
    <3>3. [l \in CreditsOn(a) |-> collected'[l]] = [l \in CreditsOn(a) |-> collected[l]]
      <4>1. \A l \in CreditsOn(a) : l \in CreditIds /\ l # k
        BY <3>2 DEF CreditsOn
      <4> QED
        BY <1>3, <2>1, <2>7, <4>1
    <3>4. Installments(a)' = Installments(a)
      BY <3>2, <3>3 DEF Installments, CreditsOn
    <3> QED
      BY <1>1, <2>8, <3>1, <3>4 DEF BankInv
  <2>9. ASSUME NEW a \in Accounts \ tainted', a = c.acct
        PROVE  Surplus(a)' = -Installments(a)'
    <3> DEFINE S == CreditsOn(a)
               f == [l \in S |-> collected[l]]
               g == [l \in S |-> collected'[l]]
    <3>1. collected' # collected
      BY <1>3, <2>1, <2>7
    <3>2. payment.seen = account[a].balance
      BY <1>3, <2>2, <2>9, <3>1 DEF BankNext, PaysStale
    <3>3. S' = S /\ k \in S /\ IsFiniteSet(S)
      <4>1. S' = S
        BY <1>3
      <4>2. k \in S
        BY <2>1, <2>9 DEF CreditsOn
      <4> QED
        BY <1>1, <4>1, <4>2, CreditsOnType
    <3>4. /\ f \in [S -> Int] /\ g \in [S -> Int]
          /\ g[k] = f[k] + payment.amount /\ f[k] \in Int
          /\ \A l \in S \ {k} : g[l] = f[l]
      <4>1. \A l \in S : l \in CreditIds
        BY DEF CreditsOn
      <4>2. \A l \in S : collected[l] \in Nat /\ collected'[l] \in Int
        BY <1>3, <2>1, <2>7, <4>1
      <4> HIDE DEF S
      <4> QED
        BY <1>3, <2>1, <2>7, <3>3, <4>1, <4>2
    <3>5. Installments(a) = SumFunction(f) /\ Installments(a) \in Int
      BY <1>1, CreditsOnType
    <3>6. Installments(a)' = SumFunction(g)
      <4>1. [l \in CreditsOn(a) |-> collected[l]]' = g
        BY <1>3
      <4> QED
        BY <1>3 DEF Installments, CreditsOn
    <3>7. SumFunction(g) = SumFunction(f) + g[k] - f[k]
      <4> HIDE DEF f, g, S, k
      <4> QED
        BY <3>3, <3>4, SumChange
    <3>8. account[a].balance \in Int /\ Books(a) \in Int
      BY <1>1, <2>2, <2>9, BooksType DEF Inv, TypeOK, Row, Books
    <3>9. Surplus(a)' = Surplus(a) - payment.amount /\ Surplus(a) \in Int
      <4>1. Surplus(a) = account[a].balance - Books(a)
        BY <2>2, <2>9 DEF Surplus
      <4>2. Surplus(a)' = b - Books(a)
        BY <2>2, <2>4, <2>6, <2>9 DEF Surplus
      <4> QED
        BY <2>1, <3>2, <3>8, <4>1, <4>2
    <3>10. Surplus(a) = -Installments(a)
      BY <1>1, <2>2, <2>9 DEF BankInv
    <3> HIDE DEF f, g, S, k
    <3> QED
      BY <2>1, <3>4, <3>5, <3>6, <3>7, <3>9, <3>10
  <2> QED
    BY <2>4, <2>5, <2>8, <2>9
<1> QED
  BY <1>1, <1>2, <1>3, SchedulerStepEffect

(* A new credit has collected nothing, and a day collects nothing. *)
LEMMA ElsewhereBank ==
  ASSUME BankInv, Elsewhere, BankNext
  PROVE  /\ LedgerInv' /\ RowsBooked' /\ LoansOpen'
         /\ \A a \in Accounts \ tainted' : Surplus(a)' = -Installments(a)'
<1>1. Loan!Inv /\ UNCHANGED <<account, requestVars>> /\ tainted \subseteq tainted'
  BY DEF BankInv, Elsewhere, BankNext
<1>2. ASSUME NEW a \in Accounts, NEW k \in CreditIds, Scheduler!ApplyForCredit(k)
      PROVE  Installments(a)' = Installments(a)
  <2>1. PICK row \in Loan!Credit :
          /\ row # NoCredit /\ credit' = [credit EXCEPT ![k] = row]
          /\ UNCHANGED collected
    <3>1. Loan!ApplyForCredit(k)
      BY <1>2, SameScheduler
    <3>2. UNCHANGED collected
      BY <1>2 DEF Scheduler!ApplyForCredit
    <3> QED
      BY <1>1, <3>1, <3>2, LoanConstants, Loan!GrantedLoan
  <2>2. credit[k] = NoCredit /\ collected[k] = 0
    <3>1. credit[k] = NoCredit
      BY <1>2 DEF Scheduler!ApplyForCredit
    <3> QED
      BY <1>1, <3>1 DEF Loan!Inv, Loan!TablesOK, Loan!Loans
  <2>3. credit \in [CreditIds -> Loan!Credit \cup {NoCredit}]
    BY <1>1 DEF Loan!Inv, Loan!TypeOK, Loan!CreditTypeOK
  <2> DEFINE S == CreditsOn(a)
             T == S \cup {k}
             f == [l \in S |-> collected[l]]
             g == [l \in T |-> collected[l]]
  <2>4. k \notin S
    BY <2>2 DEF CreditsOn
  <2>5. CreditsOn(a)' = IF row.acct = a THEN T ELSE S
    BY <2>1, <2>2, <2>3 DEF CreditsOn
  <2>6. CASE row.acct # a
    BY <2>1, <2>5, <2>6, InstallmentsFrame
  <2>7. CASE row.acct = a
    <3>1. Installments(a) = SumFunction(f) /\ Installments(a) \in Int /\ f \in [S -> Int]
      BY <1>1, CreditsOnType
    <3>2. Installments(a)' = SumFunction(g)
      <4>1. Installments(a)' = SumFunction([l \in CreditsOn(a)' |-> collected'[l]])
        BY DEF Installments, CreditsOn
      <4> QED
        BY <2>1, <2>5, <2>7, <4>1
    <3>3. IsFiniteSet(S) /\ g \in [T -> Int] /\ g[k] = 0 /\ \A l \in S : g[l] = f[l]
      <4>1. IsFiniteSet(S) /\ \A l \in CreditIds : collected[l] \in Nat
        BY <1>1, CreditsOnType
      <4>2. \A l \in T : l \in CreditIds
        BY DEF CreditsOn
      <4> QED
        BY <2>2, <4>1, <4>2
    <3> HIDE DEF S, f, g
    <3>4. SumFunction(g) = g[k] + SumFunction(f)
      BY <2>4, <3>1, <3>3, SumAdd
    <3> QED
      BY <3>1, <3>2, <3>3, <3>4
  <2> QED
    BY <2>6, <2>7
<1>3. ASSUME NEW a \in Accounts, Scheduler!Day
      PROVE  Installments(a)' = Installments(a)
  BY <1>3, InstallmentsFrame DEF Scheduler!Day, CreditsOn
<1>4. \A a \in Accounts : Installments(a)' = Installments(a)
  BY <1>2, <1>3 DEF Elsewhere
<1> QED
  BY <1>1, <1>4, QuietBank

(* A crash collects nothing, and abandons what it leaves unrecorded. *)
LEMMA ProcessCrashBank ==
  ASSUME BankInv, ProcessCrash, BankNext
  PROVE  /\ LedgerInv' /\ RowsBooked' /\ LoansOpen'
         /\ \A a \in Accounts \ tainted' : Surplus(a)' = -Installments(a)'
<1>1. tainted \subseteq tainted' /\ LedgerInv /\ RowsBooked /\ LoansOpen
  BY DEF BankInv, BankNext
<1>2. \A a \in Accounts : Installments(a)' = Installments(a)
  BY InstallmentsFrame DEF ProcessCrash, Scheduler!Crash, loanVars, CreditsOn
<1>3. CASE Crash
  <2>1. LedgerInv' /\ RowsBooked' /\ LoansOpen'
    BY <1>1, <1>3, CrashLedgerInv DEF Crash, RowsBooked, RowsOn, LoansOpen
  <2>2. ASSUME NEW a \in Accounts \ tainted'
        PROVE  a \notin tainted /\ Surplus(a)' = Surplus(a)
    <3>1. a \notin tainted /\ \A r \in Requests : ~AbandonsWrite(r, a)
      BY <2>2 DEF BankNext
    <3> QED
      BY <1>3, <3>1, CrashSurplus
  <2> QED
    BY <1>2, <2>1, <2>2 DEF BankInv
<1>4. CASE UNCHANGED <<account, requestVars>>
  BY <1>1, <1>2, <1>4, QuietBank
<1> QED
  BY <1>3, <1>4 DEF ProcessCrash

(* Every step of the bank keeps its invariant. *)
LEMMA BankNextInv == BankInv /\ [BankNext]_bankVars => BankInv'
<1> SUFFICES ASSUME BankInv, [BankNext]_bankVars PROVE BankInv'
  OBVIOUS
<1>1. Loan!Inv'
  <2>1. Inv /\ LoansOpen /\ Loan!Inv
    BY DEF BankInv, LedgerInv
  <2>2. [Scheduler!Next]_(Scheduler!vars)
    BY <2>1, BankStepAllowed
  <2>3. [Loan!Next]_(Loan!vars)
    BY <2>2, SameScheduler
  <2> QED
    BY <2>1, <2>3, LoanNextInv
<1>2. CASE UNCHANGED bankVars
  <2>1. \A a \in Accounts : Installments(a)' = Installments(a)
    BY <1>2, InstallmentsFrame DEF bankVars, loanVars, CreditsOn
  <2> QED
    BY <1>1, <1>2, <2>1, QuietBank DEF BankInv, bankVars
<1>3. CASE BankNext
  BY <1>1, <1>3, RequestStepBank, SchedulerStepBank, ElsewhereBank, ProcessCrashBank
     DEF BankNext, BankInv
<1> QED
  BY <1>2, <1>3

(* The bank opens with the balances of its opening rows and no credits. *)
LEMMA BankInitInv == BankInit => BankInv /\ Scheduler!Init
<1> SUFFICES ASSUME BankInit PROVE BankInv /\ Scheduler!Init
  OBVIOUS
<1>1. Init
  BY DEF BankInit
<1>2. LedgerInv /\ RowsBooked /\ \A a \in Accounts : Surplus(a) = 0
  BY <1>1, InitLedger, InitSurplus
<1>3. LoansOpen
  BY <1>1, BankAssumption DEF Init, LoansOpen
<1>4. Scheduler!Init
  <2>1. [a \in LoanAccounts |-> account[a].balance] \in [LoanAccounts -> 0 .. MaxBalance]
    BY <1>1, BankAssumption, OpeningAssumption DEF Init, Balances
  <2> QED
    BY <2>1 DEF BankInit, Scheduler!Init, Scheduler!CreditInit
<1>5. Loan!Inv
  BY <1>4, SameScheduler, LoanInitInv
<1>6. ASSUME NEW a \in Accounts PROVE Installments(a) = 0
  <2> DEFINE f == [k \in CreditsOn(a) |-> collected[k]]
  <2>1. CreditsOn(a) = {}
    BY DEF BankInit, CreditsOn
  <2>2. Installments(a) = SumFunction(f) /\ f \in [CreditsOn(a) -> Int]
    BY <1>5, CreditsOnType
  <2> HIDE DEF f
  <2> QED
    BY <2>1, <2>2, SumOfNone
<1> QED
  BY <1>2, <1>3, <1>4, <1>5, <1>6 DEF BankInv

(* The invariant holds throughout. *)
LEMMA BankInvHolds == BankSpec => []BankInv
  BY BankInitInv, BankNextInv, PTL DEF BankSpec

(* With requests and installments writing the same balances, no account is *)
(* overdrawn and no balance leaves its column, for every number of either. *)
THEOREM BankNoOverdraftHolds == BankSpec => []NoOverdraft
<1>1. BankInv => NoOverdraft
  BY DEF BankInv, LedgerInv, Inv
<1> QED
  BY <1>1, BankInvHolds, PTL

(* On every account that no stale and no abandoned write has struck, the   *)
(* balance is what the transactions of requests and of installments say.   *)
THEOREM UntaintedBankBalancesHolds == BankSpec => []UntaintedBankBalances
<1>1. BankInv => UntaintedBankBalances
  <2> SUFFICES ASSUME BankInv, NEW a \in Accounts, account[a] # NoRow, a \notin tainted
               PROVE  account[a].balance = LedgerTotal(a) + StillToRecord(a) - Installments(a)
    BY DEF UntaintedBankBalances
  <2>1. Inv /\ RowsBooked /\ Loan!Inv /\ Surplus(a) = -Installments(a)
    BY DEF BankInv, LedgerInv
  <2>2. Installments(a) \in Int
    BY <2>1, CreditsOnType
  <2> QED
    BY <2>1, <2>2, SurplusMeaning, BooksType
<1> QED
  BY <1>1, BankInvHolds, PTL

(* Requests do to the scheduler nothing but what SchedulerService allows   *)
(* for: the whole process implements the scheduler by itself.              *)
THEOREM SchedulerKeepsItsPromisesHolds == BankSpec => SchedulerKeepsItsPromises
<1>1. BankInit => Scheduler!Init
  BY BankInitInv
<1>2. BankInv /\ [BankNext]_bankVars => [Scheduler!Next]_(Scheduler!vars)
  BY BankStepAllowed DEF BankInv, LedgerInv
<1> QED
  BY <1>1, <1>2, BankInvHolds, PTL DEF BankSpec, SchedulerKeepsItsPromises, Scheduler!Spec

(* So what is proved of the scheduler alone holds inside the bank: the     *)
(* money collected is what the installments, equal or not, have been paid; *)
(* they are settled in order and not paid again, no fine is left on a paid *)
(* one, and no debt falls below what is left to repay.                     *)
THEOREM LoansInTheBank ==
  BankSpec => [](/\ Scheduler!InstallmentsMatchLedger
                 /\ Scheduler!PaidInOrder
                 /\ Scheduler!NoRowPaidAgain
                 /\ Scheduler!FinesOnlyOnOverdue
                 /\ Scheduler!DebtCoversLoan)
<1>1. Loan!Inv => /\ Scheduler!InstallmentsMatchLedger
                  /\ Scheduler!PaidInOrder
                  /\ Scheduler!NoRowPaidAgain
                  /\ Scheduler!FinesOnlyOnOverdue
                  /\ Scheduler!DebtCoversLoan
  <2> SUFFICES ASSUME Loan!Inv
               PROVE  /\ Scheduler!InstallmentsMatchLedger
                      /\ Scheduler!PaidInOrder
                      /\ Scheduler!NoRowPaidAgain
                      /\ Scheduler!FinesOnlyOnOverdue
                      /\ Scheduler!DebtCoversLoan
    OBVIOUS
  <2>1. Scheduler!InstallmentsMatchLedger
    BY DEF Loan!Inv, Loan!InstallmentsMatchLedger, Scheduler!InstallmentsMatchLedger,
           Loan!Loans, Scheduler!Loans, Loan!SumFunction, Scheduler!SumFunction,
           Loan!SumFunctionOnSet, Scheduler!SumFunctionOnSet,
           Loan!FoldFunctionOnSet, Scheduler!FoldFunctionOnSet,
           Loan!MapThenFoldSet, Scheduler!MapThenFoldSet
  <2>2. Scheduler!PaidInOrder
    BY DEF Loan!Inv, Loan!PaidInOrder, Scheduler!PaidInOrder, Loan!Loans, Scheduler!Loans
  <2>5. Scheduler!NoRowPaidAgain
    <3>1. Loan!NoRowPaidAgain
      BY DEF Loan!Inv
    <3> QED
      BY <3>1 DEF Loan!NoRowPaidAgain, Scheduler!NoRowPaidAgain, Loan!Loans, Scheduler!Loans
  <2>3. Scheduler!FinesOnlyOnOverdue
    BY DEF Loan!Inv, Loan!FinesOnlyOnOverdue, Scheduler!FinesOnlyOnOverdue, Loan!Loans,
           Scheduler!Loans, Loan!Overdue, Scheduler!Overdue, Loan!DueDate, Scheduler!DueDate
  <2>4. Scheduler!DebtCoversLoan
    BY DEF Loan!Inv, Loan!DebtCoversLoan, Scheduler!DebtCoversLoan, Loan!Loans, Scheduler!Loans
  <2> QED
    BY <2>1, <2>2, <2>3, <2>4, <2>5
<1> QED
  BY <1>1, BankInvHolds, PTL DEF BankInv
=============================================================================
