------------------------------ MODULE CardService ------------------------------
(***************************************************************************)
(* Virtual cards: issue, list, verify the CVV, delete.  Gateway composes   *)
(* it with the middleware that says for whom a request acts.               *)
(*                                                                         *)
(* A request about a card is three statements: the handler reads the card, *)
(* then the account it belongs to, to check the owner, and the service     *)
(* works on the card by its id, which another request may have deleted     *)
(* meanwhile.  To verify a CVV it reads the card once more and compares    *)
(* the code, which takes time (bcrypt).  The PGP encryption, the HMAC and  *)
(* bcrypt give back what was put in: a card keeps its CVV.                 *)
(***************************************************************************)
EXTENDS Naturals, FiniteSets

CONSTANTS
  Users,
  Accounts,  \* accounts and the users they belong to
  Owner,
  CardIds,   \* primary keys (uuid.New) the table cards can hold
  Cvvs,      \* CVV codes
  Requests,  \* HTTP requests
  Opening,   \* the cards issued before
  NoCard,    \* a card id that has not been issued
  None

Row == [acct : Accounts, cvv : Cvvs]

Call ==
  [op : {"create", "list"}, user : Users, acct : Accounts \cup {None}]
    \cup
  [op : {"verify"}, user : Users, card : CardIds, cvv : Cvvs \cup {None}]
    \cup
  [op : {"delete"}, user : Users, card : CardIds]

VARIABLES
  issued,   \* the row each id was inserted with; never forgotten
  present,  \* the ids that have a row in the table now
  call,     \* what each request asks for
  pc,       \* the statement each request executes next
  seen,     \* the row that was read last
  reply     \* the answer to each request

cardVars == <<issued, present, call, pc, seen, reply>>

Goto(r, label) ==
  /\ pc' = [pc EXCEPT ![r] = label]
  /\ UNCHANGED reply

Answer(r, answer) ==
  /\ pc' = [pc EXCEPT ![r] = "done"]
  /\ reply' = [reply EXCEPT ![r] = answer]

-----------------------------------------------------------------------------
(* The repository. *)

Inserted(id, row) ==
  /\ issued[id] = NoCard
  /\ issued' = [issued EXCEPT ![id] = row]
  /\ present' = present \cup {id}

Stored(id) == IF id \in present THEN issued[id] ELSE NoCard

-----------------------------------------------------------------------------
(* The handlers.  To create and to list cards, clients name an account; to *)
(* verify and to delete one, the card.                                     *)

NamesAccount(c) == c.op \in {"create", "list"}

Handler(r) ==
  /\ pc[r] = "new"
  /\ \E c \in Call :
       /\ call' = [call EXCEPT ![r] = c]
       /\ IF NamesAccount(c) THEN Goto(r, "account")
          ELSE IF c.op = "verify" /\ c.cvv = None THEN Answer(r, "invalid")
          ELSE Goto(r, "card")
  /\ UNCHANGED <<issued, present, seen>>

GetCardByID(r) ==
  LET id == call[r].card
  IN  /\ pc[r] = "card"
      /\ seen' = [seen EXCEPT ![r] = Stored(id)]
      /\ IF Stored(id) = NoCard THEN Answer(r, "not_found") ELSE Goto(r, "account")
      /\ UNCHANGED <<issued, present, call>>

(* Mutant: the ownership check of the handlers is missing. *)
MayActAnyUser(r, a) == TRUE

MayAct(r, a) == Owner[a] = call[r].user

TargetAccount(r) == IF NamesAccount(call[r]) THEN call[r].acct ELSE seen[r].acct

CheckOwner(r) ==
  LET a == TargetAccount(r)
  IN  /\ pc[r] = "account"
      /\ IF a = None THEN Answer(r, "not_found")
         ELSE IF ~MayAct(r, a) THEN Answer(r, "forbidden")
         ELSE Goto(r, "act")
      /\ UNCHANGED <<issued, present, call, seen>>

-----------------------------------------------------------------------------
(* The service.  A statement that took effect may be reported as failed.   *)

CreateCard(r) ==
  /\ pc[r] = "act"
  /\ call[r].op = "create"
  /\ \E id \in CardIds, cvv \in Cvvs :
       Inserted(id, [acct |-> call[r].acct, cvv |-> cvv])
  /\ \E answer \in {"ok", "error"} : Answer(r, answer)
  /\ UNCHANGED <<call, seen>>

(* One SELECT, then decryption. *)
GetCardsByAccountID(r) ==
  /\ pc[r] = "act"
  /\ call[r].op = "list"
  /\ Answer(r, "ok")
  /\ UNCHANGED <<issued, present, call, seen>>

(* Mutant: the code is compared with the card the handler has read. *)
VerifyCVVOfSeen(r) ==
  /\ pc[r] = "act"
  /\ call[r].op = "verify"
  /\ Goto(r, "compare")
  /\ UNCHANGED <<issued, present, call, seen>>

(* The card is read again; the handler answers every error alike. *)
VerifyCVV(r) ==
  LET row == Stored(call[r].card)
  IN  /\ pc[r] = "act"
      /\ call[r].op = "verify"
      /\ seen' = [seen EXCEPT ![r] = row]
      /\ IF row = NoCard THEN Answer(r, "mismatch") ELSE Goto(r, "compare")
      /\ UNCHANGED <<issued, present, call>>

(* bcrypt takes the hash of the row that was read, whether or not the card *)
(* is deleted meanwhile.                                                   *)
CompareCVV(r) ==
  /\ pc[r] = "compare"
  /\ Answer(r, IF seen[r].cvv = call[r].cvv THEN "ok" ELSE "mismatch")
  /\ UNCHANGED <<issued, present, call, seen>>

(* Mutant: the number of deleted rows is not looked at. *)
DeleteCardUnchecked(r) ==
  /\ pc[r] = "act"
  /\ call[r].op = "delete"
  /\ present' = present \ {call[r].card}
  /\ Answer(r, "ok")
  /\ UNCHANGED <<issued, call, seen>>

DeleteCard(r) ==
  /\ pc[r] = "act"
  /\ call[r].op = "delete"
  /\ present' = present \ {call[r].card}
  /\ \E answer \in {"ok", "error"} :
       /\ call[r].card \notin present => answer = "error"
       /\ Answer(r, answer)
  /\ UNCHANGED <<issued, call, seen>>

(* A statement of the request fails, without effect. *)
Fail(r) ==
  /\ pc[r] \in {"card", "account", "act"}
  /\ Answer(r, IF pc[r] = "act" /\ call[r].op = "verify" THEN "mismatch" ELSE "error")
  /\ UNCHANGED <<issued, present, call, seen>>

Step(r) ==
  \/ Handler(r) \/ GetCardByID(r) \/ CheckOwner(r)
  \/ CreateCard(r) \/ GetCardsByAccountID(r) \/ DeleteCard(r)
  \/ VerifyCVV(r) \/ CompareCVV(r)
  \/ Fail(r)

CardInit ==
  /\ issued = Opening
  /\ present = {id \in CardIds : Opening[id] # NoCard}
  /\ call = [r \in Requests |-> None]
  /\ pc = [r \in Requests |-> "new"]
  /\ seen = [r \in Requests |-> NoCard]
  /\ reply = [r \in Requests |-> "none"]
=============================================================================
