------------------------------ MODULE AuthService ------------------------------
(***************************************************************************)
(* Registration, login, and the middleware that admits requests to the     *)
(* protected routes.                                                       *)
(*                                                                         *)
(* Registration is one INSERT; the UNIQUE columns of the table users       *)
(* decide between requests that race for a name or an e-mail.  A login     *)
(* reads the user and compares the password, which takes time (bcrypt),    *)
(* and issues a token that names the user and expires after a day.  Tokens *)
(* are signed: those that can be presented are those that were issued.     *)
(***************************************************************************)
EXTENDS Naturals, FiniteSets

CONSTANTS
  UserIds,    \* primary keys the table users can hold
  Names, Emails, Passwords,
  Requests,   \* HTTP requests
  Registered, \* the users registered before
  Lifetime,   \* how long a token is valid
  Horizon,    \* the last moment of these models
  NoUser,     \* an id without a row
  None

User == [name : Names, email : Emails, password : Passwords]

Call ==
  [op : {"register"}, name : Names, email : Emails, password : Passwords \cup {None}]
    \cup
  [op : {"login"}, name : Names, password : Passwords]
    \cup
  [op : {"protected"}]

Token == [subject : UserIds, expires : Nat]

(* The UNIQUE columns of the table users. *)
Unique(table) ==
  \A u, v \in UserIds :
    /\ table[u] # NoUser /\ table[v] # NoUser
    /\ table[u].name = table[v].name \/ table[u].email = table[v].email
    => u = v

ASSUME AuthAssumption ==
  /\ Lifetime \in Nat \ {0}
  /\ Horizon \in Nat
  /\ NoUser \notin User
  /\ Registered \in [UserIds -> User \cup {NoUser}]
  /\ Unique(Registered)
  /\ None \notin Passwords \cup UserIds \cup Call

VARIABLES
  users,   \* the table users
  tokens,  \* the tokens issued so far
  now,     \* the time
  call,    \* what each request asks for
  pc,      \* what each request does next
  found,   \* the user a login has read, or a protected request acts for
  reply,   \* the answer to each request
  at       \* when it was given

authVars == <<users, tokens, now, call, pc, found, reply, at>>

Goto(r, label) ==
  /\ pc' = [pc EXCEPT ![r] = label]
  /\ UNCHANGED <<reply, at>>

Answer(r, answer) ==
  /\ pc' = [pc EXCEPT ![r] = "done"]
  /\ reply' = [reply EXCEPT ![r] = answer]
  /\ at' = [at EXCEPT ![r] = now]

(* The handlers; a missing field is turned down. *)
Handler(r) ==
  /\ pc[r] = "new"
  /\ \E c \in Call :
       /\ call' = [call EXCEPT ![r] = c]
       /\ IF c.op = "register" /\ c.password = None THEN Answer(r, "invalid")
          ELSE Goto(r, CASE c.op = "register" -> "insert"
                         [] c.op = "login" -> "find"
                         [] c.op = "protected" -> "admit")
  /\ UNCHANGED <<users, tokens, now, found>>

-----------------------------------------------------------------------------
(* Registration. *)

NewUser(c) == [name |-> c.name, email |-> c.email, password |-> c.password]

(* Mutant: only the name is unique. *)
TakenByName(c) == \E u \in UserIds : users[u] # NoUser /\ users[u].name = c.name

Taken(c) ==
  \E u \in UserIds : users[u] # NoUser /\ (users[u].name = c.name \/ users[u].email = c.email)

(* Mutant: ON CONFLICT (username) DO UPDATE. *)
UpsertUser(r) ==
  LET c == call[r]
  IN  /\ pc[r] = "insert"
      /\ \E u \in UserIds :
           /\ IF Taken(c) THEN users[u] # NoUser /\ users[u].name = c.name
              ELSE users[u] = NoUser
           /\ users' = [users EXCEPT ![u] = NewUser(c)]
      /\ Answer(r, "ok")
      /\ UNCHANGED <<tokens, now, call, found>>

(* Register calls every error of the INSERT a user that exists, also one   *)
(* that is reported although the row was inserted.                         *)
CreateUser(r) ==
  LET c == call[r]
  IN  /\ pc[r] = "insert"
      /\ IF Taken(c)
         THEN Answer(r, "exists") /\ UNCHANGED users
         ELSE /\ \E u \in UserIds :
                   users[u] = NoUser /\ users' = [users EXCEPT ![u] = NewUser(c)]
              /\ \E answer \in {"ok", "exists"} : Answer(r, answer)
      /\ UNCHANGED <<tokens, now, call, found>>

-----------------------------------------------------------------------------
(* Login.  Whoever is not found is answered like a wrong password.         *)

FindUserByUsername(r) ==
  LET matching == {u \in UserIds : users[u] # NoUser /\ users[u].name = call[r].name}
  IN  /\ pc[r] = "find"
      /\ IF matching = {}
         THEN Answer(r, "invalid_credentials") /\ UNCHANGED found
         ELSE /\ found' = [found EXCEPT ![r] = CHOOSE u \in matching : TRUE]
              /\ Goto(r, "compare")
      /\ UNCHANGED <<users, tokens, now, call>>

(* Mutant: the result of the comparison is not looked at. *)
PasswordMatchesAny(r) == TRUE

PasswordMatches(r) == users[found[r]].password = call[r].password

ComparePassword(r) ==
  /\ pc[r] = "compare"
  /\ IF PasswordMatches(r)
     THEN /\ tokens' = tokens \cup {[subject |-> found[r], expires |-> now + Lifetime]}
          /\ Answer(r, "ok")
     ELSE Answer(r, "invalid_credentials") /\ UNCHANGED tokens
  /\ UNCHANGED <<users, now, call, found>>

-----------------------------------------------------------------------------
(* Mutant: a token is good for ever. *)
AuthMiddlewareExpired(r) ==
  /\ pc[r] = "admit"
  /\ \/ Answer(r, "unauthorized") /\ UNCHANGED found
     \/ \E t \in tokens :
          /\ found' = [found EXCEPT ![r] = t.subject]
          /\ Answer(r, "admitted")
  /\ UNCHANGED <<users, tokens, now, call>>

(* The middleware: no token, or one that has expired, is refused; the      *)
(* request acts for the token's subject.                                   *)
AuthMiddleware(r) ==
  /\ pc[r] = "admit"
  /\ \/ Answer(r, "unauthorized") /\ UNCHANGED found
     \/ \E t \in tokens :
          /\ now < t.expires
          /\ found' = [found EXCEPT ![r] = t.subject]
          /\ Answer(r, "admitted")
  /\ UNCHANGED <<users, tokens, now, call>>

(* A statement fails without effect. *)
Fail(r) ==
  /\ \/ pc[r] = "insert" /\ Answer(r, "exists")
     \/ pc[r] = "find" /\ Answer(r, "invalid_credentials")
  /\ UNCHANGED <<users, tokens, now, call, found>>

Later ==
  /\ now < Horizon
  /\ now' = now + 1
  /\ UNCHANGED <<users, tokens, call, pc, found, reply, at>>

Step(r) ==
  \/ Handler(r)
  \/ CreateUser(r)
  \/ FindUserByUsername(r) \/ ComparePassword(r)
  \/ AuthMiddleware(r)
  \/ Fail(r)

AuthInit ==
  /\ users = Registered
  /\ tokens = {}
  /\ now = 0
  /\ call = [r \in Requests |-> None]
  /\ pc = [r \in Requests |-> "new"]
  /\ found = [r \in Requests |-> None]
  /\ reply = [r \in Requests |-> "none"]
  /\ at = [r \in Requests |-> 0]

-----------------------------------------------------------------------------
(* Properties.                                                             *)

(* Registrations that race never make two users of one name or e-mail: a   *)
(* login could not tell the former apart.                                  *)
IdentitiesUnique == Unique(users)

(* Who was told of a successful registration stays registered with exactly *)
(* the e-mail and the password given: nobody else's registration takes the *)
(* name over.                                                              *)
AcceptedRegistrationsStand ==
  \A r \in Requests :
    reply[r] = "ok" /\ call[r].op = "register" =>
      \E u \in UserIds : users[u] = NewUser(call[r])

(* A request is admitted only for a user for whom somebody has logged in   *)
(* with the right password, less than a token's lifetime ago.              *)
AdmittedHasLoggedIn ==
  \A r \in Requests :
    reply[r] = "admitted" =>
      \E s \in Requests :
        /\ call[s] = [op |-> "login", name |-> users[found[r]].name,
                      password |-> users[found[r]].password]
        /\ reply[s] = "ok"
        /\ at[r] < at[s] + Lifetime
=============================================================================
