---------------------------- MODULE GatewayProofs ----------------------------
(***************************************************************************)
(* Proofs about AuthService, CardService and Gateway, for every set of     *)
(* users, cards, accounts and requests, every table they start from, and   *)
(* every lifetime of tokens: who is admitted, who changes cards, and what  *)
(* answers about cards are worth.                                          *)
(*                                                                         *)
(* A token is proof of a login that succeeded: this is what the invariant  *)
(* adds, together with what each request has established so far.           *)
(***************************************************************************)
EXTENDS Gateway, TLAPS

-----------------------------------------------------------------------------
(* The inductive invariant: users and tokens. *)

AuthLabels == {"new", "insert", "find", "compare", "admit", "done"}

AuthReplies == {"none", "ok", "invalid", "exists", "invalid_credentials",
                "unauthorized", "admitted"}

AuthTypeOK ==
  /\ users \in [UserIds -> User \cup {NoUser}]
  /\ tokens \subseteq Token
  /\ now \in Nat
  /\ call \in [Requests -> Call \cup {None}]
  /\ pc \in [Requests -> AuthLabels]
  /\ found \in [Requests -> UserIds \cup {None}]
  /\ reply \in [Requests -> AuthReplies]
  /\ at \in [Requests -> Nat]

(* The login s has proved the password of user u. *)
Proves(s, u) ==
  /\ users[u] # NoUser
  /\ reply[s] = "ok"
  /\ call[s] = [op |-> "login", name |-> users[u].name, password |-> users[u].password]

(* What request r has established. *)
AuthRequestOK(r) ==
  /\ pc[r] # "new" => call[r] \in Call
  /\ pc[r] = "insert" => call[r].op = "register" /\ call[r].password # None
  /\ pc[r] \in {"find", "compare"} => call[r].op = "login"
  /\ pc[r] = "admit" => call[r].op = "protected"
  /\ pc[r] = "done" <=> reply[r] # "none"
  /\ reply[r] = "admitted" => call[r].op = "protected"
  /\ pc[r] = "compare" => /\ found[r] \in UserIds
                          /\ users[found[r]] # NoUser
                          /\ users[found[r]].name = call[r].name
  /\ reply[r] = "admitted" =>
       /\ found[r] \in UserIds
       /\ \E s \in Requests : Proves(s, found[r]) /\ at[r] < at[s] + Lifetime
  /\ reply[r] = "ok" /\ call[r].op = "register" =>
       \E u \in UserIds : users[u] # NoUser /\ users[u] = NewUser(call[r])

(* Every token was issued for a login that succeeded. *)
TokensOK ==
  \A t \in tokens : \E s \in Requests :
    Proves(s, t.subject) /\ t.expires = at[s] + Lifetime

AuthInv ==
  /\ AuthTypeOK
  /\ IdentitiesUnique
  /\ TokensOK
  /\ \A r \in Requests : AuthRequestOK(r)

-----------------------------------------------------------------------------
(* The inductive invariant: cards. *)

CardLabels == {"new", "card", "account", "act", "compare", "done"}

CardReplies == {"none", "ok", "invalid", "not_found", "forbidden", "mismatch", "error"}

CardTypeOK ==
  /\ issued \in [CardIds -> Cards!Row \cup {NoCard}]
  /\ present \subseteq {id \in CardIds : issued[id] # NoCard}
  /\ asked \in [Requests -> Cards!Call \cup {None}]
  /\ step \in [Requests -> CardLabels]
  /\ seen \in [Requests -> Cards!Row \cup {NoCard}]
  /\ answer \in [Requests -> CardReplies]

(* Request r is about a card. *)
NamesCard(r) == asked[r].op \in {"verify", "delete"}

(* What request r has established, long after its admission. *)
CardRequestOK(r) ==
  /\ step[r] # "new" => /\ asked[r] \in Cards!Call
                        /\ Admitted(r) /\ asked[r].user = found[r]
  /\ step[r] = "done" <=> answer[r] # "none"
  /\ step[r] = "card" => NamesCard(r)
  /\ step[r] \in {"account", "act", "compare"} /\ NamesCard(r) =>
       issued[asked[r].card] # NoCard /\ seen[r] = issued[asked[r].card]
  /\ step[r] = "compare" => asked[r].op = "verify"
  /\ step[r] = "act" =>
       Cards!TargetAccount(r) # None /\ Owner[Cards!TargetAccount(r)] = found[r]
  /\ answer[r] = "ok" /\ asked[r].op = "delete" =>
       issued[asked[r].card] # NoCard /\ asked[r].card \notin present

CardInv ==
  /\ CardTypeOK
  /\ DeletedOnce
  /\ \A r \in Requests : CardRequestOK(r)

Inv == AuthInv /\ CardInv

-----------------------------------------------------------------------------
(* Users and tokens. *)

(* What a request of AuthService asks for. *)
LEMMA CallShape ==
  ASSUME NEW c \in Call
  PROVE  /\ c # None
         /\ c.op \in {"register", "login", "protected"}
         /\ c.op = "register" => /\ c.name \in Names /\ c.email \in Emails
                                 /\ c.password \in Passwords \cup {None}
         /\ c.op = "login" => c = [op |-> "login", name |-> c.name, password |-> c.password]
BY AuthAssumption DEF Call

(* A step of request r leaves the other requests and the users alone. *)
Alone(r) ==
  /\ pc[r] # "done"
  /\ \A s \in Requests : s # r =>
       /\ call'[s] = call[s] /\ pc'[s] = pc[s] /\ found'[s] = found[s]
       /\ reply'[s] = reply[s] /\ at'[s] = at[s]
  /\ \A u \in UserIds : users[u] # NoUser => users'[u] = users[u]

(* A login that has succeeded goes on proving what it proved, and the      *)
(* other requests keep what they have established.                         *)
LEMMA OthersKeep ==
  ASSUME AuthInv, NEW r \in Requests, Alone(r)
  PROVE  /\ \A s \in Requests, u \in UserIds :
              Proves(s, u) => Proves(s, u)' /\ at'[s] = at[s]
         /\ \A s \in Requests : s # r => AuthRequestOK(s)'
<1>1. \A s \in Requests, u \in UserIds : Proves(s, u) => Proves(s, u)' /\ at'[s] = at[s]
  <2> SUFFICES ASSUME NEW s \in Requests, NEW u \in UserIds, Proves(s, u)
               PROVE  Proves(s, u)' /\ at'[s] = at[s]
    OBVIOUS
  <2>1. pc[s] = "done"
    BY DEF AuthInv, AuthRequestOK, Proves
  <2> QED
    BY <2>1 DEF Alone, Proves
<1>2. ASSUME NEW s \in Requests, s # r
      PROVE  AuthRequestOK(s)'
  <2>1. AuthRequestOK(s)
    BY DEF AuthInv
  <2>2. /\ call'[s] = call[s] /\ pc'[s] = pc[s] /\ found'[s] = found[s]
        /\ reply'[s] = reply[s] /\ at'[s] = at[s]
    BY <1>2 DEF Alone
  <2>3. users \in [UserIds -> User \cup {NoUser}]
    BY DEF AuthInv, AuthTypeOK
  <2>4. pc[s] = "compare" => users'[found[s]] = users[found[s]]
    BY <2>1 DEF AuthRequestOK, Alone
  <2>5. reply[s] = "admitted" =>
          (\E l \in Requests : Proves(l, found[s]) /\ at[s] < at[l] + Lifetime)'
    <3> SUFFICES ASSUME reply[s] = "admitted"
                 PROVE  (\E l \in Requests : Proves(l, found[s]) /\ at[s] < at[l] + Lifetime)'
      OBVIOUS
    <3>1. PICK l \in Requests : Proves(l, found[s]) /\ at[s] < at[l] + Lifetime
      BY <2>1 DEF AuthRequestOK
    <3>2. PICK u \in UserIds : u = found[s] /\ u = found'[s]
      BY <2>1, <2>2 DEF AuthRequestOK
    <3>3. Proves(l, u)' /\ at'[l] = at[l]
      BY <1>1, <3>1, <3>2
    <3>4. Proves(l, found[s])'
      BY <3>2, <3>3 DEF Proves
    <3> QED
      BY <2>2, <3>1, <3>3, <3>4
  <2>6. reply[s] = "ok" /\ call[s].op = "register" =>
          \E u \in UserIds : users'[u] # NoUser /\ users'[u] = NewUser(call[s])
    BY <2>1 DEF AuthRequestOK, Alone
  <2> QED
    BY <2>1, <2>2, <2>4, <2>5, <2>6 DEF AuthRequestOK, NewUser
<1> QED
  BY <1>1, <1>2

(* Tokens that were issued stay proofs of a login. *)
LEMMA OldTokens ==
  ASSUME AuthInv, NEW r \in Requests, Alone(r)
  PROVE  \A t \in tokens : \E s \in Requests :
           Proves(s, t.subject)' /\ t.expires = at'[s] + Lifetime
<1> SUFFICES ASSUME NEW t \in tokens
             PROVE  \E s \in Requests : Proves(s, t.subject)' /\ t.expires = at'[s] + Lifetime
  OBVIOUS
<1>1. PICK s \in Requests : Proves(s, t.subject) /\ t.expires = at[s] + Lifetime
  BY DEF AuthInv, TokensOK
<1>2. t.subject \in UserIds
  BY DEF AuthInv, AuthTypeOK, Token
<1> QED
  BY <1>1, <1>2, OthersKeep

(* A request that is answered keeps the types of the control state. *)
LEMMA AnswerType ==
  ASSUME AuthTypeOK, NEW r \in Requests, NEW a \in AuthReplies, Answer(r, a)
  PROVE  /\ pc' \in [Requests -> AuthLabels] /\ reply' \in [Requests -> AuthReplies]
         /\ at' \in [Requests -> Nat]
         /\ pc'[r] = "done" /\ reply'[r] = a /\ at'[r] = now
         /\ \A s \in Requests : s # r =>
              pc'[s] = pc[s] /\ reply'[s] = reply[s] /\ at'[s] = at[s]
BY DEF AuthTypeOK, Answer, AuthLabels

(* A request that goes on keeps them too, and its answer. *)
LEMMA GotoType ==
  ASSUME AuthTypeOK, NEW r \in Requests, NEW label \in AuthLabels, Goto(r, label)
  PROVE  /\ pc' \in [Requests -> AuthLabels] /\ reply' = reply /\ at' = at
         /\ pc'[r] = label
         /\ \A s \in Requests : s # r => pc'[s] = pc[s]
BY DEF AuthTypeOK, Goto, AuthLabels

(* A step that leaves users and tokens alone. *)
LEMMA RequestStep ==
  ASSUME AuthInv, NEW r \in Requests, Alone(r), UNCHANGED <<users, tokens, now>>,
         AuthTypeOK', AuthRequestOK(r)'
  PROVE  AuthInv'
<1>1. IdentitiesUnique'
  BY DEF AuthInv, IdentitiesUnique, Unique
<1>2. TokensOK'
  BY OldTokens DEF TokensOK
<1> QED
  BY <1>1, <1>2, OthersKeep DEF AuthInv

(* The handlers turn a request down or send it to its first statement. *)
LEMMA HandlerInv ==
  ASSUME AuthInv, NEW r \in Requests, Handler(r)
  PROVE  AuthInv'
<1>1. PICK c \in Call :
        /\ call' = [call EXCEPT ![r] = c]
        /\ IF c.op = "register" /\ c.password = None THEN Answer(r, "invalid")
           ELSE Goto(r, CASE c.op = "register" -> "insert"
                          [] c.op = "login" -> "find"
                          [] c.op = "protected" -> "admit")
  BY DEF Handler
<1>2. /\ pc[r] = "new" /\ reply[r] = "none" /\ UNCHANGED <<users, tokens, now>>
      /\ UNCHANGED found
  BY DEF Handler, AuthInv, AuthRequestOK
<1>3. /\ call' \in [Requests -> Call \cup {None}] /\ call'[r] = c
      /\ \A s \in Requests : s # r => call'[s] = call[s]
      /\ AuthTypeOK
  BY <1>1 DEF AuthInv, AuthTypeOK
<1>4. CASE c.op = "register" /\ c.password = None
  <2>1. Answer(r, "invalid") /\ "invalid" \in AuthReplies
    BY <1>1, <1>4 DEF AuthReplies
  <2>2. AuthTypeOK' /\ Alone(r) /\ pc'[r] = "done" /\ reply'[r] = "invalid"
    BY <1>2, <1>3, <2>1, AnswerType DEF AuthTypeOK, Alone
  <2>3. AuthRequestOK(r)'
    BY <1>3, <2>2 DEF AuthRequestOK
  <2> QED
    BY <1>2, <2>2, <2>3, RequestStep
<1>5. CASE ~(c.op = "register" /\ c.password = None)
  <2> DEFINE label == CASE c.op = "register" -> "insert"
                        [] c.op = "login" -> "find"
                        [] c.op = "protected" -> "admit"
  <2>1. Goto(r, label)
    BY <1>1, <1>5
  <2>2. /\ label \in {"insert", "find", "admit"}
        /\ label = "insert" => c.op = "register"
        /\ label = "find" => c.op = "login"
        /\ label = "admit" => c.op = "protected"
    BY CallShape
  <2> HIDE DEF label
  <2>3. AuthTypeOK' /\ Alone(r) /\ pc'[r] = label /\ reply'[r] = "none"
    BY <1>2, <1>3, <2>1, <2>2, GotoType DEF AuthTypeOK, Alone, AuthLabels
  <2>4. AuthRequestOK(r)'
    BY <1>3, <1>5, <2>2, <2>3 DEF AuthRequestOK
  <2> QED
    BY <1>2, <2>3, <2>4, RequestStep
<1> QED
  BY <1>4, <1>5

(* The UNIQUE columns refuse a name or an e-mail that is taken, so a race  *)
(* of registrations never makes two users of one.                          *)
LEMMA CreateUserInv ==
  ASSUME AuthInv, NEW r \in Requests, CreateUser(r)
  PROVE  AuthInv'
<1> DEFINE c == call[r]
<1>1. /\ pc[r] = "insert" /\ c \in Call /\ c.op = "register" /\ c.password # None
      /\ UNCHANGED <<tokens, now, call, found>>
  BY DEF CreateUser, AuthInv, AuthRequestOK
<1>2. AuthTypeOK
  BY DEF AuthInv
<1>3. CASE Taken(c)
  <2>1. Answer(r, "exists") /\ UNCHANGED users /\ "exists" \in AuthReplies
    BY <1>3 DEF CreateUser, AuthReplies
  <2>2. AuthTypeOK' /\ Alone(r) /\ pc'[r] = "done" /\ reply'[r] = "exists"
    BY <1>1, <1>2, <2>1, AnswerType DEF AuthTypeOK, Alone
  <2>3. AuthRequestOK(r)'
    BY <1>1, <2>2 DEF AuthRequestOK
  <2> QED
    BY <1>1, <2>1, <2>2, <2>3, RequestStep
<1>4. CASE ~Taken(c)
  <2>1. PICK u \in UserIds : users[u] = NoUser /\ users' = [users EXCEPT ![u] = NewUser(c)]
    BY <1>4 DEF CreateUser
  <2>2. PICK answer_r \in {"ok", "exists"} : Answer(r, answer_r)
    BY <1>4 DEF CreateUser
  <2>3. answer_r \in AuthReplies
    BY DEF AuthReplies
  <2>4. NewUser(c) \in User /\ NewUser(c) # NoUser
    BY <1>1, CallShape, AuthAssumption DEF NewUser, User
  <2>5. /\ users' \in [UserIds -> User \cup {NoUser}] /\ users'[u] = NewUser(c)
        /\ \A v \in UserIds : v # u => users'[v] = users[v]
    BY <1>2, <2>1, <2>4 DEF AuthTypeOK
  <2>6. AuthTypeOK' /\ Alone(r) /\ pc'[r] = "done" /\ reply'[r] = answer_r
    BY <1>1, <1>2, <2>1, <2>2, <2>3, <2>5, AnswerType DEF AuthTypeOK, Alone
  <2>7. AuthRequestOK(r)'
    BY <1>1, <2>4, <2>5, <2>6 DEF AuthRequestOK
  <2>8. IdentitiesUnique'
    <3>1. NewUser(c).name = c.name /\ NewUser(c).email = c.email
      BY DEF NewUser
    <3>2. \A v \in UserIds : users[v] # NoUser => users[v].name # c.name /\ users[v].email # c.email
      BY <1>4 DEF Taken
    <3> HIDE DEF c
    <3> QED
      BY <2>5, <3>1, <3>2 DEF AuthInv, IdentitiesUnique, Unique
  <2>9. TokensOK'
    BY <1>1, <2>6, OldTokens DEF TokensOK
  <2> QED
    BY <2>6, <2>7, <2>8, <2>9, OthersKeep DEF AuthInv
<1> QED
  BY <1>3, <1>4

(* A login goes on with the one user of that name. *)
LEMMA FindUserInv ==
  ASSUME AuthInv, NEW r \in Requests, FindUserByUsername(r)
  PROVE  AuthInv'
<1> DEFINE matching == {u \in UserIds : users[u] # NoUser /\ users[u].name = call[r].name}
<1>1. /\ pc[r] = "find" /\ call[r] \in Call /\ call[r].op = "login" /\ reply[r] = "none"
      /\ UNCHANGED <<users, tokens, now>> /\ UNCHANGED call
  BY DEF FindUserByUsername, AuthInv, AuthRequestOK
<1>2. AuthTypeOK
  BY DEF AuthInv
<1>3. CASE matching = {}
  <2>1. Answer(r, "invalid_credentials") /\ UNCHANGED found /\ "invalid_credentials" \in AuthReplies
    BY <1>3 DEF FindUserByUsername, AuthReplies
  <2>2. AuthTypeOK' /\ Alone(r) /\ pc'[r] = "done" /\ reply'[r] = "invalid_credentials"
    BY <1>1, <1>2, <2>1, AnswerType DEF AuthTypeOK, Alone
  <2>3. AuthRequestOK(r)'
    BY <1>1, <2>2 DEF AuthRequestOK
  <2> QED
    BY <1>1, <2>2, <2>3, RequestStep
<1>4. CASE matching # {}
  <2> DEFINE u == CHOOSE v \in matching : TRUE
  <2>1. found' = [found EXCEPT ![r] = u] /\ Goto(r, "compare")
    BY <1>4 DEF FindUserByUsername
  <2>2. u \in matching
    BY <1>4
  <2> HIDE DEF u
  <2>3. /\ AuthTypeOK' /\ Alone(r) /\ pc'[r] = "compare" /\ reply'[r] = "none"
        /\ found'[r] = u
    BY <1>1, <1>2, <2>1, <2>2, GotoType DEF AuthTypeOK, Alone, AuthLabels
  <2>4. AuthRequestOK(r)'
    BY <1>1, <2>2, <2>3 DEF AuthRequestOK
  <2> QED
    BY <1>1, <2>3, <2>4, RequestStep
<1> QED
  BY <1>3, <1>4

(* A token is issued only to a login that has proved the password of the   *)
(* user it names, who is still the one the login has read.                 *)
LEMMA ComparePasswordInv ==
  ASSUME AuthInv, NEW r \in Requests, ComparePassword(r)
  PROVE  AuthInv'
<1> DEFINE u == found[r]
<1>1. /\ pc[r] = "compare" /\ call[r] \in Call /\ call[r].op = "login"
      /\ u \in UserIds /\ users[u] # NoUser /\ users[u].name = call[r].name
      /\ UNCHANGED <<users, now, call, found>>
  BY DEF ComparePassword, AuthInv, AuthRequestOK
<1>2. AuthTypeOK
  BY DEF AuthInv
<1>3. CASE PasswordMatches(r)
  <2> DEFINE t == [subject |-> u, expires |-> now + Lifetime]
  <2>1. tokens' = tokens \cup {t} /\ Answer(r, "ok") /\ "ok" \in AuthReplies
    BY <1>3 DEF ComparePassword, AuthReplies
  <2>2. t \in Token
    BY <1>1, <1>2, AuthAssumption DEF Token, AuthTypeOK
  <2>3. AuthTypeOK' /\ Alone(r) /\ pc'[r] = "done" /\ reply'[r] = "ok" /\ at'[r] = now
    BY <1>1, <1>2, <2>1, <2>2, AnswerType DEF AuthTypeOK, Alone
  <2>4. AuthRequestOK(r)'
    BY <1>1, <2>3 DEF AuthRequestOK
  <2>5. Proves(r, u)'
    <3>1. call[r] = [op |-> "login", name |-> users[u].name, password |-> users[u].password]
      BY <1>1, <1>3, CallShape DEF PasswordMatches
    <3> QED
      BY <1>1, <2>3, <3>1 DEF Proves
  <2>6. TokensOK'
    <3> SUFFICES ASSUME NEW x \in tokens'
                 PROVE  \E s \in Requests : Proves(s, x.subject)' /\ x.expires = at'[s] + Lifetime
      BY DEF TokensOK
    <3>1. CASE x \in tokens
      BY <2>3, <3>1, OldTokens
    <3>2. CASE x = t
      <4>1. Proves(r, x.subject)' /\ x.expires = at'[r] + Lifetime
        BY <1>1, <2>3, <2>5, <3>2 DEF Proves
      <4> QED
        BY <4>1
    <3> QED
      BY <2>1, <3>1, <3>2
  <2>7. IdentitiesUnique'
    BY <1>1 DEF AuthInv, IdentitiesUnique, Unique
  <2> QED
    BY <2>3, <2>4, <2>6, <2>7, OthersKeep DEF AuthInv
<1>4. CASE ~PasswordMatches(r)
  <2>1. Answer(r, "invalid_credentials") /\ UNCHANGED tokens /\ "invalid_credentials" \in AuthReplies
    BY <1>4 DEF ComparePassword, AuthReplies
  <2>2. AuthTypeOK' /\ Alone(r) /\ pc'[r] = "done" /\ reply'[r] = "invalid_credentials"
    BY <1>1, <1>2, <2>1, AnswerType DEF AuthTypeOK, Alone
  <2>3. AuthRequestOK(r)'
    BY <1>1, <2>2 DEF AuthRequestOK
  <2> QED
    BY <1>1, <2>1, <2>2, <2>3, RequestStep
<1> QED
  BY <1>3, <1>4

(* Who presents a token that has not expired was admitted within its       *)
(* lifetime after the login.                                               *)
LEMMA AuthMiddlewareInv ==
  ASSUME AuthInv, NEW r \in Requests, AuthMiddleware(r)
  PROVE  AuthInv'
<1>1. /\ pc[r] = "admit" /\ call[r] \in Call /\ call[r].op = "protected"
      /\ UNCHANGED <<users, tokens, now>> /\ UNCHANGED call
  BY DEF AuthMiddleware, AuthInv, AuthRequestOK
<1>2. AuthTypeOK
  BY DEF AuthInv
<1>3. CASE Answer(r, "unauthorized") /\ UNCHANGED found
  <2>1. "unauthorized" \in AuthReplies
    BY DEF AuthReplies
  <2>2. AuthTypeOK' /\ Alone(r) /\ pc'[r] = "done" /\ reply'[r] = "unauthorized"
    BY <1>1, <1>2, <1>3, <2>1, AnswerType DEF AuthTypeOK, Alone
  <2>3. AuthRequestOK(r)'
    BY <1>1, <2>2 DEF AuthRequestOK
  <2> QED
    BY <1>1, <2>2, <2>3, RequestStep
<1>4. ASSUME NEW t \in tokens, now < t.expires, found' = [found EXCEPT ![r] = t.subject],
             Answer(r, "admitted")
      PROVE  AuthInv'
  <2>1. "admitted" \in AuthReplies /\ t.subject \in UserIds
    BY <1>2 DEF AuthReplies, AuthTypeOK, Token
  <2>2. /\ AuthTypeOK' /\ Alone(r) /\ pc'[r] = "done" /\ reply'[r] = "admitted"
        /\ found'[r] = t.subject /\ at'[r] = now
    BY <1>1, <1>2, <1>4, <2>1, AnswerType DEF AuthTypeOK, Alone
  <2>3. PICK s \in Requests : Proves(s, t.subject) /\ t.expires = at[s] + Lifetime
    BY DEF AuthInv, TokensOK
  <2>4. Proves(s, found[r])' /\ at'[r] < at'[s] + Lifetime
    <3>1. Proves(s, t.subject)' /\ at'[s] = at[s]
      BY <2>1, <2>2, <2>3, OthersKeep
    <3> QED
      BY <1>4, <2>2, <2>3, <3>1 DEF Proves
  <2>5. AuthRequestOK(r)'
    BY <1>1, <2>1, <2>2, <2>4 DEF AuthRequestOK
  <2> QED
    BY <1>1, <2>2, <2>5, RequestStep
<1> QED
  BY <1>3, <1>4 DEF AuthMiddleware

(* A failing statement only answers its request. *)
LEMMA AuthFailInv ==
  ASSUME AuthInv, NEW r \in Requests, Fail(r)
  PROVE  AuthInv'
<1>1. PICK a \in {"exists", "invalid_credentials"} : Answer(r, a)
  BY DEF Fail
<1>2. /\ pc[r] \in {"insert", "find"} /\ call[r] \in Call
      /\ UNCHANGED <<users, tokens, now>> /\ UNCHANGED <<call, found>>
  BY DEF Fail, AuthInv, AuthRequestOK
<1>3. a \in AuthReplies /\ AuthTypeOK
  BY DEF AuthReplies, AuthInv
<1>4. AuthTypeOK' /\ Alone(r) /\ pc'[r] = "done" /\ reply'[r] = a
  BY <1>1, <1>2, <1>3, AnswerType DEF AuthTypeOK, Alone
<1>5. AuthRequestOK(r)'
  BY <1>2, <1>4 DEF AuthRequestOK
<1> QED
  BY <1>2, <1>4, <1>5, RequestStep

(* Steps that change nothing but the time. *)
LEMMA AuthUnchanged ==
  ASSUME AuthInv, UNCHANGED <<users, tokens, call, pc, found, reply, at>>, now' \in Nat
  PROVE  AuthInv'
<1>1. AuthTypeOK' /\ IdentitiesUnique'
  BY DEF AuthInv, AuthTypeOK, IdentitiesUnique, Unique
<1>2. TokensOK'
  BY DEF AuthInv, TokensOK, Proves
<1>3. \A r \in Requests : AuthRequestOK(r)'
  BY DEF AuthInv, AuthRequestOK, Proves
<1> QED
  BY <1>1, <1>2, <1>3 DEF AuthInv

(* Every step of users and tokens keeps their invariant. *)
LEMMA AuthStepInv ==
  ASSUME AuthInv, Later \/ \E r \in Requests : Step(r)
  PROVE  AuthInv'
<1>1. CASE Later
  <2>1. now' \in Nat
    BY <1>1 DEF Later, AuthInv, AuthTypeOK
  <2> QED
    BY <1>1, <2>1, AuthUnchanged DEF Later
<1>2. ASSUME NEW r \in Requests, Step(r)
      PROVE  AuthInv'
  BY <1>2, HandlerInv, CreateUserInv, FindUserInv, ComparePasswordInv, AuthMiddlewareInv,
     AuthFailInv DEF Step
<1> QED
  BY <1>1, <1>2

(* It holds at the start: users, but no token and no answer. *)
LEMMA AuthInitInv == AuthInit => AuthInv
<1> SUFFICES ASSUME AuthInit PROVE AuthInv
  OBVIOUS
<1>1. AuthTypeOK
  BY AuthAssumption DEF AuthInit, AuthTypeOK, AuthLabels, AuthReplies
<1>2. IdentitiesUnique /\ TokensOK
  BY AuthAssumption DEF AuthInit, IdentitiesUnique, TokensOK
<1>3. \A r \in Requests : AuthRequestOK(r)
  BY DEF AuthInit, AuthRequestOK
<1> QED
  BY <1>1, <1>2, <1>3 DEF AuthInv

-----------------------------------------------------------------------------
(* Cards. *)

(* What a request of CardService asks for. *)
LEMMA CardCallShape ==
  ASSUME NEW c \in Cards!Call
  PROVE  /\ c # None /\ c.user \in UserIds
         /\ c.op \in {"create", "list", "verify", "delete"}
         /\ c.op \in {"create", "list"} => c.acct \in Accounts \cup {None}
         /\ c.op \in {"verify", "delete"} => c.card \in CardIds
BY GatewayAssumption DEF Cards!Call

(* A step of request r leaves the other requests alone, and cards that     *)
(* were issued stay issued.                                                *)
CardAlone(r) ==
  /\ step[r] # "done"
  /\ \A s \in Requests : s # r =>
       asked'[s] = asked[s] /\ step'[s] = step[s] /\ seen'[s] = seen[s] /\ answer'[s] = answer[s]
  /\ \A id \in CardIds : issued[id] # NoCard => issued'[id] = issued[id]
  /\ \A id \in CardIds : issued[id] # NoCard /\ id \notin present => id \notin present'
  /\ UNCHANGED authVars

(* The other requests keep what they have established about their cards. *)
LEMMA OtherCards ==
  ASSUME CardInv, NEW r \in Requests, CardAlone(r)
  PROVE  \A s \in Requests : s # r => CardRequestOK(s)'
<1> SUFFICES ASSUME NEW s \in Requests, s # r
             PROVE  CardRequestOK(s)'
  OBVIOUS
<1>1. CardRequestOK(s)
  BY DEF CardInv
<1>2. /\ asked'[s] = asked[s] /\ step'[s] = step[s] /\ seen'[s] = seen[s]
      /\ answer'[s] = answer[s] /\ found'[s] = found[s] /\ reply'[s] = reply[s]
  BY DEF CardAlone, authVars
<1>3. step[s] # "new" /\ NamesCard(s) => asked[s].card \in CardIds
  BY <1>1, CardCallShape DEF CardRequestOK, NamesCard
<1>4. answer[s] = "ok" => step[s] # "new"
  BY <1>1 DEF CardRequestOK
<1>5. Cards!TargetAccount(s)' = Cards!TargetAccount(s)
  BY <1>2 DEF Cards!TargetAccount, Cards!NamesAccount
<1>6. NamesCard(s)' <=> NamesCard(s)
  BY <1>2 DEF NamesCard
<1>7. step[s] \in {"account", "act", "compare"} /\ NamesCard(s) =>
        issued'[asked[s].card] # NoCard /\ seen[s] = issued'[asked[s].card]
  BY <1>1, <1>3 DEF CardRequestOK, CardAlone
<1>8. answer[s] = "ok" /\ asked[s].op = "delete" =>
        issued'[asked[s].card] # NoCard /\ asked[s].card \notin present'
  BY <1>1, <1>3, <1>4 DEF CardRequestOK, CardAlone, NamesCard
<1> QED
  BY <1>1, <1>2, <1>5, <1>6, <1>7, <1>8 DEF CardRequestOK, Admitted

(* A request that does not confirm a deletion adds nothing to DeletedOnce. *)
LEMMA NoDeletion ==
  ASSUME CardInv, NEW r \in Requests, CardAlone(r),
         ~(answer'[r] = "ok" /\ asked'[r].op = "delete")
  PROVE  DeletedOnce'
<1>1. \A s \in Requests : answer'[s] = "ok" /\ asked'[s].op = "delete" =>
        /\ s # r /\ answer[s] = "ok" /\ asked'[s] = asked[s]
        /\ asked[s].card \notin present'
  <2> SUFFICES ASSUME NEW s \in Requests, answer'[s] = "ok", asked'[s].op = "delete"
               PROVE  /\ s # r /\ answer[s] = "ok" /\ asked'[s] = asked[s]
                      /\ asked[s].card \notin present'
    OBVIOUS
  <2>1. s # r /\ answer[s] = "ok" /\ asked'[s] = asked[s] /\ asked[s].op = "delete"
    BY DEF CardAlone
  <2>2. CardRequestOK(s)
    BY DEF CardInv
  <2>3. asked[s] \in Cards!Call /\ issued[asked[s].card] # NoCard /\ asked[s].card \notin present
    BY <2>1, <2>2 DEF CardRequestOK
  <2>4. asked[s].card \in CardIds
    BY <2>1, <2>3, CardCallShape
  <2> QED
    BY <2>1, <2>3, <2>4 DEF CardAlone
<1> QED
  BY <1>1 DEF CardInv, DeletedOnce

(* A request that is answered keeps the types of the control state. *)
LEMMA CardAnswerType ==
  ASSUME CardTypeOK, NEW r \in Requests, NEW a \in CardReplies, Cards!Answer(r, a)
  PROVE  /\ step' \in [Requests -> CardLabels] /\ answer' \in [Requests -> CardReplies]
         /\ step'[r] = "done" /\ answer'[r] = a
         /\ \A s \in Requests : s # r => step'[s] = step[s] /\ answer'[s] = answer[s]
BY DEF CardTypeOK, Cards!Answer, CardLabels

(* A request that goes on keeps them too, and its answer. *)
LEMMA CardGotoType ==
  ASSUME CardTypeOK, NEW r \in Requests, NEW label \in CardLabels, Cards!Goto(r, label)
  PROVE  /\ step' \in [Requests -> CardLabels] /\ answer' = answer
         /\ step'[r] = label
         /\ \A s \in Requests : s # r => step'[s] = step[s]
BY DEF CardTypeOK, Cards!Goto, CardLabels

(* A step of an admitted request that confirms no deletion. *)
LEMMA CardRequestStep ==
  ASSUME CardInv, NEW r \in Requests, CardAlone(r), CardTypeOK', CardRequestOK(r)',
         ~(answer'[r] = "ok" /\ asked'[r].op = "delete")
  PROVE  CardInv'
<1>1. DeletedOnce'
  BY NoDeletion
<1>2. \A s \in Requests : CardRequestOK(s)'
  BY OtherCards
<1> QED
  BY <1>1, <1>2 DEF CardInv

(* The admitted user becomes the user of the request. *)
LEMMA CardHandlerInv ==
  ASSUME CardInv, NEW r \in Requests, Admitted(r), asked'[r].user = found[r],
         UNCHANGED authVars, Cards!Handler(r)
  PROVE  CardInv'
<1>1. PICK c \in Cards!Call :
        /\ asked' = [asked EXCEPT ![r] = c]
        /\ IF Cards!NamesAccount(c) THEN Cards!Goto(r, "account")
           ELSE IF c.op = "verify" /\ c.cvv = None THEN Cards!Answer(r, "invalid")
           ELSE Cards!Goto(r, "card")
  BY DEF Cards!Handler
<1>2. /\ step[r] = "new" /\ answer[r] = "none" /\ UNCHANGED <<issued, present, seen>>
      /\ reply' = reply /\ found' = found /\ CardTypeOK
  BY DEF Cards!Handler, CardInv, CardRequestOK, authVars
<1>3. /\ asked' \in [Requests -> Cards!Call \cup {None}] /\ asked'[r] = c
      /\ \A s \in Requests : s # r => asked'[s] = asked[s]
      /\ c.user = found[r]
  BY <1>1, <1>2 DEF CardTypeOK
<1>4. ASSUME NEW label \in {"account", "card"}, Cards!Goto(r, label),
             label = "account" <=> Cards!NamesAccount(c)
      PROVE  CardInv'
  <2>1. label \in CardLabels
    BY DEF CardLabels
  <2>2. CardTypeOK' /\ CardAlone(r) /\ step'[r] = label /\ answer'[r] = "none"
    BY <1>2, <1>3, <1>4, <2>1, CardGotoType DEF CardTypeOK, CardAlone
  <2>3. CardRequestOK(r)'
    BY <1>2, <1>3, <1>4, <2>2, CardCallShape
    DEF CardRequestOK, Admitted, NamesCard, Cards!NamesAccount
  <2> QED
    BY <2>2, <2>3, CardRequestStep
<1>5. ASSUME Cards!Answer(r, "invalid")
      PROVE  CardInv'
  <2>1. "invalid" \in CardReplies
    BY DEF CardReplies
  <2>2. CardTypeOK' /\ CardAlone(r) /\ step'[r] = "done" /\ answer'[r] = "invalid"
    BY <1>2, <1>3, <1>5, <2>1, CardAnswerType DEF CardTypeOK, CardAlone
  <2>3. CardRequestOK(r)'
    BY <1>2, <1>3, <2>2 DEF CardRequestOK, Admitted
  <2> QED
    BY <2>2, <2>3, CardRequestStep
<1> QED
  BY <1>1, <1>4, <1>5

(* The statements after the first change neither the request nor, unless   *)
(* they are the last, the cards.                                           *)
LEMMA CardAnswered ==
  ASSUME CardInv, NEW r \in Requests, UNCHANGED authVars, step[r] \notin {"new", "done"},
         UNCHANGED <<issued, asked>>, present' \subseteq present,
         seen' \in [Requests -> Cards!Row \cup {NoCard}],
         \A s \in Requests : s # r => seen'[s] = seen[s],
         NEW a \in CardReplies \ {"none"}, Cards!Answer(r, a),
         ~(a = "ok" /\ asked[r].op = "delete")
  PROVE  CardInv'
<1>1. CardRequestOK(r) /\ CardTypeOK
  BY DEF CardInv
<1>2. /\ step' \in [Requests -> CardLabels] /\ answer' \in [Requests -> CardReplies]
      /\ step'[r] = "done" /\ answer'[r] = a
      /\ \A s \in Requests : s # r => step'[s] = step[s] /\ answer'[s] = answer[s]
  BY <1>1, CardAnswerType
<1>3. CardTypeOK' /\ CardAlone(r)
  BY <1>1, <1>2 DEF CardTypeOK, CardAlone
<1>4. CardRequestOK(r)'
  BY <1>1, <1>2 DEF CardRequestOK, Admitted, authVars
<1> QED
  BY <1>2, <1>3, <1>4, CardRequestStep

(* The handler keeps the row of a card that existed when it looked. *)
LEMMA GetCardByIDInv ==
  ASSUME CardInv, NEW r \in Requests, UNCHANGED authVars, Cards!GetCardByID(r)
  PROVE  CardInv'
<1> DEFINE id == asked[r].card
<1>1. /\ step[r] = "card" /\ UNCHANGED <<issued, present, asked>> /\ CardTypeOK
      /\ CardRequestOK(r) /\ NamesCard(r) /\ asked[r] \in Cards!Call /\ answer[r] = "none"
      /\ reply' = reply /\ found' = found
  BY DEF Cards!GetCardByID, CardInv, CardRequestOK, authVars
<1>2. id \in CardIds
  BY <1>1, CardCallShape DEF NamesCard
<1>3. Cards!Stored(id) \in Cards!Row \cup {NoCard}
  BY <1>1, <1>2 DEF Cards!Stored, CardTypeOK
<1>4. /\ seen' \in [Requests -> Cards!Row \cup {NoCard}] /\ seen'[r] = Cards!Stored(id)
      /\ \A s \in Requests : s # r => seen'[s] = seen[s]
  BY <1>1, <1>3 DEF Cards!GetCardByID, CardTypeOK
<1>5. CASE Cards!Stored(id) = NoCard
  <2>1. Cards!Answer(r, "not_found") /\ "not_found" \in CardReplies \ {"none"}
    BY <1>5 DEF Cards!GetCardByID, CardReplies
  <2> QED
    BY <1>1, <1>4, <2>1, CardAnswered
<1>6. CASE Cards!Stored(id) # NoCard
  <2>1. Cards!Goto(r, "account") /\ "account" \in CardLabels
    BY <1>6 DEF Cards!GetCardByID, CardLabels
  <2>2. CardTypeOK' /\ CardAlone(r) /\ step'[r] = "account" /\ answer'[r] = "none"
    BY <1>1, <1>4, <2>1, CardGotoType DEF CardTypeOK, CardAlone
  <2>3. issued[id] # NoCard /\ Cards!Stored(id) = issued[id]
    BY <1>6 DEF Cards!Stored
  <2>4. CardRequestOK(r)'
    BY <1>1, <1>4, <2>2, <2>3 DEF CardRequestOK, Admitted, NamesCard
  <2> QED
    BY <2>2, <2>4, CardRequestStep
<1> QED
  BY <1>5, <1>6

(* From here on the request acts for the owner of the account it is about. *)
LEMMA CheckOwnerInv ==
  ASSUME CardInv, NEW r \in Requests, UNCHANGED authVars, Cards!CheckOwner(r)
  PROVE  CardInv'
<1> DEFINE a == Cards!TargetAccount(r)
<1>1. /\ step[r] = "account" /\ UNCHANGED <<issued, present, asked, seen>> /\ CardTypeOK
      /\ CardRequestOK(r) /\ asked[r] \in Cards!Call /\ answer[r] = "none"
      /\ reply' = reply /\ found' = found /\ asked[r].user = found[r]
  BY DEF Cards!CheckOwner, CardInv, CardRequestOK, authVars
<1>2. ASSUME NEW x \in {"not_found", "forbidden"}, Cards!Answer(r, x)
      PROVE  CardInv'
  <2>1. x \in CardReplies \ {"none"} /\ x # "ok"
    BY DEF CardReplies
  <2> QED
    BY <1>1, <1>2, <2>1, CardAnswered DEF CardTypeOK
<1>3. CASE a # None /\ Cards!MayAct(r, a)
  <2>1. Cards!Goto(r, "act") /\ "act" \in CardLabels
    BY <1>3 DEF Cards!CheckOwner, CardLabels
  <2>2. CardTypeOK' /\ CardAlone(r) /\ step'[r] = "act" /\ answer'[r] = "none"
    BY <1>1, <2>1, CardGotoType DEF CardTypeOK, CardAlone
  <2>3. a' = a /\ Owner[a] = found[r]
    BY <1>1, <1>3 DEF Cards!TargetAccount, Cards!NamesAccount, Cards!MayAct
  <2>4. CardRequestOK(r)'
    BY <1>1, <1>3, <2>2, <2>3 DEF CardRequestOK, Admitted, NamesCard
  <2> QED
    BY <2>2, <2>4, CardRequestStep
<1> QED
  BY <1>2, <1>3 DEF Cards!CheckOwner

(* A new card gets an id that was never issued. *)
LEMMA CreateCardInv ==
  ASSUME CardInv, NEW r \in Requests, UNCHANGED authVars, Cards!CreateCard(r)
  PROVE  CardInv'
<1> DEFINE a == Cards!TargetAccount(r)
<1>1. /\ step[r] = "act" /\ asked[r].op = "create" /\ UNCHANGED <<asked, seen>> /\ CardTypeOK
      /\ CardRequestOK(r) /\ asked[r] \in Cards!Call
      /\ reply' = reply /\ found' = found
      /\ asked[r].acct # None
  BY DEF Cards!CreateCard, CardInv, CardRequestOK, authVars, Cards!TargetAccount,
         Cards!NamesAccount
<1>2. PICK id \in CardIds, cvv \in Cvvs : Cards!Inserted(id, [acct |-> asked[r].acct, cvv |-> cvv])
  BY DEF Cards!CreateCard
<1>3. PICK x \in {"ok", "error"} : Cards!Answer(r, x)
  BY DEF Cards!CreateCard
<1> DEFINE row == [acct |-> asked[r].acct, cvv |-> cvv]
<1>4. row \in Cards!Row /\ row # NoCard
  BY <1>1, CardCallShape, GatewayAssumption DEF Cards!Row
<1>5. /\ issued[id] = NoCard /\ issued' = [issued EXCEPT ![id] = row]
      /\ present' = present \cup {id}
  BY <1>2 DEF Cards!Inserted
<1> HIDE DEF row
<1>6. /\ issued' \in [CardIds -> Cards!Row \cup {NoCard}] /\ issued'[id] = row
      /\ \A i \in CardIds : i # id => issued'[i] = issued[i]
  BY <1>1, <1>4, <1>5 DEF CardTypeOK
<1>7. present' \subseteq {i \in CardIds : issued'[i] # NoCard}
  BY <1>1, <1>4, <1>5, <1>6 DEF CardTypeOK
<1>8. x \in CardReplies
  BY DEF CardReplies
<1>9. CardTypeOK' /\ CardAlone(r) /\ step'[r] = "done" /\ answer'[r] = x
  BY <1>1, <1>3, <1>5, <1>6, <1>7, <1>8, CardAnswerType DEF CardTypeOK, CardAlone
<1>10. CardRequestOK(r)'
  BY <1>1, <1>9 DEF CardRequestOK, Admitted
<1> QED
  BY <1>1, <1>9, <1>10, CardRequestStep

(* Nobody else was told to have deleted the card: it was still there.      *)
LEMMA DeleteCardInv ==
  ASSUME CardInv, NEW r \in Requests, UNCHANGED authVars, Cards!DeleteCard(r)
  PROVE  CardInv'
<1> DEFINE id == asked[r].card
<1>1. /\ step[r] = "act" /\ asked[r].op = "delete" /\ UNCHANGED <<issued, asked, seen>>
      /\ CardTypeOK /\ CardRequestOK(r) /\ asked[r] \in Cards!Call
      /\ reply' = reply /\ found' = found /\ present' = present \ {id}
  BY DEF Cards!DeleteCard, CardInv, CardRequestOK, authVars
<1>2. PICK x \in {"ok", "error"} : (id \notin present => x = "error") /\ Cards!Answer(r, x)
  BY DEF Cards!DeleteCard
<1>3. CASE x = "error"
  <2>1. x \in CardReplies \ {"none"}
    BY <1>3 DEF CardReplies
  <2> QED
    BY <1>1, <1>2, <1>3, <2>1, CardAnswered DEF CardTypeOK
<1>4. CASE x = "ok"
  <2>1. x \in CardReplies /\ id \in present /\ issued[id] # NoCard
    BY <1>1, <1>2, <1>4 DEF CardReplies, CardTypeOK
  <2>2. /\ step' \in [Requests -> CardLabels] /\ answer' \in [Requests -> CardReplies]
        /\ step'[r] = "done" /\ answer'[r] = x
        /\ \A s \in Requests : s # r => step'[s] = step[s] /\ answer'[s] = answer[s]
    BY <1>1, <1>2, <2>1, CardAnswerType
  <2>3. CardTypeOK' /\ CardAlone(r)
    BY <1>1, <2>2 DEF CardTypeOK, CardAlone
  <2>4. CardRequestOK(r)'
    BY <1>1, <2>1, <2>2 DEF CardRequestOK, Admitted
  <2>5. \A s \in Requests : s # r /\ answer[s] = "ok" /\ asked[s].op = "delete" =>
          asked[s].card # id /\ asked[s].card \notin present
    BY <2>1 DEF CardInv, DeletedOnce
  <2>6. DeletedOnce'
    BY <1>1, <2>2, <2>5 DEF DeletedOnce, CardInv
  <2>7. \A s \in Requests : CardRequestOK(s)'
    BY <2>3, <2>4, OtherCards
  <2> QED
    BY <2>3, <2>6, <2>7 DEF CardInv
<1> QED
  BY <1>3, <1>4

(* The card is read anew, and is the one the handler has read.             *)
LEMMA VerifyCVVInv ==
  ASSUME CardInv, NEW r \in Requests, UNCHANGED authVars, Cards!VerifyCVV(r)
  PROVE  CardInv'
<1> DEFINE id == asked[r].card
<1>1. /\ step[r] = "act" /\ UNCHANGED <<issued, present, asked>> /\ CardTypeOK
      /\ asked[r].op = "verify"
      /\ CardRequestOK(r) /\ asked[r] \in Cards!Call /\ answer[r] = "none"
      /\ reply' = reply /\ found' = found
  BY DEF Cards!VerifyCVV, CardInv, CardRequestOK, authVars
<1>2. id \in CardIds
  BY <1>1, CardCallShape
<1>3. Cards!Stored(id) \in Cards!Row \cup {NoCard}
  BY <1>1, <1>2 DEF Cards!Stored, CardTypeOK
<1>4. /\ seen' \in [Requests -> Cards!Row \cup {NoCard}] /\ seen'[r] = Cards!Stored(id)
      /\ \A s \in Requests : s # r => seen'[s] = seen[s]
  BY <1>1, <1>3 DEF Cards!VerifyCVV, CardTypeOK
<1>5. CASE Cards!Stored(id) = NoCard
  <2>1. Cards!Answer(r, "mismatch") /\ "mismatch" \in CardReplies \ {"none"}
    BY <1>5 DEF Cards!VerifyCVV, CardReplies
  <2> QED
    BY <1>1, <1>4, <2>1, CardAnswered
<1>6. CASE Cards!Stored(id) # NoCard
  <2>1. Cards!Goto(r, "compare") /\ "compare" \in CardLabels
    BY <1>6 DEF Cards!VerifyCVV, CardLabels
  <2>2. CardTypeOK' /\ CardAlone(r) /\ step'[r] = "compare" /\ answer'[r] = "none"
    BY <1>1, <1>4, <2>1, CardGotoType DEF CardTypeOK, CardAlone
  <2>3. issued[id] # NoCard /\ Cards!Stored(id) = issued[id]
    BY <1>6 DEF Cards!Stored
  <2>4. CardRequestOK(r)'
    BY <1>1, <1>4, <2>2, <2>3 DEF CardRequestOK, Admitted, NamesCard
  <2> QED
    BY <2>2, <2>4, CardRequestStep
<1> QED
  BY <1>5, <1>6

(* Every step of an admitted request keeps the invariant of the cards. *)
LEMMA CardStepInv ==
  ASSUME CardInv, NEW r \in Requests, CardStep(r)
  PROVE  CardInv'
<1>1. /\ Admitted(r) /\ Cards!Step(r) /\ asked'[r].user = found[r] /\ UNCHANGED authVars
      /\ CardTypeOK
  BY DEF CardStep, CardInv
<1>2. ASSUME step[r] \in {"card", "account", "act", "compare"}, UNCHANGED <<issued, present, asked, seen>>,
             NEW x \in {"ok", "mismatch", "error"}, Cards!Answer(r, x),
             ~(x = "ok" /\ asked[r].op = "delete")
      PROVE  CardInv'
  <2>1. x \in CardReplies \ {"none"}
    BY DEF CardReplies
  <2> QED
    BY <1>1, <1>2, <2>1, CardAnswered DEF CardTypeOK
<1>3. CASE Cards!GetCardsByAccountID(r)
  BY <1>2, <1>3 DEF Cards!GetCardsByAccountID
<1>4. CASE Cards!CompareCVV(r)
  <2> DEFINE x == IF seen[r].cvv = asked[r].cvv THEN "ok" ELSE "mismatch"
  <2>1. /\ step[r] = "compare" /\ Cards!Answer(r, x)
        /\ UNCHANGED <<issued, present, asked, seen>>
    BY <1>4 DEF Cards!CompareCVV
  <2>2. asked[r].op = "verify"
    BY <2>1 DEF CardInv, CardRequestOK
  <2>3. x \in {"ok", "mismatch", "error"}
    OBVIOUS
  <2> QED
    BY <1>2, <2>1, <2>2, <2>3
<1>5. CASE Cards!Fail(r)
  <2> DEFINE x == IF step[r] = "act" /\ asked[r].op = "verify" THEN "mismatch" ELSE "error"
  <2>1. /\ step[r] \in {"card", "account", "act"} /\ Cards!Answer(r, x)
        /\ UNCHANGED <<issued, present, asked, seen>>
    BY <1>5 DEF Cards!Fail
  <2>2. x \in {"ok", "mismatch", "error"} /\ x # "ok"
    OBVIOUS
  <2> QED
    BY <1>2, <2>1, <2>2
<1> QED
  BY <1>1, <1>3, <1>4, <1>5, CardHandlerInv, GetCardByIDInv, CheckOwnerInv, CreateCardInv,
     VerifyCVVInv, DeleteCardInv DEF Cards!Step

(* An admission is final: its request takes no other step, so what it has  *)
(* established about cards stays established.                              *)
LEMMA AdmissionStands ==
  ASSUME AuthInv, Later \/ \E r \in Requests : Step(r), NEW s \in Requests, Admitted(s)
  PROVE  found'[s] = found[s] /\ reply'[s] = reply[s]
<1>1. pc[s] = "done" /\ AuthTypeOK
  BY DEF AuthInv, AuthRequestOK, Admitted
<1>2. CASE Later
  BY <1>2 DEF Later
<1>3. ASSUME NEW r \in Requests, Step(r)
      PROVE  found'[s] = found[s] /\ reply'[s] = reply[s]
  <2>1. r # s
    BY <1>1, <1>3 DEF Step, Handler, CreateUser, FindUserByUsername, ComparePassword,
                      AuthMiddleware, Fail
  <2>2. \A label, x : (Goto(r, label) \/ Answer(r, x)) => reply'[s] = reply[s]
    BY <1>1, <2>1 DEF Goto, Answer, AuthTypeOK
  <2>3. reply'[s] = reply[s]
    BY <1>3, <2>2 DEF Step, Handler, CreateUser, FindUserByUsername, ComparePassword,
                      AuthMiddleware, Fail
  <2>4. found'[s] = found[s]
    BY <1>1, <1>3, <2>1 DEF Step, Handler, CreateUser, FindUserByUsername, ComparePassword,
                            AuthMiddleware, Fail, AuthTypeOK
  <2> QED
    BY <2>3, <2>4
<1> QED
  BY <1>2, <1>3

(* Steps of users and tokens, which leave the cards alone. *)
LEMMA CardsUntouched ==
  ASSUME CardInv, UNCHANGED cardVars,
         \A s \in Requests : Admitted(s) => found'[s] = found[s] /\ reply'[s] = reply[s]
  PROVE  CardInv'
<1>1. CardTypeOK' /\ DeletedOnce'
  BY DEF CardInv, CardTypeOK, DeletedOnce, cardVars
<1>2. ASSUME NEW s \in Requests
      PROVE  CardRequestOK(s)'
  <2>1. CardRequestOK(s)
    BY DEF CardInv
  <2>2. /\ issued' = issued /\ present' = present /\ asked' = asked /\ step' = step
        /\ seen' = seen /\ answer' = answer
    BY DEF cardVars
  <2>3. step[s] # "new" => found'[s] = found[s] /\ Admitted(s)'
    BY <2>1 DEF CardRequestOK, Admitted
  <2>4. Cards!TargetAccount(s)' = Cards!TargetAccount(s) /\ (NamesCard(s)' <=> NamesCard(s))
    BY <2>2 DEF Cards!TargetAccount, Cards!NamesAccount, NamesCard
  <2> QED
    BY <2>1, <2>2, <2>3, <2>4 DEF CardRequestOK
<1> QED
  BY <1>1, <1>2 DEF CardInv

(* The cards issued before, and no request. *)
LEMMA CardInitInv == GatewayInit => CardInv
<1> SUFFICES ASSUME GatewayInit PROVE CardInv
  OBVIOUS
<1>1. CardTypeOK
  BY GatewayAssumption DEF GatewayInit, Cards!CardInit, CardTypeOK, CardLabels, CardReplies
<1>2. DeletedOnce /\ \A r \in Requests : CardRequestOK(r)
  BY DEF GatewayInit, Cards!CardInit, CardRequestOK, DeletedOnce
<1> QED
  BY <1>1, <1>2 DEF CardInv

-----------------------------------------------------------------------------
(* The gateway. *)

(* The invariant is inductive. *)
LEMMA NextInv == Inv /\ [GatewayNext]_gatewayVars => Inv'
<1> SUFFICES ASSUME Inv, [GatewayNext]_gatewayVars PROVE Inv'
  OBVIOUS
<1>1. AuthInv /\ CardInv /\ now \in Nat
  BY DEF Inv, AuthInv, AuthTypeOK
<1>2. CASE (Later \/ \E r \in Requests : Step(r)) /\ UNCHANGED cardVars
  <2>1. AuthInv'
    BY <1>1, <1>2, AuthStepInv
  <2>2. CardInv'
    BY <1>1, <1>2, AdmissionStands, CardsUntouched
  <2> QED
    BY <2>1, <2>2 DEF Inv
<1>3. ASSUME NEW r \in Requests, CardStep(r)
      PROVE  Inv'
  <2>1. AuthInv'
    BY <1>1, <1>3, AuthUnchanged DEF CardStep, authVars
  <2>2. CardInv'
    BY <1>1, <1>3, CardStepInv
  <2> QED
    BY <2>1, <2>2 DEF Inv
<1>4. CASE UNCHANGED gatewayVars
  <2>1. AuthInv'
    BY <1>1, <1>4, AuthUnchanged DEF gatewayVars, authVars
  <2>2. CardInv'
    BY <1>1, <1>4, CardsUntouched DEF gatewayVars, authVars
  <2> QED
    BY <2>1, <2>2 DEF Inv
<1> QED
  BY <1>2, <1>3, <1>4 DEF GatewayNext

(* The inductive invariant holds in every state the gateway reaches. *)
THEOREM InvHolds == GatewaySpec => []Inv
<1>1. GatewayInit => Inv
  BY AuthInitInv, CardInitInv DEF GatewayInit, Inv
<1>2. Inv /\ [GatewayNext]_gatewayVars => Inv'
  BY NextInv
<1> QED
  BY <1>1, <1>2, PTL DEF GatewaySpec

(* Registrations that race never make two users of one name or e-mail. *)
THEOREM IdentitiesUniqueHolds == GatewaySpec => []IdentitiesUnique
<1>1. Inv => IdentitiesUnique
  BY DEF Inv, AuthInv
<1> QED
  BY <1>1, InvHolds, PTL

(* Who was told of a successful registration stays registered with exactly *)
(* the e-mail and the password given.                                      *)
THEOREM AcceptedRegistrationsStandHolds == GatewaySpec => []AcceptedRegistrationsStand
<1>1. Inv => AcceptedRegistrationsStand
  BY DEF Inv, AuthInv, AuthRequestOK, AcceptedRegistrationsStand
<1> QED
  BY <1>1, InvHolds, PTL

(* A request is admitted only for a user for whom somebody has logged in   *)
(* with the right password, less than a token's lifetime ago.              *)
THEOREM AdmittedHasLoggedInHolds == GatewaySpec => []AdmittedHasLoggedIn
<1>1. Inv => AdmittedHasLoggedIn
  <2> SUFFICES ASSUME Inv, NEW r \in Requests, reply[r] = "admitted"
               PROVE  \E s \in Requests :
                        /\ call[s] = [op |-> "login", name |-> users[found[r]].name,
                                      password |-> users[found[r]].password]
                        /\ reply[s] = "ok"
                        /\ at[r] < at[s] + Lifetime
    BY DEF AdmittedHasLoggedIn
  <2>1. AuthRequestOK(r)
    BY DEF Inv, AuthInv
  <2> QED
    BY <2>1 DEF AuthRequestOK, Proves
<1> QED
  BY <1>1, InvHolds, PTL

(* Of all requests that delete one card, one at most is told that it did,  *)
(* and then the card is gone for good.                                     *)
THEOREM DeletedOnceHolds == GatewaySpec => []DeletedOnce
<1>1. Inv => DeletedOnce
  BY DEF Inv, CardInv
<1> QED
  BY <1>1, InvHolds, PTL

(* One step of CardsChangeByOwner. *)
CardsChangeStep ==
  \A id \in CardIds :
    (id \in present) # (id \in present') =>
      \E r \in Requests :
        /\ step[r] = "act" /\ step'[r] = "done"
        /\ Admitted(r) /\ Owner[issued'[id].acct] = found[r]
        /\ LoggedIn(found[r])

(* Cards appear on an account, and disappear from it, only by an admitted  *)
(* request whose user owns the account and has logged in.                  *)
LEMMA OwnerChanges ==
  ASSUME Inv, [GatewayNext]_gatewayVars
  PROVE  CardsChangeStep
<1> SUFFICES ASSUME NEW id \in CardIds, (id \in present) # (id \in present')
             PROVE  \E r \in Requests :
                      /\ step[r] = "act" /\ step'[r] = "done"
                      /\ Admitted(r) /\ Owner[issued'[id].acct] = found[r]
                      /\ LoggedIn(found[r])
  BY DEF CardsChangeStep
<1>1. present' # present /\ CardTypeOK
  BY DEF Inv, CardInv
<1>2. PICK r \in Requests : CardStep(r) /\ (Cards!CreateCard(r) \/ Cards!DeleteCard(r))
  BY <1>1 DEF GatewayNext, gatewayVars, cardVars, CardStep, Cards!Step, Cards!Handler,
              Cards!GetCardByID, Cards!CheckOwner, Cards!GetCardsByAccountID, Cards!VerifyCVV,
              Cards!CompareCVV, Cards!Fail
<1>3. CardRequestOK(r) /\ AuthRequestOK(r) /\ step[r] = "act" /\ Admitted(r)
  BY <1>2 DEF Inv, CardInv, AuthInv, CardStep, Cards!CreateCard, Cards!DeleteCard
<1>4. step'[r] = "done"
  BY <1>1, <1>2 DEF Cards!CreateCard, Cards!DeleteCard, Cards!Answer, CardTypeOK
<1>5. LoggedIn(found[r])
  BY <1>3 DEF AuthRequestOK, Admitted, LoggedIn, Proves
<1>6. Owner[issued'[id].acct] = found[r]
  <2>1. CASE Cards!CreateCard(r)
    <3>1. PICK new \in CardIds, cvv \in Cvvs :
            Cards!Inserted(new, [acct |-> asked[r].acct, cvv |-> cvv])
      BY <2>1 DEF Cards!CreateCard
    <3>2. new = id /\ issued'[id] = [acct |-> asked[r].acct, cvv |-> cvv]
      BY <1>1, <3>1 DEF Cards!Inserted, CardTypeOK
    <3>3. Cards!TargetAccount(r) = asked[r].acct
      BY <2>1 DEF Cards!CreateCard, Cards!TargetAccount, Cards!NamesAccount
    <3> QED
      BY <1>3, <3>2, <3>3 DEF CardRequestOK
  <2>2. CASE Cards!DeleteCard(r)
    <3>1. asked[r].card = id /\ asked[r].op = "delete" /\ issued' = issued
      BY <2>2 DEF Cards!DeleteCard
    <3>2. Cards!TargetAccount(r) = seen[r].acct
      BY <3>1 DEF Cards!TargetAccount, Cards!NamesAccount
    <3>3. seen[r] = issued[id]
      BY <1>3, <3>1 DEF CardRequestOK, NamesCard
    <3> QED
      BY <1>3, <3>1, <3>2, <3>3 DEF CardRequestOK
  <2> QED
    BY <1>2, <2>1, <2>2
<1> QED
  BY <1>3, <1>4, <1>5, <1>6

(* CardsChangeByOwner is an action property of the gateway. *)
THEOREM CardsChangeByOwnerHolds == GatewaySpec => CardsChangeByOwner
<1>1. Inv /\ [GatewayNext]_gatewayVars => [CardsChangeStep]_gatewayVars
  BY OwnerChanges
<1>2. [CardsChangeStep]_gatewayVars =>
        [\A id \in CardIds :
           (id \in present) # (id \in present') =>
             \E r \in Requests :
               /\ step[r] = "act" /\ step'[r] = "done"
               /\ Admitted(r) /\ Owner[issued'[id].acct] = found[r]
               /\ LoggedIn(found[r])]_gatewayVars
  BY DEF CardsChangeStep
<1> QED
  BY <1>1, <1>2, InvHolds, PTL DEF GatewaySpec, CardsChangeByOwner

(* One step of DeletionNoticed, for one request. *)
Noticed(s) ==
  /\ step[s] # "compare" /\ step'[s] = "compare" => asked[s].card \in present
  /\ answer'[s] # answer[s] /\ answer'[s] = "ok" /\ asked[s].op = "verify" =>
       /\ step[s] = "compare"
       /\ issued[asked[s].card].cvv = asked[s].cvv

(* Only VerifyCVV begins a comparison, and only CompareCVV confirms one.   *)
LEMMA CardStepNoticed ==
  ASSUME Inv, NEW r \in Requests, CardStep(r), NEW s \in Requests
  PROVE  Noticed(s)
<1>1. CardTypeOK /\ CardRequestOK(s) /\ CardRequestOK(r)
  BY DEF Inv, CardInv
<1>2. /\ \A q \in Requests : \A x : Cards!Answer(q, x) =>
           step'[s] # "compare" \/ step'[s] = step[s]
      /\ \A q \in Requests : \A x : Cards!Answer(q, x) /\ answer'[s] # answer[s] =>
           q = s /\ x = answer'[s]
  BY <1>1 DEF Cards!Answer, CardTypeOK
<1>3. \A q \in Requests : \A label : Cards!Goto(q, label) =>
        /\ answer' = answer
        /\ step'[s] # step[s] => q = s /\ label = step'[s]
  BY <1>1 DEF Cards!Goto, CardTypeOK
<1>4. CASE Cards!VerifyCVV(r)
  <2>1. step[s] # "compare" /\ step'[s] = "compare" => asked[s].card \in present
    BY <1>2, <1>3, <1>4 DEF Cards!VerifyCVV, Cards!Stored
  <2>2. answer'[s] # answer[s] => answer'[s] # "ok"
    BY <1>2, <1>3, <1>4 DEF Cards!VerifyCVV
  <2> QED
    BY <2>1, <2>2 DEF Noticed
<1>5. CASE Cards!CompareCVV(r)
  <2>1. answer'[s] # answer[s] /\ answer'[s] = "ok" =>
          r = s /\ step[s] = "compare" /\ seen[s].cvv = asked[s].cvv
    BY <1>2, <1>5 DEF Cards!CompareCVV
  <2>2. ~(step[s] # "compare" /\ step'[s] = "compare")
    BY <1>2, <1>5 DEF Cards!CompareCVV
  <2> QED
    BY <1>1, <2>1, <2>2 DEF Noticed, CardRequestOK, NamesCard
<1>6. CASE Cards!Handler(r) \/ Cards!GetCardByID(r) \/ Cards!CheckOwner(r)
  <2>1. ~(step[s] # "compare" /\ step'[s] = "compare")
    BY <1>2, <1>3, <1>6 DEF Cards!Handler, Cards!GetCardByID, Cards!CheckOwner
  <2>2. answer'[s] # answer[s] => answer'[s] # "ok"
    BY <1>2, <1>3, <1>6 DEF Cards!Handler, Cards!GetCardByID, Cards!CheckOwner
  <2> QED
    BY <2>1, <2>2 DEF Noticed
<1>7. CASE Cards!CreateCard(r) \/ Cards!GetCardsByAccountID(r) \/ Cards!DeleteCard(r)
  <2>1. ~(step[s] # "compare" /\ step'[s] = "compare")
    BY <1>2, <1>7 DEF Cards!CreateCard, Cards!GetCardsByAccountID, Cards!DeleteCard
  <2>2. answer'[s] # answer[s] => asked[s].op # "verify"
    BY <1>2, <1>7 DEF Cards!CreateCard, Cards!GetCardsByAccountID, Cards!DeleteCard
  <2> QED
    BY <2>1, <2>2 DEF Noticed
<1>8. CASE Cards!Fail(r)
  <2>1. ~(step[s] # "compare" /\ step'[s] = "compare")
    BY <1>2, <1>8 DEF Cards!Fail
  <2>2. answer'[s] # answer[s] => answer'[s] # "ok"
    BY <1>2, <1>8 DEF Cards!Fail
  <2> QED
    BY <2>1, <2>2 DEF Noticed
<1> QED
  BY <1>4, <1>5, <1>6, <1>7, <1>8 DEF CardStep, Cards!Step

(* A card that is deleted between the look-up of the handler and that of   *)
(* the service is not confirmed, for every number of users, cards and      *)
(* requests, and no wrong code ever is.                                    *)
THEOREM DeletionNoticedHolds == GatewaySpec => DeletionNoticed
<1>1. Inv /\ [GatewayNext]_gatewayVars =>
        [\A r \in Requests :
           /\ step[r] # "compare" /\ step'[r] = "compare" => asked[r].card \in present
           /\ answer'[r] # answer[r] /\ answer'[r] = "ok" /\ asked[r].op = "verify" =>
                /\ step[r] = "compare"
                /\ issued[asked[r].card].cvv = asked[r].cvv]_gatewayVars
  <2> SUFFICES ASSUME Inv, [GatewayNext]_gatewayVars, NEW s \in Requests
               PROVE  Noticed(s)
    BY DEF Noticed
  <2>1. CASE UNCHANGED cardVars
    BY <2>1 DEF Noticed, cardVars
  <2>2. ASSUME NEW r \in Requests, CardStep(r)
        PROVE  Noticed(s)
    BY <2>2, CardStepNoticed
  <2> QED
    BY <2>1, <2>2 DEF GatewayNext, gatewayVars
<1> QED
  BY <1>1, InvHolds, PTL DEF GatewaySpec, DeletionNoticed
=============================================================================
