-------------------------------- MODULE Gateway --------------------------------
(***************************************************************************)
(* The cards behind the middleware: a request that AuthMiddleware admits   *)
(* goes on as a request of CardService, for the user its token names.      *)
(*                                                                         *)
(* The user travels in the context of the request.  From the admission to  *)
(* the last statement nothing asks again who that is, whether the token    *)
(* has expired meanwhile, or whether the card is still there.              *)
(***************************************************************************)
EXTENDS AuthService

CONSTANTS
  Accounts, Owner, CardIds, Cvvs, Opening, NoCard  \* as in CardService

VARIABLES issued, present, asked, step, seen, answer  \* those of CardService

Cards ==
  INSTANCE CardService
    WITH Users <- UserIds, call <- asked, pc <- step, reply <- answer

ASSUME GatewayAssumption ==
  /\ Owner \in [Accounts -> UserIds]
  /\ Opening \in [CardIds -> Cards!Row \cup {NoCard}]
  /\ NoCard \notin Cards!Row
  /\ None \notin Accounts \cup Cvvs \cup Cards!Call

cardVars == <<issued, present, asked, step, seen, answer>>
gatewayVars == <<authVars, cardVars>>

Admitted(r) == reply[r] = "admitted"

(* getUserIDFromContext: the handler acts for the user of the middleware. *)
CardStep(r) ==
  /\ Admitted(r)
  /\ Cards!Step(r)
  /\ asked'[r].user = found[r]
  /\ UNCHANGED authVars

GatewayInit == AuthInit /\ Cards!CardInit

GatewayNext ==
  \/ (Later \/ \E r \in Requests : Step(r)) /\ UNCHANGED cardVars
  \/ \E r \in Requests : CardStep(r)

GatewaySpec == GatewayInit /\ [][GatewayNext]_gatewayVars
-----------------------------------------------------------------------------
(* Properties.                                                             *)

(* Somebody has logged in as user u with the right password. *)
LoggedIn(u) ==
  \E s \in Requests :
    /\ reply[s] = "ok"
    /\ call[s] = [op |-> "login", name |-> users[u].name, password |-> users[u].password]

(* Cards appear on an account, and disappear from it, only by an admitted  *)
(* request whose user owns the account and has logged in, although login,  *)
(* admission, the check of the owner and the change are all separate.      *)
CardsChangeByOwner ==
  [][\A id \in CardIds :
       (id \in present) # (id \in present') =>
         \E r \in Requests :
           /\ step[r] = "act" /\ step'[r] = "done"
           /\ Admitted(r) /\ Owner[issued'[id].acct] = found[r]
           /\ LoggedIn(found[r])]_gatewayVars

(* Of all requests that delete one card, one at most is told that it did,  *)
(* and then the card is gone for good.                                     *)
DeletedOnce ==
  \A r, s \in Requests :
    /\ answer[r] = "ok" /\ asked[r].op = "delete"
    => /\ asked[r].card \notin present
       /\ answer[s] = "ok" /\ asked[s] = asked[r] => r = s

(* A deletion that took effect after the handler had looked the card up,   *)
(* or after it had checked the owner, is noticed: a code is compared only  *)
(* if the card is still there when the comparison begins, and confirmed    *)
(* only if it is the code the card was issued with.  What happens to the   *)
(* card during the comparison goes unnoticed.                              *)
DeletionNoticed ==
  [][\A r \in Requests :
       /\ step[r] # "compare" /\ step'[r] = "compare" => asked[r].card \in present
       /\ answer'[r] # answer[r] /\ answer'[r] = "ok" /\ asked[r].op = "verify" =>
            /\ step[r] = "compare"
            /\ issued[asked[r].card].cvv = asked[r].cvv]_gatewayVars
=============================================================================
