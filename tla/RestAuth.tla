------------------------------- MODULE RestAuth -------------------------------
(***************************************************************************)
(* The authenticated requests of a Rest client (src/rest.go:303-378): the  *)
(* token of AuthCallback is cached, shared by all requests, thrown away on *)
(* a 401, and the request is then retried once.                            *)
(*                                                                         *)
(* The service (external) invalidates all tokens from time to time, which   *)
(* starts an epoch; a token is the epoch it was minted in.  It may also     *)
(* refuse every token (a callback that mints for the wrong key).  The      *)
(* request /time, which carries no credential, is left out.                *)
(***************************************************************************)
EXTENDS Naturals

CONSTANTS
    Requests, \* calls of Rest.request
    MaxEpoch  \* bound: how often the service invalidates the tokens

ASSUME RestAuthAssumption == MaxEpoch \in Nat \ {0}

VARIABLES
    credential,  \* options: a Key or Token (static), an AuthCallback, or both
    cachedToken, \* r.cachedToken; 0 is the empty string
    epoch,       \* the service's epoch
    accepts,     \* whether it accepts the tokens of its epoch
    request,     \* progress of each request: token it has, whether it retried
    performed,   \* how often the service performed each request
    outcome,     \* what each request returned
    clean        \* the requests that since they began have met neither a new
                 \* epoch nor another request

restVars == <<credential, cachedToken, epoch, accepts, request, performed, outcome, clean>>

Epochs == 1 .. MaxEpoch
Token == Epochs \cup {0}
Credentials == {"static", "callback", "both"}
Outcomes == {"ok", "unauthorized", "error"}

RestTypeOK ==
    /\ credential \in Credentials
    /\ cachedToken \in Token
    /\ epoch \in Epochs /\ accepts \in BOOLEAN
    /\ request \in [Requests -> [pc : {"idle", "header", "mint", "store", "send",
                                       "answer", "clear", "returned"},
                                 token : Token, answer : Outcomes \cup {"none"},
                                 retried : BOOLEAN]]
    /\ performed \in [Requests -> Nat]
    /\ outcome \in [Requests -> Outcomes \cup {"none"}]
    /\ clean \subseteq Requests

RestInit ==
    /\ credential \in Credentials
    /\ cachedToken = 0 /\ epoch = 1 /\ accepts \in BOOLEAN
    /\ request = [r \in Requests |-> [pc |-> "idle", token |-> 0, answer |-> "none",
                                      retried |-> FALSE]]
    /\ performed = [r \in Requests |-> 0]
    /\ outcome = [r \in Requests |-> "none"]
    /\ clean = {}

-----------------------------------------------------------------------------
At(r, pc) == request[r].pc = pc
Goto(r, pc) == request' = [request EXCEPT ![r].pc = pc]
UnderWay == {r \in Requests : request[r].pc \notin {"idle", "returned"}}

Returns(r, result) ==
    /\ request' = [request EXCEPT ![r].pc = "returned", ![r].answer = "none"]
    /\ outcome' = [outcome EXCEPT ![r] = result]

Begin(r) ==
    /\ At(r, "idle") /\ Goto(r, "header")
    /\ clean' = IF UnderWay = {} THEN clean \cup {r} ELSE clean \ UnderWay
    /\ UNCHANGED <<credential, cachedToken, epoch, accepts, performed, outcome>>

(* authorizationHeader: a static credential, which goes before the callback, *)
(* or a look into the cache.                                                 *)
Header(r) ==
    /\ At(r, "header")
    /\ request' = [request EXCEPT
          ![r].token = IF credential = "callback" THEN cachedToken ELSE 1,
          ![r].pc = IF credential = "callback" /\ cachedToken = 0 THEN "mint" ELSE "send"]
    /\ UNCHANGED <<credential, cachedToken, epoch, accepts, performed, outcome, clean>>

(* Mutant: the error of the callback is returned as it is. *)
MintUnwrapped(r) ==
    /\ At(r, "mint")
    /\ \/ request' = [request EXCEPT ![r].token = epoch, ![r].pc = "store"]
          /\ UNCHANGED outcome
       \/ Returns(r, "callback")
    /\ UNCHANGED <<credential, cachedToken, epoch, accepts, performed, clean>>

(* AuthCallback, outside of the lock. *)
Mint(r) ==
    /\ At(r, "mint")
    /\ \/ request' = [request EXCEPT ![r].token = epoch, ![r].pc = "store"]
          /\ UNCHANGED outcome
       \/ Returns(r, "error")
    /\ UNCHANGED <<credential, cachedToken, epoch, accepts, performed, clean>>

Store(r) ==
    /\ At(r, "store") /\ Goto(r, "send")
    /\ cachedToken' = request[r].token
    /\ UNCHANGED <<credential, epoch, accepts, performed, outcome, clean>>

(* The service performs a request whose token is of this epoch, or refuses *)
(* it for another reason (4xx, 5xx); its answer may be lost.               *)
Handle(r) ==
    /\ At(r, "send")
    /\ \/ /\ accepts /\ request[r].token = epoch
          /\ \E answer \in {"ok", "error"} :
                request' = [request EXCEPT ![r].pc = "answer", ![r].answer = answer]
          /\ performed' = [performed EXCEPT ![r] = @ + 1]
       \/ /\ ~(accepts /\ request[r].token = epoch)
          /\ request' = [request EXCEPT ![r].pc = "answer", ![r].answer = "unauthorized"]
          /\ UNCHANGED performed
       \/ /\ request' = [request EXCEPT ![r].pc = "answer", ![r].answer = "error"]
          /\ UNCHANGED performed
    /\ UNCHANGED <<credential, cachedToken, epoch, accepts, outcome, clean>>

(* Mutant: whatever goes wrong is retried. *)
AnsweredRetriesAll(r) ==
    /\ At(r, "answer")
    /\ IF request[r].answer # "ok" /\ credential # "static" /\ ~request[r].retried
       THEN Goto(r, "clear") /\ UNCHANGED outcome
       ELSE Returns(r, request[r].answer)
    /\ UNCHANGED <<credential, cachedToken, epoch, accepts, performed, clean>>

(* requestRetry after client.Do: a 401 is retried when there is a callback, *)
(* also when it was not the callback that gave the credential.              *)
Answered(r) ==
    /\ At(r, "answer")
    /\ IF request[r].answer = "unauthorized" /\ credential # "static"
                                             /\ ~request[r].retried
       THEN Goto(r, "clear") /\ UNCHANGED outcome
       ELSE Returns(r, request[r].answer)
    /\ UNCHANGED <<credential, cachedToken, epoch, accepts, performed, clean>>

(* Mutant: the retry takes the token from the cache again. *)
RetryKeepsToken(r) ==
    /\ At(r, "clear")
    /\ request' = [request EXCEPT ![r].pc = "header", ![r].retried = TRUE,
                                  ![r].answer = "none"]
    /\ UNCHANGED <<credential, cachedToken, epoch, accepts, performed, outcome, clean>>

(* Whichever token is cached by now is dropped. *)
Retry(r) ==
    /\ At(r, "clear")
    /\ cachedToken' = 0
    /\ request' = [request EXCEPT ![r].pc = "header", ![r].retried = TRUE,
                                  ![r].answer = "none"]
    /\ UNCHANGED <<credential, epoch, accepts, performed, outcome, clean>>

Invalidate ==
    /\ epoch < MaxEpoch
    /\ epoch' = epoch + 1
    /\ clean' = clean \ UnderWay
    /\ UNCHANGED <<credential, cachedToken, accepts, request, performed, outcome>>

-----------------------------------------------------------------------------
RequestNext(r) ==
    Begin(r) \/ Header(r) \/ Mint(r) \/ Store(r) \/ Handle(r) \/ Answered(r) \/ Retry(r)

RestNext == (\E r \in Requests : RequestNext(r)) \/ Invalidate

RestSpec == RestInit /\ [][RestNext]_restVars

-----------------------------------------------------------------------------
(* Properties. *)

(* A request that is retried is performed by the service at most once: a    *)
(* publish without an id is not doubled (rest.go:345-351).                 *)
PerformedOnce == \A r \in Requests : performed[r] <= 1

(* A token that expired costs no request its success: one that meets no     *)
(* other request and no new epoch is not refused, whatever earlier ones     *)
(* left in the cache ("a fresh token is fetched and the request retried     *)
(* once", rest.go:304-306).                                                *)
ExpiredIsRenewed ==
    \A r \in Requests :
        credential = "callback" /\ accepts /\ r \in clean => outcome[r] # "unauthorized"

=============================================================================
