----------------------------- MODULE TokenClient -----------------------------
(***************************************************************************)
(* pkg/jamf/client.go: the bearer token that all calls of one Client       *)
(* share.  connector.New mints it; every call of doRequestWithMethod first *)
(* runs keepAliveToken, then sends its request, and on a 401 mints a new   *)
(* token and tries once more.                                              *)
(*                                                                         *)
(* token and lastKeepAlive are plain struct fields.  The SDK's task runner *)
(* and parallel syncs call the Client from several goroutines, so every    *)
(* read and every store of a field is a step of its own here, and a store  *)
(* that overlaps another access of the (two-word) token string may leave   *)
(* or show a mixture, Garbled.                                             *)
(*                                                                         *)
(* The Jamf server is external: it decides when a token dies, whether a    *)
(* keep-alive renews the token it was sent or replaces it, and its answers *)
(* can be lost.                                                            *)
(***************************************************************************)
EXTENDS Naturals

CONSTANTS
    Worker,       \* the goroutines that share the Client
    Token,        \* the bearer tokens the server can issue
    NoToken,      \* the empty string
    Garbled,      \* a torn token string
    Grantable,    \* what the "token" field of a 200 answer can be
    Renewals,     \* what a keep-alive does: "inPlace" renews the token it
                  \* was sent, "replace" issues another and revokes it
    Outages,      \* whether requests and answers can be lost or refused
    MaxExpiries   \* bound: how many times a token dies on its own

ASSUME TokenAssumption ==
    /\ NoToken \notin Token
    /\ Garbled \notin Token \cup {NoToken}
    /\ Grantable \subseteq Token \cup {NoToken}
    /\ Renewals \subseteq {"inPlace", "replace"}
    /\ Outages \in BOOLEAN
    /\ MaxExpiries \in Nat

Kinds == {"read", "write"}
Outcomes == {"none", "ok", "unauthenticated", "failed"}
TokenField == Token \cup {NoToken, Garbled}

\* Where a call is.  The names say what the worker is about to do; the
\* states of InFlight wait for the server.
InFlight == {"keepAlive", "request", "response", "mint"}
Stages ==
    InFlight \cup {"idle", "check", "renew", "storeToken", "storeStamp",
                   "send", "rejected", "setStamp", "setToken"}

VARIABLES
    token,     \* Client.token
    stale,     \* time.Since(Client.lastKeepAlive) >= 5 minutes
    live,      \* the tokens the server accepts
    expiries,  \* how many tokens have died on their own
    stage,     \* stage[w]: where w's call is
    tok,       \* tok[w]: the token w sent, or got and has yet to store
    firstTry,  \* firstTry[w] of w's call
    kind,      \* kind[w]: whether the call is a GET or a POST/DELETE
    effects,   \* effects[w]: how often the call took effect on the server
    outcome    \* outcome[w]: what w's last call returned

client == <<token, stale>>
server == <<live, expiries>>
call == <<kind, effects>>
vars == <<token, stale, live, expiries, stage, tok, firstTry, kind, effects,
          outcome>>

TypeOK ==
    /\ token \in TokenField
    /\ stale \in BOOLEAN
    /\ live \subseteq Token
    /\ expiries \in 0..MaxExpiries
    /\ stage \in [Worker -> Stages]
    /\ tok \in [Worker -> TokenField]
    /\ firstTry \in [Worker -> BOOLEAN]
    /\ kind \in [Worker -> Kinds]
    /\ effects \in [Worker -> {0, 1}]
    /\ outcome \in [Worker -> Outcomes]

\* connector.New mints a token before it builds the Client, so the Client
\* starts with what the server granted and lastKeepAlive = now.
Init ==
    /\ token \in Grantable
    /\ stale = FALSE
    /\ live = {token} \cap Token
    /\ expiries = 0
    /\ stage = [w \in Worker |-> "idle"]
    /\ tok = [w \in Worker |-> NoToken]
    /\ firstTry = [w \in Worker |-> TRUE]
    /\ kind = [w \in Worker |-> "read"]
    /\ effects = [w \in Worker |-> 0]
    /\ outcome = [w \in Worker |-> "none"]

-----------------------------------------------------------------------------
(* Accesses of the unsynchronised token field.                             *)

\* Another goroutine is storing the token string.
StoreRace(w) ==
    \E v \in Worker \ {w} : stage[v] \in {"storeToken", "setToken"}

\* What a read of c.token by w can give.
TokenRead(w) == {token} \cup {g \in {Garbled} : StoreRace(w)}

\* What c.token can hold once w has stored tok[w].
TokenStored(w) == {tok[w]} \cup {g \in {Garbled} : StoreRace(w)}

Goto(w, s) == stage' = [stage EXCEPT ![w] = s]

\* The call returns.  tok[w] is a local of the call: forgotten.
Return(w, o) ==
    /\ Goto(w, "idle")
    /\ outcome' = [outcome EXCEPT ![w] = o]
    /\ tok' = [tok EXCEPT ![w] = NoToken]

-----------------------------------------------------------------------------
(* The worker's own steps.                                                 *)

\* An exported method builds its URL and enters doRequestWithMethod.
BeginCall(w, k) ==
    /\ stage[w] = "idle"
    /\ Goto(w, "check")
    /\ kind' = [kind EXCEPT ![w] = k]
    /\ firstTry' = [firstTry EXCEPT ![w] = TRUE]
    /\ effects' = [effects EXCEPT ![w] = 0]
    /\ outcome' = [outcome EXCEPT ![w] = "none"]
    /\ UNCHANGED <<client, server, tok>>

\* keepAliveToken: an empty token is an error that ends the call, a recent
\* keep-alive is enough, anything else is renewed first.
CheckKeepAlive(w) ==
    /\ stage[w] = "check"
    /\ \/ token = NoToken /\ Return(w, "failed")
       \/ /\ token # NoToken
          /\ Goto(w, IF stale THEN "renew" ELSE "send")
          /\ UNCHANGED <<tok, outcome>>
    /\ UNCHANGED <<client, server, call, firstTry>>

\* keepAliveToken sends c.token to the keep-alive endpoint.
SendKeepAlive(w) ==
    /\ stage[w] = "renew"
    /\ \E t \in TokenRead(w) : tok' = [tok EXCEPT ![w] = t]
    /\ Goto(w, "keepAlive")
    /\ UNCHANGED <<client, server, call, firstTry, outcome>>

\* Mutated form: the renewed token is not stored.
StoreRenewedForgets(w) ==
    /\ stage[w] = "storeToken"
    /\ tok' = [tok EXCEPT ![w] = NoToken]
    /\ Goto(w, "storeStamp")
    /\ UNCHANGED <<client, server, call, firstTry, outcome>>

\* c.token = target.Token
StoreRenewed(w) ==
    /\ stage[w] = "storeToken"
    /\ token' \in TokenStored(w)
    /\ tok' = [tok EXCEPT ![w] = NoToken]
    /\ Goto(w, "storeStamp")
    /\ UNCHANGED <<stale, server, call, firstTry, outcome>>

\* c.lastKeepAlive = time.Now(), and keepAliveToken returns nil.
StampRenewed(w) ==
    /\ stage[w] = "storeStamp"
    /\ stale' = FALSE
    /\ Goto(w, "send")
    /\ UNCHANGED <<token, server, tok, call, firstTry, outcome>>

\* The request is built with the token of that moment and handed to the
\* wrapper.
SendRequest(w) ==
    /\ stage[w] = "send"
    /\ \E t \in TokenRead(w) : tok' = [tok EXCEPT ![w] = t]
    /\ Goto(w, "request")
    /\ UNCHANGED <<client, server, call, firstTry, outcome>>

\* The wrapper answers a GET from its response cache: the server does not
\* see it, and the token does not matter.
CacheHit(w) ==
    /\ stage[w] = "send"
    /\ kind[w] = "read"
    /\ Return(w, "ok")
    /\ UNCHANGED <<client, server, call, firstTry>>

\* Mutated form: every 401 mints a new token and tries again.
HandleRejectionForever(w) ==
    /\ stage[w] = "rejected"
    /\ Goto(w, "mint")
    /\ tok' = [tok EXCEPT ![w] = NoToken]
    /\ UNCHANGED <<client, server, call, firstTry, outcome>>

\* A 401.  The first one mints a new token, the second one is returned.
HandleRejection(w) ==
    /\ stage[w] = "rejected"
    /\ \/ /\ firstTry[w]
          /\ Goto(w, "mint")
          /\ tok' = [tok EXCEPT ![w] = NoToken]
          /\ UNCHANGED outcome
       \/ ~firstTry[w] /\ Return(w, "unauthenticated")
    /\ UNCHANGED <<client, server, call, firstTry>>

\* Mutated form: SetBearerToken publishes the token before it is done.
StampMintedPublishes(w) ==
    /\ stage[w] = "setStamp"
    /\ stale' = FALSE
    /\ token' = tok[w]
    /\ Goto(w, "setToken")
    /\ UNCHANGED <<server, tok, call, firstTry, outcome>>

\* SetBearerToken: lastKeepAlive first ...
StampMinted(w) ==
    /\ stage[w] = "setStamp"
    /\ stale' = FALSE
    /\ Goto(w, "setToken")
    /\ UNCHANGED <<token, server, tok, call, firstTry, outcome>>

\* ... then the token; firstTry = false, and the request is sent again.
StoreMinted(w) ==
    /\ stage[w] = "setToken"
    /\ token' \in TokenStored(w)
    /\ tok' = [tok EXCEPT ![w] = NoToken]
    /\ firstTry' = [firstTry EXCEPT ![w] = FALSE]
    /\ Goto(w, "send")
    /\ UNCHANGED <<stale, server, call, outcome>>

\* The answer arrives.  A write discards the body; a read decodes it, and a
\* body that cannot be read or decoded is an error.
ReceiveResponse(w) ==
    /\ stage[w] = "response"
    /\ \/ Return(w, "ok")
       \/ Outages /\ kind[w] = "read" /\ Return(w, "failed")
    /\ UNCHANGED <<client, server, call, firstTry>>

-----------------------------------------------------------------------------
(* The Jamf server and the network (external).                             *)

\* Tokens nobody refers to any more can stand for newly issued ones.
Unused(w) ==
    Token \ ({token} \cup {tok[v] : v \in Worker \ {w}})

\* A live token is renewed in place, or replaced and revoked.
AnswerKeepAlive(w) ==
    /\ stage[w] = "keepAlive"
    /\ tok[w] \in live
    /\ \/ "inPlace" \in Renewals /\ UNCHANGED <<live, tok>>
       \/ \E t \in Grantable \cap (Unused(w) \cup {NoToken}) :
            /\ "replace" \in Renewals
            /\ live' = (live \ {tok[w]}) \cup ({t} \cap Token)
            /\ tok' = [tok EXCEPT ![w] = t]
    /\ Goto(w, "storeToken")
    /\ UNCHANGED <<client, expiries, call, firstTry, outcome>>

\* A dead token is answered 401, which keepAliveToken returns as it is and
\* doRequestWithMethod passes on.
RefuseKeepAlive(w) ==
    /\ stage[w] = "keepAlive"
    /\ tok[w] \notin live
    /\ Return(w, "unauthenticated")
    /\ UNCHANGED <<client, server, call, firstTry>>

\* The server handles the request: a write takes effect.
ServeRequest(w) ==
    /\ stage[w] = "request"
    /\ tok[w] \in live
    /\ effects' = [effects EXCEPT ![w] =
                     @ + (IF kind[w] = "write" THEN 1 ELSE 0)]
    /\ Goto(w, "response")
    /\ UNCHANGED <<client, server, tok, kind, firstTry, outcome>>

\* A dead, empty or torn token is answered 401 and nothing is done.
RefuseRequest(w) ==
    /\ stage[w] = "request"
    /\ tok[w] \notin live
    /\ Goto(w, "rejected")
    /\ UNCHANGED <<client, server, tok, call, firstTry, outcome>>

\* The token endpoint checks the user name and password only.
AnswerMint(w) ==
    /\ stage[w] = "mint"
    /\ \E t \in Grantable \cap (Unused(w) \cup {NoToken}) :
         /\ live' = live \cup ({t} \cap Token)
         /\ tok' = [tok EXCEPT ![w] = t]
    /\ Goto(w, "setStamp")
    /\ UNCHANGED <<client, expiries, call, firstTry, outcome>>

\* It refuses them, the password having been changed, say: CreateBearerToken's
\* 401 is the call's error.
RefuseMint(w) ==
    /\ Outages
    /\ stage[w] = "mint"
    /\ Return(w, "unauthenticated")
    /\ UNCHANGED <<client, server, call, firstTry>>

\* Mutated form: any failed request is tried once more, not only a 401.
LoseCallRetries(w) ==
    /\ Outages
    /\ stage[w] \in {"request", "response"}
    /\ \/ /\ firstTry[w]
          /\ firstTry' = [firstTry EXCEPT ![w] = FALSE]
          /\ Goto(w, "send")
          /\ UNCHANGED <<tok, outcome>>
       \/ ~firstTry[w] /\ Return(w, "failed") /\ UNCHANGED firstTry
    /\ UNCHANGED <<client, server, call>>

\* Mutated form: the error of a request is dropped.
LoseCallDropsError(w) ==
    /\ Outages
    /\ stage[w] \in InFlight
    /\ Return(w, IF stage[w] = "request" THEN "ok" ELSE "failed")
    /\ UNCHANGED <<client, server, call, firstTry>>

\* No answer reaches the worker, or an answer other than 200 and 401.  A
\* keep-alive whose answer is lost may have revoked the token it sent.
LoseCall(w) ==
    /\ Outages
    /\ stage[w] \in InFlight
    /\ \/ UNCHANGED live
       \/ stage[w] = "keepAlive" /\ "replace" \in Renewals
          /\ live' = live \ {tok[w]}
    /\ Return(w, "failed")
    /\ UNCHANGED <<client, expiries, call, firstTry>>

\* A token's lifetime ends, or the server forgets it.
Expire(t) ==
    /\ t \in live
    /\ expiries < MaxExpiries
    /\ expiries' = expiries + 1
    /\ live' = live \ {t}
    /\ UNCHANGED <<client, stage, tok, firstTry, call, outcome>>

\* Five minutes have passed since lastKeepAlive was stored.
GrowStale ==
    /\ ~stale
    /\ stale' = TRUE
    /\ UNCHANGED <<token, server, stage, tok, firstTry, call, outcome>>

-----------------------------------------------------------------------------
WorkerStep(w) ==
    \/ CheckKeepAlive(w)
    \/ SendKeepAlive(w)
    \/ StoreRenewed(w)
    \/ StampRenewed(w)
    \/ SendRequest(w)
    \/ CacheHit(w)
    \/ HandleRejection(w)
    \/ StampMinted(w)
    \/ StoreMinted(w)
    \/ ReceiveResponse(w)

ServerStep(w) ==
    \/ AnswerKeepAlive(w)
    \/ RefuseKeepAlive(w)
    \/ ServeRequest(w)
    \/ RefuseRequest(w)
    \/ AnswerMint(w)
    \/ RefuseMint(w)
    \/ LoseCall(w)

Progress(w) == WorkerStep(w) \/ ServerStep(w)

Next ==
    \/ \E w \in Worker : Progress(w) \/ \E k \in Kinds : BeginCall(w, k)
    \/ \E t \in Token : Expire(t)
    \/ GrowStale

Spec == Init /\ [][Next]_vars

\* Goroutines are scheduled, and the HTTP client's timeout ends a request
\* that is never answered: a call in progress keeps moving.
Fairness == \A w \in Worker : WF_vars(Progress(w))

FairSpec == Spec /\ Fairness

\* Moreover the callers keep writing: whoever can call does so again.
BusySpec == FairSpec /\ \A w \in Worker : SF_vars(BeginCall(w, "write"))

-----------------------------------------------------------------------------
(* Properties.                                                             *)

\* The calls as their callers see them.
Calls == INSTANCE RequestService
           WITH pending <- {w \in Worker : stage[w] # "idle"}

\* doRequestWithMethod's retry after a 401 never repeats a write that took
\* effect, success is never reported for one that did not, a refusal is
\* never reported for one that did, and every call returns.
ImplementsRequestService == Calls!Spec

\* How far a call has come tells whether its write has taken effect: not
\* before the server served it, exactly once from then on, whichever way
\* through keep-alive, refusal and retry the call took.
EffectMatchesStage ==
    \A w \in Worker :
        LET done == IF kind[w] = "write" THEN 1 ELSE 0 IN
        /\ stage[w] \notin {"idle", "response"} => effects[w] = 0
        /\ stage[w] = "response" => effects[w] = done
        /\ outcome[w] = "ok" => effects[w] = done
        /\ outcome[w] \in {"none", "unauthenticated"} /\ stage[w] = "idle"
              => effects[w] = 0
        /\ effects[w] \in {0, done}

\* w holds a token that the server issued and that w has yet to store.
Holding(w) == stage[w] \in {"storeToken", "setStamp", "setToken"}

\* As long as no token died on its own, a token that waits to be stored is
\* live, because only its holder knows it: no other call can have it replaced.
HeldPrivately ==
    expiries = 0 => \A w \in Worker : Holding(w) =>
        /\ tok[w] \in live
        /\ tok[w] # token
        /\ \A v \in Worker \ {w} : tok[v] # tok[w]

\* No renewed token is lost to concurrent calls: as long as the server
\* revokes a token only by replacing it and every answer arrives, the
\* Client's token is dead only while some call still has a live one to
\* store, or after two stores that overlapped.
NoTokenLost ==
    \/ expiries > 0
    \/ token \in live \cup {Garbled}
    \/ \E w \in Worker : Holding(w) /\ tok[w] \in live

\* "the connector refreshes the token itself" (docs/docs-info.md:40): with
\* the server up, the password valid and callers calling, an expired token
\* is eventually replaced by a live one.
TokenRecovers == token \notin live ~> token \in live
=============================================================================
