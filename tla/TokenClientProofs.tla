-------------------------- MODULE TokenClientProofs --------------------------
(***************************************************************************)
(* Theorems about TokenClient for any number of workers and tokens.        *)
(***************************************************************************)
EXTENDS TokenClient, TLAPS

\* EffectMatchesStage needs the types and the types need it (a write takes
\* effect only from 0): the two are one inductive invariant.
CallInv == TypeOK /\ EffectMatchesStage

LEMMA CallInit == Init => CallInv
<1> SUFFICES ASSUME Init PROVE CallInv
  OBVIOUS
<1>1. TypeOK
  <2>1. token \in TokenField /\ live \subseteq Token /\ stale \in BOOLEAN
    BY TokenAssumption DEF Init, TokenField
  <2>2. expiries \in 0..MaxExpiries
    BY TokenAssumption DEF Init
  <2>3. /\ stage \in [Worker -> Stages] /\ tok \in [Worker -> TokenField]
        /\ firstTry \in [Worker -> BOOLEAN] /\ kind \in [Worker -> Kinds]
        /\ effects \in [Worker -> {0, 1}] /\ outcome \in [Worker -> Outcomes]
    BY DEF Init, TokenField, Stages, Kinds, Outcomes
  <2> QED
    BY <2>1, <2>2, <2>3 DEF TypeOK
<1>2. EffectMatchesStage
  BY DEF Init, EffectMatchesStage
<1> QED
  BY <1>1, <1>2 DEF CallInv

LEMMA CallWorkerStep ==
    ASSUME CallInv, NEW w \in Worker, WorkerStep(w)
    PROVE  CallInv'
<1> USE DEF CallInv, TypeOK, EffectMatchesStage, TokenField, Stages, InFlight,
            Kinds, Outcomes, client, server, call, Goto, Return
<1>1. CASE CheckKeepAlive(w)
  BY <1>1 DEF CheckKeepAlive
<1>2. CASE SendKeepAlive(w)
  BY <1>2 DEF SendKeepAlive, TokenRead
<1>3. CASE StoreRenewed(w)
  BY <1>3 DEF StoreRenewed, TokenStored
<1>4. CASE StampRenewed(w)
  BY <1>4 DEF StampRenewed
<1>5. CASE SendRequest(w)
  BY <1>5 DEF SendRequest, TokenRead
<1>6. CASE CacheHit(w)
  BY <1>6 DEF CacheHit
<1>7. CASE HandleRejection(w)
  BY <1>7 DEF HandleRejection
<1>8. CASE StampMinted(w)
  BY <1>8 DEF StampMinted
<1>9. CASE StoreMinted(w)
  BY <1>9 DEF StoreMinted, TokenStored
<1>10. CASE ReceiveResponse(w)
  BY <1>10 DEF ReceiveResponse
<1> QED
  BY <1>1, <1>2, <1>3, <1>4, <1>5, <1>6, <1>7, <1>8, <1>9, <1>10
     DEF WorkerStep

LEMMA CallServerStep ==
    ASSUME CallInv, NEW w \in Worker, ServerStep(w)
    PROVE  CallInv'
<1> USE TokenAssumption
    DEF CallInv, TypeOK, EffectMatchesStage, TokenField, Stages, InFlight,
        Kinds, Outcomes, client, server, call, Goto, Return
<1>1. CASE AnswerKeepAlive(w)
  BY <1>1 DEF AnswerKeepAlive, Unused
<1>2. CASE RefuseKeepAlive(w)
  BY <1>2 DEF RefuseKeepAlive
<1>3. CASE ServeRequest(w)
  BY <1>3 DEF ServeRequest
<1>4. CASE RefuseRequest(w)
  BY <1>4 DEF RefuseRequest
<1>5. CASE AnswerMint(w)
  BY <1>5 DEF AnswerMint, Unused
<1>6. CASE RefuseMint(w)
  BY <1>6 DEF RefuseMint
<1>7. CASE LoseCall(w)
  BY <1>7 DEF LoseCall
<1> QED
  BY <1>1, <1>2, <1>3, <1>4, <1>5, <1>6, <1>7 DEF ServerStep

LEMMA CallStep == CallInv /\ [Next]_vars => CallInv'
<1> SUFFICES ASSUME CallInv, [Next]_vars PROVE CallInv'
  OBVIOUS
<1> USE TokenAssumption
    DEF CallInv, TypeOK, EffectMatchesStage, TokenField, Stages, InFlight,
        Kinds, Outcomes, client, server, call
<1>1. ASSUME NEW w \in Worker, NEW k \in Kinds, BeginCall(w, k) PROVE CallInv'
  BY <1>1 DEF BeginCall, Goto
<1>2. ASSUME NEW t \in Token, Expire(t) PROVE CallInv'
  BY <1>2 DEF Expire
<1>3. CASE GrowStale
  BY <1>3 DEF GrowStale
<1>4. CASE UNCHANGED vars
  BY <1>4 DEF vars
<1> QED
  BY <1>1, <1>2, <1>3, <1>4, CallWorkerStep, CallServerStep DEF Next, Progress

\* Every reachable state of the Client and its calls is well formed; a call's
\* write has taken effect at most once.
THEOREM TypeCorrect == Spec => []TypeOK
<1>1. CallInv => TypeOK
  BY DEF CallInv
<1> QED
  BY <1>1, CallInit, CallStep, PTL DEF Spec

\* A write takes effect exactly when the server serves it, on whichever
\* way through keep-alive, refusal and retry the call took.
THEOREM EffectsCorrect == Spec => []EffectMatchesStage
<1>1. CallInv => EffectMatchesStage
  BY DEF CallInv
<1> QED
  BY <1>1, CallInit, CallStep, PTL DEF Spec

-----------------------------------------------------------------------------
(* Refinement: the calls implement RequestService.                         *)

\* The step of RequestService that one step of a call is.
LEMMA CallRefinesStep ==
    ASSUME CallInv, CallInv', NEW w \in Worker, Progress(w)
    PROVE  [Calls!Next]_Calls!vars
<1> USE DEF CallInv, TypeOK, client, server, call, Goto, Return
<1> DEFINE calling == {v \in Worker : stage[v] # "idle"}
<1>1. ASSUME UNCHANGED <<kind, effects, outcome>>, stage[w] # "idle",
             NEW s, s # "idle", Goto(w, s)
      PROVE  UNCHANGED Calls!vars
  <2>1. calling' = calling
    BY <1>1
  <2> QED
    BY <1>1, <2>1 DEF Calls!vars
<1>2. ASSUME UNCHANGED call, stage[w] # "idle", NEW o \in Outcomes \ {"none"},
             Return(w, o)
      PROVE  Calls!Next
  <2>1. calling' = calling \ {w} /\ w \in calling
    BY <1>2
  <2>2. outcome'[w] = o /\ stage'[w] = "idle"
    BY <1>2
  <2>3. /\ o = "ok" => (kind[w] = "write" => effects[w] = 1)
        /\ o = "unauthenticated" => effects[w] = 0
    BY <1>2, <2>2 DEF EffectMatchesStage, Outcomes
  <2>4. Calls!Answer(w, o)
    BY <1>2, <2>1, <2>3 DEF Calls!Answer
  <2> QED
    BY <2>4 DEF Calls!Next, Calls!AnswerAny, Calls!Outcomes, Outcomes
<1>3. CASE ServeRequest(w)
  <2>1. calling' = calling /\ w \in calling
    BY <1>3 DEF ServeRequest
  <2>2. effects[w] = 0
    BY <1>3 DEF ServeRequest, EffectMatchesStage
  <2>3. CASE kind[w] = "write"
    <3>1. Calls!TakeEffect(w)
      BY <1>3, <2>1, <2>2, <2>3 DEF ServeRequest, Calls!TakeEffect
    <3> QED
      BY <3>1 DEF Calls!Next
  <2>4. CASE kind[w] # "write"
    <3>1. UNCHANGED effects
      BY <1>3, <2>2, <2>4 DEF ServeRequest
    <3> QED
      BY <1>3, <2>1, <3>1 DEF ServeRequest, Calls!vars
  <2> QED
    BY <2>3, <2>4
<1>4. ASSUME ~ServeRequest(w)
      PROVE  \/ /\ UNCHANGED <<kind, effects, outcome>>
                /\ stage[w] # "idle"
                /\ \E s \in Stages \ {"idle"} : Goto(w, s)
             \/ /\ UNCHANGED call
                /\ stage[w] # "idle"
                /\ \E o \in Outcomes \ {"none"} : Return(w, o)
  BY <1>4 DEF Progress, WorkerStep, ServerStep, CheckKeepAlive, SendKeepAlive,
     StoreRenewed, StampRenewed, SendRequest, CacheHit, HandleRejection,
     StampMinted, StoreMinted, ReceiveResponse, AnswerKeepAlive,
     RefuseKeepAlive, RefuseRequest, AnswerMint, RefuseMint, LoseCall, Stages,
     InFlight, Outcomes
<1> QED
  BY <1>1, <1>2, <1>3, <1>4

LEMMA NextRefines == CallInv /\ CallInv' /\ [Next]_vars => [Calls!Next]_Calls!vars
<1> SUFFICES ASSUME CallInv, CallInv', [Next]_vars
             PROVE  [Calls!Next]_Calls!vars
  OBVIOUS
<1> USE DEF client, server, call
<1>1. ASSUME NEW w \in Worker, NEW k \in Kinds, BeginCall(w, k)
      PROVE  Calls!Next
  <2>1. /\ {v \in Worker : stage'[v] # "idle"}
             = {v \in Worker : stage[v] # "idle"} \cup {w}
        /\ stage[w] = "idle"
    BY <1>1 DEF BeginCall, Goto, CallInv, TypeOK
  <2>2. Calls!Invoke(w, k)
    BY <1>1, <2>1 DEF BeginCall, Calls!Invoke
  <2> QED
    BY <2>2 DEF Calls!Next, Calls!Kinds, Kinds
<1>2. ASSUME NEW t \in Token, Expire(t) PROVE UNCHANGED Calls!vars
  BY <1>2 DEF Expire, Calls!vars
<1>3. CASE GrowStale
  BY <1>3 DEF GrowStale, Calls!vars
<1>4. CASE UNCHANGED vars
  BY <1>4 DEF vars, Calls!vars
<1> QED
  BY <1>1, <1>2, <1>3, <1>4, CallRefinesStep DEF Next

\* Each call of the Client takes effect at most once and is answered
\* truthfully, whatever the other workers, the server and the network do:
\* the safety part of ImplementsRequestService.
THEOREM RefinesRequestService == Spec => Calls!Safety
<1>1. Init => Calls!Init
  BY DEF Init, Calls!Init
<1> QED
  BY <1>1, CallInit, CallStep, NextRefines, PTL DEF Spec, Calls!Safety

-----------------------------------------------------------------------------
(* No renewed token is lost.                                               *)

RotationInv == TypeOK /\ HeldPrivately /\ NoTokenLost

\* Every answer arrives and grants a token, and a keep-alive replaces the
\* token it was sent.
Reliable ==
    /\ Grantable \subseteq Token
    /\ Renewals = {"replace"}
    /\ Outages = FALSE

LEMMA RotationInit == ASSUME Reliable PROVE Init => RotationInv
<1> SUFFICES ASSUME Init PROVE RotationInv
  OBVIOUS
<1>1. TypeOK
  BY CallInit DEF CallInv
<1>2. token \in live
  BY DEF Init, Reliable
<1> QED
  BY <1>1, <1>2 DEF Init, RotationInv, HeldPrivately, Holding, NoTokenLost

LEMMA RotationWorkerStep ==
    ASSUME Reliable, RotationInv, TypeOK', NEW w \in Worker, WorkerStep(w)
    PROVE  RotationInv'
<1> USE DEF RotationInv, TypeOK, HeldPrivately, NoTokenLost, Holding, client,
            server, call, Goto, Return
<1>1. Garbled \notin live /\ NoToken \notin live
  BY TokenAssumption
<1>2. CASE CheckKeepAlive(w)
  BY <1>1, <1>2 DEF CheckKeepAlive
<1>3. CASE SendKeepAlive(w)
  BY <1>1, <1>3 DEF SendKeepAlive, TokenRead
<1>4. CASE StoreRenewed(w)
  BY <1>1, <1>4 DEF StoreRenewed, TokenStored
<1>5. CASE StampRenewed(w)
  BY <1>5 DEF StampRenewed
<1>6. CASE SendRequest(w)
  BY <1>1, <1>6 DEF SendRequest, TokenRead
<1>7. CASE CacheHit(w)
  BY <1>1, <1>7 DEF CacheHit
<1>8. CASE HandleRejection(w)
  BY <1>1, <1>8 DEF HandleRejection
<1>9. CASE StampMinted(w)
  BY <1>9 DEF StampMinted
<1>10. CASE StoreMinted(w)
  BY <1>1, <1>10 DEF StoreMinted, TokenStored
<1>11. CASE ReceiveResponse(w)
  BY <1>1, <1>11 DEF ReceiveResponse
<1> QED
  BY <1>2, <1>3, <1>4, <1>5, <1>6, <1>7, <1>8, <1>9, <1>10, <1>11
     DEF WorkerStep

LEMMA RotationServerStep ==
    ASSUME Reliable, RotationInv, TypeOK', NEW w \in Worker, ServerStep(w)
    PROVE  RotationInv'
<1> USE DEF RotationInv, TypeOK, HeldPrivately, NoTokenLost, Holding, client,
            server, call, Goto, Return
<1>1. Garbled \notin live /\ NoToken \notin live
  BY TokenAssumption
<1>2. CASE AnswerKeepAlive(w)
  <2>1. PICK t \in Grantable \cap Unused(w) :
           /\ live' = (live \ {tok[w]}) \cup {t}
           /\ tok' = [tok EXCEPT ![w] = t]
    BY <1>2, TokenAssumption DEF AnswerKeepAlive, Reliable
  <2>2. Holding(w)' /\ tok'[w] = t /\ t \in live' /\ t # token
    BY <1>2, <2>1 DEF AnswerKeepAlive, Unused
  <2>3. \A v \in Worker \ {w} : tok'[v] = tok[v] /\ tok[v] # t
    BY <2>1 DEF Unused
  <2>4. HeldPrivately'
    BY <1>2, <2>1, <2>2, <2>3 DEF AnswerKeepAlive
  <2>5. NoTokenLost'
    BY <2>2
  <2> QED
    BY <2>4, <2>5
<1>3. CASE RefuseKeepAlive(w)
  BY <1>1, <1>3 DEF RefuseKeepAlive
<1>4. CASE ServeRequest(w)
  BY <1>4 DEF ServeRequest
<1>5. CASE RefuseRequest(w)
  BY <1>5 DEF RefuseRequest
<1>6. CASE AnswerMint(w)
  <2>1. PICK t \in Grantable \cap Unused(w) :
           /\ live' = live \cup {t}
           /\ tok' = [tok EXCEPT ![w] = t]
    <3>1. \A t \in Grantable \cap (Unused(w) \cup {NoToken}) :
             t \in Grantable \cap Unused(w) /\ {t} \cap Token = {t}
      BY TokenAssumption DEF Reliable
    <3> QED
      BY <1>6, <3>1 DEF AnswerMint
  <2>2. Holding(w)' /\ tok'[w] = t /\ t \in live' /\ t # token
    BY <1>6, <2>1 DEF AnswerMint, Unused
  <2>3. \A v \in Worker \ {w} : tok'[v] = tok[v] /\ tok[v] # t
    BY <2>1 DEF Unused
  <2>4. HeldPrivately'
    BY <1>6, <2>1, <2>2, <2>3 DEF AnswerMint
  <2>5. NoTokenLost'
    BY <2>2
  <2> QED
    BY <2>4, <2>5
<1>7. ~LoseCall(w) /\ ~RefuseMint(w)
  BY DEF LoseCall, RefuseMint, Reliable
<1> QED
  BY <1>2, <1>3, <1>4, <1>5, <1>6, <1>7 DEF ServerStep

LEMMA RotationStep ==
    ASSUME Reliable
    PROVE  RotationInv /\ TypeOK' /\ [Next]_vars => RotationInv'
<1> SUFFICES ASSUME RotationInv, TypeOK', [Next]_vars PROVE RotationInv'
  OBVIOUS
<1> USE DEF RotationInv, HeldPrivately, NoTokenLost, Holding, client, server,
            call
<1>1. ASSUME NEW w \in Worker, NEW k \in Kinds, BeginCall(w, k)
      PROVE  RotationInv'
  BY <1>1 DEF BeginCall, Goto, TypeOK
<1>2. ASSUME NEW t \in Token, Expire(t) PROVE RotationInv'
  <2>1. expiries' > 0
    BY <1>2 DEF Expire, TypeOK
  <2> QED
    BY <2>1
<1>3. CASE GrowStale
  BY <1>3 DEF GrowStale
<1>4. CASE UNCHANGED vars
  BY <1>4 DEF vars
<1> QED
  BY <1>1, <1>2, <1>3, <1>4, RotationWorkerStep, RotationServerStep
     DEF Next, Progress

\* However many calls renew and mint tokens at once, with a reliable server
\* the Client ends up with a live token unless two stores of it overlapped.
THEOREM TokensKept == ASSUME Reliable PROVE Spec => []NoTokenLost
<1>1. RotationInv => NoTokenLost
  BY DEF RotationInv
<1> QED
  BY <1>1, RotationInit, RotationStep, TypeCorrect, PTL DEF Spec

\* With a reliable server, the token a call is about to store is live and no
\* other call or the Client has it: keepAliveToken and the retry after a 401
\* publish a token only when they assign it to the Client.
THEOREM TokensPrivate == ASSUME Reliable PROVE Spec => []HeldPrivately
<1>1. RotationInv => HeldPrivately
  BY DEF RotationInv
<1> QED
  BY <1>1, RotationInit, RotationStep, TypeCorrect, PTL DEF Spec
=============================================================================
