--------------------------- MODULE RequestService ---------------------------
(***************************************************************************)
(* What pkg/jamf's Client promises each caller of doRequestWithMethod:     *)
(* a call is invoked, takes effect on the Jamf server at most once while   *)
(* it is pending, and is answered.  "ok" for a write means that it took    *)
(* effect; "unauthenticated" means that it did not; "failed" (a timeout, a *)
(* lost answer, a refusal) leaves the caller in doubt.                     *)
(***************************************************************************)
EXTENDS Naturals

CONSTANT Worker  \* the goroutines that share one Client

Kinds == {"read", "write"}
Outcomes == {"none", "ok", "unauthenticated", "failed"}

VARIABLES
    pending,  \* the workers whose call has not returned
    kind,     \* kind[w]: the method of w's latest call, GET or POST/DELETE
    effects,  \* effects[w]: how often that call took effect on the server
    outcome   \* outcome[w]: what it returned

vars == <<pending, kind, effects, outcome>>

Init ==
    /\ pending = {}
    /\ kind = [w \in Worker |-> "read"]
    /\ effects = [w \in Worker |-> 0]
    /\ outcome = [w \in Worker |-> "none"]

Invoke(w, k) ==
    /\ w \notin pending
    /\ pending' = pending \cup {w}
    /\ kind' = [kind EXCEPT ![w] = k]
    /\ effects' = [effects EXCEPT ![w] = 0]
    /\ outcome' = [outcome EXCEPT ![w] = "none"]

TakeEffect(w) ==
    /\ w \in pending
    /\ kind[w] = "write"
    /\ effects[w] = 0
    /\ effects' = [effects EXCEPT ![w] = 1]
    /\ UNCHANGED <<pending, kind, outcome>>

Answer(w, o) ==
    /\ w \in pending
    /\ o = "ok" => (kind[w] = "write" => effects[w] = 1)
    /\ o = "unauthenticated" => effects[w] = 0
    /\ pending' = pending \ {w}
    /\ outcome' = [outcome EXCEPT ![w] = o]
    /\ UNCHANGED <<kind, effects>>

AnswerAny(w) == \E o \in Outcomes \ {"none"} : Answer(w, o)

Next ==
    \E w \in Worker :
        \/ \E k \in Kinds : Invoke(w, k)
        \/ TakeEffect(w)
        \/ AnswerAny(w)

Safety == Init /\ [][Next]_vars

\* Every call is answered.
Spec == Safety /\ \A w \in Worker : WF_vars(AnswerAny(w))

=============================================================================
