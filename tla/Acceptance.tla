----------------------------- MODULE Acceptance -----------------------------
(***************************************************************************)
(* What a client may rely on when it sends a mutation with an idempotency  *)
(* key: requests with one key take effect at most once, whoever sends them *)
(* and however often; a repetition is answered with the resource of the    *)
(* first; the same key with other contents is a conflict; a request that   *)
(* failed without effect may be repeated; and every request is answered.   *)
(***************************************************************************)
CONSTANTS
    Attempts,  \* requests as they arrive, repetitions included
    Scopes,    \* idempotency keys, each within its kind of mutation
    Contents,
    None,         \* not sent, or not answered yet
    Conflicting,  \* the key was used for other contents
    Refused,      \* the request is wrong
    Failed        \* an error, or the answer is lost

VARIABLES
    request,  \* scope and contents of each attempt
    effects,  \* the attempts that changed the business state
    answer    \* None, the attempt whose resource is returned, or a refusal

vars == <<request, effects, answer>>

Init ==
    /\ request = [a \in Attempts |-> None]
    /\ effects = {}
    /\ answer = [a \in Attempts |-> None]

Send(a, s, content) ==
    /\ request[a] = None
    /\ request' = [request EXCEPT ![a] = [scope |-> s, content |-> content]]
    /\ UNCHANGED <<effects, answer>>

Waiting(a) == request[a] # None /\ answer[a] = None

Answers(a, r) == answer' = [answer EXCEPT ![a] = r]

\* The request takes effect; its answer may be lost.
Accept(a) ==
    /\ Waiting(a)
    /\ \A b \in effects : request[b].scope # request[a].scope
    /\ effects' = effects \cup {a}
    /\ Answers(a, a) \/ Answers(a, Failed)
    /\ UNCHANGED request

Replay(a) ==
    /\ Waiting(a)
    /\ \E b \in effects : request[b] = request[a] /\ Answers(a, b)
    /\ UNCHANGED <<request, effects>>

Conflict(a) ==
    /\ Waiting(a)
    /\ \E b \in effects : /\ request[b].scope = request[a].scope
                          /\ request[b].content # request[a].content
    /\ Answers(a, Conflicting)
    /\ UNCHANGED <<request, effects>>

\* Without effect.
Refuse(a) ==
    /\ Waiting(a)
    /\ Answers(a, Refused) \/ Answers(a, Failed)
    /\ UNCHANGED <<request, effects>>

Respond(a) == Accept(a) \/ Replay(a) \/ Conflict(a) \/ Refuse(a)

Next ==
    \E a \in Attempts : \/ \E s \in Scopes, content \in Contents : Send(a, s, content)
                        \/ Respond(a)

Spec == Init /\ [][Next]_vars

=============================================================================
