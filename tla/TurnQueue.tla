------------------------------ MODULE TurnQueue ------------------------------
(***************************************************************************)
(* What the per-key queue of ConversationManager promises, without saying  *)
(* how: the turns of one conversation run one at a time in the order in    *)
(* which they were accepted, the conversations do not wait for each other, *)
(* and every accepted turn comes to its end.                               *)
(***************************************************************************)
EXTENDS Naturals

CONSTANTS Keys, MaxTurns

Turns == 1 .. MaxTurns

VARIABLES
    key,     \* the conversation of a turn, meaningful once it is accepted
    state    \* "idle", "waiting", "running" or "done"

vars == <<key, state>>

Init ==
    /\ key \in [Turns -> Keys]
    /\ state = [t \in Turns |-> "idle"]

Accept(t, k) ==
    /\ state[t] = "idle"
    /\ \A u \in 1 .. t - 1 : state[u] # "idle"
    /\ state' = [state EXCEPT ![t] = "waiting"]
    /\ key' = [key EXCEPT ![t] = k]

Start(t) ==
    /\ state[t] = "waiting"
    /\ \A u \in 1 .. t - 1 : key[u] = key[t] => state[u] = "done"
    /\ state' = [state EXCEPT ![t] = "running"]
    /\ UNCHANGED key

Finish(t) ==
    /\ state[t] = "running"
    /\ state' = [state EXCEPT ![t] = "done"]
    /\ UNCHANGED key

Next == \E t \in Turns : (\E k \in Keys : Accept(t, k)) \/ Start(t) \/ Finish(t)

Fairness == \A t \in Turns : WF_vars(Start(t)) /\ WF_vars(Finish(t))

Spec == Init /\ [][Next]_vars /\ Fairness
=============================================================================
