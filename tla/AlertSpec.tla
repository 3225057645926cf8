----------------------------- MODULE AlertSpec -----------------------------
(***************************************************************************)
(* What everything around raise_alert may rely on, without its statements,    *)
(* its lost races, stale copies, soft deletion, cooldown or failures:         *)
(*                                                                         *)
(*   - a breach opens a new alert only while no other alert of the same rule  *)
(*     and device is open, unless its rule is NULL;                           *)
(*   - an alert keeps its rule and device, and once closed it stays closed;   *)
(*   - people are told only of alerts that were raised.                       *)
(*                                                                         *)
(* AlertEngine and NotificationCenter are shown to implement it.             *)
(***************************************************************************)
CONSTANTS
    Alert,        \* alert ids
    Key,          \* (rule, device) pairs
    NullRuleKey,  \* the pairs whose rule is NULL
    None          \* the key of an alert not yet raised

VARIABLES
    life,  \* life[a]: not yet raised, open (hidden rows included), or closed
    key,   \* key[a]: what alert a is about
    told   \* alerts people have been told of

vars == <<life, key, told>>

Init ==
    /\ life = [a \in Alert |-> "none"]
    /\ key = [a \in Alert |-> None]
    /\ told = {}

OpenFor(k) == {a \in Alert : life[a] = "open" /\ key[a] = k}

\* The INSERT of raise_alert.
Raise(a, k) ==
    /\ life[a] = "none"
    /\ k \in NullRuleKey \/ OpenFor(k) = {}
    /\ life' = [life EXCEPT ![a] = "open"]
    /\ key' = [key EXCEPT ![a] = k]
    /\ UNCHANGED told

\* acknowledge_alert and resolve_alert, or the one UPDATE of _auto_resolve.
Close(S) ==
    /\ \A a \in S : life[a] = "open"
    /\ life' = [a \in Alert |-> IF a \in S THEN "closed" ELSE life[a]]
    /\ UNCHANGED <<key, told>>

\* _fan_out reaches somebody.
Tell(a) ==
    /\ life[a] # "none"
    /\ told' = told \union {a}
    /\ UNCHANGED <<life, key>>

Next ==
    \/ \E a \in Alert, k \in Key : Raise(a, k)
    \/ \E S \in SUBSET Alert : Close(S)
    \/ \E a \in Alert : Tell(a)

Spec == Init /\ [][Next]_vars
=============================================================================
