---------------------------- MODULE CommandSpec ----------------------------
(***************************************************************************)
(* What the remote-control path promises of a DeviceCommand's status,       *)
(* without the broker, the bridge, stale instances or crashes:              *)
(*                                                                         *)
(*   - the request that issued the command marks it SENT at most once, and  *)
(*     only while it is open;                                               *)
(*   - an answer enters the row only if the device gave it for that command; *)
(*   - only a command nobody has answered expires;                          *)
(*   - in the end no command is pending.                                    *)
(*                                                                         *)
(* CommandLifecycle is shown to implement this specification.               *)
(***************************************************************************)
CONSTANT Command   \* the rows of devices_devicecommand

VARIABLES
    status,    \* the status column, "absent" before the INSERT
    phase,     \* the issuing request: not begun, may still mark SENT, or not
    reported   \* the statuses the device's answers so far stand for

vars == <<status, phase, reported>>

Pending == {"queued", "sent"}
Outcome == {"completed", "failed"}
Answered == {"acked"} \union Outcome

Init ==
    /\ status = [c \in Command |-> "absent"]
    /\ phase = [c \in Command |-> "new"]
    /\ reported = [c \in Command |-> {}]

\* dispatch_command begins: the INSERT.
Issue(c) ==
    /\ phase[c] = "new"
    /\ status' = [status EXCEPT ![c] = "queued"]
    /\ phase' = [phase EXCEPT ![c] = "open"]
    /\ UNCHANGED reported

\* ... its one UPDATE to SENT, over whatever status the row has by then.
MarkSent(c) ==
    /\ phase[c] = "open"
    /\ status' = [status EXCEPT ![c] = "sent"]
    /\ phase' = [phase EXCEPT ![c] = "closed"]
    /\ UNCHANGED reported

\* ... or its failures: an exception, or the process of several requests dies.
Close(S) ==
    /\ \A c \in S : phase[c] = "open"
    /\ phase' = [c \in Command |-> IF c \in S THEN "closed" ELSE phase[c]]
    /\ UNCHANGED <<status, reported>>

\* The device answers; an outcome is its last word.
Answer(c, s) ==
    /\ phase[c] # "new"
    /\ reported[c] \intersect Outcome = {}
    /\ reported' = [reported EXCEPT ![c] = @ \union {s}]
    /\ UNCHANGED <<status, phase>>

\* transition_command
Record(c, s) ==
    /\ status[c] # "absent"
    /\ s \in reported[c]
    /\ status' = [status EXCEPT ![c] = s]
    /\ UNCHANGED <<phase, reported>>

\* expire_stale_commands
Expire(S) ==
    /\ \A c \in S : status[c] \in Pending
    /\ status' = [c \in Command |-> IF c \in S THEN "expired" ELSE status[c]]
    /\ UNCHANGED <<phase, reported>>

Next ==
    \/ \E c \in Command : Issue(c) \/ MarkSent(c)
    \/ \E c \in Command, s \in Answered : Answer(c, s) \/ Record(c, s)
    \/ \E S \in SUBSET Command : Close(S) \/ Expire(S)

Spec == Init /\ [][Next]_vars

\* The promise that goes with Spec: from some point on nothing is pending.
Promise == <>[](\A c \in Command : status[c] \notin Pending)
=============================================================================
