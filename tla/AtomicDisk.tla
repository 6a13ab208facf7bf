----------------------------- MODULE AtomicDisk -----------------------------
(* What the log promises to the file system: the writes of concurrent      *)
(* system calls reach the disk together, only while no system call is      *)
(* active, and a crash undoes exactly what has not reached the disk.       *)
CONSTANTS Proc, Block, Val, InitVal

VARIABLES
    durable,   \* what a reboot finds
    current,   \* what system calls read
    active     \* processes between begin_op and end_op

vars == <<durable, current, active>>

Init ==
    /\ durable = [b \in Block |-> InitVal]
    /\ current = durable
    /\ active = {}

Begin(p) == p \notin active /\ active' = active \cup {p} /\ UNCHANGED <<durable, current>>

Write(p, b, v) ==
    /\ p \in active
    /\ current' = [current EXCEPT ![b] = v]
    /\ UNCHANGED <<durable, active>>

End(p) == p \in active /\ active' = active \ {p} /\ UNCHANGED <<durable, current>>

Commit == active = {} /\ durable' = current /\ UNCHANGED <<current, active>>

Crash == current' = durable /\ active' = {} /\ UNCHANGED durable

Next == \/ \E p \in Proc : Begin(p) \/ End(p) \/ \E b \in Block, v \in Val : Write(p, b, v)
        \/ Commit \/ Crash

Spec == Init /\ [][Next]_vars
=============================================================================
