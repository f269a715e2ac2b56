----------------------------- MODULE AtomicDisk -----------------------------
(***************************************************************************)
(* What the logging layer of log.c promises to the file system: a disk     *)
(* whose contents change a whole transaction at a time.  Operations work   *)
(* on a volatile copy; when none is under way the copy may become stable,  *)
(* all at once; a crash goes back to what is stable.                       *)
(***************************************************************************)
CONSTANTS
    Caller,     \* processes executing file system calls
    Block,      \* disk blocks outside the log
    Value,      \* contents of a block
    Blank       \* what mkfs leaves in a block

VARIABLES
    stable,     \* what survives a crash
    working,    \* what operations read and write
    active      \* the callers between begin_op() and end_op()

vars == <<stable, working, active>>

Init ==
    /\ stable = [b \in Block |-> Blank]
    /\ working = stable
    /\ active = {}

Begin(w) ==
    /\ w \notin active
    /\ active' = active \cup {w}
    /\ UNCHANGED <<stable, working>>

Write(w, b, v) ==
    /\ w \in active
    /\ working' = [working EXCEPT ![b] = v]
    /\ UNCHANGED <<stable, active>>

End(w) ==
    /\ w \in active
    /\ active' = active \ {w}
    /\ UNCHANGED <<stable, working>>

\* Only between operations, so never half of one.
Commit ==
    /\ active = {}
    /\ stable' = working
    /\ UNCHANGED <<working, active>>

Crash ==
    /\ working' = stable
    /\ active' = {}
    /\ UNCHANGED stable

Next ==
    \/ \E w \in Caller : Begin(w) \/ End(w)
    \/ \E w \in Caller, b \in Block, v \in Value : Write(w, b, v)
    \/ Commit
    \/ Crash

Spec == Init /\ [][Next]_vars
=============================================================================
