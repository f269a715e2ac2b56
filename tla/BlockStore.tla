----------------------------- MODULE BlockStore -----------------------------
(***************************************************************************)
(* What the buffer cache promises its callers (bread, bwrite, brelse): each *)
(* disk block is one register under one lock.  Only the holder of the lock *)
(* changes the block, and the block reaches the disk only while it is held. *)
(***************************************************************************)
EXTENDS Naturals

CONSTANTS Proc, NoProc, Block, Value

VARIABLES content,  \* the block as its next holder will find it
          stable,   \* the block on the disk
          holder    \* who has it locked, or NoProc

Init ==
    /\ content \in [Block -> Value]
    /\ stable = content
    /\ holder = [k \in Block |-> NoProc]

Lock(p, k) ==
    /\ holder[k] = NoProc
    /\ holder' = [holder EXCEPT ![k] = p]
    /\ UNCHANGED <<content, stable>>

Change(p, k, v) ==
    /\ holder[k] = p
    /\ content' = [content EXCEPT ![k] = v]
    /\ UNCHANGED <<stable, holder>>

Sync(k) ==
    /\ holder[k] # NoProc
    /\ stable' = [stable EXCEPT ![k] = content[k]]
    /\ UNCHANGED <<content, holder>>

Unlock(p, k) ==
    /\ holder[k] = p
    /\ holder' = [holder EXCEPT ![k] = NoProc]
    /\ UNCHANGED <<content, stable>>

Next ==
    \E k \in Block :
      \/ Sync(k)
      \/ \E p \in Proc :
           Lock(p, k) \/ Unlock(p, k) \/ \E v \in Value : Change(p, k, v)

Spec == Init /\ [][Next]_<<content, stable, holder>>
=============================================================================
