------------------------------ MODULE ByteQueue ------------------------------
(***************************************************************************)
(* What a pipe promises: a bounded first-in first-out queue of bytes.      *)
(* Bytes go in only while the write end is open and come out only while    *)
(* the read end is; an end that has been closed stays closed.              *)
(***************************************************************************)
EXTENDS Naturals, Sequences

CONSTANTS
    Byte,       \* what a pipe carries
    Capacity    \* how many bytes fit

VARIABLES
    queue,      \* the bytes written and not yet read
    out,        \* the byte read last
    readopen, writeopen

vars == <<queue, out, readopen, writeopen>>

Init ==
    /\ queue = <<>>
    /\ out \in Byte
    /\ readopen = TRUE /\ writeopen = TRUE

Put(b) ==
    /\ writeopen /\ Len(queue) < Capacity
    /\ queue' = Append(queue, b)
    /\ UNCHANGED <<out, readopen, writeopen>>

Get ==
    /\ readopen /\ queue # <<>>
    /\ out' = Head(queue)
    /\ queue' = Tail(queue)
    /\ UNCHANGED <<readopen, writeopen>>

CloseRead  == readopen' = FALSE /\ UNCHANGED <<queue, out, writeopen>>
CloseWrite == writeopen' = FALSE /\ UNCHANGED <<queue, out, readopen>>

Next == (\E b \in Byte : Put(b)) \/ Get \/ CloseRead \/ CloseWrite

Spec == Init /\ [][Next]_vars
=============================================================================
