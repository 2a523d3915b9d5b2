---------------------------- MODULE SerialSocket ----------------------------
(***************************************************************************)
(* What the SCARD lock of src/tcp.c promises about the socket, with no    *)
(* threads, streams or partial writes in sight (spec section 5): at most  *)
(* one sender owns the socket at a time; only the owner writes, and what  *)
(* it writes is appended, in pieces of any size, after everything         *)
(* written before.  (That an owner gives the socket up is not promised:   *)
(* a write may block for ever.)  TcpSend implements it (TcpSend_proofs,   *)
(* and the PROPERTY of TcpSend_scard).                                    *)
(***************************************************************************)
EXTENDS Naturals, Sequences

CONSTANTS
    Senders,   \* who may own the socket: one tcp_send call each
    Free,      \* nobody owns the socket
    MaxWrite   \* the most units one write appends

VARIABLES
    owner,     \* the sender owning the socket, or Free
    stream     \* the senders of the units written so far, in order

svars == <<owner, stream>>

Init == owner = Free /\ stream = <<>>

(* A sender takes the free socket.                                         *)
Acquire(c) ==
    /\ owner = Free
    /\ owner' = c
    /\ UNCHANGED stream

(* The owner appends k units of its own.                                   *)
Write(k) ==
    /\ owner # Free
    /\ stream' = stream \o [j \in 1 .. k |-> owner]
    /\ UNCHANGED owner

(* The owner gives the socket up.                                          *)
Release ==
    /\ owner # Free
    /\ owner' = Free
    /\ UNCHANGED stream

Next ==
    \/ \E c \in Senders : Acquire(c)
    \/ \E k \in 1 .. MaxWrite : Write(k)
    \/ Release

Spec == Init /\ [][Next]_svars

=============================================================================
