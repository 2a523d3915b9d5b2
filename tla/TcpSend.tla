------------------------------ MODULE TcpSend ------------------------------
(***************************************************************************)
(* The outbound path of the TCP layer (src/tcp.c): the pool of            *)
(* STREAM_COUNT output streams handed out round robin by tcp_init, the    *)
(* send loop of tcp_send that tolerates partial writes, the SCARD lock    *)
(* that both take, the process-wide g_network_error flag, and             *)
(* tcp_reset_state, which clears every stream.                             *)
(*                                                                         *)
(* Producers are the threads that build and send packets: the main thread *)
(* and, in a WITH_SCARD build, the smart-card threads.  A stream's bytes  *)
(* are abstracted to the packet whose data it holds; the wire is the      *)
(* sequence of units of MsgLen-unit packets written to the socket, each   *)
(* tagged with the tcp_send call that wrote it and the packet whose data  *)
(* it carried.                                                             *)
(***************************************************************************)
EXTENDS Naturals, Sequences, FiniteSets

CONSTANTS
    Producers,     \* threads calling tcp_init and tcp_send
    Main,          \* the main thread, the one that calls tcp_reset_state
    STREAM_COUNT,  \* 8 WITH_SCARD, else 1
    MsgLen,        \* length of a packet, in units the socket may split
    MaxMsgs,       \* bound on the packets each thread builds
    Nil            \* no packet / no lock holder

(* A packet: the n-th one thread p builds.                                 *)
Calls == [p : Producers, n : 1 .. MaxMsgs]

ASSUME TcpSendAssumption ==
    /\ Main \in Producers
    /\ Nil \notin Producers \cup Calls
    /\ STREAM_COUNT \in Nat \ {0}
    /\ MsgLen \in Nat \ {0}
    /\ MaxMsgs \in Nat \ {0}

Slots == 0 .. STREAM_COUNT - 1

Unit == [by : Calls, data : Calls \cup {Nil}]

VARIABLES
    slot,      \* slot[s]: the packet g_out[s] holds, Nil after s_reset
    cur,       \* cur_stream_id, the next stream tcp_init hands out
    lock,      \* holder of scard_lock(SCARD_LOCK_TCP), or Nil
    ppc,       \* ppc[p]: where thread p is
    mine,      \* mine[p]: the stream tcp_init returned to p
    msgs,      \* msgs[p]: packets p has started
    length,    \* length[p]: s->end - s->data as tcp_send read it
    total,     \* total[p]: bytes tcp_send has written so far
    wire,      \* units written to the socket, in order
    net_err    \* g_network_error

vars == <<slot, cur, lock, ppc, mine, msgs, length, total, wire, net_err>>

TypeOK ==
    /\ slot \in [Slots -> Calls \cup {Nil}]
    /\ cur \in Slots
    /\ lock \in Producers \cup {Nil}
    /\ ppc \in [Producers -> {"idle", "fill", "send", "lock", "loop"}]
    /\ mine \in [Producers -> Slots]
    /\ msgs \in [Producers -> 0 .. MaxMsgs]
    /\ length \in [Producers -> 0 .. MsgLen]
    /\ total \in [Producers -> 0 .. MsgLen]
    /\ wire \in Seq(Unit)
    /\ net_err \in BOOLEAN

(* After tcp_connect: every stream allocated and empty, no error.          *)
Init ==
    /\ slot = [s \in Slots |-> Nil]
    /\ cur = 0
    /\ lock = Nil
    /\ ppc = [p \in Producers |-> "idle"]
    /\ mine = [p \in Producers |-> 0]
    /\ msgs = [p \in Producers |-> 0]
    /\ length = [p \in Producers |-> 0]
    /\ total = [p \in Producers |-> 0]
    /\ wire = <<>>
    /\ net_err = FALSE

(* The packet thread p is building or sending.                             *)
CallOf(p) == [p |-> p, n |-> msgs[p]]

-----------------------------------------------------------------------------
(* tcp_init, lines 258-275: under the lock, take g_out[cur_stream_id],    *)
(* s_realloc and s_reset it, advance the index modulo STREAM_COUNT.  No   *)
(* record is kept of whether the stream is still in use.                   *)
tcp_init(p) ==
    /\ ppc[p] = "idle"
    /\ msgs[p] < MaxMsgs
    /\ lock = Nil
    /\ mine' = [mine EXCEPT ![p] = cur]
    /\ slot' = [slot EXCEPT ![cur] = Nil]
    /\ cur' = (cur + 1) % STREAM_COUNT
    /\ msgs' = [msgs EXCEPT ![p] = @ + 1]
    /\ ppc' = [ppc EXCEPT ![p] = "fill"]
    /\ UNCHANGED <<lock, length, total, wire, net_err>>

(* The caller writes its packet into the stream and marks its end; no     *)
(* lock is held while it does.                                            *)
FillStream(p) ==
    /\ ppc[p] = "fill"
    /\ slot' = [slot EXCEPT ![mine[p]] = CallOf(p)]
    /\ ppc' = [ppc EXCEPT ![p] = "send"]
    /\ UNCHANGED <<cur, lock, mine, msgs, length, total, wire, net_err>>

(* tcp_send, lines 281-285: read the length, return at once if the        *)
(* network error flag is set.  The flag is read before the lock.           *)
tcp_send_enter(p) ==
    /\ ppc[p] = "send"
    /\ length' = [length EXCEPT ![p] = IF slot[mine[p]] = Nil THEN 0 ELSE MsgLen]
    /\ total' = [total EXCEPT ![p] = 0]
    /\ ppc' = [ppc EXCEPT ![p] = IF net_err THEN "idle" ELSE "lock"]
    /\ UNCHANGED <<slot, cur, lock, mine, msgs, wire, net_err>>

(* A plausible bug of tcp_send: the lock call left out.                    *)
tcp_send_lock_missing(p) ==
    /\ ppc[p] = "lock"
    /\ ppc' = [ppc EXCEPT ![p] = "loop"]
    /\ UNCHANGED <<slot, cur, lock, mine, msgs, length, total, wire, net_err>>

(* tcp_send, lines 287-289: scard_lock(SCARD_LOCK_TCP).                    *)
tcp_send_lock(p) ==
    /\ ppc[p] = "lock"
    /\ lock = Nil
    /\ lock' = p
    /\ ppc' = [ppc EXCEPT ![p] = "loop"]
    /\ UNCHANGED <<slot, cur, mine, msgs, length, total, wire, net_err>>

(* n units of the n-th write, all tagged with the call and with the data  *)
(* the stream holds now.                                                   *)
Units(p, n) == [j \in 1 .. n |-> [by |-> CallOf(p), data |-> slot[mine[p]]]]

(* A plausible bug of the loop: the full length passed to send() on every *)
(* pass instead of length - total.                                         *)
tcp_send_chunk_full_length(p, n) ==
    /\ ppc[p] = "loop"
    /\ total[p] < length[p]
    /\ n \in 1 .. length[p]
    /\ wire' = wire \o Units(p, n)
    /\ total' = [total EXCEPT ![p] = @ + n]
    /\ UNCHANGED <<slot, cur, lock, ppc, mine, msgs, length, net_err>>

(* One pass of the loop, lines 291-331: gnutls_record_send or send writes *)
(* n of the length - total bytes left (a would-block result writes none   *)
(* and changes nothing).                                                   *)
tcp_send_chunk(p, n) ==
    /\ ppc[p] = "loop"
    /\ total[p] < length[p]
    /\ n \in 1 .. (length[p] - total[p])
    /\ wire' = wire \o Units(p, n)
    /\ total' = [total EXCEPT ![p] = @ + n]
    /\ UNCHANGED <<slot, cur, lock, ppc, mine, msgs, length, net_err>>

(* A plausible bug of the fatal-error branch: return without unlocking.    *)
tcp_send_fail_keep_lock(p) ==
    /\ ppc[p] = "loop"
    /\ total[p] < length[p]
    /\ net_err' = TRUE
    /\ ppc' = [ppc EXCEPT ![p] = "idle"]
    /\ UNCHANGED <<slot, cur, lock, mine, msgs, length, total, wire>>

(* The fatal branches, lines 295-302 and 319-328: unlock, set             *)
(* g_network_error, return; what was written stays written.                *)
tcp_send_fail(p) ==
    /\ ppc[p] = "loop"
    /\ total[p] < length[p]
    /\ net_err' = TRUE
    /\ lock' = Nil
    /\ ppc' = [ppc EXCEPT ![p] = "idle"]
    /\ UNCHANGED <<slot, cur, mine, msgs, length, total, wire>>

(* A plausible bug of the loop: "if" for "while", return after one write. *)
tcp_send_done_early(p) ==
    /\ ppc[p] = "loop"
    /\ (total[p] >= length[p] \/ total[p] > 0)
    /\ lock' = Nil
    /\ ppc' = [ppc EXCEPT ![p] = "idle"]
    /\ UNCHANGED <<slot, cur, mine, msgs, length, total, wire, net_err>>

(* The loop ends, lines 333-335: unlock and return.                        *)
tcp_send_done(p) ==
    /\ ppc[p] = "loop"
    /\ total[p] >= length[p]
    /\ lock' = Nil
    /\ ppc' = [ppc EXCEPT ![p] = "idle"]
    /\ UNCHANGED <<slot, cur, mine, msgs, length, total, wire, net_err>>

(* tcp_reset_state, lines 1009-1022, called by the main thread between    *)
(* packets (session redirection): s_reset on every output stream, with no *)
(* lock taken.                                                             *)
tcp_reset_state ==
    /\ ppc[Main] = "idle"
    /\ slot' = [s \in Slots |-> Nil]
    /\ UNCHANGED <<cur, lock, ppc, mine, msgs, length, total, wire, net_err>>

(* The steps of tcp_send that run under the lock.                          *)
SendStep(p) ==
    \/ \E n \in 1 .. MsgLen : tcp_send_chunk(p, n)
    \/ tcp_send_fail(p)
    \/ tcp_send_done(p)

Next ==
    \/ \E p \in Producers :
          \/ tcp_init(p)
          \/ FillStream(p)
          \/ tcp_send_enter(p)
          \/ tcp_send_lock(p)
          \/ SendStep(p)
    \/ tcp_reset_state

Spec == Init /\ [][Next]_vars

(* Threads are scheduled: a thread whose loop has written everything      *)
(* leaves it (lines 333-335 make no call that can block).  Nothing is      *)
(* assumed of the socket: a write may block for ever (spec section 5), so  *)
(* tcp_send_chunk and tcp_send_fail get no fairness.  Nothing is assumed  *)
(* of the lock, nor of the threads' decision to build packets.             *)
FairSpec == Spec /\ \A p \in Producers : WF_vars(tcp_send_done(p))

(* The peer drains the socket: a write of the holder of the lock           *)
(* eventually returns something other than "would block", bytes or a      *)
(* fatal error.  An assumption about the peer, not a guarantee of the code.*)
PeerDrains == \A p \in Producers :
                  WF_vars(\E n \in 1 .. MsgLen : tcp_send_chunk(p, n) \/ tcp_send_fail(p))

-----------------------------------------------------------------------------
(* Properties.                                                             *)

(* The units call cl wrote to the wire.                                    *)
SentBy(cl) == {i \in 1 .. Len(wire) : wire[i].by = cl}

(* The lock serialises tcp_send (spec section 5): the bytes of two        *)
(* packets sent by different threads never interleave on the socket,      *)
(* however the socket splits them.                                        *)
SendsNotInterleaved ==
    \A i, j, k \in 1 .. Len(wire) :
        (i < j /\ j < k /\ wire[i].by = wire[k].by) => wire[j].by = wire[i].by

(* tcp_send is all or failed (spec section 4.2): when it has returned,    *)
(* the call wrote exactly the length it read, or the error flag is set.   *)
SendAllOrError ==
    \A p \in Producers :
        (ppc[p] = "idle" /\ msgs[p] > 0)
        => Cardinality(SentBy(CallOf(p))) = length[p] \/ net_err

(* No path of tcp_send keeps the SCARD lock: the two fatal branches and   *)
(* the end of the loop all unlock, so as long as the peer drains the       *)
(* socket every tcp_send gives the lock back.  (Without PeerDrains a send  *)
(* may block for ever holding the lock, as spec section 5 allows.)         *)
LockReleased == PeerDrains => (lock # Nil ~> lock = Nil)

(* The outbound pool never hands one thread's stream to another (spec     *)
(* section 9, open question b): no unit on the wire carries data of a     *)
(* packet other than the one its tcp_send call was sending.                *)
NoForeignData ==
    \A i \in 1 .. Len(wire) : wire[i].data \in {wire[i].by, Nil}

(* A packet a thread built and sent without a network error reaches the   *)
(* wire whole, with its own data.                                          *)
NoLostPacket ==
    \A p \in Producers :
        (ppc[p] = "idle" /\ msgs[p] > 0 /\ ~net_err)
        => /\ Cardinality(SentBy(CallOf(p))) = MsgLen
           /\ \A i \in SentBy(CallOf(p)) : wire[i].data = CallOf(p)

(* TcpSend implements SerialSocket: the owner of the socket is the packet *)
(* the SCARD lock holder is sending, and the abstract stream is the wire  *)
(* with each unit reduced to the call that wrote it.                       *)
OwnerBar == IF lock = Nil THEN Nil ELSE CallOf(lock)

StreamBar == [i \in 1 .. Len(wire) |-> wire[i].by]

Serial == INSTANCE SerialSocket
              WITH Senders <- Calls, Free <- Nil, MaxWrite <- MsgLen,
                   owner <- OwnerBar, stream <- StreamBar

(* The lock's contract (spec section 5) as a specification: the outbound  *)
(* path behaves as a socket that one tcp_send call at a time owns and      *)
(* writes to only by appending units of its own packet.                    *)
SerialSpec == Serial!Spec

=============================================================================
