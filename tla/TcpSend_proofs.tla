--------------------------- MODULE TcpSend_proofs ---------------------------
(***************************************************************************)
(* Proofs about TcpSend for every number of threads, streams and packets: *)
(* the type invariant, that the SCARD lock keeps the bytes of two          *)
(* packets from interleaving on the socket, and that tcp_send writes the   *)
(* whole length it read or sets g_network_error.  LockReleased is a        *)
(* liveness property and stays with TLC.                                   *)
(***************************************************************************)
EXTENDS TcpSend, FiniteSetTheorems, SequenceTheorems, TLAPS

USE TcpSendAssumption DEF TcpSendAssumption

(* The units of call c form a suffix of w: once c has written, nobody     *)
(* else has.                                                               *)
Suffix(w, c) ==
    \A i \in 1 .. Len(w) : w[i].by = c => \A j \in i .. Len(w) : w[j].by = c

(* No two calls' units interleave in w (SendsNotInterleaved, for any w).  *)
NotInterleaved(w) ==
    \A i, j, k \in 1 .. Len(w) :
        (i < j /\ j < k /\ w[i].by = w[k].by) => w[j].by = w[i].by

(* A thread past tcp_init has a packet.                                    *)
StartedHasCall == \A p \in Producers : ppc[p] # "idle" => msgs[p] >= 1

(* Only the holder of the lock is in the send loop (lines 287-289).        *)
LoopHoldsLock == \A p \in Producers : ppc[p] = "loop" => lock = p

(* A unit on the wire belongs to a packet its thread has started, and to  *)
(* the current one only once the thread has taken the lock.               *)
UnitsOfStartedCalls ==
    \A i \in 1 .. Len(wire) :
        LET c == wire[i].by
        IN  \/ c.n < msgs[c.p]
            \/ c.n = msgs[c.p] /\ ppc[c.p] \in {"idle", "loop"}

(* The units of the call in the send loop are the last ones written.       *)
LoopSuffix == \A p \in Producers : ppc[p] = "loop" => Suffix(wire, CallOf(p))

(* tcp_send never writes more than the length it read.                     *)
TotalBound == \A p \in Producers : total[p] <= length[p]

(* total counts exactly the units the current call has written, from the  *)
(* moment tcp_send_enter has reset it.                                     *)
SentCount ==
    \A p \in Producers :
        ppc[p] \in {"lock", "loop", "idle"} /\ msgs[p] > 0
        => Cardinality(SentBy(CallOf(p))) = total[p]

(* A call that has returned wrote all of its length, or failed.            *)
IdleDone ==
    \A p \in Producers :
        ppc[p] = "idle" /\ msgs[p] > 0 => total[p] = length[p] \/ net_err

(* The inductive strengthening of SendsNotInterleaved and SendAllOrError. *)
IInv ==
    /\ TypeOK
    /\ StartedHasCall
    /\ LoopHoldsLock
    /\ UnitsOfStartedCalls
    /\ LoopSuffix
    /\ SendsNotInterleaved
    /\ TotalBound
    /\ SentCount
    /\ IdleDone

-----------------------------------------------------------------------------
(* Lemmas about the wire: what appending the units of one call does.      *)

(* The positions of w that call c wrote (SentBy, for any w).               *)
SentIn(w, c) == {i \in 1 .. Len(w) : w[i].by = c}

(* Appending units of call c to a wire in which c's units are the last    *)
(* ones keeps the calls from interleaving, and keeps c's units last.       *)
LEMMA AppendOwn ==
  ASSUME NEW w \in Seq(Unit), NEW u \in Seq(Unit), NEW c,
         \A j \in 1 .. Len(u) : u[j].by = c,
         NotInterleaved(w), Suffix(w, c)
  PROVE  NotInterleaved(w \o u) /\ Suffix(w \o u, c)
<1> DEFINE v == w \o u
           L == Len(w)
<1>1. /\ L \in Nat /\ Len(u) \in Nat
      /\ Len(v) = L + Len(u)
      /\ \A i \in 1 .. Len(v) : v[i] = IF i <= L THEN w[i] ELSE u[i - L]
  BY ConcatProperties, LenProperties
<1>2. \A i \in 1 .. Len(v) : i > L => v[i].by = c
  BY <1>1
<1>3. NotInterleaved(v)
  <2> SUFFICES ASSUME NEW i \in 1 .. Len(v), NEW j \in 1 .. Len(v),
                      NEW k \in 1 .. Len(v),
                      i < j, j < k, v[i].by = v[k].by
               PROVE  v[j].by = v[i].by
    BY DEF NotInterleaved
  <2>1. CASE k <= L
    BY <2>1, <1>1 DEF NotInterleaved
  <2>2. CASE i > L
    BY <2>2, <1>1, <1>2
  <2>3. CASE i <= L /\ k > L
    <3>1. w[i].by = c
      BY <2>3, <1>1, <1>2
    <3>2. j <= L => w[j].by = c
      BY <3>1, <2>3, <1>1 DEF Suffix
    <3>3. QED
      BY <3>1, <3>2, <2>3, <1>1, <1>2
  <2>4. QED
    BY <2>1, <2>2, <2>3, <1>1
<1>4. Suffix(v, c)
  <2> SUFFICES ASSUME NEW i \in 1 .. Len(v), v[i].by = c,
                      NEW j \in i .. Len(v)
               PROVE  v[j].by = c
    BY DEF Suffix
  <2>1. CASE j > L
    BY <2>1, <1>2, <1>1
  <2>2. CASE j <= L
    BY <2>2, <1>1 DEF Suffix
  <2>3. QED
    BY <2>1, <2>2
<1>5. QED
  BY <1>3, <1>4

(* Appending n units of call c adds n to c's count and leaves the units   *)
(* of every other call where they were.                                    *)
LEMMA CountAppend ==
  ASSUME NEW w \in Seq(Unit), NEW u \in Seq(Unit), NEW c,
         \A j \in 1 .. Len(u) : u[j].by = c
  PROVE  /\ \A d : d # c => SentIn(w \o u, d) = SentIn(w, d)
         /\ IsFiniteSet(SentIn(w, c))
         /\ Cardinality(SentIn(w \o u, c)) = Cardinality(SentIn(w, c)) + Len(u)
<1> DEFINE v == w \o u
           L == Len(w)
           T == (L + 1) .. (L + Len(u))
<1>1. /\ L \in Nat /\ Len(u) \in Nat
      /\ Len(v) = L + Len(u)
      /\ \A i \in 1 .. Len(v) : v[i] = IF i <= L THEN w[i] ELSE u[i - L]
  BY ConcatProperties, LenProperties
<1>2. \A d : d # c => SentIn(v, d) = SentIn(w, d)
  BY <1>1 DEF SentIn
<1>3. SentIn(v, c) = SentIn(w, c) \cup T /\ SentIn(w, c) \cap T = {}
  BY <1>1 DEF SentIn
<1>4. IsFiniteSet(SentIn(w, c)) /\ IsFiniteSet(T) /\ Cardinality(T) = Len(u)
  <2>1. IsFiniteSet(1 .. L)
    BY <1>1, FS_Interval
  <2>2. IsFiniteSet(T) /\ Cardinality(T) = Len(u)
    <3>1. L + 1 \in Int /\ L + Len(u) \in Int
      BY <1>1
    <3>2. /\ IsFiniteSet(T)
          /\ Cardinality(T) = IF L + 1 > L + Len(u) THEN 0 ELSE (L + Len(u)) - (L + 1) + 1
      BY <3>1, FS_Interval
    <3>3. QED
      BY <3>2, <1>1
  <2>3. SentIn(w, c) \subseteq 1 .. L
    BY DEF SentIn
  <2>4. QED
    BY <2>1, <2>2, <2>3, FS_Subset
<1>5. Cardinality(SentIn(v, c)) = Cardinality(SentIn(w, c)) + Len(u)
  <2>1. Cardinality(SentIn(w, c) \cup T)
        = Cardinality(SentIn(w, c)) + Cardinality(T) - Cardinality(SentIn(w, c) \cap T)
    BY <1>4, FS_Union
  <2>2. Cardinality(SentIn(w, c)) \in Nat
    BY <1>4, FS_CardinalityType
  <2>3. Cardinality(SentIn(w, c) \cap T) = 0
    BY <1>3, FS_EmptySet
  <2>4. QED
    BY <2>1, <2>2, <2>3, <1>3, <1>4
<1>6. QED
  BY <1>2, <1>4, <1>5

(* The n units a write of thread p puts on the wire: a sequence of units, *)
(* all tagged with p's current call.                                       *)
LEMMA UnitsFacts ==
  ASSUME TypeOK, NEW p \in Producers, msgs[p] >= 1, NEW n \in Nat
  PROVE  /\ CallOf(p) \in Calls
         /\ Units(p, n) \in Seq(Unit)
         /\ Len(Units(p, n)) = n
         /\ \A j \in 1 .. n : Units(p, n)[j].by = CallOf(p)
<1>1. CallOf(p) \in Calls
  BY DEF CallOf, Calls, TypeOK
<1>2. [by |-> CallOf(p), data |-> slot[mine[p]]] \in Unit
  BY <1>1 DEF TypeOK, Unit
<1>3. Units(p, n) \in [1 .. n -> Unit]
  BY <1>2 DEF Units
<1>4. Units(p, n) \in Seq(Unit) /\ Len(Units(p, n)) = n
  BY <1>3, SeqDef
<1>5. QED
  BY <1>1, <1>4 DEF Units

-----------------------------------------------------------------------------
(* The strengthening holds after tcp_connect: no thread has started, the  *)
(* wire is empty.                                                          *)
LEMMA InitIInv == Init => IInv
<1> SUFFICES ASSUME Init PROVE IInv
  OBVIOUS
<1>1. TypeOK
  <2>1. slot \in [Slots -> Calls \cup {Nil}] /\ cur \in Slots /\ lock \in Producers \cup {Nil}
    BY DEF Init, Slots
  <2>2. ppc \in [Producers -> {"idle", "fill", "send", "lock", "loop"}]
        /\ mine \in [Producers -> Slots] /\ msgs \in [Producers -> 0 .. MaxMsgs]
    BY DEF Init, Slots
  <2>3. length \in [Producers -> 0 .. MsgLen] /\ total \in [Producers -> 0 .. MsgLen]
    BY DEF Init
  <2>4. wire \in Seq(Unit) /\ net_err \in BOOLEAN
    BY EmptySeq DEF Init
  <2>5. QED
    BY <2>1, <2>2, <2>3, <2>4 DEF TypeOK
<1>2. StartedHasCall /\ LoopHoldsLock /\ TotalBound /\ IdleDone
  BY DEF Init, StartedHasCall, LoopHoldsLock, TotalBound, IdleDone
<1>3. UnitsOfStartedCalls /\ LoopSuffix /\ SendsNotInterleaved /\ SentCount
  BY DEF Init, UnitsOfStartedCalls, LoopSuffix, Suffix, SendsNotInterleaved,
         SentCount
<1>4. QED
  BY <1>1, <1>2, <1>3 DEF IInv

(* A step that writes nothing and starts no packet leaves every call's    *)
(* units where they were.                                                  *)
LEMMA SentByUnchanged ==
  ASSUME NEW q, wire' = wire, msgs'[q] = msgs[q]
  PROVE  SentBy(CallOf(q))' = SentBy(CallOf(q))
BY DEF SentBy, CallOf

(* A unit on a well-typed wire belongs to a call.                          *)
LEMMA WireUnit ==
  ASSUME TypeOK, NEW i \in 1 .. Len(wire)
  PROVE  wire[i] \in Unit /\ wire[i].by \in Calls /\ wire[i].by.p \in Producers
<1>1. wire[i] \in Unit
  BY ElementOfSeq DEF TypeOK
<1>2. QED
  BY <1>1 DEF Unit, Calls

(* tcp_init(p) starts p's next packet: no unit of it exists yet.           *)
LEMMA InitStep ==
  ASSUME IInv, NEW p \in Producers, tcp_init(p)
  PROVE  IInv'
<1> USE DEF IInv
<1>1. TypeOK'
  BY DEF tcp_init, TypeOK, Slots
<1>2. (StartedHasCall /\ LoopHoldsLock /\ TotalBound /\ IdleDone)'
  BY DEF tcp_init, TypeOK, StartedHasCall, LoopHoldsLock, TotalBound, IdleDone
<1>3. UnitsOfStartedCalls'
  <2> SUFFICES ASSUME NEW i \in 1 .. Len(wire)
               PROVE  LET c == wire[i].by
                      IN  \/ c.n < msgs'[c.p]
                          \/ c.n = msgs'[c.p] /\ ppc'[c.p] \in {"idle", "loop"}
    BY DEF tcp_init, UnitsOfStartedCalls
  <2>1. wire[i].by \in Calls /\ wire[i].by.p \in Producers
    BY WireUnit
  <2> DEFINE c == wire[i].by
  <2>2. c.n <= msgs[c.p] /\ c.n \in Nat /\ msgs[c.p] \in Nat
    <3>1. c.n < msgs[c.p] \/ c.n = msgs[c.p]
      BY DEF UnitsOfStartedCalls
    <3>2. c.n \in Nat /\ msgs[c.p] \in Nat
      BY <2>1 DEF TypeOK, Calls
    <3>3. QED
      BY <3>1, <3>2
  <2>3. CASE c.p = p
    BY <2>2, <2>3 DEF tcp_init, TypeOK
  <2>4. CASE c.p # p
    BY <2>1, <2>4 DEF tcp_init, TypeOK, UnitsOfStartedCalls
  <2>5. QED
    BY <2>3, <2>4
<1>4. (LoopSuffix /\ SendsNotInterleaved)'
  BY DEF tcp_init, TypeOK, LoopSuffix, Suffix, SendsNotInterleaved, CallOf
<1>5. SentCount'
  <2>1. \A q \in Producers \ {p} : SentBy(CallOf(q))' = SentBy(CallOf(q))
    BY SentByUnchanged DEF tcp_init, TypeOK
  <2>2. QED
    BY <2>1 DEF tcp_init, TypeOK, SentCount
<1>6. QED
  BY <1>1, <1>2, <1>3, <1>4, <1>5

(* A thread that has not taken the lock for its current packet has no     *)
(* unit of it on the wire.                                                 *)
LEMMA NoUnitsYet ==
  ASSUME TypeOK, UnitsOfStartedCalls, NEW q \in Producers,
         ppc[q] \notin {"idle", "loop"}
  PROVE  SentBy(CallOf(q)) = {}
<1> SUFFICES ASSUME NEW i \in 1 .. Len(wire), wire[i].by = CallOf(q) PROVE FALSE
  BY DEF SentBy
<1>1. wire[i].by.n = msgs[q] /\ wire[i].by.p = q
  BY DEF CallOf
<1>2. msgs[q] \in Nat
  BY DEF TypeOK
<1>3. QED
  BY <1>1, <1>2 DEF UnitsOfStartedCalls

(* The three lemmas below are about steps that write nothing and start no *)
(* packet: only the places of the threads change.                          *)

(* A unit stays accounted for when no thread leaves the loop or idle for  *)
(* any other place.                                                        *)
LEMMA UnitsKeep ==
  ASSUME TypeOK, UnitsOfStartedCalls, wire' = wire, msgs' = msgs,
         \A q \in Producers : ppc[q] \in {"idle", "loop"} => ppc'[q] \in {"idle", "loop"}
  PROVE  UnitsOfStartedCalls'
<1> SUFFICES ASSUME NEW i \in 1 .. Len(wire)
             PROVE  LET c == wire[i].by
                    IN  \/ c.n < msgs[c.p]
                        \/ c.n = msgs[c.p] /\ ppc'[c.p] \in {"idle", "loop"}
  BY DEF UnitsOfStartedCalls
<1>1. wire[i].by.p \in Producers
  BY WireUnit
<1>2. QED
  BY <1>1 DEF UnitsOfStartedCalls

(* The loop thread's units stay last when the only thread that enters the *)
(* loop comes from the lock, with no unit of its packet written yet.       *)
LEMMA LoopSuffixKeep ==
  ASSUME TypeOK, UnitsOfStartedCalls, LoopSuffix, wire' = wire, msgs' = msgs,
         \A q \in Producers : ppc'[q] = "loop" => ppc[q] \in {"lock", "loop"}
  PROVE  LoopSuffix'
<1> SUFFICES ASSUME NEW q \in Producers, ppc'[q] = "loop"
             PROVE  Suffix(wire, CallOf(q))
  BY DEF LoopSuffix, Suffix, CallOf
<1>1. CASE ppc[q] = "loop"
  BY <1>1 DEF LoopSuffix
<1>2. CASE ppc[q] = "lock"
  <2>1. SentBy(CallOf(q)) = {}
    BY <1>2, NoUnitsYet
  <2>2. QED
    BY <2>1 DEF SentBy, Suffix
<1>3. QED
  BY <1>1, <1>2

(* total keeps counting the units of the current packet when it is reset  *)
(* only by a thread with none written, and kept otherwise.                 *)
LEMMA SentCountKeep ==
  ASSUME TypeOK, UnitsOfStartedCalls, SentCount, wire' = wire, msgs' = msgs,
         \A q \in Producers :
            ppc'[q] \in {"lock", "loop", "idle"}
            => \/ ppc[q] \in {"lock", "loop", "idle"} /\ total'[q] = total[q]
               \/ ppc[q] \notin {"idle", "loop"} /\ total'[q] = 0
  PROVE  SentCount'
<1> SUFFICES ASSUME NEW q \in Producers, ppc'[q] \in {"lock", "loop", "idle"},
                    msgs[q] > 0
             PROVE  Cardinality(SentBy(CallOf(q))) = total'[q]
  BY SentByUnchanged DEF SentCount
<1>1. CASE ppc[q] \in {"lock", "loop", "idle"} /\ total'[q] = total[q]
  BY <1>1 DEF SentCount
<1>2. CASE ppc[q] \notin {"idle", "loop"} /\ total'[q] = 0
  BY <1>2, NoUnitsYet, FS_EmptySet
<1>3. QED
  BY <1>1, <1>2

-----------------------------------------------------------------------------
(* One lemma per action of a thread that writes nothing.                  *)

(* The caller fills its stream: only slot and its place change.          *)
LEMMA FillStep ==
  ASSUME IInv, NEW p \in Producers, FillStream(p)
  PROVE  IInv'
<1> USE DEF IInv
<1>1. TypeOK'
  BY DEF FillStream, TypeOK, StartedHasCall, CallOf, Calls
<1>2. (StartedHasCall /\ LoopHoldsLock /\ TotalBound /\ IdleDone)'
  BY DEF FillStream, StartedHasCall, LoopHoldsLock, TotalBound, IdleDone, TypeOK
<1>3. wire' = wire /\ msgs' = msgs
  BY DEF FillStream
<1>4. UnitsOfStartedCalls'
  <2>1. \A q \in Producers : ppc[q] \in {"idle", "loop"} => ppc'[q] \in {"idle", "loop"}
    BY DEF FillStream, TypeOK
  <2>2. QED
    BY <1>3, <2>1, UnitsKeep
<1>5. LoopSuffix'
  <2>1. \A q \in Producers : ppc'[q] = "loop" => ppc[q] \in {"lock", "loop"}
    BY DEF FillStream, TypeOK
  <2>2. QED
    BY <1>3, <2>1, LoopSuffixKeep
<1>6. SendsNotInterleaved'
  BY <1>3 DEF SendsNotInterleaved
<1>7. SentCount'
  <2>1. \A q \in Producers :
           ppc'[q] \in {"lock", "loop", "idle"}
           => \/ ppc[q] \in {"lock", "loop", "idle"} /\ total'[q] = total[q]
              \/ ppc[q] \notin {"idle", "loop"} /\ total'[q] = 0
    BY DEF FillStream, TypeOK
  <2>2. QED
    BY <1>3, <2>1, SentCountKeep
<1>8. QED
  BY <1>1, <1>2, <1>4, <1>5, <1>6, <1>7

(* tcp_send reads the length and resets total; with the error flag set   *)
(* it returns at once, having written nothing of the packet.              *)
LEMMA EnterStep ==
  ASSUME IInv, NEW p \in Producers, tcp_send_enter(p)
  PROVE  IInv'
<1> USE DEF IInv
<1>1. TypeOK'
  BY DEF tcp_send_enter, TypeOK
<1>2. (StartedHasCall /\ LoopHoldsLock /\ TotalBound /\ IdleDone)'
  BY DEF tcp_send_enter, StartedHasCall, LoopHoldsLock, TotalBound, IdleDone, TypeOK
<1>3. wire' = wire /\ msgs' = msgs
  BY DEF tcp_send_enter
<1>4. UnitsOfStartedCalls'
  <2>1. \A q \in Producers : ppc[q] \in {"idle", "loop"} => ppc'[q] \in {"idle", "loop"}
    BY DEF tcp_send_enter, TypeOK
  <2>2. QED
    BY <1>3, <2>1, UnitsKeep
<1>5. LoopSuffix'
  <2>1. \A q \in Producers : ppc'[q] = "loop" => ppc[q] \in {"lock", "loop"}
    BY DEF tcp_send_enter, TypeOK
  <2>2. QED
    BY <1>3, <2>1, LoopSuffixKeep
<1>6. SendsNotInterleaved'
  BY <1>3 DEF SendsNotInterleaved
<1>7. SentCount'
  <2>1. \A q \in Producers :
           ppc'[q] \in {"lock", "loop", "idle"}
           => \/ ppc[q] \in {"lock", "loop", "idle"} /\ total'[q] = total[q]
              \/ ppc[q] \notin {"idle", "loop"} /\ total'[q] = 0
    BY DEF tcp_send_enter, TypeOK
  <2>2. QED
    BY <1>3, <2>1, SentCountKeep
<1>8. QED
  BY <1>1, <1>2, <1>4, <1>5, <1>6, <1>7

(* Taking the free lock: no other thread is in the loop.                  *)
LEMMA LockStep ==
  ASSUME IInv, NEW p \in Producers, tcp_send_lock(p)
  PROVE  IInv'
<1> USE DEF IInv
<1>1. TypeOK'
  BY DEF tcp_send_lock, TypeOK
<1>2. (StartedHasCall /\ LoopHoldsLock /\ TotalBound /\ IdleDone)'
  BY DEF tcp_send_lock, StartedHasCall, LoopHoldsLock, TotalBound, IdleDone, TypeOK
<1>3. wire' = wire /\ msgs' = msgs
  BY DEF tcp_send_lock
<1>4. UnitsOfStartedCalls'
  <2>1. \A q \in Producers : ppc[q] \in {"idle", "loop"} => ppc'[q] \in {"idle", "loop"}
    BY DEF tcp_send_lock, TypeOK
  <2>2. QED
    BY <1>3, <2>1, UnitsKeep
<1>5. LoopSuffix'
  <2>1. \A q \in Producers : ppc'[q] = "loop" => ppc[q] \in {"lock", "loop"}
    BY DEF tcp_send_lock, TypeOK
  <2>2. QED
    BY <1>3, <2>1, LoopSuffixKeep
<1>6. SendsNotInterleaved'
  BY <1>3 DEF SendsNotInterleaved
<1>7. SentCount'
  <2>1. \A q \in Producers :
           ppc'[q] \in {"lock", "loop", "idle"}
           => \/ ppc[q] \in {"lock", "loop", "idle"} /\ total'[q] = total[q]
              \/ ppc[q] \notin {"idle", "loop"} /\ total'[q] = 0
    BY DEF tcp_send_lock, TypeOK
  <2>2. QED
    BY <1>3, <2>1, SentCountKeep
<1>8. QED
  BY <1>1, <1>2, <1>4, <1>5, <1>6, <1>7

(* A fatal write error: the flag is set and the lock released.            *)
LEMMA FailStep ==
  ASSUME IInv, NEW p \in Producers, tcp_send_fail(p)
  PROVE  IInv'
<1> USE DEF IInv
<1>1. TypeOK'
  BY DEF tcp_send_fail, TypeOK
<1>2. (StartedHasCall /\ LoopHoldsLock /\ TotalBound /\ IdleDone)'
  BY DEF tcp_send_fail, StartedHasCall, LoopHoldsLock, TotalBound, IdleDone, TypeOK
<1>3. wire' = wire /\ msgs' = msgs
  BY DEF tcp_send_fail
<1>4. UnitsOfStartedCalls'
  <2>1. \A q \in Producers : ppc[q] \in {"idle", "loop"} => ppc'[q] \in {"idle", "loop"}
    BY DEF tcp_send_fail, TypeOK
  <2>2. QED
    BY <1>3, <2>1, UnitsKeep
<1>5. LoopSuffix'
  <2>1. \A q \in Producers : ppc'[q] = "loop" => ppc[q] \in {"lock", "loop"}
    BY DEF tcp_send_fail, TypeOK
  <2>2. QED
    BY <1>3, <2>1, LoopSuffixKeep
<1>6. SendsNotInterleaved'
  BY <1>3 DEF SendsNotInterleaved
<1>7. SentCount'
  <2>1. \A q \in Producers :
           ppc'[q] \in {"lock", "loop", "idle"}
           => \/ ppc[q] \in {"lock", "loop", "idle"} /\ total'[q] = total[q]
              \/ ppc[q] \notin {"idle", "loop"} /\ total'[q] = 0
    BY DEF tcp_send_fail, TypeOK
  <2>2. QED
    BY <1>3, <2>1, SentCountKeep
<1>8. QED
  BY <1>1, <1>2, <1>4, <1>5, <1>6, <1>7

(* The loop ends with all of the length written.                          *)
LEMMA DoneStep ==
  ASSUME IInv, NEW p \in Producers, tcp_send_done(p)
  PROVE  IInv'
<1> USE DEF IInv
<1>1. TypeOK'
  BY DEF tcp_send_done, TypeOK
<1>2. (StartedHasCall /\ LoopHoldsLock /\ TotalBound /\ IdleDone)'
  BY DEF tcp_send_done, StartedHasCall, LoopHoldsLock, TotalBound, IdleDone, TypeOK
<1>3. wire' = wire /\ msgs' = msgs
  BY DEF tcp_send_done
<1>4. UnitsOfStartedCalls'
  <2>1. \A q \in Producers : ppc[q] \in {"idle", "loop"} => ppc'[q] \in {"idle", "loop"}
    BY DEF tcp_send_done, TypeOK
  <2>2. QED
    BY <1>3, <2>1, UnitsKeep
<1>5. LoopSuffix'
  <2>1. \A q \in Producers : ppc'[q] = "loop" => ppc[q] \in {"lock", "loop"}
    BY DEF tcp_send_done, TypeOK
  <2>2. QED
    BY <1>3, <2>1, LoopSuffixKeep
<1>6. SendsNotInterleaved'
  BY <1>3 DEF SendsNotInterleaved
<1>7. SentCount'
  <2>1. \A q \in Producers :
           ppc'[q] \in {"lock", "loop", "idle"}
           => \/ ppc[q] \in {"lock", "loop", "idle"} /\ total'[q] = total[q]
              \/ ppc[q] \notin {"idle", "loop"} /\ total'[q] = 0
    BY DEF tcp_send_done, TypeOK
  <2>2. QED
    BY <1>3, <2>1, SentCountKeep
<1>8. QED
  BY <1>1, <1>2, <1>4, <1>5, <1>6, <1>7

(* tcp_reset_state empties every stream and nothing else.                  *)
LEMMA ResetStep ==
  ASSUME IInv, tcp_reset_state
  PROVE  IInv'
<1> USE DEF IInv
<1>1. TypeOK'
  BY DEF tcp_reset_state, TypeOK
<1>2. (StartedHasCall /\ LoopHoldsLock /\ TotalBound /\ IdleDone)'
  BY DEF tcp_reset_state, StartedHasCall, LoopHoldsLock, TotalBound, IdleDone
<1>3. (UnitsOfStartedCalls /\ LoopSuffix /\ SendsNotInterleaved)'
  BY DEF tcp_reset_state, UnitsOfStartedCalls, LoopSuffix, Suffix, CallOf,
         SendsNotInterleaved
<1>4. SentCount'
  BY DEF tcp_reset_state, SentCount, SentBy, CallOf
<1>5. QED
  BY <1>1, <1>2, <1>3, <1>4

-----------------------------------------------------------------------------
(* One pass of the send loop appends n units of p's packet.  p holds the  *)
(* lock, so it is the only thread in the loop, and its units are already  *)
(* the last ones: the new units extend them.                               *)
LEMMA ChunkStep ==
  ASSUME IInv, NEW p \in Producers, NEW n \in 1 .. MsgLen, tcp_send_chunk(p, n)
  PROVE  IInv'
<1> USE DEF IInv
<1> DEFINE u == Units(p, n)
<1>1. /\ ppc[p] = "loop" /\ lock = p /\ msgs[p] >= 1
      /\ wire' = wire \o u
      /\ total' = [total EXCEPT ![p] = total[p] + n]
      /\ total[p] + n <= length[p]
      /\ UNCHANGED <<slot, cur, lock, ppc, mine, msgs, length, net_err>>
  BY DEF tcp_send_chunk, TypeOK, LoopHoldsLock, StartedHasCall
<1>2. /\ CallOf(p) \in Calls /\ u \in Seq(Unit) /\ Len(u) = n
      /\ \A j \in 1 .. n : u[j].by = CallOf(p)
  <2>1. TypeOK /\ msgs[p] >= 1 /\ n \in Nat
    BY <1>1
  <2>2. QED
    BY <2>1, UnitsFacts
<1>10. wire \in Seq(Unit) /\ Len(wire) \in Nat
  BY LenProperties DEF TypeOK
<1>3. /\ wire' \in Seq(Unit)
      /\ Len(wire') = Len(wire) + n
      /\ \A i \in 1 .. Len(wire') :
            wire'[i] = IF i <= Len(wire) THEN wire[i] ELSE u[i - Len(wire)]
  <2>1. /\ wire \o u \in Seq(Unit)
        /\ Len(wire \o u) = Len(wire) + Len(u)
        /\ \A i \in 1 .. Len(wire) + Len(u) :
              (wire \o u)[i] = IF i <= Len(wire) THEN wire[i] ELSE u[i - Len(wire)]
    BY <1>10, <1>2, ConcatProperties
  <2>2. QED
    BY <2>1, <1>1, <1>2
<1>4. TypeOK'
  BY <1>1, <1>3 DEF TypeOK
<1>5. (StartedHasCall /\ LoopHoldsLock /\ TotalBound /\ IdleDone)'
  BY <1>1 DEF TypeOK, StartedHasCall, LoopHoldsLock, TotalBound, IdleDone
<1>6. UnitsOfStartedCalls'
  <2> SUFFICES ASSUME NEW i \in 1 .. Len(wire')
               PROVE  LET c == wire'[i].by
                      IN  \/ c.n < msgs[c.p]
                          \/ c.n = msgs[c.p] /\ ppc[c.p] \in {"idle", "loop"}
    BY <1>1 DEF UnitsOfStartedCalls
  <2>1. CASE i <= Len(wire)
    BY <2>1, <1>3 DEF UnitsOfStartedCalls
  <2>2. CASE i > Len(wire)
    <3>1. wire'[i].by = CallOf(p)
      <4>1. i - Len(wire) \in 1 .. n
        BY <2>2, <1>10, <1>3
      <4>2. QED
        BY <4>1, <2>2, <1>2, <1>3
    <3>2. QED
      BY <3>1, <1>1 DEF CallOf
  <2>3. QED
    BY <2>1, <2>2, <1>10, <1>3
<1>7. (LoopSuffix /\ SendsNotInterleaved)'
  <2>1. NotInterleaved(wire') /\ Suffix(wire', CallOf(p))
    <3>1. NotInterleaved(wire) /\ Suffix(wire, CallOf(p))
      BY <1>1 DEF LoopSuffix, SendsNotInterleaved, NotInterleaved
    <3>2. QED
      BY <3>1, <1>10, <1>1, <1>2, AppendOwn
  <2>2. \A q \in Producers : ppc'[q] = "loop" => q = p
    BY <1>1 DEF LoopHoldsLock
  <2>3. QED
    BY <2>1, <2>2, <1>1 DEF LoopSuffix, SendsNotInterleaved, NotInterleaved, CallOf
<1>8. SentCount'
  <2>1. /\ \A d : d # CallOf(p) => SentIn(wire', d) = SentIn(wire, d)
        /\ Cardinality(SentIn(wire', CallOf(p)))
           = Cardinality(SentIn(wire, CallOf(p))) + n
    <3>1. /\ \A d : d # CallOf(p) => SentIn(wire \o u, d) = SentIn(wire, d)
          /\ Cardinality(SentIn(wire \o u, CallOf(p)))
             = Cardinality(SentIn(wire, CallOf(p))) + Len(u)
      BY <1>10, <1>2, CountAppend
    <3>2. QED
      BY <3>1, <1>1, <1>2
  <2>2. \A q \in Producers :
           /\ SentBy(CallOf(q))' = SentIn(wire', CallOf(q))
           /\ SentBy(CallOf(q)) = SentIn(wire, CallOf(q))
    BY <1>1 DEF SentBy, SentIn, CallOf
  <2>9. \A q \in Producers :
           Cardinality(SentBy(CallOf(q)))' = Cardinality(SentIn(wire', CallOf(q)))
    BY <2>2
  <2>3. \A q \in Producers : q # p => CallOf(q) # CallOf(p)
    BY DEF CallOf
  <2>4. SUFFICES ASSUME NEW q \in Producers, ppc[q] \in {"lock", "loop", "idle"},
                      msgs[q] > 0
               PROVE  Cardinality(SentIn(wire', CallOf(q))) = total'[q]
    BY <1>1, <2>9 DEF SentCount
  <2>5. Cardinality(SentIn(wire, CallOf(q))) = total[q]
    <3>1. Cardinality(SentBy(CallOf(q))) = total[q]
      BY <2>4 DEF SentCount
    <3>2. QED
      BY <3>1, <2>2
  <2>6. CASE q = p
    BY <2>6, <2>1, <2>5, <1>1 DEF TypeOK
  <2>7. CASE q # p
    <3>1. SentIn(wire', CallOf(q)) = SentIn(wire, CallOf(q))
      BY <2>7, <2>1, <2>3
    <3>2. total'[q] = total[q]
      BY <2>7, <1>1 DEF TypeOK
    <3>3. QED
      BY <3>1, <3>2, <2>5
  <2>8. QED
    BY <2>6, <2>7
<1>9. QED
  BY <1>4, <1>5, <1>6, <1>7, <1>8

-----------------------------------------------------------------------------
(* Every step of every thread preserves the strengthening.                 *)
LEMMA NextIInv == IInv /\ [Next]_vars => IInv'
<1> SUFFICES ASSUME IInv, [Next]_vars PROVE IInv'
  OBVIOUS
<1>1. ASSUME NEW p \in Producers, tcp_init(p) PROVE IInv'
  BY <1>1, InitStep
<1>2. ASSUME NEW p \in Producers, FillStream(p) PROVE IInv'
  BY <1>2, FillStep
<1>3. ASSUME NEW p \in Producers, tcp_send_enter(p) PROVE IInv'
  BY <1>3, EnterStep
<1>4. ASSUME NEW p \in Producers, tcp_send_lock(p) PROVE IInv'
  BY <1>4, LockStep
<1>5. ASSUME NEW p \in Producers, NEW n \in 1 .. MsgLen, tcp_send_chunk(p, n)
      PROVE IInv'
  BY <1>5, ChunkStep
<1>6. ASSUME NEW p \in Producers, tcp_send_fail(p) PROVE IInv'
  BY <1>6, FailStep
<1>7. ASSUME NEW p \in Producers, tcp_send_done(p) PROVE IInv'
  BY <1>7, DoneStep
<1>8. CASE tcp_reset_state
  BY <1>8, ResetStep
<1>9. CASE UNCHANGED vars
  BY <1>9 DEF vars, IInv, TypeOK, StartedHasCall, LoopHoldsLock,
              UnitsOfStartedCalls, LoopSuffix, Suffix, CallOf, SendsNotInterleaved,
              TotalBound, SentCount, SentBy, IdleDone
<1>10. QED
  BY <1>1, <1>2, <1>3, <1>4, <1>5, <1>6, <1>7, <1>8, <1>9 DEF Next, SendStep

(* The variables keep their types in every reachable state, for any       *)
(* number of threads, streams and packets.                                 *)
THEOREM SendTypeCorrect == Spec => []TypeOK
<1>1. IInv => TypeOK
  BY DEF IInv
<1>2. QED
  BY InitIInv, NextIInv, <1>1, PTL DEF Spec

(* The SCARD lock serialises tcp_send (spec section 5): however many      *)
(* threads send and however the socket splits their writes, the bytes of  *)
(* two packets never interleave on the wire.  The proof rests on three    *)
(* facts about the code: only the lock holder is in the send loop, a      *)
(* thread writes nothing of a packet before it holds the lock, and the    *)
(* loop thread's bytes are the last ones written.                         *)
THEOREM SendsNeverInterleave == Spec => []SendsNotInterleaved
<1>1. IInv => SendsNotInterleaved
  BY DEF IInv
<1>2. QED
  BY InitIInv, NextIInv, <1>1, PTL DEF Spec

(* tcp_send is all or failed (spec section 4.2): once a call has          *)
(* returned, it wrote exactly the length it read, or g_network_error is   *)
(* set, whatever the partial writes were.  total counts the bytes the call *)
(* wrote, and the loop leaves only with total = length or through a fatal *)
(* branch that sets the flag.                                             *)
THEOREM SendAllOrFailed == Spec => []SendAllOrError
<1>1. IInv => SendAllOrError
  <2> SUFFICES ASSUME IInv, NEW p \in Producers, ppc[p] = "idle", msgs[p] > 0
               PROVE  Cardinality(SentBy(CallOf(p))) = length[p] \/ net_err
    BY DEF SendAllOrError
  <2>1. Cardinality(SentBy(CallOf(p))) = total[p]
    BY DEF IInv, SentCount
  <2>2. total[p] = length[p] \/ net_err
    BY DEF IInv, IdleDone
  <2>3. QED
    BY <2>1, <2>2
<1>2. QED
  BY InitIInv, NextIInv, <1>1, PTL DEF Spec

-----------------------------------------------------------------------------
(* TcpSend implements SerialSocket.  Under the mapping the lock step is   *)
(* Acquire, a pass of the loop is Write, the two exits of the loop are    *)
(* Release, and every other step (building a packet, entering tcp_send,   *)
(* tcp_reset_state) leaves the socket's owner and contents alone.         *)

(* The abstract stream after a write: the mapped wire with n more units   *)
(* of the writing call.                                                    *)
LEMMA StreamBarAppend ==
  ASSUME TypeOK, NEW p \in Producers, msgs[p] >= 1, NEW n \in Nat,
         wire' = wire \o Units(p, n)
  PROVE  StreamBar' = StreamBar \o [j \in 1 .. n |-> CallOf(p)]
<1> DEFINE u == Units(p, n)
           e == [j \in 1 .. n |-> CallOf(p)]
<1>1. /\ u \in Seq(Unit) /\ Len(u) = n /\ \A j \in 1 .. n : u[j].by = CallOf(p)
      /\ CallOf(p) \in Calls
  BY UnitsFacts
<1>2. wire \in Seq(Unit) /\ Len(wire) \in Nat
  BY LenProperties DEF TypeOK
<1>3. /\ Len(wire') = Len(wire) + n
      /\ \A i \in 1 .. Len(wire') :
            wire'[i] = IF i <= Len(wire) THEN wire[i] ELSE u[i - Len(wire)]
  BY <1>1, <1>2, ConcatProperties
<1>4. StreamBar \in Seq(Calls) /\ Len(StreamBar) = Len(wire)
  <2>1. \A i \in 1 .. Len(wire) : wire[i] \in Unit
    BY <1>2, ElementOfSeq
  <2>2. \A i \in 1 .. Len(wire) : wire[i].by \in Calls
    BY <2>1 DEF Unit
  <2>3. StreamBar \in [1 .. Len(wire) -> Calls]
    BY <2>2 DEF StreamBar
  <2>4. QED
    BY <1>2, <2>3, SeqDef DEF StreamBar
<1>5. e \in Seq(Calls) /\ Len(e) = n
  BY <1>1, SeqDef
<1>6. /\ StreamBar \o e \in Seq(Calls)
      /\ Len(StreamBar \o e) = Len(wire) + n
      /\ \A i \in 1 .. Len(wire) + n :
            (StreamBar \o e)[i] = IF i <= Len(wire) THEN StreamBar[i]
                                                   ELSE e[i - Len(wire)]
  <2>1. /\ StreamBar \o e \in Seq(Calls)
        /\ Len(StreamBar \o e) = Len(StreamBar) + Len(e)
        /\ \A i \in 1 .. Len(StreamBar) + Len(e) :
              (StreamBar \o e)[i] = IF i <= Len(StreamBar) THEN StreamBar[i]
                                     ELSE e[i - Len(StreamBar)]
    BY <1>4, <1>5, ConcatProperties
  <2>2. QED
    BY <2>1, <1>4, <1>5
<1>7. StreamBar \o e \in [1 .. Len(wire) + n -> Calls]
  <2>1. StreamBar \o e \in [1 .. Len(StreamBar \o e) -> Calls]
    BY <1>6, LenProperties
  <2>2. QED
    BY <2>1, <1>6
<1>8. \A i \in 1 .. Len(wire) + n : wire'[i].by = (StreamBar \o e)[i]
  <2> SUFFICES ASSUME NEW i \in 1 .. Len(wire) + n
               PROVE  wire'[i].by = (StreamBar \o e)[i]
    OBVIOUS
  <2>1. CASE i <= Len(wire)
    BY <2>1, <1>3, <1>6 DEF StreamBar
  <2>2. CASE ~(i <= Len(wire))
    <3>1. i - Len(wire) \in 1 .. n
      BY <2>2, <1>2
    <3>2. QED
      BY <2>2, <3>1, <1>1, <1>3, <1>6
  <2>3. QED
    BY <2>1, <2>2
<1>9. StreamBar' = [i \in 1 .. Len(wire) + n |-> wire'[i].by]
  BY <1>3 DEF StreamBar
<1>10. QED
  BY <1>7, <1>8, <1>9

(* One step of TcpSend is one step of SerialSocket, or none.               *)
LEMMA NextRefines == IInv /\ [Next]_vars => [Serial!Next]_Serial!svars
<1> SUFFICES ASSUME IInv, [Next]_vars PROVE [Serial!Next]_Serial!svars
  OBVIOUS
<1> DEFINE Stutter == OwnerBar' = OwnerBar /\ StreamBar' = StreamBar
<1>0. Stutter => [Serial!Next]_Serial!svars
  BY DEF Serial!svars
<1>1. ASSUME NEW p \in Producers, tcp_init(p) PROVE Stutter
  BY <1>1 DEF tcp_init, OwnerBar, StreamBar
<1>2. ASSUME NEW p \in Producers,
             FillStream(p) \/ tcp_send_enter(p) \/ tcp_reset_state
      PROVE Stutter
  BY <1>2 DEF FillStream, tcp_send_enter, tcp_reset_state, OwnerBar, StreamBar,
              CallOf
<1>3. ASSUME NEW p \in Producers, tcp_send_lock(p) PROVE Serial!Next
  <2>1. CallOf(p) \in Calls
    BY <1>3 DEF tcp_send_lock, IInv, TypeOK, StartedHasCall, CallOf, Calls
  <2>2. Serial!Acquire(CallOf(p))
    BY <1>3, <2>1 DEF tcp_send_lock, Serial!Acquire, OwnerBar, StreamBar, CallOf
  <2>3. QED
    BY <2>1, <2>2 DEF Serial!Next
<1>4. ASSUME NEW p \in Producers, NEW n \in 1 .. MsgLen, tcp_send_chunk(p, n)
      PROVE Serial!Next
  <2>1. /\ ppc[p] = "loop" /\ lock = p /\ msgs[p] >= 1 /\ TypeOK
        /\ wire' = wire \o Units(p, n) /\ lock' = lock /\ msgs' = msgs
    BY <1>4 DEF tcp_send_chunk, IInv, LoopHoldsLock, StartedHasCall, TypeOK
  <2>2. OwnerBar = CallOf(p) /\ OwnerBar' = OwnerBar /\ OwnerBar # Nil
    BY <2>1 DEF OwnerBar, CallOf, Calls, TypeOK
  <2>3. StreamBar' = StreamBar \o [j \in 1 .. n |-> CallOf(p)]
    <3>1. n \in Nat
      BY DEF TcpSendAssumption
    <3>2. QED
      BY <2>1, <3>1, StreamBarAppend
  <2>4. Serial!Write(n)
    BY <2>2, <2>3 DEF Serial!Write
  <2>5. QED
    BY <2>4 DEF Serial!Next
<1>5. ASSUME NEW p \in Producers, tcp_send_fail(p) \/ tcp_send_done(p)
      PROVE Serial!Next
  <2>1. /\ lock = p /\ lock' = Nil /\ msgs[p] >= 1 /\ wire' = wire
    BY <1>5 DEF tcp_send_fail, tcp_send_done, IInv, LoopHoldsLock, StartedHasCall
  <2>2. OwnerBar = CallOf(p) /\ OwnerBar # Nil /\ OwnerBar' = Nil
    BY <2>1 DEF OwnerBar, CallOf, Calls, IInv, TypeOK
  <2>3. Serial!Release
    BY <2>1, <2>2 DEF Serial!Release, StreamBar
  <2>4. QED
    BY <2>3 DEF Serial!Next
<1>6. CASE UNCHANGED vars
  BY <1>6, <1>0 DEF vars, OwnerBar, StreamBar, CallOf
<1>7. QED
  BY <1>0, <1>1, <1>2, <1>3, <1>4, <1>5, <1>6 DEF Next, SendStep

(* The outbound path implements the lock's contract (spec section 5):     *)
(* every behaviour of TcpSend, seen through the mapping, is a behaviour of *)
(* a socket one tcp_send call at a time owns and writes to by appending   *)
(* units of its own packet.                                                *)
THEOREM SendImplementsSerial == Spec => SerialSpec
<1>1. Init => Serial!Init
  BY DEF Init, Serial!Init, OwnerBar, StreamBar
<1>2. QED
  BY <1>1, InitIInv, NextIInv, NextRefines, PTL DEF Spec, SerialSpec, Serial!Spec

=============================================================================
