----------------------------- MODULE CrudpProofs -----------------------------
(***************************************************************************)
(* Proofs about the CRUDP link of Crudp.tla, for every value of the        *)
(* constants: type correctness, in-order exactly-once delivery, and that   *)
(* no packet is lost sight of, neither by the end that sent it nor by the  *)
(* end it reached.                                                         *)
(***************************************************************************)
EXTENDS Crudp, FiniteSetTheorems, TLAPS

LEMMA FarIsEnd == \A p \in Ends : Far(p) \in Ends /\ Far(Far(p)) = p /\ Far(p) # p
BY DEF Ends, Far

LEMMA PartsType == \A n \in Nat : Parts(n) \in Nat /\ Parts(n) >= 1
BY DEF Parts

(* Arithmetic the provers do better without the context of a step.         *)
LEMMA RunFacts ==
    /\ \A a, b, f, k \in Nat : a = b + 1 /\ b = f + k - 1 => a = f + k
    /\ \A b, f, k \in Nat : f = b + 1 => b + k = f + k - 1
    /\ \A a, k \in Nat : a .. (a + k - 1) \subseteq Nat
    /\ \A a, k \in Nat : a + k \in Nat
OBVIOUS

-----------------------------------------------------------------------------
LEMMA AcceptedType ==
    ASSUME QueueBounded, NEW p \in Ends, NEW n \in Nat
    PROVE  /\ Accepted(p, n) \in Nat
           /\ Accepted(p, n) <= Parts(n)
           /\ Cardinality(send_queue[p]) \in Nat
           /\ Cardinality(send_queue[p]) + Accepted(p, n) <= Capacity
<1>1. Cardinality(send_queue[p]) \in Nat
    BY FS_CardinalityType DEF QueueBounded
<1>2. Cardinality(send_queue[p]) <= Capacity
    BY DEF QueueBounded
<1>. QED
    BY <1>1, <1>2, PartsType, CrudpAssumption DEF Accepted, Smaller

LEMMA NewPacketType ==
    ASSUME VariablesTyped, QueueBounded, NEW p \in Ends, NEW n \in Nat
    PROVE  /\ NewMessage(p, n) \in Message
           /\ \A k \in Nat : NewPacket(p, n, k) \in Packet
           /\ NewPackets(p, n) \subseteq Packet
<1>1. send_seq[p] \in Nat /\ sibling_id[p] \in Nat /\ Len(sent[p]) \in Nat
    BY DEF VariablesTyped
<1>. Accepted(p, n) \in Nat
    BY AcceptedType
<1>2. NewMessage(p, n) \in Message
    BY <1>1 DEF NewMessage, Message, NextSiblingId
<1>3. \A k \in Nat : NewPacket(p, n, k) \in Packet
    BY <1>1, <1>2 DEF NewPacket, NewMessage, Message, Packet
<1>. QED
    BY <1>2, <1>3 DEF NewPackets

LEMMA QueueGrows ==
    ASSUME QueueBounded, NEW p \in Ends, NEW n \in Nat
    PROVE  LET q == send_queue[p] \union NewPackets(p, n)
           IN  IsFiniteSet(q) /\ Cardinality(q) <= Capacity
<1>. DEFINE A == Accepted(p, n)
            D == 0..(A - 1)
            f == [k \in D |-> NewPacket(p, n, k)]
            new == NewPackets(p, n)
<1>0. A \in Nat /\ Cardinality(send_queue[p]) \in Nat
      /\ Cardinality(send_queue[p]) + A <= Capacity
    BY AcceptedType
<1>1. IsFiniteSet(D) /\ Cardinality(D) = A
    <2>1. 0 \in Int /\ A - 1 \in Int
        BY <1>0
    <2>2. IsFiniteSet(D) /\ Cardinality(D) = IF 0 > A - 1 THEN 0 ELSE A - 1 - 0 + 1
        BY <2>1, FS_Interval
    <2>. QED
        BY <1>0, <2>2
<1>2. f \in Surjection(D, new)
    BY DEF Surjection, NewPackets
<1>3. IsFiniteSet(new) /\ Cardinality(new) <= A
    BY <1>1, <1>2, FS_Surjection
<1>4. IsFiniteSet(send_queue[p])
    BY DEF QueueBounded
<1>5. /\ IsFiniteSet(send_queue[p] \union new)
      /\ Cardinality(send_queue[p] \union new)
           = Cardinality(send_queue[p]) + Cardinality(new)
             - Cardinality(send_queue[p] \intersect new)
    BY <1>3, <1>4, FS_Union
<1>6. /\ Cardinality(send_queue[p] \intersect new) \in Nat
      /\ Cardinality(new) \in Nat
    BY <1>3, <1>4, FS_Intersection, FS_CardinalityType
<1>. QED
    BY <1>0, <1>3, <1>5, <1>6, CrudpAssumption

-----------------------------------------------------------------------------
(* Type correctness.                                                       *)

LEMMA SendPacketType ==
    ASSUME VariablesTyped, QueueBounded, NEW p \in Ends, NEW n \in Nat,
           SendPacket(p, n)
    PROVE  /\ send_seq' \in [Ends -> Nat]
           /\ sibling_id' \in [Ends -> Nat]
           /\ sent' \in [Ends -> Seq(Message)]
<1>. Accepted(p, n) \in Nat /\ NewMessage(p, n) \in Message
    BY AcceptedType, NewPacketType
<1>1. send_seq' \in [Ends -> Nat] /\ sibling_id' \in [Ends -> Nat]
    BY DEF VariablesTyped, SendPacket, NextSiblingId
<1>2. sent' \in [Ends -> Seq(Message)]
    BY DEF VariablesTyped, SendPacket
<1>. QED
    BY <1>1, <1>2

LEMMA SendEventType ==
    ASSUME VariablesTyped, QueueBounded, NEW p \in Ends, NEW n \in Sizes,
           SendEvent(p, n)
    PROVE  VariablesTyped' /\ QueueBounded'
<1>. n \in Nat
    BY CrudpAssumption
<1>1. PICK due \in SUBSET reliable_packets[p] :
          BatchSend(p, due, send_queue[p] \union NewPackets(p, n))
    BY DEF SendEvent
<1>. DEFINE queue == send_queue[p] \union NewPackets(p, n)
<1>2. queue \subseteq Packet /\ due \subseteq Packet
    BY NewPacketType DEF VariablesTyped
<1>3. network' \subseteq Datagram
    <2>. SUFFICES ASSUME NEW d \in network', d \notin network
                  PROVE  d \in Datagram
        BY DEF VariablesTyped
    <2>1. PICK x \in due \union queue :
              d = [to |-> Far(p), pkt |-> x, acks |-> AcksOn(p,
                     Cardinality({y \in due \union queue : y.seq < x.seq}))]
        BY <1>1 DEF BatchSend
    <2>2. \A k : AcksOn(p, k) \in SUBSET Nat
        BY DEF AcksOn, VariablesTyped
    <2>. QED
        BY <1>2, <2>1, <2>2, FarIsEnd DEF Datagram
<1>4. /\ recv_acks' \in [Ends -> SUBSET Nat]
      /\ reliable_packets' \in [Ends -> SUBSET Packet]
      /\ send_queue' \in [Ends -> SUBSET Packet]
    BY <1>1, <1>2 DEF BatchSend, VariablesTyped
<1>5. QueueBounded'
    <2>1. IsFiniteSet({}) /\ Cardinality({}) <= Capacity
        BY FS_EmptySet, CrudpAssumption
    <2>. QED
        BY <1>1, <2>1 DEF BatchSend, QueueBounded, VariablesTyped
<1>6. SendPacket(p, n) /\ UNCHANGED <<receiver, draining, heard, disconnecting>>
    BY DEF SendEvent
<1>. QED
    BY <1>3, <1>4, <1>5, <1>6, SendPacketType DEF VariablesTyped, receiver

LEMMA SendUnresponsiveType ==
    ASSUME VariablesTyped, QueueBounded, NEW p \in Ends, NEW n \in Sizes,
           SendUnresponsive(p, n)
    PROVE  VariablesTyped' /\ QueueBounded'
<1>. n \in Nat
    BY CrudpAssumption
<1>. SendPacket(p, n)
    BY DEF SendUnresponsive
<1>. DEFINE queue == send_queue[p] \union NewPackets(p, n)
<1>1. queue \subseteq Packet /\ IsFiniteSet(queue) /\ Cardinality(queue) <= Capacity
    BY NewPacketType, QueueGrows DEF VariablesTyped
<1>2. QueueBounded' /\ send_queue' \in [Ends -> SUBSET Packet]
    BY <1>1 DEF SendUnresponsive, QueueBounded, VariablesTyped
<1>. QED
    BY <1>2, SendPacketType DEF SendUnresponsive, VariablesTyped, receiver

(* What mergeSiblings builds from a complete group of parts.               *)
LEMMA MergedType ==
    ASSUME NEW group \in SUBSET Packet, NEW n \in Nat \ {0}, Complete(group, n)
    PROVE  /\ \A k \in 0..(n - 1) : PartAt(group, k) \in group
                                   /\ PartAt(group, k).pos = k
           /\ Merged(group, n) \in Available
<1>1. \A k \in 0..(n - 1) : PartAt(group, k) \in group
                              /\ PartAt(group, k).pos = k
    BY DEF Complete, PartAt
<1>2. \A k \in 1..n : PartAt(group, k - 1).body \in Nat \X Nat
    BY <1>1 DEF Packet
<1>3. [k \in 1..n |-> PartAt(group, k - 1).body] \in Seq(Nat \X Nat)
    <2>. DEFINE S == Nat \X Nat
                b == [k \in 1..n |-> PartAt(group, k - 1).body]
    <2>1. b \in [1..n -> S]
        BY <1>2
    <2>. HIDE DEF S, b
    <2>2. b \in Seq(S)
        BY <2>1
    <2>. QED
        BY <2>2 DEF S, b
<1>4. PartAt(group, 0).seq \in Nat
    BY <1>1 DEF Packet
<1>. QED
    BY <1>1, <1>3, <1>4 DEF Merged, Available

LEMMA ReceivedBlockType ==
    ASSUME VariablesTyped, QueueBounded, NEW p \in Ends, NEW d \in network,
           ReceivedBlock(p, d)
    PROVE  VariablesTyped' /\ QueueBounded'
<1>. d \in Datagram /\ d.pkt \in Packet
    BY DEF VariablesTyped, Datagram
<1>1. /\ avail_packets' \in [Ends -> Seq(Available)]
      /\ sibling_map' \in [Ends -> SUBSET Packet]
    <2>1. CASE Whole(p, d.pkt)
        <3>1. [seq |-> d.pkt.seq, sibs |-> 0, body |-> <<d.pkt.body>>] \in Available
            <4>1. d.pkt.seq \in Nat /\ d.pkt.body \in Nat \X Nat
                BY DEF Packet
            <4>2. <<d.pkt.body>> \in Seq(Nat \X Nat)
                BY <4>1
            <4>. QED
                BY <4>1, <4>2 DEF Available
        <3>. QED
            BY <2>1, <3>1 DEF Whole, VariablesTyped
    <2>2. CASE DuplicateSibling(p, d.pkt)
        BY <2>2 DEF DuplicateSibling, VariablesTyped
    <2>3. CASE FreshSibling(p, d.pkt)
        <3>. DEFINE group == Siblings(p, d.pkt.sibid) \union {d.pkt}
        <3>. group \subseteq Packet /\ d.pkt.sibs \in Nat \ {0}
            BY <2>3 DEF FreshSibling, Siblings, VariablesTyped, Packet
        <3>1. CASE Complete(group, d.pkt.sibs)
            <4>1. Merged(group, d.pkt.sibs) \in Available
                BY <3>1, MergedType
            <4>2. /\ avail_packets' = [avail_packets EXCEPT
                        ![p] = Append(@, Merged(group, d.pkt.sibs))]
                  /\ sibling_map' = [sibling_map EXCEPT ![p] = @ \ group]
                BY <2>3, <3>1 DEF FreshSibling
            <4>. HIDE DEF group
            <4>. QED
                BY <4>1, <4>2 DEF VariablesTyped
        <3>2. CASE ~Complete(group, d.pkt.sibs)
            <4>1. /\ UNCHANGED avail_packets
                  /\ sibling_map' = [sibling_map EXCEPT ![p] = @ \union {d.pkt}]
                BY <2>3, <3>2 DEF FreshSibling
            <4>. QED
                BY <4>1 DEF VariablesTyped
        <3>. QED
            BY <3>1, <3>2
    <2>. QED
        BY <2>1, <2>2, <2>3 DEF ReceivedBlock
<1>2. /\ network' \subseteq Datagram
      /\ reliable_packets' \in [Ends -> SUBSET Packet]
      /\ recv_acks' \in [Ends -> SUBSET Nat]
      /\ received' \in [Ends -> SUBSET Nat]
      /\ heard' \in [Ends -> BOOLEAN]
      /\ draining' \in [Ends -> BOOLEAN]
    <2>1. d.pkt.seq \in Nat
        BY DEF Packet
    <2>2. network' \subseteq network
        BY DEF ReceivedBlock
    <2>3. reliable_packets' \in [Ends -> SUBSET Packet]
        BY DEF ReceivedBlock, VariablesTyped, KeptAfter
    <2>4. /\ recv_acks' \in [Ends -> SUBSET Nat]
          /\ received' \in [Ends -> SUBSET Nat]
        BY <2>1 DEF ReceivedBlock, VariablesTyped
    <2>5. heard' \in [Ends -> BOOLEAN] /\ draining' \in [Ends -> BOOLEAN]
        BY DEF ReceivedBlock, VariablesTyped
    <2>. QED
        BY <2>2, <2>3, <2>4, <2>5 DEF VariablesTyped
<1>3. UNCHANGED <<sender, recv_seq, wild, delivered, discarded, disconnecting>>
    BY DEF ReceivedBlock
<1>. QED
    BY <1>1, <1>2, <1>3 DEF VariablesTyped, QueueBounded, sender

(* Taking one packet out of avail_packets.                                 *)
LEMMA WithoutType ==
    ASSUME NEW S, NEW s \in Seq(S), NEW i \in DOMAIN s
    PROVE  Without(s, i) \in Seq(S) /\ Len(Without(s, i)) = Len(s) - 1
BY DEF Without

LEMMA RecvPacketType ==
    ASSUME VariablesTyped, QueueBounded, NEW p \in Ends, RecvPacket(p)
    PROVE  VariablesTyped' /\ QueueBounded'
<1>. avail_packets[p] \in Seq(Available) /\ recv_seq[p] \in Nat
    BY DEF VariablesTyped
<1>1. \A i \in DOMAIN avail_packets[p] :
          /\ avail_packets[p][i] \in Available
          /\ Without(avail_packets[p], i) \in Seq(Available)
    BY WithoutType
<1>2. CASE RecvNothing(p)
    BY <1>2 DEF RecvNothing, RecvRest, VariablesTyped, QueueBounded, sender
<1>3. CASE RecvDuplicate(p)
    BY <1>1, <1>3 DEF RecvDuplicate, RecvRest, VariablesTyped, QueueBounded, sender
<1>4. CASE RecvNext(p)
    <2>1. PICK i \in DOMAIN avail_packets[p] :
            /\ avail_packets' = [avail_packets EXCEPT ![p] = Without(@, i)]
            /\ recv_seq' = [recv_seq EXCEPT
                              ![p] = Advanced(@, avail_packets[p][i].sibs)]
            /\ delivered' = [delivered EXCEPT
                              ![p] = Append(@, avail_packets[p][i].body)]
            /\ UNCHANGED <<RecvRest, wild, draining, discarded>>
        BY <1>4 DEF RecvNext
    <2>2. /\ avail_packets[p][i].body \in Seq(Nat \X Nat)
          /\ Advanced(recv_seq[p], avail_packets[p][i].sibs) \in Nat
        <3>1. /\ avail_packets[p][i].body \in Seq(Nat \X Nat)
              /\ avail_packets[p][i].sibs \in Nat
            BY <1>1 DEF Available
        <3>2. Parts(avail_packets[p][i].sibs) \in Nat
            BY <3>1, PartsType
        <3>3. Advanced(recv_seq[p], avail_packets[p][i].sibs) \in Nat
            BY <3>2, RunFacts DEF Advanced
        <3>. QED
            BY <3>1, <3>3
    <2>3. /\ avail_packets' \in [Ends -> Seq(Available)]
          /\ recv_seq' \in [Ends -> Nat]
          /\ delivered' \in [Ends -> Seq(Seq(Nat \X Nat))]
        BY <1>1, <2>1, <2>2 DEF VariablesTyped
    <2>. QED
        BY <2>1, <2>3 DEF RecvRest, VariablesTyped, QueueBounded, sender
<1>5. CASE RecvAhead(p)
    <2>1. PICK i \in DOMAIN avail_packets[p] :
            /\ avail_packets' = [avail_packets EXCEPT ![p] = Without(@, i)]
            /\ discarded' = [discarded EXCEPT ![p] =
                  @ \union avail_packets[p][i].seq ..
                     (avail_packets[p][i].seq + Parts(avail_packets[p][i].sibs) - 1)]
            /\ draining' = [draining EXCEPT ![p] = FALSE]
            /\ UNCHANGED <<RecvRest, recv_seq, wild, delivered>>
        BY <1>5 DEF RecvAhead
    <2>2. avail_packets[p][i].seq ..
            (avail_packets[p][i].seq + Parts(avail_packets[p][i].sibs) - 1) \subseteq Nat
        <3>1. avail_packets[p][i].seq \in Nat /\ avail_packets[p][i].sibs \in Nat
            BY <1>1 DEF Available
        <3>. QED
            BY <3>1, PartsType, RunFacts
    <2>3. /\ avail_packets' \in [Ends -> Seq(Available)]
          /\ discarded' \in [Ends -> SUBSET Nat]
          /\ draining' \in [Ends -> BOOLEAN]
        BY <1>1, <2>1, <2>2 DEF VariablesTyped
    <2>. QED
        BY <2>1, <2>3 DEF RecvRest, VariablesTyped, QueueBounded, sender
<1>. QED
    BY <1>2, <1>3, <1>4, <1>5 DEF RecvPacket

LEMMA QueueAndTypes == Spec => [](VariablesTyped /\ QueueBounded)
<1>1. Init => VariablesTyped /\ QueueBounded
    <2>1. IsFiniteSet({}) /\ Cardinality({}) <= Capacity
        BY FS_EmptySet, CrudpAssumption
    <2>. QED
        BY <2>1 DEF Init, VariablesTyped, QueueBounded
<1>2. VariablesTyped /\ QueueBounded /\ [Next]_vars => (VariablesTyped /\ QueueBounded)'
    <2>. SUFFICES ASSUME VariablesTyped, QueueBounded, [Next]_vars
                  PROVE  VariablesTyped' /\ QueueBounded'
        OBVIOUS
    <2>1. CASE UNCHANGED vars
        BY <2>1 DEF vars, sender, receiver, VariablesTyped, QueueBounded
    <2>2. ASSUME NEW p \in Ends, NEW n \in Sizes, SendEvent(p, n)
          PROVE  VariablesTyped' /\ QueueBounded'
        BY <2>2, SendEventType
    <2>3. ASSUME NEW p \in Ends, NEW n \in Sizes, SendUnresponsive(p, n)
          PROVE  VariablesTyped' /\ QueueBounded'
        BY <2>3, SendUnresponsiveType
    <2>4. ASSUME NEW p \in Ends, NEW d \in network, ReceivedBlock(p, d)
          PROVE  VariablesTyped' /\ QueueBounded'
        BY <2>4, ReceivedBlockType
    <2>5. ASSUME NEW p \in Ends, RecvPacket(p)
          PROVE  VariablesTyped' /\ QueueBounded'
        BY <2>5, RecvPacketType
    <2>. QED
        BY <2>1, <2>2, <2>3, <2>4, <2>5 DEF Next
<1>. QED
    BY <1>1, <1>2, PTL DEF Spec

(* Every variable keeps its type, and the send queue its bound, whatever   *)
(* the two applications send and the network does.                         *)
THEOREM TypeCorrect == Spec => []TypeOK
BY QueueAndTypes, PTL DEF TypeOK

-----------------------------------------------------------------------------
(* The inductive invariant behind in-order delivery.                       *)

(* Messages take consecutive runs of numbers, at least one number each,    *)
(* and the messages that were split have sibling ids of their own.         *)
Single(p, i) ==
    /\ sent[p][i].first >= 1
    /\ sent[p][i].kept \in 1..Parts(sent[p][i].sibs)
    /\ sent[p][i].first + sent[p][i].kept <= send_seq[p] + 1
    /\ sent[p][i].sibid <= sibling_id[p]

Consecutive(p, i) ==
    i + 1 \in DOMAIN sent[p] =>
       sent[p][i + 1].first = sent[p][i].first + sent[p][i].kept

Apart(p, i, j) ==
    /\ sent[p][i].first + sent[p][i].kept <= sent[p][j].first
    /\ sent[p][i].sibs > 0 /\ sent[p][j].sibs > 0 =>
          sent[p][i].sibid < sent[p][j].sibid

Layout(p) ==
    /\ Len(sent[p]) = 0 => send_seq[p] = 0
    /\ Len(sent[p]) > 0 =>
         /\ sent[p][1].first = 1
         /\ sent[p][Len(sent[p])].first + sent[p][Len(sent[p])].kept
              = send_seq[p] + 1
    /\ \A i \in DOMAIN sent[p] : Single(p, i) /\ Consecutive(p, i)
    /\ \A i, j \in DOMAIN sent[p] : i < j => Apart(p, i, j)

(* Packet x is a part of some message end p sent.                          *)
IsSent(p, x) ==
    \E i \in DOMAIN sent[p] : \E k \in 0..(sent[p][i].kept - 1) :
       x = PacketOf(p, i, k)

(* Every packet anywhere on the way is what it was when it was queued.     *)
PacketsGenuine ==
    /\ \A p \in Ends : \A x \in send_queue[p] \union reliable_packets[p] :
          IsSent(p, x)
    /\ \A d \in network : IsSent(Far(d.to), d.pkt)
    /\ \A p \in Ends : \A x \in sibling_map[p] :
          IsSent(Far(p), x) /\ x.sibs > 0

(* Message i of end p as it becomes available at the far end.              *)
Arrived(p, i) == [seq  |-> sent[p][i].first,
                  sibs |-> sent[p][i].sibs,
                  body |-> Payload(p, i)]

(* At most one packet is available, only inside received_block, and it is  *)
(* a whole message.                                                        *)
AvailGenuine(p) ==
    /\ ~wild[p]
    /\ Len(avail_packets[p]) <= 1
    /\ ~draining[p] => avail_packets[p] = <<>>
    /\ \A j \in DOMAIN avail_packets[p] : \E i \in DOMAIN sent[Far(p)] :
          /\ sent[Far(p)][i].kept = Parts(sent[Far(p)][i].sibs)
          /\ avail_packets[p][j] = Arrived(Far(p), i)

(* What was passed on is a prefix of what was sent, and recv_seq is the    *)
(* last number of that prefix.                                             *)
Prefix(p) ==
    LET n == Len(delivered[p]) IN
    /\ n <= Len(sent[Far(p)])
    /\ \A i \in 1..n : delivered[p][i] = Payload(Far(p), i)
    /\ n = 0 => recv_seq[p] = 0
    /\ n > 0 => recv_seq[p] = sent[Far(p)][n].first + sent[Far(p)][n].kept - 1

DeliveryInv ==
    /\ PacketsGenuine
    /\ \A p \in Ends : Layout(p) /\ AvailGenuine(p) /\ Prefix(p)
-----------------------------------------------------------------------------
(* What sending does to the invariant.                                     *)

(* Sending only appends to sent: what was sent stays what it was.          *)
LEMMA SentGrows ==
    ASSUME VariablesTyped, QueueBounded, NEW p \in Ends, NEW n \in Nat,
           SendPacket(p, n), NEW q \in Ends
    PROVE  /\ Len(sent[q]) \in Nat /\ Len(sent'[q]) \in Nat
           /\ Len(sent[q]) <= Len(sent'[q])
           /\ DOMAIN sent[q] = 1..Len(sent[q])
           /\ DOMAIN sent'[q] = 1..Len(sent'[q])
           /\ \A i \in DOMAIN sent[q] : sent'[q][i] = sent[q][i]
<1>. sent \in [Ends -> Seq(Message)] /\ sent' \in [Ends -> Seq(Message)]
    BY SendPacketType DEF VariablesTyped
<1>. NewMessage(p, n) \in Message
    BY NewPacketType
<1>1. CASE Accepted(p, n) = 0
    BY <1>1 DEF SendPacket
<1>2. CASE Accepted(p, n) # 0
    <2>1. sent' = [sent EXCEPT ![p] = Append(@, NewMessage(p, n))]
        BY <1>2 DEF SendPacket
    <2>. QED
        BY <2>1
<1>. QED
    BY <1>1, <1>2

LEMMA GenuineStays ==
    ASSUME VariablesTyped, QueueBounded, NEW p \in Ends, NEW n \in Nat,
           SendPacket(p, n), NEW q \in Ends
    PROVE  /\ \A i \in DOMAIN sent[q] : Payload(q, i)' = Payload(q, i)
           /\ \A i \in DOMAIN sent[q] : Arrived(q, i)' = Arrived(q, i)
           /\ \A x : IsSent(q, x) => IsSent(q, x)'
<1>1. /\ DOMAIN sent[q] \subseteq DOMAIN sent'[q]
      /\ \A i \in DOMAIN sent[q] : sent'[q][i] = sent[q][i]
    BY SentGrows
<1>2. \A i \in DOMAIN sent[q] : Payload(q, i)' = Payload(q, i)
    BY <1>1 DEF Payload
<1>3. \A i \in DOMAIN sent[q] : Arrived(q, i)' = Arrived(q, i)
    BY <1>1, <1>2 DEF Arrived
<1>4. ASSUME NEW x, IsSent(q, x)
      PROVE  IsSent(q, x)'
    <2>1. PICK i \in DOMAIN sent[q] : \E k \in 0..(sent[q][i].kept - 1) :
              x = PacketOf(q, i, k)
        BY <1>4 DEF IsSent
    <2>2. i \in DOMAIN sent'[q] /\ sent'[q][i] = sent[q][i]
        BY <1>1
    <2>3. \A k : PacketOf(q, i, k)' = PacketOf(q, i, k)
        BY <2>2 DEF PacketOf
    <2>. QED
        BY <2>1, <2>2, <2>3 DEF IsSent
<1>. QED
    BY <1>2, <1>3, <1>4

(* The packets put on the queue are parts of the message just recorded.    *)
LEMMA NewPacketsAreSent ==
    ASSUME VariablesTyped, QueueBounded, NEW p \in Ends, NEW n \in Nat,
           SendPacket(p, n), NEW x \in NewPackets(p, n)
    PROVE  IsSent(p, x)'
<1>1. PICK k \in 0..(Accepted(p, n) - 1) : x = NewPacket(p, n, k)
    BY DEF NewPackets
<1>2. Accepted(p, n) # 0
    BY <1>1, AcceptedType
<1>. PICK i : i = Len(sent[p]) + 1
    OBVIOUS
<1>. NewMessage(p, n) \in Message
    BY NewPacketType
<1>3. i \in DOMAIN sent'[p] /\ sent'[p][i] = NewMessage(p, n)
    BY <1>2 DEF SendPacket, VariablesTyped
<1>4. PacketOf(p, i, k)' = x
    BY <1>1, <1>3 DEF PacketOf, NewPacket, NewMessage
<1>5. k \in 0..(sent'[p][i].kept - 1)
    BY <1>1, <1>3 DEF NewMessage
<1>. QED
    BY <1>3, <1>4, <1>5 DEF IsSent

LEMMA LayoutStays ==
    ASSUME VariablesTyped, QueueBounded, NEW p \in Ends, NEW n \in Nat,
           SendPacket(p, n), NEW q \in Ends, Layout(q)
    PROVE  Layout(q)'
<1>. /\ Accepted(p, n) \in Nat /\ Accepted(p, n) <= Parts(n)
     /\ NewMessage(p, n) \in Message
    BY AcceptedType, NewPacketType
<1>. sent[q] \in Seq(Message) /\ send_seq[q] \in Nat /\ sibling_id[q] \in Nat
    BY DEF VariablesTyped
<1>1. CASE q # p
    <2>1. sent'[q] = sent[q] /\ send_seq'[q] = send_seq[q]
          /\ sibling_id'[q] = sibling_id[q]
        BY <1>1 DEF SendPacket, VariablesTyped
    <2>. QED
        BY <2>1 DEF Layout, Single, Consecutive, Apart
<1>2. CASE q = p /\ Accepted(p, n) = 0
    <2>1. sent'[q] = sent[q] /\ send_seq'[q] = send_seq[q]
          /\ sibling_id'[q] \in Nat /\ sibling_id'[q] >= sibling_id[q]
        BY <1>2 DEF SendPacket, VariablesTyped, NextSiblingId
    <2>2. \A i \in DOMAIN sent[q] : sent[q][i] \in Message
        OBVIOUS
    <2>3. \A i \in DOMAIN sent[q] : Single(q, i) => Single(q, i)'
        <3>1. \A i \in DOMAIN sent[q] : sent[q][i].sibid \in Nat
            BY <2>2 DEF Message
        <3>. QED
            BY <2>1, <3>1 DEF Single
    <2>4. \A i \in DOMAIN sent[q] : Consecutive(q, i) => Consecutive(q, i)'
        BY <2>1 DEF Consecutive
    <2>5. \A i, j \in DOMAIN sent[q] : Apart(q, i, j) => Apart(q, i, j)'
        BY <2>1 DEF Apart
    <2>. QED
        BY <2>1, <2>3, <2>4, <2>5 DEF Layout
<1>3. CASE q = p /\ Accepted(p, n) # 0
    <2>. DEFINE m == NewMessage(p, n)
    <2>. PICK L : L = Len(sent[p])
        OBVIOUS
    <2>1. /\ sent'[p] = Append(sent[p], m)
          /\ send_seq'[p] = send_seq[p] + Accepted(p, n)
          /\ sibling_id'[p] = IF n = 0 THEN sibling_id[p] ELSE sibling_id[p] + 1
        BY <1>3 DEF SendPacket, VariablesTyped, NextSiblingId
    <2>2. /\ m.first = send_seq[p] + 1 /\ m.kept = Accepted(p, n) /\ m.sibs = n
          /\ m.sibid = IF n = 0 THEN 0 ELSE sibling_id[p] + 1
        BY DEF NewMessage, NextSiblingId
    <2>3. /\ L \in Nat /\ Len(sent'[p]) = L + 1 /\ DOMAIN sent'[p] = 1..(L + 1)
          /\ sent'[p][L + 1] = m
          /\ \A i \in 1..L : sent'[p][i] = sent[p][i] /\ sent[p][i] \in Message
          /\ DOMAIN sent[p] = 1..L
        BY <1>3, <2>1
    <2>0. Layout(p) /\ send_seq[p] \in Nat /\ sibling_id[p] \in Nat
        BY <1>3
    <2>8. /\ L = 0 => send_seq[p] = 0
          /\ L > 0 => /\ sent[p][1].first = 1
                      /\ sent[p][L].first + sent[p][L].kept = send_seq[p] + 1
          /\ \A i \in 1..L : Single(p, i) /\ Consecutive(p, i)
          /\ \A i, j \in 1..L : i < j => Apart(p, i, j)
        BY <2>0, <2>3 DEF Layout
    <2>. HIDE DEF m
    <2>4. sent'[p][1].first = 1
        BY <2>2, <2>3, <2>8
    <2>5. \A i \in 1..(L + 1) : Single(p, i)'
        <3>1. Single(p, L + 1)'
            BY <1>3, <2>0, <2>1, <2>2, <2>3 DEF Single
        <3>2. ASSUME NEW i \in 1..L
              PROVE  Single(p, i)'
            <4>1. Single(p, i) /\ sent'[p][i] = sent[p][i]
                BY <2>3, <2>8
            <4>2. sent[p][i].first \in Nat /\ sent[p][i].kept \in Nat
                  /\ sent[p][i].sibid \in Nat
                BY <2>3 DEF Message
            <4>3. send_seq'[p] >= send_seq[p] /\ sibling_id'[p] >= sibling_id[p]
                  /\ send_seq'[p] \in Nat /\ sibling_id'[p] \in Nat
                BY <2>0, <2>1
            <4>4. /\ sent[p][i].first + sent[p][i].kept <= send_seq'[p] + 1
                  /\ sent[p][i].sibid <= sibling_id'[p]
                <5>1. /\ sent[p][i].first + sent[p][i].kept <= send_seq[p] + 1
                      /\ sent[p][i].sibid <= sibling_id[p]
                    BY <4>1 DEF Single
                <5>2. \A a, b, c, d \in Nat : a + b <= c + 1 /\ d >= c => a + b <= d + 1
                    OBVIOUS
                <5>3. \A a, c, d \in Nat : a <= c /\ d >= c => a <= d
                    OBVIOUS
                <5>. HIDE DEF Layout
                <5>4. sent[p][i].first + sent[p][i].kept <= send_seq'[p] + 1
                    BY <2>0, <4>2, <4>3, <5>1, <5>2
                <5>5. sent[p][i].sibid <= sibling_id'[p]
                    BY <2>0, <4>2, <4>3, <5>1, <5>3
                <5>. QED
                    BY <5>4, <5>5
            <4>5. /\ sent[p][i].first >= 1
                  /\ sent[p][i].kept \in 1..Parts(sent[p][i].sibs)
                BY <4>1 DEF Single
            <4>. QED
                BY <4>1, <4>4, <4>5 DEF Single
        <3>. QED
            BY <2>3, <3>1, <3>2
    <2>6. ASSUME NEW i \in 1..(L + 1)
          PROVE  Consecutive(p, i)'
        <3>1. CASE i = L + 1
            BY <2>3, <3>1 DEF Consecutive
        <3>2. CASE i = L
            <4>1. /\ sent'[p][i] = sent[p][i] /\ sent'[p][i + 1] = m
                  /\ sent[p][i].first + sent[p][i].kept = send_seq[p] + 1
                BY <2>3, <2>8, <3>2
            <4>. QED
                BY <2>2, <4>1 DEF Consecutive
        <3>3. CASE i \in 1..(L - 1)
            <4>1. /\ sent'[p][i] = sent[p][i] /\ sent'[p][i + 1] = sent[p][i + 1]
                  /\ i + 1 \in DOMAIN sent[p] /\ Consecutive(p, i)
                BY <2>3, <2>8, <3>3
            <4>. QED
                BY <4>1 DEF Consecutive
        <3>. QED
            BY <2>3, <3>1, <3>2, <3>3
    <2>7. ASSUME NEW i \in 1..(L + 1), NEW j \in 1..(L + 1), i < j
          PROVE  Apart(p, i, j)'
        <3>1. CASE j = L + 1
            <4>1. i \in 1..L /\ sent'[p][i] = sent[p][i] /\ sent'[p][j] = m
                BY <2>3, <2>7, <3>1
            <4>2. /\ sent[p][i].first + sent[p][i].kept <= send_seq[p] + 1
                  /\ sent[p][i].sibid <= sibling_id[p]
                BY <2>8, <4>1 DEF Single
            <4>3. sent[p][i].sibid \in Nat
                BY <2>3, <4>1 DEF Message
            <4>4. m.sibs > 0 => m.sibid = sibling_id[p] + 1
                BY <2>2
            <4>. QED
                BY <2>0, <2>2, <4>1, <4>2, <4>3, <4>4 DEF Apart
        <3>2. CASE j \in 1..L
            <4>1. /\ i \in 1..L /\ Apart(p, i, j)
                  /\ sent'[p][i] = sent[p][i] /\ sent'[p][j] = sent[p][j]
                BY <2>3, <2>7, <2>8, <3>2
            <4>. QED
                BY <4>1 DEF Apart
        <3>. QED
            BY <2>3, <3>1, <3>2
    <2>9. sent'[p][L + 1].first + sent'[p][L + 1].kept = send_seq'[p] + 1
        BY <2>0, <2>1, <2>2, <2>3
    <2>. QED
        BY <1>3, <2>3, <2>4, <2>5, <2>6, <2>7, <2>9 DEF Layout
<1>. QED
    BY <1>1, <1>2, <1>3

(* Appending to sent disturbs neither what was passed on nor what is       *)
(* available.                                                              *)
LEMMA ReceiverStays ==
    ASSUME VariablesTyped, QueueBounded, NEW p \in Ends, NEW n \in Nat,
           SendPacket(p, n), UNCHANGED <<receiver, draining>>, NEW q \in Ends
    PROVE  /\ AvailGenuine(q) => AvailGenuine(q)'
           /\ Prefix(q) => Prefix(q)'
<1>. Far(q) \in Ends
    BY FarIsEnd
<1>1. /\ Len(sent[Far(q)]) \in Nat /\ Len(sent'[Far(q)]) \in Nat
      /\ Len(sent[Far(q)]) <= Len(sent'[Far(q)])
      /\ DOMAIN sent[Far(q)] = 1..Len(sent[Far(q)])
      /\ DOMAIN sent'[Far(q)] = 1..Len(sent'[Far(q)])
      /\ \A i \in DOMAIN sent[Far(q)] : sent'[Far(q)][i] = sent[Far(q)][i]
    BY SentGrows
<1>2. /\ \A i \in DOMAIN sent[Far(q)] : Payload(Far(q), i)' = Payload(Far(q), i)
      /\ \A i \in DOMAIN sent[Far(q)] : Arrived(Far(q), i)' = Arrived(Far(q), i)
    BY GenuineStays
<1>3. UNCHANGED <<recv_seq, avail_packets, wild, delivered, draining>>
    BY DEF receiver
<1>4. Len(delivered[q]) \in Nat
    BY DEF VariablesTyped
<1>5. AvailGenuine(q) => AvailGenuine(q)'
    BY <1>1, <1>2, <1>3 DEF AvailGenuine
<1>6. Prefix(q) => Prefix(q)'
    BY <1>1, <1>2, <1>3, <1>4 DEF Prefix
<1>. QED
    BY <1>5, <1>6
LEMMA SendingKeepsDelivery ==
    ASSUME VariablesTyped, QueueBounded, DeliveryInv, NEW p \in Ends, NEW n \in Sizes,
           SendEvent(p, n) \/ SendUnresponsive(p, n)
    PROVE  DeliveryInv'
<1>. n \in Nat
    BY CrudpAssumption
<1>. SendPacket(p, n) /\ UNCHANGED <<receiver, draining>>
    BY DEF SendEvent, SendUnresponsive
<1>. DEFINE queue == send_queue[p] \union NewPackets(p, n)
<1>1. \A q \in Ends : Layout(q)' /\ AvailGenuine(q)' /\ Prefix(q)'
    BY LayoutStays, ReceiverStays DEF DeliveryInv
<1>2. \A q \in Ends : \A x : IsSent(q, x) => IsSent(q, x)'
    BY GenuineStays
<1>3. /\ \A q \in Ends : \A x \in send_queue[q] \union reliable_packets[q] :
            IsSent(q, x)'
      /\ \A x \in queue : IsSent(p, x)'
    BY <1>2, NewPacketsAreSent DEF DeliveryInv, PacketsGenuine
<1>4. \A q \in Ends : \A x \in sibling_map'[q] : IsSent(Far(q), x)' /\ x.sibs > 0
    BY <1>2, FarIsEnd DEF DeliveryInv, PacketsGenuine, receiver
<1>5. \A d \in network : IsSent(Far(d.to), d.pkt)'
    BY <1>2, FarIsEnd DEF DeliveryInv, PacketsGenuine, VariablesTyped, Datagram
<1>6. CASE SendEvent(p, n)
    <2>1. PICK due \in SUBSET reliable_packets[p] : BatchSend(p, due, queue)
        BY <1>6 DEF SendEvent
    <2>2. \A d \in network' : IsSent(Far(d.to), d.pkt)'
        <3>. SUFFICES ASSUME NEW d \in network', d \notin network
                      PROVE  IsSent(Far(d.to), d.pkt)'
            BY <1>5
        <3>0. PICK x \in due \union queue :
                  d = [to |-> Far(p), pkt |-> x, acks |-> AcksOn(p,
                        Cardinality({y \in due \union queue : y.seq < x.seq}))]
            BY <2>1 DEF BatchSend
        <3>. HIDE DEF queue
        <3>1. d.to = Far(p) /\ d.pkt = x
            BY <3>0
        <3>2. IsSent(p, d.pkt)'
            BY <1>3, <3>1
        <3>. QED
            BY <3>1, <3>2, FarIsEnd
    <2>3. \A q \in Ends : \A x \in send_queue'[q] \union reliable_packets'[q] :
            IsSent(q, x)'
        BY <1>3, <2>1 DEF BatchSend, VariablesTyped
    <2>. QED
        BY <1>1, <1>4, <2>2, <2>3 DEF DeliveryInv, PacketsGenuine
<1>7. CASE SendUnresponsive(p, n)
    <2>1. UNCHANGED <<network, reliable_packets>>
          /\ send_queue' = [send_queue EXCEPT ![p] = queue]
        BY <1>7 DEF SendUnresponsive
    <2>2. \A q \in Ends : \A x \in send_queue'[q] \union reliable_packets'[q] :
            IsSent(q, x)'
        BY <1>3, <2>1 DEF VariablesTyped
    <2>. QED
        BY <1>1, <1>4, <1>5, <2>1, <2>2 DEF DeliveryInv, PacketsGenuine
<1>. QED
    BY <1>6, <1>7

-----------------------------------------------------------------------------
(* What receiving does to the invariant.                                   *)

LEMMA SentUnchanged ==
    ASSUME UNCHANGED sender, NEW q \in Ends
    PROVE  /\ Layout(q)' = Layout(q)
           /\ \A x : IsSent(q, x)' = IsSent(q, x)
           /\ \A i : Payload(q, i)' = Payload(q, i)
           /\ \A i : Arrived(q, i)' = Arrived(q, i)
BY DEF sender, Layout, Single, Consecutive, Apart, IsSent, PacketOf, Payload,
       Arrived

(* The parts of one sibling group are parts of one message.                *)
LEMMA GroupIsOneMessage ==
    ASSUME VariablesTyped, NEW r \in Ends, Layout(r),
           NEW x, NEW y, IsSent(r, x), IsSent(r, y),
           x.sibs > 0, y.sibs > 0, x.sibid = y.sibid,
           NEW i \in DOMAIN sent[r], NEW k, x = PacketOf(r, i, k)
    PROVE  /\ y.pos \in 0..(sent[r][i].kept - 1)
           /\ y = PacketOf(r, i, y.pos)
<1>1. PICK j \in DOMAIN sent[r] : \E l \in 0..(sent[r][j].kept - 1) :
          y = PacketOf(r, j, l)
    BY DEF IsSent
<1>2. PICK l \in 0..(sent[r][j].kept - 1) : y = PacketOf(r, j, l)
    BY <1>1
<1>3. /\ x.sibs = sent[r][i].sibs /\ x.sibid = sent[r][i].sibid
      /\ y.sibs = sent[r][j].sibs /\ y.sibid = sent[r][j].sibid /\ y.pos = l
    BY <1>2 DEF PacketOf
<1>4. sent[r] \in Seq(Message) /\ i \in Nat /\ j \in Nat
      /\ sent[r][i].sibid \in Nat /\ sent[r][j].sibid \in Nat
    <2>1. sent[r] \in Seq(Message)
        BY DEF VariablesTyped
    <2>2. sent[r][i] \in Message /\ sent[r][j] \in Message
        BY <2>1
    <2>3. i \in Nat /\ j \in Nat
        BY <2>1
    <2>4. sent[r][i].sibid \in Nat /\ sent[r][j].sibid \in Nat
        BY <2>2 DEF Message
    <2>. QED
        BY <2>1, <2>3, <2>4
<1>5. ~(i < j)
    BY <1>3, <1>4 DEF Layout, Apart
<1>6. ~(j < i)
    BY <1>3, <1>4 DEF Layout, Apart
<1>7. i = j
    BY <1>4, <1>5, <1>6
<1>. QED
    BY <1>2, <1>3, <1>7

(* A complete group merges into the message its parts came from.           *)
LEMMA MergedArrived ==
    ASSUME VariablesTyped, NEW r \in Ends, Layout(r),
           NEW group \in SUBSET Packet, NEW a \in group, a.sibs > 0,
           \A x \in group : IsSent(r, x) /\ x.sibs > 0 /\ x.sibid = a.sibid,
           Complete(group, a.sibs)
    PROVE  \E i \in DOMAIN sent[r] :
              /\ sent[r][i].kept = Parts(sent[r][i].sibs)
              /\ Merged(group, a.sibs) = Arrived(r, i)
<1>1. PICK i \in DOMAIN sent[r] : \E k \in 0..(sent[r][i].kept - 1) :
          a = PacketOf(r, i, k)
    BY DEF IsSent
<1>2. \A x \in group : /\ x.pos \in 0..(sent[r][i].kept - 1)
                       /\ x = PacketOf(r, i, x.pos)
    BY <1>1, GroupIsOneMessage
<1>. DEFINE n == a.sibs
<1>3. n \in Nat \ {0} /\ n = sent[r][i].sibs
    BY <1>1 DEF PacketOf, Packet
<1>4. sent[r][i].kept \in Nat /\ sent[r][i].kept \in 1..Parts(n)
    <2>1. sent[r][i] \in Message
        BY DEF VariablesTyped
    <2>2. sent[r][i].kept \in Nat
        BY <2>1 DEF Message
    <2>3. sent[r][i].kept \in 1..Parts(n)
        BY <1>3 DEF Layout, Single
    <2>. QED
        BY <2>2, <2>3
<1>5. \A k \in 0..(n - 1) : /\ PartAt(group, k) = PacketOf(r, i, k)
                            /\ k \in 0..(sent[r][i].kept - 1)
    <2>1. \A k \in 0..(n - 1) : /\ PartAt(group, k) \in group
                                /\ PartAt(group, k).pos = k
        BY <1>3, MergedType
    <2>. QED
        BY <1>2, <2>1
<1>6. sent[r][i].kept = n
    <2>1. n - 1 \in 0..(n - 1)
        BY <1>3
    <2>2. n - 1 \in 0..(sent[r][i].kept - 1)
        BY <1>5, <2>1
    <2>. QED
        BY <1>3, <1>4, <2>2 DEF Parts
<1>7. PartAt(group, 0).seq = sent[r][i].first
    <2>1. PartAt(group, 0) = PacketOf(r, i, 0)
        BY <1>3, <1>5
    <2>2. sent[r][i].first \in Nat
        <3>1. sent[r][i] \in Message
            BY DEF VariablesTyped
        <3>. QED
            BY <3>1 DEF Message
    <2>. QED
        BY <2>1, <2>2 DEF PacketOf
<1>8. [k \in 1..n |-> PartAt(group, k - 1).body] = Payload(r, i)
    <2>1. \A k \in 1..n : PartAt(group, k - 1).body = <<i, k - 1>>
        <3>. SUFFICES ASSUME NEW k \in 1..n
                      PROVE  PartAt(group, k - 1).body = <<i, k - 1>>
            OBVIOUS
        <3>1. PartAt(group, k - 1) = PacketOf(r, i, k - 1)
            BY <1>3, <1>5
        <3>. QED
            BY <3>1 DEF PacketOf
    <2>2. Parts(sent[r][i].sibs) = n
        BY <1>3 DEF Parts
    <2>. QED
        BY <2>1, <2>2 DEF Payload
<1>9. Merged(group, n) = Arrived(r, i)
    BY <1>3, <1>7, <1>8 DEF Merged, Arrived
<1>. QED
    BY <1>3, <1>6, <1>9 DEF Parts

LEMMA WholeArrived ==
    ASSUME VariablesTyped, NEW r \in Ends, Layout(r), NEW a, IsSent(r, a), a.sibs = 0
    PROVE  \E i \in DOMAIN sent[r] :
              /\ sent[r][i].kept = Parts(sent[r][i].sibs)
              /\ [seq |-> a.seq, sibs |-> 0, body |-> <<a.body>>] = Arrived(r, i)
<1>1. PICK i \in DOMAIN sent[r] : \E k \in 0..(sent[r][i].kept - 1) :
          a = PacketOf(r, i, k)
    BY DEF IsSent
<1>2. PICK k \in 0..(sent[r][i].kept - 1) : a = PacketOf(r, i, k)
    BY <1>1
<1>3. /\ sent[r][i].first \in Nat /\ sent[r][i].kept \in Nat
      /\ sent[r][i].sibs = 0
    <2>1. sent[r][i] \in Message
        BY DEF VariablesTyped
    <2>2. sent[r][i].sibs = 0
        BY <1>2 DEF PacketOf
    <2>. QED
        BY <2>1, <2>2 DEF Message
<1>4. sent[r][i].kept = 1 /\ Parts(sent[r][i].sibs) = 1
    BY <1>3 DEF Layout, Single, Parts
<1>5. k = 0 /\ a.seq = sent[r][i].first /\ a.body = <<i, 0>>
    BY <1>2, <1>3, <1>4 DEF PacketOf
<1>6. Payload(r, i) = <<a.body>>
    BY <1>4, <1>5 DEF Payload
<1>. QED
    BY <1>3, <1>4, <1>5, <1>6 DEF Arrived

LEMMA ReceivingKeepsDelivery ==
    ASSUME VariablesTyped, DeliveryInv, NEW p \in Ends, NEW d \in network,
           ReceivedBlock(p, d)
    PROVE  DeliveryInv'
<1>. DEFINE a == d.pkt
            r == Far(p)
<1>1. /\ r \in Ends /\ Layout(r) /\ a \in Packet /\ IsSent(r, a)
      /\ avail_packets[p] = <<>> /\ ~wild[p]
    <2>1. d.to = p /\ ~draining[p]
        BY DEF ReceivedBlock
    <2>2. d \in Datagram
        BY DEF VariablesTyped
    <2>. QED
        BY <2>1, <2>2, FarIsEnd
        DEF DeliveryInv, PacketsGenuine, AvailGenuine, Datagram
<1>2. /\ UNCHANGED <<sender, recv_seq, wild, delivered>>
      /\ network' \subseteq network
      /\ reliable_packets' = [reliable_packets EXCEPT ![p] = KeptAfter(p, d.acks)]
      /\ draining' = [draining EXCEPT ![p] = TRUE]
    BY DEF ReceivedBlock
<1>3. \A q \in Ends : /\ Layout(q)' = Layout(q)
                      /\ \A x : IsSent(q, x)' = IsSent(q, x)
                      /\ \A i : Payload(q, i)' = Payload(q, i)
                      /\ \A i : Arrived(q, i)' = Arrived(q, i)
    BY <1>2, SentUnchanged
<1>4. sent' = sent /\ send_queue' = send_queue
    BY <1>2 DEF sender
<1>5. \A q \in Ends : Layout(q)' /\ Prefix(q)'
    <2>1. \A q \in Ends : Layout(q)'
        BY <1>3 DEF DeliveryInv
    <2>2. \A q \in Ends : Prefix(q)'
        BY <1>2, <1>3, <1>4, FarIsEnd DEF DeliveryInv, Prefix
    <2>. QED
        BY <2>1, <2>2
<1>6. /\ \A q \in Ends : \A x \in send_queue'[q] \union reliable_packets'[q] :
            IsSent(q, x)'
      /\ \A e \in network' : IsSent(Far(e.to), e.pkt)'
    <2>1. \A q \in Ends : reliable_packets'[q] \subseteq reliable_packets[q]
        BY <1>2 DEF VariablesTyped, KeptAfter
    <2>2. \A e \in network : Far(e.to) \in Ends
        BY FarIsEnd DEF VariablesTyped, Datagram
    <2>3. /\ \A q \in Ends : \A x \in send_queue[q] \union reliable_packets[q] :
                IsSent(q, x)
          /\ \A e \in network : IsSent(Far(e.to), e.pkt)
        BY DEF DeliveryInv, PacketsGenuine
    <2>. QED
        BY <1>2, <1>3, <1>4, <2>1, <2>2, <2>3
<1>7. \A q \in Ends : q # p => AvailGenuine(q)'
    <2>. SUFFICES ASSUME NEW q \in Ends, q # p
                  PROVE  AvailGenuine(q)'
        OBVIOUS
    <2>1. avail_packets'[q] = avail_packets[q] /\ draining'[q] = draining[q]
        <3>1. avail_packets'[q] = avail_packets[q]
            BY DEF ReceivedBlock, Whole, DuplicateSibling, FreshSibling, VariablesTyped
        <3>2. draining'[q] = draining[q]
            BY <1>2 DEF VariablesTyped
        <3>. QED
            BY <3>1, <3>2
    <2>2. AvailGenuine(q)
        BY DEF DeliveryInv
    <2>. QED
        BY <1>2, <1>3, <1>4, <2>1, <2>2, FarIsEnd DEF AvailGenuine
<1>8. ASSUME NEW w, avail_packets' = [avail_packets EXCEPT ![p] = Append(@, w)],
             \E i \in DOMAIN sent[r] :
                /\ sent[r][i].kept = Parts(sent[r][i].sibs)
                /\ w = Arrived(r, i)
      PROVE  AvailGenuine(p)'
    <2>1. avail_packets'[p] = <<w>>
        BY <1>1, <1>8 DEF VariablesTyped
    <2>2. draining'[p]
        BY <1>2 DEF VariablesTyped
    <2>3. \A j \in DOMAIN avail_packets'[p] : avail_packets'[p][j] = w
        BY <2>1
    <2>4. Len(avail_packets'[p]) <= 1
        BY <2>1
    <2>. QED
        BY <1>1, <1>2, <1>3, <1>4, <1>8, <2>2, <2>3, <2>4 DEF AvailGenuine
<1>9. ASSUME UNCHANGED avail_packets
      PROVE  AvailGenuine(p)'
    <2>1. draining'[p] /\ avail_packets'[p] = <<>> /\ ~wild'[p]
        BY <1>1, <1>2, <1>9 DEF VariablesTyped
    <2>. QED
        BY <2>1 DEF AvailGenuine
<1>10. /\ AvailGenuine(p)'
       /\ \A q \in Ends : \A x \in sibling_map'[q] :
             IsSent(Far(q), x)' /\ x.sibs > 0
    <2>0. \A q \in Ends : \A x \in sibling_map[q] :
             IsSent(Far(q), x)' /\ x.sibs > 0
        BY <1>3, FarIsEnd DEF DeliveryInv, PacketsGenuine
    <2>1. CASE Whole(p, a)
        <3>1. AvailGenuine(p)'
            BY <1>1, <1>8, <2>1, WholeArrived DEF Whole
        <3>. QED
            BY <2>0, <2>1, <3>1 DEF Whole
    <2>2. CASE DuplicateSibling(p, a)
        BY <1>9, <2>0, <2>2 DEF DuplicateSibling
    <2>3. CASE FreshSibling(p, a)
        <3>. DEFINE group == Siblings(p, a.sibid) \union {a}
        <3>1. group \subseteq Packet /\ a.sibs > 0
            BY <1>1, <2>3 DEF FreshSibling, Siblings, VariablesTyped
        <3>2. \A x \in group : IsSent(r, x) /\ x.sibs > 0 /\ x.sibid = a.sibid
            BY <1>1, <3>1 DEF Siblings, DeliveryInv, PacketsGenuine
        <3>3. CASE Complete(group, a.sibs)
            <4>1. /\ avail_packets' = [avail_packets EXCEPT
                         ![p] = Append(@, Merged(group, a.sibs))]
                  /\ sibling_map' = [sibling_map EXCEPT ![p] = @ \ group]
                BY <2>3, <3>3 DEF FreshSibling
            <4>2. a \in group
                OBVIOUS
            <4>3. \A q \in Ends : sibling_map'[q] \subseteq sibling_map[q]
                BY <4>1 DEF VariablesTyped
            <4>. HIDE DEF group
            <4>4. AvailGenuine(p)'
                BY <1>1, <1>8, <3>1, <3>2, <3>3, <4>1, <4>2, MergedArrived
            <4>. QED
                BY <2>0, <4>3, <4>4
        <3>4. CASE ~Complete(group, a.sibs)
            <4>1. /\ UNCHANGED avail_packets
                  /\ sibling_map' = [sibling_map EXCEPT ![p] = @ \union {a}]
                BY <2>3, <3>4 DEF FreshSibling
            <4>2. \A q \in Ends : \A x \in sibling_map'[q] :
                     x \in sibling_map[q] \/ (q = p /\ x = a)
                BY <4>1 DEF VariablesTyped
            <4>3. IsSent(r, a)'
                BY <1>1, <1>3
            <4>. QED
                BY <1>9, <2>0, <3>1, <4>1, <4>2, <4>3
        <3>. QED
            BY <3>3, <3>4
    <2>. QED
        BY <2>1, <2>2, <2>3 DEF ReceivedBlock
<1>. QED
    BY <1>5, <1>6, <1>7, <1>10 DEF DeliveryInv, PacketsGenuine

-----------------------------------------------------------------------------
(* What RecvPacket does to the invariant.                                  *)

(* The message whose first number follows the last of message n is n + 1.  *)
LEMMA NextMessage ==
    ASSUME VariablesTyped, NEW r \in Ends, Layout(r),
           NEW n \in Nat, n <= Len(sent[r]), NEW m \in DOMAIN sent[r],
           n = 0 => sent[r][m].first = 1,
           n > 0 => sent[r][m].first = sent[r][n].first + sent[r][n].kept
    PROVE  m = n + 1
<1>1. sent[r] \in Seq(Message) /\ DOMAIN sent[r] = 1..Len(sent[r]) /\ m \in Nat
    BY DEF VariablesTyped
<1>2. \A i \in DOMAIN sent[r] : /\ sent[r][i].first \in Nat
                                /\ sent[r][i].kept \in Nat
                                /\ sent[r][i].kept >= 1
    <2>1. \A i \in DOMAIN sent[r] : sent[r][i] \in Message
        BY <1>1
    <2>2. \A i \in DOMAIN sent[r] : sent[r][i].kept \in 1..Parts(sent[r][i].sibs)
        BY DEF Layout, Single
    <2>3. \A i \in DOMAIN sent[r] : sent[r][i].first \in Nat /\ sent[r][i].kept \in Nat
        BY <2>1 DEF Message
    <2>. QED
        BY <2>2, <2>3
<1>3. \A i, j \in DOMAIN sent[r] :
          i < j => sent[r][i].first + sent[r][i].kept <= sent[r][j].first
    BY DEF Layout, Apart
<1>4. CASE n = 0
    <2>1. 1 \in DOMAIN sent[r] /\ sent[r][1].first = 1
        BY <1>1 DEF Layout
    <2>2. ~(1 < m)
        BY <1>2, <1>3, <1>4, <2>1
    <2>. QED
        BY <1>1, <1>4, <2>2
<1>5. CASE n > 0
    <2>1. n \in DOMAIN sent[r]
        BY <1>1, <1>5
    <2>2. sent[r][m].first = sent[r][n].first + sent[r][n].kept
        BY <1>5
    <2>3. m # n
        BY <1>2, <2>1, <2>2
    <2>4. ~(m < n)
        BY <1>2, <1>3, <2>1, <2>2
    <2>5. ~(n + 1 < m)
        <3>. SUFFICES ASSUME n + 1 < m PROVE FALSE
            OBVIOUS
        <3>1. n + 1 \in DOMAIN sent[r]
            BY <1>1, <2>1
        <3>2. sent[r][n + 1].first = sent[r][n].first + sent[r][n].kept
            BY <2>1, <3>1 DEF Layout, Consecutive
        <3>. QED
            BY <1>2, <1>3, <2>2, <3>1, <3>2
    <2>. QED
        BY <1>1, <2>3, <2>4, <2>5
<1>. QED
    BY <1>4, <1>5

LEMMA RecvPacketKeepsDelivery ==
    ASSUME VariablesTyped, DeliveryInv, NEW p \in Ends, RecvPacket(p)
    PROVE  DeliveryInv'
<1>. DEFINE r == Far(p)
<1>. r \in Ends
    BY FarIsEnd
<1>1. UNCHANGED <<sender, sibling_map, reliable_packets, network>>
    BY DEF RecvPacket, RecvNothing, RecvDuplicate, RecvNext, RecvAhead, RecvRest
<1>2. \A q \in Ends : /\ Layout(q)' = Layout(q)
                      /\ \A x : IsSent(q, x)' = IsSent(q, x)
                      /\ \A i : Payload(q, i)' = Payload(q, i)
                      /\ \A i : Arrived(q, i)' = Arrived(q, i)
    BY <1>1, SentUnchanged
<1>3. sent' = sent /\ send_queue' = send_queue
    BY <1>1 DEF sender
<1>4. PacketsGenuine' /\ \A q \in Ends : Layout(q)'
    <2>1. \A e \in network : Far(e.to) \in Ends
        BY FarIsEnd DEF VariablesTyped, Datagram
    <2>2. \A q \in Ends : Layout(q)'
        BY <1>2 DEF DeliveryInv
    <2>. QED
        BY <1>1, <1>2, <1>3, <2>1, <2>2, FarIsEnd DEF DeliveryInv, PacketsGenuine
<1>5. \A i \in DOMAIN avail_packets[p] :
          i = 1 /\ Len(avail_packets[p]) = 1 /\ Without(avail_packets[p], i) = <<>>
    <2>. SUFFICES ASSUME NEW i \in DOMAIN avail_packets[p]
                  PROVE  /\ i = 1 /\ Len(avail_packets[p]) = 1
                         /\ Without(avail_packets[p], i) = <<>>
        OBVIOUS
    <2>1. avail_packets[p] \in Seq(Available) /\ Len(avail_packets[p]) <= 1
        BY DEF VariablesTyped, DeliveryInv, AvailGenuine
    <2>2. i = 1 /\ Len(avail_packets[p]) = 1
        <3>. PICK L : L = Len(avail_packets[p])
            OBVIOUS
        <3>1. L \in Nat /\ L <= 1 /\ i \in 1..L
            BY <2>1
        <3>2. \A l \in Nat : \A j \in 1..l : l <= 1 => j = 1 /\ l = 1
            OBVIOUS
        <3>. QED
            BY <3>1, <3>2
    <2>3. /\ Without(avail_packets[p], i) \in Seq(Available)
          /\ Len(Without(avail_packets[p], i)) = 0
        BY <2>1, <2>2, WithoutType
    <2>. QED
        BY <2>2, <2>3
<1>6. ASSUME NEW q \in Ends, q # p
      PROVE  AvailGenuine(q)' /\ Prefix(q)'
    <2>1. /\ avail_packets'[q] = avail_packets[q] /\ draining'[q] = draining[q]
          /\ wild'[q] = wild[q] /\ delivered'[q] = delivered[q]
          /\ recv_seq'[q] = recv_seq[q]
        <3>1. CASE RecvNothing(p)
            BY <1>6, <3>1 DEF RecvNothing, VariablesTyped
        <3>2. CASE RecvDuplicate(p)
            BY <1>6, <3>2 DEF RecvDuplicate, VariablesTyped
        <3>3. CASE RecvNext(p)
            BY <1>6, <3>3 DEF RecvNext, VariablesTyped
        <3>4. CASE RecvAhead(p)
            BY <1>6, <3>4 DEF RecvAhead, VariablesTyped
        <3>. QED
            BY <3>1, <3>2, <3>3, <3>4 DEF RecvPacket
    <2>2. AvailGenuine(q) /\ Prefix(q) /\ Far(q) \in Ends
        BY FarIsEnd DEF DeliveryInv
    <2>3. AvailGenuine(q)'
        BY <1>2, <1>3, <2>1, <2>2 DEF AvailGenuine
    <2>4. Prefix(q)'
        BY <1>2, <1>3, <2>1, <2>2 DEF Prefix
    <2>. QED
        BY <2>3, <2>4
<1>7. ASSUME UNCHANGED <<recv_seq, delivered>>
      PROVE  Prefix(p)'
    <2>1. Prefix(p)
        BY DEF DeliveryInv
    <2>. QED
        BY <1>2, <1>3, <1>7, <2>1 DEF Prefix
<1>8. ASSUME avail_packets'[p] = <<>>, ~wild'[p]
      PROVE  AvailGenuine(p)'
    BY <1>8 DEF AvailGenuine
<1>9. ~wild[p]
    BY DEF DeliveryInv, AvailGenuine
<1>10. AvailGenuine(p)' /\ Prefix(p)'
    <2>1. CASE RecvNothing(p)
        <3>1. avail_packets'[p] = <<>> /\ ~wild'[p] /\ UNCHANGED <<recv_seq, delivered>>
            BY <1>9, <2>1 DEF RecvNothing
        <3>. QED
            BY <1>7, <1>8, <3>1
    <2>2. CASE RecvDuplicate(p)
        <3>0. PICK i \in DOMAIN avail_packets[p] :
                /\ avail_packets' = [avail_packets EXCEPT ![p] = Without(@, i)]
                /\ wild' = [wild EXCEPT ![p] = @ \/ Len(avail_packets[p]) > 1]
                /\ UNCHANGED <<recv_seq, delivered>>
            BY <2>2 DEF RecvDuplicate
        <3>1. avail_packets'[p] = <<>> /\ ~wild'[p] /\ UNCHANGED <<recv_seq, delivered>>
            <4>1. avail_packets'[p] = <<>>
                BY <1>5, <3>0 DEF VariablesTyped
            <4>2. Len(avail_packets[p]) = 1 /\ ~(1 > 1)
                BY <1>5
            <4>3. ~wild'[p]
                BY <1>9, <3>0, <4>2 DEF VariablesTyped
            <4>. QED
                BY <3>0, <4>1, <4>3
        <3>. QED
            BY <1>7, <1>8, <3>1
    <2>3. CASE RecvAhead(p)
        <3>1. avail_packets'[p] = <<>> /\ ~wild'[p] /\ UNCHANGED <<recv_seq, delivered>>
            BY <1>5, <1>9, <2>3 DEF RecvAhead, VariablesTyped
        <3>. QED
            BY <1>7, <1>8, <3>1
    <2>4. CASE RecvNext(p)
        <3>1. PICK i \in DOMAIN avail_packets[p] :
                /\ avail_packets[p][i].seq = recv_seq[p] + 1
                /\ avail_packets' = [avail_packets EXCEPT ![p] = Without(@, i)]
                /\ recv_seq' = [recv_seq EXCEPT
                                  ![p] = Advanced(@, avail_packets[p][i].sibs)]
                /\ delivered' = [delivered EXCEPT
                                  ![p] = Append(@, avail_packets[p][i].body)]
                /\ UNCHANGED wild
            BY <2>4 DEF RecvNext
        <3>2. avail_packets'[p] = <<>> /\ ~wild'[p]
            BY <1>5, <1>9, <3>1 DEF VariablesTyped
        <3>3. PICK m \in DOMAIN sent[r] :
                /\ sent[r][m].kept = Parts(sent[r][m].sibs)
                /\ avail_packets[p][i] = Arrived(r, m)
            BY DEF DeliveryInv, AvailGenuine
        <3>4. /\ sent[r][m].first = recv_seq[p] + 1
              /\ recv_seq'[p] = recv_seq[p] + sent[r][m].kept
              /\ delivered'[p] = Append(delivered[p], Payload(r, m))
            BY <3>1, <3>3 DEF Arrived, Advanced, VariablesTyped
        <3>. PICK n : n = Len(delivered[p])
            OBVIOUS
        <3>5. /\ n \in Nat /\ n <= Len(sent[r]) /\ Len(sent[r]) \in Nat
              /\ \A j \in 1..n : delivered[p][j] = Payload(r, j)
              /\ n = 0 => recv_seq[p] = 0
              /\ n > 0 => recv_seq[p] = sent[r][n].first + sent[r][n].kept - 1
            BY DEF DeliveryInv, Prefix, VariablesTyped
        <3>6. /\ sent[r][m].first \in Nat /\ sent[r][m].kept \in Nat
              /\ recv_seq[p] \in Nat
              /\ n > 0 => sent[r][n].first \in Nat /\ sent[r][n].kept \in Nat
            <4>1. sent[r][m] \in Message /\ (n > 0 => sent[r][n] \in Message)
                BY <3>5 DEF VariablesTyped
            <4>. QED
                BY <4>1 DEF Message, VariablesTyped
        <3>7. m = n + 1
            <4>1. /\ n = 0 => sent[r][m].first = 1
                  /\ n > 0 => sent[r][m].first = sent[r][n].first + sent[r][n].kept
                <5>2. n = 0 => sent[r][m].first = 1
                    BY <3>4, <3>5
                <5>3. n > 0 => sent[r][m].first = sent[r][n].first + sent[r][n].kept
                    <6>. SUFFICES ASSUME n > 0
                                  PROVE  sent[r][m].first
                                           = sent[r][n].first + sent[r][n].kept
                        OBVIOUS
                    <6>1. /\ sent[r][m].first = recv_seq[p] + 1
                          /\ recv_seq[p] = sent[r][n].first + sent[r][n].kept - 1
                        BY <3>4, <3>5
                    <6>2. /\ sent[r][m].first \in Nat /\ recv_seq[p] \in Nat
                          /\ sent[r][n].first \in Nat /\ sent[r][n].kept \in Nat
                        BY <3>6
                    <6>. HIDE DEF r
                    <6>. QED
                        BY ONLY <6>1, <6>2, RunFacts
                <5>. QED
                    BY <5>2, <5>3
            <4>2. Layout(r)
                BY DEF DeliveryInv
            <4>. QED
                BY <3>5, <4>1, <4>2, NextMessage
        <3>8. n + 1 <= Len(sent[r])
            BY <3>7 DEF VariablesTyped
        <3>9. /\ Len(delivered'[p]) = n + 1
              /\ \A j \in 1..n : delivered'[p][j] = delivered[p][j]
              /\ delivered'[p][n + 1] = Payload(r, n + 1)
            <4>1. delivered[p] \in Seq(Seq(Nat \X Nat))
                BY DEF VariablesTyped
            <4>. QED
                BY <3>4, <3>7, <4>1
        <3>10. \A j \in 1..(n + 1) : delivered'[p][j] = Payload(r, j)
            BY <3>5, <3>9
        <3>11. recv_seq'[p] = sent[r][n + 1].first + sent[r][n + 1].kept - 1
            <4>1. recv_seq[p] + sent[r][m].kept = sent[r][m].first + sent[r][m].kept - 1
                BY <3>4, <3>6, RunFacts
            <4>2. recv_seq'[p] = sent[r][m].first + sent[r][m].kept - 1
                BY <3>4, <4>1
            <4>. QED
                BY <3>7, <4>2
        <3>12. Prefix(p)'
            BY <1>2, <1>3, <3>5, <3>8, <3>9, <3>10, <3>11 DEF Prefix
        <3>. QED
            BY <1>8, <3>2, <3>12
    <2>. QED
        BY <2>1, <2>2, <2>3, <2>4 DEF RecvPacket
<1>. QED
    BY <1>4, <1>6, <1>10 DEF DeliveryInv

-----------------------------------------------------------------------------
(* DeliveryInv is an invariant: every packet on the way is genuine, and    *)
(* what was passed on is a prefix of what was sent.                        *)
THEOREM DeliveryCorrect == Spec => []DeliveryInv
<1>1. Init => DeliveryInv
    BY FarIsEnd DEF Init, DeliveryInv, PacketsGenuine, Layout, AvailGenuine, Prefix
<1>2. VariablesTyped /\ QueueBounded /\ DeliveryInv /\ [Next]_vars => DeliveryInv'
    <2>. SUFFICES ASSUME VariablesTyped, QueueBounded, DeliveryInv, [Next]_vars
                  PROVE  DeliveryInv'
        OBVIOUS
    <2>1. CASE UNCHANGED vars
        <3>1. \A q \in Ends : /\ Layout(q)' = Layout(q)
                              /\ \A x : IsSent(q, x)' = IsSent(q, x)
                              /\ \A i : Payload(q, i)' = Payload(q, i)
                              /\ \A i : Arrived(q, i)' = Arrived(q, i)
            BY <2>1, SentUnchanged DEF vars
        <3>2. UNCHANGED <<sent, send_queue, reliable_packets, network,
                 sibling_map, avail_packets, draining, wild, delivered, recv_seq>>
            BY <2>1 DEF vars, sender, receiver
        <3>3. \A e \in network : Far(e.to) \in Ends
            BY FarIsEnd DEF VariablesTyped, Datagram
        <3>4. PacketsGenuine'
            BY <3>1, <3>2, <3>3, FarIsEnd DEF DeliveryInv, PacketsGenuine
        <3>5. \A q \in Ends : Layout(q)' /\ AvailGenuine(q)' /\ Prefix(q)'
            BY <3>1, <3>2, FarIsEnd DEF DeliveryInv, AvailGenuine, Prefix
        <3>. QED
            BY <3>4, <3>5 DEF DeliveryInv
    <2>2. ASSUME NEW p \in Ends, NEW n \in Sizes,
                 SendEvent(p, n) \/ SendUnresponsive(p, n)
          PROVE  DeliveryInv'
        BY <2>2, SendingKeepsDelivery
    <2>3. ASSUME NEW p \in Ends, NEW d \in network, ReceivedBlock(p, d)
          PROVE  DeliveryInv'
        BY <2>3, ReceivingKeepsDelivery
    <2>4. ASSUME NEW p \in Ends, RecvPacket(p)
          PROVE  DeliveryInv'
        BY <2>4, RecvPacketKeepsDelivery
    <2>. QED
        BY <2>1, <2>2, <2>3, <2>4 DEF Next
<1>. QED
    BY <1>1, <1>2, QueueAndTypes, PTL DEF Spec

(* Each end is given the messages of the other in order, whole, each once, *)
(* however datagrams are lost, reordered or repeated.                      *)
THEOREM InOrder == Spec => []InOrderExactlyOnce
<1>1. VariablesTyped /\ DeliveryInv => InOrderExactlyOnce
    <2>. SUFFICES ASSUME VariablesTyped, DeliveryInv, NEW p \in Ends
                  PROVE  /\ Len(delivered[p]) <= Len(sent[Far(p)])
                         /\ \A i \in DOMAIN delivered[p] :
                               delivered[p][i] = Payload(Far(p), i)
        BY DEF InOrderExactlyOnce
    <2>1. DOMAIN delivered[p] = 1..Len(delivered[p])
        BY DEF VariablesTyped
    <2>. QED
        BY <2>1 DEF DeliveryInv, Prefix
<1>. QED
    BY <1>1, QueueAndTypes, DeliveryCorrect, PTL

(* The loop that removes duplicates never pops a packet nobody looked at.  *)
THEOREM NeverBlind == Spec => []NoBlindPop
<1>1. DeliveryInv => NoBlindPop
    BY DEF DeliveryInv, AvailGenuine, NoBlindPop
<1>. QED
    BY <1>1, DeliveryCorrect, PTL

-----------------------------------------------------------------------------
(* The link implements FifoChannel.                                        *)

Offered == [p \in Ends |-> [i \in 1..Len(sent[p]) |-> Payload(p, i)]]

LEMMA SendingIsSubmit ==
    ASSUME VariablesTyped, QueueBounded, NEW p \in Ends, NEW n \in Nat,
           SendPacket(p, n), UNCHANGED delivered
    PROVE  Channel!Submit(p) \/ UNCHANGED <<Offered, delivered>>
<1>1. \A q \in Ends : /\ Len(sent[q]) \in Nat
                      /\ \A i \in 1..Len(sent[q]) : Payload(q, i)' = Payload(q, i)
    BY SentGrows, GenuineStays
<1>2. CASE Accepted(p, n) = 0
    <2>1. sent' = sent
        BY <1>2 DEF SendPacket
    <2>. QED
        BY <2>1 DEF Offered, Payload
<1>3. CASE Accepted(p, n) # 0
    <2>1. /\ \A q \in Ends : q # p => sent'[q] = sent[q]
          /\ Len(sent'[p]) = Len(sent[p]) + 1
        BY <1>3, NewPacketType DEF SendPacket, VariablesTyped
    <2>2. \A q \in Ends : q # p => Offered'[q] = Offered[q]
        BY <2>1 DEF Offered, Payload
    <2>3. /\ DOMAIN Offered[p] = 1..Len(sent[p]) /\ Len(Offered[p]) = Len(sent[p])
          /\ Len(Offered'[p]) = Len(sent[p]) + 1
        BY <1>1, <2>1 DEF Offered
    <2>4. \A i \in DOMAIN Offered[p] : Offered'[p][i] = Offered[p][i]
        BY <1>1, <2>1 DEF Offered
    <2>5. Offered' = [Offered EXCEPT ![p] = Offered'[p]]
        BY <2>2 DEF Offered
    <2>. QED
        BY <2>3, <2>4, <2>5 DEF Channel!Submit, Offered
<1>. QED
    BY <1>2, <1>3

LEMMA PassingOnIsDeliver ==
    ASSUME VariablesTyped, DeliveryInv, DeliveryInv', NEW p \in Ends, RecvNext(p)
    PROVE  Channel!Deliver(p)
<1>. PICK n : n = Len(delivered[p])
    OBVIOUS
<1>1. PICK i \in DOMAIN avail_packets[p] :
          /\ delivered' = [delivered EXCEPT ![p] = Append(@, avail_packets[p][i].body)]
          /\ UNCHANGED sender
    BY DEF RecvNext, RecvRest
<1>2. delivered[p] \in Seq(Seq(Nat \X Nat)) /\ n \in Nat /\ Far(p) \in Ends
    BY FarIsEnd DEF VariablesTyped
<1>3. /\ delivered'[p] = Append(delivered[p], avail_packets[p][i].body)
      /\ Len(delivered'[p]) = n + 1
      /\ delivered'[p][n + 1] = avail_packets[p][i].body
    BY <1>1, <1>2 DEF VariablesTyped
<1>4. n + 1 <= Len(sent[Far(p)])
      /\ avail_packets[p][i].body = Payload(Far(p), n + 1)
    <2>1. sent' = sent /\ \A k : Payload(Far(p), k)' = Payload(Far(p), k)
        BY <1>1, <1>2, SentUnchanged DEF sender
    <2>2. Prefix(p)'
        BY DEF DeliveryInv
    <2>3. /\ Len(delivered'[p]) <= Len(sent'[Far(p)])
          /\ \A k \in 1..Len(delivered'[p]) : delivered'[p][k] = Payload(Far(p), k)'
        BY <2>2 DEF Prefix
    <2>4. n + 1 \in 1..(n + 1)
        BY <1>2
    <2>. QED
        BY <1>3, <2>1, <2>3, <2>4
<1>5. UNCHANGED Offered
    BY <1>1, SentUnchanged DEF Offered, sender
<1>6. Len(sent[Far(p)]) \in Nat
    BY <1>2 DEF VariablesTyped
<1>7. /\ Len(Offered[Far(p)]) = Len(sent[Far(p)])
      /\ Offered[Far(p)][n + 1] = Payload(Far(p), n + 1)
    BY <1>2, <1>4, <1>6 DEF Offered
<1>8. n < Len(Offered[Far(p)])
    BY <1>2, <1>4, <1>6, <1>7
<1>9. delivered' = [delivered EXCEPT ![p] = Append(@, Offered[Far(p)][Len(@) + 1])]
    BY <1>1, <1>4, <1>7
<1>. QED
    BY <1>5, <1>8, <1>9 DEF Channel!Deliver, Offered

(* Every step of the link is a submission, a delivery of the oldest        *)
(* message not yet delivered, or nothing to the applications.              *)
THEOREM Refinement == Spec => ImplementsChannel
<1>1. Init => Channel!Init
    BY DEF Init, Channel!Init
<1>2. /\ VariablesTyped /\ QueueBounded /\ DeliveryInv /\ DeliveryInv' /\ [Next]_vars
      => [Channel!Next]_(Channel!vars)
    <2>. SUFFICES ASSUME VariablesTyped, QueueBounded, DeliveryInv, DeliveryInv', [Next]_vars
                  PROVE  \/ UNCHANGED <<Offered, delivered>>
                         \/ \E p \in Ends : Channel!Submit(p) \/ Channel!Deliver(p)
        BY DEF Channel!Next, Channel!vars, Offered
    <2>1. ASSUME UNCHANGED <<sender, delivered>>
          PROVE  UNCHANGED <<Offered, delivered>>
        BY <2>1, SentUnchanged DEF Offered, sender
    <2>2. CASE UNCHANGED vars
        BY <2>1, <2>2 DEF vars, receiver
    <2>3. ASSUME NEW p \in Ends, NEW n \in Sizes,
                 SendEvent(p, n) \/ SendUnresponsive(p, n)
          PROVE  Channel!Submit(p) \/ UNCHANGED <<Offered, delivered>>
        <3>1. SendPacket(p, n) /\ UNCHANGED delivered /\ n \in Nat
            BY <2>3, CrudpAssumption DEF SendEvent, SendUnresponsive, receiver
        <3>. QED
            BY <3>1, SendingIsSubmit
    <2>4. ASSUME NEW p \in Ends, NEW d \in network, ReceivedBlock(p, d)
          PROVE  UNCHANGED <<Offered, delivered>>
        BY <2>1, <2>4 DEF ReceivedBlock
    <2>5. ASSUME NEW p \in Ends, RecvPacket(p)
          PROVE  Channel!Deliver(p) \/ UNCHANGED <<Offered, delivered>>
        <3>1. CASE RecvNext(p)
            BY <3>1, PassingOnIsDeliver
        <3>2. CASE ~RecvNext(p)
            BY <2>1, <2>5, <3>2
            DEF RecvPacket, RecvNothing, RecvDuplicate, RecvAhead, RecvRest
        <3>. QED
            BY <3>1, <3>2
    <2>. QED
        BY <2>2, <2>3, <2>4, <2>5 DEF Next
<1>. QED
    BY <1>1, <1>2, QueueAndTypes, DeliveryCorrect, PTL
    DEF Spec, ImplementsChannel, Channel!Spec

-----------------------------------------------------------------------------
(* The sender's side.                                                      *)

(* Every ack, owed or on its way, is of a packet that arrived.             *)
AcksGenuine ==
    /\ \A p \in Ends : recv_acks[p] \subseteq received[p]
    /\ \A d \in network : d.acks \subseteq received[Far(d.to)]

LEMMA NewNumbers ==
    ASSUME VariablesTyped, QueueBounded, NEW p \in Ends, NEW n \in Nat,
           SendPacket(p, n), NEW s \in 1..send_seq'[p]
    PROVE  s \in 1..send_seq[p] \/ s \in SeqsOf(NewPackets(p, n))
<1>1. Accepted(p, n) \in Nat /\ send_seq[p] \in Nat
    BY AcceptedType DEF VariablesTyped
<1>2. send_seq'[p] = send_seq[p] + Accepted(p, n)
    BY DEF SendPacket, VariablesTyped
<1>. SUFFICES ASSUME s \notin 1..send_seq[p]
              PROVE  s \in SeqsOf(NewPackets(p, n))
    OBVIOUS
<1>. PICK k : k = s - send_seq[p] - 1
    OBVIOUS
<1>3. k \in 0..(Accepted(p, n) - 1) /\ s = send_seq[p] + 1 + k
    BY <1>1, <1>2
<1>4. NewPacket(p, n, k).seq = s
    BY <1>3 DEF NewPacket, NewMessage
<1>. QED
    BY <1>3, <1>4 DEF SeqsOf, NewPackets

LEMMA SendingKeepsAcks ==
    ASSUME VariablesTyped, QueueBounded, AcksGenuine, ForgottenWasReceived,
           NEW p \in Ends, NEW n \in Sizes,
           SendEvent(p, n) \/ SendUnresponsive(p, n)
    PROVE  AcksGenuine' /\ ForgottenWasReceived'
<1>. n \in Nat
    BY CrudpAssumption
<1>. DEFINE queue == send_queue[p] \union NewPackets(p, n)
<1>1. SendPacket(p, n) /\ received' = received
    BY DEF SendEvent, SendUnresponsive, receiver
<1>2. \A q \in Ends : q # p => send_seq'[q] = send_seq[q]
    BY <1>1 DEF SendPacket, VariablesTyped
<1>3. ASSUME NEW q \in Ends, NEW s \in 1..send_seq'[q],
             \A r \in Ends : /\ r # p => send_queue'[r] \union reliable_packets'[r]
                                        = send_queue[r] \union reliable_packets[r]
                             /\ r = p => send_queue'[r] \union reliable_packets'[r]
                                        = queue \union reliable_packets[r]
      PROVE  s \in received'[Far(q)] \union SeqsOf(send_queue'[q])
                     \union SeqsOf(reliable_packets'[q])
    <2>1. \/ s \in 1..send_seq[q]
          \/ q = p /\ s \in SeqsOf(NewPackets(p, n))
        BY <1>1, <1>2, <1>3, NewNumbers
    <2>2. s \in 1..send_seq[q] =>
             s \in received[Far(q)] \union SeqsOf(send_queue[q])
                     \union SeqsOf(reliable_packets[q])
        BY DEF ForgottenWasReceived
    <2>3. \/ s \in received[Far(q)]
          \/ \E x \in send_queue'[q] \union reliable_packets'[q] : x.seq = s
        <3>1. CASE q = p
            BY <1>3, <2>1, <2>2, <3>1 DEF SeqsOf
        <3>2. CASE q # p
            BY <1>3, <2>1, <2>2, <3>2 DEF SeqsOf
        <3>. QED
            BY <3>1, <3>2
    <2>. QED
        BY <1>1, <2>3 DEF SeqsOf
<1>4. CASE SendEvent(p, n)
    <2>1. PICK due \in SUBSET reliable_packets[p] : BatchSend(p, due, queue)
        BY <1>4 DEF SendEvent
    <2>2. \A r \in Ends : /\ r # p => send_queue'[r] \union reliable_packets'[r]
                                     = send_queue[r] \union reliable_packets[r]
                          /\ r = p => send_queue'[r] \union reliable_packets'[r]
                                     = queue \union reliable_packets[r]
        BY <2>1 DEF BatchSend, VariablesTyped
    <2>3. \A q \in Ends : recv_acks'[q] \subseteq recv_acks[q]
        BY <2>1 DEF BatchSend, VariablesTyped
    <2>4. ASSUME NEW d \in network', d \notin network
          PROVE  d.acks \subseteq received[Far(d.to)]
        <3>1. PICK x \in due \union queue :
                  d = [to |-> Far(p), pkt |-> x, acks |-> AcksOn(p,
                        Cardinality({y \in due \union queue : y.seq < x.seq}))]
            BY <2>1, <2>4 DEF BatchSend
        <3>. HIDE DEF queue
        <3>2. d.to = Far(p) /\ d.acks \subseteq recv_acks[p]
            BY <3>1 DEF AcksOn
        <3>. QED
            BY <3>2, FarIsEnd DEF AcksGenuine
    <2>5. AcksGenuine'
        BY <1>1, <2>3, <2>4 DEF AcksGenuine
    <2>. QED
        BY <1>3, <2>2, <2>5 DEF ForgottenWasReceived
<1>5. CASE SendUnresponsive(p, n)
    <2>1. /\ send_queue' = [send_queue EXCEPT ![p] = queue]
          /\ UNCHANGED <<reliable_packets, recv_acks, network>>
        BY <1>5 DEF SendUnresponsive
    <2>2. \A r \in Ends : /\ r # p => send_queue'[r] \union reliable_packets'[r]
                                     = send_queue[r] \union reliable_packets[r]
                          /\ r = p => send_queue'[r] \union reliable_packets'[r]
                                     = queue \union reliable_packets[r]
        BY <2>1 DEF VariablesTyped
    <2>3. AcksGenuine'
        BY <1>1, <2>1 DEF AcksGenuine
    <2>. QED
        BY <1>3, <2>2, <2>3 DEF ForgottenWasReceived
<1>. QED
    BY <1>4, <1>5

LEMMA ReceivingKeepsAcks ==
    ASSUME VariablesTyped, AcksGenuine, ForgottenWasReceived,
           NEW p \in Ends, NEW d \in network, ReceivedBlock(p, d)
    PROVE  AcksGenuine' /\ ForgottenWasReceived'
<1>1. /\ d.to = p
      /\ network' \subseteq network
      /\ reliable_packets' = [reliable_packets EXCEPT ![p] = KeptAfter(p, d.acks)]
      /\ recv_acks' = [recv_acks EXCEPT ![p] = @ \union {d.pkt.seq}]
      /\ received' = [received EXCEPT ![p] = @ \union {d.pkt.seq}]
      /\ UNCHANGED sender
    BY DEF ReceivedBlock
<1>2. \A q \in Ends : /\ received[q] \subseteq received'[q]
                      /\ recv_acks'[q] \subseteq received'[q]
    BY <1>1 DEF AcksGenuine, VariablesTyped
<1>3. \A e \in network' : e.acks \subseteq received'[Far(e.to)]
    <2>1. \A e \in network : Far(e.to) \in Ends
        BY FarIsEnd DEF VariablesTyped, Datagram
    <2>. QED
        BY <1>1, <1>2, <2>1 DEF AcksGenuine
<1>4. ASSUME NEW q \in Ends, NEW s \in 1..send_seq[q]
      PROVE  s \in received'[Far(q)] \union SeqsOf(send_queue[q])
                     \union SeqsOf(reliable_packets'[q])
    <2>1. s \in received[Far(q)] \union SeqsOf(send_queue[q])
                  \union SeqsOf(reliable_packets[q])
        BY DEF ForgottenWasReceived
    <2>2. SeqsOf(reliable_packets[q]) \subseteq
             received[Far(q)] \union SeqsOf(reliable_packets'[q])
        <3>1. CASE q = p
            <4>1. d.acks \subseteq received[Far(q)]
                BY <1>1, <3>1 DEF AcksGenuine
            <4>2. reliable_packets'[q] = KeptAfter(p, d.acks)
                BY <1>1, <3>1 DEF VariablesTyped
            <4>. QED
                BY <3>1, <4>1, <4>2 DEF SeqsOf, KeptAfter
        <3>2. CASE q # p
            BY <1>1, <3>2 DEF VariablesTyped
        <3>. QED
            BY <3>1, <3>2
    <2>3. received[Far(q)] \subseteq received'[Far(q)]
        BY <1>2, FarIsEnd
    <2>. QED
        BY <2>1, <2>2, <2>3
<1>. QED
    BY <1>1, <1>2, <1>3, <1>4 DEF AcksGenuine, ForgottenWasReceived, sender

(* An ack never frees a packet that did not arrive: what was given a       *)
(* number is queued, kept for retransmission, or received.                 *)
THEOREM NothingForgotten == Spec => []ForgottenWasReceived
<1>1. Init => AcksGenuine /\ ForgottenWasReceived
    BY DEF Init, AcksGenuine, ForgottenWasReceived
<1>2. VariablesTyped /\ QueueBounded /\ AcksGenuine /\ ForgottenWasReceived /\ [Next]_vars
      => (AcksGenuine /\ ForgottenWasReceived)'
    <2>. SUFFICES ASSUME VariablesTyped, QueueBounded, AcksGenuine, ForgottenWasReceived,
                         [Next]_vars
                  PROVE  AcksGenuine' /\ ForgottenWasReceived'
        OBVIOUS
    <2>0. ASSUME UNCHANGED <<send_seq, send_queue, reliable_packets, recv_acks,
                             received, network>>
          PROVE  AcksGenuine' /\ ForgottenWasReceived'
        BY <2>0 DEF AcksGenuine, ForgottenWasReceived
    <2>1. CASE UNCHANGED vars
        BY <2>0, <2>1 DEF vars, sender, receiver
    <2>2. ASSUME NEW p \in Ends, NEW n \in Sizes,
                 SendEvent(p, n) \/ SendUnresponsive(p, n)
          PROVE  AcksGenuine' /\ ForgottenWasReceived'
        BY <2>2, SendingKeepsAcks
    <2>3. ASSUME NEW p \in Ends, NEW d \in network, ReceivedBlock(p, d)
          PROVE  AcksGenuine' /\ ForgottenWasReceived'
        BY <2>3, ReceivingKeepsAcks
    <2>4. ASSUME NEW p \in Ends, RecvPacket(p)
          PROVE  AcksGenuine' /\ ForgottenWasReceived'
        BY <2>0, <2>4 DEF RecvPacket, RecvNothing, RecvDuplicate, RecvNext,
                          RecvAhead, RecvRest, sender
    <2>. QED
        BY <2>1, <2>2, <2>3, <2>4 DEF Next
<1>. QED
    BY <1>1, <1>2, QueueAndTypes, PTL DEF Spec

-----------------------------------------------------------------------------
(* The receiver's side.                                                    *)

(* The numbers an available packet stands for.                             *)
Run(w) == w.seq .. (w.seq + Parts(w.sibs) - 1)

(* What ReceivedIsAccountedFor says of one end.                            *)
Accounted(p) ==
    \A s \in received[p] :
       s <= recv_seq[p] \/ s \in Waiting(p) \/ s \in discarded[p]

(* The number of a part lies in the run of its complete group.             *)
LEMMA MergedRun ==
    ASSUME VariablesTyped, NEW r \in Ends, Layout(r),
           NEW group \in SUBSET Packet, NEW a \in group, a.sibs > 0,
           \A x \in group : IsSent(r, x) /\ x.sibs > 0 /\ x.sibid = a.sibid,
           Complete(group, a.sibs), NEW b \in group
    PROVE  b.seq \in Run(Merged(group, a.sibs))
<1>1. PICK i \in DOMAIN sent[r] : \E k \in 0..(sent[r][i].kept - 1) :
          a = PacketOf(r, i, k)
    BY DEF IsSent
<1>. DEFINE n == a.sibs
<1>2. \A x \in group : /\ x.pos \in 0..(sent[r][i].kept - 1)
                       /\ x = PacketOf(r, i, x.pos)
    BY <1>1, GroupIsOneMessage
<1>3. n \in Nat \ {0} /\ n = sent[r][i].sibs
    BY <1>1 DEF PacketOf, Packet
<1>4. /\ sent[r][i].first \in Nat /\ sent[r][i].kept \in Nat
      /\ sent[r][i].kept <= n
    <2>1. sent[r][i] \in Message
        BY DEF VariablesTyped
    <2>2. sent[r][i].first \in Nat /\ sent[r][i].kept \in Nat
        BY <2>1 DEF Message
    <2>3. sent[r][i].kept \in 1..Parts(n)
        BY <1>3 DEF Layout, Single
    <2>. QED
        BY <1>3, <2>2, <2>3 DEF Parts
<1>5. PartAt(group, 0) \in group /\ PartAt(group, 0).pos = 0
    BY <1>3, MergedType
<1>6. PartAt(group, 0).seq = sent[r][i].first
    <2>1. PartAt(group, 0) = PacketOf(r, i, 0)
        BY <1>2, <1>5
    <2>. QED
        BY <1>4, <2>1 DEF PacketOf
<1>7. b.pos \in 0..(n - 1) /\ b.seq = sent[r][i].first + b.pos
    <2>1. b.pos \in 0..(sent[r][i].kept - 1) /\ b = PacketOf(r, i, b.pos)
        BY <1>2
    <2>2. b.seq = sent[r][i].first + b.pos
        BY <2>1 DEF PacketOf
    <2>. QED
        BY <1>3, <1>4, <2>1, <2>2
<1>8. /\ Merged(group, n).seq = sent[r][i].first
      /\ Parts(Merged(group, n).sibs) = n
    BY <1>3, <1>6 DEF Merged, Parts
<1>. QED
    BY <1>3, <1>4, <1>7, <1>8 DEF Run

LEMMA WaitingIs ==
    ASSUME NEW p
    PROVE  Waiting(p) = SeqsOf(sibling_map[p]) \union
                        UNION {Run(avail_packets[p][i]) : i \in DOMAIN avail_packets[p]}
BY DEF Waiting, Run

LEMMA ReceivingKeepsAccount ==
    ASSUME VariablesTyped, DeliveryInv, \A q \in Ends : Accounted(q),
           NEW p \in Ends, NEW d \in network, ReceivedBlock(p, d), NEW q \in Ends
    PROVE  Accounted(q)'
<1>. DEFINE a == d.pkt
            r == Far(p)
<1>1. /\ r \in Ends /\ Layout(r) /\ a \in Packet /\ IsSent(r, a)
      /\ avail_packets[p] = <<>>
    <2>1. d.to = p /\ ~draining[p]
        BY DEF ReceivedBlock
    <2>2. d \in Datagram
        BY DEF VariablesTyped
    <2>. QED
        BY <2>1, <2>2, FarIsEnd
        DEF DeliveryInv, PacketsGenuine, AvailGenuine, Datagram
<1>2. /\ received' = [received EXCEPT ![p] = @ \union {a.seq}]
      /\ UNCHANGED <<recv_seq, discarded>>
    BY DEF ReceivedBlock
<1>3. CASE q # p
    <2>1. /\ avail_packets'[q] = avail_packets[q]
          /\ sibling_map'[q] = sibling_map[q]
        BY <1>3 DEF ReceivedBlock, Whole, DuplicateSibling, FreshSibling, VariablesTyped
    <2>2. received'[q] = received[q]
        BY <1>2, <1>3 DEF VariablesTyped
    <2>3. Waiting(q)' = Waiting(q)
        BY <2>1 DEF Waiting
    <2>. QED
        BY <1>2, <2>2, <2>3 DEF Accounted
<1>4. CASE q = p
    <2>1. SUFFICES /\ SeqsOf(sibling_map[p]) \subseteq Waiting(p)'
                   /\ a.seq \in Waiting(p)'
        <3>1. Waiting(p) = SeqsOf(sibling_map[p])
            <4>1. DOMAIN avail_packets[p] = {}
                BY <1>1
            <4>. QED
                BY <4>1, WaitingIs
        <3>2. received'[p] = received[p] \union {a.seq}
            BY <1>2 DEF VariablesTyped
        <3>. QED
            BY <1>2, <1>4, <3>1, <3>2 DEF Accounted
    <2>2. Waiting(p)' = SeqsOf(sibling_map'[p]) \union
              UNION {Run(avail_packets'[p][i]) : i \in DOMAIN avail_packets'[p]}
        BY DEF Waiting, Run
    <2>3. ASSUME NEW w, avail_packets' = [avail_packets EXCEPT ![p] = Append(@, w)]
          PROVE  Run(w) \subseteq Waiting(p)'
        <3>1. avail_packets'[p] = <<w>>
            BY <1>1, <2>3 DEF VariablesTyped
        <3>2. 1 \in DOMAIN avail_packets'[p] /\ avail_packets'[p][1] = w
            BY <3>1
        <3>. QED
            BY <2>2, <3>2
    <2>4. CASE Whole(p, a)
        <3>. DEFINE w == [seq |-> a.seq, sibs |-> 0, body |-> <<a.body>>]
        <3>1. Run(w) \subseteq Waiting(p)'
            BY <2>3, <2>4 DEF Whole
        <3>2. a.seq \in Run(w)
            BY <1>1 DEF Run, Parts, Packet
        <3>3. sibling_map' = sibling_map
            BY <2>4 DEF Whole
        <3>. QED
            BY <2>2, <3>1, <3>2, <3>3
    <2>5. CASE DuplicateSibling(p, a)
        <3>1. PICK x \in Siblings(p, a.sibid) : x.pos = a.pos
            BY <2>5 DEF DuplicateSibling
        <3>2. x \in sibling_map[p] /\ IsSent(r, x) /\ x.sibs > 0 /\ x.sibid = a.sibid
            BY <3>1 DEF Siblings, DeliveryInv, PacketsGenuine
        <3>3. PICK i \in DOMAIN sent[r] : \E k \in 0..(sent[r][i].kept - 1) :
                  x = PacketOf(r, i, k)
            BY <3>2 DEF IsSent
        <3>4. a.sibs > 0
            BY <2>5 DEF DuplicateSibling
        <3>5. x = PacketOf(r, i, x.pos) /\ a = PacketOf(r, i, a.pos)
            BY <1>1, <3>2, <3>3, <3>4, GroupIsOneMessage
        <3>6. a = x
            BY <3>1, <3>5
        <3>7. sibling_map' = sibling_map
            BY <2>5 DEF DuplicateSibling
        <3>. QED
            BY <2>2, <3>2, <3>6, <3>7 DEF SeqsOf
    <2>6. CASE FreshSibling(p, a)
        <3>. DEFINE group == Siblings(p, a.sibid) \union {a}
        <3>1. group \subseteq Packet /\ a.sibs > 0
            BY <1>1, <2>6 DEF FreshSibling, Siblings, VariablesTyped
        <3>2. \A x \in group : IsSent(r, x) /\ x.sibs > 0 /\ x.sibid = a.sibid
            BY <1>1, <3>1 DEF Siblings, DeliveryInv, PacketsGenuine
        <3>3. a \in group
            OBVIOUS
        <3>4. CASE Complete(group, a.sibs)
            <4>1. /\ avail_packets' = [avail_packets EXCEPT
                         ![p] = Append(@, Merged(group, a.sibs))]
                  /\ sibling_map' = [sibling_map EXCEPT ![p] = @ \ group]
                BY <2>6, <3>4 DEF FreshSibling
            <4>. HIDE DEF group
            <4>2. \A b \in group : b.seq \in Run(Merged(group, a.sibs))
                BY <1>1, <3>1, <3>2, <3>3, <3>4, MergedRun
            <4>3. \A b \in group : b.seq \in Waiting(p)'
                BY <2>3, <4>1, <4>2
            <4>4. sibling_map'[p] = sibling_map[p] \ group
                BY <4>1 DEF VariablesTyped
            <4>5. \A b \in sibling_map[p] : b.seq \in Waiting(p)'
                BY <2>2, <4>3, <4>4 DEF SeqsOf
            <4>. QED
                BY <3>3, <4>3, <4>5 DEF SeqsOf
        <3>5. CASE ~Complete(group, a.sibs)
            <4>1. sibling_map' = [sibling_map EXCEPT ![p] = @ \union {a}]
                BY <2>6, <3>5 DEF FreshSibling
            <4>2. sibling_map'[p] = sibling_map[p] \union {a}
                BY <4>1 DEF VariablesTyped
            <4>. QED
                BY <2>2, <4>2 DEF SeqsOf
        <3>. QED
            BY <3>4, <3>5
    <2>. QED
        BY <2>4, <2>5, <2>6 DEF ReceivedBlock
<1>. QED
    BY <1>3, <1>4

(* A message whose first number was passed was passed whole.               *)
LEMMA PassedWhole ==
    ASSUME VariablesTyped, DeliveryInv, NEW p \in Ends, NEW m \in DOMAIN sent[Far(p)],
           sent[Far(p)][m].first <= recv_seq[p]
    PROVE  sent[Far(p)][m].first + sent[Far(p)][m].kept - 1 <= recv_seq[p]
<1>. DEFINE r == Far(p)
<1>. PICK n : n = Len(delivered[p])
    OBVIOUS
<1>1. /\ r \in Ends /\ Layout(r) /\ n \in Nat /\ n <= Len(sent[r])
      /\ n = 0 => recv_seq[p] = 0
      /\ n > 0 => recv_seq[p] = sent[r][n].first + sent[r][n].kept - 1
    BY FarIsEnd DEF DeliveryInv, Prefix, VariablesTyped
<1>2. DOMAIN sent[r] = 1..Len(sent[r]) /\ recv_seq[p] \in Nat /\ Len(sent[r]) \in Nat
    BY <1>1 DEF VariablesTyped
<1>3. \A i \in DOMAIN sent[r] : /\ sent[r][i].first \in Nat
                                /\ sent[r][i].kept \in Nat
                                /\ sent[r][i].first >= 1
    <2>1. \A i \in DOMAIN sent[r] : sent[r][i] \in Message
        BY <1>1 DEF VariablesTyped
    <2>2. \A i \in DOMAIN sent[r] : sent[r][i].first \in Nat /\ sent[r][i].kept \in Nat
        BY <2>1 DEF Message
    <2>3. \A i \in DOMAIN sent[r] : sent[r][i].first >= 1
        BY <1>1 DEF Layout, Single
    <2>. QED
        BY <2>2, <2>3
<1>4. n > 0
    BY <1>1, <1>3
<1>5. n \in DOMAIN sent[r]
    BY <1>1, <1>2, <1>4
<1>6. \A i, j \in DOMAIN sent[r] :
          i < j => sent[r][i].first + sent[r][i].kept <= sent[r][j].first
    BY <1>1 DEF Layout, Apart
<1>a. \A f, k, g, s \in Nat : s = f + k - 1 /\ f + k <= g => ~(g <= s)
    OBVIOUS
<1>b. /\ recv_seq[p] = sent[r][n].first + sent[r][n].kept - 1
      /\ sent[r][n].first \in Nat /\ sent[r][n].kept \in Nat
      /\ sent[r][m].first \in Nat /\ sent[r][m].kept \in Nat
    BY <1>1, <1>3, <1>4, <1>5
<1>7. ~(n < m)
    <2>1. n < m => sent[r][n].first + sent[r][n].kept <= sent[r][m].first
        BY <1>5, <1>6
    <2>. QED
        BY <1>2, <1>a, <1>b, <2>1
<1>8. CASE m = n
    <2>1. sent[r][m].first + sent[r][m].kept - 1 = recv_seq[p]
        BY <1>8, <1>b
    <2>. QED
        BY <1>2, <2>1
<1>9. CASE m < n
    <2>1. sent[r][m].first + sent[r][m].kept <= sent[r][n].first
        BY <1>5, <1>6, <1>9
    <2>2. PICK f, g, k, l, s :
            /\ f = sent[r][n].first /\ k = sent[r][n].kept
            /\ g = sent[r][m].first /\ l = sent[r][m].kept
            /\ s = recv_seq[p]
        OBVIOUS
    <2>3. f \in Nat /\ k \in Nat /\ g \in Nat /\ l \in Nat /\ s \in Nat
          /\ s = f + k - 1 /\ g + l <= f
        BY <1>2, <1>b, <2>1, <2>2, Zenon
    <2>4. g + l - 1 <= s
        BY ONLY <2>3
    <2>. QED
        BY <2>2, <2>4, Zenon
<1>. QED
    BY <1>2, <1>5, <1>7, <1>8, <1>9

(* The available packet RecvPacket looks at, and the others: there is none.*)
LEMMA OnlyPacket ==
    ASSUME VariablesTyped, DeliveryInv, NEW p \in Ends, NEW i \in DOMAIN avail_packets[p]
    PROVE  /\ avail_packets[p][i] \in Available
           /\ Waiting(p) \subseteq
                 SeqsOf(sibling_map[p]) \union Run(avail_packets[p][i])
           /\ Parts(avail_packets[p][i].sibs) \in Nat
           /\ avail_packets[p][i].seq <= recv_seq[p] =>
                 \A s \in Run(avail_packets[p][i]) : s <= recv_seq[p]
<1>1. avail_packets[p] \in Seq(Available) /\ Len(avail_packets[p]) <= 1
    BY DEF VariablesTyped, DeliveryInv, AvailGenuine
<1>2. avail_packets[p][i] \in Available
    BY <1>1
<1>3. \A j \in DOMAIN avail_packets[p] : j = i
    <2>1. \A l \in Nat : \A x, y \in 1..l : l <= 1 => x = y
        OBVIOUS
    <2>2. DOMAIN avail_packets[p] = 1..Len(avail_packets[p])
          /\ Len(avail_packets[p]) \in Nat
        BY <1>1
    <2>. QED
        BY <1>1, <2>1, <2>2
<1>4. Waiting(p) \subseteq SeqsOf(sibling_map[p]) \union Run(avail_packets[p][i])
    BY <1>3, WaitingIs
<1>5. Parts(avail_packets[p][i].sibs) \in Nat
    BY <1>2, PartsType DEF Available
<1>6. ASSUME avail_packets[p][i].seq <= recv_seq[p]
      PROVE  \A s \in Run(avail_packets[p][i]) : s <= recv_seq[p]
    <2>1. PICK m \in DOMAIN sent[Far(p)] :
            /\ sent[Far(p)][m].kept = Parts(sent[Far(p)][m].sibs)
            /\ avail_packets[p][i] = Arrived(Far(p), m)
        BY DEF DeliveryInv, AvailGenuine
    <2>2. /\ avail_packets[p][i].seq = sent[Far(p)][m].first
          /\ Parts(avail_packets[p][i].sibs) = sent[Far(p)][m].kept
        BY <2>1 DEF Arrived
    <2>3. avail_packets[p][i].seq + Parts(avail_packets[p][i].sibs) - 1 <= recv_seq[p]
        BY <1>6, <2>2, PassedWhole
    <2>4. avail_packets[p][i].seq \in Nat /\ recv_seq[p] \in Nat
        BY <1>2 DEF Available, VariablesTyped
    <2>. QED
        BY <1>5, <2>3, <2>4 DEF Run
<1>. QED
    BY <1>2, <1>4, <1>5, <1>6

LEMMA RecvPacketKeepsAccount ==
    ASSUME VariablesTyped, DeliveryInv, \A q \in Ends : Accounted(q),
           NEW p \in Ends, RecvPacket(p), NEW q \in Ends
    PROVE  Accounted(q)'
<1>1. received' = received /\ sibling_map' = sibling_map
    BY DEF RecvPacket, RecvNothing, RecvDuplicate, RecvNext, RecvAhead, RecvRest
<1>2. SeqsOf(sibling_map[q]) \subseteq Waiting(q)'
    BY <1>1 DEF Waiting
<1>3. CASE q # p
    <2>1. /\ avail_packets'[q] = avail_packets[q] /\ recv_seq'[q] = recv_seq[q]
          /\ discarded'[q] = discarded[q]
        <3>1. CASE RecvNothing(p)
            BY <1>3, <3>1 DEF RecvNothing, VariablesTyped
        <3>2. CASE RecvDuplicate(p)
            BY <1>3, <3>2 DEF RecvDuplicate, VariablesTyped
        <3>3. CASE RecvNext(p)
            BY <1>3, <3>3 DEF RecvNext, VariablesTyped
        <3>4. CASE RecvAhead(p)
            BY <1>3, <3>4 DEF RecvAhead, VariablesTyped
        <3>. QED
            BY <3>1, <3>2, <3>3, <3>4 DEF RecvPacket
    <2>2. Waiting(q)' = Waiting(q)
        BY <1>1, <2>1 DEF Waiting
    <2>. QED
        BY <1>1, <2>1, <2>2 DEF Accounted
<1>4. CASE q = p
    <2>1. CASE RecvNothing(p)
        <3>1. UNCHANGED <<recv_seq, avail_packets, discarded>>
            BY <2>1 DEF RecvNothing
        <3>. QED
            BY <1>1, <3>1 DEF Accounted, Waiting
    <2>2. CASE RecvDuplicate(p)
        <3>1. PICK i \in DOMAIN avail_packets[p] :
                /\ avail_packets[p][i].seq <= recv_seq[p]
                /\ UNCHANGED <<recv_seq, discarded>>
            BY <2>2 DEF RecvDuplicate
        <3>2. \A s \in Waiting(p) : s \in SeqsOf(sibling_map[p]) \/ s <= recv_seq[p]
            BY <3>1, OnlyPacket
        <3>. QED
            BY <1>1, <1>2, <1>4, <3>1, <3>2 DEF Accounted
    <2>3. CASE RecvNext(p)
        <3>1. PICK i \in DOMAIN avail_packets[p] :
                /\ avail_packets[p][i].seq = recv_seq[p] + 1
                /\ recv_seq' = [recv_seq EXCEPT
                                  ![p] = Advanced(@, avail_packets[p][i].sibs)]
                /\ UNCHANGED discarded
            BY <2>3 DEF RecvNext
        <3>2. /\ recv_seq'[p] = recv_seq[p] + Parts(avail_packets[p][i].sibs)
              /\ recv_seq[p] \in Nat
            BY <3>1 DEF Advanced, VariablesTyped
        <3>3. Parts(avail_packets[p][i].sibs) \in Nat
            BY OnlyPacket
        <3>4. \A s \in Run(avail_packets[p][i]) : s <= recv_seq'[p]
            <4>1. \A a, k, s \in Nat : s \in (a + 1)..(a + 1 + k - 1) => s <= a + k
                OBVIOUS
            <4>2. \A s \in Run(avail_packets[p][i]) : s \in Nat
                BY <3>1, <3>2, <3>3 DEF Run
            <4>. QED
                BY <3>1, <3>2, <3>3, <4>1, <4>2 DEF Run
        <3>5. \A s \in Nat : s <= recv_seq[p] => s <= recv_seq'[p]
            BY <3>2, <3>3
        <3>6. \A s \in Waiting(p) : s \in SeqsOf(sibling_map[p]) \/ s <= recv_seq'[p]
            BY <3>4, OnlyPacket
        <3>7. received[p] \subseteq Nat
            BY DEF VariablesTyped
        <3>. QED
            BY <1>1, <1>2, <1>4, <3>1, <3>5, <3>6, <3>7 DEF Accounted
    <2>4. CASE RecvAhead(p)
        <3>1. PICK i \in DOMAIN avail_packets[p] :
                /\ discarded' = [discarded EXCEPT ![p] =
                      @ \union avail_packets[p][i].seq ..
                         (avail_packets[p][i].seq + Parts(avail_packets[p][i].sibs) - 1)]
                /\ UNCHANGED recv_seq
            BY <2>4 DEF RecvAhead
        <3>2. discarded'[p] = discarded[p] \union Run(avail_packets[p][i])
            BY <3>1 DEF Run, VariablesTyped
        <3>3. \A s \in Waiting(p) : s \in SeqsOf(sibling_map[p]) \/ s \in discarded'[p]
            BY <3>2, OnlyPacket
        <3>. QED
            BY <1>1, <1>2, <1>4, <3>1, <3>2, <3>3 DEF Accounted
    <2>. QED
        BY <2>1, <2>2, <2>3, <2>4 DEF RecvPacket
<1>. QED
    BY <1>3, <1>4

(* A packet that arrived was passed on, waits for its siblings, or was     *)
(* dropped for being ahead; there is no other way to lose it.              *)
THEOREM EverythingAccounted == Spec => []ReceivedIsAccountedFor
<1>. DEFINE Inv == \A q \in Ends : Accounted(q)
<1>1. Init => Inv
    BY DEF Init, Accounted
<1>2. VariablesTyped /\ DeliveryInv /\ Inv /\ [Next]_vars => Inv'
    <2>. SUFFICES ASSUME VariablesTyped, DeliveryInv, Inv, [Next]_vars, NEW q \in Ends
                  PROVE  Accounted(q)'
        BY DEF Accounted
    <2>0. ASSUME UNCHANGED receiver
          PROVE  Accounted(q)'
        BY <2>0 DEF Accounted, Waiting, receiver
    <2>1. CASE UNCHANGED vars
        BY <2>0, <2>1 DEF vars
    <2>2. ASSUME NEW p \in Ends, NEW n \in Sizes,
                 SendEvent(p, n) \/ SendUnresponsive(p, n)
          PROVE  Accounted(q)'
        BY <2>0, <2>2 DEF SendEvent, SendUnresponsive
    <2>3. ASSUME NEW p \in Ends, NEW d \in network, ReceivedBlock(p, d)
          PROVE  Accounted(q)'
        BY <2>3, ReceivingKeepsAccount
    <2>4. ASSUME NEW p \in Ends, RecvPacket(p)
          PROVE  Accounted(q)'
        BY <2>4, RecvPacketKeepsAccount
    <2>. QED
        BY <2>1, <2>2, <2>3, <2>4 DEF Next
<1>3. Inv => ReceivedIsAccountedFor
    BY DEF Accounted, ReceivedIsAccountedFor
<1>. QED
    BY <1>1, <1>2, <1>3, QueueAndTypes, DeliveryCorrect, PTL DEF Spec
==============================================================================
