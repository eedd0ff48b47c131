-------------------------------- MODULE Crudp --------------------------------
(***************************************************************************)
(* The "Cryptic Reliable UDP" link, Common/CRUDP_Protocol: two ends, each  *)
(* running CrudP_Protocol behind a CRUDLink, over UDP, which loses,        *)
(* reorders and duplicates datagrams.                                      *)
(*                                                                         *)
(* Every operation of one end runs on the reactor thread, so an action is  *)
(* a whole handler: packets_for_event (SendPacket, batchSend, wrapPacket)  *)
(* and received_block (ReceivedBlock, then RecvPacket until it returns     *)
(* nullptr: one Receive step followed by Recv steps during which that end  *)
(* does nothing else).                                                     *)
(*                                                                         *)
(* Abstractions.  A payload is the pair <<message number, part number>>;   *)
(* bit packing, checksum and padding are left out (a datagram that fails   *)
(* the checksum is one that is never received).  Clocks are left out: any  *)
(* set of unacknowledged packets may be due for retransmission, and a link *)
(* that has been heard may count as unresponsive whenever something is     *)
(* unacknowledged.  send_queue and reliable_packets are filled and emptied *)
(* in sequence order, so each is the set of its packets.  Every event      *)
(* class has m_reliable = true (CRUD_Events.h:55), so every packet sent is *)
(* kept for retransmission.  Sequence numbers do not wrap.                 *)
(***************************************************************************)
EXTENDS Integers, Sequences, FiniteSets

CONSTANTS
    Sizes,        \* message sizes the application uses: the number of parts
                  \* a large one is split into, 0 for one that is not split
    MaxSend,      \* bound: messages each end sends
    Capacity,     \* room in send_queue and retransmit_queue (16384)
    MaxAcks,      \* acknowledgements one packet carries (16)
    Duplicating,  \* may the network deliver a datagram more than once
    Overtaking    \* may a packet arrive before one with a lower number

Ends == {"client", "server"}
Far(p) == IF p = "client" THEN "server" ELSE "client"

ASSUME CrudpAssumption ==
    /\ Sizes \subseteq Nat
    /\ MaxSend \in [Ends -> Nat]
    /\ Capacity \in Nat \ {0}
    /\ MaxAcks \in Nat \ {0}
    /\ Duplicating \in BOOLEAN
    /\ Overtaking \in BOOLEAN

VARIABLES
    send_seq,          \* last sequence number given to a packet
    sibling_id,        \* last id given to a group of split packets
    send_queue,        \* packets not yet sent
    reliable_packets,  \* packets sent and not yet acknowledged
    recv_seq,          \* last sequence number passed to the layer above
    recv_acks,         \* sequence numbers received and not yet acknowledged
    sibling_map,       \* received parts of messages not yet complete
    avail_packets,     \* packets RecvPacket looks at
    draining,          \* is this end inside received_block's RecvPacket loop
    heard,             \* has this end ever received a block (m_last_activity)
    network,           \* datagrams that may still arrive
    disconnecting,     \* was the link's target told that the link is dead
    wild,              \* did RecvPacket pop a packet it never looked at
    sent,              \* history: messages of which a packet was queued
    delivered,         \* history: payloads RecvPacket returned
    received,          \* history: sequence numbers that arrived
    discarded          \* history: numbers of packets dropped for being ahead

sender   == <<send_seq, sibling_id, send_queue, sent>>
receiver == <<recv_seq, sibling_map, avail_packets, wild, delivered,
              received, discarded>>
vars     == <<sender, receiver, reliable_packets, recv_acks, draining, heard,
              network, disconnecting>>

Parts(n) == IF n = 0 THEN 1 ELSE n
Smaller(a, b) == IF a < b THEN a ELSE b
SeqsOf(packets) == {x.seq : x \in packets}

(* The packet that carries part k of message i of end p.                   *)
PacketOf(p, i, k) ==
    LET m == sent[p][i] IN
    [seq |-> m.first + k, sibs |-> m.sibs, sibid |-> m.sibid, pos |-> k,
     body |-> <<i, k>>]

(* The payload of message i of end p, as the far end should get it.        *)
Payload(p, i) == [k \in 1..Parts(sent[p][i].sibs) |-> <<i, k - 1>>]

Init ==
    /\ send_seq         = [p \in Ends |-> 0]
    /\ sibling_id       = [p \in Ends |-> 0]
    /\ send_queue       = [p \in Ends |-> {}]
    /\ reliable_packets = [p \in Ends |-> {}]
    /\ recv_seq         = [p \in Ends |-> 0]
    /\ recv_acks        = [p \in Ends |-> {}]
    /\ sibling_map      = [p \in Ends |-> {}]
    /\ avail_packets    = [p \in Ends |-> <<>>]
    /\ draining         = [p \in Ends |-> FALSE]
    /\ heard            = [p \in Ends |-> FALSE]
    /\ network          = {}
    /\ disconnecting    = [p \in Ends |-> FALSE]
    /\ wild             = [p \in Ends |-> FALSE]
    /\ sent             = [p \in Ends |-> <<>>]
    /\ delivered        = [p \in Ends |-> <<>>]
    /\ received         = [p \in Ends |-> {}]
    /\ discarded        = [p \in Ends |-> {}]

-----------------------------------------------------------------------------
(* Sending *)

(* How many packets of a message of size n find room in the send queue:    *)
(* addToSendQueue looks for room before each.  Mutant: it is looked for    *)
(* once, before the message is split.                                      *)
AcceptedAtOnce(p, n) ==
    IF Cardinality(send_queue[p]) < Capacity THEN Parts(n) ELSE 0
Accepted(p, n) ==
    Smaller(Parts(n), Capacity - Cardinality(send_queue[p]))

(* The id of the next sibling group.  Mutant: the id is not advanced.      *)
SameSiblingId(p) == sibling_id[p]
NextSiblingId(p) == sibling_id[p] + 1

(* The packets addToSendQueue takes: numbered from send_seq + 1 on, and,   *)
(* when the message was split, all of one sibling group.                   *)
NewMessage(p, n) ==
    [first |-> send_seq[p] + 1,
     sibs  |-> n,
     sibid |-> IF n = 0 THEN 0 ELSE NextSiblingId(p),
     kept  |-> Accepted(p, n)]
NewPacket(p, n, k) ==
    LET m == NewMessage(p, n) IN
    [seq |-> m.first + k, sibs |-> n, sibid |-> m.sibid, pos |-> k,
     body |-> <<Len(sent[p]) + 1, k>>]
NewPackets(p, n) == {NewPacket(p, n, k) : k \in 0..(Accepted(p, n) - 1)}

(* SendPacket: a part that finds no room is deleted on its own, without    *)
(* taking a number; a message that finds no room at all leaves no trace    *)
(* but the sibling id, and nobody is told.                                 *)
SendPacket(p, n) ==
    /\ send_seq' = [send_seq EXCEPT ![p] = @ + Accepted(p, n)]
    /\ sibling_id' = [sibling_id EXCEPT
          ![p] = IF n = 0 THEN @ ELSE NextSiblingId(p)]
    /\ sent' = IF Accepted(p, n) = 0 THEN sent
               ELSE [sent EXCEPT ![p] = Append(@, NewMessage(p, n))]

(* storeAcks: the acks still owed, in increasing order, are spread over    *)
(* the packets of a batch, at most MaxAcks on each.                        *)
AckRank(p, a) == Cardinality({b \in recv_acks[p] : b < a})
AcksOn(p, place) == {a \in recv_acks[p] : AckRank(p, a) \div MaxAcks = place}

(* batchSend on a responsive link: the packets in due and then the queue   *)
(* go out in sequence order; what was queued now awaits its ack.           *)
BatchSend(p, due, queue) ==
    LET out == due \union queue
        place(x) == Cardinality({y \in out : y.seq < x.seq})
    IN /\ network' = network \union
             {[to |-> Far(p), pkt |-> x, acks |-> AcksOn(p, place(x))] :
                x \in out}
       /\ recv_acks' = [recv_acks EXCEPT ![p] =
             {a \in @ : AckRank(p, a) \div MaxAcks >= Cardinality(out)}]
       /\ reliable_packets' = [reliable_packets EXCEPT ![p] = @ \union queue]
       /\ send_queue' = [send_queue EXCEPT ![p] = {}]

(* packets_for_event for an event of size n, Idle among them.              *)
MaySend(p, n) ==
    /\ ~draining[p]
    /\ Len(sent[p]) < MaxSend[p]
    /\ sibling_id[p] < MaxSend[p]
    /\ n \in Sizes

SendEvent(p, n) ==
    /\ MaySend(p, n)
    /\ SendPacket(p, n)
    /\ \E due \in SUBSET reliable_packets[p] :
          /\ Cardinality(due) <= Capacity
          /\ BatchSend(p, due, send_queue[p] \union NewPackets(p, n))
    /\ UNCHANGED <<receiver, draining, heard, disconnecting>>

(* The same when isUnresponsiveLink: the event is queued, nothing is sent  *)
(* and the link's target is sent a Disconnect.                             *)
SendUnresponsive(p, n) ==
    /\ MaySend(p, n)
    /\ heard[p] /\ reliable_packets[p] # {}
    /\ SendPacket(p, n)
    /\ send_queue' = [send_queue EXCEPT ![p] = @ \union NewPackets(p, n)]
    /\ disconnecting' = [disconnecting EXCEPT ![p] = TRUE]
    /\ UNCHANGED <<receiver, reliable_packets, recv_acks, draining, heard,
                   network>>

-----------------------------------------------------------------------------
(* Receiving *)

(* PacketAck for each ack on a datagram: what end p still keeps.  Mutant:  *)
(* an ack is taken to cover every packet before it too.                    *)
KeptCumulative(p, acks) ==
    {x \in reliable_packets[p] : \A a \in acks : x.seq > a}
KeptAfter(p, acks) == {x \in reliable_packets[p] : x.seq \notin acks}

Siblings(p, id) == {x \in sibling_map[p] : x.sibid = id}

(* allSiblingsAvailable for a group of n.  Mutant: one slot too many.      *)
CompleteOffByOne(group, n) == \A k \in 0..n : \E x \in group : x.pos = k
Complete(group, n) == \A k \in 0..(n - 1) : \E x \in group : x.pos = k

(* mergeSiblings: the packet info of the part at position 0, the payloads  *)
(* of all parts in position order.                                         *)
PartAt(group, k) == CHOOSE x \in group : x.pos = k
Merged(group, n) ==
    [seq  |-> PartAt(group, 0).seq,
     sibs |-> n,
     body |-> [k \in 1..n |-> PartAt(group, k - 1).body]]

(* The rest of PushRecvPacket, for a packet a that has been acknowledged.  *)
Whole(p, a) ==
    /\ a.sibs = 0
    /\ avail_packets' = [avail_packets EXCEPT ![p] = Append(@,
          [seq |-> a.seq, sibs |-> 0, body |-> <<a.body>>])]
    /\ UNCHANGED sibling_map

DuplicateSibling(p, a) ==
    /\ a.sibs > 0
    /\ \E x \in Siblings(p, a.sibid) : x.pos = a.pos
    /\ UNCHANGED <<avail_packets, sibling_map>>

FreshSibling(p, a) ==
    LET group == Siblings(p, a.sibid) \union {a} IN
    /\ a.sibs > 0
    /\ \A x \in Siblings(p, a.sibid) : x.pos # a.pos
    /\ IF Complete(group, a.sibs)
         THEN /\ avail_packets' = [avail_packets EXCEPT
                     ![p] = Append(@, Merged(group, a.sibs))]
              /\ sibling_map' = [sibling_map EXCEPT ![p] = @ \ group]
         ELSE /\ sibling_map' = [sibling_map EXCEPT ![p] = @ \union {a}]
              /\ UNCHANGED avail_packets

(* ReceivedBlock: a datagram arrives at end p.  The acks on it release     *)
(* packets, its own number is recorded to be acknowledged whatever happens *)
(* to it later, and it or its completed group becomes available.           *)
ReceivedBlock(p, d) ==
    /\ ~draining[p]
    /\ d \in network /\ d.to = p
    /\ Overtaking \/ 1..(d.pkt.seq - 1) \subseteq received[p]
    /\ network' = IF Duplicating THEN network ELSE network \ {d}
    /\ heard' = [heard EXCEPT ![p] = TRUE]
    /\ reliable_packets' = [reliable_packets EXCEPT
           ![p] = KeptAfter(p, d.acks)]
    /\ recv_acks' = [recv_acks EXCEPT ![p] = @ \union {d.pkt.seq}]
    /\ received' = [received EXCEPT ![p] = @ \union {d.pkt.seq}]
    /\ \/ Whole(p, d.pkt)
       \/ DuplicateSibling(p, d.pkt)
       \/ FreshSibling(p, d.pkt)
    /\ draining' = [draining EXCEPT ![p] = TRUE]
    /\ UNCHANGED <<sender, recv_seq, wild, delivered, discarded,
                   disconnecting>>

(* RecvPacket sorts avail_packets and pops the first.                      *)
Without(s, i) == [j \in 1..(Len(s) - 1) |-> IF j < i THEN s[j] ELSE s[j + 1]]
First(p, i) ==
    /\ draining[p]
    /\ i \in DOMAIN avail_packets[p]
    /\ \A j \in DOMAIN avail_packets[p] :
          avail_packets[p][i].seq <= avail_packets[p][j].seq

RecvRest == <<sender, sibling_map, received, reliable_packets, recv_acks,
              heard, network, disconnecting>>

RecvNothing(p) ==
    /\ draining[p] /\ avail_packets[p] = <<>>
    /\ draining' = [draining EXCEPT ![p] = FALSE]
    /\ UNCHANGED <<RecvRest, recv_seq, avail_packets, wild, delivered,
                   discarded>>

(* A packet already passed on is deleted.  If others are available the     *)
(* loop pops the next one without looking at it and then looks at the one  *)
(* after, which may not exist: what follows is not defined.                *)
RecvDuplicate(p) ==
    \E i \in DOMAIN avail_packets[p] :
      /\ First(p, i)
      /\ avail_packets[p][i].seq <= recv_seq[p]
      /\ avail_packets' = [avail_packets EXCEPT ![p] = Without(@, i)]
      /\ wild' = [wild EXCEPT ![p] = @ \/ Len(avail_packets[p]) > 1]
      /\ draining' = [draining EXCEPT ![p] = FALSE]
      /\ UNCHANGED <<RecvRest, recv_seq, delivered, discarded>>

(* recv_seq after a packet was passed on.  Mutant: a merged group counts   *)
(* for one number.                                                         *)
AdvancedByOne(seq, sibs) == seq + 1
Advanced(seq, sibs) == seq + Parts(sibs)

(* Mutant: any packet that is not old is passed on.                        *)
RecvNextLatest(p) ==
    \E i \in DOMAIN avail_packets[p] :
      LET pkt == avail_packets[p][i] IN
      /\ First(p, i)
      /\ pkt.seq > recv_seq[p]
      /\ avail_packets' = [avail_packets EXCEPT ![p] = Without(@, i)]
      /\ recv_seq' = [recv_seq EXCEPT ![p] = pkt.seq + Parts(pkt.sibs) - 1]
      /\ delivered' = [delivered EXCEPT ![p] = Append(@, pkt.body)]
      /\ UNCHANGED <<RecvRest, wild, draining, discarded>>
RecvNext(p) ==
    \E i \in DOMAIN avail_packets[p] :
      LET pkt == avail_packets[p][i] IN
      /\ First(p, i)
      /\ pkt.seq = recv_seq[p] + 1
      /\ avail_packets' = [avail_packets EXCEPT ![p] = Without(@, i)]
      /\ recv_seq' = [recv_seq EXCEPT ![p] = Advanced(@, pkt.sibs)]
      /\ delivered' = [delivered EXCEPT ![p] = Append(@, pkt.body)]
      /\ UNCHANGED <<RecvRest, wild, draining, discarded>>

(* A packet that is ahead of the sequence has been popped and is lost.     *)
(* Mutant: it stays available until its turn comes.                        *)
RecvAheadKept(p) ==
    \E i \in DOMAIN avail_packets[p] :
      /\ First(p, i)
      /\ avail_packets[p][i].seq > recv_seq[p] + 1
      /\ draining' = [draining EXCEPT ![p] = FALSE]
      /\ UNCHANGED <<RecvRest, recv_seq, avail_packets, wild, delivered,
                     discarded>>
RecvAhead(p) ==
    \E i \in DOMAIN avail_packets[p] :
      LET pkt == avail_packets[p][i] IN
      /\ First(p, i)
      /\ pkt.seq > recv_seq[p] + 1
      /\ avail_packets' = [avail_packets EXCEPT ![p] = Without(@, i)]
      /\ discarded' = [discarded EXCEPT
            ![p] = @ \union pkt.seq .. (pkt.seq + Parts(pkt.sibs) - 1)]
      /\ draining' = [draining EXCEPT ![p] = FALSE]
      /\ UNCHANGED <<RecvRest, recv_seq, wild, delivered>>

RecvPacket(p) ==
    RecvNothing(p) \/ RecvDuplicate(p) \/ RecvNext(p) \/ RecvAhead(p)

-----------------------------------------------------------------------------
Next ==
    \E p \in Ends :
      \/ \E n \in Sizes : SendEvent(p, n) \/ SendUnresponsive(p, n)
      \/ \E d \in network : ReceivedBlock(p, d)
      \/ RecvPacket(p)

Spec == Init /\ [][Next]_vars

(* The reactor keeps serving readable sockets, so on a network that loses  *)
(* nothing every datagram is received, and a drain loop runs to its end.   *)
Fairness ==
    \A p \in Ends :
      /\ WF_vars(\E d \in network : ReceivedBlock(p, d))
      /\ WF_vars(RecvPacket(p))

LiveSpec == Spec /\ Fairness

-----------------------------------------------------------------------------
(* Correctness *)

Packet == [seq : Nat, sibs : Nat, sibid : Nat, pos : Nat, body : Nat \X Nat]
Datagram == [to : Ends, pkt : Packet, acks : SUBSET Nat]
Available == [seq : Nat, sibs : Nat, body : Seq(Nat \X Nat)]
Message == [first : Nat, sibs : Nat, sibid : Nat, kept : Nat]

VariablesTyped ==
    /\ send_seq \in [Ends -> Nat]
    /\ sibling_id \in [Ends -> Nat]
    /\ send_queue \in [Ends -> SUBSET Packet]
    /\ reliable_packets \in [Ends -> SUBSET Packet]
    /\ recv_seq \in [Ends -> Nat]
    /\ recv_acks \in [Ends -> SUBSET Nat]
    /\ sibling_map \in [Ends -> SUBSET Packet]
    /\ avail_packets \in [Ends -> Seq(Available)]
    /\ draining \in [Ends -> BOOLEAN]
    /\ heard \in [Ends -> BOOLEAN]
    /\ network \subseteq Datagram
    /\ disconnecting \in [Ends -> BOOLEAN]
    /\ wild \in [Ends -> BOOLEAN]
    /\ sent \in [Ends -> Seq(Message)]
    /\ delivered \in [Ends -> Seq(Seq(Nat \X Nat))]
    /\ received \in [Ends -> SUBSET Nat]
    /\ discarded \in [Ends -> SUBSET Nat]

(* FixedSizePacketQueue: the send queue never outgrows its capacity, also  *)
(* when a message is split into more parts than there is room for.         *)
QueueBounded ==
    \A p \in Ends : /\ IsFiniteSet(send_queue[p])
                    /\ Cardinality(send_queue[p]) <= Capacity

(* The type of every variable, and the bound of the queue, which the code  *)
(* keeps in the queue's type.                                              *)
TypeOK == VariablesTyped /\ QueueBounded

(* What one end is given is what the other end sent, in the order it was   *)
(* sent, whole, without a gap and without a repetition, whatever the       *)
(* network does and however messages were split (RecvPacket, 307-333).     *)
InOrderExactlyOnce ==
    \A p \in Ends :
      /\ Len(delivered[p]) <= Len(sent[Far(p)])
      /\ \A i \in DOMAIN delivered[p] : delivered[p][i] = Payload(Far(p), i)

(* RecvPacket is never called with two packets available, so the loop that *)
(* removes duplicates never reaches the pop_front that discards a packet   *)
(* nobody looked at (CRUDP_Protocol.cpp:317-324).                          *)
NoBlindPop ==
    \A p \in Ends : ~wild[p] /\ Len(avail_packets[p]) <= 1

(* A packet the sender has stopped keeping for retransmission has arrived: *)
(* an ack never releases a packet the far end did not get (PacketAck).     *)
ForgottenWasReceived ==
    \A p \in Ends : \A s \in 1..send_seq[p] :
       s \in received[Far(p)] \union SeqsOf(send_queue[p])
              \union SeqsOf(reliable_packets[p])

Waiting(p) ==
    SeqsOf(sibling_map[p]) \union
    UNION {avail_packets[p][i].seq ..
             (avail_packets[p][i].seq + Parts(avail_packets[p][i].sibs) - 1) :
           i \in DOMAIN avail_packets[p]}

(* A packet that arrived was passed on, or waits for its siblings, or was  *)
(* dropped for being ahead of the sequence: nothing else loses a packet,   *)
(* and a merged group counts for all of its numbers (RecvPacket, 328-331). *)
ReceivedIsAccountedFor ==
    \A p \in Ends : \A s \in received[p] :
       s <= recv_seq[p] \/ s \in Waiting(p) \/ s \in discarded[p]

(* The comment above RecvPacket says that a packet is popped if it is the  *)
(* next one in the sequence, and the one at the head of the file that the  *)
(* next packet is passed on when available: so a packet that arrived and   *)
(* is acknowledged stays until its turn.  The code drops it.               *)
AcknowledgedIsKept ==
    \A p \in Ends : \A s \in received[Far(p)] :
       s \in SeqsOf(send_queue[p]) \union SeqsOf(reliable_packets[p])
       \/ s <= recv_seq[Far(p)] \/ s \in Waiting(Far(p))

(* The comment at the head of the file says that a packet numbered below   *)
(* what was already passed on is rejected before it is stored or joined.   *)
OldIsRejected ==
    \A p \in Ends : \A x \in sibling_map[p] : x.seq > recv_seq[p]

(* The link implements the FIFO channel: each direction yields what was    *)
(* put in.                                                                 *)
Channel == INSTANCE FifoChannel WITH
    offered  <- [p \in Ends |-> [i \in 1..Len(sent[p]) |-> Payload(p, i)]],
    obtained <- delivered
ImplementsChannel == Channel!Spec

(* On a network that neither loses nor reorders, every message is passed   *)
(* on at the far end, unless the link was declared dead meanwhile: no      *)
(* state of the receiver (a group, a recv_seq) blocks the sequence.        *)
EventuallyDelivered ==
    \A p \in Ends : \A i \in 1..MaxSend[p] :
       (Len(sent[p]) >= i) ~>
          (Len(delivered[Far(p)]) >= i \/ disconnecting[p])
==============================================================================
