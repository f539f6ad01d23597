------------------------------ MODULE Network ------------------------------
(***************************************************************************)
(* The network manager and its protocols (network/*.cpp) on top of the     *)
(* network card: it asks for the address of a host, and then takes packets *)
(* from the card for ever, one after the other, and answers the ARP        *)
(* requests for its own address.  Only the ARP layer has something to do;  *)
(* IP and TCP look at their headers and are done.                          *)
(***************************************************************************)
EXTENDS Rtl8139, SequencesExt

CONSTANTS
  Packets,   \* what may arrive: a length, a header and a frame
  MyMac, MyIp,
  Broadcast, Unknown,
  Gateway,   \* the host Initialize asks for
  ArpLen     \* the length of a frame with an ARP payload

\* The length of a packet counts its CRC, which a frame always has data before.
ASSUME NetworkAssumption ==
  \A p \in Packets :
    p.length \in Nat /\ p.length > CRC /\ p.receive_ok \in BOOLEAN

VARIABLES
  nic_       \* RTL8139Initialize has found a card

networkVars == <<arrived, handled, receiving, packet, sending, out, pc, nic_>>

NetworkInit ==
  /\ RtlInit
  /\ nic_ \in BOOLEAN
  /\ pc = "init"

\* A frame as arp.cpp and ethernet::SendPacket put it together.
ArpFrame(dst_mac, opcode, src_ip, dst_mac_addr, dst_ip) ==
  [len |-> ArpLen, dst |-> dst_mac, src |-> MyMac, type |-> "ARP", opcode |-> opcode,
   src_mac_addr |-> MyMac, src_ip_addr |-> src_ip,
   dst_mac_addr |-> dst_mac_addr, dst_ip_addr |-> dst_ip]

SendRequest == ArpFrame(Broadcast, "request", MyIp, Unknown, Gateway)

\* network::Initialize.  Without a card the first packet is sent through a null
\* pointer.
Initialize ==
  /\ pc = "init"
  /\ IF nic_ THEN out' = SendRequest /\ pc' = "send"
     ELSE pc' = "undefined" /\ UNCHANGED out
  /\ UNCHANGED <<arrived, handled, receiving, packet, sending, nic_>>

SendReply(request) ==
  ArpFrame(request.src_mac_addr, "reply", request.dst_ip_addr,
           request.src_mac_addr, request.src_ip_addr)

\* The packets HandlePacket answers; it lets all the others pass.
IsRequestForMe(frame) ==
  frame.type = "ARP" /\ frame.opcode = "request" /\ frame.dst_ip_addr = MyIp

\* The frame that the bytes of the copy make up.
Frame == arrived[packet[1][1]].frame

\* Fault: an answer that has just been given is not given again.
HandlePacketOnce ==
  /\ pc = "handle"
  /\ IF IsRequestForMe(Frame) /\ out # SendReply(Frame)
     THEN out' = SendReply(Frame) /\ pc' = "send"
     ELSE pc' = "poll" /\ UNCHANGED out
  /\ UNCHANGED <<arrived, handled, receiving, packet, sending, nic_>>

\* ethernet::HandlePacket, down to the reply that the ARP layer sends.
HandlePacket ==
  /\ pc = "handle"
  /\ IF IsRequestForMe(Frame) THEN out' = SendReply(Frame) /\ pc' = "send"
     ELSE pc' = "poll" /\ UNCHANGED out
  /\ UNCHANGED <<arrived, handled, receiving, packet, sending, nic_>>

Driver == Initialize \/ HandlePacket \/ (RtlDriver /\ UNCHANGED nic_)

Card ==
  /\ pc \notin {"init", "undefined"}
  /\ \/ \E p \in Packets : CardReceives(p)
     \/ RtlSends
     \/ \E i \in TxBuffers : CardConfirms(i)
  /\ UNCHANGED nic_

NetworkNext == Driver \/ Card

\* The loop of Initialize never ends, and the card sends what it is given.
Fairness == WF_networkVars(Driver) /\ WF_networkVars(RtlSends /\ UNCHANGED nic_)

NetworkSpec == NetworkInit /\ [][NetworkNext]_networkVars /\ Fairness

-----------------------------------------------------------------------------

\* The type invariant.
NetworkTypeOK ==
  /\ arrived \in Seq(Packets) /\ Len(arrived) <= MaxArrivals
  /\ handled \in 0 .. Len(arrived)
  /\ rx_buffer \in [0 .. RxSize - 1 -> (0 .. MaxArrivals) \X Nat]
  /\ {current_buffer_address, rx_offset_} \subseteq 0 .. RxSize - 1
  /\ current_address_of_packet_read \in 0 .. Word - 1
  /\ own \in [TxBuffers -> BOOLEAN] /\ transmit_ok \in [TxBuffers -> BOOLEAN]
  /\ current_tx_buffer_ \in TxBuffers
  /\ {nic_, late} \subseteq BOOLEAN
  /\ pc \in {"init", "poll", "copy", "release", "handle", "send", "start", "wait",
             "halted", "undefined"}

\* What should go out for the first n packets.
Answers(packets) ==
  LET IsRequest(f) == f.type = "ARP" /\ f.opcode = "request" /\ f.dst_ip_addr = MyIp
      Reply(f) == ArpFrame(f.src_mac_addr, "reply", MyIp, f.src_mac_addr, f.src_ip_addr)
      answers[n \in 0 .. Len(packets)] ==
        IF n = 0 THEN <<SendRequest>>
        ELSE IF IsRequest(packets[n].frame)
             THEN Append(answers[n - 1], Reply(packets[n].frame))
             ELSE answers[n - 1]
  IN answers

\* On the wire there is first the request for the gateway and then one reply for each
\* request for this machine, in the order in which they came, each sent whole from
\* its buffer: nothing twice, nothing for other hosts, nothing half overwritten.
WireInOrder == IsPrefix(wire, Answers(arrived)[handled])

\* Every request for this machine that the card has taken is answered, unless the
\* driver has halted by then: on a packet whose header reports an error
\* (rtl8139.cpp:124), or because the card gave a buffer back before it reported that
\* the packet was sent (rtl8139.cpp:182).
RequestsAnswered ==
  \A k \in 1 .. MaxArrivals :
    (Len(arrived) >= k) ~>
      /\ Len(arrived) >= k
      /\ \/ Len(wire) >= Len(Answers(arrived)[k])
         \/ late
         \/ \E j \in 1 .. k : ~arrived[j].receive_ok

\* What the card puts into its ring is what the driver takes out.
PacketsTaken == NetworkTypeOK /\ UnreadKept /\ HeaderFound /\ PacketsIntact
=============================================================================
