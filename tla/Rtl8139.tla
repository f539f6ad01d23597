------------------------------ MODULE Rtl8139 ------------------------------
(***************************************************************************)
(* The network card and its driver (rtl8139/rtl8139.cpp).  The card writes *)
(* the packets it receives one behind the other into a ring of bytes, each *)
(* after a header of four bytes that gives its length, and each on a       *)
(* boundary of four bytes; the driver copies them out and tells the card   *)
(* in CAPR how far it has come.  The driver sends from four buffers, taken *)
(* in turn, and waits for the card to be done with each.                   *)
(*                                                                         *)
(* A byte of the ring is a pair <<k, i>>: byte i of the k-th packet, the   *)
(* bytes 0 .. 3 being the header.                                          *)
(***************************************************************************)
EXTENDS Integers, Sequences

CONSTANTS
  RxSize,         \* rx_buffer_size_
  MaxPacketSize,  \* max_packet_size_
  MaxArrivals     \* bound: packets that arrive

Word == 65536     \* the registers and rx_offset_ have 16 bits
Header == 4
CRC == 4
CAPRGap == 16

ASSUME RtlAssumption ==
  /\ RxSize \in Nat \ {0} /\ RxSize % 4 = 0 /\ RxSize < Word
  /\ MaxPacketSize \in Nat
  /\ MaxArrivals \in Nat

VARIABLES
  arrived,   \* history: the packets the card has put into the ring,
  handled,   \* how many of them the driver has taken out,
  wire,      \* the frames the card has sent
  late,      \* and whether it set own before transmit_ok
  rx_buffer,
  current_buffer_address,
  current_address_of_packet_read,
  rx_offset_,
  packet,    \* the copy ReceivePacket makes
  tx_buffers_, own, transmit_ok,
  current_tx_buffer_,
  out,       \* the argument of SendPacket
  pc         \* where the driver is

receiving == <<rx_buffer, current_buffer_address, current_address_of_packet_read, rx_offset_>>
sending == <<tx_buffers_, own, transmit_ok, current_tx_buffer_, wire, late>>

Unused == <<0, 0>>
NoFrame == [len |-> 0]
TxBuffers == 0 .. 3

\* Controller::Initialize, with the registers as the reset leaves them and a receive buffer
\* below 4 GiB: above, it returns -1 before it sets the rings up, which network.cpp:23 ignores.
RtlInit ==
  /\ arrived = <<>> /\ handled = 0 /\ wire = <<>> /\ late = FALSE
  /\ rx_buffer = [b \in 0 .. RxSize - 1 |-> Unused]
  /\ current_buffer_address = 0
  /\ current_address_of_packet_read = Word - CAPRGap
  /\ rx_offset_ = 0
  /\ packet = <<>>
  /\ tx_buffers_ = [i \in TxBuffers |-> NoFrame]
  /\ own = [i \in TxBuffers |-> TRUE]
  /\ transmit_ok = [i \in TxBuffers |-> FALSE]
  /\ current_tx_buffer_ = 0
  /\ out = NoFrame

-----------------------------------------------------------------------------
(* The card.                                                               *)

AlignUp(n) == ((n + 3) \div 4) * 4

ReadPosition == ((current_address_of_packet_read + CAPRGap) % Word) % RxSize

buffer_empty == current_buffer_address = ReadPosition

\* The ring is never filled up, which would look like an empty one.
HasRoom(p) ==
  LET free == IF buffer_empty THEN RxSize
              ELSE (ReadPosition - current_buffer_address) % RxSize
  IN AlignUp(Header + p.length) < free

\* A packet for which there is no room is lost.
CardReceives(p) ==
  /\ Len(arrived) < MaxArrivals /\ HasRoom(p)
  /\ arrived' = Append(arrived, p)
  /\ rx_buffer' = [b \in 0 .. RxSize - 1 |->
                     LET i == (b - current_buffer_address) % RxSize
                     IN IF i < Header + p.length THEN <<Len(arrived) + 1, i>> ELSE rx_buffer[b]]
  /\ current_buffer_address' = (current_buffer_address + AlignUp(Header + p.length)) % RxSize
  /\ UNCHANGED <<handled, current_address_of_packet_read, rx_offset_, packet, sending, out, pc>>

\* The card has taken a frame from its buffer, and has sent it or soon will have.
CardSends(i) ==
  /\ ~own[i]
  /\ wire' = Append(wire, tx_buffers_[i])
  /\ own' = [own EXCEPT ![i] = TRUE]
  /\ \E ok \in BOOLEAN : transmit_ok' = [transmit_ok EXCEPT ![i] = ok] /\ late' = (late \/ ~ok)
  /\ UNCHANGED <<arrived, handled, receiving, packet, tx_buffers_, current_tx_buffer_, out, pc>>

CardConfirms(i) ==
  /\ own[i] /\ ~transmit_ok[i] /\ tx_buffers_[i] # NoFrame
  /\ transmit_ok' = [transmit_ok EXCEPT ![i] = TRUE]
  /\ UNCHANGED <<arrived, handled, receiving, packet, tx_buffers_, own, current_tx_buffer_,
                 wire, late, out, pc>>

-----------------------------------------------------------------------------
(* ReceivePacket.                                                          *)

\* The packet whose header is at rx_offset_.
ReceivedPacket == arrived[rx_buffer[rx_offset_][1]]

\* Halt, when the header says that something was wrong with the packet.
Poll ==
  /\ pc = "poll" /\ ~buffer_empty
  /\ pc' = IF ReceivedPacket.receive_ok THEN "copy" ELSE "halted"
  /\ UNCHANGED <<arrived, handled, receiving, packet, sending, out>>

\* Bytes from .. from + n - 1 of the buffer.
Bytes(from, n) == [i \in 1 .. n |-> rx_buffer[from + i - 1]]

\* The data without the CRC, in two parts when the ring ends before them.
Copied ==
  LET pkt_size == ReceivedPacket.length - CRC
      semi_count == RxSize - rx_offset_ - Header
  IN IF rx_offset_ + ReceivedPacket.length > RxSize
     THEN Bytes(rx_offset_ + Header, semi_count) \o Bytes(0, pkt_size - semi_count)
     ELSE Bytes(rx_offset_ + Header, pkt_size)

Copy ==
  /\ pc = "copy"
  /\ packet' = Copied
  /\ pc' = "release"
  /\ UNCHANGED <<arrived, handled, receiving, sending, out>>

NextOffset == AlignUp(rx_offset_ + ReceivedPacket.length + Header) % RxSize

\* Fault: the register gets the offset itself.
CAPROfItself(offset) == offset

CAPR(offset) == (offset - CAPRGap) % Word

Release ==
  /\ pc = "release"
  /\ rx_offset_' = NextOffset
  /\ current_address_of_packet_read' = CAPR(NextOffset)
  /\ handled' = handled + 1
  /\ pc' = "handle"
  /\ UNCHANGED <<arrived, rx_buffer, current_buffer_address, packet, sending, out>>

-----------------------------------------------------------------------------
(* SendPacket.                                                             *)

CopyToTxBuffer ==
  /\ pc = "send"
  /\ IF out.len > MaxPacketSize
     THEN pc' = "halted" /\ UNCHANGED tx_buffers_
     ELSE /\ tx_buffers_' = [tx_buffers_ EXCEPT ![current_tx_buffer_] = out]
          /\ pc' = "start"
  /\ UNCHANGED <<arrived, handled, receiving, packet, own, transmit_ok, current_tx_buffer_,
                 wire, late, out>>

Start ==
  /\ pc = "start"
  /\ own' = [own EXCEPT ![current_tx_buffer_] = FALSE]
  /\ transmit_ok' = [transmit_ok EXCEPT ![current_tx_buffer_] = FALSE]
  /\ pc' = "wait"
  /\ UNCHANGED <<arrived, handled, receiving, packet, tx_buffers_, current_tx_buffer_,
                 wire, late, out>>

\* Fault: the card is not waited for.
WaitForNothing ==
  /\ pc = "wait"
  /\ current_tx_buffer_' = (current_tx_buffer_ + 1) % 4
  /\ pc' = "poll"
  /\ UNCHANGED <<arrived, handled, receiving, packet, tx_buffers_, own, transmit_ok,
                 wire, late, out>>

\* The loop on own, and then the test of transmit_ok.
Wait ==
  /\ pc = "wait" /\ own[current_tx_buffer_]
  /\ \/ /\ transmit_ok[current_tx_buffer_]
        /\ current_tx_buffer_' = (current_tx_buffer_ + 1) % 4
        /\ pc' = "poll"
     \/ /\ ~transmit_ok[current_tx_buffer_]
        /\ pc' = "halted"
        /\ UNCHANGED current_tx_buffer_
  /\ UNCHANGED <<arrived, handled, receiving, packet, tx_buffers_, own, transmit_ok,
                 wire, late, out>>

RtlDriver == Poll \/ Copy \/ Release \/ CopyToTxBuffer \/ Start \/ Wait
RtlSends == \E i \in TxBuffers : CardSends(i)

-----------------------------------------------------------------------------
(* What the driver promises, whatever is sent and received.                *)

\* The room that the first n packets take in the ring, one behind the other.
RoomFor(packets) ==
  LET room[n \in 0 .. Len(packets)] ==
        IF n = 0 THEN 0 ELSE room[n - 1] + AlignUp(Header + packets[n].length)
  IN room

\* Where the k-th packet starts.
StartOf(k) == RoomFor(arrived)[k - 1] % RxSize

\* The card never writes over a packet that the driver has not taken out yet, however
\* the two interleave and wherever the ring wraps: they agree on how much of it is
\* free, through an offset of 16 bits that is 16 below (rtl8139.cpp:154).
UnreadKept ==
  \A k \in handled + 1 .. Len(arrived) :
    \A i \in 0 .. Header + arrived[k].length - 1 :
      rx_buffer[(StartOf(k) + i) % RxSize] = <<k, i>>

\* The driver finds the header of the next packet where it looks for it, and in one
\* piece: lengths are rounded as the card rounds them (rtl8139.cpp:150).
HeaderFound ==
  pc \in {"poll", "copy", "release"} =>
    /\ buffer_empty = (handled = Len(arrived))
    /\ ~buffer_empty => \A i \in 0 .. Header - 1 :
         rx_offset_ + i < RxSize /\ rx_buffer[rx_offset_ + i] = <<handled + 1, i>>

\* What ReceivePacket returns is the data of the packet, byte for byte, also when the
\* end of the ring lies in the packet, right behind its header or in its CRC.
PacketsIntact ==
  pc = "handle" =>
    packet = [i \in 1 .. arrived[handled].length - CRC |-> <<handled, Header + i - 1>>]
=============================================================================
