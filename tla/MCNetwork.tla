----------------------------- MODULE MCNetwork -----------------------------
(* A ring of 36 bytes, and packets of 10, 13 and 18 bytes with the header. *)
EXTENDS Network

CONSTANTS me, ann, bob

Arp(opcode, from, mac, to) ==
  [len |-> 9, dst |-> me, src |-> from, type |-> "ARP", opcode |-> opcode,
   src_mac_addr |-> mac, src_ip_addr |-> mac, dst_mac_addr |-> me, dst_ip_addr |-> to]

MCPackets ==
  {[length |-> 9, receive_ok |-> TRUE, frame |-> Arp("request", ann, ann, me)],
   [length |-> 14, receive_ok |-> TRUE, frame |-> Arp("request", ann, bob, me)],
   [length |-> 9, receive_ok |-> TRUE, frame |-> Arp("request", ann, ann, bob)],
   [length |-> 6, receive_ok |-> TRUE, frame |-> [type |-> "IPv4"]],
   [length |-> 6, receive_ok |-> FALSE, frame |-> [type |-> "IPv4"]]}
=============================================================================
