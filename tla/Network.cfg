SPECIFICATION NetworkSpec
CONSTANTS
  RxSize = 36
  MaxPacketSize = 12
  MaxArrivals = 5
  Packets <- MCPackets
  me = me
  ann = ann
  bob = bob
  MyMac = me
  MyIp = me
  Broadcast = broadcast
  Unknown = unknown
  Gateway = gateway
  ArpLen = 9
INVARIANTS
  PacketsTaken
  WireInOrder
PROPERTIES
  RequestsAnswered
CHECK_DEADLOCK FALSE
