---------------------------- MODULE MCUsbDevice ----------------------------
(***************************************************************************)
(* The devices that UsbDevice is checked with: keyboards alone and         *)
(* composite devices, with the endpoints in either order and interfaces    *)
(* that share the number of an endpoint.                                   *)
(***************************************************************************)
EXTENDS UsbDevice

Keyboard(in, out) == [keyboard |-> TRUE, in |-> in, out |-> out]
Other(in, out) == [keyboard |-> FALSE, in |-> in, out |-> out]

MCKinds ==
  { <<Keyboard({1}, {1})>>, <<Keyboard({2}, {})>>, <<Other({1}, {2})>>,
    <<Keyboard({1}, {}), Other({2}, {1})>>, <<Other({1}, {}), Keyboard({2}, {})>>,
    <<Keyboard({1}, {2}), Keyboard({2}, {})>>, <<Other({}, {1}), Keyboard({1}, {})>>,
    <<Keyboard({2}, {}), Keyboard({2}, {})>> }
=============================================================================
