------------------------- MODULE MCDeviceReadBuffer -------------------------
(* DeviceReadBuffer with a ring of a few packets.                          *)
EXTENDS DeviceReadBuffer

SomeCounts == {1, 3}
OneCount == {3}
=============================================================================
