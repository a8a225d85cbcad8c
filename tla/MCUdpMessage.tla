----------------------------- MODULE MCUdpMessage ----------------------------
(* Instances of UdpMessage for TLC.                                        *)
EXTENDS UdpMessage

\* Up to LenMod = 4 units; units could be taken for tags and lengths.
SomeStrings == {<<>>, <<1>>, <<2, 1>>, <<1, 0, 2>>, <<0, 1, 2, 1>>}
=============================================================================
