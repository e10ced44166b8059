--------------------------- MODULE MCDeviceUplink ---------------------------
EXTENDS DeviceUplink

\* Neighbours across a carry, one more above them, and a string that is refused
\* because it would be packed into the integer of the second one.
Versions == {<<0, 99, 999>>, <<1, 0, 0>>, <<1, 0, 1>>, <<0, 100, 0>>}
Ranges == {<<<<0, 99, 999>>, <<1, 0, 0>>>>, <<<<1, 0, 0>>, None>>}
=============================================================================
