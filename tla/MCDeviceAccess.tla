--------------------------- MODULE MCDeviceAccess ---------------------------
EXTENDS DeviceAccess, TLC

\* Requests of one kind are interchangeable.
Slots == Permutations(Admin) \cup Permutations(Conn)
=============================================================================
