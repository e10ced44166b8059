--------------------------- MODULE MCDeviceShadow ---------------------------
EXTENDS DeviceShadow, TLC

Symmetry == Permutations(Key) \cup Permutations(Value) \cup Permutations(Admin)
=============================================================================
