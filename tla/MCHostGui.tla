---- MODULE MCHostGui ----
EXTENDS HostGui
CONSTANTS v1, th2
\* A device of each kind.
MCDevices == {v1, th2}
MCKind == [x \in MCDevices |-> IF x = v1 THEN 1 ELSE 2]
=============================================================================
