---- MODULE MCUddControl ----
EXTENDS UddControl
Rq(n, d, l, s, k, a) == [name |-> n, dir |-> d, wLength |-> l, size |-> s, ok |-> k, address |-> a]
SetAddress    == Rq("SET_ADDRESS", "out", 0, 0, TRUE, 1)
GetDescriptor == Rq("GET_DESCRIPTOR", "in", 64, 18, TRUE, 0)
SetReport     == Rq("SET_REPORT", "out", 4, 0, FALSE, 0)
\* Answers that end in a short packet, in a full one, and in one that needs an
\* empty one after it; one longer than asked for.
Reads == { GetDescriptor, Rq("GET_DESCRIPTOR", "in", 8, 8, TRUE, 0),
           Rq("VENDOR", "in", 16, 8, TRUE, 0), Rq("VENDOR", "in", 4, 8, TRUE, 0) }
\* Data that fits, that fills the payload and goes on, that exceeds it in its first
\* packet, and that has no payload (SET_IDLE does not look at wLength).
Writes == { Rq("SET_FEATURE_REPORT", "out", 4, 4, TRUE, 0), Rq("SET_INPUT_REPORT", "out", 12, 8, TRUE, 0),
            Rq("SET_INPUT_REPORT", "out", 12, 4, TRUE, 0), Rq("SET_IDLE", "out", 0, 0, TRUE, 0) }
Refused == { Rq("GET_INTERFACE", "in", 1, 1, FALSE, 0), Rq("SET_FEATURE", "out", 0, 0, FALSE, 0), SetReport }

MCRequests == Reads \cup Writes \cup Refused \cup {SetAddress}
MCFewRequests == {SetAddress, GetDescriptor, SetReport}
NoLoss == {}
InOut == {"in", "out"}
=============================================================================
