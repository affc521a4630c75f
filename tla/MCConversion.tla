---- MODULE MCConversion ----
EXTENDS Conversion
\* Every reading, with every value of the two bits behind it.
MCPads == 0 .. 3
=============================================================================
