------------------------------- MODULE MCKeys -------------------------------
EXTENDS Keys

\* Every byte of one, the control characters included.
Latin == 1 .. 255
=============================================================================
