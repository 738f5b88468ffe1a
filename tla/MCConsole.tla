------------------------------ MODULE MCConsole ------------------------------
EXTENDS Console

TwoSlots == 1 .. 2
=============================================================================
