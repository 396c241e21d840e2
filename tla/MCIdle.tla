------------------------------- MODULE MCIdle -------------------------------
EXTENDS Idle
=============================================================================
