-------------------------- MODULE MCSessionTickets --------------------------
EXTENDS SessionTickets

CONSTANTS j1, j2
=============================================================================
