----------------------------- MODULE MCTicketDesk -----------------------------
\* A small instance of TicketDesk for TLC.
EXTENDS TicketDesk
==============================================================================
