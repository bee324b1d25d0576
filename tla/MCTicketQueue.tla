--------------------------- MODULE MCTicketQueue ---------------------------
EXTENDS TicketQueue
=============================================================================
