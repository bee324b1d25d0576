----------------------------- MODULE MCMemMove -----------------------------
EXTENDS MemMove
=============================================================================
