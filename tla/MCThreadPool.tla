--------------------------- MODULE MCThreadPool ---------------------------
EXTENDS ThreadPool
=============================================================================
