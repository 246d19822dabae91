--------------------------- MODULE MCOneBotManager ---------------------------
EXTENDS OneBotManager
=============================================================================
