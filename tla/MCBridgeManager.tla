--------------------------- MODULE MCBridgeManager ---------------------------
EXTENDS BridgeManager
=============================================================================
