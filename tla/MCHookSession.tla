---------------------------- MODULE MCHookSession ----------------------------
EXTENDS HookSession
=============================================================================
