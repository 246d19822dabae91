---------------------------- MODULE MCQqHookClient ----------------------------
EXTENDS QqHookClient
===============================================================================
