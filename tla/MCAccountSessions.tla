--------------------------- MODULE MCAccountSessions ---------------------------
EXTENDS AccountSessions, TLC
================================================================================
