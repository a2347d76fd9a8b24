------------------------------ MODULE MCLogScreen ------------------------------
EXTENDS LogScreen
=============================================================================
