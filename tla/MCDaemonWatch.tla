----------------------------- MODULE MCDaemonWatch -----------------------------
EXTENDS DaemonWatch
=============================================================================
