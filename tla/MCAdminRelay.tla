----------------------------- MODULE MCAdminRelay -----------------------------
EXTENDS AdminRelay
=============================================================================
