--------------------------- MODULE MCOnlineClient ---------------------------
EXTENDS OnlineClient
=============================================================================
