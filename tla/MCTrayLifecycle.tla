--------------------------- MODULE MCTrayLifecycle ---------------------------
EXTENDS TrayLifecycle
=============================================================================
