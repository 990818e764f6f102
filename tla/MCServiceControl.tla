--------------------------- MODULE MCServiceControl ---------------------------
EXTENDS ServiceControl
=============================================================================
