--------------------------- MODULE MCServiceCache ---------------------------
EXTENDS ServiceCache
CONSTANTS evaluation, workspace, archive, p1
=============================================================================
