----------------------------- MODULE MCNitroSync -----------------------------
EXTENDS NitroSync, MCRequests
=============================================================================
