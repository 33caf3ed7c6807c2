------------------------------ MODULE MCSgxSync ------------------------------
EXTENDS SgxSync, MCRequests
=============================================================================
