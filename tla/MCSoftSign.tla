---------------------- MODULE MCSoftSign ----------------------
EXTENDS SoftSign, MCRequests
=============================================================================
