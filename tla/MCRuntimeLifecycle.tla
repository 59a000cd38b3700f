--------------------------- MODULE MCRuntimeLifecycle ---------------------------
EXTENDS RuntimeLifecycle
=============================================================================
