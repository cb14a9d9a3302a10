------------------------- MODULE MCDirectorySession -------------------------
\* DirectorySession on the instances that the MCDirectorySession_*.cfg give.
EXTENDS DirectorySession
=============================================================================
