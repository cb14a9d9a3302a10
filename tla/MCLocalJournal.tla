------------------------- MODULE MCLocalJournal -------------------------
\* LocalJournal on the instances that the MCLocalJournal_*.cfg give.
EXTENDS LocalJournal
=============================================================================
