------------------------- MODULE MCControlSocket -------------------------
\* ControlSocket on the instances that the MCControlSocket_*.cfg give.
EXTENDS ControlSocket
=============================================================================
