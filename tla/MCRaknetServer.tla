--------------------------- MODULE MCRaknetServer ---------------------------
\* Two endpoints, either of which two clients may claim one after the other.
EXTENDS RaknetServer
=============================================================================
