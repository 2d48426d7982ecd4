------------------------------ MODULE MCMonitor ------------------------------
EXTENDS Monitor

CONSTANT h1

OneHandler == {h1}
=============================================================================
