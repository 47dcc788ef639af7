------------------------------ MODULE MCBridge ------------------------------
EXTENDS Bridge

CONSTANTS s1, s2

\* One bridge on the command line.
OneArgument == <<s1>>
=============================================================================
