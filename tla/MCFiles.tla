------------------------------- MODULE MCFiles -------------------------------
EXTENDS Files
=============================================================================
