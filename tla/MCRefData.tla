----------------------------- MODULE MCRefData -----------------------------
EXTENDS RefData
=============================================================================
