------------------------------ MODULE MCScope -------------------------------
EXTENDS Scope, MCPrograms
=============================================================================
