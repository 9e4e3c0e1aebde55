------------------------------- MODULE MCShell -------------------------------
EXTENDS ShellSpec, TLC
=============================================================================
