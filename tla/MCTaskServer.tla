---------------------------- MODULE MCTaskServer ----------------------------
EXTENDS TaskServer

CONSTANTS q1, q2, t1, c1, other
=============================================================================
