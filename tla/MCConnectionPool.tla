-------------------------- MODULE MCConnectionPool --------------------------
(***************************************************************************)
(* Instances of ConnectionPool.                                            *)
(***************************************************************************)
EXTENDS ConnectionPool

CONSTANTS t1, t2, t3

ThreeThreads == {t1, t2, t3}

=============================================================================
