------------------------------- MODULE MCRuntime -------------------------------
(* An instance of Runtime small enough for TLC: two engines of one user    *)
(* contend for the lock.                                                   *)
EXTENDS Runtime

MCClientOf == [loop |-> "e1", m5 |-> "e1"]
MCOneUser == [e1 |-> "trader", e2 |-> "trader"]
=============================================================================
