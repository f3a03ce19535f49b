-------------------------- MODULE MCThreadServer --------------------------
(* Two threads, and two jobs of any kind with up to two containers each, on  *)
(* one thread or on two.                                                     *)
EXTENDS ThreadServer

MCSizes == 0..2
===========================================================================
