------------------------------ MODULE MCThreadpool ------------------------------
(* Two threads, one of them for slow works. *)
EXTENDS Threadpool

CONSTANTS t1, t2, loop, s1, s2, q1
MCWorker == {t1, t2}
MCSender == {t1, t2, loop}
================================================================================
