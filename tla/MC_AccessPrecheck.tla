------------------------- MODULE MC_AccessPrecheck -------------------------
EXTENDS AccessPrecheck, TLC

CONSTANTS t1, t2, t3, f1, f2, f3, o1, o2

MC_Threads3 == {t1, t2, t3}
MC_Threads2 == {t1, t2}
MC_Files == {f1, f2, f3}
MC_Objs == {o1, o2}

\* The daemon's usage: each thread opens the ignore device once.
MC_OwnerOnce == (f1 :> t1) @@ (f2 :> t2) @@ (f3 :> t3)

\* A thread that opens the ignore device twice, and a second thread.
MC_OwnerTwice == (f1 :> t1) @@ (f2 :> t1) @@ (f3 :> t2)
=============================================================================
