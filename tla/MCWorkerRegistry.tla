-------------------------- MODULE MCWorkerRegistry --------------------------
(***************************************************************************)
(* WorkerRegistry for TLC.  A tick is 30 s: heartbeatTimeout is two ticks, *)
(* workerCleanupInterval one.  Modulus stands for 2^32, which is beyond    *)
(* TLC's integers: what matters is that one less than zero is far above    *)
(* every count that routers can make.                                      *)
(***************************************************************************)
EXTENDS WorkerRegistry, TLC

IdleReport == [routerCount |-> 0, cpu |-> 0, mem |-> 0]
HeavyReport == [routerCount |-> 100, cpu |-> 60, mem |-> 50]

OneReport == {IdleReport}
BothReports == {IdleReport, HeavyReport}

Symmetry == Permutations(Workers) \cup Permutations(Objs)
                \cup Permutations(Conns) \cup Permutations(Routers)
=============================================================================
