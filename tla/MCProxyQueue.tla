---------------------------- MODULE MCProxyQueue ----------------------------
(* Instances of ProxyQueue for TLC. *)
EXTENDS ProxyQueue, TLC

CONSTANTS t1, t2, t3, w1, w2

ThreeTasks == {t1, t2, t3}
TwoTasks   == {t1, t2}
NoTasks    == {}
OneTask    == {t1}
SecondTask == {t2}
OneWorker  == {w1}
TwoWorkers == {w1, w2}
WorkerSymmetry == Permutations(TwoWorkers)
=============================================================================
