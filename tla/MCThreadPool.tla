---------------------------- MODULE MCThreadPool ----------------------------
(* ThreadPool on small instances: model values for the threads and the jobs.*)
EXTENDS ThreadPoolImplementsJobPool, TLC

CONSTANTS w1, w2, w3, a, b, k, c1, c2

WorkerSymmetry == Permutations(Workers)
=============================================================================
