----------------------------- MODULE MCBenchmark -----------------------------
(* Small instances of Benchmark.                                            *)
EXTENDS Benchmark

\* Two algorithms, one of them named twice.
TwoAlgs == <<"cc", "pagerank_updating", "cc">>

WideWorkloads == {w \in [batches : 1 .. 24, epochs : 1 .. 24] : w.epochs <= w.batches}
=============================================================================
