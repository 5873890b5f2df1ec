---------------------------- MODULE MCBenchmark -----------------------------
(* Small instances of Benchmark: two workers, a schedule of two intervals, a *)
(* latency log that overflows, and two runs without a schedule.              *)
EXTENDS Benchmark

Config(i, n, r, l) == [intervals |-> i, runs |-> n, requests |-> r, log |-> l]

MCConfigs == { Config(2, 1, 1, TRUE), Config(0, 2, 2, FALSE), Config(0, 1, 1, TRUE) }
TwoScheduledRuns == { Config(2, 2, 1, FALSE) }

=============================================================================
