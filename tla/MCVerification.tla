--------------------------- MODULE MCVerification ---------------------------
(* Small instances of Verification: two or three clients over a handful of    *)
(* keys, and files of two and three items.                                    *)
EXTENDS Verification

Plain ==
    [clients |-> 2, runs |-> 1, pipeline |-> 1, requests |-> 3, ratio |-> << 1, 1 >>,
     wait |-> 0, multi |-> 0, interval |-> 0, unset |-> {0}, garbage |-> 0, minimum |-> 0, maximum |-> 3,
     set |-> "S", get |-> "S", generate |-> TRUE, distinct |-> FALSE,
     allkeys |-> FALSE, draws |-> << 2, 0, 1 >>, file |-> << >>]

Item(k, v) == [key |-> k, value |-> v]

\* Every key written once, and one of the items twice.
Two   == << Item(11, "v1"), Item(12, "v2") >>
Three == << Item(11, "v1"), Item(12, "v2"), Item(11, "v3") >>

Parallel == [Plain EXCEPT !.set = "P", !.get = "P", !.allkeys = TRUE, !.ratio = << 1, 0 >>]
Imported == [Plain EXCEPT !.generate = FALSE, !.file = Two]

MCConfigs ==
    { \* the keys of a range
      [Plain EXCEPT !.allkeys = TRUE, !.minimum = 1, !.ratio = << 1, 2 >>],
      Parallel, [Parallel EXCEPT !.maximum = 4], [Parallel EXCEPT !.clients = 3, !.maximum = 4],
      [Parallel EXCEPT !.clients = 3, !.maximum = 6], [Parallel EXCEPT !.get = "S", !.ratio = << 1, 1 >>],
      [Parallel EXCEPT !.runs = 2],
      [Parallel EXCEPT !.allkeys = FALSE, !.runs = 2, !.requests = 2, !.interval = 2],
      [Parallel EXCEPT !.unset = {0, 1, 7}, !.pipeline = 2],
      [Plain EXCEPT !.allkeys = TRUE, !.multi = 2, !.ratio = << 1, 3 >>],
      [Parallel EXCEPT !.multi = 2, !.ratio = << 1, 2 >>],
      \* the items of a file under their own keys
      Imported, [Imported EXCEPT !.file = Three], [Imported EXCEPT !.pipeline = 2],
      [Imported EXCEPT !.pipeline = 2, !.ratio = << 1, 0 >>, !.requests = 4],
      [Imported EXCEPT !.wait = 1], [Imported EXCEPT !.set = "P", !.get = "P"],
      [Imported EXCEPT !.garbage = 7], [Imported EXCEPT !.interval = 2],
      [Imported EXCEPT !.unset = {0, 1}], [Imported EXCEPT !.set = "P", !.get = "P", !.multi = 2],
      [Imported EXCEPT !.multi = 2, !.ratio = << 1, 3 >>, !.requests = 4],
      \* the items of a file under generated keys
      [Imported EXCEPT !.generate = TRUE, !.requests = 4],
      [Imported EXCEPT !.generate = TRUE, !.set = "R", !.get = "R"],
      [Imported EXCEPT !.generate = TRUE, !.set = "R", !.get = "R", !.multi = 3,
                       !.ratio = << 2, 2 >>, !.requests = 4],
      [Imported EXCEPT !.generate = TRUE, !.set = "R", !.distinct = TRUE] }

=============================================================================
