------------------------------- MODULE RunStats -------------------------------
(***************************************************************************)
(* The statistics a benchmark reports: every client files what it counts   *)
(* under the second it happened in (run_stats::update_*_op,                *)
(* roll_cur_stats, set_end_time), and when all threads have been joined    *)
(* the clients are merged one after the other (client_group::              *)
(* merge_run_stats, run_stats::merge) and summed up (summarize).           *)
(*                                                                         *)
(* Bytes, hits and latencies are added up beside the operations and are    *)
(* left out. Time passes in ticks, fractions of a second; a timeval is the *)
(* code's pair, because averages of timevals are taken field by field.     *)
(***************************************************************************)
EXTENDS Integers, SequencesExt

CONSTANTS
    GroupSizes,       \* the number of clients of every thread
    Sharded,          \* the cluster_clients that have several connections
    Kinds,            \* of operations: a row counts each of its own
    TicksPerSecond,
    MaxStart,         \* bound of the model: the last tick a client starts at
    MaxTick,          \* bound of the model: length of the run
    MaxOps            \* bound of the model: replies of all clients

ASSUME StatsAssumption ==
    /\ GroupSizes \in Seq(Nat \ {0}) /\ IsFiniteSet(Kinds)
    /\ TicksPerSecond \in Nat \ {0}
    /\ {MaxStart, MaxTick, MaxOps} \subseteq Nat

Clients == UNION { {g} \X (1..GroupSizes[g]) : g \in DOMAIN GroupSizes }
Merged == << Len(GroupSizes) + 1, 1 >>

ASSUME ShardedAssumption == Sharded \subseteq Clients

VARIABLES
    now, place,               \* the clock, and how far every client has come
    m_start_time, m_end_time,
    m_cur_stats, m_stats,     \* the second being counted, the seconds filed
    m_ops,                    \* m_totals.m_ops
    late,                     \* history: clients that counted a reply after their end
    turn, target,             \* the client to be merged next, and the result
    summary                   \* what summarize() makes of it

clients == << place, m_start_time, m_end_time, m_cur_stats, m_stats, m_ops, late >>
vars == << now, clients, turn, target, summary >>

-----------------------------------------------------------------------------
(* Rows and times                                                          *)

NoOps == [k \in Kinds |-> 0]
Row(second, ops) == [m_second |-> second, ops |-> ops]
AddOps(a, b) == [k \in Kinds |-> a[k] + b[k]]
Counted(r, k) == [r EXCEPT !.ops[k] = @ + 1]

timeval(tick) == [sec |-> tick \div TicksPerSecond,
                  usec |-> (tick % TicksPerSecond) * (1000000 \div TicksPerSecond)]
NotSet == [sec |-> 0, usec |-> 0]

ts_diff(a, b) == (b.sec - a.sec) * 1000000 + (b.usec - a.usec)

\* An average is computed in doubles and cut off. Halves are exact; with a higher
\* weight a whole number may come out a little too small and lose one.
Averages(a, b, weight) ==
    LET sum == (weight - 1) * a + b
    IN  {sum \div weight} \cup
            { q \in {sum \div weight - 1} : weight > 2 /\ sum > 0 /\ sum % weight = 0 }

timeval_factorial_average(a, b, weight) ==
    [sec : Averages(a.sec, b.sec, weight), usec : Averages(a.usec, b.usec, weight)]

AllRows(rows) ==
    [k \in Kinds |-> SumFunction([i \in DOMAIN rows |-> rows[i].ops[k]])]

InOrder(rows) ==
    \A i, j \in DOMAIN rows : i < j => rows[i].m_second < rows[j].m_second

\* sort(); no second has two rows.
Sorted(rows) ==
    CHOOSE sorted \in [DOMAIN rows -> ToSet(rows)] :
        ToSet(sorted) = ToSet(rows) /\ InOrder(sorted)

-----------------------------------------------------------------------------
(* A client while it runs                                                  *)

Init ==
    /\ now = TicksPerSecond
    /\ place = [c \in Clients |-> "new"]
    /\ m_start_time = [c \in Clients |-> NotSet]
    /\ m_end_time = [c \in Clients |-> NotSet]
    /\ m_cur_stats = [c \in Clients |-> Row(0, NoOps)]
    /\ m_stats = [c \in Clients |-> << >>]
    /\ m_ops = [c \in Clients |-> 0]
    /\ late = {}
    /\ turn = << 1, 1 >>
    /\ target = [m_start_time |-> NotSet, m_end_time |-> NotSet,
                 m_stats |-> << >>, m_ops |-> 0]
    /\ summary = NoOps

\* run_benchmark() joins the first thread when none is active any more: every
\* client has recorded its end, or has lost its connections and with them the
\* events that would have called it back.
Joined == \A c \in Clients : place[c] \in {"ended", "lost"}

\* No client has been merged yet.
Running == turn = << 1, 1 >>

Tick ==
    /\ Running /\ (Joined => Sharded # {}) /\ now < MaxTick
    /\ now' = now + 1
    /\ UNCHANGED << clients, turn, target, summary >>

\* process_first_request(), which every connection of a cluster_client calls that
\* finds no reply counted, even behind the end.
set_start_time(c) ==
    /\ Running /\ now <= MaxStart
    /\ \/ place[c] = "new"
       \/ c \in Sharded /\ place[c] \in {"running", "ended"} /\ m_ops[c] = 0
    /\ place' = [place EXCEPT ![c] = IF @ = "new" THEN "running" ELSE @]
    /\ m_start_time' = [m_start_time EXCEPT ![c] = timeval(now)]
    /\ UNCHANGED << now, m_end_time, m_cur_stats, m_stats, m_ops, late,
                    turn, target, summary >>

Second(c) == ts_diff(m_start_time[c], timeval(now)) \div 1000000

Rolls(c) == Second(c) > m_cur_stats[c].m_second

\* The row that is filed is not emptied.
RolledFull(c) == [m_cur_stats[c] EXCEPT !.m_second = Second(c)]

Rolled(c) == Row(Second(c), NoOps)

\* update_get_op(), update_set_op() or update_wait_op(). The event of another
\* connection of a cluster_client stays registered behind the end: its replies are
\* counted in a row that has been filed.
Reply(c, k) ==
    /\ Running /\ SumFunction(m_ops) < MaxOps
    /\ place[c] = "running" \/ (c \in Sharded /\ place[c] = "ended")
    /\ IF Rolls(c)
       THEN /\ m_stats' = [m_stats EXCEPT ![c] = Append(@, m_cur_stats[c])]
            /\ m_cur_stats' = [m_cur_stats EXCEPT ![c] = Counted(Rolled(c), k)]
       ELSE /\ m_cur_stats' = [m_cur_stats EXCEPT ![c] = Counted(@, k)]
            /\ UNCHANGED m_stats
    /\ m_ops' = [m_ops EXCEPT ![c] = @ + 1]
    /\ late' = late \cup { d \in {c} : place[d] = "ended" }
    /\ UNCHANGED << now, place, m_start_time, m_end_time, turn, target,
                    summary >>

set_end_time(c) ==
    /\ place[c] = "running"
    /\ place' = [place EXCEPT ![c] = "ended"]
    /\ m_end_time' = [m_end_time EXCEPT ![c] = timeval(now)]
    /\ m_stats' = [m_stats EXCEPT ![c] = Append(@, m_cur_stats[c])]
    /\ UNCHANGED << now, m_start_time, m_cur_stats, m_ops, late, turn,
                    target, summary >>

ConnectionLost(c) ==
    /\ place[c] \in {"new", "running"}
    /\ place' = [place EXCEPT ![c] = "lost"]
    /\ UNCHANGED << now, m_start_time, m_end_time, m_cur_stats, m_stats,
                    m_ops, late, turn, target, summary >>

-----------------------------------------------------------------------------
(* Merging                                                                 *)

\* Every second is added to the first row there is.
SameRowFirst(rows, r) == IF rows = << >> THEN 0 ELSE 1

\* The row of the same second, or 0.
SameRow(rows, r) == SelectInSeq(rows, LAMBDA s : s.m_second = r.m_second)

\* A row of a second already there takes its place.
MergeRowReplaces(rows, r) ==
    LET i == SameRow(rows, r)
    IN  IF i > 0 THEN [rows EXCEPT ![i] = r] ELSE Append(rows, r)

MergeRow(rows, r) ==
    LET i == SameRow(rows, r)
    IN  IF i > 0 THEN [rows EXCEPT ![i].ops = AddOps(@, r.ops)] ELSE Append(rows, r)

\* New seconds stay where they were appended.
MergeRowsUnsorted(rows, others) ==
    LET merged[i \in 0..Len(others)] ==
            IF i = 0 THEN rows ELSE MergeRow(merged[i - 1], others[i])
    IN  merged[Len(others)]

\* Rows are sorted when one is new.
MergeRows(rows, others) ==
    LET merged == MergeRowsUnsorted(rows, others)
    IN  IF Len(merged) > Len(rows) THEN Sorted(merged) ELSE merged

\* The iteration is counted twice.
MergeIntoTwice(t, c) ==
    [m_start_time : timeval_factorial_average(t.m_start_time, m_start_time[c], c[2]),
     m_end_time   : timeval_factorial_average(t.m_end_time, m_end_time[c], c[2] + 1),
     m_stats      : {MergeRows(t.m_stats, m_stats[c])},
     m_ops        : {t.m_ops + m_ops[c]}]

\* run_stats::merge; the weight of the average restarts with every group.
MergeInto(t, c) ==
    [m_start_time : timeval_factorial_average(t.m_start_time, m_start_time[c], c[2]),
     m_end_time   : timeval_factorial_average(t.m_end_time, m_end_time[c], c[2]),
     m_stats      : {MergeRows(t.m_stats, m_stats[c])},
     m_ops        : {t.m_ops + m_ops[c]}]

After(c) == IF c[2] < GroupSizes[c[1]] THEN << c[1], c[2] + 1 >>
                                       ELSE << c[1] + 1, 1 >>

merge ==
    /\ Joined /\ turn # Merged
    /\ target' \in MergeInto(target, turn)
    /\ turn' = After(turn)
    /\ UNCHANGED << now, clients, summary >>

summarize ==
    /\ Joined /\ turn = Merged
    /\ summary' = AllRows(target.m_stats)
    /\ UNCHANGED << now, clients, turn, target >>

-----------------------------------------------------------------------------

Client(c) ==
    \/ set_start_time(c) \/ set_end_time(c) \/ ConnectionLost(c)
    \/ \E k \in Kinds : Reply(c, k)

Next == Tick \/ merge \/ summarize \/ \E c \in Clients : Client(c)

Spec == Init /\ [][Next]_vars

-----------------------------------------------------------------------------
(* Properties                                                              *)

\* Every second has one row, in the order of time: of the merged result, and of a
\* client, where the second being counted comes after those filed. Replies counted
\* after the end file their second again.
RowsInOrder ==
    /\ \A c \in Clients \ late :
          /\ InOrder(m_stats[c])
          /\ place[c] # "ended" => \A i \in DOMAIN m_stats[c] :
                m_stats[c][i].m_second < m_cur_stats[c].m_second
    /\ InOrder(target.m_stats)

Unfiled(c) == IF place[c] = "ended" THEN 0 ELSE SumFunction(m_cur_stats[c].ops)

\* The rows of a client and its total are two counts of the same replies: they
\* differ by the second not filed yet, unless replies came after the end, which the
\* total contains and the rows do not, or twice.
Ledger == \A c \in Clients \ late :
    m_ops[c] = SumFunction(AllRows(m_stats[c])) + Unfiled(c)

\* The row of a second in the merged result is the sum of all rows the clients filed
\* of it, those filed twice included.
OpsIn(rows, second, k) ==
    SumFunction([i \in DOMAIN rows |->
        IF rows[i].m_second = second THEN rows[i].ops[k] ELSE 0])

MergedBySecond ==
    turn = Merged => \A s \in 0..MaxTick, k \in Kinds :
        OpsIn(target.m_stats, s, k)
            = SumFunction([c \in Clients |-> OpsIn(m_stats[c], s, k)])

\* The total contains every reply of every client, and so does the report, but for
\* the last second of a client that lost its connection. The report is not held to
\* that if a client has counted replies after its end.
ReportComplete ==
    turn = Merged /\ summary # NoOps =>
        /\ target.m_ops = SumFunction(m_ops)
        /\ late = {} =>
              SumFunction(summary) + SumFunction([c \in Clients |-> Unfiled(c)]) = target.m_ops

\* The duration all rates are divided by is never negative, although starts and ends
\* are averaged with loss, if all clients start a second before the one in which
\* the first of them ends.
DurationSane ==
    turn = Merged /\ (\A c \in Clients : place[c] = "ended")
        /\ (\A c, d \in Clients :
               ts_diff(m_start_time[c], [m_end_time[d] EXCEPT !.usec = 0]) >= 1000000)
        => ts_diff(target.m_start_time, target.m_end_time) >= 0

=============================================================================
