----------------------------- MODULE RequestMix -----------------------------
(***************************************************************************)
(* client::create_request: which command the next request of a client is.  *)
(*                                                                         *)
(* A client interleaves WAIT, SET and GET commands according to two ratios *)
(* of its configuration: Set:Get (--ratio) and Set:Wait (--wait-ratio).    *)
(* Keys, values and timeouts are left out; what is kept is every counter   *)
(* the choice depends on and the number of keys a (multi-)GET carries.     *)
(***************************************************************************)
EXTENDS Integers

CONSTANTS
    Configs,             \* the configurations a client may be started with
    MaxRequests          \* bound of the model: requests created in a run

\* A configuration: ratio = a:b, wait_ratio = wa:wb (wb = 0: no WAIT), and
\* multi_key_get (0: single-key GETs). "0:0" is not a defined ratio.
ASSUME MixAssumption ==
    /\ Configs \subseteq [a: Nat, b: Nat, wa: Nat, wb: Nat, multi: Nat]
    /\ \A c \in Configs : c.a > 0 \/ c.b > 0
    /\ MaxRequests \in Nat

VARIABLES
    config,                                \* m_config, never changed
    m_set_ratio_count, m_get_ratio_count,  \* position inside one a:b cycle
    m_tot_set_ops, m_tot_wait_ops,         \* SETs and WAITs so far
    m_reqs_generated,
    tot_get_keys         \* history: keys asked for by all the GETs so far

mixVars == << config, m_set_ratio_count, m_get_ratio_count, m_tot_set_ops,
           m_tot_wait_ops, m_reqs_generated, tot_get_keys >>

Least(m, n) == IF m < n THEN m ELSE n

-----------------------------------------------------------------------------
(* The conditions of create_request, in the order it tests them.           *)

\* A WAIT sent once a full ratio of SETs has passed, instead of more than it.
WaitDueEarly ==
    /\ config.wb # 0
    /\ m_tot_wait_ops > 0 =>
          m_tot_set_ops \div m_tot_wait_ops >= config.wa \div config.wb

WaitDue ==
    /\ config.wb # 0
    /\ m_tot_wait_ops > 0 =>
          m_tot_set_ops \div m_tot_wait_ops > config.wa \div config.wb

SetDue == m_set_ratio_count < config.a

GetDue == m_get_ratio_count < config.b

\* The number of keys of the next GET: what is left of the cycle, at most
\* multi_key_get of them.
GetKeys == IF config.multi > 0 THEN Least(config.b - m_get_ratio_count, config.multi)
                           ELSE 1

\* The counters never restart: after the first cycle nothing is due.
OverlapNever(sets, gets) ==
    m_set_ratio_count' = sets /\ m_get_ratio_count' = gets

\* The cycle restarts as soon as its writes are done.
OverlapOnSets(sets, gets) ==
    IF sets = config.a
    THEN m_set_ratio_count' = 0 /\ m_get_ratio_count' = 0
    ELSE m_set_ratio_count' = sets /\ m_get_ratio_count' = gets

\* "Overlap counters", the trailing step of create_request: both counters
\* restart when the cycle is complete.
Overlap(sets, gets) ==
    IF sets = config.a /\ gets = config.b
    THEN m_set_ratio_count' = 0 /\ m_get_ratio_count' = 0
    ELSE m_set_ratio_count' = sets /\ m_get_ratio_count' = gets

-----------------------------------------------------------------------------

MixInit ==
    /\ config \in Configs
    /\ m_set_ratio_count = 0 /\ m_get_ratio_count = 0
    /\ m_tot_set_ops = 0 /\ m_tot_wait_ops = 0
    /\ m_reqs_generated = 0
    /\ tot_get_keys = 0

Sent ==
    /\ m_reqs_generated < MaxRequests
    /\ m_reqs_generated' = m_reqs_generated + 1

CreateWait ==
    /\ WaitDue
    /\ Sent
    /\ m_tot_wait_ops' = m_tot_wait_ops + 1
    /\ Overlap(m_set_ratio_count, m_get_ratio_count)
    /\ UNCHANGED << config, m_tot_set_ops, tot_get_keys >>

CreateSet ==
    /\ ~WaitDue /\ SetDue
    /\ Sent
    /\ m_tot_set_ops' = m_tot_set_ops + 1
    /\ Overlap(m_set_ratio_count + 1, m_get_ratio_count)
    /\ UNCHANGED << config, m_tot_wait_ops, tot_get_keys >>

CreateGet ==
    /\ ~WaitDue /\ ~SetDue /\ GetDue
    /\ Sent
    /\ tot_get_keys' = tot_get_keys + GetKeys
    /\ Overlap(m_set_ratio_count, m_get_ratio_count + GetKeys)
    /\ UNCHANGED << config, m_tot_set_ops, m_tot_wait_ops >>

CreateRequest == CreateWait \/ CreateSet \/ CreateGet

MixSpec == MixInit /\ [][CreateRequest]_mixVars

-----------------------------------------------------------------------------
(* Properties                                                              *)

MixTypeOK ==
    /\ config \in Configs
    /\ m_set_ratio_count \in 0..config.a
    /\ m_get_ratio_count \in 0..config.b
    /\ m_tot_set_ops \in Nat
    /\ m_tot_wait_ops \in Nat
    /\ m_reqs_generated \in Nat
    /\ tot_get_keys \in Nat

\* Some branch of create_request always applies. fill_pipeline calls it in a
\* loop that ends only when the pipeline grows (or time passes), so a call
\* that sends nothing would spin there.
SomeRequestDue == WaitDue \/ SetDue \/ GetDue

\* The Set:Get ratio is exact over every completed cycle, whatever the
\* multi-key GETs were clipped to: complete cycles hold a SETs for b keys read.
RatioExact ==
    (m_tot_set_ops - m_set_ratio_count) * config.b
        = (tot_get_keys - m_get_ratio_count) * config.a

\* The SETs one WAIT stands for: the integer quotient the code computes, and
\* one more because the comparison with it is strict. It is not the ratio of the
\* option text, "Set:Wait ratio" (memtier_benchmark.cpp:989): 3:1 gives four SETs
\* a WAIT, 1:2 gives one.
SetsPerWait == (config.wa \div config.wb) + 1

\* WAITs keep up with the SETs and never run ahead of them: between them the
\* two bounds say that the next WAIT comes after exactly SetsPerWait SETs, which
\* is the distance the code keeps and not the one its option promises.
WaitsFollowSets ==
    config.wb > 0 =>
        /\ m_tot_set_ops <= SetsPerWait * m_tot_wait_ops
        /\ m_tot_wait_ops > 0
              => m_tot_set_ops >= SetsPerWait * (m_tot_wait_ops - 1)

=============================================================================
