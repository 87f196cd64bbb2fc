---------------------------- MODULE MetricArchive ----------------------------
(***************************************************************************)
(* The metrics of one server from their ingestion to their daily archive,  *)
(* and the summary the charts show (AgentService.ingest_metrics,           *)
(* MetricRepository, MonitorService.get_summary, _cleanup_old_metrics).    *)
(*                                                                         *)
(* A sample is the time at which it was collected and the host's network   *)
(* counter then; every other column is aggregated like the sample itself.  *)
(* An archived row is the set of the samples it was computed from: its     *)
(* averages, maxima and sample_count are functions of that set.            *)
(*                                                                         *)
(* Time is in slots of which DayLength make a day.  The host sends one     *)
(* unit of traffic per slot, so the true traffic of a period is its        *)
(* length.                                                                 *)
(***************************************************************************)
EXTENDS Integers, FiniteSets, FiniteSetsExt

CONSTANTS
    DayLength,      \* slots per day
    RETENTION,      \* METRIC_RETENTION_DAYS, in slots
    AGG_RETENTION,  \* METRIC_AGG_RETENTION_DAYS
    MAX_TIME_SKEW,  \* MAX_TIME_SKEW_SECONDS, in slots
    Bucket,         \* slots per bucket of the summary
    Lookback,       \* slots the summary looks back
    MaxTime,        \* bound: the clock stops here
    MaxWire,        \* bound: samples on their way at a time
    MaxReboots,     \* bound: how often the host's counter restarts
    NoValue,        \* the column is NULL
    Absent          \* there is no row

ASSUME MetricArchiveAssumption ==
    /\ {DayLength, Bucket, RETENTION} \subseteq Nat \ {0}
    /\ {AGG_RETENTION, MAX_TIME_SKEW, Lookback, MaxTime, MaxWire, MaxReboots} \subseteq Nat
    /\ MAX_TIME_SKEW <= RETENTION   \* five minutes against days
    /\ NoValue \notin Nat
    /\ Absent \notin Nat \cup {NoValue}

VARIABLES
    now,
    counter,    \* the host's network counter
    reboots,
    wire,       \* samples on their way
    raw,        \* raw[t]: the sample collected at t in monitor_server_metric
    daily,      \* daily[d]: the samples the row of day d stands for, {} for none
    job,        \* the cleanup's transaction: none, or what it has archived
    taken,      \* history: samples that were ingested
    split       \* history: days a committed cleanup's cutoff fell into

vars == <<now, counter, reboots, wire, raw, daily, job, taken, split>>

Times == 0..MaxTime
DayOf(t) == t \div DayLength
Days == 0..DayOf(MaxTime)
Net == Times \cup {NoValue}
NoJob == [open |-> FALSE]

Init ==
    /\ now = 0 /\ counter = 0 /\ reboots = 0
    /\ wire = {}
    /\ raw = [t \in Times |-> Absent]
    /\ daily = [d \in Days |-> {}]
    /\ job = NoJob
    /\ taken = {} /\ split = {}

Rows == {t \in Times : raw[t] # Absent}

-----------------------------------------------------------------------------
(* The agent and the ingestion. *)

\* collect_metrics, send_metrics: the counter may be unavailable.
Collect(net) ==
    /\ net \in {counter, NoValue}
    /\ now \notin taken \cup {m.at : m \in wire}
    /\ Cardinality(wire) < MaxWire
    /\ wire' = wire \cup {[at |-> now, net |-> net]}
    /\ UNCHANGED <<now, counter, reboots, raw, daily, job, taken, split>>

\* Lost, or older than _validate_timestamp accepts when it arrives.
Lose(m) ==
    /\ m \in wire
    /\ wire' = wire \ {m}
    /\ UNCHANGED <<now, counter, reboots, raw, daily, job, taken, split>>

\* _validate_timestamp: anything further off is answered with 400.
InSkew(m) == now - m.at \in (-MAX_TIME_SKEW)..MAX_TIME_SKEW

ingest_metrics(m) ==
    /\ m \in wire
    /\ InSkew(m)
    /\ wire' = wire \ {m}
    /\ raw' = [raw EXCEPT ![m.at] = m.net]
    /\ taken' = taken \cup {m.at}
    /\ UNCHANGED <<now, counter, reboots, daily, job, split>>

-----------------------------------------------------------------------------
(* _cleanup_old_metrics: one transaction, but each of its steps asks for the *)
(* time anew.                                                                *)

aggregate_daily(cutoff) == [d \in Days |-> {t \in Rows : t < cutoff /\ DayOf(t) = d}]

BeginCleanup ==
    /\ job = NoJob
    /\ job' = [open |-> TRUE, cutoff |-> now - RETENTION,
               archived |-> aggregate_daily(now - RETENTION)]
    /\ UNCHANGED <<now, counter, reboots, wire, raw, daily, taken, split>>

\* Mutated form: the sample at the cutoff goes too.
delete_older_than_early == [t \in Times |-> IF t <= now - RETENTION THEN Absent ELSE raw[t]]

delete_older_than == [t \in Times |-> IF t < now - RETENTION THEN Absent ELSE raw[t]]

\* ON DUPLICATE KEY UPDATE: the new aggregate replaces the old one.
Upsert(rows) == [d \in Days |-> IF rows[d] # {} THEN rows[d] ELSE daily[d]]

delete_daily_before(rows) ==
    [d \in Days |-> IF d < DayOf(now) - AGG_RETENTION THEN {} ELSE rows[d]]

Inside(cutoff, d) == d * DayLength < cutoff /\ cutoff < (d + 1) * DayLength

CommitCleanup ==
    /\ job # NoJob
    /\ raw' = delete_older_than
    /\ daily' = delete_daily_before(Upsert(job.archived))
    /\ split' = split \cup {d \in Days : \/ Inside(job.cutoff, d)
                                         \/ Inside(now - RETENTION, d)
                                         \/ job.cutoff <= d * DayLength
                                               /\ d * DayLength < now - RETENTION}
    /\ job' = NoJob
    /\ UNCHANGED <<now, counter, reboots, wire, taken>>

\* An exception or a restart: nothing of it has happened.
AbortCleanup ==
    /\ job # NoJob
    /\ job' = NoJob
    /\ UNCHANGED <<now, counter, reboots, wire, raw, daily, taken, split>>

-----------------------------------------------------------------------------
(* The host and time. *)

Reboot ==
    /\ reboots < MaxReboots
    /\ counter > 0
    /\ counter' = 0
    /\ reboots' = reboots + 1
    /\ UNCHANGED <<now, wire, raw, daily, job, taken, split>>

Tick ==
    /\ now < MaxTime
    /\ now' = now + 1
    /\ counter' = counter + 1
    /\ UNCHANGED <<reboots, wire, raw, daily, job, taken, split>>

Next ==
    \/ \E net \in Net : Collect(net)
    \/ \E m \in wire : Lose(m) \/ ingest_metrics(m)
    \/ BeginCleanup \/ CommitCleanup \/ AbortCleanup
    \/ Reboot
    \/ Tick

Spec == Init /\ [][Next]_vars

-----------------------------------------------------------------------------
(* The summary of the last Lookback slots. *)

InRange == {t \in Rows : t >= now - Lookback /\ t <= now}
Buckets == {t \div Bucket : t \in InRange}

\* func.max ignores NULL; it is NULL if every value is.
network_max(b) ==
    LET values == {raw[t] : t \in {u \in InRange : u \div Bucket = b}} \ {NoValue}
    IN  IF values = {} THEN NoValue ELSE Max(values)

Previous(b) == LET earlier == {c \in Buckets : c < b}
               IN  IF earlier = {} THEN NoValue ELSE network_max(Max(earlier))

\* Mutated form: a counter that restarts counts as traffic.
TransferredAbs(b) ==
    LET p == Previous(b)
        c == network_max(b)
    IN  IF p = NoValue \/ c = NoValue THEN 0 ELSE IF c < p THEN p - c ELSE c - p

\* network_rate of a point times the seconds of its bucket
Transferred(b) ==
    LET p == Previous(b)
        c == network_max(b)
    IN  IF p = NoValue \/ c = NoValue THEN 0 ELSE Max({0, c - p})

-----------------------------------------------------------------------------
(* Correctness *)

\* The cleanup deletes nothing that is within the retention, however long it
\* takes: every sample ever ingested that is young enough is still there.
RetentionKept == \A t \in taken : t >= now - RETENTION => raw[t] # Absent

\* A day that no cutoff of a cleanup has fallen into is either still there in
\* full or archived in full, until the archive's own retention.  A day that
\* was split loses its first part: the row of the later cleanup, computed from
\* what is left, replaces the row of the earlier one.
UnsplitDayIsWhole ==
    \A d \in Days \ split :
        d >= DayOf(now) - AGG_RETENTION =>
            LET samples == {t \in taken : DayOf(t) = d}
            IN  samples \subseteq Rows \/ daily[d] = samples

\* What the network chart adds up to is never more than was transferred in the
\* range, although counters restart and samples are lost or come late.
SummaryNeverOverstates ==
    InRange # {} =>
        MapThenSumSet(Transferred, Buckets) <= Max(InRange) - Min(InRange)

=============================================================================
