------------------------- MODULE MetricArchiveProofs -------------------------
(***************************************************************************)
(* Proofs about MetricArchive, for any length of a day, retention and      *)
(* number of samples.                                                      *)
(***************************************************************************)
EXTENDS MetricArchive, TLAPS, FiniteSetTheorems, WellFoundedInduction

First(d) == d * DayLength
AfterLast(d) == (d + 1) * DayLength

\* A slot lies between the bounds of its day.
LEMMA DayBounds ==
    ASSUME NEW t \in Nat
    PROVE  DayOf(t) \in Nat /\ First(DayOf(t)) <= t /\ t < AfterLast(DayOf(t))
  BY MetricArchiveAssumption, Z3 DEF DayOf, First, AfterLast

\* Days follow each other as slots do.
LEMMA DayMonotone ==
    ASSUME NEW t \in Nat, NEW u \in Nat, t <= u
    PROVE  DayOf(t) <= DayOf(u)
  <1> DEFINE p == DayOf(t)
             q == DayOf(u)
  <1>1. p \in Nat /\ q \in Nat /\ p * DayLength <= t /\ u < (q + 1) * DayLength
    BY DayBounds DEF First, AfterLast
  <1> HIDE DEF p, q
  <1>2. p < q + 1
    BY <1>1, MetricArchiveAssumption
  <1> QED BY <1>1, <1>2 DEF p, q

-----------------------------------------------------------------------------
(* The inductive invariant. *)

Sample == [at : Times, net : Net]
OpenJob == [open : {TRUE}, cutoff : Int, archived : [Days -> SUBSET Times]]

ArchiveTypeOK ==
    /\ now \in Times /\ counter \in Nat /\ reboots \in Nat
    /\ wire \subseteq Sample
    /\ raw \in [Times -> Net \cup {Absent}]
    /\ daily \in [Days -> SUBSET Times]
    /\ job \in {NoJob} \cup OpenJob
    /\ taken \subseteq Times
    /\ split \subseteq Days

\* What the open transaction has aggregated is what it would aggregate now: no
\* sample that old is ingested any more.
JobIsCurrent ==
    job # NoJob =>
        job.cutoff <= now - RETENTION /\ job.archived = aggregate_daily(job.cutoff)

SamplesOf(d) == {t \in taken : DayOf(t) = d}

\* A day no cleanup has reached, and one that a cleanup has archived as a whole
\* and deleted as a whole.
Untouched(d) == SamplesOf(d) \subseteq Rows
PutAway(d) ==
    /\ \A t \in Rows : DayOf(t) # d
    /\ AfterLast(d) <= now - RETENTION
    /\ d >= DayOf(now) - AGG_RETENTION => daily[d] = SamplesOf(d)

ArchiveInv ==
    /\ ArchiveTypeOK
    /\ RetentionKept
    /\ Rows \subseteq taken
    /\ JobIsCurrent
    /\ \A d \in Days \ split : Untouched(d) \/ PutAway(d)

\* Facts about the constants that the steps need.
LEMMA ConstantFacts ==
    /\ DayLength \in Nat \ {0} /\ RETENTION \in Nat /\ AGG_RETENTION \in Nat
    /\ MAX_TIME_SKEW \in Nat /\ MAX_TIME_SKEW <= RETENTION /\ MaxTime \in Nat
    /\ Times \subseteq Nat /\ Absent \notin Net
    /\ Days \subseteq Nat /\ \A t \in Times : DayOf(t) \in Days
  <1>1. /\ DayLength \in Nat \ {0} /\ RETENTION \in Nat /\ AGG_RETENTION \in Nat
        /\ MAX_TIME_SKEW \in Nat /\ MAX_TIME_SKEW <= RETENTION /\ MaxTime \in Nat
        /\ Times \subseteq Nat /\ Absent \notin Net
    BY MetricArchiveAssumption DEF Times, Net
  <1>2. ASSUME NEW t \in Times PROVE DayOf(t) \in Days
    BY <1>1, DayBounds, DayMonotone DEF Days, Times
  <1>3. Days \subseteq Nat
    BY <1>1, DayBounds DEF Days
  <1> QED BY <1>1, <1>2, <1>3

\* A step that touches neither the tables nor the clock.
LEMMA TablesKept ==
    ASSUME ArchiveInv, UNCHANGED <<now, raw, daily, taken, split>>,
           counter' \in Nat, reboots' \in Nat, wire' \subseteq Sample,
           job' \in {job, NoJob}
    PROVE  ArchiveInv'
  <1>1. Rows' = Rows
    BY DEF Rows
  <1>2. ArchiveTypeOK' /\ RetentionKept'
    BY DEF ArchiveInv, ArchiveTypeOK, RetentionKept
  <1>3. JobIsCurrent'
    BY <1>1 DEF ArchiveInv, JobIsCurrent, aggregate_daily
  <1>4. ASSUME NEW d \in Days \ split PROVE Untouched(d)' \/ PutAway(d)'
    BY <1>1 DEF ArchiveInv, Untouched, PutAway, SamplesOf
  <1> QED BY <1>1, <1>2, <1>3, <1>4 DEF ArchiveInv

\* A sample that is accepted is younger than every cutoff so far.
LEMMA IngestKeeps ==
    ASSUME ArchiveInv, NEW m \in wire, ingest_metrics(m)
    PROVE  ArchiveInv'
  <1> USE ConstantFacts
  <1>0. m.at \in Times /\ m.net \in Net /\ m.at \in Nat /\ now \in Nat
    BY DEF ArchiveInv, ArchiveTypeOK, Sample
  <1>1. /\ raw' = [raw EXCEPT ![m.at] = m.net] /\ taken' = taken \cup {m.at}
        /\ wire' \subseteq wire
        /\ UNCHANGED <<now, counter, reboots, daily, job, split>>
    BY DEF ingest_metrics
  <1>2. m.at >= now - RETENTION
    <2>1. now - m.at <= MAX_TIME_SKEW
      BY <1>0 DEF ingest_metrics, InSkew
    <2> QED BY <1>0, <2>1
  <1>3. Rows' = Rows \cup {m.at}
    <2>1. \A t \in Times : raw'[t] = IF t = m.at THEN m.net ELSE raw[t]
      BY <1>0, <1>1 DEF ArchiveInv, ArchiveTypeOK
    <2>2. m.net # Absent
      BY <1>0
    <2> QED BY <1>0, <2>1, <2>2 DEF Rows
  <1>4. ArchiveTypeOK'
    BY <1>0, <1>1 DEF ArchiveInv, ArchiveTypeOK
  <1>5. RetentionKept'
    <2>1. \A t \in Times : raw[t] # Absent => raw'[t] # Absent
      BY <1>3 DEF Rows
    <2>2. raw'[m.at] # Absent
      BY <1>0, <1>3 DEF Rows
    <2> QED BY <1>1, <2>1, <2>2 DEF ArchiveInv, ArchiveTypeOK, RetentionKept
  <1>6. JobIsCurrent'
    <2> SUFFICES ASSUME job # NoJob
                 PROVE  job.cutoff <= now - RETENTION
                        /\ job.archived = aggregate_daily(job.cutoff)'
      BY <1>1 DEF JobIsCurrent
    <2>1. /\ job.cutoff <= now - RETENTION /\ job.cutoff \in Int
          /\ job.archived = aggregate_daily(job.cutoff)
      BY DEF ArchiveInv, JobIsCurrent, ArchiveTypeOK, OpenJob
    <2>2. ~(m.at < job.cutoff)
      BY <1>0, <1>2, <2>1
    <2>3. \A d \in Days : {t \in Rows : t < job.cutoff /\ DayOf(t) = d}
                            = {t \in Rows' : t < job.cutoff /\ DayOf(t) = d}
      BY <1>3, <2>2
    <2> QED BY <1>1, <2>1, <2>3 DEF aggregate_daily
  <1>7. ASSUME NEW d \in Days \ split PROVE Untouched(d)' \/ PutAway(d)'
    <2>1. CASE Untouched(d)
      BY <1>1, <1>3, <2>1 DEF Untouched, SamplesOf
    <2>2. CASE PutAway(d)
      <3>0. m.at < AfterLast(DayOf(m.at)) /\ AfterLast(d) \in Int
        BY <1>0, DayBounds DEF AfterLast
      <3>1. DayOf(m.at) # d
        BY <1>0, <1>2, <2>2, <3>0 DEF PutAway
      <3>2. SamplesOf(d)' = SamplesOf(d)
        BY <1>1, <3>1 DEF SamplesOf
      <3> QED BY <1>1, <1>3, <2>2, <3>1, <3>2 DEF PutAway
    <2> QED BY <2>1, <2>2 DEF ArchiveInv
  <1> QED BY <1>1, <1>3, <1>4, <1>5, <1>6, <1>7 DEF ArchiveInv

\* The cleanup opens with the aggregate of what is old.
LEMMA BeginKeeps ==
    ASSUME ArchiveInv, BeginCleanup
    PROVE  ArchiveInv'
  <1> USE ConstantFacts
  <1>1. /\ job' = [open |-> TRUE, cutoff |-> now - RETENTION,
                   archived |-> aggregate_daily(now - RETENTION)]
        /\ UNCHANGED <<now, counter, reboots, wire, raw, daily, taken, split>>
    BY DEF BeginCleanup
  <1>2. Rows' = Rows
    BY <1>1 DEF Rows
  <1>3. aggregate_daily(now - RETENTION) \in [Days -> SUBSET Times]
        /\ now - RETENTION \in Int
    BY DEF aggregate_daily, Rows, ArchiveInv, ArchiveTypeOK
  <1>4. job' \in OpenJob
    BY <1>1, <1>3 DEF OpenJob
  <1>5. ArchiveTypeOK' /\ RetentionKept'
    BY <1>1, <1>4 DEF ArchiveInv, ArchiveTypeOK, RetentionKept
  <1>6. job'.cutoff = now - RETENTION /\ job'.archived = aggregate_daily(now - RETENTION)
    BY <1>1
  <1>7. aggregate_daily(job'.cutoff) = aggregate_daily(job.cutoff)'
    BY <1>2 DEF aggregate_daily
  <1>8. JobIsCurrent'
    BY <1>1, <1>3, <1>6, <1>7 DEF JobIsCurrent
  <1>9. ASSUME NEW d \in Days \ split PROVE Untouched(d)' \/ PutAway(d)'
    BY <1>1, <1>2 DEF ArchiveInv, Untouched, PutAway, SamplesOf
  <1> QED BY <1>1, <1>2, <1>5, <1>8, <1>9 DEF ArchiveInv

\* A cleanup puts a whole day away, or none of it, or splits it.
LEMMA CommitKeeps ==
    ASSUME ArchiveInv, CommitCleanup
    PROVE  ArchiveInv'
  <1> USE ConstantFacts
  <1> DEFINE cut == now - RETENTION
             a == job.archived
  <1>1. /\ raw' = [t \in Times |-> IF t < cut THEN Absent ELSE raw[t]]
        /\ daily' = [d \in Days |-> IF d < DayOf(now) - AGG_RETENTION THEN {}
                                    ELSE Upsert(a)[d]]
        /\ split' = split \cup {d \in Days : \/ Inside(job.cutoff, d)
                                             \/ Inside(cut, d)
                                             \/ job.cutoff <= First(d) /\ First(d) < cut}
        /\ job' = NoJob /\ job # NoJob
        /\ UNCHANGED <<now, counter, reboots, wire, taken>>
    BY DEF CommitCleanup, delete_older_than, delete_daily_before, First
  <1>2. /\ now \in Nat /\ cut \in Int
        /\ job.cutoff \in Int /\ job.cutoff <= cut /\ a \in [Days -> SUBSET Times]
        /\ a = [d \in Days |-> {t \in Rows : t < job.cutoff /\ DayOf(t) = d}]
    <2>1. now \in Nat /\ job \in OpenJob
      BY <1>1 DEF ArchiveInv, ArchiveTypeOK
    <2>2. job.cutoff \in Int /\ a \in [Days -> SUBSET Times]
      BY <2>1 DEF OpenJob
    <2>3. job.cutoff <= cut /\ a = aggregate_daily(job.cutoff)
      BY <1>1 DEF ArchiveInv, JobIsCurrent
    <2> QED BY <2>1, <2>2, <2>3 DEF aggregate_daily
  <1>3. Rows' = {t \in Rows : ~(t < cut)}
    BY <1>1 DEF Rows
  <1>4. \A d \in Days : Upsert(a)[d] = IF a[d] # {} THEN a[d] ELSE daily[d]
    BY DEF Upsert
  <1> HIDE DEF a
  <1>5. daily' \in [Days -> SUBSET Times]
    BY <1>1, <1>2, <1>4 DEF ArchiveInv, ArchiveTypeOK
  <1>6. raw' \in [Times -> Net \cup {Absent}]
    BY <1>1 DEF ArchiveInv, ArchiveTypeOK
  <1>7. ArchiveTypeOK'
    BY <1>1, <1>5, <1>6 DEF ArchiveInv, ArchiveTypeOK
  <1>8. RetentionKept'
    BY <1>1, <1>2 DEF ArchiveInv, ArchiveTypeOK, RetentionKept
  <1>9. JobIsCurrent'
    BY <1>1 DEF JobIsCurrent
  <1>10. ASSUME NEW d \in Days \ split'
         PROVE  Untouched(d)' \/ PutAway(d)'
    <2>0. /\ d \in Days \ split /\ d \in Nat
          /\ First(d) \in Int /\ AfterLast(d) \in Int
          /\ ~(First(d) < job.cutoff /\ job.cutoff < AfterLast(d))
          /\ ~(First(d) < cut /\ cut < AfterLast(d))
          /\ ~(job.cutoff <= First(d) /\ First(d) < cut)
      BY <1>1 DEF Inside, First, AfterLast
    <2>1. \A t \in Times : DayOf(t) = d => First(d) <= t /\ t < AfterLast(d)
      BY DayBounds
    <2>2. SamplesOf(d)' = SamplesOf(d) /\ SamplesOf(d) \subseteq Times
      BY <1>1 DEF SamplesOf, ArchiveInv, ArchiveTypeOK
    <2>3. Rows \subseteq Times
      BY DEF Rows
    <2>4. CASE cut <= First(d)
      <3>1. \A t \in Rows : DayOf(t) = d => t \in Rows'
        BY <1>2, <1>3, <2>0, <2>1, <2>3, <2>4
      <3>2. CASE Untouched(d)
        BY <2>2, <3>1, <3>2 DEF Untouched, SamplesOf
      <3>3. CASE PutAway(d)
        \* The cutoff would have passed the day before.
        <4>1. First(d) < AfterLast(d)
          BY <2>0 DEF First, AfterLast
        <4> QED BY <1>2, <2>0, <2>4, <3>3, <4>1 DEF PutAway
      <3> QED BY <2>0, <3>2, <3>3 DEF ArchiveInv
    <2>5. CASE First(d) < cut
      <3>1. AfterLast(d) <= job.cutoff /\ AfterLast(d) <= cut
        BY <1>2, <2>0, <2>5
      <3>2. \A t \in Rows' : DayOf(t) # d
        BY <1>2, <1>3, <2>0, <2>1, <2>3, <3>1
      <3>3. a[d] = {t \in Rows : DayOf(t) = d}
        <4>1. a[d] = {t \in Rows : t < job.cutoff /\ DayOf(t) = d}
          BY <1>2
        <4>2. \A t \in Rows : DayOf(t) = d => t < job.cutoff
          BY <1>2, <2>0, <2>1, <2>3, <3>1
        <4> QED BY <4>1, <4>2
      <3>4. daily'[d] = IF d < DayOf(now) - AGG_RETENTION THEN {}
                        ELSE IF a[d] # {} THEN a[d] ELSE daily[d]
        BY <1>1, <1>4
      <3>5. DayOf(now) \in Nat
        BY <1>2, DayBounds
      <3>6. CASE Untouched(d)
        <4>1. a[d] = SamplesOf(d)
          BY <3>3, <3>6 DEF Untouched, SamplesOf, ArchiveInv
        <4>2. CASE SamplesOf(d) = {}
          BY <2>2, <4>2 DEF Untouched
        <4>3. CASE SamplesOf(d) # {}
          BY <1>1, <2>0, <2>2, <3>1, <3>2, <3>4, <3>5, <4>1, <4>3 DEF PutAway
        <4> QED BY <4>2, <4>3
      <3>7. CASE PutAway(d)
        <4>1. a[d] = {}
          BY <3>3, <3>7 DEF PutAway
        <4> QED BY <1>1, <2>0, <2>2, <3>1, <3>2, <3>4, <3>5, <3>7, <4>1 DEF PutAway
      <3> QED BY <2>0, <3>6, <3>7 DEF ArchiveInv
    <2> QED BY <1>2, <2>0, <2>4, <2>5
  <1>11. Rows' \subseteq taken'
    BY <1>1, <1>3 DEF ArchiveInv
  <1> QED BY <1>7, <1>8, <1>9, <1>10, <1>11 DEF ArchiveInv

\* Time moves the cutoffs on.
LEMMA TickKeeps ==
    ASSUME ArchiveInv, Tick
    PROVE  ArchiveInv'
  <1> USE ConstantFacts
  <1>1. /\ now < MaxTime /\ now' = now + 1 /\ counter' = counter + 1
        /\ UNCHANGED <<reboots, wire, raw, daily, job, taken, split>>
    BY DEF Tick
  <1>2. Rows' = Rows
    BY <1>1 DEF Rows
  <1>3. ArchiveTypeOK'
    BY <1>1 DEF ArchiveInv, ArchiveTypeOK, Times
  <1>4. RetentionKept'
    BY <1>1 DEF ArchiveInv, ArchiveTypeOK, RetentionKept
  <1>5. JobIsCurrent'
    <2>1. \A c : aggregate_daily(c)' = aggregate_daily(c)
      BY <1>2 DEF aggregate_daily
    <2>2. job # NoJob => job.cutoff \in Int
      BY DEF ArchiveInv, ArchiveTypeOK, OpenJob
    <2> QED BY <1>1, <1>2, <2>2 DEF ArchiveInv, ArchiveTypeOK, JobIsCurrent, aggregate_daily
  <1>6. DayOf(now) \in Nat /\ DayOf(now') \in Nat /\ DayOf(now) <= DayOf(now')
    BY <1>1, DayBounds, DayMonotone DEF ArchiveInv, ArchiveTypeOK
  <1>7. ASSUME NEW d \in Days \ split PROVE Untouched(d)' \/ PutAway(d)'
    <2>1. d \in Nat /\ AfterLast(d) \in Int /\ now \in Nat
      BY DEF AfterLast, ArchiveInv, ArchiveTypeOK
    <2>2. SamplesOf(d)' = SamplesOf(d)
      BY <1>1 DEF SamplesOf
    <2>3. CASE Untouched(d)
      BY <1>2, <2>2, <2>3 DEF Untouched
    <2>4. CASE PutAway(d)
      BY <1>1, <1>2, <1>6, <2>1, <2>2, <2>4 DEF PutAway
    <2> QED BY <2>3, <2>4 DEF ArchiveInv
  <1> QED BY <1>1, <1>2, <1>3, <1>4, <1>5, <1>7 DEF ArchiveInv

-----------------------------------------------------------------------------
(* The theorems. *)

\* The inductive invariant of the metrics and their archive.
THEOREM ArchiveInvariance == Spec => []ArchiveInv
  <1>1. Init => ArchiveInv
    <2> SUFFICES ASSUME Init PROVE ArchiveInv
      OBVIOUS
    <2> USE ConstantFacts
    <2>1. ArchiveTypeOK
      BY DEF Init, ArchiveTypeOK, Times
    <2>2. taken = {} /\ job = NoJob /\ Rows = {}
      BY DEF Init, Rows
    <2> QED BY <2>1, <2>2 DEF ArchiveInv, RetentionKept, JobIsCurrent, Untouched, SamplesOf
  <1>2. ArchiveInv /\ [Next]_vars => ArchiveInv'
    <2> SUFFICES ASSUME ArchiveInv, [Next]_vars PROVE ArchiveInv'
      OBVIOUS
    <2>1. counter \in Nat /\ reboots \in Nat /\ wire \subseteq Sample /\ now \in Times
      BY DEF ArchiveInv, ArchiveTypeOK
    <2>2. ASSUME NEW net \in Net, Collect(net) PROVE ArchiveInv'
      <3>1. wire' \subseteq Sample
        BY <2>1, <2>2 DEF Collect, Sample
      <3> QED BY <2>1, <2>2, <3>1, TablesKept DEF Collect
    <2>3. ASSUME NEW m \in wire, Lose(m) PROVE ArchiveInv'
      BY <2>1, <2>3, TablesKept DEF Lose
    <2>4. CASE AbortCleanup
      BY <2>1, <2>4, TablesKept DEF AbortCleanup
    <2>5. CASE Reboot
      BY <2>1, <2>5, TablesKept DEF Reboot
    <2>6. CASE UNCHANGED vars
      BY <2>1, <2>6, TablesKept DEF vars
    <2> QED BY <2>2, <2>3, <2>4, <2>5, <2>6, IngestKeeps, BeginKeeps, CommitKeeps, TickKeeps
            DEF Next
  <1> QED BY <1>1, <1>2, PTL DEF Spec

\* _cleanup_old_metrics deletes no sample within METRIC_RETENTION_DAYS, however
\* long its transaction stays open.
THEOREM RetentionCorrect == Spec => []RetentionKept
  <1>1. ArchiveInv => RetentionKept
    BY DEF ArchiveInv
  <1> QED BY ArchiveInvariance, <1>1, PTL

\* A day that no cutoff of _cleanup_old_metrics fell into is raw in full or
\* archived in full until METRIC_AGG_RETENTION_DAYS.
THEOREM WholeDaysCorrect == Spec => []UnsplitDayIsWhole
  <1>1. ArchiveInv => UnsplitDayIsWhole
    BY DEF ArchiveInv, UnsplitDayIsWhole, Untouched, PutAway, SamplesOf
  <1> QED BY ArchiveInvariance, <1>1, PTL

-----------------------------------------------------------------------------
(* Sums over finite sets.  Induction is on the least size that fails. *)

\* A set of naturals that is not empty has a least element.
LEMMA LeastOf ==
    ASSUME NEW T \in SUBSET Nat, T # {}
    PROVE  \E n \in T : \A m \in T : n <= m
  <1>1. PICK n \in T : \A m \in T : ~(<<m, n>> \in OpToRel(<, Nat))
    BY NatLessThanWellFounded, WFMin
  <1>2. \A m \in T : ~(m < n)
    BY <1>1 DEF OpToRel
  <1> QED BY <1>2

\* ... and a greatest one, if it is bounded.
LEMMA GreatestOf ==
    ASSUME NEW T \in SUBSET Nat, T # {}, NEW N \in Nat, \A m \in T : m <= N
    PROVE  \E n \in T : \A m \in T : n >= m
  <1> DEFINE D == {d \in Nat : N - d \in T}
  <1>1. D # {} /\ D \in SUBSET Nat
    <2>1. PICK m \in T : TRUE
      OBVIOUS
    <2>2. N - m \in D
      BY <2>1
    <2> QED BY <2>2
  <1>2. PICK d \in D : \A c \in D : d <= c
    BY <1>1, LeastOf
  <1>3. ASSUME NEW m \in T PROVE N - d >= m
    <2>1. N - m \in D
      OBVIOUS
    <2> QED BY <1>2, <2>1
  <1> QED BY <1>2, <1>3

\* The element a sum over s takes first.
Pick(s) == CHOOSE x \in s : TRUE

\* g adds up f over the subsets of S, an element at a time.
AddsUp(g, f, S) ==
    /\ g \in [SUBSET S -> Int]
    /\ \A s \in SUBSET S :
           g[s] = IF s = {} THEN 0 ELSE f[Pick(s)] + g[s \ {Pick(s)}]

\* Taking the first element leaves a smaller set.
LEMMA PickLess ==
    ASSUME NEW S, IsFiniteSet(S), NEW s \in SUBSET S, s # {}
    PROVE  /\ Pick(s) \in s /\ s \ {Pick(s)} \in SUBSET S
           /\ IsFiniteSet(s) /\ Cardinality(s) \in Nat /\ Cardinality(s) > 0
           /\ Cardinality(s \ {Pick(s)}) = Cardinality(s) - 1
  <1>1. Pick(s) \in s
    BY DEF Pick
  <1>2. IsFiniteSet(s) /\ Cardinality(s) \in Nat
    BY FS_Subset, FS_CardinalityType
  <1>3. Cardinality(s) # 0
    BY <1>2, FS_EmptySet
  <1>4. Cardinality(s \ {Pick(s)}) = Cardinality(s) - 1
    BY <1>1, <1>2, FS_RemoveElement
  <1> QED BY <1>1, <1>2, <1>3, <1>4

\* There is such a g: no size of subsets is the first without one.
LEMMA SumExists ==
    ASSUME NEW S, IsFiniteSet(S), NEW f \in [S -> Int]
    PROVE  \E g : AddsUp(g, f, S)
  <1> DEFINE Upto(n, g) ==
                 /\ g \in [SUBSET S -> Int]
                 /\ \A s \in SUBSET S : Cardinality(s) <= n =>
                        g[s] = IF s = {} THEN 0 ELSE f[Pick(s)] + g[s \ {Pick(s)}]
             T == {n \in Nat : ~\E g : Upto(n, g)}
  <1>1. \A s \in SUBSET S : IsFiniteSet(s) /\ Cardinality(s) \in Nat
    BY FS_Subset, FS_CardinalityType
  <1>2. ASSUME T # {} PROVE FALSE
    <2>1. PICK n \in T : \A m \in T : n <= m
      BY <1>2, LeastOf
    <2>2. CASE n = 0
      <3> DEFINE g == [s \in SUBSET S |-> 0]
      <3>1. \A s \in SUBSET S : Cardinality(s) <= 0 => s = {}
        BY <1>1, FS_EmptySet
      <3>2. Upto(0, g)
        BY <3>1
      <3> QED BY <2>1, <2>2, <3>2
    <2>3. CASE n # 0
      <3>1. n - 1 \in Nat /\ n - 1 \notin T
        <4>1. n \in Nat /\ n - 1 \in Nat
          BY <2>3
        <4> HIDE DEF T
        <4> QED BY <2>1, <4>1
      <3>2. PICK h : Upto(n - 1, h)
        BY <3>1
      <3> DEFINE g == [s \in SUBSET S |->
                          IF Cardinality(s) = n THEN f[Pick(s)] + h[s \ {Pick(s)}] ELSE h[s]]
      <3>3. g \in [SUBSET S -> Int]
        <4> SUFFICES ASSUME NEW s \in SUBSET S PROVE g[s] \in Int
          OBVIOUS
        <4>1. CASE Cardinality(s) = n
          <5>1. s # {}
            BY <2>3, <4>1, FS_EmptySet
          <5>2. Pick(s) \in s /\ s \ {Pick(s)} \in SUBSET S
            BY <5>1, PickLess
          <5>3. f[Pick(s)] \in Int /\ h[s \ {Pick(s)}] \in Int
            BY <3>2, <5>2
          <5> QED BY <4>1, <5>3
        <4>2. CASE Cardinality(s) # n
          BY <3>2, <4>2
        <4> QED BY <4>1, <4>2
      <3>4. ASSUME NEW s \in SUBSET S, Cardinality(s) <= n
            PROVE  g[s] = IF s = {} THEN 0 ELSE f[Pick(s)] + g[s \ {Pick(s)}]
        <4>1. CASE s = {}
          <5>1. Cardinality(s) = 0 /\ h[s] = 0
            BY <3>1, <3>2, <4>1, FS_EmptySet
          <5> QED BY <2>3, <4>1, <5>1
        <4>2. CASE s # {}
          <5> DEFINE r == s \ {Pick(s)}
          <5>1. /\ r \in SUBSET S /\ Cardinality(s) \in Nat
                /\ Cardinality(r) = Cardinality(s) - 1
            BY <4>2, PickLess
          <5>2. g[r] = h[r]
            BY <3>4, <5>1
          <5>3. CASE Cardinality(s) = n
            BY <4>2, <5>1, <5>2, <5>3
          <5>4. CASE Cardinality(s) # n
            <6>1. Cardinality(s) <= n - 1
              BY <3>4, <5>1, <5>4
            <6>2. h[s] = f[Pick(s)] + h[r]
              BY <3>2, <4>2, <6>1
            <6> QED BY <4>2, <5>2, <5>4, <6>2
          <5> QED BY <5>3, <5>4
        <4> QED BY <4>1, <4>2
      <3>5. Upto(n, g)
        <4> HIDE DEF g
        <4> QED BY <3>3, <3>4
      <3> HIDE DEF Upto
      <3> QED BY <2>1, <3>5
    <2> QED BY <2>2, <2>3
  <1>3. PICK g : Upto(Cardinality(S), g)
    BY <1>1, <1>2
  <1>4. \A s \in SUBSET S : Cardinality(s) <= Cardinality(S)
    BY FS_Subset
  <1> QED BY <1>3, <1>4 DEF AddsUp

\* Whatever obeys the recursion adds up: its values are integers.
LEMMA SumIsInt ==
    ASSUME NEW S, IsFiniteSet(S), NEW f \in [S -> Int], NEW g,
           g = [s \in SUBSET S |-> g[s]],
           \A s \in SUBSET S :
               g[s] = IF s = {} THEN 0 ELSE f[Pick(s)] + g[s \ {Pick(s)}]
    PROVE  AddsUp(g, f, S)
  <1> DEFINE T == {n \in Nat : \E s \in SUBSET S : Cardinality(s) = n /\ g[s] \notin Int}
  <1>1. ASSUME T # {} PROVE FALSE
    <2>1. PICK n \in T : \A m \in T : n <= m
      BY <1>1, LeastOf
    <2>2. PICK s \in SUBSET S : Cardinality(s) = n /\ g[s] \notin Int
      BY <2>1
    <2>3. s # {}
      <3>1. {} \in SUBSET S
        OBVIOUS
      <3>2. g[{}] = 0
        BY <3>1
      <3>3. 0 \in Int
        OBVIOUS
      <3> QED BY <2>2, <3>2, <3>3, Zenon
    <2> DEFINE r == s \ {Pick(s)}
    <2>4. /\ Pick(s) \in s /\ r \in SUBSET S /\ Cardinality(r) = n - 1
          /\ n \in Nat /\ n > 0
      BY <2>2, <2>3, PickLess
    <2>5. n - 1 \notin T /\ n - 1 \in Nat
      <3> HIDE DEF T
      <3> QED BY <2>1, <2>4
    <2>6. g[r] \in Int
      BY <2>4, <2>5
    <2>7. g[s] = f[Pick(s)] + g[r]
      BY <2>3
    <2> QED BY <2>2, <2>4, <2>6, <2>7
  <1>2. \A s \in SUBSET S : Cardinality(s) \in Nat
    BY FS_Subset, FS_CardinalityType
  <1>3. \A s \in SUBSET S : g[s] \in Int
    BY <1>1, <1>2
  <1> QED BY <1>3 DEF AddsUp

\* What is added up is not more than the size of a set of which each summand
\* counts a part of its own.
LEMMA SumBound ==
    ASSUME NEW S, IsFiniteSet(S), NEW f \in [S -> Int], NEW g, AddsUp(g, f, S),
           NEW U, IsFiniteSet(U), NEW part \in [S -> SUBSET U],
           \A b, c \in S : b # c => part[b] \cap part[c] = {},
           \A b \in S : f[b] <= Cardinality(part[b])
    PROVE  g[S] <= Cardinality(U)
  <1> DEFINE Parts(s) == UNION {part[b] : b \in s}
             Bad(n) == \E s \in SUBSET S : /\ Cardinality(s) = n
                                           /\ ~(g[s] <= Cardinality(Parts(s)))
             T == {n \in Nat : Bad(n)}
  <1>0. \A s \in SUBSET S : /\ IsFiniteSet(s) /\ Cardinality(s) \in Nat
                            /\ Parts(s) \in SUBSET U /\ IsFiniteSet(Parts(s))
                            /\ Cardinality(Parts(s)) \in Nat /\ g[s] \in Int
    <2>1. \A s \in SUBSET S : Parts(s) \in SUBSET U
      OBVIOUS
    <2> HIDE DEF Parts
    <2> QED BY <2>1, FS_Subset, FS_CardinalityType DEF AddsUp
  <1>1. ASSUME T # {} PROVE FALSE
    <2>1. PICK n \in T : \A m \in T : n <= m
      BY <1>1, LeastOf
    <2>2. PICK s \in SUBSET S : Cardinality(s) = n /\ ~(g[s] <= Cardinality(Parts(s)))
      BY <2>1
    <2>3. s # {}
      <3>1. g[{}] = 0
        BY DEF AddsUp
      <3>2. {} \in SUBSET S
        OBVIOUS
      <3> HIDE DEF Parts
      <3>3. g[{}] <= Cardinality(Parts({}))
        BY <1>0, <3>1, <3>2
      <3> QED BY <2>2, <3>3
    <2> DEFINE x == Pick(s)
               r == s \ {x}
    <2>4. /\ x \in s /\ r \in SUBSET S /\ Cardinality(r) = n - 1 /\ n \in Nat /\ n > 0
      BY <2>2, <2>3, PickLess
    <2>5. g[r] <= Cardinality(Parts(r))
      <3>1. n - 1 \notin T /\ n - 1 \in Nat
        <4> HIDE DEF T
        <4> QED BY <2>1, <2>4
      <3> HIDE DEF Parts
      <3> QED BY <2>4, <3>1
    <2>6. g[s] = f[x] + g[r]
      BY <2>3 DEF AddsUp
    <2> HIDE DEF x, r
    <2>7. Parts(s) = part[x] \cup Parts(r) /\ part[x] \cap Parts(r) = {}
      <3>1. s = r \cup {x} /\ x \notin r /\ x \in S
        BY <2>4 DEF r
      <3> QED BY <2>4, <3>1
    <2>8. /\ IsFiniteSet(part[x]) /\ Cardinality(part[x]) \in Nat
          /\ f[x] \in Int /\ f[x] <= Cardinality(part[x])
      BY <2>4, FS_Subset, FS_CardinalityType
    <2>9. Cardinality(Parts(s)) = Cardinality(part[x]) + Cardinality(Parts(r))
      <3>1. IsFiniteSet(Parts(r)) /\ Cardinality({}) = 0 /\ Cardinality(Parts(r)) \in Nat
        BY <1>0, <2>4, FS_EmptySet
      <3> HIDE DEF Parts
      <3>2. Cardinality(part[x] \cup Parts(r)) =
                Cardinality(part[x]) + Cardinality(Parts(r)) - Cardinality(part[x] \cap Parts(r))
        BY <2>8, <3>1, FS_Union
      <3>3. Cardinality(part[x] \cap Parts(r)) = 0
        BY <2>7, <3>1
      <3>4. Cardinality(Parts(s)) = Cardinality(part[x] \cup Parts(r))
        BY <2>7
      <3> QED BY <2>8, <3>1, <3>2, <3>3, <3>4
    <2> HIDE DEF Parts
    <2> QED BY <1>0, <2>2, <2>4, <2>5, <2>6, <2>8, <2>9
  <1>2. g[S] <= Cardinality(Parts(S))
    <2>1. Cardinality(S) \in Nat /\ Cardinality(S) \notin T
      BY <1>0, <1>1
    <2> HIDE DEF Parts
    <2> QED BY <2>1
  <1>3. Cardinality(Parts(S)) <= Cardinality(U) /\ Cardinality(U) \in Nat
    <2> HIDE DEF Parts
    <2> QED BY <1>0, FS_Subset, FS_CardinalityType
  <1> HIDE DEF Parts
  <1> QED BY <1>0, <1>2, <1>3

-----------------------------------------------------------------------------
(* The pace of the counter *)

\* The samples there are, in the table and on their way.
Samples == {[at |-> t, net |-> raw[t]] : t \in Rows} \cup wire

\* Between two samples, and from a sample to now, the counter has not grown by
\* more than the time that has passed.
Pace(samples, time, count) ==
    /\ \A m \in samples : m.at <= time /\ (m.net # NoValue => count - m.net <= time - m.at)
    /\ \A m, n \in samples :
           m.net # NoValue /\ n.net # NoValue /\ m.at < n.at => n.net - m.net <= n.at - m.at

PaceKept == Pace(Samples, now, counter)

\* Samples that go, time that passes and a counter that keeps to it.
LEMMA PaceLater ==
    ASSUME NEW S, S \subseteq Sample, NEW R, R \subseteq S, NEW n \in Nat, NEW c \in Nat,
           NEW p \in Nat, NEW d \in Nat, n <= p, d - c <= p - n, Pace(S, n, c)
    PROVE  Pace(R, p, d)
  <1>1. \A m \in R : m.at \in Nat /\ (m.net # NoValue => m.net \in Nat)
    BY ConstantFacts DEF Sample, Net
  <1> QED BY <1>1 DEF Pace

\* The table and the wire hold samples.
LEMMA SamplesTyped ==
    ASSUME ArchiveInv
    PROVE  Samples \subseteq Sample
  <1>1. ASSUME NEW t \in Rows PROVE [at |-> t, net |-> raw[t]] \in Sample
    BY DEF ArchiveInv, ArchiveTypeOK, Rows, Sample
  <1> QED BY <1>1 DEF Samples, ArchiveInv, ArchiveTypeOK

\* A step keeps the pace.
LEMMA PaceStep ==
    ASSUME ArchiveInv, PaceKept, [Next]_vars
    PROVE  PaceKept'
  <1>0. /\ Samples \subseteq Sample /\ now \in Nat /\ counter \in Nat
        /\ wire \subseteq Sample /\ raw \in [Times -> Net \cup {Absent}]
        /\ Pace(Samples, now, counter)
    BY ConstantFacts, SamplesTyped DEF ArchiveInv, ArchiveTypeOK, PaceKept
  <1>1. ASSUME Samples' \subseteq Samples, now' \in Nat, counter' \in Nat,
               now <= now', counter' - counter <= now' - now
        PROVE  PaceKept'
    BY <1>0, <1>1, PaceLater DEF PaceKept
  <1>2. ASSUME NEW net \in Net, Collect(net)
        PROVE  PaceKept'
    <2> DEFINE m == [at |-> now, net |-> net]
    <2>1. /\ Samples' = Samples \cup {m} /\ now' = now /\ counter' = counter
          /\ net \in {counter, NoValue}
      BY <1>2 DEF Collect, Samples, Rows
    <2>2. m.at = now /\ m.net = net
      OBVIOUS
    <2>3. \A k \in Samples : k.at \in Nat /\ (k.net # NoValue => k.net \in Nat)
      BY <1>0, ConstantFacts DEF Sample, Net
    <2> HIDE DEF m
    <2>4. Pace(Samples \cup {m}, now, counter)
      <3>1. \A k \in Samples \cup {m} :
                k.at <= now /\ (k.net # NoValue => counter - k.net <= now - k.at)
        BY <1>0, <2>1, <2>2 DEF Pace
      <3>2. ASSUME NEW k \in Samples \cup {m}, NEW l \in Samples \cup {m},
                   k.net # NoValue, l.net # NoValue, k.at < l.at
            PROVE  l.net - k.net <= l.at - k.at
        <4>1. CASE k \in Samples /\ l \in Samples
          BY <1>0, <3>2, <4>1 DEF Pace
        <4>2. CASE k \in Samples /\ l = m
          BY <2>1, <2>2, <3>1, <3>2, <4>2
        <4>3. CASE k = m
          <5>1. l.at \in Nat /\ l.at <= now
            BY <1>0, <2>2, <2>3, <3>1
          <5> QED BY <1>0, <2>2, <3>2, <4>3, <5>1
        <4> QED BY <4>1, <4>2, <4>3
      <3> QED BY <3>1, <3>2 DEF Pace
    <2> QED BY <2>1, <2>4 DEF PaceKept
  <1>3. ASSUME NEW m \in wire, Lose(m)
        PROVE  PaceKept'
    <2>1. Samples' \subseteq Samples /\ now' = now /\ counter' = counter
      BY <1>3 DEF Lose, Samples, Rows
    <2> QED BY <1>0, <1>1, <2>1
  <1>4. ASSUME NEW m \in wire, ingest_metrics(m)
        PROVE  PaceKept'
    <2>1. /\ raw' = [raw EXCEPT ![m.at] = m.net] /\ wire' \subseteq wire
          /\ now' = now /\ counter' = counter
      BY <1>4 DEF ingest_metrics
    <2>2. m \in Sample /\ m = [at |-> m.at, net |-> m.net] /\ m.at \in Times
      BY <1>0 DEF Sample
    <2>3. ASSUME NEW t \in Rows'
          PROVE  [at |-> t, net |-> raw'[t]] \in Samples
      <3>1. CASE t = m.at
        BY <1>0, <2>1, <2>2, <3>1 DEF Samples
      <3>2. CASE t # m.at
        <4>1. t \in Rows /\ raw'[t] = raw[t]
          BY <1>0, <2>1, <3>2 DEF Rows
        <4> QED BY <4>1 DEF Samples
      <3> QED BY <3>1, <3>2
    <2>4. Samples' \subseteq Samples
      BY <2>1, <2>3 DEF Samples
    <2> QED BY <1>0, <1>1, <2>1, <2>4
  <1>5. CASE CommitCleanup
    <2>1. wire' = wire /\ now' = now /\ counter' = counter /\ raw' = delete_older_than
      BY <1>5 DEF CommitCleanup
    <2>2. \A t \in Rows' : t \in Rows /\ raw'[t] = raw[t]
      BY <2>1 DEF Rows, delete_older_than
    <2>3. Samples' \subseteq Samples
      BY <2>1, <2>2 DEF Samples
    <2> QED BY <1>0, <1>1, <2>1, <2>3
  <1>6. CASE BeginCleanup \/ AbortCleanup \/ UNCHANGED vars
    <2>1. raw' = raw /\ wire' = wire /\ now' = now /\ counter' = counter
      BY <1>6 DEF BeginCleanup, AbortCleanup, vars
    <2>2. Samples' = Samples
      BY <2>1 DEF Samples, Rows
    <2> QED BY <1>0, <1>1, <2>1, <2>2
  <1>7. CASE Reboot \/ Tick
    <2>1. /\ raw' = raw /\ wire' = wire
          /\ \/ now' = now /\ counter' = 0
             \/ now' = now + 1 /\ counter' = counter + 1
      BY <1>7 DEF Reboot, Tick
    <2>2. Samples' = Samples
      BY <2>1 DEF Samples, Rows
    <2>3. /\ now' \in Nat /\ counter' \in Nat /\ now <= now'
          /\ counter' - counter <= now' - now
      BY <1>0, <2>1
    <2> QED BY <1>1, <2>2, <2>3
  <1> QED BY <1>2, <1>3, <1>4, <1>5, <1>6, <1>7 DEF Next

\* The samples of a host never show more traffic than there was time for,
\* whatever is lost, late or cleaned up and however often the counter restarts.
THEOREM PaceInvariance == Spec => []PaceKept
  <1>1. Init => PaceKept
    <2> SUFFICES ASSUME Init PROVE PaceKept
      OBVIOUS
    <2>1. Rows = {} /\ wire = {}
      BY DEF Init, Rows
    <2>2. Samples = {}
      BY <2>1 DEF Samples
    <2> QED BY <2>2 DEF PaceKept, Pace
  <1>2. ArchiveInv /\ PaceKept /\ [Next]_vars => PaceKept'
    BY PaceStep
  <1> QED BY ArchiveInvariance, <1>1, <1>2, PTL DEF Spec

-----------------------------------------------------------------------------
(* The chart *)

\* The sum of the chart's points adds them up in some order.
LEMMA ChartAddsUp ==
    ASSUME IsFiniteSet(Buckets), \A b \in Buckets : Transferred(b) \in Int
    PROVE  \E g : /\ AddsUp(g, [b \in Buckets |-> Transferred(b)], Buckets)
                  /\ MapThenSumSet(Transferred, Buckets) = g[Buckets]
  <1> DEFINE f == [b \in Buckets |-> Transferred(b)]
             Sums(g) == g = [s \in SUBSET Buckets |->
                                IF s = {} THEN 0
                                ELSE Transferred(CHOOSE x \in s : TRUE)
                                     + g[s \ {CHOOSE x \in s : TRUE}]]
             iter == CHOOSE g : Sums(g)
  <1>1. f \in [Buckets -> Int]
    OBVIOUS
  <1>2. PICK h : AddsUp(h, f, Buckets)
    BY <1>1, SumExists
  <1>3. \A s \in SUBSET Buckets : s # {} => (CHOOSE x \in s : TRUE) \in Buckets
    OBVIOUS
  <1>4. Sums(h)
    <2> SUFFICES ASSUME NEW s \in SUBSET Buckets
                 PROVE  h[s] = IF s = {} THEN 0
                                ELSE Transferred(CHOOSE x \in s : TRUE)
                                     + h[s \ {CHOOSE x \in s : TRUE}]
      BY <1>2 DEF AddsUp
    <2> QED BY <1>2, <1>3 DEF AddsUp, Pick
  <1>5. Sums(iter)
    BY <1>4
  <1>6. MapThenSumSet(Transferred, Buckets) = iter[Buckets]
    BY DEF MapThenSumSet, MapThenFoldSet
  <1>7. AddsUp(iter, f, Buckets)
    <2> HIDE DEF iter
    <2>1. iter = [s \in SUBSET Buckets |-> iter[s]]
      BY <1>5
    <2>2. \A s \in SUBSET Buckets :
              iter[s] = IF s = {} THEN 0 ELSE f[Pick(s)] + iter[s \ {Pick(s)}]
      BY <1>3, <1>5 DEF Pick
    <2> QED BY <1>1, <2>1, <2>2, SumIsInt
  <1> QED BY <1>6, <1>7

\* Max and Min of a bounded set of naturals are what their names say.
LEMMA MaxMin ==
    ASSUME NEW T \in SUBSET Nat, T # {}, NEW N \in Nat, \A m \in T : m <= N
    PROVE  /\ Max(T) \in T /\ \A m \in T : m <= Max(T)
           /\ Min(T) \in T /\ \A m \in T : Min(T) <= m
  <1>1. \E n \in T : \A m \in T : n >= m
    BY GreatestOf
  <1>2. \E n \in T : \A m \in T : n <= m
    BY LeastOf
  <1>3. Max(T) \in T /\ \A m \in T : Max(T) >= m
    BY <1>1 DEF Max
  <1>4. Min(T) \in T /\ \A m \in T : Min(T) <= m
    BY <1>2 DEF Min
  <1>5. \A m \in T : m <= Max(T)
    BY <1>3
  <1> QED BY <1>3, <1>4, <1>5

\* A later bucket holds later slots.
LEMMA BucketOrder ==
    ASSUME NEW t \in Nat, NEW u \in Nat
    PROVE  /\ t \div Bucket \in Nat /\ t \div Bucket <= t
           /\ t \div Bucket < u \div Bucket => t < u
  <1> DEFINE p == t \div Bucket
             q == u \div Bucket
  <1>0. Bucket \in Nat /\ Bucket > 0
    BY MetricArchiveAssumption
  <1>1. p \in Nat /\ p * Bucket <= t /\ t < (p + 1) * Bucket
    BY <1>0, Z3
  <1>2. q \in Nat /\ q * Bucket <= u /\ u < (q + 1) * Bucket
    BY <1>0, Z3
  <1> HIDE DEF p, q
  <1>3. p <= t
    BY <1>0, <1>1
  <1>4. p < q => t < u
    <2> SUFFICES ASSUME p < q PROVE t < u
      OBVIOUS
    <2>1. p + 1 <= q
      BY <1>1, <1>2
    <2>2. (p + 1) * Bucket <= q * Bucket
      BY <1>0, <1>1, <1>2, <2>1
    <2>3. (p + 1) * Bucket \in Nat /\ q * Bucket \in Nat
      BY <1>0, <1>1, <1>2
    <2> QED BY <1>1, <1>2, <2>2, <2>3
  <1> QED BY <1>1, <1>3, <1>4 DEF p, q

\* The rows and buckets of the chart are bounded sets of naturals.
LEMMA ChartSets ==
    ASSUME ArchiveInv
    PROVE  /\ InRange \in SUBSET Times /\ Times \in SUBSET Nat
           /\ Buckets \in SUBSET Nat /\ \A b \in Buckets : b <= MaxTime
           /\ \A b \in Buckets : \E t \in InRange : t \div Bucket = b
           /\ \A t \in InRange : t \div Bucket \in Buckets
           /\ \A t \in InRange : t <= MaxTime /\ raw[t] \in Times \cup {NoValue}
           /\ MaxTime \in Nat /\ NoValue \notin Nat
  <1>1. InRange \in SUBSET Times /\ \A t \in InRange : raw[t] \in Times \cup {NoValue}
    BY DEF InRange, Rows, ArchiveInv, ArchiveTypeOK, Net
  <1>2. Times = 0..MaxTime /\ MaxTime \in Nat /\ NoValue \notin Nat /\ Times \in SUBSET Nat
    BY MetricArchiveAssumption DEF Times
  <1>3. \A t \in InRange : t \in Nat /\ t <= MaxTime
    BY <1>1, <1>2
  <1>4. /\ \A b \in Buckets : \E t \in InRange : t \div Bucket = b
        /\ \A t \in InRange : t \div Bucket \in Buckets
    BY DEF Buckets
  <1>5. ASSUME NEW b \in Buckets PROVE b \in Nat /\ b <= MaxTime
    <2>1. PICK t \in InRange : t \div Bucket = b
      BY <1>4
    <2>2. t \in Nat /\ t <= MaxTime
      BY <1>3
    <2>3. t \div Bucket \in Nat /\ t \div Bucket <= t
      BY <2>2, BucketOrder
    <2> QED BY <1>2, <2>1, <2>2, <2>3
  <1> QED BY <1>1, <1>2, <1>3, <1>4, <1>5

\* What network_max takes from a bucket is the value of one of its samples.
LEMMA BucketHasMax ==
    ASSUME ArchiveInv, NEW b \in Buckets
    PROVE  /\ network_max(b) \in Nat \cup {NoValue}
           /\ \E t \in InRange :
                  /\ t \div Bucket = b
                  /\ network_max(b) # NoValue => raw[t] = network_max(b)
  <1> DEFINE slots == {u \in InRange : u \div Bucket = b}
             values == {raw[t] : t \in slots} \ {NoValue}
  <1>0. network_max(b) = IF values = {} THEN NoValue ELSE Max(values)
    BY DEF network_max
  <1>1. values \in SUBSET Nat /\ \A v \in values : v <= MaxTime /\ v # NoValue
    BY ChartSets DEF Times
  <1>2. CASE values = {}
    BY <1>0, <1>2, ChartSets
  <1>3. CASE values # {}
    <2>1. Max(values) \in values
      BY <1>1, <1>3, MaxMin, ChartSets
    <2>2. PICK t \in slots : raw[t] = Max(values)
      BY <2>1
    <2> QED BY <1>0, <1>1, <1>3, <2>1, <2>2
  <1> QED BY <1>2, <1>3

\* The sample a bucket's value comes from.
At(b) == CHOOSE t \in InRange :
             /\ t \div Bucket = b
             /\ network_max(b) # NoValue => raw[t] = network_max(b)

Earlier(b) == {c \in Buckets : c < b}

\* The slots between the sample of the bucket before and the bucket's own.
Between(b) == IF Earlier(b) = {} THEN {} ELSE (At(Max(Earlier(b))) + 1)..At(b)

\* The samples of the buckets follow each other as the buckets do.
LEMMA AtFacts ==
    ASSUME ArchiveInv
    PROVE  /\ \A b \in Buckets :
                  /\ At(b) \in InRange /\ At(b) \in Nat /\ At(b) \div Bucket = b
                  /\ network_max(b) # NoValue => raw[At(b)] = network_max(b)
           /\ \A b, c \in Buckets : b < c => At(b) < At(c)
           /\ \A b \in Buckets : Earlier(b) # {} =>
                  /\ Max(Earlier(b)) \in Buckets /\ Max(Earlier(b)) < b
                  /\ \A c \in Buckets : c < b => c <= Max(Earlier(b))
  <1>1. ASSUME NEW b \in Buckets
        PROVE  /\ At(b) \in InRange /\ At(b) \in Nat /\ At(b) \div Bucket = b
               /\ network_max(b) # NoValue => raw[At(b)] = network_max(b)
    <2>1. /\ At(b) \in InRange /\ At(b) \div Bucket = b
          /\ network_max(b) # NoValue => raw[At(b)] = network_max(b)
      BY BucketHasMax DEF At
    <2> QED BY <2>1, ChartSets
  <1>2. ASSUME NEW b \in Buckets, NEW c \in Buckets, b < c
        PROVE  At(b) < At(c)
    BY <1>1, <1>2, BucketOrder
  <1>3. ASSUME NEW b \in Buckets, Earlier(b) # {}
        PROVE  /\ Max(Earlier(b)) \in Buckets /\ Max(Earlier(b)) < b
               /\ \A c \in Buckets : c < b => c <= Max(Earlier(b))
    <2>1. Earlier(b) \in SUBSET Nat /\ \A c \in Earlier(b) : c <= MaxTime
      BY ChartSets DEF Earlier
    <2>2. Max(Earlier(b)) \in Earlier(b) /\ \A c \in Earlier(b) : c <= Max(Earlier(b))
      BY <1>3, <2>1, MaxMin, ChartSets
    <2> QED BY <2>2 DEF Earlier
  <1> QED BY <1>1, <1>2, <1>3

\* A point of the chart shows no more than its slots.
LEMMA PointFits ==
    ASSUME ArchiveInv, PaceKept, NEW b \in Buckets
    PROVE  /\ Transferred(b) \in Nat
           /\ IsFiniteSet(Between(b)) /\ Transferred(b) <= Cardinality(Between(b))
  <1> DEFINE c == network_max(b)
             p == Previous(b)
  <1>0. \A d \in Int : Max({0, d}) \in {0, d} /\ Max({0, d}) >= 0 /\ Max({0, d}) >= d
    <2> SUFFICES ASSUME NEW d \in Int
                 PROVE  Max({0, d}) \in {0, d} /\ Max({0, d}) >= 0 /\ Max({0, d}) >= d
      OBVIOUS
    <2>1. \E x \in {0, d} : \A y \in {0, d} : x >= y
      OBVIOUS
    <2> QED BY <2>1 DEF Max
  <1>1. Transferred(b) = IF p = NoValue \/ c = NoValue THEN 0 ELSE Max({0, c - p})
    BY DEF Transferred
  <1>2. c \in Nat \cup {NoValue}
    BY BucketHasMax
  <1>3. CASE Earlier(b) = {}
    <2>1. p = NoValue
      BY <1>3 DEF Previous, Earlier
    <2>2. Between(b) = {}
      BY <1>3 DEF Between
    <2> QED BY <1>1, <2>1, <2>2, FS_EmptySet
  <1>4. CASE Earlier(b) # {}
    <2> DEFINE a == Max(Earlier(b))
    <2>1. a \in Buckets /\ a < b /\ p = network_max(a) /\ Between(b) = (At(a) + 1)..At(b)
      BY <1>4, AtFacts DEF Previous, Earlier, Between
    <2> HIDE DEF a, c, p
    <2>2. /\ At(a) \in Nat /\ At(b) \in Nat /\ At(a) < At(b)
          /\ At(a) \in InRange /\ At(b) \in InRange
      BY <2>1, AtFacts
    <2>3. IsFiniteSet(Between(b)) /\ Cardinality(Between(b)) = At(b) - At(a)
      BY <2>1, <2>2, FS_Interval
    <2>4. p \in Nat \cup {NoValue}
      BY <2>1, BucketHasMax
    <2>5. CASE p # NoValue /\ c # NoValue
      <3>1. raw[At(a)] = p /\ raw[At(b)] = c
        BY <2>1, <2>5, AtFacts DEF c
      <3>2. At(a) \in Rows /\ At(b) \in Rows
        BY <2>2 DEF InRange
      <3>3. [at |-> At(a), net |-> p] \in Samples /\ [at |-> At(b), net |-> c] \in Samples
        BY <3>1, <3>2 DEF Samples
      <3>4. c - p <= At(b) - At(a)
        BY <2>2, <2>5, <3>3 DEF PaceKept, Pace
      <3>5. c - p \in Int /\ Transferred(b) = Max({0, c - p})
        BY <1>1, <1>2, <2>4, <2>5
      <3> QED BY <1>0, <2>2, <2>3, <3>4, <3>5
    <2>6. CASE p = NoValue \/ c = NoValue
      BY <1>1, <2>2, <2>3, <2>6
    <2> QED BY <2>5, <2>6
  <1> QED BY <1>3, <1>4

\* The slots of two points are not the same ones.
LEMMA BetweenApart ==
    ASSUME ArchiveInv, NEW b \in Buckets, NEW c \in Buckets, b # c
    PROVE  Between(b) \cap Between(c) = {}
  <1>0. Buckets \in SUBSET Nat
    BY ChartSets
  <1>1. ASSUME NEW x \in Buckets, NEW y \in Buckets, x < y
        PROVE  Between(x) \cap Between(y) = {}
    <2>1. Earlier(y) # {}
      BY <1>1 DEF Earlier
    <2> DEFINE a == Max(Earlier(y))
    <2>2. a \in Buckets /\ x <= a /\ Between(y) = (At(a) + 1)..At(y)
      BY <1>1, <2>1, AtFacts DEF Between
    <2> HIDE DEF a
    <2>3. At(x) \in Nat /\ At(a) \in Nat /\ At(x) <= At(a) /\ At(y) \in Nat
      BY <1>0, <1>1, <2>2, AtFacts
    <2>4. \A t \in Between(x) : t \in Int /\ t <= At(x)
      <3>1. CASE Earlier(x) = {}
        BY <3>1 DEF Between
      <3>2. CASE Earlier(x) # {}
        <4>1. At(Max(Earlier(x))) \in Nat
          BY <3>2, AtFacts
        <4> QED BY <2>3, <3>2, <4>1 DEF Between
      <3> QED BY <3>1, <3>2
    <2>5. \A t \in Between(y) : t \in Int /\ t > At(a)
      BY <2>2, <2>3
    <2> QED BY <2>3, <2>4, <2>5
  <1>2. b < c \/ c < b
    BY <1>0
  <1> QED BY <1>1, <1>2

\* The invariants leave no room for a chart that shows too much.
LEMMA ChartFits ==
    ASSUME ArchiveInv, PaceKept
    PROVE  SummaryNeverOverstates
  <1> SUFFICES ASSUME InRange # {}
               PROVE  MapThenSumSet(Transferred, Buckets) <= Max(InRange) - Min(InRange)
    BY DEF SummaryNeverOverstates
  <1> DEFINE first == Min(InRange)
             last == Max(InRange)
             U == (first + 1)..last
             f == [b \in Buckets |-> Transferred(b)]
             part == [b \in Buckets |-> Between(b)]
  <1>1. /\ first \in Nat /\ last \in Nat /\ first <= last
        /\ \A t \in InRange : t \in Nat /\ first <= t /\ t <= last
    <2>1. InRange \in SUBSET Nat /\ \A t \in InRange : t <= MaxTime
      BY ChartSets
    <2>2. /\ last \in InRange /\ \A t \in InRange : t <= last
          /\ first \in InRange /\ \A t \in InRange : first <= t
      BY <2>1, MaxMin, ChartSets
    <2> QED BY <2>1, <2>2
  <1> HIDE DEF first, last
  <1>2. IsFiniteSet(U) /\ Cardinality(U) = last - first
    <2>1. first + 1 \in Int /\ last \in Int
      BY <1>1
    <2>2. /\ IsFiniteSet(U)
          /\ Cardinality(U) = IF first + 1 > last THEN 0 ELSE last - (first + 1) + 1
      BY <2>1, FS_Interval
    <2> QED BY <1>1, <2>2
  <1>3. IsFiniteSet(Buckets)
    BY ChartSets, FS_BoundedSetOfNaturals
  <1>4. \A b \in Buckets : Transferred(b) \in Int /\ Transferred(b) <= Cardinality(Between(b))
    BY PointFits
  <1>5. PICK g : /\ AddsUp(g, f, Buckets)
                 /\ MapThenSumSet(Transferred, Buckets) = g[Buckets]
    BY <1>3, <1>4, ChartAddsUp
  <1>6. ASSUME NEW b \in Buckets PROVE Between(b) \in SUBSET U
    <2>1. CASE Earlier(b) = {}
      BY <2>1 DEF Between
    <2>2. CASE Earlier(b) # {}
      <3> DEFINE a == Max(Earlier(b))
      <3>1. a \in Buckets /\ Between(b) = (At(a) + 1)..At(b)
        BY <2>2, AtFacts DEF Between
      <3> HIDE DEF a
      <3>2. /\ At(a) \in Nat /\ At(b) \in Nat /\ first <= At(a) /\ At(b) <= last
        BY <1>1, <3>1, AtFacts
      <3> QED BY <1>1, <3>1, <3>2
    <2> QED BY <2>1, <2>2
  <1>7. /\ f \in [Buckets -> Int] /\ part \in [Buckets -> SUBSET U]
        /\ \A b, c \in Buckets : b # c => part[b] \cap part[c] = {}
        /\ \A b \in Buckets : f[b] <= Cardinality(part[b])
    BY <1>4, <1>6, BetweenApart
  <1> HIDE DEF f, part, U
  <1>8. g[Buckets] <= Cardinality(U)
    BY <1>2, <1>3, <1>5, <1>7, SumBound
  <1> QED BY <1>2, <1>5, <1>8 DEF first, last

\* What the network chart adds up to is never more than was transferred in the
\* range, for any retention, lookback and size of a bucket.
THEOREM SummaryCorrect == Spec => []SummaryNeverOverstates
  <1>1. ArchiveInv /\ PaceKept => SummaryNeverOverstates
    BY ChartFits
  <1> QED BY ArchiveInvariance, PaceInvariance, <1>1, PTL
=============================================================================
