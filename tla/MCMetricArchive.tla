-------------------------- MODULE MCMetricArchive --------------------------
(* Days of two slots, a day of raw samples, two days of archive. *)
EXTENDS MetricArchive
=============================================================================
