----------------------------- MODULE Telemetry -----------------------------
(***************************************************************************)
(* The counters of server/telemetry.cpp.  A thread that has served a       *)
(* request reads the clock and then, under the mutex, appends that time to *)
(* the deques and prunes their fronts; METRICS copies the deques and       *)
(* counts.  Between reading the clock and getting the mutex any other      *)
(* thread may run, so times need not be appended in order.                 *)
(*                                                                         *)
(* The mean latency is left out: latencies_ is kept like the others, and   *)
(* which of its entries are there is all that is modelled.                 *)
(***************************************************************************)
EXTENDS Integers, SequencesExt, FiniteSetsExt

CONSTANTS
  Threads,
  HitsWindow, LatenciesWindow, ErrorsWindow,   \* 600, 10 and 60 seconds
  RateWindow,                                  \* 1 second
  MaxTime,       \* bound: the clock
  MaxRequests    \* bound: requests recorded

ASSUME TelemetryAssumption ==
  /\ {HitsWindow, LatenciesWindow, ErrorsWindow, RateWindow, MaxTime, MaxRequests} \subseteq Nat
  /\ RateWindow <= HitsWindow  \* the rate counts what the deque of hits still has
  /\ IsFiniteSet(Threads)

VARIABLES
  clock,      \* steady_clock
  hits, latencies, errors,
  thread,     \* a thread between the clock and the mutex: the time it read
              \* and whether its request failed; otherwise Away
  log         \* all requests recorded, oldest record first; for the properties

telVars == <<clock, hits, latencies, errors, thread, log>>

Away == [now |-> -1, error |-> FALSE]

TelemetryInit ==
  /\ clock = 0
  /\ hits = <<>> /\ latencies = <<>> /\ errors = <<>>
  /\ thread = [t \in Threads |-> Away]
  /\ log = <<>>

Tick ==
  /\ clock < MaxTime
  /\ clock' = clock + 1
  /\ UNCHANGED <<hits, latencies, errors, thread, log>>

(* record_request up to the mutex. *)
ReadClock(t, error) ==
  /\ thread[t] = Away
  /\ Len(log) + Cardinality({u \in Threads : thread[u] # Away}) < MaxRequests
  /\ thread' = [thread EXCEPT ![t] = [now |-> clock, error |-> error]]
  /\ UNCHANGED <<clock, hits, latencies, errors, log>>

(* prune_old: from the front, up to the first entry inside the window. *)
(* Mutant: an entry at the very edge of the window goes, too. *)
Pruned_EdgeToo(times, now, window) ==
  LET i == SelectInSeq(times, LAMBDA time : now - time < window)
  IN  IF i = 0 THEN <<>> ELSE SubSeq(times, i, Len(times))

Pruned(times, now, window) ==
  LET i == SelectInSeq(times, LAMBDA time : now - time <= window)
  IN  IF i = 0 THEN <<>> ELSE SubSeq(times, i, Len(times))

(* record_request under the mutex. *)
(* Mutant: a failed request counts as two hits. *)
Record_ErrorHitsTwice(t) ==
  LET now == thread[t].now
      error == thread[t].error
  IN  /\ thread[t] # Away
      /\ thread' = [thread EXCEPT ![t] = Away]
      /\ hits' = Pruned((IF error THEN Append(hits, now) ELSE hits) \o <<now>>, now, HitsWindow)
      /\ latencies' = Pruned(Append(latencies, now), now, LatenciesWindow)
      /\ errors' = Pruned(IF error THEN Append(errors, now) ELSE errors, now, ErrorsWindow)
      /\ log' = Append(log, thread[t])
      /\ UNCHANGED clock

(* Mutant: errors are pruned only when there is a new one. *)
Record_LazyErrors(t) ==
  LET now == thread[t].now
      error == thread[t].error
  IN  /\ thread[t] # Away
      /\ thread' = [thread EXCEPT ![t] = Away]
      /\ hits' = Pruned(Append(hits, now), now, HitsWindow)
      /\ latencies' = Pruned(Append(latencies, now), now, LatenciesWindow)
      /\ errors' = IF error THEN Pruned(Append(errors, now), now, ErrorsWindow) ELSE errors
      /\ log' = Append(log, thread[t])
      /\ UNCHANGED clock

Record(t) ==
  LET now == thread[t].now
      error == thread[t].error
  IN  /\ thread[t] # Away
      /\ thread' = [thread EXCEPT ![t] = Away]
      /\ hits' = Pruned(Append(hits, now), now, HitsWindow)
      /\ latencies' = Pruned(Append(latencies, now), now, LatenciesWindow)
      /\ errors' = Pruned(IF error THEN Append(errors, now) ELSE errors, now, ErrorsWindow)
      /\ log' = Append(log, thread[t])
      /\ UNCHANGED clock

(* snapshot_json: its counts.  The clock it reads is not used.  The rate   *)
(* counts from the back to the first time too old for the last one.        *)
RpsNow(times) ==
  LET back == Reverse(times)
      i == SelectInSeq(back, LAMBDA time : times[Len(times)] - time > RateWindow)
  IN  IF i = 0 THEN Len(times) ELSE i - 1

ErrorsLastMin == Len(errors)

TelemetryNext ==
  \/ Tick
  \/ \E t \in Threads : Record(t) \/ \E error \in BOOLEAN : ReadClock(t, error)

TelemetrySpec == TelemetryInit /\ [][TelemetryNext]_telVars

-----------------------------------------------------------------------------
(* Properties. *)

(* The requests, all or the failed ones, and the entries of a deque, with   *)
(* times not before the given one.                                          *)
RecordedSince(failed, time) ==
  {i \in DOMAIN log : (failed => log[i].error) /\ log[i].now >= time}

Since(d, time) == {i \in DOMAIN d : d[i] >= time}

(* The deques hold times the clock has shown, and no more than were put in. *)
TelTypeOK ==
  /\ clock \in 0..MaxTime
  /\ \A d \in {hits, latencies, errors} :
       Range(d) \subseteq 0..clock /\ Len(d) <= Len(log)
  /\ \A t \in Threads : thread[t].now \in -1..clock /\ thread[t].error \in BOOLEAN
  /\ Len(log) <= MaxRequests

(* The deque still has every request recorded within its window. *)
Complete(d, window, failed) ==
  Cardinality(Since(d, clock - window)) = Cardinality(RecordedSince(failed, clock - window))

(* No recorded request is lost before it leaves its window, in whatever     *)
(* order threads get the mutex: METRICS never reports fewer errors than the *)
(* last minute had.  A late thread prunes by its own, older time.           *)
NothingUnderreported ==
  /\ Complete(hits, HitsWindow, FALSE)
  /\ Complete(latencies, LatenciesWindow, FALSE)
  /\ Complete(errors, ErrorsWindow, TRUE)
  /\ ErrorsLastMin >= Cardinality(RecordedSince(TRUE, clock - ErrorsWindow))

(* With requests recorded in the order of their times METRICS is exact as   *)
(* of the last request: the rate counts the hits no more than a second      *)
(* older, errors_last_min the errors of the minute before it.  (As of now   *)
(* it is not: a snapshot prunes nothing, so that after a quiet minute       *)
(* errors_last_min still counts errors more than a minute old.)             *)
ReportExactAtLastRequest ==
  (log # <<>> /\ \A i \in 1..Len(log) - 1 : log[i].now <= log[i + 1].now) =>
    LET last == Last(log).now
    IN  /\ RpsNow(hits) = Cardinality(RecordedSince(FALSE, last - RateWindow))
        /\ ErrorsLastMin = Cardinality(RecordedSince(TRUE, last - ErrorsWindow))
=============================================================================
