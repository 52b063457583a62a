---------------------------- MODULE HourlyReporter ----------------------------
(***************************************************************************)
(* monitoring/hourly_reporter.py: the counters of the engine, and the task *)
(* that formats them into a report at every boundary of the interval,      *)
(* awaits the notifier, and clears them.  The engine shares the event loop *)
(* and goes on counting while a report is on its way.  What is counted     *)
(* (bars, signals, verdicts) is an event with a number of its own.         *)
(***************************************************************************)
EXTENDS Integers, Sequences

CONSTANTS MaxCounted, MaxReports      \* bounds: events, reports

ReporterAssumption == MaxCounted \in Nat /\ MaxReports \in Nat

VARIABLES
  at,         \* the task: waiting, sending or ended
  stop_event,
  stats,      \* HourlyStats: what was counted and not cleared
  reports,    \* what each report told
  counted, counted_while_sending   \* history: events so far, those that came in a send

vars == <<at, stop_event, stats, reports, counted, counted_while_sending>>

Init ==
  /\ at = "waiting" /\ stop_event = FALSE
  /\ stats = {} /\ reports = <<>>
  /\ counted = 0 /\ counted_while_sending = {}

\* record_bar, record_signal, record_compliance
Record ==
  /\ counted < MaxCounted /\ counted' = counted + 1
  /\ stats' = stats \cup {counted'}
  /\ counted_while_sending' =
       counted_while_sending \cup (IF at = "sending" THEN {counted'} ELSE {})
  /\ UNCHANGED <<at, stop_event, reports>>

\* run_periodic, a boundary: format, then the notifier is awaited.
Boundary ==
  /\ at = "waiting" /\ ~stop_event /\ Len(reports) < MaxReports
  /\ reports' = Append(reports, stats) /\ at' = "sending"
  /\ UNCHANGED <<stop_event, stats, counted, counted_while_sending>>

\* The counters after a send that went through, or did not.
\* Variant: kept for the next report if the send failed.
Reset_IfSent(ok) == IF ok THEN {} ELSE stats
Reset(ok) == {}

\* send returns; so it does at once if the notifier is disabled.
SendReturns(ok) ==
  /\ at = "sending" /\ stats' = Reset(ok)
  /\ at' = IF stop_event THEN "ended" ELSE "waiting"
  /\ UNCHANGED <<stop_event, reports, counted, counted_while_sending>>

StopSet == ~stop_event /\ stop_event' = TRUE
           /\ UNCHANGED <<at, stats, reports, counted, counted_while_sending>>

\* The wait ends with the stop, or the task is cancelled at the end of the
\* program, in a send as well.
Ends ==
  /\ stop_event /\ at # "ended" /\ at' = "ended"
  /\ stats' = IF at = "sending" THEN {} ELSE stats
  /\ UNCHANGED <<stop_event, reports, counted, counted_while_sending>>

Next == Record \/ Boundary \/ (\E ok \in BOOLEAN : SendReturns(ok)) \/ StopSet \/ Ends
Spec == Init /\ [][Next]_vars

-----------------------------------------------------------------------------
(* Properties. *)

TypeOK ==
  /\ at \in {"waiting", "sending", "ended"} /\ stop_event \in BOOLEAN
  /\ counted \in 0 .. MaxCounted
  /\ stats \subseteq 1 .. counted /\ counted_while_sending \subseteq 1 .. counted
  /\ \A i \in DOMAIN reports : reports[i] \subseteq 1 .. counted

\* hourly_reporter.py:251-253 "ALWAYS reset stats afterward (even on send
\* failure) so a single Telegram outage doesn't double-count the next window":
\* nothing is told twice, and what was counted between two sends is in a report
\* or still due.  What is counted during a send is not covered: it is wiped.
EachReportedOnce ==
  /\ \A i, j \in DOMAIN reports : i # j => reports[i] \cap reports[j] = {}
  /\ at = "waiting" =>
       (1 .. counted) \ counted_while_sending
         = stats \cup UNION {reports[i] : i \in DOMAIN reports}
=============================================================================
