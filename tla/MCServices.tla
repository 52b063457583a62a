------------------------------ MODULE MCServices ------------------------------
(***************************************************************************)
(* Four parts that run beside the engine and share nothing with each other *)
(* or with it but the event loop: the pending orders, the daily tracker    *)
(* with its file, the supervisor of the process, and the reporter.  Each   *)
(* behaviour is one of one part, which `part` names; the others rest.      *)
(***************************************************************************)
EXTENDS Integers, Sequences

CONSTANTS
  Lifetime, MaxNow, MaxOrders,                                     \* PendingExpiry
  StartingEquity, Results, Floats, MaxDay, MaxEvents, MaxDeaths,   \* DailyTracker
  MaxAttempts, RealMode, Balances, GuardPct,                       \* Supervisor
  MaxCounted, MaxReports                                           \* HourlyReporter

VARIABLES
  part,
  now, orders, pendings, promoted, pending_pc, called_at, queue, disowned,
  day, realised, floating, up, state, file, opens, seen, born, unsaved, whole, events, deaths,
  loop_pc, attempt, child, code, terminated, stop_requested, last_balance, result,
  balance, starts, passed,
  at, stop_event, stats, reports, counted, counted_while_sending

Pending  == INSTANCE PendingExpiry WITH pc <- pending_pc
Tracker  == INSTANCE DailyTracker
Loop     == INSTANCE Supervisor WITH pc <- loop_pc
Reporter == INSTANCE HourlyReporter

ASSUME ServicesAssumption ==
  /\ Pending!PendingAssumption /\ Tracker!TrackerAssumption
  /\ Loop!SupervisorAssumption /\ Reporter!ReporterAssumption

pendingvars  == <<now, orders, pendings, promoted, pending_pc, called_at, queue, disowned>>
trackervars  == <<day, realised, floating, up, state, file, opens, seen, born, unsaved, whole,
                  events, deaths>>
loopvars     == <<loop_pc, attempt, child, code, terminated, stop_requested, last_balance,
                  result, balance, starts, passed>>
reportervars == <<at, stop_event, stats, reports, counted, counted_while_sending>>
vars == <<part, pendingvars, trackervars, loopvars, reportervars>>

Init ==
  /\ part \in {"pending", "tracker", "loop", "reporter"}
  /\ Pending!Init /\ Tracker!Init /\ Reporter!Init /\ Loop!Init

Only(p, others) == part = p /\ UNCHANGED <<part, others>>
PendingStep  == Only("pending",  <<trackervars, loopvars, reportervars>>) /\ Pending!Next
TrackerStep  == Only("tracker",  <<pendingvars, loopvars, reportervars>>) /\ Tracker!Next
LoopStep     == Only("loop",     <<pendingvars, trackervars, reportervars>>) /\ Loop!Next
ReporterStep == Only("reporter", <<pendingvars, trackervars, loopvars>>) /\ Reporter!Next
\* The task of the reporter has ended and the bound on its events is reached.
ReporterDone == part = "reporter" /\ at = "ended" /\ counted = MaxCounted /\ UNCHANGED vars
Next == ReporterDone \/ PendingStep \/ TrackerStep \/ LoopStep \/ ReporterStep

Spec == Init /\ [][Next]_vars

\* Bars keep closing and the clock keeps running, whatever the broker answers
\* (nothing is assumed of it); the awaits of the supervisor's loop return, and a child
\* ends when it is asked to, which a child that is not asked need never do.
FairSpec ==
  /\ Spec
  /\ WF_vars(Pending!Tick /\ PendingStep)
  /\ WF_vars(Pending!Maintain /\ PendingStep)
  /\ WF_vars(Loop!Run /\ LoopStep)
  /\ WF_vars(terminated /\ Loop!ChildEnds /\ LoopStep)
\* A losing and a winning result for the account of the tracker.
MCResults == {-1, 2}
-----------------------------------------------------------------------------
(* Properties, each of one part. *)

\* The hybrid expiry (order_router.py:15-18): an order the bot has let go of
\* is not resting at the broker any more, where it could still fill, unless a
\* cancel of it was answered with 10027.
NothingRestsForgotten == Pending!TypeOK /\ Pending!NothingRestsForgotten

\* The bot's leg of the hybrid expiry: an order past its expiry is asked for
\* again and again until it leaves the map, whatever the broker answered before
\* and however many orders are walked ahead of it.  (That it leaves is not
\* promised: an order that is gone may be refused for ever.)
ExpiredIsAsked ==
  \A o \in 1 .. MaxOrders :
    (o \in pendings /\ now >= orders[o].expiry) ~> (o \notin pendings \/ Pending!Asked(o))

\* daily_tracker.py: the count of the day is the number of opens told on this
\* IST day, and its drawdown covers every fall between two equities observed on
\* it, wherever midnights and restarts fell, unless a death of the day tore the
\* file or came after an update that was not in it; also then no process forgets
\* what it was told itself, and no count is above the opens told.
DayIsTold == Tracker!TypeOK /\ Tracker!CountIsToday /\ Tracker!DrawdownCovers

\* supervisor.py:147: between two probes that let a restart pass the balance
\* changed by less than the guard, over any number of failed probes, unless the
\* account had no money at the first.
ProbesClose == Loop!TypeOK /\ Loop!ProbesClose

\* supervisor.py: a stop asked for while a child runs, or while the loop waits
\* to restart it, ends the supervisor without a further child.
StopEnds ==
  (part = "loop" /\ (terminated \/ (stop_requested /\ loop_pc \in {"check", "sleep"})))
    ~> loop_pc = "ended"

\* hourly_reporter.py:251-253: nothing is told in two reports, and nothing that
\* was counted between two sends is lost.
EachReportedOnce == Reporter!TypeOK /\ Reporter!EachReportedOnce
=============================================================================
