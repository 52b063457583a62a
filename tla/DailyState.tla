----------------------------- MODULE DailyState -----------------------------
(***************************************************************************)
(* The per-day snapshot of monitoring/daily_tracker.py as a record, and    *)
(* the four mutators of DailyTracker as functions from a snapshot and the  *)
(* IST trade day of the call to the next snapshot.  The tracker has no     *)
(* timer: the day only rolls inside a mutator.                             *)
(*                                                                         *)
(* Trade days are natural numbers (ist_trade_day only compares them) and   *)
(* money is an integer.  last_update_ms is left out: nothing here reads it.*)
(***************************************************************************)
EXTENDS Integers

Higher(a, b) == IF a >= b THEN a ELSE b

\* DailyState.empty
EmptyDay(trade_day, starting_equity) ==
  [ trade_day    |-> trade_day,
    peak_equity  |-> starting_equity,
    closed_pnl   |-> 0,
    floating_pnl |-> 0,
    trade_count  |-> 0,
    max_dd_today |-> 0 ]

\* Variant: the tracker keeps the day it was built on.
Rolled_Never(s, today) == s

\* DailyTracker._roll_if_new_day
Rolled(s, today) ==
  IF today = s.trade_day THEN s
  ELSE EmptyDay(today,
                s.peak_equity - s.max_dd_today + s.closed_pnl + s.floating_pnl)

\* DailyTracker.update_equity
\* Variant: the drawdown is that of the last observation, not the worst.
UpdateEquity_Latest(s, equity, today) ==
  LET r    == Rolled(s, today)
      peak == Higher(r.peak_equity, equity)
  IN  [r EXCEPT !.peak_equity = peak, !.max_dd_today = peak - equity]

UpdateEquity(s, equity, today) ==
  LET r    == Rolled(s, today)
      peak == Higher(r.peak_equity, equity)
      dd   == Higher(0, peak - equity)
  IN  [r EXCEPT !.peak_equity = peak, !.max_dd_today = Higher(@, dd)]

\* DailyTracker.record_trade_open
RecordTradeOpen(s, today) ==
  LET r == Rolled(s, today) IN [r EXCEPT !.trade_count = @ + 1]

\* DailyTracker.record_trade_closed
RecordTradeClosed(s, pnl, today) ==
  LET r == Rolled(s, today) IN [r EXCEPT !.closed_pnl = @ + pnl]

\* DailyTracker.set_floating_pnl
SetFloatingPnl(s, floating, today) ==
  LET r == Rolled(s, today) IN [r EXCEPT !.floating_pnl = floating]

\* The values a DailyState can have.
DailyStates ==
  [ trade_day : Nat, peak_equity : Int, closed_pnl : Int,
    floating_pnl : Int, trade_count : Nat, max_dd_today : Int ]
=============================================================================
