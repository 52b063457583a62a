-------------------------- MODULE OneSetupBacktests ---------------------------
(***************************************************************************)
(* The backtests of a single detector.                                     *)
(***************************************************************************)
EXTENDS MultiSetupBacktest

(***************************************************************************)
(* scripts/silver_bullet_backtest.py: one detector, no rejection gate and  *)
(* no news, a cap of one trade per pair, day and window.  The script holds *)
(* its own copies of the trade's life and of the walk, which do what those *)
(* of multi_setup_backtest.py do.  Its counters of emitted signals are     *)
(* left out.                                                               *)
(***************************************************************************)
MAX_TRADES_PER_WINDOW_PER_PAIR == 1

SbPipValue(sym, known)             == PipValue(sym, known)
SbCloseTrade(t, px, reason, ev)    == CloseTrade(t, px, reason, ev)
SbForceClose(t, bar, reason, ev)   == SbCloseTrade(Filled(t, bar.c, Rest(t)), bar.c, reason, ev)

SbTP1Taken(t) ==
  LET half == t.left \div 2
  IN  [Filled(t, t.tp1, half) EXCEPT
         !.left = t.left - half, !.tp1_hit = TRUE,
         !.sl = t.entry + Sgn(t) * HalfSpread]
SbUpdateOpenTrade(t, bar, ev) ==
  LET banked == IF ~t.tp1_hit /\ Reached(t, bar, t.tp1) THEN SbTP1Taken(t) ELSE t
  IN  CASE Stopped(t, bar) ->
             SbCloseTrade(Filled(t, t.sl, Rest(t)), t.sl,
                          IF t.tp1_hit THEN "TRAIL" ELSE "SL", ev)
        [] ~Stopped(t, bar) /\ banked.tp1_hit /\ Reached(t, bar, t.tp2) ->
             SbCloseTrade(Filled(banked, t.tp2, Rest(banked)), t.tp2, "TP2", ev)
        [] OTHER -> IF banked.tp1_hit THEN Trailed(banked, bar) ELSE banked

\* window_id_for: London 3-4, morning 10-11, afternoon 14-15 in New York, here
\* four hours behind UTC.
WindowIdFor(t) ==
  LET h == ((t \div 60) + 20) % 24
  IN  CASE h = 3 -> "LO" [] h = 10 -> "AM" [] h = 14 -> "PM" [] OTHER -> "none"

SbKey(e)  == <<e.sym, DateKey(e.t), WindowIdFor(e.t)>>
SbState   == MsState
SbWalk(s, e, bar) ==
  WalkOver(s, e, bar, [i \in DOMAIN s.open |-> SbUpdateOpenTrade(s.open[i], bar, e.n)])

SbHalt(s, e) ==
  IF s.halted THEN "stopped"
  ELSE IF DayLost(s, e) THEN "daily_dd"
  ELSE IF DrawnDown(s) THEN "total_dd" ELSE "pass"

\* The window, then its cap.
SbCap(s, e) ==
  IF WindowIdFor(e.t) = "none" THEN "window"
  ELSE IF Counted(s, SbKey(e)) >= MAX_TRADES_PER_WINDOW_PER_PAIR THEN "window_cap"
  ELSE "pass"
SbGate(s, e) ==
  IF SbHalt(s, e) # "pass" THEN SbHalt(s, e)
  ELSE IF Len(s.open) >= MAX_CONCURRENT THEN "concurrent" ELSE SbCap(s, e)

SbStep(s, e, bar, in) ==
  LET w == DayRoll(SbWalk(s, e, bar), e)
      gate == SbGate(w, e)
      h == Sought(w, e)
  IN  IF gate # "pass" THEN Refused(w, gate)
      ELSE IF h.cursor[e.sym] <= MinHistory \/ in.kind # "signal" THEN EquityLog(h)
      ELSE Entered(h, e, bar, in.sig, SbKey(e))

SbFinish(s, lastbar, n) == MsFinish(s, lastbar, n)

SbBook(s, t)             == Book(s, t)
SbEquityLog(s)           == EquityLog(s)
SbExtractTp1(sig, px)    == ExtractTp1(sig, px)
SbMaxDdFromCurve(curve)  == MaxDdFromCurve(curve)
SbStreaks(trades)        == Streaks(trades)

\* The verdict, from the profit factor and the win rate in percent and the
\* drawdown in tenths of a percent.
Verdict(pf, wr, mdd) ==
  IF pf >= 130 /\ wr >= 45 /\ mdd <= 80 THEN "KEEP"
  ELSE IF 110 <= pf /\ pf < 130 THEN "FIX"
  ELSE IF pf < 110 \/ wr < 40 THEN "CUT" ELSE "BORDERLINE"
ProfitFactor(win, loss) == IF loss > 0 THEN (win * 100) \div loss ELSE 100000

\* print_report: by window and by direction instead of by setup.
SbReport(s) ==
  [n |-> Len(s.closed), wins |-> Len(Wins(s.closed)), losses |-> Len(Losses(s.closed)),
   gross_win |-> Total(Wins(s.closed)), gross_loss |-> -Total(Losses(s.closed)),
   net |-> s.bal - INITIAL_BALANCE,
   mdd |-> SbMaxDdFromCurve(s.curve), streaks |-> SbStreaks(s.closed),
   by_pair |-> GroupBy(s.closed, LAMBDA t : t.sym),
   by_period |-> GroupBy(s.closed, LAMBDA t : WindowIdFor(t.at))]

-----------------------------------------------------------------------------
(***************************************************************************)
(* scripts/sr_flip_backtest.py: a copy of the silver bullet script without *)
(* a window: two trades per pair and day, and a history of 30 bars.  Its   *)
(* counters of emitted signals are left out.                               *)
(***************************************************************************)
MAX_TRADES_PER_DAY_PER_PAIR == 2

SfPipValue(sym, known)           == PipValue(sym, known)
SfCloseTrade(t, px, reason, ev)  == CloseTrade(t, px, reason, ev)
SfForceClose(t, bar, reason, ev) == SfCloseTrade(Filled(t, bar.c, Rest(t)), bar.c, reason, ev)

SfUpdateOpenTrade(t, bar, ev) ==
  LET banked == IF ~t.tp1_hit /\ Reached(t, bar, t.tp1) THEN TP1Taken(t) ELSE t
  IN  CASE Stopped(t, bar) ->
             SfCloseTrade(Filled(t, t.sl, Rest(t)), t.sl,
                          IF t.tp1_hit THEN "TRAIL" ELSE "SL", ev)
        [] ~Stopped(t, bar) /\ banked.tp1_hit /\ Reached(t, bar, t.tp2) ->
             SfCloseTrade(Filled(banked, t.tp2, Rest(banked)), t.tp2, "TP2", ev)
        [] OTHER -> IF banked.tp1_hit THEN Trailed(banked, bar) ELSE banked

SfKey(e)          == <<e.sym, DateKey(e.t)>>
SfState           == MsState
SfWalk(s, e, bar) ==
  WalkOver(s, e, bar, [i \in DOMAIN s.open |-> SfUpdateOpenTrade(s.open[i], bar, e.n)])

SfGate(s, e) ==
  IF s.halted THEN "stopped"
  ELSE IF DayLost(s, e) THEN "daily_dd"
  ELSE IF DrawnDown(s) THEN "total_dd"
  ELSE IF Len(s.open) >= MAX_CONCURRENT THEN "concurrent"
  ELSE IF Counted(s, SfKey(e)) >= MAX_TRADES_PER_DAY_PER_PAIR THEN "pair_day_cap"
  ELSE "pass"

SfStep(s, e, bar, in) ==
  LET w == DayRoll(SfWalk(s, e, bar), e)
      gate == SfGate(w, e)
      h == Sought(w, e)
  IN  IF gate # "pass" THEN Refused(w, gate)
      ELSE IF h.cursor[e.sym] <= MinHistory \/ in.kind # "signal" THEN EquityLog(h)
      ELSE Entered(h, e, bar, in.sig, SfKey(e))

SfFinish(s, lastbar, n) == MsFinish(s, lastbar, n)

SfBook(s, t)            == Book(s, t)
SfEquityLog(s)          == EquityLog(s)
SfExtractTp1(sig, px)   == ExtractTp1(sig, px)
SfMaxDdFromCurve(curve) == MaxDdFromCurve(curve)
SfStreaks(trades)       == Streaks(trades)
SfVerdict(pf, wr, mdd)  == Verdict(pf, wr, mdd)

\* print_report: by direction of the flip, which is that of the trade.
SfReport(s) ==
  [n |-> Len(s.closed), wins |-> Len(Wins(s.closed)), losses |-> Len(Losses(s.closed)),
   gross_win |-> Total(Wins(s.closed)), gross_loss |-> -Total(Losses(s.closed)),
   net |-> s.bal - INITIAL_BALANCE,
   mdd |-> SfMaxDdFromCurve(s.curve), streaks |-> SfStreaks(s.closed),
   by_pair |-> GroupBy(s.closed, LAMBDA t : t.sym),
   by_period |-> GroupBy(s.closed, LAMBDA t : t.dir)]
==============================================================================
