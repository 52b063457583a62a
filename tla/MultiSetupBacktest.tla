-------------------------- MODULE MultiSetupBacktest --------------------------
(***************************************************************************)
(* scripts/multi_setup_backtest.py: one bar of one pair after another is   *)
(* shown to the open trades of that pair, then to the gates, then to the   *)
(* detectors; a signal that passes becomes a trade that later bars close.  *)
(*                                                                         *)
(* A state of the walk (the BacktestState) is a record, a step a function  *)
(* of it: module Backtests makes a machine of them.  Units: prices in pips *)
(* around an arbitrary level, money in cents, lots in halves of LOT_STEP   *)
(* (so that the half closed at TP1 is a whole number), times in minutes    *)
(* from a Monday 00:00 UTC.                                                *)
(***************************************************************************)
EXTENDS Integers, Sequences, FiniteSets, SequencesExt, FiniteSetsExt

CONSTANTS
  RiskPct,          \* RISK_PCT, in whole percent
  MinHistory,       \* HTF bars that must be visible before a detector runs
  UsdQuoted,        \* pairs quoted in US dollars
  Converter,        \* for the others: the pair their quote is converted by
  StoredHtf,        \* per pair: open times of the stored 1H bars
  StoredLtf,        \* the stored 15M bars, <<time, pair>>, in event order
  LookbackDays      \* --days, 0 for all

INITIAL_BALANCE  == 1000000
DAILY_DD_PCT     == 5
TOTAL_DD_PCT     == 10
MAX_CONCURRENT   == 2
MAX_TRADES_PER_DAY == 2
MAX_SPREAD_PIPS  == 2
LOT_MIN          == 2
LOT_MAX          == 10000
MIN_RISK_PIPS    == 5
DAY              == 24 * 60

(* Data. *)

\* load_all_pairs: the last days, and a week more of the higher timeframe.
LoadedLtf ==
  LET last == Max({StoredLtf[i][1] : i \in DOMAIN StoredLtf})
  IN  SelectSeq(StoredLtf,
        LAMBDA b : LookbackDays = 0 \/ b[1] >= last - LookbackDays * DAY)
LoadedHtf ==
  LET last == Max({StoredLtf[i][1] : i \in DOMAIN StoredLtf})
  IN  [s \in DOMAIN StoredHtf |-> SelectSeq(StoredHtf[s],
        LAMBDA t : LookbackDays = 0 \/ t >= last - LookbackDays * DAY - 7 * DAY)]

\* pip_value_usd_per_lot, in dollars: 10 for a dollar quote, 6 at the rate of
\* the converting pair if its price is known, 10 again if it is not.
PipValue(sym, known) ==
  IF sym \notin UsdQuoted /\ Converter[sym] \in known THEN 6 ELSE 10

-----------------------------------------------------------------------------
(* The life of a trade. *)

Sgn(t) == IF t.dir = "BUY" THEN 1 ELSE -1
Reached(t, bar, px) == IF t.dir = "BUY" THEN bar.h >= px ELSE bar.l <= px
Stopped(t, bar)     == IF t.dir = "BUY" THEN bar.l <= t.sl ELSE bar.h >= t.sl
Tighter(t, px)      == Sgn(t) * (px - t.sl) > 0
HalfSpread == MAX_SPREAD_PIPS \div 2

\* Lots closed at a price; fills records them.
Filled(t, px, lots) ==
  [t EXCEPT !.gross = @ + (Sgn(t) * (px - t.entry) * lots * t.pv) \div 2,
            !.fills = Append(@, <<px, lots>>)]

\* _close_trade
CloseTrade(t, px, reason, ev) ==
  [t EXCEPT !.exit = px, !.reason = reason, !.net = t.gross - t.fee, !.out = ev]

\* Everything that is left goes at one price.
\* Variant: the lots of the whole trade.
Rest_Full(t) == t.lot
Rest(t) == t.left

\* _initial_sl
InitialSl(t) == t.entry - Sgn(t) * t.risk

\* force_close_at_market
ForceClose(t, bar, reason, ev) ==
  CloseTrade(Filled(t, bar.c, Rest(t)), bar.c, reason, ev)

\* The half closed at TP1: break even, and half a spread for the costs.
TP1Taken(t) ==
  LET half == t.left \div 2
  IN  [Filled(t, t.tp1, half) EXCEPT
         !.left = t.left - half, !.tp1_hit = TRUE,
         !.sl = t.entry + Sgn(t) * HalfSpread]

\* 0.3 R behind the close, if that is tighter.
\* Variant: whatever the stop was.
Trailed_Always(t, bar) == [t EXCEPT !.sl = bar.c - Sgn(t) * ((3 * t.risk) \div 10)]
Trailed(t, bar) ==
  LET px == bar.c - Sgn(t) * ((3 * t.risk) \div 10)
  IN  IF Tighter(t, px) THEN [t EXCEPT !.sl = px] ELSE t

\* update_open_trade: the stop first; TP1 and TP2 may fall in one bar.
UpdateOpenTrade(t, bar, ev) ==
  LET banked == IF ~t.tp1_hit /\ Reached(t, bar, t.tp1) THEN TP1Taken(t) ELSE t
  IN  CASE Stopped(t, bar) ->
             CloseTrade(Filled(t, t.sl, Rest(t)), t.sl,
                        IF t.tp1_hit THEN "TRAIL" ELSE "SL", ev)
        [] ~Stopped(t, bar) /\ banked.tp1_hit /\ Reached(t, bar, t.tp2) ->
             CloseTrade(Filled(banked, t.tp2, Rest(banked)), t.tp2, "TP2", ev)
        [] OTHER -> IF banked.tp1_hit THEN Trailed(banked, bar) ELSE banked

-----------------------------------------------------------------------------
(* The state of a walk. *)

\* BacktestState, and run_backtest up to its loop.
MsState ==
  [bal |-> INITIAL_BALANCE, peak |-> INITIAL_BALANCE,
   open |-> <<>>, closed |-> <<>>,
   start |-> <<>>,                    \* day_start_balance
   count |-> <<>>,                    \* trades by the key of the cap
   curve |-> <<INITIAL_BALANCE>>,     \* equity_curve without its times
   halted |-> FALSE,                  \* total_dd_halted
   known |-> {},                      \* pairs with a current price
   cursor |-> [s \in DOMAIN LoadedHtf |-> 0],
   blocked |-> {},                    \* the counters of Remembered that are not 0
   shown |-> <<>>]                    \* the latest HTF bar a detector saw, and when

DateKey(t) == t \div DAY
FridayLate(t) ==
  DateKey(t) % 7 = 4 /\ (t % DAY) \div 60 >= 23 /\ t % 60 >= 45

\* _book.  Variant: the peak stays where the walk began.
Book_PeakFixed(s, t) ==
  [s EXCEPT !.bal = @ + t.net, !.closed = Append(@, t)]
Book(s, t) ==
  [s EXCEPT !.bal = @ + t.net,
            !.peak = Max({@, s.bal + t.net}),
            !.closed = Append(@, t)]

\* _equity_log: one sample per balance.
EquityLog(s) ==
  IF Last(s.curve) = s.bal THEN s ELSE [s EXCEPT !.curve = Append(@, s.bal)]

\* An open trade after a bar; exit is what its stops and targets make of it.
Touched(t, e, bar, exit) ==
  CASE t.sym # e.sym -> t
    [] t.sym = e.sym /\ e.t - t.at >= 48 * 60 -> ForceClose(t, bar, "TIME_STOP", e.n)
    [] t.sym = e.sym /\ e.t - t.at < 48 * 60 /\ FridayLate(e.t) ->
         ForceClose(t, bar, "FRIDAY_FLATTEN", e.n)
    [] OTHER -> exit

\* The open trades one after another: booked once closed, or kept.
Settle(s, t) == IF t.reason = "open" THEN [s EXCEPT !.open = Append(@, t)] ELSE Book(s, t)
Settled(s, trades) == FoldLeft(Settle, [s EXCEPT !.open = <<>>], trades)
WalkOver(s, e, bar, exits) ==
  Settled([s EXCEPT !.known = @ \cup {e.sym}],
          [i \in DOMAIN s.open |-> Touched(s.open[i], e, bar, exits[i])])
Walk(s, e, bar) ==
  WalkOver(s, e, bar, [i \in DOMAIN s.open |-> UpdateOpenTrade(s.open[i], bar, e.n)])

\* The first event of a day: the balance after the closes of that event.
\* Variant: every event is the first one.
DayRoll_Always(s, e) ==
  [s EXCEPT !.start = [d \in DOMAIN @ \cup {DateKey(e.t)} |->
                         IF d = DateKey(e.t) THEN s.bal ELSE @[d]]]
DayRoll(s, e) ==
  IF DateKey(e.t) \in DOMAIN s.start THEN s
  ELSE [s EXCEPT !.start = [d \in DOMAIN @ \cup {DateKey(e.t)} |->
                              IF d = DateKey(e.t) THEN s.bal ELSE @[d]]]

DayLost(s, e) ==
  LET b == s.start[DateKey(e.t)] IN (b - s.bal) * 100 >= DAILY_DD_PCT * b
DrawnDown(s)  == (s.peak - s.bal) * 100 >= TOTAL_DD_PCT * s.peak
Counted(s, k) == IF k \in DOMAIN s.count THEN s.count[k] ELSE 0

\* The gates before the detectors run, in their order.
MsGate(s, e, in) ==
  IF s.halted THEN "stopped"
  ELSE IF DayLost(s, e) THEN "daily_dd"
  ELSE IF DrawnDown(s) THEN "total_dd"
  ELSE IF Len(s.open) >= MAX_CONCURRENT THEN "concurrent"
  ELSE IF Counted(s, <<DateKey(e.t)>>) >= MAX_TRADES_PER_DAY THEN "daily_cap"
  ELSE IF in.kind = "quiet" THEN "no_rejection"
  ELSE IF in.kind = "news" THEN "news" ELSE "pass"

\* The HTF window: the cursor catches up with every bar opened before the
\* event.  Variant: one bar at a time.
Seek_OneStep(c, htf, t) ==
  IF c < Len(htf) /\ htf[c + 1] < t THEN c + 1 ELSE c
Seek(c, htf, t) ==
  Max({c} \cup {i \in c + 1 .. Len(htf) : \A j \in c + 1 .. i : htf[j] < t})
Sought(s, e) ==
  LET c == Seek(s.cursor[e.sym], LoadedHtf[e.sym], e.t)
  IN  [s EXCEPT !.cursor[e.sym] = c,
                !.shown = IF c > MinHistory THEN <<LoadedHtf[e.sym][c], e.t>> ELSE @]

\* Slippage of half the maximal spread, against the trade.
SlippedEntry(sig) ==
  sig.entry + (IF sig.dir = "BUY" THEN 1 ELSE -1) * (MAX_SPREAD_PIPS \div 2)
Ordered(sig, px) ==
  IF sig.dir = "BUY" THEN sig.sl < px /\ px < sig.tp ELSE sig.tp < px /\ px < sig.sl
Risk(sig, px) == IF sig.dir = "BUY" THEN px - sig.sl ELSE sig.sl - px

\* _round_lot.  Variant: to the next step up.
RoundLot_Up(risk_usd, unit) == 2 * ((risk_usd + unit - 1) \div unit)
RoundLot(risk_usd, unit)    == 2 * (risk_usd \div unit)
Lot(s, e, risk) ==
  LET unit == risk * PipValue(e.sym, s.known)
  IN  Min({LOT_MAX, RoundLot((s.bal * RiskPct) \div 100, unit)})

\* What stands between a signal and a trade.
Refusal(s, e, bar, sig) ==
  LET px == SlippedEntry(sig)
  IN  IF bar.spread > 10 * MAX_SPREAD_PIPS THEN "spread"
      ELSE IF ~Ordered(sig, px) THEN "levels"
      ELSE IF Risk(sig, px) < MIN_RISK_PIPS THEN "min_risk"
      ELSE IF Lot(s, e, Risk(sig, px)) < LOT_MIN THEN "lot" ELSE "none"

\* _extract_tp1: from the tag, or 1.5 R.
ExtractTp1(sig, px) ==
  IF sig.tp1 # 0 THEN sig.tp1
  ELSE px + (IF sig.dir = "BUY" THEN 1 ELSE -1) * ((3 * Risk(sig, px)) \div 2)

\* The OpenTrade of a signal.
NewTrade(s, e, sig) ==
  LET px == SlippedEntry(sig)  lot == Lot(s, e, Risk(sig, px))
  IN  [sym |-> e.sym, dir |-> sig.dir, entry |-> px, sl |-> sig.sl,
       tp1 |-> ExtractTp1(sig, px), tp2 |-> sig.tp, risk |-> Risk(sig, px),
       lot |-> lot, left |-> lot, pv |-> PipValue(e.sym, s.known),
       at |-> e.t, ev |-> e.n, tp1_hit |-> FALSE, gross |-> 0,
       fee |-> 7 * (lot \div 2),
       fills |-> <<>>, exit |-> 0, reason |-> "open", net |-> 0, out |-> 0]

\* A trade and its count under the key of the cap.
Admit(s, t, key) ==
  [s EXCEPT !.open = Append(@, t),
            !.count = [k \in DOMAIN @ \cup {key} |->
                         IF k = key THEN Counted(s, key) + 1 ELSE @[k]]]

\* A gate that stays shut: once halted for good nothing is logged any more.  Of
\* the blocked_* counters the report judges by two; the others are only printed.
Remembered == {"daily_dd", "daily_cap"}
Refused(s, why) ==
  IF why = "stopped" THEN s
  ELSE EquityLog([s EXCEPT !.blocked = @ \cup ({why} \cap Remembered),
                           !.halted = @ \/ why = "total_dd"])

\* From the detectors to the trade; key is that of the cap.
Entered(s, e, bar, sig, key) ==
  LET why == Refusal(s, e, bar, sig)
  IN  IF why = "none" THEN EquityLog(Admit(s, NewTrade(s, e, sig), key))
                      ELSE Refused(s, why)

\* run_backtest, one event: in is what the news calendar and the detectors say.
MsStep(s, e, bar, in) ==
  LET w == DayRoll(Walk(s, e, bar), e)
      gate == MsGate(w, e, in)
      h == Sought(w, e)
  IN  IF gate # "pass" THEN Refused(w, gate)
      ELSE IF h.cursor[e.sym] <= MinHistory \/ in.kind # "signal" THEN EquityLog(h)
      ELSE Entered(h, e, bar, in.sig, <<DateKey(e.t)>>)

\* After the last event: what is open goes at the last bar of its pair.
MsFinish(s, lastbar, n) ==
  LET out == [i \in DOMAIN s.open |->
                ForceClose(s.open[i], lastbar[s.open[i].sym], "END_OF_DATA", n)]
  IN  IF s.open = <<>> THEN s
      ELSE EquityLog(Settled(s, out))

-----------------------------------------------------------------------------
(* The report. *)

\* _max_dd_from_curve, in tenths of a percent.
MaxDdFromCurve(curve) ==
  FoldLeft(LAMBDA m, v :
             LET peak == Max({m.peak, v})
             IN  [peak |-> peak, mdd |-> Max({m.mdd, ((peak - v) * 1000) \div peak})],
           [peak |-> Head(curve), mdd |-> 0], curve).mdd

\* _streaks: the longest losing and the longest winning streak.
Streaks(trades) ==
  FoldLeft(LAMBDA m, t :
             LET win  == IF t.net > 0 THEN m.win + 1 ELSE 0
                 loss == IF t.net < 0 THEN m.loss + 1 ELSE 0
             IN  [win |-> win, loss |-> loss,
                  longest |-> <<Max({m.longest[1], loss}), Max({m.longest[2], win})>>],
           [win |-> 0, loss |-> 0, longest |-> <<0, 0>>], trades).longest

AddNet(sum, t) == sum + t.net
Total(trades) == FoldLeft(AddNet, 0, trades)
Wins(trades)   == SelectSeq(trades, LAMBDA t : t.net > 0)
Losses(trades) == SelectSeq(trades, LAMBDA t : t.net < 0)
GroupBy(trades, Key(_)) ==
  [k \in {Key(trades[i]) : i \in DOMAIN trades} |->
     SelectSeq(trades, LAMBDA t : Key(t) = k)]

\* print_report: the figures it prints.
MsReport(s) ==
  LET days == GroupBy(s.closed, LAMBDA t : DateKey(t.at))
  IN  [n |-> Len(s.closed), wins |-> Len(Wins(s.closed)), losses |-> Len(Losses(s.closed)),
       gross_win |-> Total(Wins(s.closed)), gross_loss |-> -Total(Losses(s.closed)),
       net |-> s.bal - INITIAL_BALANCE, mdd |-> MaxDdFromCurve(s.curve),
       streaks |-> Streaks(s.closed),
       by_pair |-> GroupBy(s.closed, LAMBDA t : t.sym),
       by_period |-> days,
       red |-> Cardinality({d \in DOMAIN days : Total(days[d]) < 0}),
       under_daily |-> "daily_dd" \notin s.blocked,
       under_total |-> ~s.halted,
       cap_hit |-> "daily_cap" \in s.blocked]
=============================================================================
