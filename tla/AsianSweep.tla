------------------------------ MODULE AsianSweep ------------------------------
(***************************************************************************)
(* strategy/patterns/asian_sweep.py: the detector of the live program.  It *)
(* is asked with the closed 1H bars of one pair and answers for the last   *)
(* of them, with one signal at most.                                       *)
(*                                                                         *)
(* Prices are integers in tenths of the broker's point (PT of them make a  *)
(* point, so that 2.5 R and 0.3 R are whole numbers), times are minutes    *)
(* from a Monday 00:00 UTC.  A bar is a record of t, h, l and c.           *)
(***************************************************************************)
EXTENDS Integers, Sequences, SequencesExt, FiniteSets, FiniteSetsExt

CONSTANTS
  PAIR_CONFIG,         \* per pair: spread, sl_pts, min_r, max_r, quality, vpl, lot_max, override
  min_bars_required,   \* 30
  BIAS_EMA_SPAN,       \* 200
  BIAS_MIN_BARS        \* 200

ASSUME PairAssumption ==
  \A p \in DOMAIN PAIR_CONFIG : LET cfg == PAIR_CONFIG[p] IN
    /\ {cfg.spread, cfg.sl_pts, cfg.override} \subseteq Nat /\ cfg.vpl \in Nat \ {0}
    /\ cfg.lot_max \in Nat /\ cfg.lot_max % 2 = 0     \* whole steps of 0.01 lots
    \* a stop is past the wick and the spread, a range has some height
    /\ cfg.spread + cfg.sl_pts >= 3 /\ {cfg.min_r, cfg.quality} \subseteq Nat /\ cfg.min_r > 0
ASSUME AverageAssumption ==
  BIAS_EMA_SPAN \in Nat \ {0} /\ BIAS_MIN_BARS \in Nat \ {0} /\ min_bars_required \in Nat

PT     == 10
A_DAY  == 24 * 60
MIN_RISK_PT_MULT     == 3
GRADE_A_QUALITY      == 9
BIAS_PER_MILLE       == 1

DayOf(t)    == t \div A_DAY
HourOf(t)   == (t % A_DAY) \div 60
Monday(d)   == d % 7 = 0
ASIAN_START(d) == d * A_DAY - 270
ASIAN_END(d)   == d * A_DAY + 30

\* _compute_asian_range, by the times the bars opened: [ah, al], or empty.
AsianWindow(bars, d) ==
  {i \in DOMAIN bars : ASIAN_START(d) <= bars[i].t /\ bars[i].t < ASIAN_END(d)}
Extent(bars, window) ==
  <<Max({bars[i].h : i \in window}), Min({bars[i].l : i \in window})>>
compute_asian_range(bars, d) ==
  IF Cardinality(AsianWindow(bars, d)) < 2 THEN <<>> ELSE Extent(bars, AsianWindow(bars, d))

\* _ema, seeded by the first value
Weighed(e, v) == (2 * v + (BIAS_EMA_SPAN - 1) * e) \div (BIAS_EMA_SPAN + 1)
ema(closes)   == FoldLeft(Weighed, Head(closes), Tail(closes))

\* The bars that opened by a time.
Keep(x, b)     == IF b.t <= x.until THEN [x EXCEPT !.bars = Append(x.bars, b)] ELSE x
Until(bars, t) == FoldLeft(Keep, [until |-> t, bars |-> <<>>], bars).bars

Leaning(last, e) ==
  IF 1000 * (last - e) > BIAS_PER_MILLE * e THEN "bullish"
  ELSE IF 1000 * (e - last) > BIAS_PER_MILLE * e THEN "bearish" ELSE "neutral"

\* _compute_bias: frozen with the bar of 23:00 of the day before.
\* Variant: with the newest bar.
Frozen_Newest(bars, d) == bars
Frozen(bars, d) == Until(bars, d * A_DAY - 60)
compute_bias(bars, d) ==
  LET then == Frozen(bars, d)
      closes == [i \in DOMAIN then |-> then[i].c]
  IN  IF Len(closes) < BIAS_MIN_BARS THEN "neutral" ELSE Leaning(Last(closes), ema(closes))

\* The two windows of a day.
SessionOf(t) ==
  IF HourOf(t) \in 6 .. 10 THEN "LONDON" ELSE IF HourOf(t) \in 12 .. 15 THEN "NY" ELSE "none"

SizedRight(range, cfg) ==
  (range[1] - range[2]) \div PT \in cfg.min_r .. cfg.max_r

\* _build_signal, for a risk that is not degenerate and levels in order.
build_signal(dir, entry, sl, t, cfg) ==
  LET sgn  == IF dir = "BUY" THEN 1 ELSE -1
      risk == IF sl < entry THEN entry - sl ELSE sl - entry
      tp2  == entry + sgn * ((25 * risk) \div 10)
  IN  IF risk < MIN_RISK_PT_MULT * PT \/ sgn * (entry - sl) <= 0 \/ sgn * (tp2 - entry) <= 0 THEN {}
      ELSE {[dir |-> dir, entry |-> entry, sl |-> sl, tp1 |-> entry + sgn * risk, tp |-> tp2,
             session |-> SessionOf(t), at |-> t,
             grade |-> IF cfg.quality >= GRADE_A_QUALITY THEN "A" ELSE "B"]}

\* Shorts in London only.
ShortAllowed(t) == SessionOf(t) = "LONDON"

\* detect: the high swept first, against a bearish bias.
detect(bars, sym) ==
  LET cur   == Last(bars)  d == DayOf(cur.t)  cfg == PAIR_CONFIG[sym]
      range == compute_asian_range(bars, d)
      bias  == compute_bias(bars, d)
  IN  IF Len(bars) < min_bars_required \/ Monday(d) \/ SessionOf(cur.t) = "none" THEN {}
      ELSE IF range = <<>> THEN {}
      ELSE IF range[1] <= range[2] \/ ~SizedRight(range, cfg) THEN {}
      ELSE IF ShortAllowed(cur.t) /\ bias = "bearish" /\ cur.h > range[1] /\ cur.c < range[1]
           THEN build_signal("SELL", range[1] - PT * cfg.spread, cur.h + PT * cfg.sl_pts, cur.t, cfg)
      ELSE IF bias \in {"bullish", "neutral"} /\ cur.l < range[2] /\ cur.c > range[2]
           THEN build_signal("BUY", range[2] + PT * cfg.spread, cur.l - PT * cfg.sl_pts, cur.t, cfg)
      ELSE {}

-----------------------------------------------------------------------------
(***************************************************************************)
(* risk/asian_sweep_exit.py: the exit ladder of a position, fed one closed *)
(* bar at a time, the profit it realises, and its size; and the two stages *)
(* in which execution/live_engine.py turns that size and the allocation of *)
(* risk/house_money.py into the lots of an order.                          *)
(*                                                                         *)
(* Lots are halves of 0.01 (so that half a position is a whole number),    *)
(* percentages twentieths of a percent (half the base of grade B is five), *)
(* money twentieths of a cent: a lot unit earns vpl of them per tenth of a *)
(* point.                                                                  *)
(***************************************************************************)
CENT == 20
MIN_LOT == 2
MIN_SL_DISTANCE_PIPS    == 5
MAX_RISK_USD_PER_TRADE  == 150 * 100 * CENT
DEFAULT_RISK            == 16
WEAK_MONTH_RISK         == 6

Sgn(x) == IF x.dir = "BUY" THEN 1 ELSE -1

\* init_exit_state: TP1 is the one the signal carries.
init_exit_state(sig, lots) ==
  [dir |-> sig.dir, entry |-> sig.entry, sl |-> sig.sl, tp1 |-> sig.tp1, tp2 |-> sig.tp,
   risk |-> Sgn(sig) * (sig.entry - sig.sl), lots |-> lots, left |-> lots,
   tp1_hit |-> FALSE, closed |-> FALSE, exit |-> 0, reason |-> "none"]

\* What the engine is told: close all, close a fraction, move the stop.
CloseAll(px)     == [act |-> "close", px |-> px]
CloseHalf(px)    == [act |-> "half", px |-> px]
MoveStop(px)     == [act |-> "stop", px |-> px]

Gone(st, px, reason) ==
  [st EXCEPT !.closed = TRUE, !.exit = px, !.reason = reason, !.left = 0]

Attains(st, bar, px) == IF st.dir = "BUY" THEN bar.h >= px ELSE bar.l <= px
StoppedBy(st, bar)   == IF st.dir = "BUY" THEN bar.l <= st.sl ELSE bar.h >= st.sl

\* TP1: half is taken and the stop goes to break even.
Banked(st) ==
  [st EXCEPT !.tp1_hit = TRUE, !.sl = st.entry, !.left = @ - st.left \div 2]
TrailStop(st, bar) == bar.c - Sgn(st) * ((3 * st.risk) \div 10)
Tighter(st, px)    == Sgn(st) * (px - st.sl) > 0

\* maintain_exit: stop, TP1, trail, TP2, in this order.
\* Variant: TP1 is looked at before the stop.
maintain_exit_Tp1First(st, bar) ==
  LET b == IF ~st.tp1_hit /\ Attains(st, bar, st.tp1) THEN Banked(st) ELSE st
      s == IF StoppedBy(b, bar) THEN Gone(b, b.sl, IF b.tp1_hit THEN "TRAIL" ELSE "SL") ELSE b
  IN  [st |-> IF st.closed THEN st ELSE s, acts |-> <<>>]
maintain_exit(st, bar) ==
  LET banks  == ~st.tp1_hit /\ Attains(st, bar, st.tp1)
      b      == IF banks THEN Banked(st) ELSE st
      trails == b.tp1_hit /\ Tighter(b, TrailStop(b, bar))
      s      == IF trails THEN [b EXCEPT !.sl = TrailStop(b, bar)] ELSE b
      acts   == (IF banks THEN <<CloseHalf(st.tp1), MoveStop(st.entry)>> ELSE <<>>)
                  \o (IF trails THEN <<MoveStop(s.sl)>> ELSE <<>>)
  IN  IF st.closed THEN [st |-> st, acts |-> <<>>]
      ELSE IF StoppedBy(st, bar)
           THEN [st |-> Gone(st, st.sl, IF st.tp1_hit THEN "TRAIL" ELSE "SL"),
                 acts |-> <<CloseAll(st.sl)>>]
      ELSE IF s.tp1_hit /\ Attains(s, bar, s.tp2)
           THEN [st |-> Gone(s, s.tp2, "TP2"), acts |-> Append(acts, CloseAll(s.tp2))]
      ELSE [st |-> s, acts |-> acts]

\* force_close_eod
force_close_eod(st, px) ==
  IF st.closed THEN [st |-> st, acts |-> <<>>]
  ELSE [st |-> Gone(st, px, IF st.tp1_hit THEN "EOD_trail" ELSE "EOD"), acts |-> <<CloseAll(px)>>]

\* compute_pnl: a runner that reached TP2 is paid for its whole lot there.
compute_pnl(st, cfg) ==
  LET diff == Sgn(st) * (st.exit - st.entry)
      d1   == Sgn(st) * (st.tp1 - st.entry)
  IN  IF st.reason = "none" THEN 0
      ELSE IF st.tp1_hit /\ st.reason # "TP2" THEN ((d1 + diff) * st.lots * cfg.vpl) \div 2
      ELSE diff * st.lots * cfg.vpl

-----------------------------------------------------------------------------
(* Size. *)

\* Money for the distance and half of 0.01 lots.
Unit(dist, cfg) == dist * cfg.vpl
\* The nearest multiple of 0.01 lots; halves up.
Nearest(amount, unit) == 2 * ((amount + unit) \div (2 * unit))
Clamp(lots, cfg)      == Max({MIN_LOT, Min({lots, cfg.lot_max})})

\* risk_pct_for: the weak months before the override of the pair.
risk_pct_for(cfg, weak) ==
  IF weak THEN WEAK_MONTH_RISK ELSE IF cfg.override # 0 THEN cfg.override ELSE DEFAULT_RISK

\* The ceiling of a trade.  Variant: not looked at.
Ceiling_None(lots, dist, cfg) == lots
Ceiling(lots, dist, cfg) ==
  LET unit == Unit(dist, cfg)
      cut  == Min({Nearest(MAX_RISK_USD_PER_TRADE, unit), cfg.lot_max})
  IN  IF lots * unit <= MAX_RISK_USD_PER_TRADE THEN lots
      ELSE IF cut < MIN_LOT THEN 0 ELSE cut

\* size_position; 0 refuses.
size_position(cfg, equity, dist, weak) ==
  LET amount == (equity * risk_pct_for(cfg, weak)) \div 2000
  IN  IF equity <= 0 \/ dist <= 0 THEN MIN_LOT
      ELSE IF dist < MIN_SL_DISTANCE_PIPS * 10 * PT THEN 0
      ELSE Ceiling(Clamp(Nearest(amount, Unit(dist, cfg)), cfg), dist, cfg)

\* calc_trade_risk: half the base after a loss or a flat trade, up to twice the
\* base after a win.
base_pct_for(grade) == IF grade = "A" THEN 20 ELSE 10
calc_trade_risk(grade, equity, pnl, no) ==
  LET base == base_pct_for(grade)
  IN  IF no = 1 THEN base
      ELSE IF pnl > 0 THEN Min({base + (pnl * 1000) \div equity, 2 * base})
      ELSE base \div 2

\* The lots of an order: the size, scaled down to the allocation; never below
\* MIN_LOT when it was scaled, also when the size was refused.
OrderLots(size, allotted, base) ==
  IF allotted < base THEN Max({MIN_LOT, Nearest(size * allotted, base)}) ELSE size
==============================================================================
