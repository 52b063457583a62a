---------------------------- MODULE NYGoldBacktest ----------------------------
(***************************************************************************)
(* strategy/ny_gold_backtest.py and ny_gold_data.py: the 1M bars of gold   *)
(* one after another.  A bar closes the open trade or not, fills the       *)
(* signal of the bar before it, and is shown to the detector if no gate is *)
(* shut.                                                                   *)
(*                                                                         *)
(* Prices are those of NYGoldDetector, money is in tenths of a dollar and  *)
(* lots in halves of LOT_STEP, so that INITIAL_BALANCE and RoundLot are    *)
(* those of MultiSetupBacktest.                                            *)
(***************************************************************************)
EXTENDS MultiSetupBacktest, NYGoldDetector

CONSTANTS GoldCap,             \* MAX_TRADES_PER_DAY
          Stored5, Stored15    \* the bars stored from before the session

SLIPPAGE             == 2
GOLD_DEFAULT_HALF    == 2      \* half of DEFAULT_SPREAD_PIPS, cut to a tenth
TIME_STOP_MIN        == 45
COOLDOWN_AFTER_LOSS  == 30
COOLDOWN_AFTER_TWO   == 60
GOLD                 == "XAUUSD"

-----------------------------------------------------------------------------
(* The data layer. *)

\* What the market stores of a longer bar: every 1M bar as a bar of the length
\* len, those of one time in one, and these among the ones stored before.
Stretched(b, len) ==
  LET w == b.t \div len
  IN  [t |-> w * len, done |-> (w + 1) * len, o |-> b.o, h |-> b.h, l |-> b.l, c |-> b.c]
Merged(bars, b) ==
  LET k == Len(bars)
  IN  IF bars # <<>> /\ bars[k].t = b.t
      THEN [bars EXCEPT ![k].c = b.c, ![k].h = Max({@, b.h}), ![k].l = Min({@, b.l})]
      ELSE Append(bars, b)
Placed(bars, b) ==
  LET k == Cardinality({i \in DOMAIN bars : bars[i].t < b.t})
  IN  SubSeq(bars, 1, k) \o <<b>> \o SubSeq(bars, k + 1, Len(bars))
Frame(stored, v1, len) ==
  FoldLeft(Placed, stored,
    FoldLeft(Merged, <<>>, [i \in DOMAIN v1 |-> Stretched(v1[i], len)]))

\* visible_count and slice, that is get_visible: the bars closed by t.
visible_count(bars, t) == Cardinality({i \in DOMAIN bars : bars[i].done <= t})
get_visible(bars, t)   == SubSeq(bars, 1, visible_count(bars, t))

MinuteOfDay(t) == t % DAY
in_session(t)  == MinuteOfDay(t) >= 12 * 60 /\ MinuteOfDay(t) < 17 * 60

-----------------------------------------------------------------------------
(* The life of a trade. *)

GoldHalf(b) == IF b.spread <= 0 THEN GOLD_DEFAULT_HALF ELSE b.spread \div 2
DirOf(t)    == IF t.dir = "BUY" THEN "low" ELSE "high"

\* The side of the quote a trade is closed on, at the worst, the best and the
\* first price of a bar, all seen from the trade.
Worst(t, b) == Seen(b, DirOf(t)).l - GoldHalf(b)
Best(t, b)  == Seen(b, DirOf(t)).h - GoldHalf(b)
AtOpen(t, b) == Sgn(t) * (Seen(b, DirOf(t)).o - GoldHalf(b))
HitsSl(t, b) == Worst(t, b) <= Sgn(t) * t.sl
HitsTp(t, b) == Best(t, b) >= Sgn(t) * t.tp2

\* _close_trade: a loss starts a cooldown, a gain ends it.
GoldClose(s, e, px, reason) ==
  LET t    == [CloseTrade(Filled(Head(s.open), px, Head(s.open).left), px, reason, e.n)
                 EXCEPT !.until = e.t]
      lost == t.net <= 0
      row  == IF lost THEN s.losses + 1 ELSE 0
  IN  [s EXCEPT !.bal = @ + t.net, !.closed = Append(@, t), !.open = <<>>,
                !.losses = row,
                !.cool = IF ~lost THEN 0
                         ELSE e.t + (IF row >= 2 THEN COOLDOWN_AFTER_TWO ELSE COOLDOWN_AFTER_LOSS)]

\* _manage_position, from the bar after the entry.
Manage(s, e, b) ==
  LET t == Head(s.open) IN
  IF s.open = <<>> THEN s
  ELSE IF t.deferred # "none" /\ e.n = t.ev + 1 THEN
    GoldClose(s, e, IF t.deferred = "sl_minhold" THEN t.sl ELSE t.tp2, t.deferred)
  ELSE IF MinuteOfDay(e.t) >= 17 * 60 THEN GoldClose(s, e, AtOpen(t, b), "session_flatten")
  ELSE IF e.t - t.at >= TIME_STOP_MIN THEN GoldClose(s, e, AtOpen(t, b), "time_stop")
  ELSE IF HitsSl(t, b) THEN GoldClose(s, e, t.sl, "sl")
  ELSE IF HitsTp(t, b) THEN GoldClose(s, e, t.tp2, "tp") ELSE s

\* _fill_entry, at the open of the bar; the lot is that of the balance on the
\* curve.  What the bar would close at once is put off to the next one.
GoldFill(s, e, b, sig) ==
  LET sgn   == IF sig.dir = "BUY" THEN 1 ELSE -1
      px    == b.o + sgn * (GoldHalf(b) + SLIPPAGE)
      risk  == sgn * (px - sig.sl)
      money == (Last(s.curve) * RiskPct) \div 100
      lot   == Max({LOT_MIN, Min({LOT_MAX, RoundLot(money, risk)})})
      t     == [sym |-> GOLD, dir |-> sig.dir, entry |-> px, sl |-> sig.sl, tp2 |-> sig.tp,
                risk |-> risk, lot |-> lot, left |-> lot, pv |-> 1,
                fee |-> (7 * (lot \div 2)) \div 10, at |-> e.t, ev |-> e.n,
                level |-> sig.level, asked |-> sig.at, grade |-> sig.grade, depth |-> sig.depth,
                gross |-> 0, fills |-> <<>>, exit |-> 0, reason |-> "open",
                net |-> 0, out |-> 0, until |-> 0, deferred |-> "none"]
      late  == IF HitsSl(t, b) THEN "sl_minhold"
               ELSE IF HitsTp(t, b) THEN "tp_minhold" ELSE "none"
  IN  IF risk < GOLD_MIN_RISK THEN s
      ELSE Admit(s, [t EXCEPT !.deferred = late], <<DateKey(e.t)>>)

-----------------------------------------------------------------------------
(* The walk. *)

\* BacktestResult, the locals of run_backtest and the detector.
GoldState ==
  [bal |-> INITIAL_BALANCE, open |-> <<>>, closed |-> <<>>, curve |-> <<>>,
   start |-> <<>>, count |-> <<>>, halted |-> FALSE,
   lost |-> FALSE,               \* daily_dd_halted
   losses |-> 0,                 \* consecutive_losses_today
   cool |-> 0,                   \* cooldown_until_ms, 0 for None
   pending |-> {},               \* pending_signal
   det |-> GoldDetector,
   shown |-> <<>>]               \* the latest 15M bar the detector saw, and when

Sampled(s) == [s EXCEPT !.curve = Append(@, s.bal)]

\* The roll of the day, after the closes of its first bar; the two halts.
GoldDay(s, e) ==
  IF DateKey(e.t) \in DOMAIN s.start THEN s
  ELSE [DayRoll(s, e) EXCEPT !.lost = FALSE, !.losses = 0]
TotalLost(s) == 100 * s.bal <= (100 - TOTAL_DD_PCT) * INITIAL_BALANCE
DailyHalt(s, e) ==
  [s EXCEPT !.lost = @ \/ 100 * s.bal <= (100 - DAILY_DD_PCT) * s.start[DateKey(e.t)]]

\* The signal of the bar before is filled or forgotten.
Capped(s, e)  == Counted(s, <<DateKey(e.t)>>) >= GoldCap
FillPending(s, e, b) ==
  LET f == [s EXCEPT !.pending = {}] IN
  IF s.pending = {} \/ s.open # <<>> THEN s
  ELSE IF s.lost \/ s.halted \/ Capped(s, e) THEN f
  ELSE GoldFill(f, e, b, CHOOSE sig \in s.pending : TRUE)

Cooling(s, t) == t < s.cool
GatesShut(s, e) ==
  \/ s.open # <<>> \/ s.lost \/ s.halted \/ Capped(s, e)
  \/ MinuteOfDay(e.t) >= 16 * 60 + 55
  \/ Cooling(s, e.t + 1)

\* The detector at the close of the bar; news may drop what it finds.
Decide(s, e, v1, news) ==
  LET t   == e.t + 1
      v5  == get_visible(Frame(Stored5, v1, 5), t)
      v15 == get_visible(Frame(Stored15, v1, 15), t)
      out == gold_detect(s.det, t, v1, v5, v15)
  IN  [s EXCEPT !.det = out.det,
                !.pending = IF news THEN @ ELSE IF out.sigs = {} THEN @ ELSE out.sigs,
                !.shown = IF v15 = <<>> THEN @ ELSE <<Last(v15).done, t>>]

\* run_backtest, one bar; v1 are the bars up to it.
GoldStep(s, e, v1, news) ==
  LET b == Last(v1)
      m == Manage(s, e, b)
      d == GoldDay(m, e)
      f == FillPending(DailyHalt(d, e), e, b)
  IN  Sampled(
        IF TotalLost(d) THEN [d EXCEPT !.halted = TRUE]
        ELSE IF ~in_session(e.t) \/ MinuteOfDay(e.t) = 12 * 60 \/ GatesShut(f, e) THEN f
        ELSE Decide(f, e, v1, news))

\* After the last bar: what is open goes at its open.
GoldFinish(s, b, e) ==
  IF s.open = <<>> THEN s ELSE GoldClose(s, e, AtOpen(Head(s.open), b), "data_end")

\* _summarise and _verdict; percentages, and the drawdown in tenths of one.
GoldReport(s) ==
  LET wins == Wins(s.closed)
      loss == SelectSeq(s.closed, LAMBDA t : t.net <= 0)
  IN  [wins |-> Len(wins), losses |-> Len(loss),
       gross_win |-> Total(wins), gross_loss |-> -Total(loss),
       final |-> IF s.curve = <<>> \/ s.closed = <<>> THEN INITIAL_BALANCE ELSE Last(s.curve),
       days |-> GroupBy(s.closed, LAMBDA t : DateKey(t.until))]
GoldVerdict(pf, wr, mdd) ==
  IF pf >= 140 /\ wr >= 48 /\ mdd <= 60 THEN "SHIP"
  ELSE IF pf < 120 \/ wr < 45 \/ mdd > 80 THEN "CUT" ELSE "TUNE"
=============================================================================
