--------------------------- MODULE MultiSetupCommon ---------------------------
(***************************************************************************)
(* strategy/patterns/_multi_setup_common.py: swings, trend, average true   *)
(* range, impulses, rejections and horizontal levels, computed afresh from *)
(* a sequence of closed candles.                                           *)
(*                                                                         *)
(* Prices are integers, in hundredths of a pip; the time t of a candle in  *)
(* minutes.  Lengths are constants (the code's values are 3, 14, 2, 20,    *)
(* 200, 3, 5); the other thresholds are the code's.  The functions no      *)
(* detector calls (the impulse of the lower timeframe and its threshold,   *)
(* the index of a time) are left out.                                      *)
(***************************************************************************)
EXTENDS Candles, FiniteSets
LOCAL INSTANCE SequencesExt
LOCAL INSTANCE FiniteSetsExt

CONSTANTS
  L_SWING, ATR_LEN, N_IMP_HTF, REJECT_VOL_LOOKBACK_BARS,
  LEVEL_LOOKBACK_BARS_HTF, LEVEL_MIN_TOUCHES, LEVEL_MIN_GAP_BARS

PIP                            == 100
OB_IMP_MIN_PIPS_FLOOR          == 20 * PIP
REJECT_VOL_MIN_PCT             == 110
LEVEL_CLUSTER_TOLERANCE_FLOOR  == 3 * PIP
LEVEL_NEARBY_TOL_MULT          == 3

(* Swings and trend. *)

\* find_swings: the confirmed swings; strictly beyond L_SWING candles on both
\* sides, so the last L_SWING candles hold none.
find_swings(bars) ==
  LET inner == L_SWING + 1 .. Len(bars) - L_SWING
      high(i) == \A k \in 1 .. L_SWING : bars[i].h > Max({bars[i - k].h, bars[i + k].h})
      low(i)  == \A k \in 1 .. L_SWING : bars[i].l < Min({bars[i - k].l, bars[i + k].l})
  IN  {[index |-> i, price |-> bars[i].h, kind |-> "HIGH"] : i \in {j \in inner : high(j)}}
      \cup
      {[index |-> i, price |-> bars[i].l, kind |-> "LOW"] : i \in {j \in inner : low(j)}}

OfKind(swings, kind) == {s \in swings : s.kind = kind}
Newest(swings)       == CHOOSE s \in swings : \A r \in swings : r.index <= s.index

\* last_swing: at most one of them, as a set.
last_swing(swings, kind) ==
  {s \in OfKind(swings, kind) : \A r \in OfKind(swings, kind) : r.index <= s.index}

\* classify_trend: the last two highs and the last two lows agree, or a range.
classify_trend(swings) ==
  LET highs == OfKind(swings, "HIGH")
      lows  == OfKind(swings, "LOW")
      rise(S) == Newest(S).price - Newest(S \ {Newest(S)}).price
  IN  CASE Cardinality(highs) < 2 \/ Cardinality(lows) < 2 -> "RANGE"
        [] Cardinality(highs) >= 2 /\ Cardinality(lows) >= 2 ->
             IF rise(highs) > 0 /\ rise(lows) > 0 THEN "BULLISH"
             ELSE IF rise(highs) < 0 /\ rise(lows) < 0 THEN "BEARISH" ELSE "RANGE"

-----------------------------------------------------------------------------
(* Average true range, impulses. *)

NONE == -1
true_range(prev_close, b) ==
  Max({range_(b), Distance(b.h, prev_close), Distance(b.l, prev_close)})

\* compute_atr: Wilder's average, seeded by the mean of the first ATR_LEN.
compute_atr(bars) ==
  LET trs == [i \in 1 .. Len(bars) - 1 |-> true_range(bars[i].c, bars[i + 1])]
      seed == FoldLeft(+, 0, SubSeq(trs, 1, ATR_LEN)) \div ATR_LEN
  IN  IF Len(bars) < ATR_LEN + 1 THEN NONE
      ELSE FoldLeft(LAMBDA a, tr : (a * (ATR_LEN - 1) + tr) \div ATR_LEN,
                    seed, SubSeq(trs, ATR_LEN + 1, Len(trs)))

\* _median
median(xs) ==
  LET s == SortSeq(xs, <)  n == Len(xs)
  IN  CASE n = 0 -> 0
        [] n % 2 = 1 -> s[n \div 2 + 1]
        [] n > 0 /\ n % 2 = 0 -> (s[n \div 2] + s[n \div 2 + 1]) \div 2

\* The common colour of a window: +1, -1, or 0.
ColourOf(window) ==
  IF \A i \in DOMAIN window : is_bullish(window[i]) THEN 1
  ELSE IF \A i \in DOMAIN window : is_bearish(window[i]) THEN -1 ELSE 0

NoImpulse == [is_impulsive |-> FALSE, direction |-> 0, displacement |-> 0, threshold |-> 0]
Travelled(window) == Distance(Last(window).c, Head(window).o)

\* detect_impulse_htf: N_IMP_HTF candles from start_idx on.
detect_impulse_htf(htf, start_idx, atr) ==
  LET window == SubSeq(htf, start_idx, start_idx + N_IMP_HTF - 1)
      floor == IF atr = NONE THEN OB_IMP_MIN_PIPS_FLOOR
               ELSE Max({OB_IMP_MIN_PIPS_FLOOR, (3 * atr) \div 2})
  IN  IF start_idx + N_IMP_HTF - 1 > Len(htf) \/ ColourOf(window) = 0 THEN NoImpulse
      ELSE [is_impulsive |-> Travelled(window) >= floor, direction |-> ColourOf(window),
            displacement |-> Travelled(window), threshold |-> floor]

-----------------------------------------------------------------------------
(* Rejections. *)

\* _volume_ok: the first candle, and a silent window, are waved through.
volume_ok(bars, idx) ==
  LET n == Min({idx - 1, REJECT_VOL_LOOKBACK_BARS})
      sum == FoldLeft(LAMBDA a, b : a + b.v, 0, SubSeq(bars, idx - n, idx - 1))
  IN  sum <= 0 \/ 100 * bars[idx].v * n >= REJECT_VOL_MIN_PCT * sum

is_rejection_bullish(bars, idx) ==
  /\ idx \in DOMAIN bars
  /\ \/ is_bullish_pin(bars[idx])
     \/ idx > 1 /\ is_bullish_engulf(bars[idx - 1], bars[idx])
  /\ volume_ok(bars, idx)
is_rejection_bearish(bars, idx) ==
  /\ idx \in DOMAIN bars
  /\ \/ is_bearish_pin(bars[idx])
     \/ idx > 1 /\ is_bearish_engulf(bars[idx - 1], bars[idx])
  /\ volume_ok(bars, idx)

-----------------------------------------------------------------------------
(* Horizontal levels. *)

Tolerance(atr) == Max({LEVEL_CLUSTER_TOLERANCE_FLOOR, atr \div 5})

\* The touches of the window by price: greedy clusters around their first.
Clusters(touches, tol) ==
  FoldLeft(LAMBDA cs, t :
             IF cs # <<>> /\ t.price - Head(Last(cs)).price <= 2 * tol
             THEN [cs EXCEPT ![Len(cs)] = Append(@, t)]
             ELSE Append(cs, <<t>>),
           <<>>, SortSeq(touches, LAMBDA a, b : a.price < b.price))

\* Touches far enough apart in time, oldest first.
Spaced(cluster) ==
  FoldLeft(LAMBDA kept, t :
             IF kept = <<>> \/ t.index - Last(kept).index >= LEVEL_MIN_GAP_BARS
             THEN Append(kept, t) ELSE kept,
           <<>>, SortSeq(cluster, LAMBDA a, b : a.index < b.index \/ (a.index = b.index /\ a.price < b.price)))

LevelOf(htf, cluster) ==
  LET kept == Spaced(cluster)
      centre == median([i \in DOMAIN cluster |-> cluster[i].price])
      holds(kind) == Cardinality({i \in DOMAIN kept : kept[i].kind = kind /\
                       IF kind = "low" THEN htf[kept[i].index].c > centre
                                       ELSE htf[kept[i].index].c < centre}) >= 2
  IN  [price |-> centre, touches |-> Len(kept), is_support |-> holds("low"),
       is_resistance |-> holds("high"), last |-> Last(kept).index]

\* find_sr_levels: clusters touched often enough from one side, and no other
\* level near.
TouchedLevels(htf, atr) ==
  LET from == Max({1, Len(htf) - LEVEL_LOOKBACK_BARS_HTF + 1})
      touches == FoldLeft(LAMBDA s, i : s \o
                   <<[price |-> htf[i].h, index |-> i, kind |-> "high"],
                     [price |-> htf[i].l, index |-> i, kind |-> "low"]>>,
                   <<>>, [i \in 1 .. Len(htf) - from + 1 |-> from + i - 1])
      cs == Clusters(touches, Tolerance(atr))
  IN  {L \in {LevelOf(htf, cs[i]) : i \in DOMAIN cs} :
         L.touches >= LEVEL_MIN_TOUCHES /\ (L.is_support \/ L.is_resistance)}
find_sr_levels(htf, atr) ==
  LET out == TouchedLevels(htf, atr)
  IN  {L \in out : \A M \in out \ {L} :
         Distance(L.price, M.price) > LEVEL_NEARBY_TOL_MULT * Tolerance(atr)}
=============================================================================
