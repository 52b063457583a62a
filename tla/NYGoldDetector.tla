---------------------------- MODULE NYGoldDetector ----------------------------
(***************************************************************************)
(* strategy/ny_gold_detector.py: a fresh 15M swing, 5M price near it, then *)
(* a 1M candle that runs past it and one that turns back.  The detector    *)
(* remembers, for the day, the levels it will not use again and since when *)
(* price is near a level.                                                  *)
(*                                                                         *)
(* Prices are in tenths of a gold pip, times in minutes from a Monday      *)
(* 00:00 UTC; a bar is a record of o h l c, its open time t and the time   *)
(* done at which it is closed.  The code holds every rule twice; here a    *)
(* short setup is the long one of the market turned upside down (Side,     *)
(* Seen), which is what the two halves of the code come to.                *)
(***************************************************************************)
EXTENDS Integers, Sequences, FiniteSets, SequencesExt, FiniteSetsExt

CONSTANTS ATR_5M_PERIOD,          \* 14
          LEVEL_LOOKBACK,         \* LEVEL_LOOKBACK_HOURS, in minutes
          ZONE_MAX_DWELL_MIN      \* 25

GOLD_PIP               == 10
LEVEL_INVALIDATE       == 5
ZONE_PROXIMITY         == 15
SWEEP_MIN_PENETRATION  == 1
SWEEP_MAX_PENETRATION  == 8
SWEEP_REJECT_TOLERANCE == 1
REVERSAL_MAX_WAIT_BARS == 3
ENGULF_MIN_BODY        == 2
PIN_MIN_WICK           == 3
GOLD_SL_BUFFER         == 2
GOLD_MIN_RISK          == 3
OPPOSING_BUFFER        == 2
OPPOSING_MAX_DISTANCE  == 80
TOUCH_TOLERANCE        == 5

Side(dir) == IF dir = "low" THEN 1 ELSE -1
Seen(b, dir) ==
  IF dir = "low" THEN b
  ELSE [b EXCEPT !.o = -@, !.h = -b.l, !.l = -b.h, !.c = -@]
Price(L) == Side(L.dir) * L.price
Key(L)   == <<L.price, L.at>>

-----------------------------------------------------------------------------
(* Candles. *)

\* _is_bullish_engulf, _is_bearish_engulf
is_engulf(v1, i, dir) ==
  i > 1 /\ LET b == Seen(v1[i], dir)  p == Seen(v1[i - 1], dir)
           IN  b.c - b.o >= ENGULF_MIN_BODY /\ p.c < p.o /\ b.c >= p.o /\ b.o <= p.c

\* _is_bullish_pin, _is_bearish_pin
is_pin(v1, i, dir) ==
  LET b == Seen(v1[i], dir)
  IN  /\ b.c > b.o
      /\ b.o - b.l >= Max({2 * (b.c - b.o), PIN_MIN_WICK})
      /\ 3 * (b.c - b.l) >= 2 * (b.h - b.l)

\* _atr_5m_pips: the mean true range; 0 without enough bars.
atr_5m(v5) ==
  LET n == Len(v5)
      range(i) == Max({v5[i].h, v5[i - 1].c}) - Min({v5[i].l, v5[i - 1].c})
  IN  IF n < ATR_5M_PERIOD + 1 THEN 0
      ELSE MapThenSumSet(range, n - ATR_5M_PERIOD + 1 .. n) \div ATR_5M_PERIOD

-----------------------------------------------------------------------------
(* Levels. *)

\* A swing of the 15M bars, confirmed by two bars on either side.
IsSwing(v15, i, dir) ==
  \A k \in {i - 2, i - 1, i + 1, i + 2} : Seen(v15[i], dir).l < Seen(v15[k], dir).l
Searched(v15, t) ==
  {i \in Max({3, Len(v15) - 79}) .. Len(v15) - 2 : v15[i].t >= t - LEVEL_LOOKBACK}

\* _count_touches
count_touches(v15, dir, price, t) ==
  Cardinality({k \in DOMAIN v15 :
    /\ v15[k].t >= t - LEVEL_LOOKBACK
    /\ Seen(v15[k], dir).l - price \in -TOUCH_TOLERANCE .. TOUCH_TOLERANCE})

LevelAt(v15, i, dir, t) ==
  LET p == Seen(v15[i], dir).l
  IN  [price |-> Side(dir) * p, at |-> v15[i].t, dir |-> dir,
       conf |-> v15[i + 2].done, touches |-> count_touches(v15, dir, p, t)]

\* _is_level_fresh: no 1M bar since the confirmation ran far past it.
is_level_fresh(v1, L) ==
  \A k \in DOMAIN v1 :
    v1[k].t >= L.conf => Seen(v1[k], L.dir).l >= Price(L) - LEVEL_INVALIDATE

\* _find_fresh_levels: the ones that are not fresh are burned.  A bar that is
\* both a low and a high is not looked at as a high once its low is burned.
find_fresh_levels(burned, t, v1, v15) ==
  LET at(dir) == {LevelAt(v15, i, dir, t) : i \in {j \in Searched(v15, t) : IsSwing(v15, j, dir)}}
      lows    == at("low")
      spent   == {L \in lows : Key(L) \in burned}
      levels  == {L \in lows \cup at("high") :
                    Key(L) \notin burned /\ L.at \notin {x.at : x \in spent}}
  IN  [levels |-> {L \in levels : is_level_fresh(v1, L)},
       burned |-> burned \cup {Key(L) : L \in {x \in levels : ~is_level_fresh(v1, x)}}]

\* _filter_zone: d is the detector.  A level price stayed near for too long is
\* burned; one that price left starts again.
filter_zone(d, t, v5, levels) ==
  LET near  == {L \in levels : Seen(Last(v5), L.dir).l <= Price(L) + ZONE_PROXIMITY}
      since(L) == IF Key(L) \in DOMAIN d.first THEN d.first[Key(L)] ELSE t
      stale == {L \in near : t - since(L) > ZONE_MAX_DWELL_MIN}
      left  == {Key(L) : L \in (levels \ near) \cup stale}
      kept  == near \ stale
  IN  IF v5 = <<>> THEN [zoned |-> {}, d |-> d]
      ELSE [zoned |-> kept,
            d |-> [d EXCEPT
              !.burned = @ \cup {Key(L) : L \in stale},
              !.first  = [k \in (DOMAIN @ \ left) \cup {Key(L) : L \in kept} |->
                            IF k \in DOMAIN d.first THEN d.first[k] ELSE t]]]

-----------------------------------------------------------------------------
(* The trigger. *)

PenMax(v5) == Max({SWEEP_MAX_PENETRATION, (4 * atr_5m(v5)) \div 10})

\* _eval_pair: s ran past the level, r turned; "burn" if it went too deep.
eval_pair(s, r, v1, L, pen_max) ==
  LET bar(k) == Seen(v1[k], L.dir)  p == Price(L)
      depth  == p - bar(s).l
  IN  IF ~(SWEEP_MIN_PENETRATION < depth /\ depth <= pen_max) THEN "none"
      ELSE IF bar(s).c <= p - SWEEP_REJECT_TOLERANCE THEN "none"
      ELSE IF \E k \in s + 1 .. r : bar(k).l < p - pen_max THEN "burn"
      ELSE IF bar(r).c <= p THEN "none"
      ELSE IF is_engulf(v1, r, L.dir) \/ is_pin(v1, r, L.dir) THEN "match" ELSE "none"

\* _try_trigger: the latest bar as the turn, up to three bars after the sweep.
Sweeps(v1, L, pen_max, what) ==
  {s \in Max({1, Len(v1) - REVERSAL_MAX_WAIT_BARS}) .. Len(v1) :
     v1[s].t >= L.conf /\ eval_pair(s, Len(v1), v1, L, pen_max) = what}

\* _tp_mode_b: a little before the nearest opposite swing; {} if none.
tp_mode_b(entry, dir, v15, t) ==
  LET other == IF dir = "low" THEN "high" ELSE "low"
      found == {-Seen(v15[i], other).l : i \in {j \in Searched(v15, t) : IsSwing(v15, j, other)}}
  IN  {p - OPPOSING_BUFFER :
         p \in {q \in found : entry < q - OPPOSING_BUFFER /\ q - entry <= OPPOSING_MAX_DISTANCE}}
tp_mode_a(entry, risk) == entry + (3 * risk) \div 2
\* _tp_mode_c: that swing if it is worth the risk, at most three times the risk.
tp_mode_c(entry, risk, tp_b) ==
  IF tp_b = {} \/ Min(tp_b) - entry < risk THEN tp_mode_a(entry, risk)
  ELSE Min({Min(tp_b), entry + 3 * risk})

GradeA(v1, L, depth) ==
  L.touches >= 2 /\ is_engulf(v1, Len(v1), L.dir) /\ 2 <= depth /\ depth <= 6

\* _finalise_signal: {} if the risk is too small.
finalise_signal(v1, v15, L, s, t) ==
  LET entry == Seen(Last(v1), L.dir).c
      stop  == Seen(v1[s], L.dir).l - GOLD_SL_BUFFER
      depth == Price(L) - Seen(v1[s], L.dir).l
      tp    == tp_mode_c(entry, entry - stop, tp_mode_b(entry, L.dir, v15, t))
      sig   == [dir |-> IF L.dir = "low" THEN "BUY" ELSE "SELL",
                sl |-> Side(L.dir) * stop, tp |-> Side(L.dir) * tp,
                grade |-> IF GradeA(v1, L, depth) THEN "A" ELSE "B",
                level |-> L, depth |-> depth, at |-> t]
  IN  IF entry - stop < GOLD_MIN_RISK \/ tp <= entry THEN {} ELSE {sig}

\* The signal of one level: the latest sweep first.
try_trigger(t, v1, v5, v15, L) ==
  LET found == Sweeps(v1, L, PenMax(v5), "match")
  IN  IF found = {} THEN {} ELSE finalise_signal(v1, v15, L, Max(found), t)

\* The order in which levels are tried: nearest to the close, then oldest.
Before(a, b, close) ==
  LET far(L) == IF L.price > close THEN L.price - close ELSE close - L.price
      rank(L) == IF L.dir = "low" THEN 0 ELSE 1
  IN  \/ far(a) < far(b)
      \/ far(a) = far(b) /\ a.at < b.at
      \/ far(a) = far(b) /\ a.at = b.at /\ rank(a) < rank(b)

\* The detector, and its reset on a new day.
GoldDetector == [day |-> -1, burned |-> {}, first |-> <<>>]
OfDay(d, t) ==
  IF d.day = t \div (24 * 60) THEN d
  ELSE [GoldDetector EXCEPT !.day = t \div (24 * 60)]

\* detect: the signals (at most one) and the detector after it.  Variant: the
\* level of a signal may be used again.
Burn_NotUsed(burned, sigs, aborted) == burned \cup {Key(L) : L \in aborted}
Burn(burned, sigs, aborted) ==
  burned \cup {Key(L) : L \in aborted} \cup {Key(g.level) : g \in sigs}
gold_detect(det, t, v1, v5, v15) ==
  LET d0    == OfDay(det, t)
      fresh == find_fresh_levels(d0.burned, t, v1, v15)
      zone  == filter_zone([d0 EXCEPT !.burned = fresh.burned], t, v5, fresh.levels)
      close == Last(v1).c
      ready == {L \in zone.zoned : try_trigger(t, v1, v5, v15, L) # {}}
      first == {L \in ready : \A M \in ready \ {L} : Before(L, M, close)}
      sigs  == UNION {try_trigger(t, v1, v5, v15, L) : L \in first}
      tried == {L \in zone.zoned : \A M \in first : L = M \/ Before(L, M, close)}
      aborted == {L \in tried : \E b \in Sweeps(v1, L, PenMax(v5), "burn") :
                    \A m \in Sweeps(v1, L, PenMax(v5), "match") : b > m}
  IN  [sigs |-> sigs, det |-> [zone.d EXCEPT !.burned = Burn(@, sigs, aborted)]]
=============================================================================
