-------------------------------- MODULE Sweeps --------------------------------
(***************************************************************************)
(* The two detectors of a level that is run over and taken back.           *)
(***************************************************************************)
EXTENDS BreakOfStructure
LOCAL INSTANCE FiniteSetsExt
LOCAL INSTANCE SequencesExt

(***************************************************************************)
(* strategy/patterns/liquidity_sweep.py: the low of the last swing is run  *)
(* over, but not too far, and reclaimed.                                   *)
(***************************************************************************)
CONSTANT SWEEP_RECLAIM_BARS                           \* 3 in the code

\* How far past the level a sweep goes: more than the first, at most the second.
Penetration(atr)    == Max({PIP, atr \div 10})
MaxPenetration(atr) == 4 * atr

\* _find_sweep_reclaim_long, _short: the last candle reclaims the level, or the
\* one before it did; of the candles that swept it the earliest.
find_sweep_reclaim_long(ltf, P, atr) ==
  LET n == Len(ltf)
      swept(i) == Penetration(atr) < P - ltf[i].l /\ P - ltf[i].l <= MaxPenetration(atr)
      now  == {i \in Max({1, n - SWEEP_RECLAIM_BARS + 1}) .. n : swept(i)}
      then == {i \in Max({1, n - SWEEP_RECLAIM_BARS}) .. n - 1 : swept(i)}
  IN  IF ltf[n].c > P /\ now # {} THEN {<<Min(now), n>>}
      ELSE IF n > 1 /\ ltf[n - 1].c > P /\ then # {} THEN {<<Min(then), n - 1>>} ELSE {}
find_sweep_reclaim_short(ltf, P, atr) ==
  LET n == Len(ltf)
      swept(i) == Penetration(atr) < ltf[i].h - P /\ ltf[i].h - P <= MaxPenetration(atr)
      now  == {i \in Max({1, n - SWEEP_RECLAIM_BARS + 1}) .. n : swept(i)}
      then == {i \in Max({1, n - SWEEP_RECLAIM_BARS}) .. n - 1 : swept(i)}
  IN  IF ltf[n].c < P /\ now # {} THEN {<<Min(now), n>>}
      ELSE IF n > 1 /\ ltf[n - 1].c < P /\ then # {} THEN {<<Min(then), n - 1>>} ELSE {}

\* _try_long, _try_short: entry at the level, the stop behind the sweep.
liq_try_long(ltf, swings, atr) ==
  LET grade == IF classify_trend(swings) # "BEARISH" THEN "A" ELSE "B"
      found(P) == IF MaxPenetration(atr) > 0 THEN find_sweep_reclaim_long(ltf, P, atr) ELSE {}
  IN  IF ~is_rejection_bullish(ltf, Len(ltf)) THEN {}
      ELSE UNION {UNION {BuyAt(s.price, ltf[f[1]].l - SL_BUFFER, grade, Last(ltf).t) :
                           f \in found(s.price)} : s \in last_swing(swings, "LOW")}
liq_try_short(ltf, swings, atr) ==
  LET grade == IF classify_trend(swings) # "BULLISH" THEN "A" ELSE "B"
      found(P) == IF MaxPenetration(atr) > 0 THEN find_sweep_reclaim_short(ltf, P, atr) ELSE {}
  IN  IF ~is_rejection_bearish(ltf, Len(ltf)) THEN {}
      ELSE UNION {UNION {SellAt(s.price, ltf[f[1]].h + SL_BUFFER, grade, Last(ltf).t) :
                           f \in found(s.price)} : s \in last_swing(swings, "HIGH")}

\* LiquiditySweepDetector.detect
liq_detect(ltf, htf) ==
  LET swings == find_swings(htf)
      atr == compute_atr(ltf)
      long == liq_try_long(ltf, swings, atr)
  IN  IF \/ Len(ltf) < ATR_LEN + 5 \/ Len(htf) < ATR_LEN + 2 * L_SWING + 1
         \/ swings = {} THEN {}
      ELSE IF long # {} THEN long ELSE liq_try_short(ltf, swings, atr)

-----------------------------------------------------------------------------
(***************************************************************************)
(* strategy/patterns/silver_bullet.py: inside one of three hours of the    *)
(* New York day, a rejected sweep, then a gap between two candles, then a  *)
(* return into the gap.                                                    *)
(***************************************************************************)
CONSTANTS SWEEP_LOOKBACK_BARS, SWEEP_REF_BARS, FVG_VALIDITY_BARS  \* 20, 12, 6

FVG_MIN_PIPS     == 2 * PIP
FVG_GRADE_A_PIPS == 4 * PIP

\* window_id_for: the hour in New York, here four behind UTC.
window_id_for(t) ==
  LET h == ((t \div 60) + 20) % 24
  IN  CASE h = 3 -> "LO" [] h = 10 -> "AM" [] h = 14 -> "PM" [] OTHER -> "none"

\* How far a sweep goes past its level.
SbSwept(d, atr) == Max({PIP, atr \div 10}) < d /\ d <= 4 * atr

\* The reference of a sweep: that of the higher timeframe, or the extreme of the
\* candles before it.
RefLows(ltf, htf_low, i) ==
  {<<p, "htf">> : p \in htf_low} \cup
  {<<LowestLow(SubSeq(ltf, Max({1, i - SWEEP_REF_BARS}), i - 1)), "ltf">> : j \in {k \in {i} : k > 1}}
RefHighs(ltf, htf_high, i) ==
  {<<p, "htf">> : p \in htf_high} \cup
  {<<HighestHigh(SubSeq(ltf, Max({1, i - SWEEP_REF_BARS}), i - 1)), "ltf">> : j \in {k \in {i} : k > 1}}

\* The one by the higher timeframe before the other.
Preferred(sweeps) ==
  LET htf == {s \in sweeps : s.ref_kind = "htf"} IN IF htf # {} THEN htf ELSE sweeps
NewestSweep(Sweeps(_), from, to) ==
  LET found == {i \in from .. to : Sweeps(i) # {}}
  IN  IF found = {} THEN {} ELSE Preferred(Sweeps(Max(found)))

\* _find_long_sweep: the newest candle that ran over a reference a later close
\* (its own, too) took back.
find_long_sweep(ltf, htf_low, atr) ==
  LET n == Len(ltf)
      back(i, p) == {j \in i .. n : ltf[j].c > p}
      sweeps(i) == {[sweep_idx |-> i, reclaim_idx |-> Min(back(i, r[1])),
                     extreme |-> ltf[i].l, ref_kind |-> r[2]] :
                      r \in {x \in RefLows(ltf, htf_low, i) :
                               SbSwept(x[1] - ltf[i].l, atr) /\ back(i, x[1]) # {}}}
  IN  NewestSweep(sweeps, Max({1, n - SWEEP_LOOKBACK_BARS + 1}), n)
find_short_sweep(ltf, htf_high, atr) ==
  LET n == Len(ltf)
      back(i, p) == {j \in i .. n : ltf[j].c < p}
      sweeps(i) == {[sweep_idx |-> i, reclaim_idx |-> Min(back(i, r[1])),
                     extreme |-> ltf[i].h, ref_kind |-> r[2]] :
                      r \in {x \in RefHighs(ltf, htf_high, i) :
                               SbSwept(ltf[i].h - x[1], atr) /\ back(i, x[1]) # {}}}
  IN  NewestSweep(sweeps, Max({1, n - SWEEP_LOOKBACK_BARS + 1}), n)

\* The third candle of a gap: both others after the reclaim, and not too old.
FvgThird(ltf, after_idx) ==
  Max({after_idx + 3, Len(ltf) - FVG_VALIDITY_BARS}) .. Len(ltf)
NewestGap(gaps) == {g \in gaps : \A f \in gaps : f.c_idx <= g.c_idx}

\* _find_bullish_fvg_after, _find_bearish_fvg_after
find_bullish_fvg_after(ltf, after_idx) ==
  NewestGap({[c_idx |-> c, low |-> ltf[c - 2].h, high |-> ltf[c].l] :
     c \in {x \in FvgThird(ltf, after_idx) : ltf[x].l - ltf[x - 2].h >= FVG_MIN_PIPS
                                              /\ ltf[x - 1].c >= ltf[x - 1].o}})
find_bearish_fvg_after(ltf, after_idx) ==
  NewestGap({[c_idx |-> c, low |-> ltf[c].h, high |-> ltf[c - 2].l] :
     c \in {x \in FvgThird(ltf, after_idx) : ltf[x - 2].l - ltf[x].h >= FVG_MIN_PIPS
                                              /\ ltf[x - 1].c <= ltf[x - 1].o}})

SbGrade(sweep, gap) ==
  IF sweep.ref_kind = "htf" /\ gap.high - gap.low >= FVG_GRADE_A_PIPS THEN "A" ELSE "B"

\* _try_long, _try_short: entry at the near edge of the gap once it is reached.
sb_try_long(ltf, htf_low, atr) ==
  UNION {UNION {BuyAt(g.high, Min({s.extreme, g.low}) - SL_BUFFER, SbGrade(s, g), Last(ltf).t) :
                  g \in {f \in find_bullish_fvg_after(ltf, s.reclaim_idx) : Last(ltf).l <= f.high}} :
           s \in find_long_sweep(ltf, htf_low, atr)}
sb_try_short(ltf, htf_high, atr) ==
  UNION {UNION {SellAt(g.low, Max({s.extreme, g.high}) + SL_BUFFER, SbGrade(s, g), Last(ltf).t) :
                  g \in {f \in find_bearish_fvg_after(ltf, s.reclaim_idx) : Last(ltf).h >= f.low}} :
           s \in find_short_sweep(ltf, htf_high, atr)}

\* SilverBulletDetector.detect
sb_detect(ltf, htf) ==
  LET atr == compute_atr(ltf)
      level(kind) == {s.price : s \in last_swing(find_swings(htf), kind)}
      long == sb_try_long(ltf, level("LOW"), atr)
  IN  IF \/ Len(ltf) < ATR_LEN + SWEEP_LOOKBACK_BARS + 3
         \/ window_id_for(Last(ltf).t) = "none" \/ atr <= 0 THEN {}
      ELSE IF long # {} THEN long ELSE sb_try_short(ltf, level("HIGH"), atr)
==============================================================================
