--------------------------- MODULE BreakOfStructure ---------------------------
(***************************************************************************)
(* strategy/patterns/break_of_structure.py.  Something optional is a set   *)
(* of at most one element here and in the other detectors.                 *)
(***************************************************************************)
EXTENDS MultiSetupCommon
LOCAL INSTANCE FiniteSetsExt
LOCAL INSTANCE SequencesExt

CONSTANTS BOS_MAX_AGE_BARS_HTF, BOS_RETEST_BARS_LTF   \* 100 and 4 in the code

MIN_RISK_PIPS == 5 * PIP
SL_BUFFER     == 2 * PIP
BosBuffer(atr)    == Max({2 * PIP, atr \div 10})
BosTolerance(atr) == Max({3 * PIP, (15 * atr) \div 100})

\* PatternSignal, without its confidence and the tags that nothing reads.
Signal(dir, entry, sl, tp1, tp2, grade, time) ==
  [dir |-> dir, entry |-> entry, sl |-> sl, tp1 |-> tp1, tp |-> tp2,
   grade |-> grade, time |-> time]

\* The targets at 1.5 and 2.5 times a risk that is worth taking.
BuyAt(entry, sl, grade, time) ==
  {Signal("BUY", entry, sl, entry + (3 * r) \div 2, entry + (5 * r) \div 2, grade, time) :
     r \in {x \in {entry - sl} : x >= MIN_RISK_PIPS}}
SellAt(entry, sl, grade, time) ==
  {Signal("SELL", entry, sl, entry - (3 * r) \div 2, entry - (5 * r) \div 2, grade, time) :
     r \in {x \in {sl - entry} : x >= MIN_RISK_PIPS}}

LastThree(bars)      == SubSeq(bars, Max({1, Len(bars) - 2}), Len(bars))
LowestLow(bars)      == Min({bars[i].l : i \in DOMAIN bars})
HighestHigh(bars)    == Max({bars[i].h : i \in DOMAIN bars})

-----------------------------------------------------------------------------
\* The trend before the break of a swing: that swing is one of those it is
\* classified from.  Variant: every swing there is, later ones too.
PriorTrend_AllSwings(swings, s) == classify_trend(swings)
PriorTrend(swings, s) == classify_trend({r \in swings : r.index <= s.index})

\* A close beyond the last swing before it, against the trend or out of a
\* range, and no close back beyond the other side since.
BullishBreak(htf, swings, buffer, b) ==
  {[direction |-> 1, level |-> s.price, swing |-> s.index, break_idx |-> b,
    time |-> htf[b].t, prev_trend |-> PriorTrend(swings, s)] :
     s \in {x \in last_swing({r \in swings : r.index < b}, "HIGH") :
              /\ htf[b].c > x.price + buffer
              /\ PriorTrend(swings, x) \in {"BEARISH", "RANGE"}
              /\ \A j \in b + 1 .. Len(htf) : htf[j].c >= x.price - buffer}}
BearishBreak(htf, swings, buffer, b) ==
  {[direction |-> -1, level |-> s.price, swing |-> s.index, break_idx |-> b,
    time |-> htf[b].t, prev_trend |-> PriorTrend(swings, s)] :
     s \in {x \in last_swing({r \in swings : r.index < b}, "LOW") :
              /\ htf[b].c < x.price - buffer
              /\ PriorTrend(swings, x) \in {"BULLISH", "RANGE"}
              /\ \A j \in b + 1 .. Len(htf) : htf[j].c <= x.price + buffer}}

\* _find_latest_bos_event: the newest candle with a break; a bullish one first.
find_latest_bos_event(htf, buffer) ==
  LET swings == find_swings(htf)
      up(b)   == BullishBreak(htf, swings, buffer, b)
      down(b) == BearishBreak(htf, swings, buffer, b)
      broken == {b \in Max({1, Len(htf) - BOS_MAX_AGE_BARS_HTF}) .. Len(htf) :
                   up(b) \cup down(b) # {}}
  IN  IF Len(htf) < 2 \/ broken = {} THEN {}
      ELSE IF up(Max(broken)) # {} THEN up(Max(broken)) ELSE down(Max(broken))

\* The retest: the first candle after the break that is back at the level, no
\* close on the far side of the zone since, and now a rejection.
Touches(ltf, event, Back(_)) ==
  {i \in Max({1, Len(ltf) - BOS_RETEST_BARS_LTF + 1}) .. Len(ltf) :
     ltf[i].t > event.time /\ Back(ltf[i])}
try_bullish_retest(ltf, event, tol) ==
  LET touched == Touches(ltf, event, LAMBDA b : b.l <= event.level + tol)
      low  == event.level - tol
      held == touched # {} /\ \A i \in Min(touched) .. Len(ltf) : ltf[i].c >= low
  IN  IF ~is_rejection_bullish(ltf, Len(ltf)) \/ ~held THEN {}
      ELSE BuyAt(Last(ltf).c, Min({low, LowestLow(LastThree(ltf))}) - SL_BUFFER,
                 IF event.prev_trend = "BEARISH" THEN "A" ELSE "B", Last(ltf).t)
try_bearish_retest(ltf, event, tol) ==
  LET touched == Touches(ltf, event, LAMBDA b : b.h >= event.level - tol)
      high == event.level + tol
      held == touched # {} /\ \A i \in Min(touched) .. Len(ltf) : ltf[i].c <= high
  IN  IF ~is_rejection_bearish(ltf, Len(ltf)) \/ ~held THEN {}
      ELSE SellAt(Last(ltf).c, Max({high, HighestHigh(LastThree(ltf))}) + SL_BUFFER,
                  IF event.prev_trend = "BULLISH" THEN "A" ELSE "B", Last(ltf).t)

\* BreakOfStructureDetector.detect
bos_detect(ltf, htf) ==
  LET atr == compute_atr(htf)
  IN  IF Len(ltf) < ATR_LEN + 2 \/ Len(htf) < ATR_LEN + 2 * L_SWING + 2 THEN {}
      ELSE UNION {IF e.direction = 1 THEN try_bullish_retest(ltf, e, BosTolerance(atr))
                                     ELSE try_bearish_retest(ltf, e, BosTolerance(atr)) :
                    e \in find_latest_bos_event(htf, BosBuffer(atr))}

-----------------------------------------------------------------------------
(***************************************************************************)
(* strategy/patterns/order_block.py: the last candle against an impulse,   *)
(* traded when the price comes back to it.                                 *)
(***************************************************************************)
CONSTANTS OB_MAX_AGE_BARS_HTF, OB_RETEST_BARS_LTF     \* 200 and 3 in the code

ObCandidates(htf) ==
  Max({1, Len(htf) - OB_MAX_AGE_BARS_HTF}) .. Len(htf) - N_IMP_HTF
ObRecord(htf, i) ==
  [low |-> htf[i].l, high |-> htf[i].h, created_idx |-> i, time |-> htf[i].t]

\* _find_latest_bullish_ob: the newest candle that an impulse leaves behind and
\* clears, and that no close has gone through since.
find_latest_bullish_ob(htf, atr) ==
  LET imp(i) == detect_impulse_htf(htf, i + 1, atr)
      blocks == {i \in ObCandidates(htf) :
                   /\ is_bearish(htf[i])
                   /\ imp(i).is_impulsive /\ imp(i).direction = 1
                   /\ 2 * (htf[i + N_IMP_HTF].c - htf[i].h) >= imp(i).threshold
                   /\ \A j \in i + 1 .. Len(htf) : htf[j].c >= htf[i].l}
  IN  {ObRecord(htf, i) : i \in {j \in blocks : j = Max(blocks)}}
\* Variant: closes through the block are not looked at.
find_latest_bearish_ob_Stale(htf, atr) ==
  LET imp(i) == detect_impulse_htf(htf, i + 1, atr)
      blocks == {i \in ObCandidates(htf) :
                   /\ is_bullish(htf[i])
                   /\ imp(i).is_impulsive /\ imp(i).direction = -1
                   /\ 2 * (htf[i].l - htf[i + N_IMP_HTF].c) >= imp(i).threshold}
  IN  {ObRecord(htf, i) : i \in {j \in blocks : j = Max(blocks)}}
find_latest_bearish_ob(htf, atr) ==
  LET imp(i) == detect_impulse_htf(htf, i + 1, atr)
      blocks == {i \in ObCandidates(htf) :
                   /\ is_bullish(htf[i])
                   /\ imp(i).is_impulsive /\ imp(i).direction = -1
                   /\ 2 * (htf[i].l - htf[i + N_IMP_HTF].c) >= imp(i).threshold
                   /\ \A j \in i + 1 .. Len(htf) : htf[j].c <= htf[i].h}
  IN  {ObRecord(htf, i) : i \in {j \in blocks : j = Max(blocks)}}

\* _try_bullish_retest, _try_bearish_retest: the first touch after the block
\* was made must not have closed through it.
ob_bullish_retest(ltf, ob, trend) ==
  LET touched == {i \in Max({1, Len(ltf) - OB_RETEST_BARS_LTF + 1}) .. Len(ltf) :
                    ltf[i].l <= ob.high /\ ltf[i].t > ob.time}
      rb == ltf[Min(touched)]
  IN  IF \/ ~is_rejection_bullish(ltf, Len(ltf)) \/ touched = {}
         \/ is_bearish(rb) /\ rb.c < ob.low
      THEN {}
      ELSE BuyAt(ob.high, ob.low - SL_BUFFER,
                 IF trend = "BULLISH" THEN "A" ELSE "B", Last(ltf).t)
ob_bearish_retest(ltf, ob, trend) ==
  LET touched == {i \in Max({1, Len(ltf) - OB_RETEST_BARS_LTF + 1}) .. Len(ltf) :
                    ltf[i].h >= ob.low /\ ltf[i].t > ob.time}
      rb == ltf[Min(touched)]
  IN  IF \/ ~is_rejection_bearish(ltf, Len(ltf)) \/ touched = {}
         \/ is_bullish(rb) /\ rb.c > ob.high
      THEN {}
      ELSE SellAt(ob.low, ob.high + SL_BUFFER,
                  IF trend = "BEARISH" THEN "A" ELSE "B", Last(ltf).t)

\* OrderBlockDetector.detect: not against the trend, the long side first.
ob_detect(ltf, htf) ==
  LET atr == compute_atr(htf)
      trend == classify_trend(find_swings(htf))
      long  == IF trend = "BEARISH" THEN {}
               ELSE UNION {ob_bullish_retest(ltf, ob, trend) : ob \in find_latest_bullish_ob(htf, atr)}
      short == IF trend = "BULLISH" THEN {}
               ELSE UNION {ob_bearish_retest(ltf, ob, trend) : ob \in find_latest_bearish_ob(htf, atr)}
  IN  IF Len(ltf) < ATR_LEN + 2 \/ Len(htf) < ATR_LEN + N_IMP_HTF + 1 THEN {}
      ELSE IF long # {} THEN long ELSE short
=============================================================================
