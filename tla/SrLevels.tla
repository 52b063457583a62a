------------------------------- MODULE SrLevels -------------------------------
(***************************************************************************)
(* The two detectors of horizontal levels: a clean level is tagged and     *)
(* rejected, or a broken one is retested from the other side.              *)
(***************************************************************************)
EXTENDS BreakOfStructure
LOCAL INSTANCE FiniteSetsExt
LOCAL INSTANCE SequencesExt

(***************************************************************************)
(* strategy/patterns/sr_rejection.py: a clean horizontal level is tagged   *)
(* and rejected; the target stops short of the next level.                 *)
(***************************************************************************)
CONSTANT SR_REJECT_BARS_LTF                           \* 3 in the code

Window(ltf) == Max({1, Len(ltf) - SR_REJECT_BARS_LTF + 1}) .. Len(ltf)

\* The candles from the first that tagged a level, if no close went through it.
TaggedLow(ltf, L, tol) ==
  LET tags == {i \in Window(ltf) : ltf[i].l <= L.price + tol}
      since == SubSeq(ltf, Min(tags), Len(ltf))
  IN  IF tags = {} THEN <<>>
      ELSE IF \E i \in DOMAIN since : since[i].c < L.price - (3 * tol) \div 2 THEN <<>>
      ELSE since
TaggedHigh(ltf, L, tol) ==
  LET tags == {i \in Window(ltf) : ltf[i].h >= L.price - tol}
      since == SubSeq(ltf, Min(tags), Len(ltf))
  IN  IF tags = {} THEN <<>>
      ELSE IF \E i \in DOMAIN since : since[i].c > L.price + (3 * tol) \div 2 THEN <<>>
      ELSE since

\* The nearest level on the other side caps the target; too near: no trade.
Capped(s, levels, tol) ==
  LET ahead == IF s.dir = "BUY"
               THEN {L.price : L \in {M \in levels : M.is_resistance /\ M.price > s.entry}}
               ELSE {L.price : L \in {M \in levels : M.is_support /\ M.price < s.entry}}
      cap == IF s.dir = "BUY" THEN Min(ahead) - tol ELSE Max(ahead) + tol
      reached(px) == IF s.dir = "BUY" THEN px > cap ELSE px < cap
  IN  IF ahead = {} THEN {s}
      ELSE IF reached(s.entry) \/ s.entry = cap \/ reached(s.tp1) THEN {}
      ELSE {[s EXCEPT !.tp = IF reached(@) THEN cap ELSE @]}

\* _try_long_bounce: the highest support under the close that was tagged.
try_long_bounce(ltf, levels, trend, tol) ==
  LET close == Last(ltf).c
      tagged == {L \in levels : L.is_support /\ L.price < close /\ TaggedLow(ltf, L, tol) # <<>>}
      low(L) == LowestLow(TaggedLow(ltf, L, tol))
      grade == IF trend \in {"BULLISH", "RANGE"} THEN "A" ELSE "B"
  IN  IF ~is_rejection_bullish(ltf, Len(ltf)) THEN {}
      ELSE UNION {UNION {Capped(s, levels, tol) :
                           s \in BuyAt(close, low(L) - SL_BUFFER, grade, Last(ltf).t)} :
                    L \in {M \in tagged : \A K \in tagged : K.price <= M.price}}

\* _try_short_rejection: the lowest resistance above the close that was tagged;
\* nothing in a bearish trend, which the long side has no counterpart of.
try_short_rejection(ltf, levels, trend, tol) ==
  LET close == Last(ltf).c
      tagged == {L \in levels : L.is_resistance /\ L.price > close /\ TaggedHigh(ltf, L, tol) # <<>>}
      high(L) == HighestHigh(TaggedHigh(ltf, L, tol))
      grade == IF trend = "RANGE" THEN "A" ELSE "B"
  IN  IF ~is_rejection_bearish(ltf, Len(ltf)) \/ trend = "BEARISH" THEN {}
      ELSE UNION {UNION {Capped(s, levels, tol) :
                           s \in SellAt(close, high(L) + SL_BUFFER, grade, Last(ltf).t)} :
                    L \in {M \in tagged : \A K \in tagged : K.price >= M.price}}

\* SRRejectionDetector.detect
sr_detect(ltf, htf) ==
  LET atr == compute_atr(htf)
      levels == find_sr_levels(htf, atr)
      trend == classify_trend(find_swings(htf))
      long == try_long_bounce(ltf, levels, trend, Tolerance(atr))
  IN  IF Len(ltf) < ATR_LEN + 2 \/ Len(htf) < ATR_LEN + 2 * L_SWING + 1 THEN {}
      ELSE IF long # {} THEN long
      ELSE try_short_rejection(ltf, levels, trend, Tolerance(atr))

-----------------------------------------------------------------------------
(***************************************************************************)
(* strategy/patterns/sr_flip.py: a level of several swings that a close    *)
(* broke is retested from the other side and holds.                        *)
(***************************************************************************)
CONSTANTS FLIP_LEVEL_TOUCHES, FLIP_LEVEL_AGE_BARS, MAX_BREAK_AGE_HTF_BARS,
          RETEST_LOOKBACK_LTF_BARS, FLIP_HTF_BARS     \* 2, 200, 48, 48, 30

FlipTolerance(atr)  == Max({5 * PIP, (3 * atr) \div 10})
BreakMargin(atr)    == Max({3 * PIP, atr \div 5})
RetestTol(atr)      == Max({2 * PIP, (15 * atr) \div 100})
REENTRY_BLOCK       == 5 * PIP

\* _cluster_swings: by price, greedily around the lowest; the price of a cluster
\* is the upper of its middle ones.
cluster_swings(swings, tol) ==
  LET sorted == SetToSortSeq(swings, LAMBDA a, b :
                  a.price < b.price \/ (a.price = b.price /\ a.index < b.index))
      clusters == FoldLeft(LAMBDA cs, s :
                    IF cs # <<>> /\ s.price - Head(Last(cs)).price <= 2 * tol
                    THEN [cs EXCEPT ![Len(cs)] = Append(@, s)]
                    ELSE Append(cs, <<s>>), <<>>, sorted)
  IN  {[price |-> c[Len(c) \div 2 + 1].price, touches |-> Len(c),
        last_swing_idx |-> Max({c[i].index : i \in DOMAIN c})] :
         c \in {clusters[i] : i \in {j \in DOMAIN clusters :
                                       Len(clusters[j]) >= FLIP_LEVEL_TOUCHES}}}

\* The levels that are not stale.
FlipLevels(htf, kind, atr) ==
  {L \in cluster_swings(OfKind(find_swings(htf), kind), FlipTolerance(atr)) :
     Len(htf) - (L.last_swing_idx - 1) <= FLIP_LEVEL_AGE_BARS}

\* _find_break_above, _find_break_below: the first close past the level after
\* its last swing, unless a later close is back through it.
BreakFrom(htf, L) == Max({L.last_swing_idx + 1, Len(htf) - MAX_BREAK_AGE_HTF_BARS + 1})
find_break_above(htf, L, margin) ==
  LET broke == {i \in BreakFrom(htf, L) .. Len(htf) : htf[i].c > L.price + margin}
  IN  {i \in broke : i = Min(broke) /\
         \A j \in i + 1 .. Len(htf) : htf[j].c >= L.price - REENTRY_BLOCK}
find_break_below(htf, L, margin) ==
  LET broke == {i \in BreakFrom(htf, L) .. Len(htf) : htf[i].c < L.price - margin}
  IN  {i \in broke : i = Min(broke) /\
         \A j \in i + 1 .. Len(htf) : htf[j].c <= L.price + REENTRY_BLOCK}

\* _prior_retest_within_debounce_long, _short
Earlier(ltf) == Max({1, Len(ltf) - RETEST_LOOKBACK_LTF_BARS}) .. Len(ltf) - 1
prior_retest_long(ltf, L, tol) ==
  \E i \in Earlier(ltf) : ltf[i].l <= L.price + tol /\ ltf[i].c > L.price
prior_retest_short(ltf, L, tol) ==
  \E i \in Earlier(ltf) : ltf[i].h >= L.price - tol /\ ltf[i].c < L.price

\* The signals of the level whose last swing is the newest.
FromNewest(levels, Sig(_)) ==
  LET live == {L \in levels : Sig(L) # {}}
  IN  UNION {Sig(L) : L \in {M \in live : \A K \in live : K.last_swing_idx <= M.last_swing_idx}}

\* _try_long_flip, _try_short_flip
flip_long(ltf, htf, L, atr_htf, atr_ltf) ==
  LET cur == Last(ltf)
      engulf == Len(ltf) > 1 /\ is_bullish_engulf(ltf[Len(ltf) - 1], cur)
      grade == IF L.touches >= 3 /\ engulf THEN "A" ELSE "B"
  IN  IF /\ cur.l <= L.price + RetestTol(atr_ltf) /\ cur.c > L.price
         /\ find_break_above(htf, L, BreakMargin(atr_htf)) # {}
         /\ ~prior_retest_long(ltf, L, RetestTol(atr_ltf))
         /\ is_bullish_pin(cur) \/ engulf
      THEN BuyAt(cur.c, Min({cur.l, L.price}) - SL_BUFFER, grade, cur.t) ELSE {}
flip_short(ltf, htf, L, atr_htf, atr_ltf) ==
  LET cur == Last(ltf)
      engulf == Len(ltf) > 1 /\ is_bearish_engulf(ltf[Len(ltf) - 1], cur)
      grade == IF L.touches >= 3 /\ engulf THEN "A" ELSE "B"
  IN  IF /\ cur.h >= L.price - RetestTol(atr_ltf) /\ cur.c < L.price
         /\ find_break_below(htf, L, BreakMargin(atr_htf)) # {}
         /\ ~prior_retest_short(ltf, L, RetestTol(atr_ltf))
         /\ is_bearish_pin(cur) \/ engulf
      THEN SellAt(cur.c, Max({cur.h, L.price}) + SL_BUFFER, grade, cur.t) ELSE {}

\* SRFlipDetector.detect: broken resistances first.
flip_detect(ltf, htf) ==
  LET a == compute_atr(htf)
      b == compute_atr(ltf)
      long == FromNewest(FlipLevels(htf, "HIGH", a), LAMBDA L : flip_long(ltf, htf, L, a, b))
  IN  IF \/ Len(ltf) < ATR_LEN + RETEST_LOOKBACK_LTF_BARS + 5
         \/ Len(htf) < FLIP_HTF_BARS \/ a <= 0 \/ b <= 0 THEN {}
      ELSE IF long # {} THEN long
      ELSE FromNewest(FlipLevels(htf, "LOW", a), LAMBDA L : flip_short(ltf, htf, L, a, b))
==============================================================================
