------------------------------- MODULE Detectors -------------------------------
(***************************************************************************)
(* The detectors of the research setups as candles close: the 1H history   *)
(* grows first, then the 15M candles of the hour after it.  Every detector *)
(* computes its answer afresh from the two histories, so the machine has   *)
(* no other state; the properties compare answers over different           *)
(* histories: the mirrored one, and the shorter one of an earlier hour.    *)
(* A third history is the list of signals of one scan, for the confluence  *)
(* resolver.                                                               *)
(***************************************************************************)
EXTENDS BreakOfStructure, Sweeps, SrLevels, Confluence
LOCAL INSTANCE SequencesExt
LOCAL INSTANCE FiniteSetsExt

CONSTANTS
  HourShapes,      \* shapes of a 1H candle: <<body, upper wick, lower wick>> in pips
  LateShapes,      \* shapes of a 1H candle after the first Hours
  QuarterShapes,   \* shapes of a 15M candle
  Hours, Quarters, \* how many of each
  MoreHours,       \* 1H candles of a history without a 15M candle after it
  Expanded,        \* hours of 15M history kept
  FoundSignals, MaxFound   \* signals a scan may find, and how many at most

VARIABLES htf, quarters, scan
vars == <<htf, quarters, scan>>

\* The hour that follows the history is the first of the New York windows.
HourTime(i)    == 60 * (6 - Hours + i)
QuarterTime(i) == HourTime(Hours) + 60 + 15 * (i - 1)

Shaped(o, shape, t, v) ==
  LET c == o + PIP * shape[1]
  IN  [o |-> o, c |-> c, h |-> Max({o, c}) + PIP * shape[2],
       l |-> Min({o, c}) - PIP * shape[3], v |-> v, t |-> t]
LastClose(bars, from) == IF bars = <<>> THEN from ELSE Last(bars).c

\* The 15M candles of an hour: to the wick on the far side, through the body in
\* two halves, to the other wick and back to the close.
Leg(b, from, to, k) ==
  [o |-> from, c |-> to, h |-> Max({from, to}), l |-> Min({from, to}),
   v |-> b.v \div 4, t |-> b.t + 15 * k]
Expand(b) ==
  LET far  == IF is_bullish(b) THEN b.l ELSE b.h
      near == IF is_bullish(b) THEN b.h ELSE b.l
      mid  == (b.o + b.c) \div 2
  IN  <<Leg(b, b.o, far, 0), Leg(b, far, mid, 1), Leg(b, mid, near, 2), Leg(b, near, b.c, 3)>>

\* The 15M window a detector is given.
Ltf(bars, now) ==
  FoldLeft(LAMBDA s, b : s \o Expand(b), <<>>,
           SubSeq(bars, Max({1, Len(bars) - Expanded + 1}), Len(bars))) \o now

Init == htf = <<>> /\ quarters = <<>> /\ scan = <<>>

HourCloses ==
  /\ Len(htf) < MoreHours /\ quarters = <<>> /\ scan = <<>>
  /\ \E s \in IF Len(htf) < Hours THEN HourShapes ELSE LateShapes :
       htf' = Append(htf, Shaped(LastClose(htf, 0), s, HourTime(Len(htf) + 1), 400))
  /\ UNCHANGED <<quarters, scan>>

QuarterCloses ==
  /\ Len(htf) = Hours /\ Len(quarters) < Quarters
  /\ \E s \in QuarterShapes :
       quarters' = Append(quarters, Shaped(LastClose(quarters, Last(htf).c), s,
                            QuarterTime(Len(quarters) + 1), IF s[1] \in -1 .. 1 THEN 200 ELSE 100))
  /\ UNCHANGED <<htf, scan>>

SetupFound ==
  /\ htf = <<>> /\ Len(scan) < MaxFound
  /\ \E s \in FoundSignals : scan' = Append(scan, s)
  /\ UNCHANGED <<htf, quarters>>

Done ==
  /\ Len(quarters) = Quarters \/ Len(htf) = MoreHours \/ Len(scan) = MaxFound
  /\ UNCHANGED vars

Next == HourCloses \/ QuarterCloses \/ SetupFound \/ Done
Spec == Init /\ [][Next]_vars

-----------------------------------------------------------------------------
(* Mirrors. *)

MirrorBar(b)   == [b EXCEPT !.o = -@, !.h = -b.l, !.l = -b.h, !.c = -@]
Mirror(bars)   == [i \in DOMAIN bars |-> MirrorBar(bars[i])]
Flip           == [BUY |-> "SELL", SELL |-> "BUY"]
MirrorSignals(S) ==
  {[s EXCEPT !.dir = Flip[@], !.entry = -@, !.sl = -@, !.tp1 = -@, !.tp = -@] : s \in S}
MirrorTrend    == [BULLISH |-> "BEARISH", BEARISH |-> "BULLISH", RANGE |-> "RANGE"]
MirrorEvents(E) ==
  {[e EXCEPT !.direction = -@, !.level = -@, !.prev_trend = MirrorTrend[@]] : e \in E}
MirrorBlocks(B) == {[b EXCEPT !.low = -b.high, !.high = -b.low] : b \in B}
Heights(swings, kind) == {s.price : s \in last_swing(swings, kind)}

HourComplete    == Len(htf) >= ATR_LEN + 2 * L_SWING + 2
QuarterComplete == HourComplete /\ quarters # <<>>

BosMirrored ==
  \A b \in DOMAIN htf :
    LET atr == compute_atr(htf) IN
    BearishBreak(Mirror(htf), find_swings(Mirror(htf)), BosBuffer(atr), b)
      = MirrorEvents(BullishBreak(htf, find_swings(htf), BosBuffer(atr), b))
BlocksMirrored ==
  LET atr == compute_atr(htf) IN
  find_latest_bearish_ob(Mirror(htf), atr) = MirrorBlocks(find_latest_bullish_ob(htf, atr))
RetestsMirrored(ltf) ==
  LET atr == compute_atr(htf)  trend == classify_trend(find_swings(htf)) IN
  /\ \A e \in find_latest_bos_event(htf, BosBuffer(atr)) : e.direction = 1 =>
       UNION {try_bearish_retest(Mirror(ltf), m, BosTolerance(atr)) : m \in MirrorEvents({e})}
         = MirrorSignals(try_bullish_retest(ltf, e, BosTolerance(atr)))
  /\ \A ob \in find_latest_bullish_ob(htf, atr) :
       UNION {ob_bearish_retest(Mirror(ltf), m, MirrorTrend[trend]) : m \in MirrorBlocks({ob})}
         = MirrorSignals(ob_bullish_retest(ltf, ob, trend))
SweepsMirrored(ltf) ==
  LET atr == compute_atr(ltf) IN
  /\ liq_try_short(Mirror(ltf), find_swings(Mirror(htf)), atr)
       = MirrorSignals(liq_try_long(ltf, find_swings(htf), atr))
  /\ sb_try_short(Mirror(ltf), Heights(find_swings(Mirror(htf)), "HIGH"), atr)
       = MirrorSignals(sb_try_long(ltf, Heights(find_swings(htf), "LOW"), atr))
\* Both halves of a level detector gather prices from the lowest up, which is no
\* mirror image by itself: a chain of prices each near the next is cut elsewhere
\* from the other end.  So the mirror holds where nothing is left to the order:
\* prices near a common one are near each other.
Apart(prices, width) ==
  \A p, q, r \in prices : Near(p, q, width) /\ Near(q, r, width) => Near(p, r, width)

\* For a bounce also: no candle touches one level with both its ends, of which
\* only the first counts.
TouchesClear(atr) ==
  LET window == Max({1, Len(htf) - LEVEL_LOOKBACK_BARS_HTF + 1}) .. Len(htf)
      width  == 2 * Tolerance(atr)
  IN  /\ Apart({htf[i].h : i \in window} \cup {htf[i].l : i \in window}, width)
      /\ \A i \in window : ~Near(htf[i].h, htf[i].l, width)
BouncesMirrored(ltf) ==
  LET atr == compute_atr(htf) IN
  TouchesClear(atr) =>
    try_short_rejection(Mirror(ltf), find_sr_levels(Mirror(htf), atr), "RANGE", Tolerance(atr))
      = MirrorSignals(try_long_bounce(ltf, find_sr_levels(htf, atr), "RANGE", Tolerance(atr)))

\* For a flip also: the swings of a level have one in the middle, since of two
\* the upper is taken.
SwingsClear(atr) ==
  LET highs == OfKind(find_swings(htf), "HIGH")
      width == 2 * FlipTolerance(atr)
      level(s) == {r \in highs : Near(r.price, s.price, width)}
  IN  /\ Apart({s.price : s \in highs}, width)
      /\ \A s \in highs : \/ Cardinality(level(s)) % 2 = 1
                         \/ \A r \in level(s) : r.price = s.price
FlipsMirrored(ltf) ==
  LET a == compute_atr(htf)  b == compute_atr(ltf) IN
  SwingsClear(a) =>
    FromNewest(FlipLevels(Mirror(htf), "LOW", a), LAMBDA L : flip_short(Mirror(ltf), Mirror(htf), L, a, b))
      = MirrorSignals(FromNewest(FlipLevels(htf, "HIGH", a), LAMBDA L : flip_long(ltf, htf, L, a, b)))

\* The two halves every detector is written as are mirror images: what the long
\* side does with a history the short side does with the mirrored one, the
\* swings, blocks and levels found in that one included.  Two limits are the
\* code's: a bounce off a level is compared in a range, since the halves judge a
\* trend differently, and levels where their gathering is clear (above).
MirrorImage ==
  /\ HourComplete => BosMirrored /\ BlocksMirrored
  /\ QuarterComplete =>
       LET ltf == Ltf(htf, quarters)
       IN  /\ RetestsMirrored(ltf) /\ SweepsMirrored(ltf)
           /\ BouncesMirrored(ltf) /\ FlipsMirrored(ltf)

-----------------------------------------------------------------------------
(* Nothing is seen in hindsight. *)

\* A break of structure had its swing confirmed on the hour it happened, and was
\* reported on that hour, with the same level and the same trend before it, if
\* its close cleared the buffer of that hour.  (The buffer is a share of the
\* average range of the history at hand: when the range shrinks later, a close
\* that was no break on its hour becomes one.  Nothing else changes in
\* hindsight.)
ClearedThen(e) ==
  Distance(htf[e.break_idx].c, e.level) > BosBuffer(compute_atr(SubSeq(htf, 1, e.break_idx)))
NoHindsight ==
  HourComplete =>
    \A e \in find_latest_bos_event(htf, BosBuffer(compute_atr(htf))) :
      LET then == SubSeq(htf, 1, e.break_idx) IN
      /\ e.swing + L_SWING <= e.break_idx
      /\ ClearedThen(e) => e \in find_latest_bos_event(then, BosBuffer(compute_atr(then)))

-----------------------------------------------------------------------------
(* Signals that agree and signals that contradict each other. *)

Contradict(a, b) == a.dir # b.dir /\ within_confluence_window(a, b)
Found == {scan[i] : i \in DOMAIN scan}
\* Two members of a group are each in the window of the one that gathered them.
Together(a, b) ==
  /\ Near(a.entry, b.entry, 2 * CONFLUENCE_PRICE_TOL_PIPS)
  /\ Near(a.bar, b.bar, 2 * CONFLUENCE_BAR_TOL_LTF)

\* Whatever the order in which the detectors reported, no trade is left that any
\* of them contradicted, and every uncontradicted signal is in a trade of its
\* pair and direction that is not far from it and names its setup.
ConfluenceSound ==
  LET out == resolve_confluence(scan)  trades == {out[i] : i \in DOMAIN out} IN
  /\ \A o \in trades, f \in Found : ~Contradict(o, f)
  /\ \A f \in Found :
       (\A g \in Found : ~Contradict(f, g)) =>
         \E o \in trades : /\ o.symbol = f.symbol /\ o.dir = f.dir
                          /\ f.setups \subseteq o.setups /\ Together(o, f)
=============================================================================
