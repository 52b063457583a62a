------------------------- MODULE AsianSweepDayProofs -------------------------
(***************************************************************************)
(* Proofs about AsianSweepDay: whatever bars a day has, an order risks no  *)
(* more than the ceiling, the stop of an exit ladder only tightens, and    *)
(* the live engine's exits are those of the backtest on the same bars: its *)
(* stop, its lots and what it realised are the backtest's, bar by bar.     *)
(* And it signals what the backtest finds: what the buffer shows of a day  *)
(* is what all its bars show, so the first answer in a session is the      *)
(* signal of that session, and what is booked is one of them.              *)
(***************************************************************************)
EXTENDS AsianSweepDay, SequenceTheorems, FiniteSetTheorems, TLAPS

Simulating == INSTANCE Folding WITH Op <- SimBar
Acting     == INSTANCE Folding WITH Op <- Act
Keeping    == INSTANCE Folding WITH Op <- Keep
Weighing   == INSTANCE Folding WITH Op <- Weighed
Smoothing  == INSTANCE Folding WITH Op <- Smoothed
Extending  == INSTANCE Folding WITH Op <- Extended
Booking    == INSTANCE Folding WITH Op <- Booked

-----------------------------------------------------------------------------
(* Types. *)

Reasons == {"none", "SL", "TRAIL", "TP2", "EOD", "EOD_trail"}
SignalType ==
  [dir : {"BUY", "SELL"}, entry : Int, sl : Int, tp1 : Int, tp : Int,
   session : {"LONDON", "NY", "none"}, at : Int, grade : {"A", "B"}]
StateType ==
  [dir : {"BUY", "SELL"}, entry : Int, sl : Int, tp1 : Int, tp2 : Int, risk : Int,
   lots : Nat, left : Nat, tp1_hit : BOOLEAN, closed : BOOLEAN, exit : Int, reason : Reasons]
ActType == [act : {"close", "half", "stop"}, px : Int]

\* A ladder belongs to its signal and has the size that was found for it.
LadderOf(l, x) ==
  /\ l.st.dir = l.sig.dir /\ l.st.entry = l.sig.entry
  /\ l.st.tp1 = l.sig.tp1 /\ l.st.tp2 = l.sig.tp
  /\ Sgn(l.sig) * (l.sig.entry - l.sig.sl) > 0
  /\ l.st.risk = Sgn(l.sig) * (l.sig.entry - l.sig.sl)
  /\ l.st.lots = size_position(PAIR_CONFIG[Pairs[l.pair]], x.equity,
                               Sgn(l.sig) * (l.sig.entry - l.sig.sl), x.weak)

\* Where the stop of a ladder stands: where the signal put it until TP1 was
\* reached, at or beyond entry from then on.
StopOf(sig, st) ==
  /\ ~st.tp1_hit => st.sl = sig.sl
  /\ st.tp1_hit => Sgn(sig) * (st.sl - sig.entry) >= 0
  /\ st.left <= st.lots
  /\ st.closed <=> st.reason # "none"
  /\ st.reason = "SL" => ~st.tp1_hit /\ st.exit = sig.sl
  /\ st.reason = "TRAIL" => st.tp1_hit /\ st.exit = st.sl

\* What a bar, or the end of the session, may do to a ladder.
Tightens(st, nxt) ==
  /\ nxt.left <= st.left
  /\ st.tp1_hit => nxt.tp1_hit
  /\ st.tp1_hit => Sgn(st) * (nxt.sl - st.sl) >= 0
  /\ st.closed => nxt = st

LadderType == [pair : DOMAIN Pairs, sig : SignalType, acts : Seq(ActType), st : StateType]

DayInv ==
  /\ setting \in Settings
  /\ data \in [DOMAIN Pairs -> [sym : DOMAIN PAIR_CONFIG, df : Seq(BarType)]]
  /\ hour \in Nat
  /\ ladders \in Seq(LadderType)
  /\ \A k \in DOMAIN ladders :
       /\ LadderOf(ladders[k], setting) /\ StopOf(ladders[k].sig, ladders[k].st)
       /\ data[ladders[k].pair].df # <<>>

-----------------------------------------------------------------------------
(* The greatest and the least of finitely many integers. *)

\* The sets of the positions of what is greater are finite, and one of them
\* contains none of the others.
LEMMA Greatest ==
  ASSUME NEW W, IsFiniteSet(W), W # {}, NEW f \in [W -> Int]
  PROVE  \E m \in W : \A j \in W : f[j] <= f[m]
<1> DEFINE Above(i) == {j \in W : f[j] > f[i]}
           R == StrictSubsetOrdering(W)
           F == FiniteSubsetsOf(W)
           A == {Above(i) : i \in W}
<1>1. IsWellFoundedOn(R, F)
  BY FS_StrictSubsetOrderingWellFounded
<1>2. A \subseteq F /\ A # {}
  <2>1. \A i \in W : Above(i) \in SUBSET W
    OBVIOUS
  <2>2. \A i \in W : IsFiniteSet(Above(i))
    BY <2>1, FS_Subset
  <2>3. \A i \in W : Above(i) \in F
    <3> HIDE DEF Above
    <3> QED BY <2>1, <2>2 DEF FiniteSubsetsOf
  <2>4. PICK i : i \in W
    OBVIOUS
  <2>5. Above(i) \in A
    BY <2>4
  <2>6. QED
    <3> HIDE DEF Above, F
    <3> QED BY <2>3, <2>5
<1>3. PICK U \in A : \A V \in A : ~ (<<V, U>> \in R)
  <2> HIDE DEF A, R, F
  <2> QED BY <1>1, <1>2, WFMin
<1>4. PICK m \in W : U = Above(m)
  OBVIOUS
<1>5. ASSUME NEW n \in W, f[n] > f[m] PROVE FALSE
  <2>1. Above(n) \in A
    OBVIOUS
  <2>2. n \in U /\ n \notin Above(n)
    BY <1>4, <1>5
  <2>3. ASSUME NEW j \in Above(n) PROVE j \in U
    BY <1>4, <1>5, <2>3
  <2>4. <<Above(n), U>> \in R
    BY <2>1, <2>2, <2>3, <1>2, <1>4 DEF StrictSubsetOrdering
  <2>5. QED BY <2>1, <2>4, <1>3
<1>6. \A j \in W : f[j] <= f[m]
  BY <1>5
<1>7. QED BY <1>6

\* The extent of a window that is not empty is a pair of prices.
LEMMA ExtentIs ==
  ASSUME NEW bars \in Seq(BarType), NEW W \in SUBSET DOMAIN bars, W # {}
  PROVE  Extent(bars, W) \in Int \X Int
<1>1. IsFiniteSet(W)
  <2>1. Len(bars) \in Int /\ DOMAIN bars = 1 .. Len(bars)
    BY LenProperties
  <2>2. IsFiniteSet(DOMAIN bars)
    BY <2>1, FS_Interval
  <2>3. QED BY <2>2, FS_Subset
<1>2. \A i \in W : bars[i].h \in Int /\ bars[i].l \in Int
  <2>1. \A i \in DOMAIN bars : bars[i] \in BarType
    BY ElementOfSeq, LenProperties
  <2>2. QED BY <2>1 DEF BarType
<1>3. Max({bars[i].h : i \in W}) \in Int
  <2> DEFINE f == [i \in W |-> bars[i].h]
  <2>1. f \in [W -> Int]
    BY <1>2
  <2>2. PICK m \in W : \A j \in W : f[j] <= f[m]
    <3> HIDE DEF f
    <3> QED BY <1>1, <2>1, Greatest
  <2>3. \E x \in {bars[i].h : i \in W} : \A y \in {bars[i].h : i \in W} : x >= y
    BY <1>2, <2>2
  <2>4. QED BY <1>2, <2>3 DEF Max
<1>4. Min({bars[i].l : i \in W}) \in Int
  <2> DEFINE f == [i \in W |-> -bars[i].l]
  <2>1. f \in [W -> Int]
    BY <1>2
  <2>2. PICK m \in W : \A j \in W : f[j] <= f[m]
    <3> HIDE DEF f
    <3> QED BY <1>1, <2>1, Greatest
  <2>3. \A j \in W : bars[m].l <= bars[j].l
    BY <1>2, <2>2
  <2>4. \E x \in {bars[i].l : i \in W} : \A y \in {bars[i].l : i \in W} : x <= y
    BY <1>2, <2>3
  <2>5. QED BY <1>2, <2>4 DEF Min
<1>5. QED BY <1>3, <1>4 DEF Extent

-----------------------------------------------------------------------------
(* The detector. *)

\* build_signal gives a signal whose stop is on its losing side, or none.
LEMMA BuiltSignal ==
  ASSUME NEW dir \in {"BUY", "SELL"}, NEW entry \in Int, NEW sl \in Int, NEW t \in Int, NEW cfg,
         NEW sig \in build_signal(dir, entry, sl, t, cfg)
  PROVE  /\ sig \in SignalType /\ Sgn(sig) * (sig.entry - sig.sl) > 0
         /\ sig.at = t /\ sig.session = SessionOf(t)
         /\ build_signal(dir, entry, sl, t, cfg) = {sig}
<1>1. SessionOf(t) \in {"LONDON", "NY", "none"}
  BY DEF SessionOf
<1>2. CASE dir = "BUY"
  BY <1>1, <1>2 DEF build_signal, SignalType, Sgn, PT, MIN_RISK_PT_MULT
<1>3. CASE dir = "SELL"
  BY <1>1, <1>3 DEF build_signal, SignalType, Sgn, PT, MIN_RISK_PT_MULT
<1>4. QED BY <1>2, <1>3

\* detect answers with one signal at most.
LEMMA Detected ==
  ASSUME NEW bars \in Seq(BarType), bars # <<>>, NEW sym \in DOMAIN PAIR_CONFIG,
         NEW sig \in detect(bars, sym)
  PROVE  /\ sig \in SignalType /\ Sgn(sig) * (sig.entry - sig.sl) > 0
         /\ sig.at = Last(bars).t /\ sig.session = SessionOf(Last(bars).t)
         /\ detect(bars, sym) = {sig}
<1> DEFINE cur == Last(bars)
           cfg == PAIR_CONFIG[sym]
           range == compute_asian_range(bars, DayOf(cur.t))
<1>1. cur \in BarType
  BY ElementOfSeq, LenProperties DEF Last
<1>2. cfg.spread \in Nat /\ cfg.sl_pts \in Nat
  BY PairAssumption
<1>3. range # <<>> => range[1] \in Int /\ range[2] \in Int
  <2> DEFINE W == AsianWindow(bars, DayOf(cur.t))
  <2>1. W \in SUBSET DOMAIN bars
    BY DEF AsianWindow
  <2>2. range # <<>> => W # {} /\ range = Extent(bars, W)
    <3>1. Cardinality({}) < 2
      BY FS_EmptySet
    <3>2. range = IF Cardinality(W) < 2 THEN <<>> ELSE Extent(bars, W)
      BY DEF compute_asian_range
    <3> HIDE DEF W, range
    <3>3. QED BY <3>1, <3>2
  <2> HIDE DEF W, range
  <2>3. QED BY <2>1, <2>2, ExtentIs
<1>4. PICK dir \in {"BUY", "SELL"}, entry \in Int, sl \in Int :
        detect(bars, sym) = build_signal(dir, entry, sl, cur.t, cfg)
  <2>1. CASE range = <<>>
    BY <2>1 DEF detect
  <2>2. CASE range # <<>>
    <3>1. /\ cur.h \in Int /\ cur.l \in Int /\ PT * cfg.spread \in Int /\ PT * cfg.sl_pts \in Int
      <4>1. \A n \in Nat : PT * n \in Int
        BY DEF PT
      <4> HIDE DEF cur, cfg, range
      <4>2. QED BY <1>1, <1>2, <4>1 DEF BarType
    <3>2. /\ range[1] - PT * cfg.spread \in Int /\ cur.h + PT * cfg.sl_pts \in Int
          /\ range[2] + PT * cfg.spread \in Int /\ cur.l - PT * cfg.sl_pts \in Int
      BY <1>3, <2>2, <3>1
    <3>3. \/ detect(bars, sym) = {}
          \/ detect(bars, sym) = build_signal("SELL", range[1] - PT * cfg.spread,
                                              cur.h + PT * cfg.sl_pts, cur.t, cfg)
          \/ detect(bars, sym) = build_signal("BUY", range[2] + PT * cfg.spread,
                                              cur.l - PT * cfg.sl_pts, cur.t, cfg)
      BY DEF detect
    <3> HIDE DEF cur, cfg, range
    <3>4. QED BY <3>2, <3>3
  <2>3. QED BY <2>1, <2>2
<1>5. cur.t \in Int
  BY <1>1 DEF BarType
<1> HIDE DEF cfg
<1>6. QED BY <1>4, <1>5, BuiltSignal

\* What SetToSeq makes of the answer.
LEMMA AsSequence ==
  ASSUME NEW S, \A x \in S : S = {x}
  PROVE  /\ SetToSeq(S) \in Seq(S) /\ (S = {} => SetToSeq(S) = <<>>)
         /\ Len(SetToSeq(S)) <= 1
         /\ \A x \in S : Len(SetToSeq(S)) = 1 /\ SetToSeq(S)[1] = x
<1>1. CASE S = {}
  <2>1. Cardinality(S) = 0
    BY <1>1, FS_EmptySet
  <2>2. [i \in 1 .. 0 |-> 0] \in [1 .. 0 -> S] /\ IsInjective([i \in 1 .. 0 |-> 0])
    BY DEF IsInjective
  <2>3. SetToSeq(S) \in [1 .. 0 -> S]
    BY <2>1, <2>2 DEF SetToSeq
  <2>4. SetToSeq(S) = <<>>
    BY <2>3
  <2>5. QED BY <2>4, <1>1
<1>2. ASSUME NEW x \in S
      PROVE  SetToSeq(S) \in Seq(S) /\ Len(SetToSeq(S)) = 1 /\ SetToSeq(S)[1] = x
  <2>1. S = {x}
    OBVIOUS
  <2>2. Cardinality(S) = 1
    BY <2>1, FS_Singleton
  <2>3. [i \in 1 .. 1 |-> x] \in [1 .. 1 -> S] /\ IsInjective([i \in 1 .. 1 |-> x])
    BY <2>1 DEF IsInjective
  <2>4. SetToSeq(S) \in [1 .. 1 -> S]
    BY <2>2, <2>3 DEF SetToSeq
  <2>5. \E n \in Nat : SetToSeq(S) \in [1 .. n -> S]
    BY <2>4
  <2>6. SetToSeq(S) \in Seq(S)
    BY <2>5, SeqDef
  <2>7. Len(SetToSeq(S)) = 1 /\ SetToSeq(S)[1] \in S
    BY <2>4
  <2>8. QED BY <2>1, <2>6, <2>7
<1>3. QED
  <2>1. CASE S = {}
    BY <1>1, <2>1
  <2>2. CASE S # {}
    <3>1. PICK x \in S : TRUE
      BY <2>2
    <3>2. SetToSeq(S) \in Seq(S) /\ Len(SetToSeq(S)) = 1
      BY <1>2
    <3>3. Len(SetToSeq(S)) <= 1
      BY <3>2
    <3>4. QED BY <1>2, <2>2, <3>2, <3>3, Zenon
  <2>3. QED BY <2>1, <2>2

-----------------------------------------------------------------------------
(* Sizes. *)

\* An amount of money divided by what a half step risks, rounded to a step.
LEMMA NearestIs ==
  ASSUME NEW amount \in Int, NEW unit \in Nat \ {0}
  PROVE  /\ Nearest(amount, unit) \in Int /\ Nearest(amount, unit) % 2 = 0
         /\ (Nearest(amount, unit) - 1) * unit <= amount
<1> DEFINE q == (amount + unit) \div (2 * unit)
<1>1. q \in Int /\ q * (2 * unit) <= amount + unit
  OBVIOUS
<1>2. Nearest(amount, unit) = 2 * q
  BY DEF Nearest
<1> HIDE DEF q
<1>3. (2 * q - 1) * unit = q * (2 * unit) - unit
  BY <1>1
<1>4. (2 * q) % 2 = 0
  BY <1>1
<1>5. QED BY <1>1, <1>2, <1>3, <1>4

LEMMA ClampIs ==
  ASSUME NEW lots \in Int, lots % 2 = 0, NEW cfg, cfg.lot_max \in Nat, cfg.lot_max % 2 = 0
  PROVE  Clamp(lots, cfg) \in Nat /\ Clamp(lots, cfg) % 2 = 0
<1>1. Min({lots, cfg.lot_max}) \in {lots, cfg.lot_max}
  BY DEF Min
<1>2. Max({MIN_LOT, Min({lots, cfg.lot_max})}) \in {MIN_LOT, lots, cfg.lot_max}
  BY <1>1 DEF Max, MIN_LOT
<1>3. Max({MIN_LOT, Min({lots, cfg.lot_max})}) >= MIN_LOT
  BY <1>1 DEF Max, MIN_LOT
<1>4. QED BY <1>2, <1>3 DEF Clamp, MIN_LOT

\* size_position gives whole steps; more than the smallest order keeps the
\* ceiling.  Half a step is what rounding may add to it.
LEMMA SizeIs ==
  ASSUME NEW cfg, cfg.vpl \in Nat \ {0}, cfg.override \in Nat,
         cfg.lot_max \in Nat, cfg.lot_max % 2 = 0,
         NEW equity \in Nat, NEW dist \in Int, NEW weak \in BOOLEAN
  PROVE  LET size == size_position(cfg, equity, dist, weak)
         IN  /\ size \in Nat /\ size % 2 = 0
             /\ size > MIN_LOT => (size - 1) * Unit(dist, cfg) <= MAX_RISK_USD_PER_TRADE
<1> DEFINE size == size_position(cfg, equity, dist, weak)
           amount == (equity * risk_pct_for(cfg, weak)) \div 2000
           unit == Unit(dist, cfg)
           lots == Clamp(Nearest(amount, unit), cfg)
           most == Nearest(MAX_RISK_USD_PER_TRADE, unit)
           cut == Min({most, cfg.lot_max})
<1>1. CASE equity <= 0 \/ dist <= 0 \/ dist < MIN_SL_DISTANCE_PIPS * 10 * PT
  <2>1. size \in {0, MIN_LOT}
    BY <1>1 DEF size_position
  <2>2. QED BY <2>1 DEF MIN_LOT
<1>2. CASE ~ (equity <= 0 \/ dist <= 0 \/ dist < MIN_SL_DISTANCE_PIPS * 10 * PT)
  <2>1. unit \in Nat \ {0}
    BY <1>2 DEF Unit
  <2>2. amount \in Int
    <3>1. risk_pct_for(cfg, weak) \in Nat
      BY DEF risk_pct_for, WEAK_MONTH_RISK, DEFAULT_RISK
    <3>2. QED BY <3>1
  <2> HIDE DEF unit, amount
  <2>3. Nearest(amount, unit) \in Int /\ Nearest(amount, unit) % 2 = 0
    BY <2>1, <2>2, NearestIs
  <2>4. lots \in Nat /\ lots % 2 = 0
    BY <2>3, ClampIs
  <2>5. /\ MAX_RISK_USD_PER_TRADE \in Nat
        /\ most \in Int /\ most % 2 = 0 /\ (most - 1) * unit <= MAX_RISK_USD_PER_TRADE
    <3>1. MAX_RISK_USD_PER_TRADE \in Nat
      BY DEF MAX_RISK_USD_PER_TRADE, CENT
    <3>2. \A m, u : m \in Int /\ u \in Nat \ {0} =>
            /\ Nearest(m, u) \in Int /\ Nearest(m, u) % 2 = 0 /\ (Nearest(m, u) - 1) * u <= m
      BY NearestIs
    <3>3. /\ most \in Int /\ most % 2 = 0 /\ (most - 1) * unit <= MAX_RISK_USD_PER_TRADE
      BY <3>1, <3>2, <2>1
    <3>4. QED BY <3>1, <3>3
  <2> HIDE DEF lots, most
  <2>6. cut \in Int /\ cut % 2 = 0 /\ cut <= most
    <3>1. cut \in {most, cfg.lot_max} /\ cut <= most
      BY <2>5 DEF Min
    <3>2. QED BY <3>1, <2>5
  <2> HIDE DEF cut
  <2>7. (cut - 1) * unit <= MAX_RISK_USD_PER_TRADE
    <3>1. (cut - 1) * unit <= (most - 1) * unit
      <4>1. \A a, b, u \in Int : a <= b /\ u >= 0 => a * u <= b * u
        OBVIOUS
      <4>2. cut - 1 \in Int /\ most - 1 \in Int /\ cut - 1 <= most - 1
        BY <2>5, <2>6
      <4>3. QED BY <4>1, <4>2, <2>1
    <3>2. \A a, b, c \in Int : a <= b /\ b <= c => a <= c
      OBVIOUS
    <3>3. (cut - 1) * unit \in Int /\ (most - 1) * unit \in Int
      BY <2>1, <2>5, <2>6
    <3>4. QED BY <2>5, <3>1, <3>2, <3>3
  <2>8. size = Ceiling(lots, dist, cfg)
    BY <1>2 DEF size_position, lots, unit, amount
  <2>9. Ceiling(lots, dist, cfg) = IF lots * unit <= MAX_RISK_USD_PER_TRADE THEN lots
                                   ELSE IF cut < MIN_LOT THEN 0 ELSE cut
    BY DEF Ceiling, unit, most, cut
  <2> HIDE DEF size
  <2>10. CASE lots * unit <= MAX_RISK_USD_PER_TRADE
    <3>1. size = lots
      BY <2>8, <2>9, <2>10
    <3>2. (lots - 1) * unit = lots * unit - unit /\ lots * unit \in Int
      BY <2>1, <2>4
    <3>3. (lots - 1) * unit <= MAX_RISK_USD_PER_TRADE
      BY <2>1, <2>5, <2>10, <3>2
    <3>4. QED BY <2>4, <3>1, <3>3 DEF unit, size
  <2>11. CASE ~ (lots * unit <= MAX_RISK_USD_PER_TRADE)
    <3>1. size = IF cut < MIN_LOT THEN 0 ELSE cut
      BY <2>8, <2>9, <2>11
    <3>2. /\ size \in Nat /\ size % 2 = 0
          /\ size > MIN_LOT => (size - 1) * unit <= MAX_RISK_USD_PER_TRADE
      BY <3>1, <2>6, <2>7 DEF MIN_LOT
    <3>3. QED BY <3>2 DEF unit, size
  <2>12. QED BY <2>10, <2>11
<1>3. QED BY <1>1, <1>2

\* An order is no larger than the size it was scaled from, but for the smallest.
LEMMA OrderIs ==
  ASSUME NEW size \in Nat, size % 2 = 0, NEW allotted \in Int, NEW base \in Nat \ {0},
         OrderLots(size, allotted, base) > MIN_LOT
  PROVE  OrderLots(size, allotted, base) \in Nat /\ OrderLots(size, allotted, base) <= size
<1>1. CASE allotted < base
  <2> DEFINE some == Nearest(size * allotted, base)
             q == (size * allotted + base) \div (2 * base)
  <2>1. OrderLots(size, allotted, base) = Max({MIN_LOT, some})
    BY <1>1 DEF OrderLots
  <2>2. PICK m \in Nat : size = 2 * m
    <3>1. size = 2 * (size \div 2) /\ size \div 2 \in Nat
      OBVIOUS
    <3>2. QED BY <3>1
  <2>3. q \in Int /\ q * (2 * base) <= size * allotted + base
    OBVIOUS
  <2>4. some = 2 * q
    BY DEF Nearest
  <2> HIDE DEF q, some
  <2>5. size * allotted <= m * (2 * base)
    <3>1. \A a, b, u \in Int : a <= b /\ u >= 0 => u * a <= u * b
      OBVIOUS
    <3>2. size * allotted <= size * base
      BY <1>1, <3>1
    <3>3. size * base = m * (2 * base)
      BY <2>2
    <3>4. QED BY <3>2, <3>3
  <2>6. q <= m
    <3>1. SUFFICES ASSUME q >= m + 1 PROVE FALSE
      BY <2>3
    <3>2. \A a, b, u \in Int : a <= b /\ u >= 0 => a * u <= b * u
      OBVIOUS
    <3>3. (m + 1) * (2 * base) <= q * (2 * base)
      BY <2>3, <3>1, <3>2
    <3>4. (m + 1) * (2 * base) = m * (2 * base) + 2 * base
      OBVIOUS
    <3>5. m * (2 * base) \in Int /\ size * allotted \in Int /\ q * (2 * base) \in Int
      BY <2>3
    <3>6. QED BY <2>3, <2>5, <3>3, <3>4, <3>5
  <2>7. some \in Int /\ some <= size
    BY <2>2, <2>3, <2>4, <2>6
  <2>8. Max({MIN_LOT, some}) \in {MIN_LOT, some}
    BY <2>7 DEF Max, MIN_LOT
  <2>9. QED BY <2>1, <2>7, <2>8 DEF MIN_LOT
<1>2. CASE ~ (allotted < base)
  BY <1>2 DEF OrderLots
<1>3. QED BY <1>1, <1>2

-----------------------------------------------------------------------------
(* The ladder. *)

\* What stays of a ladder for ever.
SameTrade(st, nxt) ==
  /\ nxt.dir = st.dir /\ nxt.entry = st.entry /\ nxt.risk = st.risk /\ nxt.lots = st.lots
  /\ nxt.tp1 = st.tp1 /\ nxt.tp2 = st.tp2

\* TP1 takes half and brings the stop to entry.
LEMMA BankedIs ==
  ASSUME NEW st \in StateType
  PROVE  /\ Banked(st) \in StateType /\ SameTrade(st, Banked(st))
         /\ Banked(st).left <= st.left /\ Banked(st).tp1_hit /\ Banked(st).sl = st.entry
         /\ Banked(st).closed = st.closed /\ Banked(st).reason = st.reason
         /\ Banked(st).tp2 = st.tp2
<1> DEFINE half == st.left - st.left \div 2
<1>1. half \in Nat /\ half <= st.left
  BY DEF StateType
<1>2. Banked(st) = [st EXCEPT !.tp1_hit = TRUE, !.sl = st.entry, !.left = half]
  BY DEF Banked, StateType
<1> HIDE DEF half
<1>3. QED BY <1>1, <1>2 DEF StateType, SameTrade

\* The stop may be moved where it is tighter.
LEMMA TrailedIs ==
  ASSUME NEW st \in StateType, NEW px \in Int, Tighter(st, px)
  PROVE  LET nxt == [st EXCEPT !.sl = px]
         IN  /\ nxt \in StateType /\ SameTrade(st, nxt)
             /\ nxt.left = st.left /\ nxt.tp1_hit = st.tp1_hit
             /\ nxt.closed = st.closed /\ nxt.reason = st.reason
             /\ Sgn(st) * (nxt.sl - st.sl) > 0 /\ nxt.sl = px /\ nxt.tp2 = st.tp2
BY DEF StateType, SameTrade, Tighter

LEMMA GoneIs ==
  ASSUME NEW st \in StateType, NEW px \in Int, NEW reason \in Reasons
  PROVE  LET nxt == Gone(st, px, reason)
         IN  /\ nxt \in StateType /\ SameTrade(st, nxt)
             /\ nxt.left = 0 /\ nxt.tp1_hit = st.tp1_hit /\ nxt.sl = st.sl
             /\ nxt.closed /\ nxt.reason = reason /\ nxt.exit = px
BY DEF StateType, SameTrade, Gone

\* maintain_exit: the stop of a ladder only tightens, and where it leaves by its
\* stop it leaves at the stop of the signal, or after TP1 at entry or beyond.
LEMMA Maintained ==
  ASSUME NEW sig \in SignalType, NEW st \in StateType, NEW bar \in BarType,
         st.dir = sig.dir, st.entry = sig.entry, StopOf(sig, st)
  PROVE  LET out == maintain_exit(st, bar)
         IN  /\ out.st \in StateType /\ out.acts \in Seq(ActType)
             /\ SameTrade(st, out.st) /\ StopOf(sig, out.st) /\ Tightens(st, out.st)
<1> DEFINE banks  == ~st.tp1_hit /\ Attains(st, bar, st.tp1)
           b      == IF banks THEN Banked(st) ELSE st
           px     == TrailStop(b, bar)
           trails == b.tp1_hit /\ Tighter(b, px)
           s      == IF trails THEN [b EXCEPT !.sl = px] ELSE b
           acts   == (IF banks THEN <<CloseHalf(st.tp1), MoveStop(st.entry)>> ELSE <<>>)
                       \o (IF trails THEN <<MoveStop(s.sl)>> ELSE <<>>)
           out    == maintain_exit(st, bar)
<1>1. /\ st.entry \in Int /\ st.sl \in Int /\ st.tp1 \in Int /\ st.tp2 \in Int
      /\ st.left \in Nat /\ st.tp1_hit \in BOOLEAN /\ st.closed \in BOOLEAN
      /\ sig.sl \in Int /\ sig.entry \in Int /\ sig.dir \in {"BUY", "SELL"}
  BY DEF StateType, SignalType
<1>2. Sgn(sig) \in {1, -1} /\ Sgn(st) = Sgn(sig)
  BY DEF Sgn
<1>3. \A p \in Int : CloseAll(p) \in ActType /\ CloseHalf(p) \in ActType /\ MoveStop(p) \in ActType
  BY DEF CloseAll, CloseHalf, MoveStop, ActType
<1>4. /\ b \in StateType /\ SameTrade(st, b) /\ b.left <= st.left /\ b.tp2 = st.tp2
      /\ b.closed = st.closed /\ b.reason = st.reason
      /\ st.tp1_hit => b = st
      /\ b.tp1_hit => banks \/ st.tp1_hit
      /\ banks => b.tp1_hit /\ b.sl = st.entry
      /\ ~ banks => b = st
  <2>1. CASE banks
    BY <2>1, BankedIs
  <2>2. CASE ~ banks
    BY <2>2, <1>1 DEF SameTrade
  <2>3. QED BY <2>1, <2>2
<1> HIDE DEF banks, b
<1>5. px \in Int
  <2>1. bar.c \in Int /\ b.risk \in Int /\ Sgn(b) \in {1, -1}
    BY <1>4 DEF BarType, StateType, Sgn
  <2>2. (3 * b.risk) \div 10 \in Int
    BY <2>1
  <2> DEFINE step == (3 * b.risk) \div 10
  <2>3. px = bar.c - Sgn(b) * step
    BY DEF TrailStop
  <2> HIDE DEF step, px
  <2>4. step \in Int
    BY <2>2 DEF step
  <2>5. QED BY <2>1, <2>3, <2>4
<1> HIDE DEF px
<1>6. Sgn(b) = Sgn(sig) /\ b.sl \in Int
  BY <1>2, <1>4 DEF Sgn, SameTrade, StateType
<1>7. /\ s \in StateType /\ SameTrade(b, s) /\ s.left = b.left /\ s.tp1_hit = b.tp1_hit
      /\ s.closed = b.closed /\ s.reason = b.reason /\ s.tp2 = b.tp2
      /\ Sgn(sig) * (s.sl - b.sl) >= 0 /\ s.sl \in Int
      /\ ~ b.tp1_hit => s = b
  <2>1. CASE trails
    <3>1. Tighter(b, px) /\ b.tp1_hit
      BY <2>1
    <3>2. s = [b EXCEPT !.sl = px]
      BY <2>1
    <3>3. /\ s \in StateType /\ SameTrade(b, s) /\ s.left = b.left /\ s.tp1_hit = b.tp1_hit
          /\ s.closed = b.closed /\ s.reason = b.reason /\ s.tp2 = b.tp2
          /\ Sgn(b) * (s.sl - b.sl) > 0 /\ s.sl = px
      <4> HIDE DEF s
      <4> QED BY <3>1, <3>2, <1>4, <1>5, TrailedIs
    <3> HIDE DEF s, trails
    <3>4. Sgn(sig) * (s.sl - b.sl) >= 0
      BY <3>3, <1>2, <1>5, <1>6
    <3>5. QED BY <3>1, <3>3, <3>4, <1>5
  <2>2. CASE ~ trails
    BY <2>2, <1>2, <1>4, <1>6 DEF SameTrade
  <2>3. QED BY <2>1, <2>2
<1>8. acts \in Seq(ActType)
  <2>1. <<CloseHalf(st.tp1), MoveStop(st.entry)>> \in Seq(ActType) /\ <<>> \in Seq(ActType)
        /\ <<MoveStop(s.sl)>> \in Seq(ActType)
    <3>1. CloseHalf(st.tp1) \in ActType /\ MoveStop(st.entry) \in ActType /\ MoveStop(s.sl) \in ActType
      BY <1>1, <1>3, <1>7
    <3> HIDE DEF s
    <3>2. QED BY <3>1
  <2> DEFINE u == IF banks THEN <<CloseHalf(st.tp1), MoveStop(st.entry)>> ELSE <<>>
             v == IF trails THEN <<MoveStop(s.sl)>> ELSE <<>>
  <2>2. u \in Seq(ActType) /\ v \in Seq(ActType)
    BY <2>1
  <2> HIDE DEF u, v
  <2>3. u \o v \in Seq(ActType)
    BY <2>2, ConcatProperties
  <2>4. QED BY <2>3 DEF u, v
<1> HIDE DEF trails, s, acts
\* The ladder after TP1 and the trail, before it may leave at TP2.
<1>9. ~ st.closed => StopOf(sig, s) /\ Tightens(st, s) /\ SameTrade(st, s)
  <2>1. SameTrade(st, s)
    BY <1>4, <1>7 DEF SameTrade
  <2>2. s.tp1_hit => Sgn(sig) * (s.sl - sig.entry) >= 0
    <3>1. CASE banks
      BY <3>1, <1>1, <1>2, <1>4, <1>7
    <3>2. CASE ~ banks
      BY <3>2, <1>1, <1>2, <1>4, <1>6, <1>7 DEF StopOf
    <3>3. QED BY <3>1, <3>2
  <2>3. ~ s.tp1_hit => s.sl = sig.sl
    BY <1>4, <1>7 DEF StopOf
  <2>4. st.tp1_hit => s.tp1_hit /\ Sgn(st) * (s.sl - st.sl) >= 0
    BY <1>2, <1>4, <1>7
  <2>5. s.left <= st.left /\ s.left \in Nat
    BY <1>4, <1>7 DEF StateType
  <2>6. s.lots = st.lots /\ st.lots \in Nat /\ st.left <= st.lots
    BY <2>1 DEF SameTrade, StateType, StopOf
  <2>7. s.left <= s.lots
    BY <2>5, <2>6, <1>1
  <2>8. ~ st.closed => ~ s.closed /\ s.reason = "none"
    BY <1>4, <1>7 DEF StopOf
  <2>9. QED BY <2>1, <2>2, <2>3, <2>4, <2>5, <2>7, <2>8 DEF StopOf, Tightens
<1>10. CASE st.closed
  <2>1. out.st = st /\ out.acts = <<>>
    BY <1>10 DEF maintain_exit
  <2>2. Sgn(st) * (st.sl - st.sl) >= 0 /\ st.left <= st.left
    BY <1>1, <1>2
  <2>3. <<>> \in Seq(ActType)
    OBVIOUS
  <2> HIDE DEF out
  <2>4. QED BY <2>1, <2>2, <2>3 DEF SameTrade, Tightens, out
<1>11. CASE ~ st.closed /\ StoppedBy(st, bar)
  <2> DEFINE why == IF st.tp1_hit THEN "TRAIL" ELSE "SL"
             g == Gone(st, st.sl, why)
  <2>1. out = [st |-> g, acts |-> <<CloseAll(st.sl)>>]
    BY <1>11 DEF maintain_exit
  <2>2. why \in Reasons /\ why # "none"
    BY DEF Reasons
  <2>3. /\ g \in StateType /\ SameTrade(st, g) /\ g.left = 0 /\ g.tp1_hit = st.tp1_hit
        /\ g.sl = st.sl /\ g.closed /\ g.reason = why /\ g.exit = st.sl
    <3> HIDE DEF why
    <3> QED BY <2>2, <1>1, GoneIs
  <2>4. <<CloseAll(st.sl)>> \in Seq(ActType)
    BY <1>1, <1>3
  <2> HIDE DEF g, out
  <2>5. Sgn(st) * (g.sl - st.sl) >= 0
    BY <2>3, <1>1, <1>2
  <2>6. Tightens(st, g)
    BY <2>3, <2>5, <1>1, <1>11 DEF Tightens
  <2>7. StopOf(sig, g)
    <3>1. g.left <= g.lots
      BY <2>3 DEF StateType
    <3>2. QED BY <2>2, <2>3, <3>1, <1>1 DEF StopOf
  <2>8. QED BY <2>1, <2>3, <2>4, <2>6, <2>7 DEF out
<1>12. CASE /\ ~ st.closed /\ ~ StoppedBy(st, bar)
            /\ s.tp1_hit /\ Attains(s, bar, s.tp2)
  <2> DEFINE g == Gone(s, s.tp2, "TP2")
             a == Append(acts, CloseAll(s.tp2))
  <2>1. out = [st |-> g, acts |-> a]
    BY <1>12 DEF maintain_exit, banks, b, px, trails, s, acts
  <2>2. s.tp2 \in Int /\ "TP2" \in Reasons
    BY <1>1, <1>4, <1>7 DEF Reasons
  <2>3. /\ g \in StateType /\ SameTrade(s, g) /\ g.left = 0 /\ g.tp1_hit = s.tp1_hit
        /\ g.sl = s.sl /\ g.closed /\ g.reason = "TP2"
    BY <2>2, <1>7, GoneIs
  <2>4. a \in Seq(ActType)
    BY <2>2, <1>3, <1>8, AppendProperties
  <2> HIDE DEF g, a, out
  <2>5. SameTrade(st, g)
    BY <2>3, <1>9, <1>12 DEF SameTrade
  <2>6. Tightens(st, g)
    BY <2>3, <1>1, <1>9, <1>12 DEF Tightens
  <2>7. StopOf(sig, g)
    <3>1. g.left <= g.lots
      BY <2>3 DEF StateType
    <3>2. QED BY <2>3, <3>1, <1>9, <1>12 DEF StopOf
  <2>8. QED BY <2>1, <2>3, <2>4, <2>5, <2>6, <2>7 DEF out
<1>13. CASE /\ ~ st.closed /\ ~ StoppedBy(st, bar)
            /\ ~ (s.tp1_hit /\ Attains(s, bar, s.tp2))
  <2>1. out = [st |-> s, acts |-> acts]
    BY <1>13 DEF maintain_exit, banks, b, px, trails, s, acts
  <2> HIDE DEF out
  <2>2. QED BY <2>1, <1>7, <1>8, <1>9, <1>13 DEF out
<1>14. QED BY <1>10, <1>11, <1>12, <1>13

\* force_close_eod
LEMMA ForcedClose ==
  ASSUME NEW sig \in SignalType, NEW st \in StateType, NEW px \in Int,
         st.dir = sig.dir, st.entry = sig.entry, StopOf(sig, st)
  PROVE  LET out == force_close_eod(st, px)
         IN  /\ out.st \in StateType /\ out.acts \in Seq(ActType)
             /\ SameTrade(st, out.st) /\ StopOf(sig, out.st) /\ Tightens(st, out.st)
<1> DEFINE why == IF st.tp1_hit THEN "EOD_trail" ELSE "EOD"
           g   == Gone(st, px, why)
           out == force_close_eod(st, px)
<1>1. /\ st.sl \in Int /\ st.left \in Nat /\ Sgn(st) \in {1, -1}
      /\ Sgn(st) * (st.sl - st.sl) >= 0 /\ st.left <= st.left
  BY DEF StateType, Sgn
<1>2. CASE st.closed
  <2>1. out.st = st /\ out.acts = <<>>
    BY <1>2 DEF force_close_eod
  <2>2. <<>> \in Seq(ActType)
    OBVIOUS
  <2> HIDE DEF out
  <2>3. QED BY <1>1, <2>1, <2>2 DEF SameTrade, Tightens, out
<1>3. CASE ~ st.closed
  <2>1. out = [st |-> g, acts |-> <<CloseAll(px)>>]
    BY <1>3 DEF force_close_eod
  <2>2. why \in Reasons /\ why \notin {"none", "SL", "TRAIL"}
    BY DEF Reasons
  <2>3. /\ g \in StateType /\ SameTrade(st, g) /\ g.left = 0 /\ g.tp1_hit = st.tp1_hit
        /\ g.sl = st.sl /\ g.closed /\ g.reason = why
    <3> HIDE DEF why
    <3> QED BY <2>2, GoneIs
  <2>4. <<CloseAll(px)>> \in Seq(ActType)
    BY DEF CloseAll, ActType
  <2> HIDE DEF g, out, why
  <2>5. g.left <= g.lots
    BY <2>3 DEF StateType
  <2>6. StopOf(sig, g)
    BY <2>2, <2>3, <2>5 DEF StopOf
  <2>7. Tightens(st, g)
    BY <2>3, <1>1, <1>3 DEF Tightens
  <2>8. QED BY <2>1, <2>3, <2>4, <2>6, <2>7 DEF out
<1>4. QED BY <1>2, <1>3

-----------------------------------------------------------------------------
(* The ladder and the mover of the backtest. *)

LEMMA SimulatedIs == \A x, bars : Simulated(x, bars) = Simulating!Fold(x, bars)
BY DEF Simulated, FoldLeft, MapThenFoldSet, Max, Simulating!Fold, Simulating!FoldLeft,
       Simulating!MapThenFoldSet, Simulating!Max

LEMMA ActedIs == \A x, acts : Acted(x, acts) = Acting!Fold(x, acts)
BY DEF Acted, FoldLeft, MapThenFoldSet, Max, Acting!Fold, Acting!FoldLeft,
       Acting!MapThenFoldSet, Acting!Max

Eod == {"EOD", "EOD_trail"}
SimType(sig, d) ==
  [sig : {sig}, until : {d * A_DAY + SESS_CLOSE}, tp1hit : BOOLEAN, trail : Int, ep : Int,
   er : Reasons, last : Seq(Int)]

\* Where the simulation of a signal over some bars is when its ladder has seen them.
Mirrors(l, x, bars, d) ==
  /\ x \in SimType(l.sig, d) /\ x.tp1hit = l.st.tp1_hit
  /\ ~l.st.closed => x.er = "none" /\ x.trail = l.st.sl
  /\ l.st.closed => \/ x.er = l.st.reason /\ x.ep = l.st.exit /\ x.er \in {"SL", "TRAIL", "TP2"}
                    \/ /\ x.er = "none" /\ l.st.exit = Last(bars).c
                       /\ l.st.reason = IF l.st.tp1_hit THEN "EOD_trail" ELSE "EOD"
  /\ x.er = "none" /\ x.last # <<>> => x.last[1] = Last(bars).c

\* One bar does to the ladder what it does to the simulation.
LEMMA BarMirrors ==
  ASSUME NEW l \in LadderType, LadderOf(l, setting), NEW d, NEW x, NEW bars \in Seq(BarType),
         Mirrors(l, x, bars, d), l.st.reason \notin Eod, StopOf(l.sig, l.st),
         NEW bar \in BarType, Follows(x, bar), NEW m,
         m.st = maintain_exit(l.st, bar).st, m.sig = l.sig
  PROVE  Mirrors(m, SimBar(x, bar), Append(bars, bar), d)
<1> DEFINE st  == l.st
           sig == l.sig
           y   == SimBar(x, bar)
           seen == [x EXCEPT !.last = <<bar.c>>]
<1>1. /\ st \in StateType /\ sig \in SignalType
      /\ st.dir = sig.dir /\ st.entry = sig.entry /\ st.tp1 = sig.tp1 /\ st.tp2 = sig.tp
      /\ st.risk = Sgn(sig) * (sig.entry - sig.sl) /\ Sgn(st) = Sgn(sig)
  BY DEF LadderType, LadderOf, Sgn
<1>2. /\ x \in SimType(sig, d) /\ x.sig = sig /\ x.tp1hit = st.tp1_hit
      /\ seen \in SimType(sig, d) /\ seen.last = <<bar.c>> /\ bar.c \in Int
      /\ seen.er = x.er /\ seen.ep = x.ep /\ seen.tp1hit = x.tp1hit /\ seen.trail = x.trail
  <2>1. x \in SimType(sig, d) /\ x.tp1hit = st.tp1_hit
    BY DEF Mirrors
  <2>2. bar.c \in Int
    BY DEF BarType
  <2> DEFINE lst == <<bar.c>>
  <2>3. lst \in Seq(Int)
    BY <2>2
  <2> HIDE DEF lst
  <2>4. /\ [x EXCEPT !.last = lst] \in SimType(sig, d) /\ [x EXCEPT !.last = lst].last = lst
        /\ [x EXCEPT !.last = lst].er = x.er /\ [x EXCEPT !.last = lst].ep = x.ep
        /\ [x EXCEPT !.last = lst].tp1hit = x.tp1hit /\ [x EXCEPT !.last = lst].trail = x.trail
        /\ x.sig = sig
    BY <2>1, <2>3 DEF SimType
  <2>5. QED BY <2>1, <2>2, <2>4 DEF lst
<1>3. Last(Append(bars, bar)) = bar /\ <<bar.c>> # <<>> /\ <<bar.c>>[1] = bar.c
  BY AppendProperties DEF Last
<1>4. CASE st.closed
  <2>1. maintain_exit(st, bar).st = st
    BY <1>4 DEF maintain_exit
  <2>2. x.er = st.reason /\ x.ep = st.exit /\ x.er \in {"SL", "TRAIL", "TP2"}
    BY <1>4 DEF Mirrors, Eod
  <2>3. y = x
    BY <2>2 DEF SimBar
  <2> HIDE DEF y
  <2>4. QED BY <2>1, <2>2, <2>3, <1>2, <1>4 DEF Mirrors, y
<1>5. CASE ~st.closed
  <2> DEFINE banks  == ~st.tp1_hit /\ Attains(st, bar, st.tp1)
             b      == IF banks THEN Banked(st) ELSE st
             px     == TrailStop(b, bar)
             trails == b.tp1_hit /\ Tighter(b, px)
             s      == IF trails THEN [b EXCEPT !.sl = px] ELSE b
             hit    == x.tp1hit \/ Attains(st, bar, st.tp1)
             even   == IF hit /\ ~x.tp1hit THEN sig.entry ELSE x.trail
             next   == IF hit /\ Sgn(sig) * (px - even) > 0 THEN px ELSE even
  <2>1. x.er = "none" /\ x.trail = st.sl
    BY <1>5 DEF Mirrors
  <2>2. /\ b \in StateType /\ SameTrade(st, b) /\ b.tp1_hit = hit /\ b.sl = even
        /\ b.closed = st.closed /\ b.reason = st.reason
    <3>1. CASE banks
      BY <3>1, <1>1, <1>2, BankedIs
    <3>2. CASE ~banks
      BY <3>2, <1>1, <1>2, <2>1 DEF SameTrade, StateType
    <3>3. QED BY <3>1, <3>2
  <2>3. px = bar.c - Sgn(sig) * ((3 * (Sgn(sig) * (sig.entry - sig.sl))) \div 10) /\ px \in Int
    <3>1. Sgn(b) = Sgn(sig) /\ b.risk = Sgn(sig) * (sig.entry - sig.sl)
      BY <2>2, <1>1 DEF SameTrade, Sgn
    <3>2. b.risk \in Int /\ Sgn(b) \in {1, -1}
      BY <2>2 DEF StateType, Sgn
    <3> DEFINE step == (3 * b.risk) \div 10
    <3>3. step \in Int
      BY <3>2
    <3>4. px = bar.c - Sgn(b) * step
      BY DEF TrailStop
    <3> HIDE DEF step, px, b
    <3>5. px \in Int
      BY <3>2, <3>3, <3>4, <1>2
    <3>6. QED BY <3>1, <3>4, <3>5 DEF step
  <2>4. /\ s \in StateType /\ s.tp1_hit = hit /\ s.sl = next /\ s.tp2 = sig.tp /\ s.dir = sig.dir
        /\ s.closed = st.closed /\ s.reason = st.reason /\ next \in Int
    <3>1. Sgn(b) = Sgn(sig) /\ b.tp2 = sig.tp /\ b.dir = sig.dir
      BY <2>2, <1>1 DEF SameTrade, Sgn
    <3>2. trails <=> hit /\ Sgn(sig) * (px - even) > 0
      BY <2>2, <3>1 DEF Tighter
    <3> HIDE DEF b, px, hit, even
    <3>3. QED BY <2>2, <2>3, <3>1, <3>2 DEF StateType
  <2> HIDE DEF banks, b, px, trails, s, hit, even, next
  <2>5. CASE StoppedBy(st, bar)
    <3> DEFINE why == IF st.tp1_hit THEN "TRAIL" ELSE "SL"
    <3>1. maintain_exit(st, bar).st = Gone(st, st.sl, why)
      BY <1>5, <2>5 DEF maintain_exit
    <3>2. y = [seen EXCEPT !.ep = st.sl, !.er = why]
      <4>1. IF x.sig.dir = "BUY" THEN bar.l <= x.trail ELSE bar.h >= x.trail
        BY <1>1, <1>2, <2>1, <2>5 DEF StoppedBy
      <4>2. QED BY <4>1, <1>2, <2>1 DEF SimBar
    <3>3. why \in Reasons /\ why \in {"SL", "TRAIL", "TP2"} /\ st.sl \in Int
      BY <1>1 DEF Reasons, StateType
    <3>4. Gone(st, st.sl, why).tp1_hit = st.tp1_hit /\ Gone(st, st.sl, why).closed
          /\ Gone(st, st.sl, why).exit = st.sl /\ Gone(st, st.sl, why).reason = why
      BY <1>1 DEF Gone, StateType
    <3> HIDE DEF seen, why, y
    <3>5. y \in SimType(sig, d) /\ y.tp1hit = seen.tp1hit /\ y.ep = st.sl /\ y.er = why
      BY <3>2, <3>3, <1>2 DEF SimType
    <3>6. QED BY <3>1, <3>3, <3>4, <3>5, <1>2 DEF Mirrors, y
  <2>6. CASE ~StoppedBy(st, bar) /\ hit /\ Attains(st, bar, sig.tp)
    <3>1. maintain_exit(st, bar).st = Gone(s, sig.tp, "TP2")
      <4>1. s.tp1_hit /\ Attains(s, bar, s.tp2)
        BY <1>1, <2>4, <2>6 DEF Attains
      <4>2. maintain_exit(st, bar).st = Gone(s, s.tp2, "TP2")
        BY <4>1, <1>5, <2>6 DEF maintain_exit, s, trails, px, b, banks
      <4>3. QED BY <4>2, <2>4
    <3>2. y = [seen EXCEPT !.tp1hit = TRUE, !.trail = next, !.ep = sig.tp, !.er = "TP2"]
      <4>1. ~ (IF x.sig.dir = "BUY" THEN bar.l <= x.trail ELSE bar.h >= x.trail)
        BY <1>1, <1>2, <2>1, <2>6 DEF StoppedBy
      <4>2. hit <=> x.tp1hit \/ (IF x.sig.dir = "BUY" THEN bar.h >= x.sig.tp1 ELSE bar.l <= x.sig.tp1)
        BY <1>1, <1>2 DEF hit, Attains
      <4>3. IF x.sig.dir = "BUY" THEN bar.h >= x.sig.tp ELSE bar.l <= x.sig.tp
        BY <1>1, <1>2, <2>6 DEF Attains
      <4>4. QED BY <4>1, <4>2, <4>3, <1>2, <2>1, <2>3, <2>6 DEF SimBar, next, even
    <3>3. Gone(s, sig.tp, "TP2").tp1_hit /\ Gone(s, sig.tp, "TP2").closed
          /\ Gone(s, sig.tp, "TP2").exit = sig.tp /\ Gone(s, sig.tp, "TP2").reason = "TP2"
      BY <2>4, <2>6 DEF Gone, StateType
    <3> HIDE DEF seen, y
    <3>4. y \in SimType(sig, d) /\ y.tp1hit = TRUE /\ y.ep = sig.tp /\ y.er = "TP2"
      BY <3>2, <1>1, <1>2, <2>4 DEF SimType, SignalType, Reasons
    <3>5. Gone(s, sig.tp, "TP2").tp1_hit = TRUE
      BY <2>4, <2>6 DEF Gone, StateType
    <3>6. QED BY <3>1, <3>3, <3>4, <3>5 DEF Mirrors, y
  <2>7. CASE ~StoppedBy(st, bar) /\ ~(hit /\ Attains(st, bar, sig.tp))
    <3>1. maintain_exit(st, bar).st = s
      <4>1. ~ (s.tp1_hit /\ Attains(s, bar, s.tp2))
        BY <1>1, <2>4, <2>7 DEF Attains
      <4>2. QED BY <4>1, <1>5, <2>7 DEF maintain_exit, s, trails, px, b, banks
    <3>2. y = [seen EXCEPT !.tp1hit = hit, !.trail = next]
      <4>1. ~ (IF x.sig.dir = "BUY" THEN bar.l <= x.trail ELSE bar.h >= x.trail)
        BY <1>1, <1>2, <2>1, <2>7 DEF StoppedBy
      <4>2. hit <=> x.tp1hit \/ (IF x.sig.dir = "BUY" THEN bar.h >= x.sig.tp1 ELSE bar.l <= x.sig.tp1)
        BY <1>1, <1>2 DEF hit, Attains
      <4>3. ~ (hit /\ (IF x.sig.dir = "BUY" THEN bar.h >= x.sig.tp ELSE bar.l <= x.sig.tp))
        BY <1>1, <1>2, <2>7 DEF Attains
      <4>4. QED BY <4>1, <4>2, <4>3, <1>2, <2>1, <2>3 DEF SimBar, next, even
    <3> HIDE DEF seen, y
    <3>3. hit \in BOOLEAN
      BY <2>4 DEF StateType
    <3>4. /\ y \in SimType(sig, d) /\ y.tp1hit = hit /\ y.trail = next /\ y.er = "none"
          /\ y.last = <<bar.c>>
      BY <3>2, <3>3, <1>2, <2>1, <2>4 DEF SimType
    <3>5. QED BY <3>1, <3>4, <1>3, <1>5, <2>4 DEF Mirrors, y
  <2>8. QED BY <2>5, <2>6, <2>7
<1>6. QED BY <1>4, <1>5

\* The end of the session is the end of the simulation.
LEMMA EndMirrors ==
  ASSUME NEW l \in LadderType, NEW d, NEW x, NEW bars \in Seq(BarType), Mirrors(l, x, bars, d),
         NEW m, m.st = force_close_eod(l.st, Last(bars).c).st, m.sig = l.sig
  PROVE  Mirrors(m, x, bars, d)
<1>1. l.st \in StateType
  BY DEF LadderType
<1>2. CASE l.st.closed
  BY <1>2 DEF Mirrors, force_close_eod
<1>3. CASE ~l.st.closed
  <2> DEFINE why == IF l.st.tp1_hit THEN "EOD_trail" ELSE "EOD"
             g   == Gone(l.st, Last(bars).c, why)
  <2>1. m.st = g
    BY <1>3 DEF force_close_eod
  <2>2. g.tp1_hit = l.st.tp1_hit /\ g.closed /\ g.exit = Last(bars).c /\ g.reason = why
    BY <1>1 DEF Gone, StateType
  <2> HIDE DEF g
  <2>3. QED BY <2>1, <2>2, <1>3 DEF Mirrors
<1>4. QED BY <1>2, <1>3

\* A ladder that has just begun: no bar so far follows its signal.
LEMMA BegunMirrors ==
  ASSUME NEW l \in LadderType, NEW lots, l.st = init_exit_state(l.sig, lots),
         NEW d \in Nat, NEW bars \in Seq(BarType),
         \A k \in DOMAIN bars : bars[k].t <= l.sig.at
  PROVE  Mirrors(l, Simulated(Entered(l.sig, d), bars), bars, d)
<1> DEFINE x == Entered(l.sig, d)
           E == {b \in BarType : b.t <= l.sig.at}
<1>1. bars \in Seq(E)
  <2>1. \A k \in 1 .. Len(bars) : bars[k] \in E
    BY ElementOfSeq, LenProperties
  <2>2. bars = [k \in 1 .. Len(bars) |-> bars[k]]
    BY LenProperties
  <2> HIDE DEF E
  <2>3. bars \in [1 .. Len(bars) -> E]
    BY <2>1, <2>2
  <2>4. QED BY <2>3, LenProperties, SeqDef
<1>2. ASSUME NEW b \in E PROVE SimBar(x, b) = x
  <2>1. ~Follows(x, b)
    BY DEF Follows, Entered, BarType, LadderType, SignalType
  <2> HIDE DEF x
  <2>2. QED BY <2>1 DEF SimBar
<1>3. Simulated(x, bars) = x
  <2>1. \A y \in {x}, b \in E : SimBar(y, b) \in {x}
    BY <1>2
  <2> HIDE DEF x, E
  <2>2. Simulating!Fold(x, bars) \in {x}
    BY <1>1, <2>1, Simulating!FoldIn
  <2>3. QED BY <2>2, SimulatedIs
<1>4. x \in SimType(l.sig, d)
  <2>1. l.sig.sl \in Int /\ <<>> \in Seq(Int) /\ "none" \in Reasons
    BY DEF LadderType, SignalType, Reasons
  <2>2. QED BY <2>1 DEF Entered, SimType
<1>5. x.tp1hit = FALSE /\ x.er = "none" /\ x.trail = l.sig.sl /\ x.last = <<>>
  BY DEF Entered
<1>6. l.st.tp1_hit = FALSE /\ l.st.closed = FALSE /\ l.st.sl = l.sig.sl
  BY DEF init_exit_state
<1> HIDE DEF x
<1>7. Mirrors(l, x, bars, d)
  BY <1>4, <1>5, <1>6 DEF Mirrors
<1>8. QED BY <1>3, <1>7 DEF x

-----------------------------------------------------------------------------
(* What the acts earn. *)

AccountType(sig) ==
  [sgn : {Sgn(sig)}, entry : {sig.entry}, left : Nat, sl : Int, paid : Int]
Gain(st, px) == Sgn(st) * (px - st.entry)

\* Where a position is to which the acts of a ladder have been done.
Earns(sig, st, x) ==
  LET half == st.lots \div 2 IN
  /\ x \in AccountType(sig) /\ x.left = st.left /\ x.sl = st.sl
  /\ st.dir = sig.dir /\ st.entry = sig.entry /\ st.lots = 2 * half
  /\ ~st.closed => /\ st.left = (IF st.tp1_hit THEN half ELSE st.lots)
                   /\ x.paid = IF st.tp1_hit THEN Gain(st, st.tp1) * half ELSE 0
  /\ st.closed /\ st.reason # "TP2" =>
       x.paid = IF st.tp1_hit THEN Gain(st, st.tp1) * half + Gain(st, st.exit) * half
                ELSE Gain(st, st.exit) * st.lots

LEMMA StopMoved ==
  ASSUME NEW sig \in SignalType, NEW x \in AccountType(sig), NEW px \in Int
  PROVE  LET y == Act(x, MoveStop(px))
         IN  y \in AccountType(sig) /\ y.left = x.left /\ y.paid = x.paid /\ y.sl = px
<1>1. Act(x, MoveStop(px)) = [x EXCEPT !.sl = px]
  BY DEF Act, MoveStop
<1>2. QED BY <1>1 DEF AccountType

\* Some of the lots are closed.
LEMMA LotsClosed ==
  ASSUME NEW sig \in SignalType, NEW x \in AccountType(sig), NEW px \in Int,
         NEW lots \in Nat, lots <= x.left
  PROVE  LET y == Sold(x, px, lots)
         IN  /\ y \in AccountType(sig) /\ y.left = x.left - lots /\ y.sl = x.sl
             /\ y.paid = x.paid + Sgn(sig) * (px - sig.entry) * lots
<1>1. /\ x.sgn = Sgn(sig) /\ x.entry = sig.entry /\ x.left \in Nat /\ x.sl \in Int /\ x.paid \in Int
      /\ Sgn(sig) \in {1, -1} /\ sig.entry \in Int
  BY DEF AccountType, SignalType, Sgn
<1> DEFINE diff == Sgn(sig) * (px - sig.entry)
           left == x.left - lots
           paid == x.paid + diff * lots
<1>2. diff \in Int
  BY <1>1
<1> DEFINE y == Sold(x, px, lots)
<1>3. y = [x EXCEPT !.left = left, !.paid = paid]
  BY <1>1 DEF AccountType, Sold
<1> HIDE DEF y
<1> HIDE DEF diff
<1>4. left \in Nat /\ paid \in Int
  <2>1. diff * lots \in Int
    BY <1>2
  <2>2. QED BY <2>1, <1>1
<1> HIDE DEF left, paid
<1>5. y \in AccountType(sig) /\ y.left = left /\ y.sl = x.sl /\ y.paid = paid
  BY <1>3, <1>4 DEF AccountType
<1>6. QED BY <1>5 DEF left, paid, diff, y

LEMMA HalfClosed ==
  ASSUME NEW sig \in SignalType, NEW x \in AccountType(sig), NEW px \in Int
  PROVE  LET y == Act(x, CloseHalf(px))  half == x.left \div 2
         IN  /\ y \in AccountType(sig) /\ y.left = x.left - half
             /\ y.paid = x.paid + Sgn(sig) * (px - sig.entry) * half
<1> DEFINE half == x.left \div 2
           y == Act(x, CloseHalf(px))
<1>1. half \in Nat /\ half <= x.left
  BY DEF AccountType
<1>2. y = Sold(x, px, half)
  BY DEF Act, CloseHalf
<1> HIDE DEF half, y
<1>3. y \in AccountType(sig) /\ y.left = x.left - half
      /\ y.paid = x.paid + Sgn(sig) * (px - sig.entry) * half
  BY <1>1, <1>2, LotsClosed
<1>4. QED BY <1>3 DEF half, y

LEMMA AllClosed ==
  ASSUME NEW sig \in SignalType, NEW x \in AccountType(sig), NEW px \in Int
  PROVE  LET y == Act(x, CloseAll(px))
         IN  /\ y \in AccountType(sig) /\ y.left = 0 /\ y.sl = x.sl
             /\ y.paid = x.paid + Sgn(sig) * (px - sig.entry) * x.left
<1> DEFINE lots == x.left
           y == Act(x, CloseAll(px))
<1>1. lots \in Nat /\ lots <= x.left /\ x.left - lots = 0
  BY DEF AccountType
<1>2. y = Sold(x, px, lots)
  BY DEF Act, CloseAll
<1> HIDE DEF lots, y
<1>3. y \in AccountType(sig) /\ y.left = x.left - lots /\ y.sl = x.sl
      /\ y.paid = x.paid + Sgn(sig) * (px - sig.entry) * lots
  BY <1>1, <1>2, LotsClosed
<1>4. QED BY <1>1, <1>3 DEF lots, y

LEMMA ActedOne ==
  ASSUME NEW x, NEW a PROVE Acted(x, <<a>>) = Act(x, a)
BY ActedIs, Acting!FoldOne

LEMMA ActedTwo ==
  ASSUME NEW x, NEW a, NEW b PROVE Acted(x, <<a, b>>) = Act(Act(x, a), b)
<1> DEFINE one == <<a>>
<1>1. <<a, b>> = Append(one, b) /\ one \in Seq({a, b}) /\ Acted(x, one) = Act(x, a)
  BY ActedOne
<1> HIDE DEF one
<1>2. Acting!Fold(x, Append(one, b)) = Act(Acting!Fold(x, one), b)
  BY <1>1, Acting!FoldMore
<1>3. QED BY <1>1, <1>2, ActedIs

\* The acts at TP1, of the trail, and at the end.
LEMMA BankedEarns ==
  ASSUME NEW sig \in SignalType, NEW st \in StateType, NEW x, Earns(sig, st, x),
         ~st.closed, ~st.tp1_hit
  PROVE  Earns(sig, Banked(st), Acted(x, <<CloseHalf(st.tp1), MoveStop(st.entry)>>))
<1> DEFINE half == st.lots \div 2
           y == Act(x, CloseHalf(st.tp1))
           z == Act(y, MoveStop(st.entry))
           b == Banked(st)
<1>1. /\ x \in AccountType(sig) /\ x.left = st.left /\ x.left = 2 * half /\ x.paid = 0
      /\ st.lots = 2 * half /\ half \in Nat /\ st.tp1 \in Int /\ st.entry \in Int
      /\ st.dir = sig.dir /\ st.entry = sig.entry /\ Sgn(st) = Sgn(sig) /\ Sgn(sig) \in {1, -1}
  BY DEF Earns, StateType, Sgn
<1>2. (2 * half) \div 2 = half /\ 2 * half - half = half
  BY <1>1
<1> HIDE DEF half
<1>3. /\ y \in AccountType(sig) /\ y.left = half
      /\ y.paid = Sgn(sig) * (st.tp1 - sig.entry) * half
  <2>1. /\ y \in AccountType(sig) /\ y.left = x.left - x.left \div 2
        /\ y.paid = x.paid + Sgn(sig) * (st.tp1 - sig.entry) * (x.left \div 2)
    BY <1>1, HalfClosed
  <2> HIDE DEF y
  <2>2. y.left = half /\ y.paid = 0 + Sgn(sig) * (st.tp1 - sig.entry) * half
    BY <2>1, <1>1, <1>2
  <2>3. Sgn(sig) * (st.tp1 - sig.entry) * half \in Int
    BY <1>1
  <2>4. QED BY <2>1, <2>2, <2>3
<1> HIDE DEF y
<1>4. z \in AccountType(sig) /\ z.left = half /\ z.paid = y.paid /\ z.sl = st.entry
  BY <1>1, <1>3, StopMoved
<1>5. /\ b.left = half /\ b.sl = st.entry /\ b.dir = st.dir /\ b.entry = st.entry
      /\ b.lots = st.lots /\ b.closed = st.closed /\ b.tp1_hit /\ b.tp1 = st.tp1
  <2>1. b.left = st.left - st.left \div 2
    BY DEF Banked, StateType
  <2>2. b \in StateType /\ SameTrade(st, b) /\ b.tp1_hit /\ b.sl = st.entry /\ b.closed = st.closed
    BY BankedIs
  <2> HIDE DEF b
  <2>3. QED BY <2>1, <2>2, <1>1, <1>2 DEF SameTrade
<1>6. Gain(b, b.tp1) = Sgn(sig) * (st.tp1 - sig.entry)
  BY <1>1, <1>5 DEF Gain, Sgn
<1> HIDE DEF z, b
<1>7. Earns(sig, b, z)
  BY <1>1, <1>3, <1>4, <1>5, <1>6 DEF Earns, half
<1>8. QED BY <1>7, ActedTwo DEF y, z, b

LEMMA TrailEarns ==
  ASSUME NEW sig \in SignalType, NEW st \in StateType, NEW x, Earns(sig, st, x), NEW px \in Int,
         ~st.closed
  PROVE  Earns(sig, [st EXCEPT !.sl = px], Acted(x, <<MoveStop(px)>>))
<1> DEFINE y == Act(x, MoveStop(px))
           s == [st EXCEPT !.sl = px]
<1>1. x \in AccountType(sig)
  BY DEF Earns
<1>2. y \in AccountType(sig) /\ y.left = x.left /\ y.paid = x.paid /\ y.sl = px
  BY <1>1, StopMoved
<1> HIDE DEF y
<1>3. /\ s.sl = px /\ s.left = st.left /\ s.tp1_hit = st.tp1_hit /\ s.closed = st.closed
      /\ s.lots = st.lots /\ s.dir = st.dir /\ s.entry = st.entry /\ s.tp1 = st.tp1
  BY DEF StateType
<1> HIDE DEF s
<1>4. Gain(s, s.tp1) = Gain(st, st.tp1)
  BY <1>3 DEF Gain, Sgn
<1>5. Earns(sig, s, y)
  BY <1>1, <1>2, <1>3, <1>4 DEF Earns
<1>6. QED BY <1>5, ActedOne DEF y, s

LEMMA GoneEarns ==
  ASSUME NEW sig \in SignalType, NEW st \in StateType, NEW x, Earns(sig, st, x), NEW px \in Int,
         NEW reason \in Reasons, ~st.closed
  PROVE  /\ Earns(sig, Gone(st, px, reason), Act(x, CloseAll(px)))
         /\ Earns(sig, Gone(st, px, reason), Acted(x, <<CloseAll(px)>>))
<1> DEFINE y == Act(x, CloseAll(px))
           g == Gone(st, px, reason)
           half == st.lots \div 2
           gain == Sgn(sig) * (px - sig.entry)
<1>1. x \in AccountType(sig) /\ x.left = st.left /\ x.sl = st.sl
  BY DEF Earns
<1>2. /\ y \in AccountType(sig) /\ y.left = 0 /\ y.sl = x.sl
      /\ y.paid = x.paid + gain * x.left
  BY <1>1, AllClosed
<1> HIDE DEF y, gain
<1>3. /\ g.sl = st.sl /\ g.left = 0 /\ g.tp1_hit = st.tp1_hit /\ g.closed /\ g.exit = px
      /\ g.lots = st.lots /\ g.dir = st.dir /\ g.entry = st.entry /\ g.tp1 = st.tp1
  BY DEF StateType, Gone
<1> HIDE DEF g
<1>4. /\ Gain(g, g.tp1) = Gain(st, st.tp1) /\ Gain(g, g.exit) = gain
      /\ Gain(st, st.tp1) \in Int /\ gain \in Int /\ half \in Nat /\ st.lots \in Nat
  BY <1>3 DEF Gain, Sgn, StateType, SignalType, Earns, gain
<1>5. y.paid = IF g.tp1_hit THEN Gain(g, g.tp1) * half + Gain(g, g.exit) * half
               ELSE Gain(g, g.exit) * g.lots
  <2>1. CASE st.tp1_hit
    <3>1. x.paid = Gain(st, st.tp1) * half /\ x.left = half
      BY <2>1, <1>1 DEF Earns
    <3>2. QED BY <3>1, <2>1, <1>2, <1>3, <1>4
  <2>2. CASE ~st.tp1_hit
    <3>1. x.paid = 0 /\ x.left = st.lots
      BY <2>2, <1>1 DEF Earns
    <3>2. gain * st.lots \in Int
      BY <1>4
    <3>3. QED BY <3>1, <3>2, <2>2, <1>2, <1>3, <1>4
  <2>3. QED BY <2>1, <2>2
<1>6. Earns(sig, g, y)
  BY <1>1, <1>2, <1>3, <1>5 DEF Earns, half
<1>7. QED BY <1>6, ActedOne DEF y, g

\* One bar does to the ladder what its acts do to the position.
LEMMA BarEarns ==
  ASSUME NEW sig \in SignalType, NEW st \in StateType, NEW x, Earns(sig, st, x), NEW bar \in BarType
  PROVE  Earns(sig, maintain_exit(st, bar).st, Acted(x, maintain_exit(st, bar).acts))
<1> DEFINE banks  == ~st.tp1_hit /\ Attains(st, bar, st.tp1)
           b      == IF banks THEN Banked(st) ELSE st
           px     == TrailStop(b, bar)
           trails == b.tp1_hit /\ Tighter(b, px)
           s      == IF trails THEN [b EXCEPT !.sl = px] ELSE b
           u      == IF banks THEN <<CloseHalf(st.tp1), MoveStop(st.entry)>> ELSE <<>>
           v      == IF trails THEN <<MoveStop(px)>> ELSE <<>>
           acts   == u \o v
           out    == maintain_exit(st, bar)
<1>0. \A y : Acted(y, <<>>) = y
  BY ActedIs, Acting!FoldNone
<1>1. CASE st.closed
  <2>1. out.st = st /\ out.acts = <<>>
    BY <1>1 DEF maintain_exit
  <2>2. QED BY <1>0, <2>1
<1>2. CASE ~st.closed /\ StoppedBy(st, bar)
  <2> DEFINE why == IF st.tp1_hit THEN "TRAIL" ELSE "SL"
  <2>1. out.st = Gone(st, st.sl, why) /\ out.acts = <<CloseAll(st.sl)>>
    BY <1>2 DEF maintain_exit
  <2>2. why \in Reasons /\ st.sl \in Int
    BY DEF Reasons, StateType
  <2>3. Earns(sig, Gone(st, st.sl, why), Acted(x, <<CloseAll(st.sl)>>))
    <3> HIDE DEF why
    <3> QED BY <2>2, <1>2, GoneEarns
  <2>4. QED BY <2>1, <2>3
<1>3. CASE ~st.closed /\ ~StoppedBy(st, bar)
  <2> DEFINE y == Acted(x, u)
             z == Acted(y, v)
  <2>1. /\ st.tp1 \in Int /\ st.entry \in Int
        /\ \A p \in Int : CloseAll(p) \in ActType /\ CloseHalf(p) \in ActType /\ MoveStop(p) \in ActType
    BY DEF StateType, CloseAll, CloseHalf, MoveStop, ActType
  <2>2. b \in StateType /\ b.closed = st.closed /\ Earns(sig, b, y)
    <3>1. CASE banks
      BY <3>1, <1>3, BankedIs, BankedEarns
    <3>2. CASE ~banks
      BY <3>2, <1>0
    <3>3. QED BY <3>1, <3>2
  <2> HIDE DEF y, b
  <2>3. px \in Int
    <3>1. bar.c \in Int /\ b.risk \in Int /\ Sgn(b) \in {1, -1}
      BY <2>2 DEF BarType, StateType, Sgn
    <3> DEFINE step == (3 * b.risk) \div 10
    <3>2. step \in Int /\ px = bar.c - Sgn(b) * step
      BY <3>1 DEF TrailStop
    <3> HIDE DEF step, px
    <3>3. QED BY <3>1, <3>2
  <2> HIDE DEF px
  <2>4. s \in StateType /\ s.closed = st.closed /\ Earns(sig, s, z) /\ (trails => s.sl = px)
    <3>1. CASE trails
      <4>1. [b EXCEPT !.sl = px] \in StateType /\ [b EXCEPT !.sl = px].closed = st.closed
            /\ [b EXCEPT !.sl = px].sl = px
        BY <2>2, <2>3 DEF StateType
      <4>2. Earns(sig, [b EXCEPT !.sl = px], Acted(y, <<MoveStop(px)>>))
        BY <2>2, <2>3, <1>3, TrailEarns
      <4>3. QED BY <3>1, <4>1, <4>2
    <3>2. CASE ~trails
      BY <3>2, <2>2, <1>0
    <3>3. QED BY <3>1, <3>2
  <2>5. u \in Seq(ActType) /\ v \in Seq(ActType)
    <3> DEFINE h == CloseHalf(st.tp1)
               e == MoveStop(st.entry)
               t == MoveStop(px)
    <3>1. h \in ActType /\ e \in ActType /\ t \in ActType
      BY <2>1, <2>3
    <3> HIDE DEF h, e, t
    <3>2. <<h, e>> \in Seq(ActType) /\ <<t>> \in Seq(ActType) /\ <<>> \in Seq(ActType)
      BY <3>1
    <3>3. QED BY <3>2 DEF h, e, t
  <2> HIDE DEF u, v
  <2>6. Acted(x, acts) = z /\ acts \in Seq(ActType)
    <3>1. acts \in Seq(ActType)
      BY <2>5, ConcatProperties
    <3>2. Acting!Fold(x, u \o v) = Acting!Fold(Acting!Fold(x, u), v)
      BY <2>5, Acting!FoldConcat
    <3>3. QED BY <3>1, <3>2, ActedIs DEF y
  <2> HIDE DEF acts, z, s
  <2>7. out = IF s.tp1_hit /\ Attains(s, bar, s.tp2)
              THEN [st |-> Gone(s, s.tp2, "TP2"), acts |-> Append(acts, CloseAll(s.tp2))]
              ELSE [st |-> s, acts |-> acts]
    <3>1. (IF trails THEN <<MoveStop(s.sl)>> ELSE <<>>) = v
      BY <2>4 DEF v
    <3>2. QED BY <3>1, <1>3 DEF maintain_exit, acts, u, v, s, trails, px, b, banks
  <2>8. CASE s.tp1_hit /\ Attains(s, bar, s.tp2)
    <3>1. s.tp2 \in Int /\ "TP2" \in Reasons /\ CloseAll(s.tp2) \in ActType
      BY <2>1, <2>4 DEF StateType, Reasons
    <3>2. Acting!Fold(x, Append(acts, CloseAll(s.tp2))) = Act(Acting!Fold(x, acts), CloseAll(s.tp2))
      BY <3>1, <2>6, Acting!FoldMore
    <3>3. Acted(x, Append(acts, CloseAll(s.tp2))) = Act(z, CloseAll(s.tp2))
      BY <3>2, <2>6, ActedIs
    <3>4. Earns(sig, Gone(s, s.tp2, "TP2"), Act(z, CloseAll(s.tp2)))
      BY <3>1, <2>4, <1>3, GoneEarns
    <3>5. QED BY <3>3, <3>4, <2>7, <2>8
  <2>9. CASE ~ (s.tp1_hit /\ Attains(s, bar, s.tp2))
    BY <2>9, <2>7, <2>4, <2>6
  <2>10. QED BY <2>8, <2>9
<1>4. QED BY <1>1, <1>2, <1>3

LEMMA EndEarns ==
  ASSUME NEW sig \in SignalType, NEW st \in StateType, NEW x, Earns(sig, st, x), NEW px \in Int
  PROVE  Earns(sig, force_close_eod(st, px).st, Acted(x, force_close_eod(st, px).acts))
<1> DEFINE why == IF st.tp1_hit THEN "EOD_trail" ELSE "EOD"
<1>1. CASE st.closed
  <2>1. force_close_eod(st, px).st = st /\ force_close_eod(st, px).acts = <<>>
    BY <1>1 DEF force_close_eod
  <2>2. Acted(x, <<>>) = x
    BY ActedIs, Acting!FoldNone
  <2>3. QED BY <2>1, <2>2
<1>2. CASE ~st.closed
  <2>1. /\ force_close_eod(st, px).st = Gone(st, px, why)
        /\ force_close_eod(st, px).acts = <<CloseAll(px)>>
    BY <1>2 DEF force_close_eod
  <2>2. why \in Reasons
    BY DEF Reasons
  <2> HIDE DEF why
  <2>3. QED BY <2>1, <2>2, <1>2, GoneEarns
<1>3. QED BY <1>1, <1>2

LEMMA BegunEarns ==
  ASSUME NEW sig \in SignalType, NEW lots \in Nat, lots % 2 = 0
  PROVE  Earns(sig, init_exit_state(sig, lots), Acted(Opened(sig, lots), <<>>))
<1> DEFINE x == Opened(sig, lots)
           st == init_exit_state(sig, lots)
<1>1. Acted(x, <<>>) = x
  BY ActedIs, Acting!FoldNone
<1>2. lots = 2 * (lots \div 2)
  OBVIOUS
<1>3. x \in AccountType(sig) /\ x.left = lots /\ x.sl = sig.sl /\ x.paid = 0
  BY DEF Opened, AccountType, SignalType
<1>4. /\ st.left = lots /\ st.lots = lots /\ st.sl = sig.sl /\ st.dir = sig.dir /\ st.entry = sig.entry
      /\ ~st.closed /\ ~st.tp1_hit
  BY DEF init_exit_state
<1> HIDE DEF x, st
<1>5. Earns(sig, st, x)
  BY <1>2, <1>3, <1>4 DEF Earns
<1>6. QED BY <1>1, <1>5 DEF x, st

-----------------------------------------------------------------------------
(* The day. *)

LEMMA PairOf ==
  ASSUME NEW i \in DOMAIN Pairs
  PROVE  /\ Pairs[i] \in DOMAIN PAIR_CONFIG
         /\ PAIR_CONFIG[Pairs[i]].vpl \in Nat \ {0}
         /\ PAIR_CONFIG[Pairs[i]].override \in Nat
         /\ PAIR_CONFIG[Pairs[i]].lot_max \in Nat /\ PAIR_CONFIG[Pairs[i]].lot_max % 2 = 0
<1>1. Pairs[i] \in DOMAIN PAIR_CONFIG
  BY DayAssumption, ElementOfSeq, LenProperties
<1>2. QED BY <1>1, PairAssumption

LEMMA SettingOf ==
  ASSUME NEW x \in Settings
  PROVE  /\ x.d \in Nat /\ x.equity \in Nat \ {0} /\ x.weak \in BOOLEAN
         /\ \A i \in DOMAIN Pairs : x.past[i] \in Seq(BarType)
BY DayAssumption

\* The buffer of a poller that has a bar has a bar, and the latest one.
LEMMA BufferIs ==
  ASSUME NEW df \in Seq(BarType), df # <<>>
  PROVE  Buffer(df) \in Seq(BarType) /\ Buffer(df) # <<>> /\ Last(Buffer(df)) = Last(df)
<1> DEFINE n == Len(df)
           m == Max({1, n - history_bars + 1})
<1>1. n \in Nat /\ n >= 1
  <2>1. n \in Nat /\ n # 0
    BY EmptySeq, LenProperties
  <2>2. QED BY <2>1
<1>2. m \in 1 .. n
  <2>1. history_bars \in Nat \ {0}
    BY DayAssumption
  <2>2. m \in {1, n - history_bars + 1} /\ m >= 1
    <3>1. n - history_bars + 1 \in Int
      BY <1>1, <2>1
    <3> HIDE DEF n
    <3>2. QED BY <3>1 DEF Max
  <2> HIDE DEF m, n
  <2>3. QED BY <1>1, <2>1, <2>2
<1>3. \A k \in m .. n : df[k] \in BarType
  <2>1. \A k \in m .. n : k \in 1 .. Len(df)
    BY <1>1, <1>2
  <2>2. QED BY <2>1, ElementOfSeq
<1>4. Buffer(df) = SubSeq(df, m, n)
  BY DEF Buffer
<1> HIDE DEF m, n
<1>5. /\ Buffer(df) \in Seq(BarType) /\ Len(Buffer(df)) = n - m + 1
      /\ \A j \in 1 .. n - m + 1 : Buffer(df)[j] = df[m + j - 1]
  BY <1>1, <1>2, <1>3, <1>4, SubSeqProperties
<1>6. n - m + 1 # 0 /\ n - m + 1 \in 1 .. n - m + 1 /\ m + (n - m + 1) - 1 = n
  BY <1>1, <1>2
<1>7. Last(Buffer(df)) = df[n]
  BY <1>5, <1>6 DEF Last
<1>8. QED BY <1>5, <1>6, <1>7, EmptySeq DEF Last, n

\* A ladder begins with what the detector signalled and the size found for it.
LEMMA BegunIs ==
  ASSUME setting \in Settings, NEW i \in DOMAIN Pairs, NEW sig \in SignalType,
         Sgn(sig) * (sig.entry - sig.sl) > 0
  PROVE  /\ Begun(sig, i) \in LadderType /\ LadderOf(Begun(sig, i), setting)
         /\ StopOf(Begun(sig, i).sig, Begun(sig, i).st) /\ Begun(sig, i).pair = i
<1> DEFINE dist == Sgn(sig) * (sig.entry - sig.sl)
           lots == size_position(PAIR_CONFIG[Pairs[i]], setting.equity, dist, setting.weak)
           st   == init_exit_state(sig, lots)
<1>1. dist \in Int
  BY DEF Sgn, SignalType
<1>2. lots \in Nat
  <2> HIDE DEF dist
  <2>1. QED BY <1>1, PairOf, SettingOf, SizeIs
<1>3. Begun(sig, i) = [pair |-> i, sig |-> sig, acts |-> <<>>, st |-> st]
  BY DEF Begun
<1>4. st = [dir |-> sig.dir, entry |-> sig.entry, sl |-> sig.sl, tp1 |-> sig.tp1, tp2 |-> sig.tp,
            risk |-> dist, lots |-> lots, left |-> lots,
            tp1_hit |-> FALSE, closed |-> FALSE, exit |-> 0, reason |-> "none"]
  BY DEF init_exit_state
<1>5. LadderOf(Begun(sig, i), setting)
  BY <1>3, <1>4 DEF LadderOf
<1> HIDE DEF dist, lots, st
<1>6. st \in StateType
  BY <1>1, <1>2, <1>4 DEF StateType, SignalType, Reasons
<1>7. StopOf(sig, st)
  BY <1>2, <1>4 DEF StopOf
<1>8. <<>> \in Seq(ActType)
  OBVIOUS
<1>9. Begun(sig, i) \in LadderType
  BY <1>3, <1>6, <1>8 DEF LadderType
<1>10. QED BY <1>3, <1>5, <1>7, <1>9

\* What is done to a ladder leaves it one.
LEMMA DidIs ==
  ASSUME NEW l \in LadderType, LadderOf(l, setting), NEW out,
         out.st \in StateType, out.acts \in Seq(ActType), SameTrade(l.st, out.st),
         StopOf(l.sig, out.st)
  PROVE  /\ Did(l, out) \in LadderType /\ LadderOf(Did(l, out), setting)
         /\ StopOf(Did(l, out).sig, Did(l, out).st)
         /\ Did(l, out).pair = l.pair /\ Did(l, out).sig = l.sig /\ Did(l, out).st = out.st
<1> DEFINE acts == l.acts \o out.acts
<1>1. acts \in Seq(ActType)
  BY ConcatProperties DEF LadderType
<1>2. Did(l, out) = [l EXCEPT !.st = out.st, !.acts = acts]
  BY DEF Did, LadderType
<1> HIDE DEF acts
<1>3. /\ Did(l, out) \in LadderType /\ Did(l, out).pair = l.pair
      /\ Did(l, out).sig = l.sig /\ Did(l, out).st = out.st
  BY <1>1, <1>2 DEF LadderType
<1>4. LadderOf(Did(l, out), setting)
  BY <1>3 DEF LadderOf, SameTrade
<1>5. QED BY <1>3, <1>4

LEMMA DayStarts == DayInit => DayInv
<1> SUFFICES ASSUME DayInit PROVE DayInv
  OBVIOUS
<1>1. setting \in Settings /\ hour \in Nat
  BY DEF DayInit
<1>2. data \in [DOMAIN Pairs -> [sym : DOMAIN PAIR_CONFIG, df : Seq(BarType)]]
  BY <1>1, PairOf, SettingOf DEF DayInit
<1>3. ladders \in Seq(LadderType) /\ DOMAIN ladders = {}
  BY EmptySeq, LenProperties DEF DayInit
<1>4. QED BY <1>1, <1>2, <1>3 DEF DayInv

\* What one ladder goes through in a step of the day.
Kept(k) ==
  /\ k \in DOMAIN ladders'
  /\ ladders'[k] \in LadderType
  /\ LadderOf(ladders'[k], setting)
  /\ StopOf(ladders'[k].sig, ladders'[k].st)
  /\ ladders'[k].pair = ladders[k].pair /\ ladders'[k].sig = ladders[k].sig
  /\ Tightens(ladders[k].st, ladders'[k].st)

\* What a bar of a pair does: it is stored, the ladders of the pair are shown it,
\* and the detector may begin another.
BarStored(i, bar) ==
  /\ hour < Len(HourEvents) /\ i = HourEvents[hour + 1].pair
  /\ bar.t = D * A_DAY + HourEvents[hour + 1].at
  /\ data' = [data EXCEPT ![i].df = Append(data[i].df, bar)]
  /\ \A k \in DOMAIN ladders' :
       \/ /\ k \in DOMAIN ladders
          /\ ladders'[k] = IF ladders[k].pair = i
                           THEN Did(ladders[k], maintain_exit(ladders[k].st, bar)) ELSE ladders[k]
       \/ \E sig \in SignalType :
            ladders'[k] = Begun(sig, i) /\ sig.at = bar.t /\ Sgn(sig) * (sig.entry - sig.sl) > 0

\* A new ladder is of the detector's answer to that bar, and the answer has one.
Answered(i) ==
  LET answer == detect(Buffer(data'[i].df), Pairs[i]) IN
    /\ Len(ladders') <= Len(ladders) + 1
    /\ \A k \in DOMAIN ladders' \ DOMAIN ladders : ladders'[k].pair = i /\ ladders'[k].sig \in answer
    /\ \A sig \in answer : \E k \in DOMAIN ladders' : ladders'[k].pair = i /\ ladders'[k].sig = sig

LEMMA BarKeeps ==
  ASSUME DayInv, HourBarCloses
  PROVE  /\ DayInv' /\ \A k \in DOMAIN ladders : Kept(k)
         /\ \E i \in DOMAIN Pairs, bar \in BarType : BarStored(i, bar) /\ Answered(i)
<1> DEFINE e == HourEvents[hour + 1]
           i == e.pair
<1>1. /\ hour \in Nat /\ hour' = hour + 1 /\ setting \in Settings /\ setting' = setting
      /\ ladders \in Seq(LadderType)
      /\ data \in [DOMAIN Pairs -> [sym : DOMAIN PAIR_CONFIG, df : Seq(BarType)]]
  BY DEF DayInv, HourBarCloses
<1>2. e \in [at : Nat, pair : DOMAIN Pairs, bars : SUBSET BarType]
  <2>1. HourEvents \in Seq([at : Nat, pair : DOMAIN Pairs, bars : SUBSET BarType])
    BY DayAssumption
  <2>2. hour + 1 \in 1 .. Len(HourEvents)
    BY <1>1, <2>1, LenProperties DEF HourBarCloses
  <2>3. QED BY <2>1, <2>2, ElementOfSeq
<1>3. PICK b \in e.bars :
        LET bar == [b EXCEPT !.t = D * A_DAY + e.at]
            df  == Append(data[i].df, bar)
            kept == [k \in DOMAIN ladders |->
                       IF ladders[k].pair = i THEN Did(ladders[k], maintain_exit(ladders[k].st, bar))
                                              ELSE ladders[k]]
        IN  /\ data' = [data EXCEPT ![i].df = df]
            /\ ladders' = kept \o SetToSeq({Begun(sig, i) : sig \in detect(Buffer(df), Pairs[i])})
  BY DEF HourBarCloses
<1> DEFINE bar == [b EXCEPT !.t = D * A_DAY + e.at]
           df  == Append(data[i].df, bar)
           kept == [k \in DOMAIN ladders |->
                      IF ladders[k].pair = i THEN Did(ladders[k], maintain_exit(ladders[k].st, bar))
                                             ELSE ladders[k]]
           new == {Begun(sig, i) : sig \in detect(Buffer(df), Pairs[i])}
<1>4. i \in DOMAIN Pairs /\ e.at \in Nat /\ b \in BarType
  BY <1>2
<1>5. data' = [data EXCEPT ![i].df = df] /\ ladders' = kept \o SetToSeq(new)
  BY <1>3
<1>6. bar \in BarType
  <2> DEFINE t == D * A_DAY + e.at
  <2>1. t \in Int
    BY <1>1, <1>4, SettingOf DEF D, A_DAY
  <2> HIDE DEF t, e
  <2>2. bar = [b EXCEPT !.t = t]
    BY DEF t
  <2> HIDE DEF bar
  <2>3. QED BY <1>4, <2>1, <2>2 DEF BarType
<1> HIDE DEF e, i, bar
<1>7. df \in Seq(BarType) /\ df # <<>>
  BY <1>1, <1>4, <1>6, AppendProperties
<1> HIDE DEF df
<1>8. /\ data' \in [DOMAIN Pairs -> [sym : DOMAIN PAIR_CONFIG, df : Seq(BarType)]]
      /\ data'[i].df # <<>>
      /\ \A j \in DOMAIN Pairs : data[j].df # <<>> => data'[j].df # <<>>
  BY <1>1, <1>4, <1>5, <1>7
<1>9. ASSUME NEW k \in DOMAIN ladders
      PROVE  /\ ladders[k] \in LadderType /\ LadderOf(ladders[k], setting)
             /\ StopOf(ladders[k].sig, ladders[k].st) /\ data[ladders[k].pair].df # <<>>
             /\ ladders[k].pair \in DOMAIN Pairs
             /\ ladders[k].sig \in SignalType /\ ladders[k].st \in StateType
             /\ ladders[k].st.dir = ladders[k].sig.dir /\ ladders[k].st.entry = ladders[k].sig.entry
  <2>1. ladders[k] \in LadderType
    BY <1>1, ElementOfSeq, LenProperties
  <2>2. LadderOf(ladders[k], setting) /\ StopOf(ladders[k].sig, ladders[k].st) /\ data[ladders[k].pair].df # <<>>
    BY DEF DayInv
  <2>3. QED BY <2>1, <2>2 DEF LadderType, LadderOf
<1>10. ASSUME NEW k \in DOMAIN ladders
       PROVE  /\ kept[k] \in LadderType /\ LadderOf(kept[k], setting) /\ StopOf(kept[k].sig, kept[k].st)
              /\ kept[k].pair = ladders[k].pair /\ kept[k].sig = ladders[k].sig
              /\ Tightens(ladders[k].st, kept[k].st)
  <2>1. CASE ladders[k].pair = i
    <3> DEFINE l   == ladders[k]
               out == maintain_exit(l.st, bar)
    <3>1. kept[k] = Did(l, out)
      BY <2>1
    <3>2. /\ out.st \in StateType /\ out.acts \in Seq(ActType) /\ SameTrade(l.st, out.st)
          /\ StopOf(l.sig, out.st) /\ Tightens(l.st, out.st)
      BY <1>6, <1>9, Maintained
    <3>3. l \in LadderType /\ LadderOf(l, setting)
      BY <1>9
    <3> HIDE DEF l, out, kept
    <3>4. /\ Did(l, out) \in LadderType /\ LadderOf(Did(l, out), setting)
          /\ StopOf(Did(l, out).sig, Did(l, out).st)
          /\ Did(l, out).pair = l.pair /\ Did(l, out).sig = l.sig /\ Did(l, out).st = out.st
      BY <3>2, <3>3, DidIs
    <3>5. QED BY <3>1, <3>2, <3>4 DEF l
  <2>2. CASE ladders[k].pair # i
    <3>1. kept[k] = ladders[k]
      BY <2>2
    <3>2. Sgn(ladders[k].st) * (ladders[k].st.sl - ladders[k].st.sl) >= 0
          /\ ladders[k].st.left <= ladders[k].st.left
      BY <1>9 DEF StateType, Sgn
    <3> HIDE DEF kept
    <3>3. QED BY <1>9, <3>1, <3>2 DEF Tightens
  <2>3. QED BY <2>1, <2>2
<1>11. kept \in Seq(LadderType) /\ Len(kept) = Len(ladders)
  <2>1. DOMAIN ladders = 1 .. Len(ladders) /\ Len(ladders) \in Nat
    BY <1>1, LenProperties
  <2>2. \A k \in 1 .. Len(ladders) : kept[k] \in LadderType
    BY <2>1, <1>10
  <2>3. kept = [k \in 1 .. Len(ladders) |-> kept[k]]
    BY <2>1
  <2> HIDE DEF kept
  <2>4. kept \in [1 .. Len(ladders) -> LadderType]
    BY <2>2, <2>3
  <2>5. QED BY <2>1, <2>4
<1>12. ASSUME NEW x \in new
       PROVE  /\ new = {x} /\ x \in LadderType /\ LadderOf(x, setting) /\ StopOf(x.sig, x.st) /\ x.pair = i
              /\ \E sig \in SignalType :
                   x = Begun(sig, i) /\ sig.at = bar.t /\ Sgn(sig) * (sig.entry - sig.sl) > 0
  <2>1. Buffer(df) \in Seq(BarType) /\ Buffer(df) # <<>> /\ Last(Buffer(df)) = bar
    <3>1. Last(df) = bar
      BY <1>1, <1>4, <1>6, AppendProperties DEF Last, df
    <3>2. QED BY <1>7, <3>1, BufferIs
  <2>2. Pairs[i] \in DOMAIN PAIR_CONFIG
    BY <1>4, PairOf
  <2>3. PICK sig \in detect(Buffer(df), Pairs[i]) : x = Begun(sig, i)
    OBVIOUS
  <2>4. /\ sig \in SignalType /\ Sgn(sig) * (sig.entry - sig.sl) > 0
        /\ sig.at = bar.t /\ detect(Buffer(df), Pairs[i]) = {sig}
    BY <2>1, <2>2, Detected
  <2>5. new = {x}
    BY <2>3, <2>4
  <2> HIDE DEF new
  <2>6. QED BY <2>3, <2>4, <2>5, <1>1, <1>4, BegunIs
<1> HIDE DEF kept, new
<1>13. SetToSeq(new) \in Seq(new) /\ \A j \in 1 .. Len(SetToSeq(new)) : SetToSeq(new)[j] \in new
  <2>1. SetToSeq(new) \in Seq(new)
    BY <1>12, AsSequence
  <2>2. QED BY <2>1, ElementOfSeq
<1>14. SetToSeq(new) \in Seq(LadderType)
  <2>1. new \subseteq LadderType
    BY <1>12
  <2>2. QED BY <1>13, <2>1, SeqMonotonic
<1>15. /\ ladders' \in Seq(LadderType) /\ Len(ladders') = Len(ladders) + Len(SetToSeq(new))
       /\ \A k \in 1 .. Len(ladders') :
            ladders'[k] = IF k <= Len(ladders) THEN kept[k] ELSE SetToSeq(new)[k - Len(ladders)]
  <2> DEFINE more == SetToSeq(new)
  <2>1. ladders' = kept \o more /\ more \in Seq(LadderType)
    BY <1>5, <1>14
  <2> HIDE DEF more
  <2>2. /\ kept \o more \in Seq(LadderType) /\ Len(kept \o more) = Len(kept) + Len(more)
        /\ \A k \in 1 .. Len(kept) + Len(more) :
             (kept \o more)[k] = IF k <= Len(kept) THEN kept[k] ELSE more[k - Len(kept)]
    BY <1>11, <2>1, ConcatProperties
  <2>3. QED BY <1>11, <2>1, <2>2 DEF more
<1>16. /\ Len(ladders) \in Nat /\ Len(SetToSeq(new)) \in Nat
       /\ DOMAIN ladders = 1 .. Len(ladders) /\ DOMAIN ladders' = 1 .. Len(ladders')
  BY <1>1, <1>13, <1>15, LenProperties
<1>17. setting' = setting
  BY <1>1
<1>18. ASSUME NEW k \in DOMAIN ladders PROVE Kept(k)
  <2>1. k \in 1 .. Len(ladders') /\ ladders'[k] = kept[k]
    BY <1>15, <1>16
  <2>2. LadderOf(kept[k], setting)
    BY <1>10, <1>17
  <2>3. QED BY <1>10, <1>16, <2>1, <2>2 DEF Kept
<1>19. ASSUME NEW k \in DOMAIN ladders'
       PROVE  /\ LadderOf(ladders'[k], setting') /\ StopOf(ladders'[k].sig, ladders'[k].st)
              /\ data'[ladders'[k].pair].df # <<>>
  <2>1. CASE k \in DOMAIN ladders
    <3>1. Kept(k)
      BY <1>18, <2>1
    <3>2. data'[ladders[k].pair].df # <<>>
      BY <1>8, <1>9, <2>1
    <3>3. QED BY <3>1, <3>2, <1>17 DEF Kept
  <2>2. CASE k \notin DOMAIN ladders
    <3>1. /\ ladders'[k] = SetToSeq(new)[k - Len(ladders)]
          /\ k - Len(ladders) \in 1 .. Len(SetToSeq(new))
      BY <1>15, <1>16, <2>2
    <3>2. ladders'[k] \in new
      BY <3>1, <1>13
    <3>3. QED BY <3>2, <1>8, <1>12, <1>17
  <2>3. QED BY <2>1, <2>2
<1>20. hour' \in Nat /\ setting' \in Settings
  BY <1>1
<1>21. DayInv'
  BY <1>8, <1>15, <1>19, <1>20 DEF DayInv
<1>22. BarStored(i, bar)
  <2>1. hour < Len(HourEvents) /\ i = HourEvents[hour + 1].pair
    BY DEF HourBarCloses, i, e
  <2>2. bar.t = D * A_DAY + HourEvents[hour + 1].at
    BY <1>4 DEF bar, e, BarType
  <2>3. data' = [data EXCEPT ![i].df = Append(data[i].df, bar)]
    BY <1>5 DEF df
  <2>4. ASSUME NEW k \in DOMAIN ladders'
        PROVE  \/ /\ k \in DOMAIN ladders
                  /\ ladders'[k] = IF ladders[k].pair = i
                                   THEN Did(ladders[k], maintain_exit(ladders[k].st, bar)) ELSE ladders[k]
               \/ \E sig \in SignalType :
                    ladders'[k] = Begun(sig, i) /\ sig.at = bar.t /\ Sgn(sig) * (sig.entry - sig.sl) > 0
    <3>1. CASE k \in DOMAIN ladders
      BY <3>1, <1>15, <1>16 DEF kept
    <3>2. CASE k \notin DOMAIN ladders
      <4>1. /\ ladders'[k] = SetToSeq(new)[k - Len(ladders)]
            /\ k - Len(ladders) \in 1 .. Len(SetToSeq(new))
        BY <1>15, <1>16, <3>2
      <4>2. ladders'[k] \in new
        BY <4>1, <1>13
      <4>3. QED BY <4>2, <1>12
    <3>3. QED BY <3>1, <3>2
  <2>5. QED BY <2>1, <2>2, <2>3, <2>4 DEF BarStored
<1>23. Answered(i)
  <2> DEFINE answer == detect(Buffer(df), Pairs[i])
             more   == SetToSeq(new)
  <2>1. data'[i].df = df
    BY <1>1, <1>4, <1>5
  <2>2. ASSUME NEW x \in new
        PROVE  x.pair = i /\ x.sig \in answer /\ Len(more) = 1 /\ more[1] = x
    <3>1. PICK sig \in answer : x = Begun(sig, i)
      BY DEF new
    <3>2. x.pair = i /\ x.sig = sig
      BY <3>1 DEF Begun
    <3>3. Len(more) = 1 /\ more[1] = x
      BY <1>12, AsSequence
    <3>4. QED BY <3>2, <3>3
  <2>3. Len(more) <= 1
    BY <1>12, AsSequence
  <2>4. ASSUME NEW k \in DOMAIN ladders' \ DOMAIN ladders
        PROVE  ladders'[k].pair = i /\ ladders'[k].sig \in answer
    <3>1. ladders'[k] = more[k - Len(ladders)] /\ k - Len(ladders) \in 1 .. Len(more)
      BY <1>15, <1>16
    <3>2. ladders'[k] \in new
      BY <3>1, <1>13
    <3>3. QED BY <3>2, <2>2
  <2>5. ASSUME NEW sig \in answer
        PROVE  \E k \in DOMAIN ladders' : ladders'[k].pair = i /\ ladders'[k].sig = sig
    <3>1. Begun(sig, i) \in new /\ Begun(sig, i).pair = i /\ Begun(sig, i).sig = sig
      BY DEF new, Begun
    <3>2. Len(more) = 1 /\ more[1] = Begun(sig, i)
      BY <3>1, <2>2
    <3> DEFINE k == Len(ladders) + 1
    <3>3. k \in DOMAIN ladders' /\ ~ (k <= Len(ladders)) /\ k - Len(ladders) = 1
      BY <3>2, <1>15, <1>16
    <3> HIDE DEF k
    <3>4. ladders'[k] = Begun(sig, i)
      BY <3>2, <3>3, <1>15, <1>16
    <3>5. QED BY <3>1, <3>3, <3>4
  <2>6. Len(ladders') <= Len(ladders) + 1
    BY <2>3, <1>15, <1>16
  <2> HIDE DEF answer, more
  <2>7. QED BY <2>1, <2>4, <2>5, <2>6 DEF Answered, answer
<1>24. QED BY <1>4, <1>6, <1>18, <1>21, <1>22, <1>23

LEMMA EndKeeps ==
  ASSUME DayInv, SessionEnds
  PROVE  DayInv' /\ \A k \in DOMAIN ladders : Kept(k)
<1> DEFINE px(k)  == Last(data[ladders[k].pair].df).c
           out(k) == force_close_eod(ladders[k].st, px(k))
<1>1. /\ hour \in Nat /\ hour' = hour + 1 /\ setting \in Settings /\ setting' = setting
      /\ ladders \in Seq(LadderType) /\ data' = data
      /\ data \in [DOMAIN Pairs -> [sym : DOMAIN PAIR_CONFIG, df : Seq(BarType)]]
      /\ ladders' = [k \in DOMAIN ladders |-> Did(ladders[k], out(k))]
  BY DEF DayInv, SessionEnds
<1>2. setting' = setting
  BY <1>1
<1>3. ASSUME NEW k \in DOMAIN ladders
      PROVE  Kept(k) /\ data[ladders[k].pair].df # <<>>
  <2> DEFINE l == ladders[k]
  <2>1. l \in LadderType
    BY <1>1, ElementOfSeq, LenProperties
  <2>2. LadderOf(l, setting) /\ StopOf(l.sig, l.st) /\ data[l.pair].df # <<>>
    BY DEF DayInv
  <2>3. /\ l.pair \in DOMAIN Pairs /\ l.sig \in SignalType /\ l.st \in StateType
        /\ l.st.dir = l.sig.dir /\ l.st.entry = l.sig.entry
    BY <2>1, <2>2 DEF LadderType, LadderOf
  <2>4. px(k) \in Int
    <3>1. data[l.pair].df \in Seq(BarType)
      BY <1>1, <2>3
    <3>2. Last(data[l.pair].df) \in BarType
      BY <3>1, <2>2, ElementOfSeq, LenProperties, EmptySeq DEF Last
    <3>3. QED BY <3>2 DEF BarType
  <2>5. /\ out(k).st \in StateType /\ out(k).acts \in Seq(ActType) /\ SameTrade(l.st, out(k).st)
        /\ StopOf(l.sig, out(k).st) /\ Tightens(l.st, out(k).st)
    <3> HIDE DEF px
    <3> QED BY <2>2, <2>3, <2>4, ForcedClose
  <2>6. ladders'[k] = Did(l, out(k)) /\ k \in DOMAIN ladders'
    BY <1>1
  <2> DEFINE o == out(k)
  <2>7. /\ o.st \in StateType /\ o.acts \in Seq(ActType) /\ SameTrade(l.st, o.st)
        /\ StopOf(l.sig, o.st) /\ Tightens(l.st, o.st) /\ ladders'[k] = Did(l, o)
    BY <2>5, <2>6
  <2> HIDE DEF l, o, out
  <2>8. /\ Did(l, o) \in LadderType /\ LadderOf(Did(l, o), setting) /\ StopOf(Did(l, o).sig, Did(l, o).st)
        /\ Did(l, o).pair = l.pair /\ Did(l, o).sig = l.sig /\ Did(l, o).st = o.st
    BY <2>1, <2>2, <2>7, DidIs
  <2>9. LadderOf(Did(l, o), setting)
    BY <2>8, <1>2
  <2>10. Kept(k)
    BY <2>6, <2>7, <2>8, <2>9 DEF Kept, l
  <2>11. QED BY <2>2, <2>10 DEF l
<1> HIDE DEF px, out
<1>4. DOMAIN ladders' = DOMAIN ladders
  BY <1>1
<1>5. ladders' \in Seq(LadderType)
  <2>1. DOMAIN ladders = 1 .. Len(ladders) /\ Len(ladders) \in Nat
    BY <1>1, LenProperties
  <2>2. \A k \in 1 .. Len(ladders) : ladders'[k] \in LadderType
    BY <1>3, <2>1 DEF Kept
  <2>3. ladders' = [k \in 1 .. Len(ladders) |-> ladders'[k]]
    BY <1>1, <2>1
  <2>4. ladders' \in [1 .. Len(ladders) -> LadderType]
    BY <2>2, <2>3
  <2>5. QED BY <2>1, <2>4
<1>6. ASSUME NEW k \in DOMAIN ladders'
      PROVE  /\ LadderOf(ladders'[k], setting') /\ StopOf(ladders'[k].sig, ladders'[k].st)
             /\ data'[ladders'[k].pair].df # <<>>
  BY <1>1, <1>2, <1>3, <1>4 DEF Kept
<1>7. hour' \in Nat /\ setting' \in Settings
  BY <1>1
<1>8. DayInv'
  BY <1>1, <1>5, <1>6, <1>7 DEF DayInv
<1>9. QED BY <1>3, <1>8

LEMMA DayKept == DayInv /\ [DayNext]_dayvars => DayInv'
<1> SUFFICES ASSUME DayInv, [DayNext]_dayvars PROVE DayInv'
  OBVIOUS
<1>1. CASE HourBarCloses
  BY <1>1, BarKeeps
<1>2. CASE SessionEnds
  BY <1>2, EndKeeps
<1>3. CASE UNCHANGED dayvars
  BY <1>3 DEF DayInv, dayvars
<1>4. QED BY <1>1, <1>2, <1>3 DEF DayNext, DayDone

THEOREM DayAlways == DaySpec => []DayInv
<1>1. QED BY DayStarts, DayKept, PTL DEF DaySpec

\* config:133-137, live_engine.py:408-423, of whatever bars: what the allocation
\* makes of a size is no larger, and the money at its stop is within the ceiling.
THEOREM OrdersRiskLittle == DaySpec => []OrderRiskBounded
<1>1. DayInv => OrderRiskBounded
  <2> SUFFICES ASSUME DayInv, NEW k \in DOMAIN ladders, NEW no \in 1 .. 2,
                      NEW pnl \in {0, 200 * 100 * CENT}
               PROVE  LET l    == ladders[k]
                          cfg  == PAIR_CONFIG[Pairs[l.pair]]
                          dist == Sgn(l.sig) * (l.sig.entry - l.sig.sl)
                          lots == OrderLots(l.st.lots,
                                    calc_trade_risk(l.sig.grade, setting.equity, pnl, no),
                                    risk_pct_for(cfg, setting.weak))
                      IN  lots > MIN_LOT => /\ (lots - 1) * Unit(dist, cfg) <= MAX_RISK_USD_PER_TRADE
                                            /\ lots <= l.st.lots
    BY DEF OrderRiskBounded
  <2> DEFINE l    == ladders[k]
             cfg  == PAIR_CONFIG[Pairs[l.pair]]
             dist == Sgn(l.sig) * (l.sig.entry - l.sig.sl)
             size == l.st.lots
             allotted == calc_trade_risk(l.sig.grade, setting.equity, pnl, no)
             base == risk_pct_for(cfg, setting.weak)
             lots == OrderLots(size, allotted, base)
             unit == Unit(dist, cfg)
  <2>1. l \in LadderType /\ LadderOf(l, setting) /\ setting \in Settings
    BY ElementOfSeq, LenProperties DEF DayInv
  <2>2. l.pair \in DOMAIN Pairs /\ dist \in Int /\ dist > 0
    BY <2>1 DEF LadderType, LadderOf, SignalType, Sgn
  <2>3. /\ cfg.vpl \in Nat \ {0} /\ cfg.override \in Nat
        /\ cfg.lot_max \in Nat /\ cfg.lot_max % 2 = 0
    BY <2>2, PairOf
  <2>4. size = size_position(cfg, setting.equity, dist, setting.weak)
    BY <2>1 DEF LadderOf
  <2> HIDE DEF l, cfg, dist, size
  <2>5. /\ size \in Nat /\ size % 2 = 0
        /\ size > MIN_LOT => (size - 1) * unit <= MAX_RISK_USD_PER_TRADE
    <3>1. setting.equity \in Nat /\ setting.weak \in BOOLEAN
      BY <2>1, SettingOf
    <3>2. QED BY <3>1, <2>2, <2>3, <2>4, SizeIs
  <2>6. base \in Nat \ {0}
    BY <2>3 DEF risk_pct_for, WEAK_MONTH_RISK, DEFAULT_RISK
  <2>7. allotted \in Int
    <3> DEFINE b == base_pct_for(l.sig.grade)
               q == (pnl * 1000) \div setting.equity
    <3>1. b \in Int /\ 2 * b \in Int /\ b \div 2 \in Int
      BY DEF base_pct_for
    <3>2. q \in Int
      <4>1. setting.equity \in Nat \ {0} /\ pnl * 1000 \in Int
        BY <2>1, SettingOf DEF CENT
      <4>2. QED BY <4>1
    <3>3. allotted \in {b, Min({b + q, 2 * b}), b \div 2}
      BY DEF calc_trade_risk
    <3> HIDE DEF b, q
    <3>4. Min({b + q, 2 * b}) \in Int
      <4>1. Min({b + q, 2 * b}) \in {b + q, 2 * b}
        BY <3>1, <3>2 DEF Min
      <4>2. QED BY <4>1, <3>1, <3>2
    <3> HIDE DEF allotted
    <3>5. QED BY <3>1, <3>3, <3>4
  <2>8. unit \in Nat
    BY <2>2, <2>3 DEF Unit
  <2> HIDE DEF base, allotted, unit
  <2>9. lots > MIN_LOT => lots \in Nat /\ lots <= size
    BY <2>5, <2>6, <2>7, OrderIs
  <2> HIDE DEF lots
  <2>10. lots > MIN_LOT => (lots - 1) * unit <= MAX_RISK_USD_PER_TRADE
    <3>1. SUFFICES ASSUME lots > MIN_LOT PROVE (lots - 1) * unit <= MAX_RISK_USD_PER_TRADE
      OBVIOUS
    <3>2. lots \in Nat /\ lots <= size /\ size > MIN_LOT
      BY <2>5, <2>9, <3>1 DEF MIN_LOT
    <3>3. (lots - 1) * unit <= (size - 1) * unit
      <4>1. \A a, b, u \in Int : a <= b /\ u >= 0 => a * u <= b * u
        OBVIOUS
      <4>2. lots - 1 \in Int /\ size - 1 \in Int /\ lots - 1 <= size - 1
        BY <2>5, <3>2
      <4>3. QED BY <2>8, <4>1, <4>2
    <3>4. \A a, b, c \in Int : a <= b /\ b <= c => a <= c
      OBVIOUS
    <3>5. /\ (lots - 1) * unit \in Int /\ (size - 1) * unit \in Int
          /\ MAX_RISK_USD_PER_TRADE \in Int
      BY <2>5, <2>8, <3>2 DEF MAX_RISK_USD_PER_TRADE, CENT
    <3>6. QED BY <2>5, <3>2, <3>3, <3>4, <3>5
  <2>11. QED BY <2>9, <2>10 DEF lots, size, allotted, base, unit, dist, cfg, l
<1>2. QED BY <1>1, DayAlways, PTL

\* asian_sweep_exit.py:148-250: a ladder keeps its signal; from hour to hour it
\* never holds more, never forgets TP1, never moves its stop away from where the
\* trail had brought it, and never changes once it is closed.
LaddersTighten ==
  \A k \in DOMAIN ladders :
    /\ k \in DOMAIN ladders' /\ ladders'[k].sig = ladders[k].sig
    /\ Tightens(ladders[k].st, ladders'[k].st)

THEOREM StopsTighten == DaySpec => [][LaddersTighten]_ladders
<1>1. DayInv /\ [DayNext]_dayvars => [LaddersTighten]_ladders
  <2> SUFFICES ASSUME DayInv, [DayNext]_dayvars PROVE [LaddersTighten]_ladders
    OBVIOUS
  <2>1. CASE HourBarCloses \/ SessionEnds
    <3>1. \A k \in DOMAIN ladders : Kept(k)
      BY <2>1, BarKeeps, EndKeeps
    <3>2. QED BY <3>1 DEF Kept, LaddersTighten
  <2>2. CASE UNCHANGED dayvars
    BY <2>2 DEF dayvars
  <2>3. QED BY <2>1, <2>2 DEF DayNext, DayDone
<1>2. QED BY <1>1, DayAlways, PTL DEF DaySpec

\* asian_sweep_exit.py: a position that leaves by its stop before TP1 leaves at
\* the stop of its signal, and one that leaves by the trail at entry or beyond:
\* once half was banked the rest is never given back.
StoppedAsTold ==
  \A k \in DOMAIN ladders : LET l == ladders[k] IN
    /\ l.st.reason = "SL"    => l.st.exit = l.sig.sl
    /\ l.st.reason = "TRAIL" => Sgn(l.sig) * (l.st.exit - l.sig.entry) >= 0

THEOREM StopsAreTold == DaySpec => []StoppedAsTold
<1>1. DayInv => StoppedAsTold
  BY DEF DayInv, StopOf, StoppedAsTold
<1>2. QED BY <1>1, DayAlways, PTL

-----------------------------------------------------------------------------
(* The ladders of a day and the mover of the backtest. *)

\* The bars and the signals of a pair lie before every bar of it that is to come.
InOrder ==
  \A j \in hour + 1 .. Len(HourEvents) : LET e == HourEvents[j] IN
    /\ \A n \in DOMAIN data[e.pair].df : data[e.pair].df[n].t < D * A_DAY + e.at
    /\ \A k \in DOMAIN ladders : ladders[k].pair = e.pair => ladders[k].sig.at < D * A_DAY + e.at

\* Every ladder is where the simulation of its signal over the bars so far is,
\* and what its acts do to a position; only the end of the session closes all.
Moved(l, bars, d, over) ==
  /\ Mirrors(l, Simulated(Entered(l.sig, d), bars), bars, d)
  /\ Earns(l.sig, l.st, Acted(Opened(l.sig, l.st.lots), l.acts))
  /\ l.st.reason \in Eod => over
  /\ over => l.st.closed
MoverInv ==
  InOrder /\ \A k \in DOMAIN ladders : Moved(ladders[k], data[ladders[k].pair].df, D, DayOver)

\* What the events say.
LEMMA EventOf ==
  ASSUME NEW j \in 1 .. Len(HourEvents)
  PROVE  /\ HourEvents[j].at \in Nat /\ HourEvents[j].pair \in DOMAIN Pairs
         /\ HourEvents[j].at <= SESS_CLOSE
         /\ \A i \in 1 .. j - 1 :
              HourEvents[i].pair = HourEvents[j].pair => HourEvents[i].at < HourEvents[j].at
<1>1. HourEvents \in Seq([at : Nat, pair : DOMAIN Pairs, bars : SUBSET BarType])
  BY DayAssumption
<1>2. j \in DOMAIN HourEvents /\ HourEvents[j] \in [at : Nat, pair : DOMAIN Pairs, bars : SUBSET BarType]
  BY <1>1, ElementOfSeq, LenProperties
<1>3. QED BY <1>2, DayAssumption

LEMMA MoverStarts == DayInit => MoverInv
<1> SUFFICES ASSUME DayInit PROVE MoverInv
  OBVIOUS
<1>1. DOMAIN ladders = {} /\ hour = 0 /\ setting \in Settings
  BY EmptySeq, LenProperties DEF DayInit
<1>2. ASSUME NEW j \in hour + 1 .. Len(HourEvents), NEW n \in DOMAIN data[HourEvents[j].pair].df
      PROVE  data[HourEvents[j].pair].df[n].t < D * A_DAY + HourEvents[j].at
  <2>1. j \in DOMAIN HourEvents /\ HourEvents[j].pair \in DOMAIN Pairs
    <3>1. HourEvents \in Seq([at : Nat, pair : DOMAIN Pairs, bars : SUBSET BarType])
      BY DayAssumption
    <3>2. j \in 1 .. Len(HourEvents)
      BY <1>1
    <3>3. QED BY <3>1, <3>2, EventOf, LenProperties
  <2>2. data[HourEvents[j].pair].df = setting.past[HourEvents[j].pair]
    BY <2>1 DEF DayInit
  <2>3. QED BY <1>1, <1>2, <2>1, <2>2, DayAssumption DEF D
<1>3. QED BY <1>1, <1>2 DEF MoverInv, InOrder

\* A bar does not end a session.
LEMMA NoEod ==
  ASSUME NEW st \in StateType, NEW bar, st.reason \notin Eod
  PROVE  maintain_exit(st, bar).st.reason \notin Eod
<1> DEFINE banks  == ~st.tp1_hit /\ Attains(st, bar, st.tp1)
           b      == IF banks THEN Banked(st) ELSE st
           trails == b.tp1_hit /\ Tighter(b, TrailStop(b, bar))
           s      == IF trails THEN [b EXCEPT !.sl = TrailStop(b, bar)] ELSE b
           why    == IF st.tp1_hit THEN "TRAIL" ELSE "SL"
<1>1. b.reason = st.reason /\ b \in StateType
  BY BankedIs
<1> HIDE DEF b
<1>2. s.reason = st.reason /\ DOMAIN s = DOMAIN b /\ "reason" \in DOMAIN s
  BY <1>1 DEF StateType
<1> HIDE DEF s
<1>3. Gone(s, s.tp2, "TP2").reason = "TP2"
  BY <1>1, <1>2 DEF Gone
<1>4. Gone(st, st.sl, why).reason = why
  BY DEF Gone, StateType
<1>5. maintain_exit(st, bar).st \in {st, Gone(st, st.sl, why), Gone(s, s.tp2, "TP2"), s}
  BY DEF maintain_exit, s, b
<1>6. QED BY <1>2, <1>3, <1>4, <1>5 DEF Eod

LEMMA BarMoves ==
  ASSUME DayInv, MoverInv, HourBarCloses
  PROVE  MoverInv'
<1>1. PICK i \in DOMAIN Pairs, bar \in BarType : BarStored(i, bar)
  BY BarKeeps
<1>2. /\ hour \in Nat /\ hour' = hour + 1 /\ setting' = setting /\ setting \in Settings
      /\ data \in [DOMAIN Pairs -> [sym : DOMAIN PAIR_CONFIG, df : Seq(BarType)]]
      /\ ladders \in Seq(LadderType) /\ D' = D /\ D \in Nat
  BY SettingOf DEF DayInv, HourBarCloses, D
<1>3. hour < Len(HourEvents) /\ Len(HourEvents) \in Nat
  <2>1. HourEvents \in Seq([at : Nat, pair : DOMAIN Pairs, bars : SUBSET BarType])
    BY DayAssumption
  <2>2. QED BY <1>1, <2>1, LenProperties DEF BarStored
<1> DEFINE e == HourEvents[hour + 1]
           df == data[i].df
<1>4. /\ hour + 1 \in 1 .. Len(HourEvents) /\ i = e.pair /\ bar.t = D * A_DAY + e.at
      /\ e.at \in Nat /\ e.at <= SESS_CLOSE /\ D * A_DAY \in Int /\ bar.t \in Int
  <2>1. hour + 1 \in 1 .. Len(HourEvents)
    BY <1>2, <1>3
  <2>2. e.at \in Nat /\ e.at <= SESS_CLOSE
    BY <2>1, EventOf
  <2>3. i = e.pair /\ bar.t = D * A_DAY + e.at
    BY <1>1 DEF BarStored
  <2>4. D * A_DAY \in Int /\ bar.t \in Int
    BY <1>2 DEF A_DAY, BarType
  <2>5. QED BY <2>1, <2>2, <2>3, <2>4
<1>5. /\ df \in Seq(BarType) /\ data'[i].df = Append(df, bar)
      /\ \A j \in DOMAIN Pairs : j # i => data'[j] = data[j]
  BY <1>1, <1>2 DEF BarStored
<1>6. /\ \A n \in DOMAIN df : df[n].t < bar.t
      /\ \A k \in DOMAIN ladders : ladders[k].pair = i => ladders[k].sig.at < bar.t
  <2>1. hour + 1 \in hour + 1 .. Len(HourEvents)
    BY <1>2, <1>3
  <2>2. InOrder
    BY DEF MoverInv
  <2>3. QED BY <2>1, <2>2, <1>4 DEF InOrder
<1>7. ASSUME NEW n \in DOMAIN Append(df, bar)
      PROVE  Append(df, bar)[n].t <= bar.t /\ Append(df, bar)[n].t \in Int
  <2>1. CASE n \in DOMAIN df
    <3>1. Append(df, bar)[n] = df[n] /\ df[n] \in BarType
      BY <2>1, <1>5, AppendProperties, ElementOfSeq, LenProperties
    <3>2. df[n].t \in Int /\ df[n].t < bar.t
      BY <3>1, <2>1, <1>6 DEF BarType
    <3> HIDE DEF df
    <3>3. QED BY <3>1, <3>2, <1>4
  <2>2. CASE n \notin DOMAIN df
    <3>1. Append(df, bar)[n] = bar
      BY <2>2, <1>5, AppendProperties, LenProperties
    <3>2. QED BY <3>1, <1>4
  <2>3. QED BY <2>1, <2>2
<1> HIDE DEF df, e
<1>0. ASSUME NEW k \in DOMAIN ladders
      PROVE  ladders[k] \in LadderType /\ Moved(ladders[k], data[ladders[k].pair].df, D, FALSE)
  <2>1. ladders[k] \in LadderType
    BY <1>2, ElementOfSeq, LenProperties
  <2>2. DayOver = FALSE
    BY <1>2, <1>3 DEF DayOver
  <2>3. QED BY <2>1, <2>2, Zenon DEF MoverInv
\* One ladder.
<1>8. ASSUME NEW k \in DOMAIN ladders'
      PROVE  /\ ladders'[k].sig.at \in Int
             /\ \/ ladders'[k].pair = i /\ ladders'[k].sig.at <= bar.t
                \/ k \in DOMAIN ladders /\ ladders'[k] = ladders[k] /\ ladders[k].pair # i
             /\ Moved(ladders'[k], data'[ladders'[k].pair].df, D, FALSE)
  <2>1. CASE k \in DOMAIN ladders /\ ladders[k].pair # i /\ ladders'[k] = ladders[k]
    <3> DEFINE l == ladders[k]
    <3>1. l \in LadderType /\ Moved(l, data[l.pair].df, D, FALSE)
      BY <2>1, <1>0
    <3>2. l.pair \in DOMAIN Pairs /\ l.sig.at \in Int
      BY <3>1 DEF LadderType, SignalType
    <3>3. data'[l.pair].df = data[l.pair].df
      BY <3>2, <2>1, <1>5
    <3> HIDE DEF l
    <3>4. Moved(l, data'[l.pair].df, D, FALSE)
      BY <3>1, <3>3
    <3>5. QED BY <2>1, <3>2, <3>4 DEF l
  <2>2. CASE k \in DOMAIN ladders /\ ladders[k].pair = i
             /\ ladders'[k] = Did(ladders[k], maintain_exit(ladders[k].st, bar))
    <3> DEFINE l   == ladders[k]
               out == maintain_exit(l.st, bar)
               m   == ladders'[k]
               x   == Simulated(Entered(l.sig, D), df)
               y   == Acted(Opened(l.sig, l.st.lots), l.acts)
    <3>1. /\ l \in LadderType /\ LadderOf(l, setting) /\ StopOf(l.sig, l.st)
          /\ Mirrors(l, x, df, D) /\ Earns(l.sig, l.st, y) /\ l.st.reason \notin Eod
      <4>1. l \in LadderType
        BY <2>2, <1>0
      <4>2. Moved(l, df, D, FALSE)
        BY <2>2, <1>0 DEF df
      <4>3. LadderOf(l, setting) /\ StopOf(l.sig, l.st)
        BY <2>2 DEF DayInv
      <4>4. QED BY <4>1, <4>2, <4>3 DEF Moved
    <3>2. l.sig \in SignalType /\ l.st \in StateType /\ l.acts \in Seq(ActType) /\ l.sig.at \in Int
          /\ l.st.dir = l.sig.dir /\ l.st.entry = l.sig.entry
      BY <3>1 DEF LadderType, LadderOf, SignalType
    <3>3. /\ out.st \in StateType /\ out.acts \in Seq(ActType) /\ SameTrade(l.st, out.st)
          /\ StopOf(l.sig, out.st)
      BY <3>1, <3>2, Maintained
    <3>4. m.pair = i /\ m.sig = l.sig /\ m.st = out.st /\ m.acts = l.acts \o out.acts
      BY <2>2, <3>1 DEF Did, LadderType
    <3>5. Follows(x, bar)
      <4>1. x.sig = l.sig /\ x.until = D * A_DAY + SESS_CLOSE
        BY <3>1 DEF Mirrors, SimType
      <4>2. l.sig.at < bar.t
        BY <2>2, <1>6
      <4>3. bar.t <= D * A_DAY + SESS_CLOSE
        BY <1>4 DEF SESS_CLOSE
      <4> HIDE DEF x, l
      <4>4. QED BY <4>1, <4>2, <4>3 DEF Follows
    <3>6. Simulated(Entered(l.sig, D), Append(df, bar)) = SimBar(x, bar)
      <4> DEFINE z == Entered(l.sig, D)
      <4> HIDE DEF z
      <4>1. Simulating!Fold(z, Append(df, bar)) = SimBar(Simulating!Fold(z, df), bar)
        BY <1>5, Simulating!FoldMore
      <4>2. QED BY <4>1, SimulatedIs DEF z
    <3>7. Acted(Opened(m.sig, m.st.lots), m.acts) = Acted(y, out.acts)
      <4> DEFINE z == Opened(l.sig, l.st.lots)
      <4>1. Opened(m.sig, m.st.lots) = z
        BY <3>3, <3>4 DEF SameTrade
      <4> HIDE DEF z, out
      <4>2. Acting!Fold(z, l.acts \o out.acts) = Acting!Fold(Acting!Fold(z, l.acts), out.acts)
        BY <3>2, <3>3, Acting!FoldConcat
      <4>3. QED BY <4>1, <4>2, <3>4, ActedIs DEF z
    <3>8. Mirrors(m, SimBar(x, bar), Append(df, bar), D)
      <4> HIDE DEF x, l, m, out
      <4>1. QED BY <1>5, <3>1, <3>4, <3>5, BarMirrors DEF out
    <3>9. Earns(m.sig, m.st, Acted(y, out.acts))
      <4> HIDE DEF y, l, m
      <4>1. QED BY <3>1, <3>2, <3>4, BarEarns
    <3>10. m.st.reason \notin Eod
      BY <3>1, <3>2, <3>4, NoEod
    <3> HIDE DEF l, out, m, x, y
    <3>11. Moved(m, data'[m.pair].df, D, FALSE)
      <4>1. Mirrors(m, Simulated(Entered(m.sig, D), data'[m.pair].df), data'[m.pair].df, D)
        BY <3>4, <3>6, <3>8, <1>2, <1>5
      <4>2. Earns(m.sig, m.st, Acted(Opened(m.sig, m.st.lots), m.acts))
        BY <3>7, <3>9
      <4>3. QED BY <4>1, <4>2, <3>10 DEF Moved
    <3>12. l.sig.at \in Int /\ l.sig.at <= bar.t
      BY <3>2, <2>2, <1>4, <1>6 DEF l
    <3>13. QED BY <3>4, <3>11, <3>12 DEF m
  <2>3. CASE \E sig \in SignalType :
               ladders'[k] = Begun(sig, i) /\ sig.at = bar.t /\ Sgn(sig) * (sig.entry - sig.sl) > 0
    <3>1. PICK sig \in SignalType :
            ladders'[k] = Begun(sig, i) /\ sig.at = bar.t /\ Sgn(sig) * (sig.entry - sig.sl) > 0
      BY <2>3
    <3> DEFINE m    == Begun(sig, i)
               lots == size_position(PAIR_CONFIG[Pairs[i]], setting.equity,
                                     Sgn(sig) * (sig.entry - sig.sl), setting.weak)
    <3>2. /\ m \in LadderType /\ m.pair = i /\ m.sig = sig /\ m.acts = <<>>
          /\ m.st = init_exit_state(sig, lots) /\ m.st.lots = lots /\ m.st.reason = "none"
      BY <3>1, <1>2, BegunIs DEF Begun, init_exit_state
    <3>3. lots \in Nat /\ lots % 2 = 0
      <4>1. Sgn(sig) * (sig.entry - sig.sl) \in Int
        BY DEF Sgn, SignalType
      <4> DEFINE cfg == PAIR_CONFIG[Pairs[i]]
                 dist == Sgn(sig) * (sig.entry - sig.sl)
                 equity == setting.equity
                 weak == setting.weak
      <4>2. /\ cfg.vpl \in Nat \ {0} /\ cfg.override \in Nat
            /\ cfg.lot_max \in Nat /\ cfg.lot_max % 2 = 0
        BY PairOf
      <4>3. equity \in Nat /\ weak \in BOOLEAN /\ dist \in Int
        BY <4>1, <1>2, SettingOf
      <4>4. lots = size_position(cfg, equity, dist, weak)
        OBVIOUS
      <4> HIDE DEF cfg, dist, equity, weak, lots
      <4>5. QED BY <4>2, <4>3, <4>4, SizeIs
    <3> HIDE DEF lots
    <3>4. Mirrors(m, Simulated(Entered(sig, D), Append(df, bar)), Append(df, bar), D)
      <4> DEFINE bars == Append(df, bar)
      <4>1. bars \in Seq(BarType) /\ \A n \in DOMAIN bars : bars[n].t <= m.sig.at
        BY <1>5, <1>7, <3>1, <3>2, AppendProperties
      <4> HIDE DEF bars, m
      <4>2. QED BY <4>1, <3>2, <1>2, BegunMirrors DEF bars
    <3>5. Earns(sig, m.st, Acted(Opened(sig, lots), <<>>))
      BY <3>2, <3>3, BegunEarns
    <3> HIDE DEF m
    <3>6. Moved(m, data'[m.pair].df, D, FALSE)
      <4>1. Mirrors(m, Simulated(Entered(m.sig, D), data'[m.pair].df), data'[m.pair].df, D)
        BY <3>2, <3>4, <1>2, <1>5
      <4>2. Earns(m.sig, m.st, Acted(Opened(m.sig, m.st.lots), m.acts))
        BY <3>2, <3>5
      <4>3. QED BY <4>1, <4>2, <3>1, <3>2 DEF Moved, Eod
    <3>7. m.sig.at \in Int /\ m.sig.at <= bar.t
      BY <3>1, <3>2, <1>4
    <3>8. QED BY <3>1, <3>2, <3>6, <3>7 DEF m
  <2>4. QED BY <2>1, <2>2, <2>3, <1>1 DEF BarStored
<1>9. InOrder'
  <2>1. ASSUME NEW j \in hour' + 1 .. Len(HourEvents)
        PROVE  /\ \A n \in DOMAIN data'[HourEvents[j].pair].df :
                    data'[HourEvents[j].pair].df[n].t < D' * A_DAY + HourEvents[j].at
               /\ \A k \in DOMAIN ladders' : ladders'[k].pair = HourEvents[j].pair =>
                    ladders'[k].sig.at < D' * A_DAY + HourEvents[j].at
    <3> DEFINE f == HourEvents[j]
    <3>1. /\ j \in hour + 1 .. Len(HourEvents) /\ j \in 1 .. Len(HourEvents)
          /\ hour + 1 \in 1 .. j - 1
      BY <1>2, <1>3
    <3>2. f.at \in Nat /\ f.pair \in DOMAIN Pairs /\ (e.pair = f.pair => e.at < f.at)
      BY <3>1, EventOf DEF e
    <3>3. /\ \A n \in DOMAIN data[f.pair].df : data[f.pair].df[n].t < D * A_DAY + f.at
          /\ \A k \in DOMAIN ladders : ladders[k].pair = f.pair => ladders[k].sig.at < D * A_DAY + f.at
      BY <3>1 DEF MoverInv, InOrder
    <3> HIDE DEF f
    <3>4. i = f.pair => bar.t < D * A_DAY + f.at
      BY <3>2, <1>4
    <3>5. \A n \in DOMAIN data'[f.pair].df : data'[f.pair].df[n].t < D * A_DAY + f.at
      <4>1. CASE f.pair = i
        BY <4>1, <1>4, <1>5, <1>7, <3>2, <3>4
      <4>2. CASE f.pair # i
        BY <4>2, <1>5, <3>2, <3>3
      <4>3. QED BY <4>1, <4>2
    <3>6. \A k \in DOMAIN ladders' : ladders'[k].pair = f.pair => ladders'[k].sig.at < D * A_DAY + f.at
      <4> SUFFICES ASSUME NEW k \in DOMAIN ladders', ladders'[k].pair = f.pair
                   PROVE  ladders'[k].sig.at < D * A_DAY + f.at
        OBVIOUS
      <4>1. CASE ladders'[k].pair = i /\ ladders'[k].sig.at <= bar.t
        <5> DEFINE a == ladders'[k].sig.at
        <5>1. a \in Int /\ a <= bar.t /\ i = f.pair /\ bar.t < D * A_DAY + f.at
          BY <4>1, <1>8, <3>4
        <5>2. D * A_DAY + f.at \in Int
          BY <1>4, <3>2
        <5> HIDE DEF a
        <5>3. a < D * A_DAY + f.at
          BY <5>1, <5>2, <1>4
        <5>4. QED BY <5>3 DEF a
      <4>2. CASE k \in DOMAIN ladders /\ ladders'[k] = ladders[k]
        BY <4>2, <3>3
      <4>3. QED BY <4>1, <4>2, <1>8
    <3>7. QED BY <3>5, <3>6, <1>2 DEF f
  <2>2. QED BY <2>1 DEF InOrder
<1>10. DayOver' = FALSE
  BY <1>2, <1>3 DEF DayOver
<1>11. QED BY <1>2, <1>8, <1>9, <1>10 DEF MoverInv

\* The bars of a ladder.
LEMMA BarsOf ==
  ASSUME DayInv, NEW k \in DOMAIN ladders
  PROVE  /\ ladders[k] \in LadderType /\ data[ladders[k].pair].df \in Seq(BarType)
         /\ ladders[k].pair \in DOMAIN Pairs /\ ladders[k].sig \in SignalType
         /\ ladders[k].st \in StateType /\ ladders[k].acts \in Seq(ActType)
         /\ Last(data[ladders[k].pair].df).c \in Int
<1> DEFINE l == ladders[k]
           df == data[l.pair].df
<1>1. l \in LadderType /\ df # <<>>
  <2>1. ladders \in Seq(LadderType)
    BY DEF DayInv
  <2>2. l \in LadderType
    BY <2>1, ElementOfSeq, LenProperties
  <2>3. QED BY <2>2 DEF DayInv
<1>2. l.pair \in DOMAIN Pairs /\ l.sig \in SignalType /\ l.st \in StateType /\ l.acts \in Seq(ActType)
  BY <1>1 DEF LadderType
<1>3. df \in Seq(BarType)
  BY <1>2 DEF DayInv
<1> HIDE DEF df
<1>4. Last(df).c \in Int
  <2>1. Last(df) \in BarType
    BY <1>1, <1>3, ElementOfSeq, LenProperties, EmptySeq DEF Last
  <2>2. QED BY <2>1 DEF BarType
<1>5. QED BY <1>1, <1>2, <1>3, <1>4 DEF df

\* The end of the session closes what is open, and no bar is to come.
LEMMA EndMoves ==
  ASSUME DayInv, MoverInv, SessionEnds
  PROVE  MoverInv'
<1>1. /\ hour = Len(HourEvents) /\ hour' = hour + 1 /\ data' = data /\ D' = D /\ hour \in Nat
      /\ DOMAIN ladders' = DOMAIN ladders
      /\ \A k \in DOMAIN ladders : ladders'[k] =
           Did(ladders[k], force_close_eod(ladders[k].st, Last(data[ladders[k].pair].df).c))
  BY DEF SessionEnds, DayInv, D
<1>2. DayOver' = TRUE
  BY <1>1 DEF DayOver
<1>3. InOrder'
  <2>1. hour' + 1 .. Len(HourEvents) = {}
    BY <1>1
  <2>2. QED BY <2>1 DEF InOrder
<1>4. ASSUME NEW k \in DOMAIN ladders
      PROVE  Moved(ladders'[k], data[ladders'[k].pair].df, D, TRUE)
  <2> DEFINE l    == ladders[k]
             bars == data[l.pair].df
             px   == Last(bars).c
             out  == force_close_eod(l.st, px)
             m    == Did(l, out)
             x    == Simulated(Entered(l.sig, D), bars)
             y    == Acted(Opened(l.sig, l.st.lots), l.acts)
  <2>1. /\ l \in LadderType /\ bars \in Seq(BarType) /\ l.pair \in DOMAIN Pairs
        /\ l.sig \in SignalType /\ l.st \in StateType /\ l.acts \in Seq(ActType) /\ px \in Int
    BY BarsOf
  <2>2. LadderOf(l, setting) /\ StopOf(l.sig, l.st) /\ Mirrors(l, x, bars, D) /\ Earns(l.sig, l.st, y)
    <3>1. LadderOf(l, setting) /\ StopOf(l.sig, l.st)
      BY DEF DayInv
    <3>2. \A j \in DOMAIN ladders :
            Mirrors(ladders[j], Simulated(Entered(ladders[j].sig, D), data[ladders[j].pair].df),
                    data[ladders[j].pair].df, D)
            /\ Earns(ladders[j].sig, ladders[j].st,
                     Acted(Opened(ladders[j].sig, ladders[j].st.lots), ladders[j].acts))
      BY DEF MoverInv, Moved
    <3>3. QED BY <3>1, <3>2
  <2>3. ladders'[k] = m
    BY <1>1
  <2> HIDE DEF l, bars, px, x
  <2>4. /\ out.st \in StateType /\ out.acts \in Seq(ActType) /\ SameTrade(l.st, out.st)
    <3>1. l.st.dir = l.sig.dir /\ l.st.entry = l.sig.entry
      BY <2>2 DEF LadderOf
    <3>2. QED BY <2>1, <2>2, <3>1, ForcedClose
  <2>5. m.pair = l.pair /\ m.sig = l.sig /\ m.st = out.st /\ m.acts = l.acts \o out.acts
    BY <2>1 DEF Did, LadderType
  <2>6. out.st.closed
    BY <2>1 DEF force_close_eod, Gone, StateType
  <2>7. Acted(Opened(m.sig, m.st.lots), m.acts) = Acted(y, out.acts)
    <3> DEFINE z == Opened(l.sig, l.st.lots)
    <3>1. Opened(m.sig, m.st.lots) = z
      BY <2>4, <2>5 DEF SameTrade
    <3> HIDE DEF z, out, m
    <3>2. Acting!Fold(z, l.acts \o out.acts) = Acting!Fold(Acting!Fold(z, l.acts), out.acts)
      BY <2>1, <2>4, Acting!FoldConcat
    <3>3. QED BY <3>1, <3>2, <2>5, ActedIs DEF z
  <2>8. Mirrors(m, x, bars, D)
    <3>1. m.st = force_close_eod(l.st, Last(bars).c).st
      BY <2>5 DEF px
    <3> HIDE DEF m, out
    <3>2. QED BY <2>1, <2>2, <2>5, <3>1, EndMirrors
  <2>9. Earns(m.sig, m.st, Acted(y, out.acts))
    <3> HIDE DEF m, y
    <3>1. QED BY <2>1, <2>2, <2>5, EndEarns
  <2> HIDE DEF m, out, y
  <2>10. Moved(m, bars, D, TRUE)
    BY <2>5, <2>6, <2>7, <2>8, <2>9 DEF Moved, x
  <2>11. QED BY <2>3, <2>5, <2>10 DEF bars
<1>5. \A k \in DOMAIN ladders' : Moved(ladders'[k], data'[ladders'[k].pair].df, D', TRUE)
  BY <1>1, <1>4
<1>6. QED BY <1>2, <1>3, <1>5, Zenon DEF MoverInv

LEMMA MoverKept == DayInv /\ MoverInv /\ [DayNext]_dayvars => MoverInv'
<1> SUFFICES ASSUME DayInv, MoverInv, [DayNext]_dayvars PROVE MoverInv'
  OBVIOUS
<1>1. CASE HourBarCloses
  BY <1>1, BarMoves
<1>2. CASE SessionEnds
  BY <1>2, EndMoves
<1>3. CASE UNCHANGED dayvars
  <2>1. /\ hour' = hour /\ data' = data /\ ladders' = ladders /\ D' = D
    BY <1>3 DEF dayvars, D
  <2>2. DayOver' = DayOver
    BY <2>1 DEF DayOver
  <2>3. InOrder'
    <3>1. InOrder
      BY DEF MoverInv
    <3>2. QED BY <3>1, <2>1 DEF InOrder
  <2>4. QED BY <2>1, <2>2, <2>3, Zenon DEF MoverInv
<1>4. QED BY <1>1, <1>2, <1>3 DEF DayNext, DayDone

LEMMA MoverAlways == DaySpec => []MoverInv
<1>1. QED BY MoverStarts, MoverKept, DayAlways, PTL DEF DaySpec

\* The size of a position against the lot of the backtest.
LEMMA NearestGrows ==
  ASSUME NEW a \in Int, NEW b \in Int, a <= b, NEW unit \in Nat \ {0}
  PROVE  Nearest(a, unit) <= Nearest(b, unit)
<1> DEFINE u == 2 * unit
<1>1. \A x, y, v \in Int : v > 0 /\ x <= y => x \div v <= y \div v
  OBVIOUS
<1>2. u \in Int /\ u > 0 /\ a + unit \in Int /\ b + unit \in Int /\ a + unit <= b + unit
  OBVIOUS
<1> HIDE DEF u
<1>3. (a + unit) \div u <= (b + unit) \div u /\ (a + unit) \div u \in Int /\ (b + unit) \div u \in Int
  BY <1>1, <1>2
<1>4. Nearest(a, unit) = 2 * ((a + unit) \div u) /\ Nearest(b, unit) = 2 * ((b + unit) \div u)
  BY DEF Nearest, u
<1> DEFINE p == (a + unit) \div u
           q == (b + unit) \div u
<1> HIDE DEF p, q
<1>5. p \in Int /\ q \in Int /\ p <= q
  BY <1>3 DEF p, q
<1>6. 2 * p <= 2 * q
  BY <1>5
<1>7. QED BY <1>4, <1>6 DEF p, q

LEMMA ClampGrows ==
  ASSUME NEW a \in Int, NEW b \in Int, a <= b, NEW cfg, cfg.lot_max \in Nat
  PROVE  Clamp(a, cfg) <= Clamp(b, cfg) /\ Clamp(a, cfg) \in Nat /\ Clamp(b, cfg) \in Nat
<1> DEFINE top == cfg.lot_max
<1>1. ASSUME NEW x \in Int
      PROVE  Clamp(x, cfg) = IF x > top THEN (IF top > 2 THEN top ELSE 2) ELSE IF x > 2 THEN x ELSE 2
  <2>1. Min({x, top}) = IF x > top THEN top ELSE x
    BY DEF Min
  <2> DEFINE m == Min({x, top})
  <2>2. m \in Int
    BY <2>1
  <2> HIDE DEF m
  <2>3. Max({2, m}) = IF m > 2 THEN m ELSE 2
    BY <2>2 DEF Max
  <2>4. QED BY <2>1, <2>3 DEF Clamp, MIN_LOT, m
<1>2. Clamp(a, cfg) = IF a > top THEN (IF top > 2 THEN top ELSE 2) ELSE IF a > 2 THEN a ELSE 2
  BY <1>1
<1>3. Clamp(b, cfg) = IF b > top THEN (IF top > 2 THEN top ELSE 2) ELSE IF b > 2 THEN b ELSE 2
  BY <1>1
<1> HIDE DEF top
<1>4. QED BY <1>2, <1>3 DEF top

\* The ceiling only cuts: what it makes of too many lots is fewer of them.
LEMMA CeilingCuts ==
  ASSUME NEW lots \in Nat, NEW dist \in Int, NEW cfg, Unit(dist, cfg) \in Nat \ {0},
         cfg.lot_max \in Nat
  PROVE  Ceiling(lots, dist, cfg) <= lots
<1> DEFINE unit == Unit(dist, cfg)
           most == Nearest(MAX_RISK_USD_PER_TRADE, unit)
           cut  == Min({most, cfg.lot_max})
           top  == MAX_RISK_USD_PER_TRADE
<1>1. top \in Int
  BY DEF MAX_RISK_USD_PER_TRADE, CENT
<1>2. most \in Int /\ (most - 1) * unit <= top
  <2>1. \A m, u : m \in Int /\ u \in Nat \ {0} =>
            /\ Nearest(m, u) \in Int /\ Nearest(m, u) % 2 = 0 /\ (Nearest(m, u) - 1) * u <= m
    BY NearestIs
  <2> HIDE DEF unit, top
  <2>2. unit \in Nat \ {0} /\ top = MAX_RISK_USD_PER_TRADE
    BY DEF unit, top
  <2>3. QED BY <1>1, <2>1, <2>2
<1>3. Ceiling(lots, dist, cfg) = IF lots * unit <= top THEN lots ELSE IF cut < MIN_LOT THEN 0 ELSE cut
  BY DEF Ceiling
<1>4. unit \in Nat \ {0}
  OBVIOUS
<1> HIDE DEF most, unit, top
<1>5. cut <= most /\ cut \in Int
  <2>1. \A x, y \in Int : Min({x, y}) \in {x, y} /\ Min({x, y}) <= x
    BY DEF Min
  <2>2. most \in Int /\ cfg.lot_max \in Int
    BY <1>2
  <2>3. cut \in {most, cfg.lot_max} /\ cut <= most
    BY <2>1, <2>2
  <2>4. QED BY <2>2, <2>3
<1> HIDE DEF cut
<1>6. ASSUME ~ (lots * unit <= top) PROVE cut <= lots
  <2> DEFINE a == (most - 1) * unit
             b == lots * unit
  <2>1. a \in Int /\ b \in Int /\ a <= top /\ top < b
    BY <1>1, <1>2, <1>4, <1>6
  <2>2. a < b
    <3> HIDE DEF a, b
    <3> QED BY <2>1, <1>1
  <2>3. \A x, y, u \in Int : u >= 0 /\ x >= y => x * u >= y * u
    OBVIOUS
  <2>4. most - 1 \in Int /\ lots \in Int /\ unit \in Int /\ unit >= 0
    BY <1>2, <1>4
  <2>5. most - 1 >= lots => a >= b
    BY <2>3, <2>4
  <2> HIDE DEF a, b
  <2>6. most - 1 < lots
    BY <2>1, <2>2, <2>4, <2>5
  <2>7. QED BY <2>6, <1>2, <1>5
<1>7. QED BY <1>3, <1>5, <1>6

\* size_position against the lot of simulate.
LEMMA NoLarger ==
  ASSUME NEW i \in DOMAIN Pairs, NEW equity \in Nat \ {0}, NEW dist \in Int, dist > 0,
         NEW weak \in BOOLEAN
  PROVE  LET cfg == PAIR_CONFIG[Pairs[i]]
         IN  size_position(cfg, equity, dist, weak)
               <= SimLot(cfg, equity, IF weak THEN WEAK_RISK ELSE RISK_PER_TRADE, dist)
<1> DEFINE cfg  == PAIR_CONFIG[Pairs[i]]
           size == size_position(cfg, equity, dist, weak)
           rp   == IF weak THEN WEAK_RISK ELSE RISK_PER_TRADE
           pct  == IF cfg.override # 0 THEN cfg.override ELSE rp
           unit == Unit(dist, cfg)
           mine == (equity * risk_pct_for(cfg, weak)) \div 2000
           his  == (equity * pct) \div 2000
<1>1. /\ cfg.vpl \in Nat \ {0} /\ cfg.override \in Nat /\ cfg.lot_max \in Nat
      /\ cfg.override # 0 => cfg.override >= WEAK_MONTH_RISK
  BY PairOf, OverrideAssumption
<1> HIDE DEF cfg
<1>2. unit \in Nat \ {0}
  BY <1>1 DEF Unit
<1>3. risk_pct_for(cfg, weak) \in Nat /\ pct \in Nat /\ risk_pct_for(cfg, weak) <= pct
  BY <1>1 DEF risk_pct_for, WEAK_MONTH_RISK, DEFAULT_RISK, WEAK_RISK, RISK_PER_TRADE
<1> DEFINE ours == risk_pct_for(cfg, weak)
<1> HIDE DEF pct, ours
<1>4. mine \in Int /\ his \in Int /\ mine <= his
  <2>1. ours \in Int /\ pct \in Int /\ ours <= pct
    BY <1>3 DEF ours
  <2>2. \A x, y, e \in Int : e >= 0 /\ x <= y => e * x <= e * y
    OBVIOUS
  <2> DEFINE a == equity * ours
             b == equity * pct
  <2>3. a \in Int /\ b \in Int /\ a <= b
    BY <2>1, <2>2
  <2> HIDE DEF a, b
  <2>4. a \div 2000 <= b \div 2000 /\ a \div 2000 \in Int /\ b \div 2000 \in Int
    BY <2>3
  <2>5. QED BY <2>4 DEF a, b, ours
<1> DEFINE lots == Clamp(Nearest(mine, unit), cfg)
           lot  == Clamp(Nearest(his, unit), cfg)
<1>5. SimLot(cfg, equity, rp, dist) = lot
  BY DEF SimLot, pct
<1>6. size = IF dist < MIN_SL_DISTANCE_PIPS * 10 * PT THEN 0 ELSE Ceiling(lots, dist, cfg)
  BY DEF size_position
<1> HIDE DEF mine, his
<1>7. lots <= lot /\ lots \in Nat /\ lot \in Nat
  <2> HIDE DEF unit
  <2>1. Nearest(mine, unit) <= Nearest(his, unit)
    BY <1>2, <1>4, NearestGrows
  <2>2. Nearest(mine, unit) \in Int /\ Nearest(his, unit) \in Int
    BY <1>2, <1>4, NearestIs
  <2>3. QED BY <1>1, <2>1, <2>2, ClampGrows
<1> HIDE DEF lots, lot
<1>8. Ceiling(lots, dist, cfg) <= lots
  BY <1>1, <1>2, <1>7, CeilingCuts
<1>9. Ceiling(lots, dist, cfg) \in Int
  <2>1. Ceiling(lots, dist, cfg) \in
          {0, lots, Min({Nearest(MAX_RISK_USD_PER_TRADE, unit), cfg.lot_max})}
    BY DEF Ceiling
  <2>2. Nearest(MAX_RISK_USD_PER_TRADE, unit) \in Int
    BY <1>2, NearestIs DEF MAX_RISK_USD_PER_TRADE, CENT
  <2> DEFINE most == Nearest(MAX_RISK_USD_PER_TRADE, unit)
  <2> HIDE DEF most
  <2>3. Min({most, cfg.lot_max}) \in {most, cfg.lot_max}
    BY <1>1, <2>2 DEF Min, most
  <2>4. QED BY <1>1, <1>7, <2>1, <2>2, <2>3 DEF most
<1> HIDE DEF size
<1>10. size <= lot
  BY <1>6, <1>7, <1>8, <1>9
<1>11. QED BY <1>5, <1>10 DEF size, cfg, rp

\* Half of what a whole number of steps earns.
LEMMA HalfOf ==
  ASSUME NEW a \in Int, NEW half \in Nat, NEW vpl \in Nat
  PROVE  (a * (2 * half) * vpl) \div 2 = a * half * vpl
<1> DEFINE n == a * half * vpl
<1>1. n \in Int /\ a * (2 * half) * vpl = 2 * n
  BY Z3
<1> HIDE DEF n
<1>2. (2 * n) \div 2 = n
  BY <1>1
<1>3. QED BY <1>1, <1>2 DEF n

\* What the acts have paid is what compute_pnl says, until a runner reaches TP2.
LEMMA PaidIs ==
  ASSUME NEW sig \in SignalType, NEW st \in StateType, NEW x, Earns(sig, st, x),
         st.closed, st.reason # "TP2", st.reason # "none",
         st.tp1 = sig.tp1, NEW cfg, cfg.vpl \in Nat
  PROVE  compute_pnl(st, cfg) = x.paid * cfg.vpl
<1> DEFINE half == st.lots \div 2
           diff == Sgn(st) * (st.exit - st.entry)
           d1   == Sgn(st) * (st.tp1 - st.entry)
           vpl  == cfg.vpl
<1>1. half \in Nat /\ st.lots = 2 * half /\ diff \in Int /\ d1 \in Int /\ vpl \in Nat
  <2>1. st.lots \in Nat /\ st.exit \in Int /\ st.entry \in Int /\ st.tp1 \in Int /\ Sgn(st) \in {1, -1}
    BY DEF StateType, Sgn
  <2>2. st.lots = 2 * half
    BY DEF Earns
  <2>3. QED BY <2>1, <2>2
<1>2. x.paid = IF st.tp1_hit THEN d1 * half + diff * half ELSE diff * st.lots
  BY DEF Earns, Gain
<1>3. compute_pnl(st, cfg) = IF st.tp1_hit THEN ((d1 + diff) * st.lots * vpl) \div 2
                             ELSE diff * st.lots * vpl
  BY DEF compute_pnl
<1> HIDE DEF half, diff, d1, vpl
<1>4. CASE st.tp1_hit
  <2> DEFINE a == d1 + diff
  <2>1. a \in Int /\ a * half = d1 * half + diff * half
    BY <1>1
  <2>2. x.paid = a * half
    BY <1>2, <1>4, <2>1
  <2>3. compute_pnl(st, cfg) = (a * (2 * half) * vpl) \div 2
    BY <1>1, <1>3, <1>4
  <2> HIDE DEF a
  <2>4. (a * (2 * half) * vpl) \div 2 = a * half * vpl
    BY <1>1, <2>1, HalfOf
  <2>5. QED BY <2>2, <2>3, <2>4 DEF vpl
<1>5. CASE ~st.tp1_hit
  BY <1>2, <1>3, <1>5 DEF vpl
<1>6. QED BY <1>4, <1>5

\* At the end the simulation of the backtest left where and why the ladder did,
\* and earned per lot what it earned.
Alike(l, sim, lot, cfg) ==
  sim # <<>> =>
    /\ l.st.exit = sim[1].ep /\ l.st.reason = sim[1].er /\ sim[1].lot = lot
    /\ ToCent(compute_pnl([l.st EXCEPT !.lots = sim[1].lot], cfg)) = sim[1].pnl

LEMMA LeftAlike ==
  ASSUME NEW l \in LadderType, NEW bars, NEW d,
         Mirrors(l, Simulated(Entered(l.sig, d), bars), bars, d), l.st.closed, l.st.reason # "none",
         l.st.dir = l.sig.dir, l.st.entry = l.sig.entry, l.st.tp1 = l.sig.tp1,
         NEW balance, NEW rp, NEW cfg
  PROVE  Alike(l, simulate(bars, l.sig, d, balance, rp, cfg),
               SimLot(cfg, balance, rp, Sgn(l.sig) * (l.sig.entry - l.sig.sl)), cfg)
<1> DEFINE x    == Simulated(Entered(l.sig, d), bars)
           sig  == l.sig
           st   == l.st
           lot  == SimLot(cfg, balance, rp, Sgn(sig) * (sig.entry - sig.sl))
           out  == IF x.er # "none" THEN x
                   ELSE [x EXCEPT !.ep = x.last[1], !.er = IF x.tp1hit THEN "EOD_trail" ELSE "EOD"]
           diff == Sgn(sig) * (out.ep - sig.entry)
           d1   == Sgn(sig) * (sig.tp1 - sig.entry)
           pnl  == IF out.tp1hit /\ out.er # "TP2" THEN ((d1 + diff) * lot * cfg.vpl) \div 2
                   ELSE diff * lot * cfg.vpl
           res  == [sig |-> sig, lot |-> lot, ep |-> out.ep, er |-> out.er, pnl |-> ToCent(pnl)]
           sim  == simulate(bars, sig, d, balance, rp, cfg)
<1>0. SUFFICES ASSUME sim # <<>> PROVE Alike(l, sim, lot, cfg)
  BY DEF Alike
<1>1. x.last # <<>> /\ sim = <<res>>
  <2>1. sim = IF x.last = <<>> THEN <<>> ELSE <<res>>
    BY DEF simulate
  <2> HIDE DEF sim, res
  <2>2. QED BY <1>0, <2>1
<1>2. sim[1] = res
  BY <1>1
<1> HIDE DEF sim, x
<1>3. st \in StateType
  BY DEF LadderType
<1>4. out.ep = st.exit /\ out.er = st.reason /\ out.tp1hit = st.tp1_hit
  <2>1. /\ x \in SimType(sig, d) /\ x.tp1hit = st.tp1_hit
        /\ \/ x.er = st.reason /\ x.ep = st.exit /\ x.er \in {"SL", "TRAIL", "TP2"}
           \/ /\ x.er = "none" /\ st.exit = x.last[1]
              /\ st.reason = IF st.tp1_hit THEN "EOD_trail" ELSE "EOD"
    BY <1>1 DEF Mirrors, x
  <2>2. CASE x.er # "none"
    BY <2>1, <2>2
  <2>3. CASE x.er = "none"
    <3> DEFINE px  == x.last[1]
               why == IF x.tp1hit THEN "EOD_trail" ELSE "EOD"
    <3>1. st.exit = px /\ st.reason = why
      BY <2>1, <2>3
    <3> HIDE DEF px, why
    <3>2. [x EXCEPT !.ep = px, !.er = why].ep = px /\ [x EXCEPT !.ep = px, !.er = why].er = why
          /\ [x EXCEPT !.ep = px, !.er = why].tp1hit = x.tp1hit
      BY <2>1 DEF SimType
    <3>3. out = [x EXCEPT !.ep = px, !.er = why]
      BY <2>3 DEF px, why
    <3> HIDE DEF out
    <3>4. QED BY <2>1, <3>1, <3>2, <3>3
  <2>4. QED BY <2>2, <2>3
<1> HIDE DEF out, lot
<1> DEFINE big == [st EXCEPT !.lots = lot]
<1>5. /\ big.lots = lot /\ big.exit = st.exit /\ big.entry = st.entry /\ big.tp1 = st.tp1
      /\ big.dir = st.dir /\ big.reason = st.reason /\ big.tp1_hit = st.tp1_hit
  BY <1>3 DEF StateType
<1> HIDE DEF big
<1>6. Sgn(big) = Sgn(sig)
  BY <1>5 DEF Sgn
<1>7. compute_pnl(big, cfg) = pnl
  BY <1>4, <1>5, <1>6 DEF compute_pnl
<1> HIDE DEF pnl
<1>8. /\ st.exit = res.ep /\ st.reason = res.er /\ ToCent(compute_pnl(big, cfg)) = res.pnl
      /\ res.lot = lot
  BY <1>4, <1>7
<1> HIDE DEF res
<1>9. /\ st.exit = sim[1].ep /\ st.reason = sim[1].er
      /\ ToCent(compute_pnl([st EXCEPT !.lots = sim[1].lot], cfg)) = sim[1].pnl /\ sim[1].lot = lot
  BY <1>2, <1>8 DEF big
<1>10. QED BY <1>9 DEF Alike

\* asian_sweep_exit.py against multi_pair_backtest.py:simulate, of whatever bars,
\* pairs and days: the ladder leaves at the price and for the reason of the
\* backtest and earns per lot what it earned, the acts it asked for leave a
\* position with its lots and its stop and have paid what it claims, and it is no
\* larger than the backtest's.
THEOREM ExitsPinned == DaySpec => []ExitsArePinned
<1>1. DayInv /\ MoverInv => ExitsArePinned
  <2> SUFFICES ASSUME DayInv, MoverInv, NEW k \in DOMAIN ladders
               PROVE  LET l == ladders[k]  x == Acted(Opened(l.sig, l.st.lots), l.acts)
                          cfg == PAIR_CONFIG[Pairs[l.pair]]
                          sim == simulate(data[l.pair].df, l.sig, D, setting.equity,
                                          IF setting.weak THEN WEAK_RISK ELSE RISK_PER_TRADE, cfg)
                      IN  /\ x.left = l.st.left /\ x.sl = l.st.sl
                          /\ l.st.closed /\ l.st.reason # "TP2" => compute_pnl(l.st, cfg) = x.paid * cfg.vpl
                          /\ (DayOver /\ sim # <<>>) =>
                               /\ l.st.exit = sim[1].ep /\ l.st.reason = sim[1].er
                               /\ ToCent(compute_pnl([l.st EXCEPT !.lots = sim[1].lot], cfg)) = sim[1].pnl
                               /\ l.st.lots <= sim[1].lot
    BY DEF ExitsArePinned
  <2> DEFINE l    == ladders[k]
             bars == data[l.pair].df
             x    == Acted(Opened(l.sig, l.st.lots), l.acts)
             z    == Simulated(Entered(l.sig, D), bars)
             cfg  == PAIR_CONFIG[Pairs[l.pair]]
             rp   == IF setting.weak THEN WEAK_RISK ELSE RISK_PER_TRADE
             dist == Sgn(l.sig) * (l.sig.entry - l.sig.sl)
             sim  == simulate(bars, l.sig, D, setting.equity, rp, cfg)
  <2>1. /\ l \in LadderType /\ l.pair \in DOMAIN Pairs /\ l.sig \in SignalType /\ l.st \in StateType
    BY BarsOf
  <2>2. LadderOf(l, setting) /\ StopOf(l.sig, l.st) /\ setting \in Settings
    BY DEF DayInv
  <2>3. /\ Mirrors(l, z, bars, D) /\ Earns(l.sig, l.st, x)
        /\ DayOver => l.st.closed
    BY DEF MoverInv, Moved
  <2>4. /\ l.st.dir = l.sig.dir /\ l.st.entry = l.sig.entry /\ l.st.tp1 = l.sig.tp1
        /\ l.st.closed => l.st.reason # "none"
        /\ dist \in Int /\ dist > 0
        /\ l.st.lots = size_position(cfg, setting.equity, dist, setting.weak)
    <3>1. Sgn(l.sig) \in {1, -1} /\ l.sig.entry \in Int /\ l.sig.sl \in Int
      BY <2>1 DEF SignalType, Sgn
    <3>2. dist \in Int
      BY <3>1
    <3>3. QED BY <2>2, <3>2 DEF LadderOf, StopOf
  <2>5. cfg.vpl \in Nat
    BY <2>1, PairOf
  <2> HIDE DEF l, x, cfg, bars, dist, rp
  <2>6. x.left = l.st.left /\ x.sl = l.st.sl
    BY <2>3 DEF Earns
  <2>7. l.st.closed /\ l.st.reason # "TP2" => compute_pnl(l.st, cfg) = x.paid * cfg.vpl
    BY <2>1, <2>3, <2>4, <2>5, PaidIs
  <2>8. ASSUME DayOver, sim # <<>>
        PROVE  /\ l.st.exit = sim[1].ep /\ l.st.reason = sim[1].er
               /\ ToCent(compute_pnl([l.st EXCEPT !.lots = sim[1].lot], cfg)) = sim[1].pnl
               /\ l.st.lots <= sim[1].lot
    <3>1. l.st.closed /\ l.st.reason # "none"
      BY <2>3, <2>4, <2>8
    <3>2. Alike(l, sim, SimLot(cfg, setting.equity, rp, dist), cfg)
      <4>1. /\ Mirrors(l, Simulated(Entered(l.sig, D), bars), bars, D) /\ l \in LadderType
            /\ l.st.closed /\ l.st.reason # "none" /\ l.st.dir = l.sig.dir
            /\ l.st.entry = l.sig.entry /\ l.st.tp1 = l.sig.tp1
        BY <2>1, <2>3, <2>4, <3>1
      <4>2. QED BY <4>1, LeftAlike DEF dist
    <3>3. size_position(cfg, setting.equity, dist, setting.weak) <= SimLot(cfg, setting.equity, rp, dist)
      BY <2>1, <2>2, <2>4, SettingOf, NoLarger DEF cfg, rp
    <3> HIDE DEF sim
    <3>4. QED BY <2>4, <2>8, <3>2, <3>3 DEF Alike
  <2>9. QED BY <2>6, <2>7, <2>8 DEF l, x, cfg, bars, rp
<1>2. QED BY <1>1, DayAlways, MoverAlways, PTL

-----------------------------------------------------------------------------
(* The bias: the average over closes is that over bars. *)

LEMMA UntilIs == \A bars, t : Until(bars, t) = Keeping!Fold([until |-> t, bars |-> <<>>], bars).bars
BY DEF Until, FoldLeft, MapThenFoldSet, Max, Keeping!Fold, Keeping!FoldLeft,
       Keeping!MapThenFoldSet, Keeping!Max

LEMMA UntilType ==
  ASSUME NEW bars \in Seq(BarType), NEW t
  PROVE  Until(bars, t) \in Seq(BarType)
<1> DEFINE S == [until : {t}, bars : Seq(BarType)]
           b == [until |-> t, bars |-> <<>>]
<1>1. b \in S
  <2>1. <<>> \in Seq(BarType)
    OBVIOUS
  <2>2. QED BY <2>1
<1>2. ASSUME NEW x \in S, NEW e \in BarType PROVE Keep(x, e) \in S
  <2>1. x.bars \in Seq(BarType) /\ Append(x.bars, e) \in Seq(BarType)
    BY AppendProperties
  <2>2. QED BY <2>1 DEF Keep
<1> HIDE DEF b
<1>3. Keeping!Fold(b, bars) \in S
  <2> HIDE DEF S
  <2> QED BY <1>1, <1>2, Keeping!FoldIn
<1>4. QED BY <1>3, UntilIs DEF b

LEMMA EmaIs == \A closes : ema(closes) = Weighing!Fold(Head(closes), Tail(closes))
BY DEF ema, FoldLeft, MapThenFoldSet, Max, Weighing!Fold, Weighing!FoldLeft,
       Weighing!MapThenFoldSet, Weighing!Max
LEMMA SmoothIs == \A e, bars : FoldLeft(Smoothed, e, bars) = Smoothing!Fold(e, bars)
BY DEF FoldLeft, MapThenFoldSet, Max, Smoothing!Fold, Smoothing!FoldLeft,
       Smoothing!MapThenFoldSet, Smoothing!Max

Closes(bars) == [i \in DOMAIN bars |-> bars[i].c]
LEMMA ClosesIs ==
  ASSUME NEW bars \in Seq(BarType)
  PROVE  /\ Closes(bars) \in Seq(Int) /\ Len(Closes(bars)) = Len(bars)
         /\ DOMAIN Closes(bars) = 1 .. Len(bars) /\ Len(bars) \in Nat
         /\ \A i \in 1 .. Len(bars) : Closes(bars)[i] = bars[i].c /\ bars[i].c \in Int
<1> DEFINE n == Len(bars)
<1>1. n \in Nat /\ DOMAIN bars = 1 .. n
  BY LenProperties
<1>2. \A i \in 1 .. n : bars[i].c \in Int
  <2>1. \A i \in 1 .. n : bars[i] \in BarType
    BY ElementOfSeq
  <2>2. QED BY <2>1 DEF BarType
<1>3. Closes(bars) = [i \in 1 .. n |-> bars[i].c]
  BY <1>1 DEF Closes
<1> HIDE DEF n
<1>4. Closes(bars) \in Seq(Int) /\ Len(Closes(bars)) = n
  BY <1>1, <1>2, <1>3
<1>5. QED BY <1>1, <1>2, <1>3, <1>4 DEF n

LEMMA AveragesAgree ==
  ASSUME NEW e \in Int
  PROVE  \A s \in Seq(BarType) :
           /\ Weighing!Fold(e, Closes(s)) = Smoothing!Fold(e, s)
           /\ Smoothing!Fold(e, s) \in Int
<1> DEFINE T == {s \in Seq(BarType) : /\ Weighing!Fold(e, Closes(s)) = Smoothing!Fold(e, s)
                                      /\ Smoothing!Fold(e, s) \in Int}
<1>1. <<>> \in T
  <2>1. <<>> \in Seq(BarType) /\ Closes(<<>>) = <<>>
    BY DEF Closes
  <2>2. QED BY <2>1, Weighing!FoldNone, Smoothing!FoldNone
<1>2. ASSUME NEW s \in Seq(BarType), NEW b \in BarType, s \in T PROVE Append(s, b) \in T
  <2> DEFINE longer == Append(s, b)
             v == Smoothing!Fold(e, s)
  <2>1. longer \in Seq(BarType) /\ b.c \in Int
    BY AppendProperties DEF BarType
  <2>2. Closes(longer) = Append(Closes(s), b.c)
    <3>1. /\ Len(longer) = Len(s) + 1 /\ longer[Len(s) + 1] = b
          /\ \A i \in 1 .. Len(s) : longer[i] = s[i]
      BY AppendProperties
    <3> DEFINE p == Closes(longer)
               q == Closes(s)
               r == Append(q, b.c)
    <3>2. /\ p \in Seq(Int) /\ Len(p) = Len(s) + 1 /\ Len(s) \in Nat
          /\ \A i \in 1 .. Len(s) + 1 : p[i] = longer[i].c
      BY <2>1, <3>1, ClosesIs
    <3>3. q \in Seq(Int) /\ Len(q) = Len(s) /\ \A i \in 1 .. Len(s) : q[i] = s[i].c
      BY ClosesIs
    <3> HIDE DEF p, q
    <3>4. /\ r \in Seq(Int) /\ Len(r) = Len(s) + 1 /\ r[Len(s) + 1] = b.c
          /\ \A i \in 1 .. Len(s) : r[i] = s[i].c
      BY <2>1, <3>2, <3>3, AppendProperties
    <3> HIDE DEF longer, r
    <3>5. \A i \in 1 .. Len(s) + 1 : p[i] = r[i]
      <4>1. ASSUME NEW i \in 1 .. Len(s) PROVE p[i] = r[i]
        <5>1. i \in 1 .. Len(s) + 1
          BY <3>2
        <5>2. p[i] = longer[i].c /\ longer[i] = s[i]
          BY <3>1, <3>2, <5>1
        <5>3. QED BY <3>4, <5>2
      <4>2. p[Len(s) + 1] = r[Len(s) + 1]
        BY <3>1, <3>2, <3>4
      <4>3. \A i \in 1 .. Len(s) + 1 : i \in 1 .. Len(s) \/ i = Len(s) + 1
        BY <3>2
      <4>4. QED BY <4>1, <4>2, <4>3
    <3>6. p = r
      BY <3>2, <3>4, <3>5, SeqEqual
    <3>7. QED BY <3>6 DEF p, q, r
  <2>3. Smoothing!Fold(e, longer) = Smoothed(v, b)
    BY Smoothing!FoldMore
  <2>4. Weighing!Fold(e, Append(Closes(s), b.c)) = Weighed(Weighing!Fold(e, Closes(s)), b.c)
    BY <2>1, ClosesIs, Weighing!FoldMore
  <2>5. Weighing!Fold(e, Closes(s)) = v /\ v \in Int
    BY <1>2
  <2> HIDE DEF v, longer
  <2>6. Weighed(v, b.c) = Smoothed(v, b) /\ Smoothed(v, b) \in Int
    <3>1. BIAS_EMA_SPAN \in Nat \ {0}
      BY AverageAssumption
    <3> DEFINE w == 2 * b.c + (BIAS_EMA_SPAN - 1) * v
               m == BIAS_EMA_SPAN + 1
    <3>2. w \in Int /\ m \in Nat \ {0}
      BY <2>1, <2>5, <3>1
    <3>3. Weighed(v, b.c) = w \div m /\ Smoothed(v, b) = w \div m
      BY DEF Weighed, Smoothed
    <3> HIDE DEF w, m
    <3>4. QED BY <3>2, <3>3
  <2>7. /\ Weighing!Fold(e, Closes(longer)) = Smoothing!Fold(e, longer)
        /\ Smoothing!Fold(e, longer) \in Int
    BY <2>2, <2>3, <2>4, <2>5, <2>6
  <2>8. longer \in T
    BY <2>1, <2>7
  <2> HIDE DEF T
  <2>9. QED BY <2>8 DEF longer
<1>3. Seq(BarType) \subseteq T
  <2> HIDE DEF T
  <2> QED BY <1>1, <1>2, Weighing!AllSequences
<1>4. QED BY <1>3

\* The detector and the backtest lean to the same side on the same bars.
LEMMA BiasIs ==
  ASSUME NEW bars \in Seq(BarType), NEW d
  PROVE  /\ compute_bias(bars, d) = get_bias(bars, d)
         /\ get_bias(bars, d) \in {"bullish", "bearish", "neutral"}
<1> DEFINE rec == Until(bars, d * A_DAY - 60)
           n   == Len(rec)
           avg == Smoothing!Fold(Head(rec).c, Tail(rec))
<1>1. rec \in Seq(BarType)
  BY UntilType
<1>2. get_bias(bars, d) \in {"bullish", "bearish", "neutral"}
  BY DEF get_bias
<1>3. compute_bias(bars, d) = IF Len(Closes(rec)) < BIAS_MIN_BARS THEN "neutral"
                              ELSE Leaning(Last(Closes(rec)), ema(Closes(rec)))
  BY DEF compute_bias, Frozen, Closes
<1>4. get_bias(bars, d) = IF n < BIAS_MIN_BARS THEN "neutral"
                          ELSE IF (Last(rec).c - avg) * 1000 > avg THEN "bullish"
                          ELSE IF (avg - Last(rec).c) * 1000 > avg THEN "bearish" ELSE "neutral"
  BY SmoothIs DEF get_bias
<1> HIDE DEF rec
<1>5. n \in Nat /\ Len(Closes(rec)) = n
  BY <1>1, ClosesIs
<1>6. CASE n < BIAS_MIN_BARS
  BY <1>2, <1>3, <1>4, <1>5, <1>6
<1>7. CASE ~(n < BIAS_MIN_BARS)
  <2>1. n >= 1 /\ rec # <<>>
    <3>1. n >= 1
      BY <1>5, <1>7, AverageAssumption
    <3>2. QED BY <1>1, <3>1, EmptySeq
  <2>2. /\ Closes(rec) \in Seq(Int) /\ Closes(rec) # <<>>
        /\ \A i \in 1 .. n : Closes(rec)[i] = rec[i].c /\ rec[i].c \in Int
    <3>1. Closes(rec) \in Seq(Int) /\ Len(Closes(rec)) = n
          /\ \A i \in 1 .. n : Closes(rec)[i] = rec[i].c /\ rec[i].c \in Int
      BY <1>1, ClosesIs
    <3>2. QED BY <2>1, <3>1, EmptySeq
  <2>3. Head(Closes(rec)) = Head(rec).c /\ Head(rec).c \in Int
    BY <1>1, <1>5, <2>1, <2>2
  <2>4. Last(Closes(rec)) = Last(rec).c /\ Last(rec).c \in Int
    BY <1>5, <2>1, <2>2 DEF Last
  <2>5. Tail(rec) \in Seq(BarType) /\ Tail(Closes(rec)) = Closes(Tail(rec))
    <3> DEFINE p == Tail(Closes(rec))
               q == Closes(Tail(rec))
    <3>1. /\ Tail(rec) \in Seq(BarType) /\ Len(Tail(rec)) = n - 1
          /\ \A i \in 1 .. n - 1 : Tail(rec)[i] = rec[i + 1]
      BY <1>1, <2>1, HeadTailProperties
    <3>2. p \in Seq(Int) /\ Len(p) = n - 1 /\ \A i \in 1 .. n - 1 : p[i] = Closes(rec)[i + 1]
      BY <1>5, <2>2, HeadTailProperties
    <3>3. q \in Seq(Int) /\ Len(q) = n - 1 /\ \A i \in 1 .. n - 1 : q[i] = Tail(rec)[i].c
      <4> DEFINE s == Tail(rec)
      <4>1. s \in Seq(BarType) /\ Len(s) = n - 1
        BY <3>1
      <4> HIDE DEF s, n
      <4>2. /\ Closes(s) \in Seq(Int) /\ Len(Closes(s)) = n - 1
            /\ \A i \in 1 .. n - 1 : Closes(s)[i] = s[i].c
        BY <4>1, ClosesIs
      <4>3. QED BY <4>2 DEF s, n
    <3>4. \A i \in 1 .. n - 1 : i + 1 \in 1 .. n
      BY <1>5
    <3> HIDE DEF p, q
    <3>5. \A i \in 1 .. n - 1 : p[i] = q[i]
      BY <2>2, <3>1, <3>2, <3>3, <3>4
    <3>6. p = q
      BY <3>2, <3>3, <3>5, SeqEqual
    <3>7. QED BY <3>1, <3>6 DEF p, q
  <2>6. ema(Closes(rec)) = avg /\ avg \in Int
    BY <2>3, <2>5, EmaIs, AveragesAgree
  <2> HIDE DEF avg
  <2> DEFINE last == Last(rec).c
  <2> HIDE DEF last
  <2>7. /\ compute_bias(bars, d) = Leaning(last, avg) /\ last \in Int
        /\ get_bias(bars, d) = IF (last - avg) * 1000 > avg THEN "bullish"
                               ELSE IF (avg - last) * 1000 > avg THEN "bearish" ELSE "neutral"
    BY <1>3, <1>4, <1>5, <1>7, <2>4, <2>6 DEF last
  <2>8. Leaning(last, avg) = IF (last - avg) * 1000 > avg THEN "bullish"
                             ELSE IF (avg - last) * 1000 > avg THEN "bearish" ELSE "neutral"
    BY <2>6, <2>7 DEF Leaning, BIAS_PER_MILLE
  <2>9. QED BY <1>2, <2>7, <2>8
<1>8. QED BY <1>6, <1>7

-----------------------------------------------------------------------------
(* Sessions and sweeps. *)

\* The times of the hourly bars of a day, and the session each is in.
OnTheHour(d, t) == \E at \in 0 .. SESS_CLOSE : at % 60 = 0 /\ t = d * A_DAY + at
LEMMA HoursOf ==
  ASSUME NEW d \in Nat, NEW t, OnTheHour(d, t)
  PROVE  /\ t \in Int /\ DayOf(t) = d
         /\ SessionOf(t) = "LONDON" <=> t >= d * A_DAY + 360 /\ t <= d * A_DAY + 630
         /\ SessionOf(t) = "NY" <=> t >= d * A_DAY + 720 /\ t <= d * A_DAY + 930
         /\ SessionOf(t) \in {"LONDON", "NY", "none"}
         /\ SessionOf(t) # "none" => t >= d * A_DAY + 360
<1>1. PICK at \in 0 .. SESS_CLOSE : at % 60 = 0 /\ t = d * A_DAY + at
  BY DEF OnTheHour
<1>2. at \in 0 .. 960 /\ at % 60 = 0 /\ t = d * 1440 + at
  BY <1>1 DEF SESS_CLOSE, A_DAY
<1>3. t \in Int /\ t \div 1440 = d /\ t % 1440 = at
  BY <1>2
<1> DEFINE k == at \div 60
<1>4. k \in Int /\ at = 60 * k
  BY <1>2
<1>5. DayOf(t) = d /\ HourOf(t) = k
  BY <1>3 DEF DayOf, HourOf, A_DAY
<1> HIDE DEF k
<1>6. SessionOf(t) = "LONDON" <=> at >= 360 /\ at <= 630
  BY <1>4, <1>5 DEF SessionOf
<1>7. SessionOf(t) = "NY" <=> at >= 720 /\ at <= 930
  BY <1>4, <1>5 DEF SessionOf
<1>8. SessionOf(t) \in {"LONDON", "NY", "none"}
  BY DEF SessionOf
<1>9. QED BY <1>2, <1>3, <1>5, <1>6, <1>7, <1>8 DEF A_DAY

\* A bar that sweeps a side of a range which the bias lets it sweep.
SweepsHigh(b, range, bias, short) ==
  short /\ bias = "bearish" /\ b.h > range[1] /\ b.c < range[1]
SweepsLow(b, range, bias) ==
  bias \in {"bullish", "neutral"} /\ b.l < range[2] /\ b.c > range[2]
Sweeps(b, range, bias, short) == SweepsHigh(b, range, bias, short) \/ SweepsLow(b, range, bias)

\* What the backtest makes of it, and what the detector does.
ScannedOf(b, range, bias, cfg, sess) ==
  IF bias = "bearish"
  THEN Scanned("SELL", range[1] - cfg.spread * PT, b.h + cfg.sl_pts * PT, b, sess, cfg.quality)
  ELSE Scanned("BUY", range[2] + cfg.spread * PT, b.l - cfg.sl_pts * PT, b, sess, cfg.quality)
BuiltOf(b, range, bias, cfg) ==
  IF bias = "bearish"
  THEN build_signal("SELL", range[1] - PT * cfg.spread, b.h + PT * cfg.sl_pts, b.t, cfg)
  ELSE build_signal("BUY", range[2] + PT * cfg.spread, b.l - PT * cfg.sl_pts, b.t, cfg)

Far(dir, entry, sl) == (IF dir = "BUY" THEN entry - sl ELSE sl - entry) >= 30
Agreed(dir, entry, sl, b, cfg) ==
  \E x, y : /\ build_signal(dir, entry, sl, b.t, cfg) = {x}
            /\ Scanned(dir, entry, sl, b, SessionOf(b.t), cfg.quality) = {y}
            /\ Levels(x) = Levels(y)

\* With the stop on the losing side, three points away, each makes one signal of
\* it and the levels are the same.
LEMMA SameLevels ==
  ASSUME NEW dir \in {"BUY", "SELL"}, NEW entry \in Int, NEW sl \in Int, NEW b \in BarType,
         NEW cfg, Far(dir, entry, sl)
  PROVE  Agreed(dir, entry, sl, b, cfg)
<1> DEFINE sess == SessionOf(b.t)
           sgn  == IF dir = "BUY" THEN 1 ELSE -1
           risk == IF dir = "BUY" THEN entry - sl ELSE sl - entry
           far  == (25 * risk) \div 10
           x == [dir |-> dir, entry |-> entry, sl |-> sl, tp1 |-> entry + sgn * risk,
                 tp |-> entry + sgn * far, session |-> SessionOf(b.t), at |-> b.t,
                 grade |-> IF cfg.quality >= GRADE_A_QUALITY THEN "A" ELSE "B"]
           y == [dir |-> dir, entry |-> entry, sl |-> sl, tp1 |-> entry + sgn * risk,
                 tp |-> entry + sgn * far, session |-> sess, at |-> b.t, q |-> cfg.quality]
<1>1. risk \in Int /\ risk >= 30 /\ sgn * (entry - sl) = risk
      /\ (IF sl < entry THEN entry - sl ELSE sl - entry) = risk
  BY DEF Far
<1>2. far \in Int /\ far > 0
  BY <1>1
<1>3. sgn * ((entry + sgn * far) - entry) > 0
  <2> HIDE DEF far
  <2>1. QED BY <1>2
<1>4. Scanned(dir, entry, sl, b, sess, cfg.quality) = {y}
  <2>1. Scanned(dir, entry, sl, b, sess, cfg.quality) =
          IF sgn * (entry - sl) < 3 * PT THEN {}
          ELSE {[dir |-> dir, entry |-> entry, sl |-> sl, tp1 |-> entry + sgn * (sgn * (entry - sl)),
                 tp |-> entry + sgn * ((25 * (sgn * (entry - sl))) \div 10), session |-> sess,
                 at |-> b.t, q |-> cfg.quality]}
    BY DEF Scanned
  <2>2. ~ (risk < 3 * PT)
    BY <1>1 DEF PT
  <2> HIDE DEF sgn, risk
  <2>3. QED BY <1>1, <2>1, <2>2
<1>5. build_signal(dir, entry, sl, b.t, cfg) = {x}
  <2> DEFINE r == IF sl < entry THEN entry - sl ELSE sl - entry
  <2>1. build_signal(dir, entry, sl, b.t, cfg) =
          IF r < MIN_RISK_PT_MULT * PT \/ sgn * (entry - sl) <= 0
             \/ sgn * ((entry + sgn * ((25 * r) \div 10)) - entry) <= 0 THEN {}
          ELSE {[dir |-> dir, entry |-> entry, sl |-> sl, tp1 |-> entry + sgn * r,
                 tp |-> entry + sgn * ((25 * r) \div 10), session |-> SessionOf(b.t), at |-> b.t,
                 grade |-> IF cfg.quality >= GRADE_A_QUALITY THEN "A" ELSE "B"]}
    BY DEF build_signal
  <2>2. r = risk /\ ~ (risk < MIN_RISK_PT_MULT * PT) /\ ~ (sgn * (entry - sl) <= 0)
    BY <1>1 DEF PT, MIN_RISK_PT_MULT
  <2>3. ~ (sgn * ((entry + sgn * far) - entry) <= 0)
    <3> HIDE DEF far
    <3>1. QED BY <1>2
  <2> HIDE DEF r, sgn, risk
  <2>4. QED BY <2>1, <2>2, <2>3
<1>6. Levels(x) = Levels(y)
  BY DEF Levels
<1> HIDE DEF x, y
<1>7. QED BY <1>4, <1>5, <1>6 DEF Agreed

\* One signal each, with the same levels.
Paired(b, range, bias, cfg) ==
  \E x, y : /\ BuiltOf(b, range, bias, cfg) = {x} /\ ScannedOf(b, range, bias, cfg, SessionOf(b.t)) = {y}
            /\ Levels(x) = Levels(y)

LEMMA SweptIs ==
  ASSUME NEW b \in BarType, NEW range, range[1] \in Int, range[2] \in Int,
         NEW cfg, cfg.spread \in Nat, cfg.sl_pts \in Nat, cfg.spread + cfg.sl_pts >= 3,
         NEW bias, NEW short, Sweeps(b, range, bias, short)
  PROVE  Paired(b, range, bias, cfg)
<1> DEFINE sess == SessionOf(b.t)
           top == range[1]
           low == range[2]
           near == cfg.spread
           past == cfg.sl_pts
<1>1. /\ top \in Int /\ low \in Int /\ near \in Nat /\ past \in Nat /\ near + past >= 3
      /\ b.h \in Int /\ b.l \in Int /\ b.t \in Int
  BY DEF BarType
<1>2. CASE bias = "bearish"
  <2>1. b.h > top
    BY <1>2 DEF Sweeps, SweepsHigh, SweepsLow
  <2> DEFINE entry == top - near * PT
             sl == b.h + past * PT
  <2>2. entry = top - PT * near /\ sl = b.h + PT * past /\ entry \in Int /\ sl \in Int
        /\ sl - entry >= 30
    <3> HIDE DEF top, near, past
    <3>1. QED BY <1>1, <2>1 DEF PT
  <2>3. /\ BuiltOf(b, range, bias, cfg) = build_signal("SELL", entry, sl, b.t, cfg)
        /\ ScannedOf(b, range, bias, cfg, sess) = Scanned("SELL", entry, sl, b, sess, cfg.quality)
    <3>1. BuiltOf(b, range, bias, cfg) = build_signal("SELL", top - PT * near, b.h + PT * past, b.t, cfg)
      BY <1>2 DEF BuiltOf
    <3>2. ScannedOf(b, range, bias, cfg, sess) = Scanned("SELL", entry, sl, b, sess, cfg.quality)
      BY <1>2 DEF ScannedOf
    <3> HIDE DEF entry, sl
    <3>3. QED BY <2>2, <3>1, <3>2
  <2> HIDE DEF entry, sl
  <2>4. Far("SELL", entry, sl) /\ "SELL" \in {"BUY", "SELL"}
    BY <2>2 DEF Far
  <2>5. Agreed("SELL", entry, sl, b, cfg)
    BY <2>2, <2>4, SameLevels
  <2>6. QED BY <2>3, <2>5 DEF Agreed, Paired
<1>3. CASE bias # "bearish"
  <2>1. b.l < low
    BY <1>3 DEF Sweeps, SweepsHigh, SweepsLow
  <2> DEFINE entry == low + near * PT
             sl == b.l - past * PT
  <2>2. entry = low + PT * near /\ sl = b.l - PT * past /\ entry \in Int /\ sl \in Int
        /\ entry - sl >= 30
    <3> HIDE DEF low, near, past
    <3>1. QED BY <1>1, <2>1 DEF PT
  <2>3. /\ BuiltOf(b, range, bias, cfg) = build_signal("BUY", entry, sl, b.t, cfg)
        /\ ScannedOf(b, range, bias, cfg, sess) = Scanned("BUY", entry, sl, b, sess, cfg.quality)
    <3>1. BuiltOf(b, range, bias, cfg) = build_signal("BUY", low + PT * near, b.l - PT * past, b.t, cfg)
      BY <1>3 DEF BuiltOf
    <3>2. ScannedOf(b, range, bias, cfg, sess) = Scanned("BUY", entry, sl, b, sess, cfg.quality)
      BY <1>3 DEF ScannedOf
    <3> HIDE DEF entry, sl
    <3>3. QED BY <2>2, <3>1, <3>2
  <2> HIDE DEF entry, sl
  <2>4. Far("BUY", entry, sl) /\ "BUY" \in {"BUY", "SELL"}
    BY <2>2 DEF Far
  <2>5. Agreed("BUY", entry, sl, b, cfg)
    BY <2>2, <2>4, SameLevels
  <2>6. QED BY <2>3, <2>5 DEF Agreed, Paired
<1>4. QED BY <1>2, <1>3

Biases == {"bullish", "bearish", "neutral"}

\* The detector answers for a bar that sweeps a range of the right size, in the
\* hours of a session and on no Monday.
LEMMA DetectIs ==
  ASSUME NEW bars, NEW sym, NEW cur, cur = Last(bars), NEW d, d = DayOf(cur.t),
         NEW range, range = compute_asian_range(bars, d),
         NEW bias, bias = compute_bias(bars, d), bias \in Biases
  PROVE  detect(bars, sym) =
           IF \/ Len(bars) < min_bars_required \/ Monday(d) \/ SessionOf(cur.t) = "none"
              \/ range = <<>> \/ range[1] <= range[2] \/ ~ SizedRight(range, PAIR_CONFIG[sym])
              \/ ~ Sweeps(cur, range, bias, ShortAllowed(cur.t))
           THEN {} ELSE BuiltOf(cur, range, bias, PAIR_CONFIG[sym])
<1>1. detect(bars, sym) =
        IF Len(bars) < min_bars_required \/ Monday(d) \/ SessionOf(cur.t) = "none" THEN {}
        ELSE IF range = <<>> THEN {}
        ELSE IF range[1] <= range[2] \/ ~ SizedRight(range, PAIR_CONFIG[sym]) THEN {}
        ELSE IF SweepsHigh(cur, range, bias, ShortAllowed(cur.t))
             THEN build_signal("SELL", range[1] - PT * PAIR_CONFIG[sym].spread,
                               cur.h + PT * PAIR_CONFIG[sym].sl_pts, cur.t, PAIR_CONFIG[sym])
        ELSE IF SweepsLow(cur, range, bias)
             THEN build_signal("BUY", range[2] + PT * PAIR_CONFIG[sym].spread,
                               cur.l - PT * PAIR_CONFIG[sym].sl_pts, cur.t, PAIR_CONFIG[sym])
        ELSE {}
  BY DEF detect, SweepsHigh, SweepsLow
<1>2. CASE bias = "bearish"
  <2>1. ~ SweepsLow(cur, range, bias)
    BY <1>2 DEF SweepsLow
  <2>2. BuiltOf(cur, range, bias, PAIR_CONFIG[sym]) =
          build_signal("SELL", range[1] - PT * PAIR_CONFIG[sym].spread,
                       cur.h + PT * PAIR_CONFIG[sym].sl_pts, cur.t, PAIR_CONFIG[sym])
    BY <1>2 DEF BuiltOf
  <2>3. QED BY <1>1, <2>1, <2>2, Zenon DEF Sweeps
<1>3. CASE bias # "bearish"
  <2>1. ~ SweepsHigh(cur, range, bias, ShortAllowed(cur.t))
    BY <1>3 DEF SweepsHigh
  <2>2. BuiltOf(cur, range, bias, PAIR_CONFIG[sym]) =
          build_signal("BUY", range[2] + PT * PAIR_CONFIG[sym].spread,
                       cur.l - PT * PAIR_CONFIG[sym].sl_pts, cur.t, PAIR_CONFIG[sym])
    BY <1>3 DEF BuiltOf
  <2>3. QED BY <1>1, <2>1, <2>2, Zenon DEF Sweeps
<1>4. QED BY <1>2, <1>3

\* The backtest makes a signal of the first bar of a session that sweeps the range.
FirstSweep(df, bars, range, bias, short) ==
  {j \in bars : /\ Sweeps(df[j], range, bias, short)
                /\ \A k \in bars : Sweeps(df[k], range, bias, short) => j <= k}
FoundIn(df, bars, range, bias, cfg, sess, short) ==
  UNION {ScannedOf(df[j], range, bias, cfg, sess) : j \in FirstSweep(df, bars, range, bias, short)}
LEMMA ScanIs ==
  ASSUME NEW df, NEW d, NEW range, NEW bias, bias \in Biases, NEW cfg, NEW sess, NEW sh, NEW eh, NEW short
  PROVE  SessionSignals(df, d, range[1], range[2], bias, cfg, sess, sh, eh, short) =
           FoundIn(df, InSession(df, d, sh, eh), range, bias, cfg, sess, short)
<1> DEFINE bars == InSession(df, d, sh, eh)
           highs == {df[i] : i \in {j \in bars : /\ SweepsHigh(df[j], range, bias, short)
                                    /\ \A k \in bars : SweepsHigh(df[k], range, bias, short) => j <= k}}
           lows  == {df[i] : i \in {j \in bars : /\ SweepsLow(df[j], range, bias)
                                    /\ \A k \in bars : SweepsLow(df[k], range, bias) => j <= k}}
           Sold_(b) == Scanned("SELL", range[1] - cfg.spread * PT, b.h + cfg.sl_pts * PT, b, sess, cfg.quality)
           Bought(b) == Scanned("BUY", range[2] + cfg.spread * PT, b.l - cfg.sl_pts * PT, b, sess, cfg.quality)
<1>1. SessionSignals(df, d, range[1], range[2], bias, cfg, sess, sh, eh, short) =
        (UNION {Sold_(b) : b \in highs}) \cup (UNION {Bought(b) : b \in lows})
  BY DEF SessionSignals, FirstHit, SweepsHigh, SweepsLow
<1>2. CASE bias = "bearish"
  <2>1. lows = {}
    BY <1>2 DEF SweepsLow
  <2>2. \A j : Sweeps(df[j], range, bias, short) <=> SweepsHigh(df[j], range, bias, short)
    BY <1>2 DEF Sweeps, SweepsLow
  <2>3. highs = {df[j] : j \in FirstSweep(df, bars, range, bias, short)}
    BY <2>2 DEF FirstSweep
  <2>4. \A b : ScannedOf(b, range, bias, cfg, sess) = Sold_(b)
    BY <1>2 DEF ScannedOf
  <2> HIDE DEF highs, lows, Sold_, bars
  <2>5. (UNION {Sold_(b) : b \in highs}) \cup (UNION {Bought(b) : b \in lows}) = UNION {Sold_(b) : b \in highs}
    BY <2>1
  <2>6. UNION {Sold_(b) : b \in highs} = UNION {ScannedOf(df[j], range, bias, cfg, sess)
                                               : j \in FirstSweep(df, bars, range, bias, short)}
    BY <2>3, <2>4
  <2>7. QED BY <1>1, <2>5, <2>6 DEF bars, FoundIn
<1>3. CASE bias # "bearish"
  <2>1. highs = {}
    BY <1>3 DEF SweepsHigh
  <2>2. \A j : Sweeps(df[j], range, bias, short) <=> SweepsLow(df[j], range, bias)
    BY <1>3 DEF Sweeps, SweepsHigh
  <2>3. lows = {df[j] : j \in FirstSweep(df, bars, range, bias, short)}
    BY <2>2 DEF FirstSweep
  <2>4. \A b : ScannedOf(b, range, bias, cfg, sess) = Bought(b)
    BY <1>3 DEF ScannedOf
  <2> HIDE DEF highs, lows, Bought, bars
  <2>5. (UNION {Sold_(b) : b \in highs}) \cup (UNION {Bought(b) : b \in lows}) = UNION {Bought(b) : b \in lows}
    BY <2>1
  <2>6. UNION {Bought(b) : b \in lows} = UNION {ScannedOf(df[j], range, bias, cfg, sess)
                                               : j \in FirstSweep(df, bars, range, bias, short)}
    BY <2>3, <2>4
  <2>7. QED BY <1>1, <2>5, <2>6 DEF bars, FoundIn
<1>4. QED BY <1>2, <1>3

-----------------------------------------------------------------------------
(* What the buffer shows. *)

\* The buffer with the p-th bar of all.
LEMMA PrefixIs ==
  ASSUME NEW df \in Seq(BarType), NEW p \in 1 .. Len(df)
  PROVE  /\ SubSeq(df, 1, p) \in Seq(BarType) /\ SubSeq(df, 1, p) # <<>> /\ Len(SubSeq(df, 1, p)) = p
         /\ Last(SubSeq(df, 1, p)) = df[p]
         /\ \A j \in 1 .. p : SubSeq(df, 1, p)[j] = df[j]
<1>1. p \in Nat /\ p >= 1 /\ p <= Len(df) /\ Len(df) \in Nat
  BY LenProperties
<1>2. \A k \in 1 .. p : df[k] \in BarType
  <2>1. \A k \in 1 .. p : k \in 1 .. Len(df)
    BY <1>1
  <2>2. QED BY <2>1, ElementOfSeq
<1> DEFINE s == SubSeq(df, 1, p)
<1>3. /\ s \in Seq(BarType) /\ Len(s) = p - 1 + 1
      /\ \A j \in 1 .. p - 1 + 1 : s[j] = df[1 + j - 1]
  BY <1>1, <1>2, SubSeqProperties
<1> HIDE DEF s
<1>4. Len(s) = p /\ \A j \in 1 .. p : s[j] = df[j]
  <2>1. p - 1 + 1 = p /\ \A j \in 1 .. p : 1 + j - 1 = j
    BY <1>1
  <2>2. QED BY <1>3, <2>1
<1>5. Last(s) = df[p] /\ s # <<>>
  <2>1. p \in 1 .. p /\ p # 0
    BY <1>1
  <2>2. QED BY <1>3, <1>4, <2>1, EmptySeq DEF Last
<1>6. QED BY <1>3, <1>4, <1>5 DEF s

LEMMA BufferShows ==
  ASSUME NEW df \in Seq(BarType), df # <<>>
  PROVE  \E off \in 0 .. Len(df) - 1 :
           /\ off = 0 \/ off = Len(df) - history_bars
           /\ Len(Buffer(df)) = Len(df) - off
           /\ \A j \in 1 .. Len(df) - off : Buffer(df)[j] = df[off + j]
<1> DEFINE n == Len(df)
           m == Max({1, n - history_bars + 1})
<1>1. n \in Nat /\ n >= 1
  <2>1. n \in Nat /\ n # 0
    BY EmptySeq, LenProperties
  <2>2. QED BY <2>1
<1>2. history_bars \in Nat \ {0}
  BY DayAssumption
<1>3. m \in 1 .. n /\ (m = 1 \/ m = n - history_bars + 1)
  <2>1. m \in {1, n - history_bars + 1} /\ m >= 1
    <3>1. n - history_bars + 1 \in Int
      BY <1>1, <1>2
    <3> HIDE DEF n
    <3>2. QED BY <3>1 DEF Max
  <2> HIDE DEF m, n
  <2>2. QED BY <1>1, <1>2, <2>1
<1>4. \A k \in m .. n : df[k] \in BarType
  <2>1. \A k \in m .. n : k \in 1 .. Len(df)
    BY <1>1, <1>3
  <2>2. QED BY <2>1, ElementOfSeq
<1>5. Buffer(df) = SubSeq(df, m, n)
  BY DEF Buffer
<1> HIDE DEF m
<1>6. /\ Len(Buffer(df)) = n - m + 1
      /\ \A j \in 1 .. n - m + 1 : Buffer(df)[j] = df[m + j - 1]
  BY <1>1, <1>3, <1>4, <1>5, SubSeqProperties
<1> DEFINE off == m - 1
<1>7. off \in 0 .. n - 1 /\ (off = 0 \/ off = n - history_bars)
  BY <1>1, <1>2, <1>3
<1>8. n - off = n - m + 1 /\ \A j \in 1 .. n - off : off + j = m + j - 1
  BY <1>1, <1>3
<1> HIDE DEF off, n
<1>9. Len(Buffer(df)) = n - off /\ \A j \in 1 .. n - off : Buffer(df)[j] = df[off + j]
  BY <1>6, <1>8
<1>10. QED BY <1>7, <1>9 DEF n

LEMMA RangeType ==
  ASSUME NEW df \in Seq(BarType), NEW d, get_asian_range(df, d) # <<>>
  PROVE  get_asian_range(df, d) \in Int \X Int
<1> DEFINE W == AsianWindow(df, d)
<1>1. get_asian_range(df, d) = IF Cardinality(W) < 2 THEN <<>> ELSE Extent(df, W)
  BY DEF get_asian_range, AsianWindow, ASIAN_START, ASIAN_END, Extent
<1>2. W # {}
  <2>1. Cardinality({}) < 2
    BY FS_EmptySet
  <2> HIDE DEF W
  <2>2. QED BY <1>1, <2>1
<1>3. W \in SUBSET DOMAIN df
  BY DEF AsianWindow
<1> HIDE DEF W
<1>4. QED BY <1>1, <1>2, <1>3, ExtentIs

\* The range is that of the whole day, if the buffer shows all of it.
LEMMA RangeIs ==
  ASSUME NEW df \in Seq(BarType), NEW d, NEW p \in 1 .. Len(df), NEW off \in 0 .. p - 1,
         NEW buf \in Seq(BarType), Len(buf) = p - off,
         \A j \in 1 .. p - off : buf[j] = df[off + j],
         \A k \in AsianWindow(df, d) : off < k /\ k <= p
  PROVE  compute_asian_range(buf, d) = get_asian_range(df, d)
<1> DEFINE W == AsianWindow(df, d)
           V == AsianWindow(buf, d)
           f == [k \in V |-> off + k]
<1>1. /\ DOMAIN df = 1 .. Len(df) /\ DOMAIN buf = 1 .. p - off /\ Len(df) \in Nat
      /\ p \in Nat /\ off \in Nat /\ p <= Len(df) /\ off < p
  BY LenProperties
<1>2. \A k \in V : off + k \in W /\ buf[k] = df[off + k] /\ k \in 1 .. p - off
  <2> SUFFICES ASSUME NEW k \in V PROVE off + k \in W /\ buf[k] = df[off + k] /\ k \in 1 .. p - off
    OBVIOUS
  <2>1. k \in 1 .. p - off /\ ASIAN_START(d) <= buf[k].t /\ buf[k].t < ASIAN_END(d)
    BY <1>1 DEF AsianWindow
  <2>2. off + k \in 1 .. Len(df)
    BY <1>1, <2>1
  <2>3. QED BY <1>1, <2>1, <2>2 DEF AsianWindow
<1>3. \A n \in W : n - off \in V /\ off + (n - off) = n /\ buf[n - off] = df[n]
  <2> SUFFICES ASSUME NEW n \in W PROVE n - off \in V /\ off + (n - off) = n /\ buf[n - off] = df[n]
    OBVIOUS
  <2>1. n \in 1 .. Len(df) /\ ASIAN_START(d) <= df[n].t /\ df[n].t < ASIAN_END(d)
    BY <1>1 DEF AsianWindow
  <2>2. off < n /\ n <= p
    OBVIOUS
  <2>3. n - off \in 1 .. p - off /\ off + (n - off) = n
    BY <1>1, <2>1, <2>2
  <2>4. QED BY <1>1, <2>1, <2>3 DEF AsianWindow
<1>4. IsFiniteSet(V)
  <2>1. V \in SUBSET (1 .. p - off)
    BY <1>2
  <2>2. IsFiniteSet(1 .. p - off)
    BY <1>1, FS_Interval
  <2>3. QED BY <2>1, <2>2, FS_Subset
<1> HIDE DEF W, V
<1>5. Cardinality(V) = Cardinality(W)
  <2>1. f \in Bijection(V, W)
    <3>1. f \in [V -> W]
      BY <1>2
    <3>2. \A a, b \in V : f[a] = f[b] => a = b
      BY <1>1, <1>2
    <3>3. \A n \in W : \E k \in V : f[k] = n
      BY <1>3
    <3> HIDE DEF f
    <3>4. QED BY <3>1, <3>2, <3>3 DEF Bijection, Injection, Surjection, IsInjective
  <2>2. ExistsBijection(V, W)
    BY <2>1 DEF ExistsBijection
  <2>3. QED BY <1>4, <2>2, FS_Bijection
<1> DEFINE tops(bars, X) == {bars[n].h : n \in X}
           lows(bars, X) == {bars[n].l : n \in X}
<1>6. tops(df, W) = tops(buf, V) /\ lows(df, W) = lows(buf, V)
  <2>1. \A k \in V : \E n \in W : df[n] = buf[k]
    BY <1>2
  <2>2. \A n \in W : \E k \in V : df[n] = buf[k]
    BY <1>3
  <2>3. tops(df, W) = tops(buf, V)
    <3>1. ASSUME NEW x \in tops(df, W) PROVE x \in tops(buf, V)
      <4>1. PICK n \in W : x = df[n].h
        OBVIOUS
      <4>2. PICK k \in V : df[n] = buf[k]
        BY <2>2
      <4>3. x = buf[k].h
        BY <4>1, <4>2
      <4>4. QED BY <4>3
    <3>2. ASSUME NEW x \in tops(buf, V) PROVE x \in tops(df, W)
      <4>1. PICK k \in V : x = buf[k].h
        OBVIOUS
      <4>2. PICK n \in W : df[n] = buf[k]
        BY <2>1
      <4>3. x = df[n].h
        BY <4>1, <4>2
      <4>4. QED BY <4>3
    <3> HIDE DEF tops
    <3>3. QED BY <3>1, <3>2
  <2>4. lows(df, W) = lows(buf, V)
    <3>1. ASSUME NEW x \in lows(df, W) PROVE x \in lows(buf, V)
      <4>1. PICK n \in W : x = df[n].l
        OBVIOUS
      <4>2. PICK k \in V : df[n] = buf[k]
        BY <2>2
      <4>3. x = buf[k].l
        BY <4>1, <4>2
      <4>4. QED BY <4>3
    <3>2. ASSUME NEW x \in lows(buf, V) PROVE x \in lows(df, W)
      <4>1. PICK k \in V : x = buf[k].l
        OBVIOUS
      <4>2. PICK n \in W : df[n] = buf[k]
        BY <2>1
      <4>3. x = df[n].l
        BY <4>1, <4>2
      <4>4. QED BY <4>3
    <3> HIDE DEF lows
    <3>3. QED BY <3>1, <3>2
  <2>5. QED BY <2>3, <2>4
<1>7. get_asian_range(df, d) =
        IF Cardinality(W) < 2 THEN <<>> ELSE <<Max(tops(df, W)), Min(lows(df, W))>>
  BY DEF get_asian_range, W, AsianWindow, ASIAN_START, ASIAN_END
<1>8. compute_asian_range(buf, d) =
        IF Cardinality(V) < 2 THEN <<>> ELSE <<Max(tops(buf, V)), Min(lows(buf, V))>>
  BY DEF compute_asian_range, Extent, V
<1>9. compute_asian_range(buf, d) = get_asian_range(df, d)
  <2> HIDE DEF tops, lows
  <2>1. QED BY <1>5, <1>6, <1>7, <1>8
<1>10. QED BY <1>9

-----------------------------------------------------------------------------
(* What the live program was told of a pair, and what it made of it. *)

\* The positions of the bars that closed since the program began.
Fresh(i) == Len(setting.past[i]) + 1 .. Len(data[i].df)
\* The answer of the detector to the p-th bar of a pair.
Asked(df, i, p) == detect(Buffer(SubSeq(df, 1, p)), Pairs[i])

\* The bars of a day after h of its hours: first those from before the program
\* began, then one an hour, in the order of time.
ShownBy(df, past, d, h) ==
  /\ Len(df) >= Len(past) /\ Len(df) <= Len(past) + h /\ Len(df) <= Len(past) + Len(HourEvents)
  /\ \A n \in 1 .. Len(past) : df[n] = past[n]
  /\ \A p \in Len(past) + 1 .. Len(df) :
       /\ OnTheHour(d, df[p].t)
       /\ \A n \in Len(past) + 1 .. Len(df) : n < p => df[n].t < df[p].t
BarsKept(i) == data[i].sym = Pairs[i] /\ ShownBy(data[i].df, setting.past[i], D, hour)

\* Every ladder is of an answer, every answer has its ladder, and they are in
\* the order of time.
SignalsKept(i) ==
  /\ \A k \in DOMAIN ladders : ladders[k].pair = i =>
       \E p \in Fresh(i) : ladders[k].sig \in Asked(data[i].df, i, p)
  /\ \A p \in Fresh(i) : \A sig \in Asked(data[i].df, i, p) :
       \E k \in DOMAIN ladders : ladders[k].pair = i /\ ladders[k].sig = sig
  /\ \A j, k \in DOMAIN ladders :
       j < k /\ ladders[j].pair = i /\ ladders[k].pair = i => ladders[j].sig.at < ladders[k].sig.at

SeenInv ==
  /\ \A i \in DOMAIN Pairs : BarsKept(i) /\ SignalsKept(i)
  /\ book = IF DayOver THEN RunDay(data, D, setting.equity, setting.weak) ELSE NoBook

LEMMA PastOf ==
  ASSUME NEW x \in Settings, NEW i \in DOMAIN Pairs
  PROVE  /\ x.past[i] \in Seq(BarType) /\ Len(x.past[i]) \in Nat
         /\ DOMAIN x.past[i] = 1 .. Len(x.past[i])
         /\ Len(x.past[i]) >= min_bars_required
         /\ \A n \in 1 .. Len(x.past[i]) :
              /\ x.past[i][n].t < x.d * A_DAY + 360
              /\ x.past[i][n].t >= ASIAN_START(x.d) => Len(x.past[i]) - n + Len(HourEvents) < history_bars
         /\ Len(HourEvents) \in Nat /\ Len(HourEvents) <= history_bars
         /\ history_bars \in Nat /\ min_bars_required <= history_bars /\ min_bars_required \in Nat
<1>1. x.past[i] \in Seq(BarType)
  BY SettingOf
<1>2. Len(x.past[i]) \in Nat /\ DOMAIN x.past[i] = 1 .. Len(x.past[i])
  BY <1>1, LenProperties
<1>3. Len(HourEvents) \in Nat
  BY DayAssumption, LenProperties
<1>4. 6 * 60 = 360
  OBVIOUS
<1>5. QED BY <1>1, <1>2, <1>3, <1>4, DayAssumption, AverageAssumption

LEMMA SeenStarts == DayInit => SeenInv
<1> SUFFICES ASSUME DayInit PROVE SeenInv
  OBVIOUS
<1>1. /\ setting \in Settings /\ hour = 0 /\ ladders = <<>> /\ book = NoBook
      /\ data = [i \in DOMAIN Pairs |-> [sym |-> Pairs[i], df |-> setting.past[i]]]
  BY DEF DayInit
<1>2. DOMAIN ladders = {}
  BY <1>1
<1>3. ASSUME NEW i \in DOMAIN Pairs PROVE BarsKept(i) /\ SignalsKept(i)
  <2>1. data[i].sym = Pairs[i] /\ data[i].df = setting.past[i]
    BY <1>1
  <2>2. Len(setting.past[i]) \in Nat /\ Len(HourEvents) \in Nat
    BY <1>1, PastOf
  <2>3. Fresh(i) = {}
    BY <2>1, <2>2 DEF Fresh
  <2>4. BarsKept(i)
    BY <1>1, <2>1, <2>2 DEF BarsKept, ShownBy
  <2>5. QED BY <1>2, <2>3, <2>4 DEF SignalsKept
<1>4. ~ DayOver
  <2>1. Len(HourEvents) \in Nat
    BY DayAssumption, LenProperties
  <2>2. QED BY <1>1, <2>1 DEF DayOver
<1>5. QED BY <1>1, <1>3, <1>4 DEF SeenInv

LEMMA ShownMore ==
  ASSUME NEW df \in Seq(BarType), NEW past \in Seq(BarType), NEW d, NEW h \in Nat,
         ShownBy(df, past, d, h)
  PROVE  /\ ShownBy(df, past, d, h + 1)
         /\ \A bar \in BarType :
              h < Len(HourEvents) /\ OnTheHour(d, bar.t) /\ (\A n \in 1 .. Len(df) : df[n].t < bar.t)
              => ShownBy(Append(df, bar), past, d, h + 1)
<1> DEFINE n == Len(past)
           m == Len(df)
<1>1. n \in Nat /\ m \in Nat /\ Len(HourEvents) \in Nat
  BY DayAssumption, LenProperties
<1>2. /\ m >= n /\ m <= n + h /\ m <= n + Len(HourEvents)
      /\ \A j \in 1 .. n : df[j] = past[j]
      /\ \A p \in n + 1 .. m : /\ OnTheHour(d, df[p].t)
                              /\ \A j \in n + 1 .. m : j < p => df[j].t < df[p].t
  BY DEF ShownBy
<1>3. ShownBy(df, past, d, h + 1)
  <2>1. m <= n + (h + 1)
    <3> HIDE DEF m, n
    <3>1. QED BY <1>1, <1>2
  <2>2. QED BY <1>2, <2>1 DEF ShownBy
<1>4. ASSUME NEW bar \in BarType, h < Len(HourEvents), OnTheHour(d, bar.t),
             \A j \in 1 .. Len(df) : df[j].t < bar.t
      PROVE  ShownBy(Append(df, bar), past, d, h + 1)
  <2> DEFINE more == Append(df, bar)
  <2>1. Len(more) = m + 1 /\ more[m + 1] = bar /\ \A j \in 1 .. m : more[j] = df[j]
    BY AppendProperties
  <2>2. \A j \in 1 .. m : df[j].t < bar.t
    BY <1>4
  <2> HIDE DEF m, n, more
  <2>3. m + 1 >= n /\ m + 1 <= n + (h + 1) /\ m + 1 <= n + Len(HourEvents)
    BY <1>1, <1>2, <1>4
  <2>4. \A j \in 1 .. n : more[j] = past[j]
    <3>1. \A j \in 1 .. n : j \in 1 .. m
      BY <1>1, <1>2
    <3>2. QED BY <1>2, <2>1, <3>1
  <2>5. ASSUME NEW p \in n + 1 .. m + 1
        PROVE  /\ OnTheHour(d, more[p].t)
               /\ \A j \in n + 1 .. m + 1 : j < p => more[j].t < more[p].t
    <3>1. CASE p = m + 1
      <4>1. \A j \in n + 1 .. m + 1 : j < p => j \in 1 .. m
        BY <1>1, <3>1
      <4>2. QED BY <1>4, <2>1, <2>2, <3>1, <4>1
    <3>2. CASE p # m + 1
      <4>1. p \in n + 1 .. m /\ p \in 1 .. m
        BY <1>1, <3>2
      <4>2. more[p] = df[p] /\ OnTheHour(d, df[p].t)
        BY <1>2, <2>1, <4>1
      <4>3. ASSUME NEW j \in n + 1 .. m + 1, j < p PROVE more[j].t < more[p].t
        <5>1. j \in n + 1 .. m /\ j \in 1 .. m
          BY <1>1, <4>1, <4>3
        <5>2. more[j] = df[j] /\ df[j].t < df[p].t
          BY <1>2, <2>1, <4>1, <4>3, <5>1
        <5>3. QED BY <4>2, <5>2
      <4>4. QED BY <4>2, <4>3
    <3>3. QED BY <3>1, <3>2
  <2>6. QED BY <2>1, <2>3, <2>4, <2>5 DEF ShownBy, more, n
<1>5. QED BY <1>3, <1>4

\* A bar of one pair leaves what is kept of its earlier bars, and of other pairs.
LEMMA BarSeen ==
  ASSUME DayInv, MoverInv, HourBarCloses, NEW i \in DOMAIN Pairs, BarsKept(i), SignalsKept(i)
  PROVE  BarsKept(i)' /\ SignalsKept(i)'
<1> DEFINE df   == data[i].df
           past == setting.past[i]
           n    == Len(past)
           m    == Len(df)
<1>1. /\ hour \in Nat /\ hour' = hour + 1 /\ setting \in Settings /\ setting' = setting /\ D' = D
      /\ ladders \in Seq(LadderType) /\ ladders' \in Seq(LadderType)
      /\ data \in [DOMAIN Pairs -> [sym : DOMAIN PAIR_CONFIG, df : Seq(BarType)]]
  <2>1. DayInv'
    BY BarKeeps
  <2>2. ladders' \in Seq(LadderType)
    BY <2>1 DEF DayInv
  <2>3. hour' = hour + 1 /\ setting' = setting /\ D' = D
    BY DEF HourBarCloses, D
  <2>4. QED BY <2>2, <2>3 DEF DayInv
<1>2. PICK o \in DOMAIN Pairs, bar \in BarType : BarStored(o, bar) /\ Answered(o)
  BY BarKeeps
<1>3. \A k \in DOMAIN ladders : /\ k \in DOMAIN ladders'
                                /\ ladders'[k].pair = ladders[k].pair /\ ladders'[k].sig = ladders[k].sig
  BY BarKeeps DEF Kept
<1>4. /\ hour < Len(HourEvents) /\ o = HourEvents[hour + 1].pair
      /\ bar.t = D * A_DAY + HourEvents[hour + 1].at
      /\ data' = [data EXCEPT ![o].df = Append(data[o].df, bar)]
  BY <1>2 DEF BarStored
<1>5. df \in Seq(BarType) /\ past \in Seq(BarType) /\ n \in Nat /\ m \in Nat /\ Len(HourEvents) \in Nat
      /\ DOMAIN past = 1 .. n
  BY <1>1, PastOf, LenProperties
<1>6. DOMAIN ladders = 1 .. Len(ladders) /\ DOMAIN ladders' = 1 .. Len(ladders')
      /\ Len(ladders) \in Nat /\ Len(ladders') \in Nat
  BY <1>1, LenProperties
<1>7. data[i].sym = Pairs[i] /\ ShownBy(df, past, D, hour) /\ Fresh(i) = n + 1 .. m /\ m >= n
  BY DEF BarsKept, Fresh, ShownBy
<1>8. CASE i # o
  <2>1. data'[i] = data[i]
    BY <1>1, <1>4, <1>8
  <2>2. Fresh(i)' = Fresh(i)
    BY <1>1, <2>1 DEF Fresh
  <2>3. BarsKept(i)'
    <3>1. ShownBy(df, past, D, hour + 1)
      BY <1>1, <1>5, <1>7, ShownMore
    <3>2. QED BY <1>1, <1>7, <2>1, <3>1 DEF BarsKept
  <2>4. \A k \in DOMAIN ladders' : ladders'[k].pair = i => k \in DOMAIN ladders
    BY <1>2, <1>8 DEF Answered
  <2>5. SignalsKept(i)'
    <3>1. \A k \in DOMAIN ladders' : ladders'[k].pair = i =>
            k \in DOMAIN ladders /\ ladders[k].pair = i /\ ladders'[k].sig = ladders[k].sig
      BY <1>3, <2>4
    <3>2. \A k \in DOMAIN ladders : ladders[k].pair = i =>
            k \in DOMAIN ladders' /\ ladders'[k].pair = i /\ ladders'[k].sig = ladders[k].sig
      BY <1>3
    <3>3. QED BY <2>1, <2>2, <3>1, <3>2, Zenon DEF SignalsKept
  <2>6. QED BY <2>3, <2>5
<1>9. CASE i = o
  <2> DEFINE more   == Append(df, bar)
             answer == detect(Buffer(more), Pairs[i])
  <2>1. data'[i].df = more /\ data'[i].sym = data[i].sym
    BY <1>1, <1>4, <1>9
  <2>2. /\ more \in Seq(BarType) /\ Len(more) = m + 1 /\ more[m + 1] = bar
        /\ \A j \in 1 .. m : more[j] = df[j]
    BY <1>5, AppendProperties
  <2>3. \A j \in 1 .. m : df[j].t < bar.t
    <3>1. hour + 1 \in hour + 1 .. Len(HourEvents)
      BY <1>1, <1>4, <1>5
    <3>2. \A j \in DOMAIN df : df[j].t < D * A_DAY + HourEvents[hour + 1].at
      BY <1>4, <1>9, <3>1 DEF MoverInv, InOrder
    <3>3. QED BY <1>4, <1>5, <3>2, LenProperties
  <2>4. OnTheHour(D, bar.t)
    <3>1. hour + 1 \in 1 .. Len(HourEvents) /\ hour + 1 \in DOMAIN HourEvents
      <4>1. HourEvents \in Seq([at : Nat, pair : DOMAIN Pairs, bars : SUBSET BarType])
        BY DayAssumption
      <4>2. DOMAIN HourEvents = 1 .. Len(HourEvents)
        BY <4>1, LenProperties
      <4>3. QED BY <1>1, <1>4, <1>5, <4>2
    <3>2. /\ HourEvents[hour + 1].at \in Nat /\ HourEvents[hour + 1].at <= SESS_CLOSE
          /\ HourEvents[hour + 1].at % 60 = 0
      BY <3>1, EventOf, DayAssumption
    <3>3. HourEvents[hour + 1].at \in 0 .. SESS_CLOSE
      BY <3>2 DEF SESS_CLOSE
    <3>4. QED BY <1>4, <3>2, <3>3 DEF OnTheHour
  <2>6. Fresh(i)' = n + 1 .. m + 1
    BY <1>1, <2>1, <2>2 DEF Fresh
  <2>7. BarsKept(i)'
    <3>1. ShownBy(more, past, D, hour + 1)
      BY <1>1, <1>4, <1>5, <1>7, <2>3, <2>4, ShownMore
    <3>2. data'[i].sym = Pairs[i]
      BY <1>7, <2>1
    <3> HIDE DEF more
    <3>3. QED BY <1>1, <2>1, <3>1, <3>2 DEF BarsKept
  <2>8. /\ \A p \in Fresh(i) : Asked(more, i, p) = Asked(df, i, p)
        /\ Asked(more, i, m + 1) = answer
    <3>1. SubSeq(more, 1, m + 1) = more
      <4>1. m + 1 \in 1 .. Len(more)
        BY <1>5, <2>2
      <4> DEFINE s == SubSeq(more, 1, m + 1)
      <4> HIDE DEF more
      <4>2. s \in Seq(BarType) /\ Len(s) = Len(more) /\ \A j \in 1 .. Len(more) : s[j] = more[j]
        BY <2>2, <4>1, PrefixIs
      <4> HIDE DEF s
      <4>3. s = more
        BY <2>2, <4>2, SeqEqual
      <4>4. QED BY <4>3 DEF s
    <3>2. ASSUME NEW p \in Fresh(i) PROVE SubSeq(more, 1, p) = SubSeq(df, 1, p)
      <4>1. p \in 1 .. m /\ p \in 1 .. m + 1
        BY <1>5, <1>7
      <4> DEFINE s == SubSeq(more, 1, p)
                 r == SubSeq(df, 1, p)
      <4>2. s \in Seq(BarType) /\ Len(s) = p /\ \A j \in 1 .. p : s[j] = more[j]
        <5> HIDE DEF more
        <5>1. QED BY <2>2, <4>1, PrefixIs
      <4>3. r \in Seq(BarType) /\ Len(r) = p /\ \A j \in 1 .. p : r[j] = df[j]
        BY <1>5, <4>1, PrefixIs
      <4>4. \A j \in 1 .. p : j \in 1 .. m
        BY <1>5, <4>1
      <4> HIDE DEF s, r, more
      <4>5. s = r
        BY <2>2, <4>2, <4>3, <4>4, SeqEqual
      <4>6. QED BY <4>5 DEF s, r
    <3>3. QED BY <3>1, <3>2 DEF Asked
  <2>9. /\ \A p \in Fresh(i)' : p \in Fresh(i) \/ p = m + 1
        /\ \A p \in Fresh(i) : p \in Fresh(i)'
        /\ m + 1 \in Fresh(i)'
    <3> HIDE DEF n, m
    <3>1. QED BY <1>5, <1>7, <2>6
  <2>12. /\ Len(ladders') <= Len(ladders) + 1
         /\ \A k \in DOMAIN ladders' \ DOMAIN ladders : ladders'[k].pair = i /\ ladders'[k].sig \in answer
         /\ \A sig \in answer : \E k \in DOMAIN ladders' : ladders'[k].pair = i /\ ladders'[k].sig = sig
    BY <1>2, <1>9, <2>1 DEF Answered
  <2>13. \A sig \in answer : sig.at = bar.t
    <3>1. more # <<>> /\ Last(more) = bar
      BY <1>5, <2>2, EmptySeq DEF Last
    <3>2. Buffer(more) \in Seq(BarType) /\ Buffer(more) # <<>> /\ Last(Buffer(more)) = bar
      BY <2>2, <3>1, BufferIs
    <3>3. QED BY <3>2, PairOf, Detected
  <2>14. \A k \in DOMAIN ladders : ladders[k].pair = i => ladders[k].sig.at < bar.t
    <3>1. hour + 1 \in hour + 1 .. Len(HourEvents)
      BY <1>1, <1>4, <1>5
    <3>2. QED BY <1>4, <1>9, <3>1 DEF MoverInv, InOrder
  <2> HIDE DEF more, answer, df, past
  <2>15. ASSUME NEW k \in DOMAIN ladders', ladders'[k].pair = i
         PROVE  \E p \in Fresh(i)' : ladders'[k].sig \in Asked(more, i, p)
    <3>1. CASE k \in DOMAIN ladders
      <4>1. PICK p \in Fresh(i) : ladders[k].sig \in Asked(df, i, p)
        BY <1>3, <2>15, <3>1 DEF SignalsKept, df
      <4>2. QED BY <1>3, <2>8, <2>9, <3>1, <4>1
    <3>2. CASE k \notin DOMAIN ladders
      BY <2>8, <2>9, <2>12, <3>2
    <3>3. QED BY <3>1, <3>2
  <2>16. ASSUME NEW p \in Fresh(i)', NEW sig \in Asked(more, i, p)
         PROVE  \E k \in DOMAIN ladders' : ladders'[k].pair = i /\ ladders'[k].sig = sig
    <3>1. CASE p = m + 1
      BY <2>8, <2>12, <3>1
    <3>2. CASE p # m + 1
      <4>1. p \in Fresh(i) /\ sig \in Asked(df, i, p)
        BY <2>8, <2>9, <3>2
      <4>2. PICK k \in DOMAIN ladders : ladders[k].pair = i /\ ladders[k].sig = sig
        BY <4>1 DEF SignalsKept, df
      <4>3. QED BY <1>3, <4>2
    <3>3. QED BY <3>1, <3>2
  <2>17. ASSUME NEW j \in DOMAIN ladders', NEW k \in DOMAIN ladders',
                j < k, ladders'[j].pair = i, ladders'[k].pair = i
         PROVE  ladders'[j].sig.at < ladders'[k].sig.at
    <3>1. j \in DOMAIN ladders
      BY <1>6, <2>12, <2>17
    <3>2. ladders[j].pair = i /\ ladders'[j].sig = ladders[j].sig
      BY <1>3, <2>17, <3>1
    <3>3. CASE k \in DOMAIN ladders
      <4>1. ladders[k].pair = i /\ ladders'[k].sig = ladders[k].sig
        BY <1>3, <2>17, <3>3
      <4>2. QED BY <2>17, <3>1, <3>2, <3>3, <4>1 DEF SignalsKept
    <3>4. CASE k \notin DOMAIN ladders
      BY <2>12, <2>13, <2>14, <3>1, <3>2, <3>4
    <3>5. QED BY <3>3, <3>4
  <2>18. SignalsKept(i)'
    BY <2>1, <2>15, <2>16, <2>17 DEF SignalsKept
  <2>19. QED BY <2>7, <2>18
<1>10. QED BY <1>8, <1>9

LEMMA EndSeen ==
  ASSUME DayInv, SessionEnds, NEW i \in DOMAIN Pairs, BarsKept(i), SignalsKept(i)
  PROVE  BarsKept(i)' /\ SignalsKept(i)'
<1>1. /\ hour \in Nat /\ hour' = hour + 1 /\ setting \in Settings /\ setting' = setting /\ D' = D
      /\ data' = data /\ data[i].df \in Seq(BarType) /\ setting.past[i] \in Seq(BarType)
  <2>1. hour \in Nat /\ setting \in Settings /\ data[i].df \in Seq(BarType)
    BY DEF DayInv
  <2>2. hour' = hour + 1 /\ setting' = setting /\ data' = data /\ D' = D
    BY DEF SessionEnds, D
  <2>3. QED BY <2>1, <2>2, SettingOf
<1>2. DOMAIN ladders' = DOMAIN ladders
  BY DEF SessionEnds
<1>3. \A k \in DOMAIN ladders : ladders'[k].pair = ladders[k].pair /\ ladders'[k].sig = ladders[k].sig
  BY EndKeeps DEF Kept
<1>4. BarsKept(i)'
  <2>1. ShownBy(data[i].df, setting.past[i], D, hour + 1)
    BY <1>1, ShownMore DEF BarsKept
  <2>2. QED BY <1>1, <2>1 DEF BarsKept
<1>5. SignalsKept(i)'
  <2>1. Fresh(i)' = Fresh(i)
    BY <1>1 DEF Fresh
  <2>2. QED BY <1>1, <1>2, <1>3, <2>1, Zenon DEF SignalsKept
<1>6. QED BY <1>4, <1>5

LEMMA SeenKept == DayInv /\ MoverInv /\ SeenInv /\ [DayNext]_dayvars => SeenInv'
<1> SUFFICES ASSUME DayInv, MoverInv, SeenInv, [DayNext]_dayvars PROVE SeenInv'
  OBVIOUS
<1>1. hour \in Nat /\ Len(HourEvents) \in Nat
  BY DayAssumption, LenProperties DEF DayInv
<1>2. \A i \in DOMAIN Pairs : BarsKept(i) /\ SignalsKept(i)
  BY DEF SeenInv
<1>3. CASE HourBarCloses
  <2>1. \A i \in DOMAIN Pairs : BarsKept(i)' /\ SignalsKept(i)'
    BY <1>2, <1>3, BarSeen
  <2>2. ~ DayOver /\ ~ DayOver' /\ book' = book
    BY <1>1, <1>3 DEF HourBarCloses, DayOver
  <2>3. book' = NoBook
    BY <2>2 DEF SeenInv
  <2>4. QED BY <2>1, <2>2, <2>3 DEF SeenInv
<1>4. CASE SessionEnds
  <2>1. \A i \in DOMAIN Pairs : BarsKept(i)' /\ SignalsKept(i)'
    BY <1>2, <1>4, EndSeen
  <2>2. DayOver'
    BY <1>1, <1>4 DEF SessionEnds, DayOver
  <2>3. book' = RunDay(data', D', setting'.equity, setting'.weak)
    BY <1>4 DEF SessionEnds, D
  <2>4. QED BY <2>1, <2>2, <2>3 DEF SeenInv
<1>5. CASE UNCHANGED dayvars
  <2>1. /\ hour' = hour /\ data' = data /\ ladders' = ladders /\ D' = D
        /\ setting' = setting /\ book' = book
    BY <1>5 DEF dayvars, D
  <2>2. DayOver' <=> DayOver
    BY <2>1 DEF DayOver
  <2>3. book' = IF DayOver' THEN RunDay(data', D', setting'.equity, setting'.weak) ELSE NoBook
    BY <2>1, <2>2 DEF SeenInv
  <2>4. ASSUME NEW i \in DOMAIN Pairs PROVE BarsKept(i)' /\ SignalsKept(i)'
    <3>1. Fresh(i)' = Fresh(i)
      BY <2>1 DEF Fresh
    <3>2. BarsKept(i)'
      BY <1>2, <2>1 DEF BarsKept
    <3>3. SignalsKept(i)'
      <4>1. SignalsKept(i) /\ data' = data /\ ladders' = ladders
        BY <1>2, <2>1
      <4>2. QED BY <3>1, <4>1 DEF SignalsKept
    <3>4. QED BY <3>2, <3>3
  <2>5. QED BY <2>3, <2>4 DEF SeenInv
<1>6. QED BY <1>3, <1>4, <1>5 DEF DayNext, DayDone

LEMMA SeenAlways == DaySpec => []SeenInv
<1>1. QED BY SeenStarts, SeenKept, DayAlways, MoverAlways, PTL DEF DaySpec

-----------------------------------------------------------------------------
(* The answers of a session against its signals. *)

\* What the program was told of a pair since it began.
LEMMA FreshIs ==
  ASSUME DayInv, NEW i \in DOMAIN Pairs, BarsKept(i)
  PROVE  LET df == data[i].df  n == Len(setting.past[i]) IN
         /\ df \in Seq(BarType) /\ Len(df) \in Nat /\ DOMAIN df = 1 .. Len(df) /\ n \in Nat
         /\ Fresh(i) = n + 1 .. Len(df) /\ Fresh(i) \subseteq 1 .. Len(df) /\ D \in Nat
         /\ \A j \in 1 .. Len(df) : j \notin Fresh(i) => df[j].t < D * A_DAY + 360
         /\ \A j \in 1 .. Len(df) : /\ df[j] \in BarType /\ df[j].t \in Int
                                    /\ j \in Fresh(i) => OnTheHour(D, df[j].t)
         /\ \A p, q \in Fresh(i) : p < q <=> df[p].t < df[q].t
<1> DEFINE df == data[i].df
           past == setting.past[i]
           n == Len(past)
           m == Len(df)
<1>1. df \in Seq(BarType) /\ m \in Nat /\ DOMAIN df = 1 .. m /\ setting \in Settings
  BY LenProperties DEF DayInv
<1>2. n \in Nat /\ \A j \in 1 .. n : past[j].t < D * A_DAY + 360
  BY <1>1, PastOf DEF D
<1>3. D \in Nat
  BY <1>1, SettingOf DEF D
<1>4. /\ m >= n /\ \A j \in 1 .. n : df[j] = past[j]
      /\ \A p \in n + 1 .. m : /\ OnTheHour(D, df[p].t)
                               /\ \A j \in n + 1 .. m : j < p => df[j].t < df[p].t
  BY DEF BarsKept, ShownBy
<1>5. \A j \in 1 .. m : df[j] \in BarType
  BY <1>1, ElementOfSeq
<1>6. \A j \in 1 .. m : df[j].t \in Int
  BY <1>5 DEF BarType
<1>7. Fresh(i) = n + 1 .. m
  BY DEF Fresh
<1> HIDE DEF df, n, m
<1>8. Fresh(i) \subseteq 1 .. m /\ \A j \in 1 .. m : j \notin Fresh(i) => j \in 1 .. n
  BY <1>1, <1>2, <1>7
<1>9. \A j \in 1 .. m : j \notin Fresh(i) => df[j].t < D * A_DAY + 360
  BY <1>2, <1>4, <1>8
<1>10. ASSUME NEW p \in Fresh(i), NEW q \in Fresh(i) PROVE p < q <=> df[p].t < df[q].t
  <2>1. p \in Int /\ q \in Int /\ df[p].t \in Int /\ df[q].t \in Int
    BY <1>1, <1>6, <1>8
  <2>2. p < q => df[p].t < df[q].t
    BY <1>4, <1>7
  <2>3. q < p => df[q].t < df[p].t
    BY <1>4, <1>7
  <2>4. p = q \/ p < q \/ q < p
    BY <2>1
  <2>5. QED BY <2>1, <2>2, <2>3, <2>4
<1>11. \A j \in 1 .. m : j \in Fresh(i) => OnTheHour(D, df[j].t)
  BY <1>4, <1>7
<1>12. QED BY <1>1, <1>2, <1>3, <1>5, <1>6, <1>7, <1>8, <1>9, <1>10, <1>11 DEF df, n, m

\* With the p-th bar the buffer shows the range of the day, if it is in a session.
LEMMA RangeShown ==
  ASSUME DayInv, NEW i \in DOMAIN Pairs, BarsKept(i), NEW p \in Fresh(i),
         data[i].df[p].t >= D * A_DAY + 360
  PROVE  compute_asian_range(Buffer(SubSeq(data[i].df, 1, p)), D) = get_asian_range(data[i].df, D)
<1> DEFINE df == data[i].df
           past == setting.past[i]
           n == Len(past)
           m == Len(df)
           s == SubSeq(df, 1, p)
           buf == Buffer(s)
<1>1. /\ df \in Seq(BarType) /\ m \in Nat /\ DOMAIN df = 1 .. m /\ n \in Nat /\ D \in Nat
      /\ Fresh(i) = n + 1 .. m /\ p \in 1 .. m
      /\ \A j \in 1 .. m : df[j].t \in Int
      /\ \A a, b \in Fresh(i) : a < b <=> df[a].t < df[b].t
  BY FreshIs
<1>2. /\ Len(HourEvents) \in Nat /\ Len(HourEvents) <= history_bars /\ history_bars \in Nat
      /\ \A j \in 1 .. n : past[j].t >= ASIAN_START(D) => n - j + Len(HourEvents) < history_bars
  BY PastOf DEF DayInv, D
<1>3. m <= n + Len(HourEvents) /\ \A j \in 1 .. n : df[j] = past[j]
  BY DEF BarsKept, ShownBy
<1>4. s \in Seq(BarType) /\ s # <<>> /\ Len(s) = p /\ \A j \in 1 .. p : s[j] = df[j]
  BY <1>1, PrefixIs
<1> HIDE DEF s
<1>5. PICK off \in 0 .. p - 1 : /\ off = 0 \/ off = p - history_bars
                                /\ Len(buf) = p - off
                                /\ \A j \in 1 .. p - off : buf[j] = s[off + j]
  BY <1>4, BufferShows
<1>6. buf \in Seq(BarType)
  BY <1>4, BufferIs
<1> HIDE DEF buf
<1>7. \A j \in 1 .. p - off : buf[j] = df[off + j]
  <2>1. p \in Nat
    BY <1>1
  <2>2. \A j \in 1 .. p - off : off + j \in 1 .. p
    BY <2>1
  <2>3. QED BY <1>4, <1>5, <2>2
<1>8. ASSUME NEW k \in AsianWindow(df, D) PROVE off < k /\ k <= p
  <2>1. k \in 1 .. m /\ df[k].t >= ASIAN_START(D) /\ df[k].t < D * A_DAY + 30 /\ df[k].t \in Int
    BY <1>1 DEF AsianWindow, ASIAN_END, ASIAN_START, A_DAY
  <2>2. df[p].t \in Int /\ ~ (df[p].t < df[k].t)
    <3>1. df[p].t \in Int /\ df[p].t >= D * A_DAY + 360
      BY <1>1
    <3> HIDE DEF df
    <3>2. QED BY <1>1, <2>1, <3>1 DEF A_DAY
  <2> HIDE DEF df, past, n, m
  <2>3. k \in Int /\ k >= 1 /\ p \in n + 1 .. m
    BY <1>1, <2>1
  <2>4. CASE k \in 1 .. n
    <3>1. n - k + Len(HourEvents) < history_bars
      BY <1>2, <1>3, <2>1, <2>4
    <3>2. QED BY <1>1, <1>2, <1>3, <1>5, <2>3, <2>4, <3>1
  <2>5. CASE k \notin 1 .. n
    <3>1. k \in n + 1 .. m
      BY <1>1, <2>1, <2>5
    <3>2. ~ (p < k)
      BY <1>1, <2>2, <3>1
    <3>3. QED BY <1>1, <1>2, <1>3, <1>5, <2>3, <3>1, <3>2
  <2>6. QED BY <2>4, <2>5
<1>9. compute_asian_range(buf, D) = get_asian_range(df, D)
  <2> HIDE DEF df, m
  <2>1. p \in 1 .. Len(df)
    BY <1>1 DEF m
  <2>2. QED BY <1>1, <1>5, <1>6, <1>7, <1>8, <2>1, RangeIs
<1>10. QED BY <1>9 DEF buf, s

\* The answer to a bar of the day.
LEMMA AskedIs ==
  ASSUME DayInv, NEW i \in DOMAIN Pairs, BarsKept(i), NEW p \in Fresh(i),
         NEW b, b = data[i].df[p], NEW range, range = get_asian_range(data[i].df, D),
         NEW bias, bias = get_bias(Buffer(SubSeq(data[i].df, 1, p)), D)
  PROVE  Asked(data[i].df, i, p) =
           IF \/ Monday(D) \/ SessionOf(b.t) = "none" \/ range = <<>> \/ range[1] <= range[2]
              \/ ~ SizedRight(range, PAIR_CONFIG[Pairs[i]])
              \/ ~ Sweeps(b, range, bias, ShortAllowed(b.t))
           THEN {} ELSE BuiltOf(b, range, bias, PAIR_CONFIG[Pairs[i]])
<1> DEFINE df == data[i].df
           n == Len(setting.past[i])
           m == Len(df)
           s == SubSeq(df, 1, p)
           buf == Buffer(s)
<1>1. /\ df \in Seq(BarType) /\ m \in Nat /\ n \in Nat /\ D \in Nat
      /\ p \in n + 1 .. m /\ p \in 1 .. m /\ OnTheHour(D, b.t)
  BY FreshIs
<1>2. /\ n >= min_bars_required /\ history_bars >= min_bars_required
      /\ history_bars \in Nat /\ min_bars_required \in Nat
  BY PastOf DEF DayInv
<1>3. s \in Seq(BarType) /\ s # <<>> /\ Len(s) = p /\ Last(s) = b
  BY <1>1, PrefixIs
<1> HIDE DEF s
<1>4. PICK off \in 0 .. p - 1 : (off = 0 \/ off = p - history_bars) /\ Len(buf) = p - off
  BY <1>3, BufferShows
<1>5. buf \in Seq(BarType) /\ Last(buf) = b
  BY <1>3, BufferIs
<1> HIDE DEF buf, n, m, df
<1>6. ~ (Len(buf) < min_bars_required)
  BY <1>1, <1>2, <1>4
<1>7. DayOf(b.t) = D /\ (SessionOf(b.t) # "none" => b.t >= D * A_DAY + 360)
  BY <1>1, HoursOf
<1>8. compute_bias(buf, D) = bias /\ bias \in Biases
  BY <1>5, BiasIs DEF Biases, buf, s, df
<1> DEFINE shown == compute_asian_range(buf, D)
           cfg == PAIR_CONFIG[Pairs[i]]
<1>9. detect(buf, Pairs[i]) =
        IF \/ Len(buf) < min_bars_required \/ Monday(D) \/ SessionOf(b.t) = "none"
           \/ shown = <<>> \/ shown[1] <= shown[2] \/ ~ SizedRight(shown, cfg)
           \/ ~ Sweeps(b, shown, bias, ShortAllowed(b.t))
        THEN {} ELSE BuiltOf(b, shown, bias, cfg)
  BY <1>5, <1>7, <1>8, DetectIs
<1>10. SessionOf(b.t) # "none" => shown = range
  BY <1>7, RangeShown DEF buf, s, df
<1>11. Asked(data[i].df, i, p) = detect(buf, Pairs[i])
  BY DEF Asked, buf, s, df
<1> HIDE DEF shown, cfg
<1>12. QED BY <1>6, <1>9, <1>10, <1>11, Zenon DEF cfg

\* A session has one signal at most.
Single(S, q) == \A y \in S : S = {y} /\ y.q = q

LEMMA ScannedOne ==
  ASSUME NEW df \in Seq(BarType), NEW d, NEW ah, NEW al, NEW bias, bias \in Biases, NEW cfg,
         NEW sess, NEW sh, NEW eh, NEW short
  PROVE  Single(SessionSignals(df, d, ah, al, bias, cfg, sess, sh, eh, short), cfg.quality)
<1> DEFINE range == <<ah, al>>
           S == SessionSignals(df, d, ah, al, bias, cfg, sess, sh, eh, short)
<1>0. range[1] = ah /\ range[2] = al
  OBVIOUS
<1> SUFFICES ASSUME NEW y \in S PROVE S = {y} /\ y.q = cfg.quality
  BY DEF Single
<1> HIDE DEF range
<1> DEFINE F == FirstSweep(df, InSession(df, d, sh, eh), range, bias, short)
           Of(j) == ScannedOf(df[j], range, bias, cfg, sess)
<1>1. S = UNION {Of(j) : j \in F}
  <2>1. S = SessionSignals(df, d, range[1], range[2], bias, cfg, sess, sh, eh, short)
    BY <1>0
  <2> HIDE DEF S
  <2>2. S = FoundIn(df, InSession(df, d, sh, eh), range, bias, cfg, sess, short)
    BY <2>1, ScanIs
  <2>3. QED BY <2>2 DEF FoundIn
<1>2. \A j, k \in F : j = k
  <2>1. DOMAIN df = 1 .. Len(df)
    BY LenProperties
  <2>2. \A j \in F : j \in Int
    BY <2>1 DEF FirstSweep, InSession
  <2>3. \A j, k \in F : j <= k
    BY DEF FirstSweep
  <2> HIDE DEF F
  <2>4. QED BY <2>2, <2>3
<1>3. PICK j \in F : y \in Of(j)
  BY <1>1
<1>4. S = Of(j)
  <2> HIDE DEF F, S, Of
  <2>1. F = {j}
    BY <1>2, <1>3
  <2>2. QED BY <1>1, <2>1
<1>5. ASSUME NEW dir, NEW entry, NEW sl, y \in Scanned(dir, entry, sl, df[j], sess, cfg.quality)
      PROVE  Scanned(dir, entry, sl, df[j], sess, cfg.quality) = {y} /\ y.q = cfg.quality
  BY <1>5 DEF Scanned
<1>6. Of(j) = {y} /\ y.q = cfg.quality
  <2>1. CASE bias = "bearish"
    <3>1. Of(j) = Scanned("SELL", range[1] - cfg.spread * PT, df[j].h + cfg.sl_pts * PT, df[j],
                          sess, cfg.quality)
      BY <2>1 DEF ScannedOf
    <3> HIDE DEF Of
    <3>2. QED BY <1>3, <1>5, <3>1
  <2>2. CASE bias # "bearish"
    <3>1. Of(j) = Scanned("BUY", range[2] + cfg.spread * PT, df[j].l - cfg.sl_pts * PT, df[j],
                          sess, cfg.quality)
      BY <2>2 DEF ScannedOf
    <3> HIDE DEF Of
    <3>2. QED BY <1>3, <1>5, <3>1
  <2>3. QED BY <2>1, <2>2
<1>7. QED BY <1>4, <1>6

\* The first bars of a session that the detector answered to.
FirstAsked(i, sess) ==
  {p \in Fresh(i) :
     /\ SessionOf(data[i].df[p].t) = sess /\ Asked(data[i].df, i, p) # {}
     /\ \A q \in Fresh(i) : SessionOf(data[i].df[q].t) = sess /\ Asked(data[i].df, i, q) # {} => p <= q}

Sessions == {<<"LONDON", 6, 10, TRUE>>, <<"NY", 12, 15, FALSE>>}

\* The bars of a session are those that closed in it.
LEMMA InSessionIs ==
  ASSUME DayInv, NEW i \in DOMAIN Pairs, BarsKept(i),
         NEW sess, NEW sh, NEW eh, NEW short, <<sess, sh, eh, short>> \in Sessions
  PROVE  /\ InSession(data[i].df, D, sh, eh) = {p \in Fresh(i) : SessionOf(data[i].df[p].t) = sess}
         /\ sess # "none" /\ \A t : SessionOf(t) = sess => ShortAllowed(t) = short
<1> DEFINE df == data[i].df
           m == Len(df)
<1>1. /\ DOMAIN df = 1 .. m /\ Fresh(i) \subseteq 1 .. m /\ D \in Nat
      /\ \A j \in 1 .. m : j \notin Fresh(i) => df[j].t < D * A_DAY + 360
      /\ \A j \in 1 .. m : /\ df[j].t \in Int
                           /\ j \in Fresh(i) => OnTheHour(D, df[j].t)
  BY FreshIs
<1>2. \A j \in Fresh(i) :
        /\ SessionOf(df[j].t) = "LONDON" <=> df[j].t >= D * A_DAY + 360 /\ df[j].t <= D * A_DAY + 630
        /\ SessionOf(df[j].t) = "NY" <=> df[j].t >= D * A_DAY + 720 /\ df[j].t <= D * A_DAY + 930
  BY <1>1, HoursOf
<1> DEFINE from == D * A_DAY
<1>3. from \in Int
  BY <1>1 DEF A_DAY
<1>4. \/ sess = "LONDON" /\ sh = 6 /\ eh = 10 /\ short = TRUE
      \/ sess = "NY" /\ sh = 12 /\ eh = 15 /\ short = FALSE
  BY DEF Sessions
<1>5. sess # "none" /\ \A t : SessionOf(t) = sess => ShortAllowed(t) = short
  BY <1>4 DEF ShortAllowed
<1>6. InSession(df, D, sh, eh) =
        {j \in 1 .. m : df[j].t >= from + 60 * sh /\ df[j].t <= from + 60 * eh + 30}
  BY <1>1 DEF InSession
<1> HIDE DEF df, m, from
<1>7. CASE sess = "LONDON" /\ sh = 6 /\ eh = 10
  <2>1. ASSUME NEW j \in 1 .. m
        PROVE  (df[j].t >= from + 60 * sh /\ df[j].t <= from + 60 * eh + 30)
               <=> j \in Fresh(i) /\ SessionOf(df[j].t) = sess
    <3>1. from + 60 * sh = from + 360 /\ from + 60 * eh + 30 = from + 630 /\ df[j].t \in Int
      BY <1>1, <1>3, <1>7
    <3>2. j \notin Fresh(i) => df[j].t < from + 360
      BY <1>1 DEF from
    <3>3. j \in Fresh(i) => (SessionOf(df[j].t) = sess <=> df[j].t >= from + 360 /\ df[j].t <= from + 630)
      BY <1>2, <1>7 DEF from
    <3>4. QED BY <1>3, <3>1, <3>2, <3>3
  <2>2. QED BY <1>1, <1>5, <1>6, <2>1 DEF df
<1>8. CASE sess = "NY" /\ sh = 12 /\ eh = 15
  <2>1. ASSUME NEW j \in 1 .. m
        PROVE  (df[j].t >= from + 60 * sh /\ df[j].t <= from + 60 * eh + 30)
               <=> j \in Fresh(i) /\ SessionOf(df[j].t) = sess
    <3>1. from + 60 * sh = from + 720 /\ from + 60 * eh + 30 = from + 930 /\ df[j].t \in Int
      BY <1>1, <1>3, <1>8
    <3>2. j \notin Fresh(i) => df[j].t < from + 360
      BY <1>1 DEF from
    <3>3. j \in Fresh(i) => (SessionOf(df[j].t) = sess <=> df[j].t >= from + 720 /\ df[j].t <= from + 930)
      BY <1>2, <1>8 DEF from
    <3>4. QED BY <1>3, <3>1, <3>2, <3>3
  <2>2. QED BY <1>1, <1>5, <1>6, <2>1 DEF df
<1>9. QED BY <1>4, <1>7, <1>8

\* A range of the right size has some height.
LEMMA HighOverLow ==
  ASSUME NEW sym \in DOMAIN PAIR_CONFIG, NEW range, range \in Int \X Int,
         SizedRight(range, PAIR_CONFIG[sym])
  PROVE  ~ (range[1] <= range[2])
<1> DEFINE height == range[1] - range[2]
           least == PAIR_CONFIG[sym].min_r
<1>1. least \in Nat /\ least > 0
  BY PairAssumption
<1>2. height \in Int /\ range[1] \in Int /\ range[2] \in Int
  OBVIOUS
<1>3. height \div 10 >= least
  BY DEF SizedRight, PT
<1> HIDE DEF least
<1>4. height > 0
  <2> HIDE DEF height
  <2>1. QED BY <1>1, <1>2, <1>3
<1>5. QED BY <1>2, <1>4

\* Where the bias is the same, the signal of a session is of the first answer in it.
Matched(i, sess, S) ==
  /\ \A y \in S : \E p \in FirstAsked(i, sess) : \E x \in Asked(data[i].df, i, p) : Levels(x) = Levels(y)
  /\ \A p \in FirstAsked(i, sess) : \A x \in Asked(data[i].df, i, p) : \E y \in S : Levels(x) = Levels(y)

LEMMA SessionIs ==
  ASSUME DayInv, NEW i \in DOMAIN Pairs, BarsKept(i), SameBias(i), ~ Monday(D),
         NEW range, range = get_asian_range(data[i].df, D), range \in Int \X Int, range # <<>>,
         NEW ah, NEW al, ah = range[1], al = range[2], SizedRight(range, PAIR_CONFIG[Pairs[i]]),
         NEW sess, NEW sh, NEW eh, NEW short, <<sess, sh, eh, short>> \in Sessions
  PROVE  Matched(i, sess, SessionSignals(data[i].df, D, ah, al, get_bias(data[i].df, D),
                                         PAIR_CONFIG[Pairs[i]], sess, sh, eh, short))
<1> DEFINE df == data[i].df
           m == Len(df)
           cfg == PAIR_CONFIG[Pairs[i]]
           bias == get_bias(df, D)
           bars == InSession(df, D, sh, eh)
           S == SessionSignals(df, D, ah, al, bias, cfg, sess, sh, eh, short)
           Of(j) == ScannedOf(df[j], range, bias, cfg, sess)
           Swept(j) == Sweeps(df[j], range, bias, short)
<1>1. df \in Seq(BarType) /\ Fresh(i) \subseteq 1 .. m /\ \A j \in 1 .. m : df[j] \in BarType
  BY FreshIs
<1>2. bias \in Biases
  BY <1>1, BiasIs DEF Biases
<1>3. /\ bars = {p \in Fresh(i) : SessionOf(df[p].t) = sess}
      /\ sess # "none" /\ \A t : SessionOf(t) = sess => ShortAllowed(t) = short
  BY InSessionIs
<1>4. Pairs[i] \in DOMAIN PAIR_CONFIG /\ ~ (range[1] <= range[2])
  BY PairOf, HighOverLow
<1>5. cfg.spread \in Nat /\ cfg.sl_pts \in Nat /\ cfg.spread + cfg.sl_pts >= 3
  BY <1>4, PairAssumption
<1>6. ASSUME NEW p \in bars
      PROVE  Asked(df, i, p) = IF Swept(p) THEN BuiltOf(df[p], range, bias, cfg) ELSE {}
  <2>1. p \in Fresh(i) /\ SessionOf(df[p].t) = sess
    BY <1>3
  <2>2. get_bias(Buffer(SubSeq(df, 1, p)), D) = bias
    BY <1>3, <2>1 DEF SameBias, Fresh
  <2>3. ShortAllowed(df[p].t) = short
    BY <1>3, <2>1
  <2>4. Asked(df, i, p) =
          IF \/ Monday(D) \/ SessionOf(df[p].t) = "none" \/ range = <<>> \/ range[1] <= range[2]
             \/ ~ SizedRight(range, cfg) \/ ~ Sweeps(df[p], range, bias, ShortAllowed(df[p].t))
          THEN {} ELSE BuiltOf(df[p], range, bias, cfg)
    BY <2>1, <2>2, AskedIs
  <2> HIDE DEF df, cfg, bias
  <2>5. SizedRight(range, cfg)
    BY DEF cfg
  <2>6. QED BY <1>3, <1>4, <2>1, <2>3, <2>4, <2>5, Zenon
<1>7. ASSUME NEW p \in bars, Swept(p)
      PROVE  \E x, y : /\ BuiltOf(df[p], range, bias, cfg) = {x} /\ Of(p) = {y}
                       /\ Levels(x) = Levels(y)
  <2>1. df[p] \in BarType /\ SessionOf(df[p].t) = sess
    BY <1>1, <1>3
  <2> HIDE DEF df, cfg, bias, bars
  <2>2. range[1] \in Int /\ range[2] \in Int
    OBVIOUS
  <2>3. Paired(df[p], range, bias, cfg)
    BY <1>5, <1>7, <2>1, <2>2, SweptIs
  <2>4. QED BY <2>1, <2>3 DEF Paired
<1>8. \A p \in bars : Asked(df, i, p) # {} <=> Swept(p)
  <2> SUFFICES ASSUME NEW p \in bars PROVE Asked(df, i, p) # {} <=> Swept(p)
    OBVIOUS
  <2> HIDE DEF bars, Swept, df, cfg, bias, Of
  <2>1. CASE Swept(p)
    <3>1. PICK x : BuiltOf(df[p], range, bias, cfg) = {x}
      BY <1>7, <2>1
    <3>2. Asked(df, i, p) = {x}
      BY <1>6, <2>1, <3>1
    <3>3. QED BY <2>1, <3>2
  <2>2. CASE ~ Swept(p)
    BY <1>6, <2>2
  <2>3. QED BY <2>1, <2>2
<1>9. FirstSweep(df, bars, range, bias, short) = FirstAsked(i, sess)
  <2>1. \A q : q \in bars <=> q \in Fresh(i) /\ SessionOf(df[q].t) = sess
    BY <1>3
  <2> HIDE DEF bars
  <2>2. QED BY <1>8, <2>1 DEF FirstSweep, FirstAsked
<1>10. S = UNION {Of(j) : j \in FirstAsked(i, sess)}
  <2>1. S = SessionSignals(df, D, range[1], range[2], bias, cfg, sess, sh, eh, short)
    OBVIOUS
  <2>2. S = FoundIn(df, bars, range, bias, cfg, sess, short)
    BY <1>2, <2>1, ScanIs
  <2>3. QED BY <1>9, <2>2 DEF FoundIn
<1>11. \A p \in FirstAsked(i, sess) : p \in bars /\ Swept(p)
  BY <1>3, <1>8 DEF FirstAsked
<1> HIDE DEF df, m, cfg, bias, bars, S, Of, Swept
<1>12. ASSUME NEW y \in S
       PROVE  \E p \in FirstAsked(i, sess) : \E x \in Asked(df, i, p) : Levels(x) = Levels(y)
  <2>1. PICK p \in FirstAsked(i, sess) : y \in Of(p)
    BY <1>10
  <2>2. p \in bars /\ Swept(p)
    BY <1>11
  <2>3. Asked(df, i, p) = BuiltOf(df[p], range, bias, cfg)
    BY <1>6, <2>2
  <2>4. PICK x, z : BuiltOf(df[p], range, bias, cfg) = {x} /\ Of(p) = {z} /\ Levels(x) = Levels(z)
    BY <1>7, <2>2
  <2>5. x \in Asked(df, i, p) /\ z = y
    BY <2>1, <2>3, <2>4
  <2>6. QED BY <2>1, <2>4, <2>5
<1>13. ASSUME NEW p \in FirstAsked(i, sess), NEW x \in Asked(df, i, p)
       PROVE  \E y \in S : Levels(x) = Levels(y)
  <2>1. p \in bars /\ Swept(p)
    BY <1>11
  <2>2. Asked(df, i, p) = BuiltOf(df[p], range, bias, cfg)
    BY <1>6, <2>1
  <2>3. PICK z, y : BuiltOf(df[p], range, bias, cfg) = {z} /\ Of(p) = {y} /\ Levels(z) = Levels(y)
    BY <1>7, <2>1
  <2>4. y \in Of(p) /\ Levels(x) = Levels(y)
    BY <2>2, <2>3
  <2>5. QED BY <1>10, <2>4
<1>14. QED BY <1>12, <1>13 DEF Matched, S, df, bias, cfg

\* The signals of a pair as a set; the backtest lists them.
SignalsOf(of, d) ==
  LET range == get_asian_range(of.df, d)
      cfg   == PAIR_CONFIG[of.sym]
      Of(sess, sh, eh, short) == SessionSignals(of.df, d, range[1], range[2], get_bias(of.df, d), cfg,
                                                sess, sh, eh, short)
  IN  IF range = <<>> \/ ~ SizedRight(range, cfg) THEN {}
      ELSE Of("LONDON", 6, 10, TRUE) \cup Of("NY", 12, 15, FALSE)

LEMMA PairFound ==
  ASSUME DayInv, NEW i \in DOMAIN Pairs
  PROVE  /\ PairSignals(data[i], D) \in Seq(SignalsOf(data[i], D))
         /\ \A y \in SignalsOf(data[i], D) :
              /\ y.q \in Nat
              /\ \E k \in DOMAIN PairSignals(data[i], D) : PairSignals(data[i], D)[k] = y
<1> DEFINE of == data[i]
           range == get_asian_range(of.df, D)
           cfg == PAIR_CONFIG[of.sym]
           bias == get_bias(of.df, D)
           A == SessionSignals(of.df, D, range[1], range[2], bias, cfg, "LONDON", 6, 10, TRUE)
           B == SessionSignals(of.df, D, range[1], range[2], bias, cfg, "NY", 12, 15, FALSE)
           f == PairSignals(of, D)
           U == SignalsOf(of, D)
<1>1. of.df \in Seq(BarType) /\ cfg.quality \in Nat
  <2>1. of.df \in Seq(BarType) /\ of.sym \in DOMAIN PAIR_CONFIG
    BY DEF DayInv
  <2>2. QED BY <2>1, PairAssumption
<1>2. bias \in Biases
  BY <1>1, BiasIs DEF Biases
<1>3. (\A y \in A : A = {y} /\ y.q = cfg.quality) /\ (\A y \in B : B = {y} /\ y.q = cfg.quality)
  <2> DEFINE ah == range[1]
             al == range[2]
  <2> HIDE DEF of, range, cfg, bias, ah, al
  <2>1. Single(SessionSignals(of.df, D, ah, al, bias, cfg, "LONDON", 6, 10, TRUE), cfg.quality)
    BY <1>1, <1>2, ScannedOne
  <2>2. Single(SessionSignals(of.df, D, ah, al, bias, cfg, "NY", 12, 15, FALSE), cfg.quality)
    BY <1>1, <1>2, ScannedOne
  <2>3. QED BY <2>1, <2>2 DEF Single, ah, al
<1>4. U = IF range = <<>> \/ ~ SizedRight(range, cfg) THEN {} ELSE A \cup B
  BY DEF SignalsOf
<1>5. f = IF range = <<>> \/ ~ SizedRight(range, cfg) THEN <<>> ELSE SetToSeq(A) \o SetToSeq(B)
  BY DEF PairSignals, scan_signals, SizedRight
<1> HIDE DEF A, B, f, U, range, cfg
<1>6. CASE range = <<>> \/ ~ SizedRight(range, cfg)
  <2>1. U = {} /\ f = <<>>
    BY <1>4, <1>5, <1>6
  <2>2. QED BY <2>1 DEF f, U
<1>7. CASE ~ (range = <<>> \/ ~ SizedRight(range, cfg))
  <2> DEFINE a == SetToSeq(A)
             b == SetToSeq(B)
  <2>1. U = A \cup B /\ f = a \o b
    BY <1>4, <1>5, <1>7
  <2>2. /\ a \in Seq(A) /\ \A y \in A : Len(a) = 1 /\ a[1] = y
        /\ b \in Seq(B) /\ \A y \in B : Len(b) = 1 /\ b[1] = y
    BY <1>3, AsSequence
  <2>3. a \in Seq(U) /\ b \in Seq(U)
    BY <2>1, <2>2, SeqMonotonic
  <2> HIDE DEF a, b
  <2>4. /\ f \in Seq(U) /\ Len(f) = Len(a) + Len(b) /\ Len(a) \in Nat /\ Len(b) \in Nat
        /\ \A k \in 1 .. Len(a) + Len(b) : f[k] = IF k <= Len(a) THEN a[k] ELSE b[k - Len(a)]
    BY <2>1, <2>3, ConcatProperties, LenProperties
  <2>5. DOMAIN f = 1 .. Len(a) + Len(b)
    BY <2>4, LenProperties
  <2>6. ASSUME NEW y \in A PROVE \E k \in DOMAIN f : f[k] = y
    <3>1. Len(a) = 1 /\ a[1] = y
      BY <2>2
    <3>2. 1 \in DOMAIN f /\ f[1] = a[1]
      BY <2>4, <2>5, <3>1
    <3>3. QED BY <3>1, <3>2
  <2>7. ASSUME NEW y \in B PROVE \E k \in DOMAIN f : f[k] = y
    <3>1. Len(b) = 1 /\ b[1] = y
      BY <2>2
    <3> DEFINE k == Len(a) + 1
    <3>2. k \in 1 .. Len(a) + Len(b) /\ ~ (k <= Len(a)) /\ k - Len(a) = 1
      BY <2>4, <3>1
    <3> HIDE DEF k
    <3>3. k \in DOMAIN f /\ f[k] = b[1]
      BY <2>4, <2>5, <3>2
    <3>4. QED BY <3>1, <3>3
  <2>8. \A y \in U : y.q \in Nat /\ \E k \in DOMAIN f : f[k] = y
    BY <1>1, <1>3, <2>1, <2>6, <2>7
  <2>9. QED BY <2>4, <2>8 DEF f, U
<1>8. QED BY <1>6, <1>7

\* What is found with the whole day known is what was answered first in its sessions.
Leading(i) == FirstAsked(i, "LONDON") \cup FirstAsked(i, "NY")
LEMMA FoundIs ==
  ASSUME DayInv, NEW i \in DOMAIN Pairs, BarsKept(i), SameBias(i), ~ Monday(D)
  PROVE  /\ \A y \in SignalsOf(data[i], D) :
              \E p \in Leading(i) : \E x \in Asked(data[i].df, i, p) : Levels(x) = Levels(y)
         /\ \A p \in Leading(i) : \A x \in Asked(data[i].df, i, p) :
              \E y \in SignalsOf(data[i], D) : Levels(x) = Levels(y)
<1> DEFINE df == data[i].df
           range == get_asian_range(df, D)
           cfg == PAIR_CONFIG[Pairs[i]]
           bias == get_bias(df, D)
           A == SessionSignals(df, D, range[1], range[2], bias, cfg, "LONDON", 6, 10, TRUE)
           B == SessionSignals(df, D, range[1], range[2], bias, cfg, "NY", 12, 15, FALSE)
           U == SignalsOf(data[i], D)
<1>1. df \in Seq(BarType) /\ data[i].sym = Pairs[i]
  BY DEF DayInv, BarsKept
<1>2. U = IF range = <<>> \/ ~ SizedRight(range, cfg) THEN {} ELSE A \cup B
  BY <1>1 DEF SignalsOf
<1>3. CASE range = <<>> \/ ~ SizedRight(range, cfg)
  <2>1. U = {}
    BY <1>2, <1>3
  <2>2. ASSUME NEW p \in Fresh(i) PROVE Asked(df, i, p) = {}
    <3> DEFINE b == df[p]
               lean == get_bias(Buffer(SubSeq(df, 1, p)), D)
    <3>1. Asked(df, i, p) =
            IF \/ Monday(D) \/ SessionOf(b.t) = "none" \/ range = <<>> \/ range[1] <= range[2]
               \/ ~ SizedRight(range, cfg) \/ ~ Sweeps(b, range, lean, ShortAllowed(b.t))
            THEN {} ELSE BuiltOf(b, range, lean, cfg)
      BY AskedIs
    <3> HIDE DEF range, cfg, b, lean, df
    <3>2. QED BY <1>3, <3>1, Zenon
  <2>3. Leading(i) = {}
    BY <2>2 DEF Leading, FirstAsked
  <2>4. QED BY <2>1, <2>3
<1>4. CASE ~ (range = <<>> \/ ~ SizedRight(range, cfg))
  <2>1. range # <<>> /\ SizedRight(range, cfg) /\ range \in Int \X Int
    BY <1>1, <1>4, RangeType
  <2>2. U = A \cup B
    BY <1>2, <1>4
  <2>3. <<"LONDON", 6, 10, TRUE>> \in Sessions /\ <<"NY", 12, 15, FALSE>> \in Sessions
    BY DEF Sessions
  <2>4. Matched(i, "LONDON", A) /\ Matched(i, "NY", B)
    <3> DEFINE ah == range[1]
               al == range[2]
    <3>1. get_asian_range(df, D) = range /\ get_bias(df, D) = bias
      OBVIOUS
    <3> HIDE DEF range, ah, al
    <3>2. ah = range[1] /\ al = range[2]
      BY DEF ah, al
    <3>3. Matched(i, "LONDON", SessionSignals(df, D, ah, al, bias, cfg, "LONDON", 6, 10, TRUE))
      BY <2>1, <2>3, <3>1, <3>2, SessionIs
    <3>4. Matched(i, "NY", SessionSignals(df, D, ah, al, bias, cfg, "NY", 12, 15, FALSE))
      BY <2>1, <2>3, <3>1, <3>2, SessionIs
    <3>5. QED BY <3>3, <3>4 DEF ah, al
  <2> HIDE DEF A, B, U, df
  <2>6. \A y \in U : \E p \in Leading(i) : \E x \in Asked(df, i, p) : Levels(x) = Levels(y)
    BY <2>2, <2>4 DEF Leading, Matched, df
  <2>7. \A p \in Leading(i) : \A x \in Asked(df, i, p) : \E y \in U : Levels(x) = Levels(y)
    BY <2>2, <2>4 DEF Leading, Matched, df
  <2>8. QED BY <2>6, <2>7 DEF U, df
<1>5. QED BY <1>3, <1>4

\* An answer is of its bar, on a day and in an hour that are traded.
LEMMA AnswerOf ==
  ASSUME DayInv, NEW i \in DOMAIN Pairs, BarsKept(i), NEW p \in Fresh(i), NEW x \in Asked(data[i].df, i, p)
  PROVE  /\ x.at = data[i].df[p].t /\ x.session = SessionOf(data[i].df[p].t)
         /\ x.session \in {"LONDON", "NY"} /\ ~ Monday(D)
<1> DEFINE df == data[i].df
           b == df[p]
           s == SubSeq(df, 1, p)
           range == get_asian_range(df, D)
           lean == get_bias(Buffer(s), D)
           cfg == PAIR_CONFIG[Pairs[i]]
<1>1. df \in Seq(BarType) /\ p \in 1 .. Len(df) /\ OnTheHour(D, b.t) /\ D \in Nat
  BY FreshIs
<1>2. s \in Seq(BarType) /\ s # <<>> /\ Last(s) = b
  BY <1>1, PrefixIs
<1>3. Buffer(s) \in Seq(BarType) /\ Buffer(s) # <<>> /\ Last(Buffer(s)) = b
  BY <1>2, BufferIs
<1>4. x.at = b.t /\ x.session = SessionOf(b.t)
  <2>1. x \in detect(Buffer(s), Pairs[i]) /\ Pairs[i] \in DOMAIN PAIR_CONFIG
    BY PairOf DEF Asked
  <2>2. QED BY <1>3, <2>1, Detected
<1>5. Asked(df, i, p) =
        IF \/ Monday(D) \/ SessionOf(b.t) = "none" \/ range = <<>> \/ range[1] <= range[2]
           \/ ~ SizedRight(range, cfg) \/ ~ Sweeps(b, range, lean, ShortAllowed(b.t))
        THEN {} ELSE BuiltOf(b, range, lean, cfg)
  BY AskedIs
<1>6. ~ Monday(D) /\ SessionOf(b.t) # "none"
  <2>1. Asked(df, i, p) # {}
    OBVIOUS
  <2> HIDE DEF range, cfg, b, lean, df
  <2>2. QED BY <1>5, <2>1, Zenon
<1>7. SessionOf(b.t) \in {"LONDON", "NY", "none"}
  <2> DEFINE t == b.t
  <2>1. OnTheHour(D, t) /\ D \in Nat
    BY <1>1
  <2> HIDE DEF t
  <2>2. SessionOf(t) \in {"LONDON", "NY", "none"}
    BY <2>1, HoursOf
  <2>3. QED BY <2>2 DEF t
<1>8. QED BY <1>4, <1>6, <1>7

\* The first ladders of the sessions are of the first answers.
LEMMA LiveIs ==
  ASSUME DayInv, NEW i \in DOMAIN Pairs, BarsKept(i), SignalsKept(i)
  PROVE  /\ \A x \in FirstOfSession(i) : \E p \in Leading(i) : x \in Asked(data[i].df, i, p)
         /\ \A p \in Leading(i) : \A x \in Asked(data[i].df, i, p) : x \in FirstOfSession(i)
<1> DEFINE df == data[i].df
<1>1. /\ \A a, b \in Fresh(i) : a < b <=> df[a].t < df[b].t
      /\ \A a \in Fresh(i) : a \in Int /\ df[a].t \in Int
  <2>1. Fresh(i) \subseteq 1 .. Len(df)
    BY FreshIs
  <2>2. QED BY <2>1, FreshIs
<1>2. \A k \in DOMAIN ladders : ladders[k].pair = i =>
        \E p \in Fresh(i) : ladders[k].sig \in Asked(df, i, p)
  BY DEF SignalsKept
<1>3. \A p \in Fresh(i) : \A sig \in Asked(df, i, p) :
        \E k \in DOMAIN ladders : ladders[k].pair = i /\ ladders[k].sig = sig
  BY DEF SignalsKept
<1>4. \A j, k \in DOMAIN ladders :
        j < k /\ ladders[j].pair = i /\ ladders[k].pair = i => ladders[j].sig.at < ladders[k].sig.at
  BY DEF SignalsKept
<1>5. \A p \in Fresh(i) : \A x \in Asked(df, i, p) :
        /\ x.at = df[p].t /\ x.session = SessionOf(df[p].t) /\ x.session \in {"LONDON", "NY"}
  BY AnswerOf
<1>6. DOMAIN ladders = 1 .. Len(ladders) /\ Len(ladders) \in Nat
  BY LenProperties DEF DayInv
<1>7. FirstOfSession(i) =
        {ladders[k].sig : k \in {m \in DOMAIN ladders :
           /\ ladders[m].pair = i
           /\ \A j \in 1 .. m - 1 : ladders[j].pair = i => ladders[j].sig.session # ladders[m].sig.session}}
  BY DEF FirstOfSession
<1> HIDE DEF df
<1>8. ASSUME NEW x \in FirstOfSession(i)
      PROVE  \E p \in Leading(i) : x \in Asked(df, i, p)
  <2>1. PICK m \in DOMAIN ladders :
          /\ x = ladders[m].sig /\ ladders[m].pair = i
          /\ \A j \in 1 .. m - 1 : ladders[j].pair = i => ladders[j].sig.session # ladders[m].sig.session
    BY <1>7
  <2>2. PICK p \in Fresh(i) : x \in Asked(df, i, p)
    BY <1>2, <2>1
  <2>3. ASSUME NEW q \in Fresh(i), SessionOf(df[q].t) = SessionOf(df[p].t), Asked(df, i, q) # {}
        PROVE  p <= q
    <3> SUFFICES ASSUME q < p PROVE FALSE
      BY <1>1
    <3>1. PICK y \in Asked(df, i, q) : TRUE
      BY <2>3
    <3>2. PICK j \in DOMAIN ladders : ladders[j].pair = i /\ ladders[j].sig = y
      BY <1>3, <3>1
    <3>3. y.at < x.at /\ y.session = x.session /\ x.at \in Int /\ y.at \in Int
      BY <1>1, <1>5, <2>2, <2>3, <3>1
    <3>4. ~ (m < j) /\ m # j
      BY <1>4, <2>1, <3>2, <3>3
    <3>5. j \in 1 .. m - 1
      BY <1>6, <3>4
    <3>6. QED BY <2>1, <3>2, <3>3, <3>5
  <2>4. p \in Leading(i)
    BY <1>5, <2>2, <2>3 DEF Leading, FirstAsked, df
  <2>5. QED BY <2>2, <2>4
<1>9. ASSUME NEW p \in Leading(i), NEW x \in Asked(df, i, p)
      PROVE  x \in FirstOfSession(i)
  <2>1. /\ p \in Fresh(i)
        /\ \A q \in Fresh(i) : SessionOf(df[q].t) = SessionOf(df[p].t) /\ Asked(df, i, q) # {} => p <= q
    BY DEF Leading, FirstAsked, df
  <2>2. PICK m \in DOMAIN ladders : ladders[m].pair = i /\ ladders[m].sig = x
    BY <1>3, <2>1
  <2>3. ASSUME NEW j \in 1 .. m - 1, ladders[j].pair = i, ladders[j].sig.session = x.session
        PROVE  FALSE
    <3>1. j \in DOMAIN ladders /\ j < m
      BY <1>6
    <3>2. PICK q \in Fresh(i) : ladders[j].sig \in Asked(df, i, q)
      BY <1>2, <2>3, <3>1
    <3>3. ladders[j].sig.at < x.at
      BY <1>4, <2>2, <2>3, <3>1
    <3>4. df[q].t < df[p].t /\ SessionOf(df[q].t) = SessionOf(df[p].t)
      BY <1>5, <2>1, <2>3, <3>2, <3>3
    <3>5. q < p /\ p <= q /\ p \in Int /\ q \in Int
      BY <1>1, <2>1, <3>2, <3>4
    <3>6. QED BY <3>5
  <2>4. QED BY <1>7, <2>2, <2>3
<1>10. QED BY <1>8, <1>9 DEF df

-----------------------------------------------------------------------------
(* The list of the day: one part after the other. *)

\* What is in a list of lists.
FlatOf(parts, all) ==
  /\ \A k \in DOMAIN all : \E i \in DOMAIN parts : \E n \in DOMAIN parts[i] : all[k] = parts[i][n]
  /\ \A i \in DOMAIN parts : \A n \in DOMAIN parts[i] : \E k \in DOMAIN all : all[k] = parts[i][n]

LEMMA FlatMore ==
  ASSUME NEW E, NEW parts \in Seq(Seq(E)), NEW more \in Seq(E), NEW all \in Seq(E), FlatOf(parts, all)
  PROVE  all \o more \in Seq(E) /\ FlatOf(Append(parts, more), all \o more)
<1> DEFINE m == Len(all)
           x == Len(more)
           n == Len(parts)
           most == all \o more
           longer == Append(parts, more)
<1>1. /\ m \in Nat /\ x \in Nat /\ n \in Nat
      /\ DOMAIN all = 1 .. m /\ DOMAIN more = 1 .. x /\ DOMAIN parts = 1 .. n
  BY LenProperties
<1>2. /\ most \in Seq(E) /\ Len(most) = m + x
      /\ \A k \in 1 .. m + x : most[k] = IF k <= m THEN all[k] ELSE more[k - m]
  BY ConcatProperties
<1>3. DOMAIN most = 1 .. m + x
  BY <1>2, LenProperties
<1>4. /\ DOMAIN longer = 1 .. n + 1
      /\ \A i \in 1 .. n : longer[i] = parts[i]
      /\ longer[n + 1] = more
  BY <1>1, AppendProperties, LenProperties
<1> HIDE DEF m, x, n, most, longer
<1>5. ASSUME NEW k \in 1 .. m + x
      PROVE  \E i \in DOMAIN longer : \E j \in DOMAIN longer[i] : most[k] = longer[i][j]
  <2>1. CASE k <= m
    <3>1. k \in DOMAIN all /\ most[k] = all[k]
      BY <1>1, <1>2, <2>1
    <3>2. PICK i \in 1 .. n : \E j \in DOMAIN parts[i] : all[k] = parts[i][j]
      BY <1>1, <3>1 DEF FlatOf
    <3>3. i \in DOMAIN longer /\ longer[i] = parts[i]
      BY <1>1, <1>4
    <3>4. QED BY <3>1, <3>2, <3>3
  <2>2. CASE ~ (k <= m)
    <3> DEFINE j == k - m
    <3>1. j \in DOMAIN more /\ most[k] = more[j]
      BY <1>1, <1>2, <2>2
    <3>2. n + 1 \in DOMAIN longer /\ longer[n + 1] = more
      BY <1>1, <1>4
    <3> HIDE DEF j
    <3>3. QED BY <3>1, <3>2
  <2>3. QED BY <2>1, <2>2
<1>6. ASSUME NEW i \in 1 .. n + 1, NEW j \in DOMAIN longer[i]
      PROVE  \E k \in DOMAIN most : most[k] = longer[i][j]
  <2>1. CASE i \in 1 .. n
    <3>1. longer[i] = parts[i]
      BY <1>4, <2>1
    <3>0. i \in DOMAIN parts /\ j \in DOMAIN parts[i]
      BY <1>1, <2>1, <3>1
    <3>2. PICK k \in DOMAIN all : all[k] = parts[i][j]
      BY <3>0 DEF FlatOf
    <3>3. k \in 1 .. m + x /\ k <= m
      BY <1>1
    <3>4. k \in DOMAIN most /\ most[k] = all[k]
      BY <1>2, <1>3, <3>3
    <3>5. QED BY <3>1, <3>2, <3>4
  <2>2. CASE i = n + 1
    <3> DEFINE k == m + j
    <3>1. longer[i] = more /\ j \in 1 .. x
      BY <1>1, <1>4, <2>2
    <3>2. k \in 1 .. m + x /\ ~ (k <= m) /\ k - m = j
      BY <1>1, <3>1
    <3> HIDE DEF k
    <3>3. k \in DOMAIN most /\ most[k] = more[j]
      BY <1>2, <1>3, <3>2
    <3>4. QED BY <3>1, <3>3
  <2>3. QED BY <1>1, <2>1, <2>2
<1>7. FlatOf(longer, most)
  BY <1>3, <1>4, <1>5, <1>6 DEF FlatOf
<1>8. QED BY <1>2, <1>7 DEF most, longer

LEMMA FlatIs ==
  ASSUME NEW E, NEW parts \in Seq(Seq(E))
  PROVE  Extending!Fold(<<>>, parts) \in Seq(E) /\ FlatOf(parts, Extending!Fold(<<>>, parts))
<1> DEFINE T == {s \in Seq(Seq(E)) : /\ Extending!Fold(<<>>, s) \in Seq(E)
                                     /\ FlatOf(s, Extending!Fold(<<>>, s))}
<1>1. <<>> \in T
  <2>1. Extending!Fold(<<>>, <<>>) = <<>>
    BY Extending!FoldNone
  <2>2. FlatOf(<<>>, <<>>) /\ <<>> \in Seq(E) /\ <<>> \in Seq(Seq(E))
    BY DEF FlatOf
  <2>3. QED BY <2>1, <2>2
<1>2. ASSUME NEW s \in Seq(Seq(E)), NEW e \in Seq(E), s \in T PROVE Append(s, e) \in T
  <2> DEFINE all == Extending!Fold(<<>>, s)
             longer == Append(s, e)
  <2>1. Extending!Fold(<<>>, longer) = all \o e
    BY Extending!FoldMore DEF Extended
  <2>2. all \in Seq(E) /\ FlatOf(s, all)
    BY <1>2
  <2>3. longer \in Seq(Seq(E))
    BY AppendProperties
  <2> HIDE DEF all
  <2>4. all \o e \in Seq(E) /\ FlatOf(longer, all \o e)
    BY <2>2, FlatMore
  <2> HIDE DEF longer
  <2>5. longer \in T
    BY <2>1, <2>3, <2>4
  <2> HIDE DEF T
  <2>6. QED BY <2>5 DEF longer
<1>3. Seq(Seq(E)) \subseteq T
  <2> HIDE DEF T
  <2> QED BY <1>1, <1>2, Extending!AllSequences
<1>4. QED BY <1>3

LEMMA DaySignalsIs ==
  \A of, d : DaySignals(of, d) = Extending!Fold(<<>>,
    [i \in DOMAIN of |-> LET found == PairSignals(of[i], d)
                         IN  [k \in DOMAIN found |-> [pair |-> i, of |-> of[i], sig |-> found[k]]]])
BY DEF DaySignals, FoldLeft, MapThenFoldSet, Max, Extending!Fold, Extending!FoldLeft,
       Extending!MapThenFoldSet, Extending!Max

\* A function on the first numbers is a sequence.
LEMMA IsSequence ==
  ASSUME NEW n \in Nat, NEW S, NEW s \in [1 .. n -> S]
  PROVE  s \in Seq(S)
BY SeqDef

\* The signals of the day are those of the pairs.
Entry(i, y) == [pair |-> i, of |-> data[i], sig |-> y]
Entries == UNION {{Entry(i, y) : y \in SignalsOf(data[i], D)} : i \in DOMAIN Pairs}

LEMMA DayFound ==
  ASSUME DayInv
  PROVE  /\ DaySignals(data, D) \in Seq(Entries)
         /\ \A i \in DOMAIN Pairs : \A y \in SignalsOf(data[i], D) :
              \E k \in DOMAIN DaySignals(data, D) : DaySignals(data, D)[k] = Entry(i, y)
<1> DEFINE f(i) == PairSignals(data[i], D)
           part(i) == [k \in DOMAIN f(i) |-> Entry(i, f(i)[k])]
           parts == [i \in DOMAIN Pairs |-> part(i)]
           all == DaySignals(data, D)
<1>1. DOMAIN data = DOMAIN Pairs /\ DOMAIN Pairs = 1 .. Len(Pairs) /\ Len(Pairs) \in Nat
  BY DayAssumption, LenProperties DEF DayInv
<1>2. \A i \in DOMAIN Pairs :
        /\ f(i) \in Seq(SignalsOf(data[i], D))
        /\ \A y \in SignalsOf(data[i], D) : \E k \in DOMAIN f(i) : f(i)[k] = y
  BY PairFound
<1>3. all = Extending!Fold(<<>>, parts)
  <2>1. parts = [i \in DOMAIN data |-> LET found == PairSignals(data[i], D)
                   IN  [k \in DOMAIN found |-> [pair |-> i, of |-> data[i], sig |-> found[k]]]]
    BY <1>1 DEF Entry
  <2> HIDE DEF parts
  <2>2. QED BY <2>1, DaySignalsIs
<1> HIDE DEF f, all
<1>4. \A i \in DOMAIN Pairs : part(i) \in Seq(Entries)
  <2> SUFFICES ASSUME NEW i \in DOMAIN Pairs PROVE part(i) \in Seq(Entries)
    OBVIOUS
  <2> DEFINE n == Len(f(i))
  <2>1. n \in Nat /\ DOMAIN f(i) = 1 .. n /\ \A k \in 1 .. n : f(i)[k] \in SignalsOf(data[i], D)
    BY <1>2, LenProperties, ElementOfSeq
  <2> HIDE DEF n
  <2>2. \A k \in 1 .. n : Entry(i, f(i)[k]) \in Entries
    BY <2>1 DEF Entries
  <2>3. part(i) \in [1 .. n -> Entries]
    BY <2>1, <2>2
  <2> HIDE DEF part
  <2>4. QED BY <2>1, <2>3, IsSequence
<1>5. parts \in Seq(Seq(Entries))
  <2> DEFINE n == Len(Pairs)
  <2>1. n \in Nat /\ parts \in [1 .. n -> Seq(Entries)]
    BY <1>1, <1>4
  <2> HIDE DEF parts, n
  <2>2. QED BY <2>1, IsSequence
<1>6. all \in Seq(Entries) /\ FlatOf(parts, all)
  BY <1>3, <1>5, FlatIs
<1>7. ASSUME NEW i \in DOMAIN Pairs, NEW y \in SignalsOf(data[i], D)
      PROVE  \E k \in DOMAIN all : all[k] = Entry(i, y)
  <2>1. PICK n \in DOMAIN f(i) : f(i)[n] = y
    BY <1>2
  <2>2. i \in DOMAIN parts /\ parts[i] = part(i)
    OBVIOUS
  <2>3. n \in DOMAIN part(i) /\ part(i)[n] = Entry(i, y)
    BY <2>1
  <2> HIDE DEF parts, part
  <2>4. QED BY <1>6, <2>2, <2>3 DEF FlatOf
<1>8. QED BY <1>6, <1>7 DEF all

-----------------------------------------------------------------------------
(* The best of the day, booked. *)

\* Of some entries with a quality there is a best one.
LEMMA BestIn ==
  ASSUME NEW n \in Nat, NEW all, \A k \in 1 .. n : all[k].sig.q \in Nat,
         NEW S \in SUBSET (1 .. n), S # {}
  PROVE  Best(all, S) \in S
<1> DEFINE q(k) == all[k].sig.q
           Over(i, j) == q(i) > q(j) \/ (q(i) = q(j) /\ i <= j)
           T == {m \in Nat : m <= n => \A X \in SUBSET (1 .. m) : X # {} =>
                               \E i \in X : \A j \in X : Over(i, j)}
<1>0. \A k \in 1 .. n : q(k) \in Nat
  OBVIOUS
<1> HIDE DEF q
<1>1. 0 \in T
  <2>1. 1 .. 0 = {}
    OBVIOUS
  <2>2. QED BY <2>1
<1>2. ASSUME NEW m \in Nat, m \in T PROVE m + 1 \in T
  <2> SUFFICES ASSUME m + 1 <= n, NEW X \in SUBSET (1 .. m + 1), X # {}
               PROVE  \E i \in X : \A j \in X : Over(i, j)
    OBVIOUS
  <2>1. \A X_ \in SUBSET (1 .. m) : X_ # {} => \E i \in X_ : \A j \in X_ : Over(i, j)
    BY <1>2
  <2> DEFINE Y == X \ {m + 1}
  <2>2. Y \in SUBSET (1 .. m) /\ \A j \in X : j \in 1 .. n
    OBVIOUS
  <2>3. CASE m + 1 \notin X
    <3>1. X \in SUBSET (1 .. m)
      BY <2>3
    <3>2. QED BY <2>1, <3>1
  <2>4. CASE m + 1 \in X /\ Y = {}
    <3>1. \A j \in X : j = m + 1
      BY <2>4
    <3>2. q(m + 1) \in Nat
      BY <1>0, <2>2, <2>4
    <3>3. Over(m + 1, m + 1)
      BY <3>2
    <3>4. QED BY <2>4, <3>1, <3>3
  <2>5. CASE m + 1 \in X /\ Y # {}
    <3>1. PICK i \in Y : \A j \in Y : Over(i, j)
      BY <2>1, <2>2, <2>5
    <3>2. q(m + 1) \in Nat /\ q(i) \in Nat /\ i \in X /\ i \in 1 .. m
      BY <1>0, <2>2, <2>5
    <3>3. \A j \in X : j = m + 1 \/ j \in Y
      OBVIOUS
    <3>4. \A j \in Y : q(j) \in Nat
      BY <1>0, <2>2
    <3> HIDE DEF Y
    <3>5. CASE q(m + 1) > q(i)
      <4>1. \A j \in Y : q(m + 1) > q(j)
        BY <3>1, <3>2, <3>4, <3>5
      <4>2. \A j \in X : Over(m + 1, j)
        BY <3>2, <3>3, <4>1
      <4>3. QED BY <2>5, <4>2
    <3>6. CASE ~ (q(m + 1) > q(i))
      <4>1. Over(i, m + 1)
        BY <3>2, <3>6
      <4>2. QED BY <3>1, <3>2, <3>3, <4>1
    <3>7. QED BY <3>5, <3>6
  <2>6. QED BY <2>3, <2>4, <2>5
<1>3. n \in T
  <2> HIDE DEF T
  <2> QED BY <1>1, <1>2, Extending!AllNumbers
<1>4. \E i \in S : \A j \in S : Over(i, j)
  BY <1>3
<1>5. QED BY <1>4 DEF Best, q

\* Two at most are picked, of those that there are.
LEMMA PickedOf ==
  ASSUME NEW E, NEW all \in Seq(E), \A e \in E : e.sig.q \in Nat
  PROVE  \/ Picked(all) = <<>>
         \/ \E a \in E : Picked(all) = <<a>>
         \/ \E a, b \in E : Picked(all) = <<a, b>>
<1> DEFINE n == Len(all)
           one == Best(all, DOMAIN all)
           rest == {i \in DOMAIN all : all[i].sig.dir # all[one].sig.dir}
           two == Best(all, rest)
<1>1. n \in Nat /\ DOMAIN all = 1 .. n /\ \A k \in 1 .. n : all[k] \in E
  BY LenProperties, ElementOfSeq
<1>2. \A k \in 1 .. n : all[k].sig.q \in Nat
  BY <1>1
<1>3. Picked(all) = IF all = <<>> THEN <<>> ELSE IF rest = {} THEN <<all[one]>>
                    ELSE <<all[one], all[two]>>
  BY DEF Picked
<1>4. rest \in SUBSET (1 .. n)
  BY <1>1
<1>5. rest # {} => all[two] \in E
  <2> HIDE DEF rest, n
  <2>1. rest # {} => two \in rest
    BY <1>1, <1>2, <1>4, BestIn
  <2> HIDE DEF two
  <2>2. QED BY <1>1, <1>4, <2>1
<1>6. all # <<>> => all[one] \in E
  <2>0. all # <<>> => n \in Nat \ {0}
    BY EmptySeq
  <2> HIDE DEF n
  <2>1. all # <<>> => 1 .. n # {}
    <3>1. n \in Nat \ {0} => 1 \in 1 .. n
      OBVIOUS
    <3>2. QED BY <2>0, <3>1
  <2>2. all # <<>> => one \in 1 .. n
    BY <1>1, <1>2, <2>1, BestIn
  <2> HIDE DEF one
  <2>3. QED BY <1>1, <2>2
<1> HIDE DEF one, two, rest
<1>7. QED BY <1>3, <1>5, <1>6

\* What a day has booked: trades of the entries that were picked.
TradeOf(x, e) == x.sym = e.of.sym /\ x.res.sig = e.sig
BookedOf(s, E) ==
  /\ s = [day |-> s.day, start |-> s.start, bal |-> s.bal, trades |-> s.trades, rp |-> s.rp]
  /\ \E X : s.trades \in Seq(X) /\ \A x \in X : \E e \in E : TradeOf(x, e)

LEMMA OneBooked ==
  ASSUME NEW E, NEW s, BookedOf(s, E), NEW e \in E
  PROVE  BookedOf(Booked(s, e), E)
<1> DEFINE res == simulate(e.of.df, e.sig, s.day, s.bal, s.rp, PAIR_CONFIG[e.of.sym])
           out == (s.start - s.bal) * 100 >= MAX_DAILY_DD * s.start \/ res = <<>>
           trade == [sym |-> e.of.sym, from |-> s.bal, res |-> res[1]]
           bal == s.bal + res[1].pnl
           next == [day |-> s.day, start |-> s.start, bal |-> bal,
                    trades |-> Append(s.trades, trade), rp |-> s.rp]
<1>1. Booked(s, e) = IF out THEN s ELSE [s EXCEPT !.bal = bal, !.trades = Append(s.trades, trade)]
  BY DEF Booked
<1>2. res # <<>> => res[1].sig = e.sig
  <2>1. ASSUME NEW of, NEW sig, NEW d, NEW b, NEW rp, NEW cfg, simulate(of, sig, d, b, rp, cfg) # <<>>
        PROVE  simulate(of, sig, d, b, rp, cfg)[1].sig = sig
    <3> DEFINE run_ == Simulated(Entered(sig, d), of)
    <3> HIDE DEF run_
    <3>1. run_.last # <<>>
      BY <2>1 DEF simulate, run_
    <3>2. QED BY <3>1 DEF simulate, run_
  <2>2. QED BY <2>1
<1> HIDE DEF res, bal
<1>3. CASE ~ out
  <2>1. TradeOf(trade, e)
    BY <1>2, <1>3 DEF TradeOf
  <2>2. PICK X : s.trades \in Seq(X) /\ \A x \in X : \E f \in E : TradeOf(x, f)
    BY DEF BookedOf
  <2>3. Append(s.trades, trade) \in Seq(X \cup {trade})
    <3>1. s.trades \in Seq(X \cup {trade}) /\ trade \in X \cup {trade}
      BY <2>2, SeqMonotonic
    <3>2. QED BY <3>1, AppendProperties
  <2>4. Booked(s, e) = next
    <3>1. s = [day |-> s.day, start |-> s.start, bal |-> s.bal, trades |-> s.trades, rp |-> s.rp]
      BY DEF BookedOf
    <3> HIDE DEF trade, out
    <3>2. QED BY <1>1, <1>3, <3>1
  <2>5. \A x \in X \cup {trade} : \E f \in E : TradeOf(x, f)
    BY <2>1, <2>2
  <2> HIDE DEF trade
  <2>6. QED BY <2>3, <2>4, <2>5 DEF BookedOf
<1>4. CASE out
  BY <1>1, <1>4
<1>5. QED BY <1>3, <1>4

LEMMA RunDayIs ==
  \A of, d, equity, weak : RunDay(of, d, equity, weak) =
    LET begin == [day |-> d, start |-> equity, bal |-> equity, trades |-> <<>>,
                  rp |-> IF weak THEN WEAK_RISK ELSE RISK_PER_TRADE]
    IN  IF Monday(d) THEN begin ELSE Booking!Fold(begin, Picked(DaySignals(of, d)))
BY DEF RunDay, FoldLeft, MapThenFoldSet, Max, Booking!Fold, Booking!FoldLeft,
       Booking!MapThenFoldSet, Booking!Max

LEMMA TradesOf ==
  ASSUME NEW E, NEW of, NEW d, NEW equity, NEW weak,
         DaySignals(of, d) \in Seq(E), \A e \in E : e.sig.q \in Nat
  PROVE  /\ BookedOf(RunDay(of, d, equity, weak), E)
         /\ Monday(d) => RunDay(of, d, equity, weak).trades = <<>>
<1> DEFINE begin == [day |-> d, start |-> equity, bal |-> equity, trades |-> <<>>,
                     rp |-> IF weak THEN WEAK_RISK ELSE RISK_PER_TRADE]
           picks == Picked(DaySignals(of, d))
<1>1. RunDay(of, d, equity, weak) = IF Monday(d) THEN begin ELSE Booking!Fold(begin, picks)
  BY RunDayIs
<1>2. BookedOf(begin, E)
  <2>1. begin.trades \in Seq({}) /\ \A x \in {} : \E e \in E : TradeOf(x, e)
    OBVIOUS
  <2>2. begin = [day |-> begin.day, start |-> begin.start, bal |-> begin.bal,
                 trades |-> begin.trades, rp |-> begin.rp]
    OBVIOUS
  <2> HIDE DEF begin
  <2>3. QED BY <2>1, <2>2 DEF BookedOf
<1>3. picks = <<>> \/ (\E a \in E : picks = <<a>>) \/ (\E a, b \in E : picks = <<a, b>>)
  BY PickedOf
<1>4. Monday(d) => RunDay(of, d, equity, weak).trades = <<>>
  BY <1>1
<1> HIDE DEF begin, picks
<1>5. BookedOf(Booking!Fold(begin, picks), E)
  <2>1. CASE picks = <<>>
    BY <1>2, <2>1, Booking!FoldNone
  <2>2. ASSUME NEW a \in E, picks = <<a>> PROVE BookedOf(Booking!Fold(begin, picks), E)
    <3>1. Booking!Fold(begin, <<a>>) = Booked(begin, a)
      BY Booking!FoldOne
    <3>2. QED BY <1>2, <2>2, <3>1, OneBooked
  <2>3. ASSUME NEW a \in E, NEW b \in E, picks = <<a, b>> PROVE BookedOf(Booking!Fold(begin, picks), E)
    <3> DEFINE first == <<a>>
    <3>1. Booking!Fold(begin, first) = Booked(begin, a)
      BY Booking!FoldOne
    <3>2. first \in Seq(E) /\ picks = Append(first, b)
      BY <2>3
    <3> HIDE DEF first
    <3>3. Booking!Fold(begin, Append(first, b)) = Booked(Booking!Fold(begin, first), b)
      BY <3>2, Booking!FoldMore
    <3>4. BookedOf(Booked(begin, a), E)
      BY <1>2, OneBooked
    <3>5. BookedOf(Booked(Booked(begin, a), b), E)
      BY <3>4, OneBooked
    <3>6. QED BY <3>1, <3>2, <3>3, <3>5
  <2>4. QED BY <1>3, <2>1, <2>2, <2>3
<1>6. QED BY <1>1, <1>2, <1>4, <1>5

-----------------------------------------------------------------------------
(* The signals are pinned. *)

\* What answered and what was found, pair by pair.
LEMMA LaddersAreFound ==
  ASSUME DayInv, NEW i \in DOMAIN Pairs, BarsKept(i), SignalsKept(i), SameBias(i)
  PROVE  /\ Monday(D) => FirstOfSession(i) = {}
         /\ ~ Monday(D) =>
              /\ \A y \in SignalsOf(data[i], D) : \E x \in FirstOfSession(i) : Levels(x) = Levels(y)
              /\ \A x \in FirstOfSession(i) : \E y \in SignalsOf(data[i], D) : Levels(x) = Levels(y)
<1>1. /\ \A x \in FirstOfSession(i) : \E p \in Leading(i) : x \in Asked(data[i].df, i, p)
      /\ \A p \in Leading(i) : \A x \in Asked(data[i].df, i, p) : x \in FirstOfSession(i)
  BY LiveIs
<1>2. \A p \in Leading(i) : p \in Fresh(i)
  BY DEF Leading, FirstAsked
<1>3. CASE Monday(D)
  <2>1. \A p \in Fresh(i) : \A x \in Asked(data[i].df, i, p) : FALSE
    BY <1>3, AnswerOf
  <2>2. QED BY <1>1, <1>2, <1>3, <2>1
<1>4. CASE ~ Monday(D)
  <2>1. /\ \A y \in SignalsOf(data[i], D) :
             \E p \in Leading(i) : \E x \in Asked(data[i].df, i, p) : Levels(x) = Levels(y)
        /\ \A p \in Leading(i) : \A x \in Asked(data[i].df, i, p) :
             \E y \in SignalsOf(data[i], D) : Levels(x) = Levels(y)
    BY <1>4, FoundIs
  <2>2. QED BY <1>1, <1>4, <2>1
<1>5. QED BY <1>3, <1>4

LEMMA EntryOf ==
  ASSUME DayInv, \A i \in DOMAIN Pairs : BarsKept(i), NEW e \in Entries
  PROVE  /\ e.sig.q \in Nat /\ e.pair \in DOMAIN Pairs
         /\ e.of.sym = Pairs[e.pair] /\ e.sig \in SignalsOf(data[e.pair], D)
<1>0. PICK i \in DOMAIN Pairs : e \in {Entry(i, y) : y \in SignalsOf(data[i], D)}
  BY DEF Entries
<1>1. PICK y \in SignalsOf(data[i], D) : e = Entry(i, y)
  BY <1>0
<1>2. e.pair = i /\ e.of = data[i] /\ e.sig = y
  BY <1>1 DEF Entry
<1>3. y.q \in Nat
  BY PairFound
<1>4. data[i].sym = Pairs[i]
  BY DEF BarsKept
<1>5. QED BY <1>2, <1>3, <1>4

\* The detector, asked hour by hour, signals first in each session what the
\* backtest finds with the whole day before it (asian_sweep.py:4-5), and what the
\* backtest books is one of those.
THEOREM SignalsPinned == DaySpec => []SignalsArePinned
<1>1. DayInv /\ SeenInv => SignalsArePinned
  <2> SUFFICES ASSUME DayInv, SeenInv, DayOver, NEW i \in DOMAIN Pairs, SameBias(i)
               PROVE  LET all   == DaySignals(data, D)
                          found == {all[k].sig : k \in {m \in DOMAIN all : all[m].pair = i /\ ~Monday(D)}}
                      IN  /\ {Levels(x) : x \in FirstOfSession(i)} = {Levels(x) : x \in found}
                          /\ \A k \in DOMAIN book.trades : book.trades[k].sym = Pairs[i] =>
                               \E x \in FirstOfSession(i) : Levels(x) = Levels(book.trades[k].res.sig)
    BY DEF SignalsArePinned
  <2> DEFINE all   == DaySignals(data, D)
             found == {all[k].sig : k \in {m \in DOMAIN all : all[m].pair = i /\ ~Monday(D)}}
             first == FirstOfSession(i)
             U     == SignalsOf(data[i], D)
  <2>1. \A j \in DOMAIN Pairs : BarsKept(j) /\ SignalsKept(j)
    BY DEF SeenInv
  <2>2. book = RunDay(data, D, setting.equity, setting.weak)
    BY DEF SeenInv
  <2>3. /\ Monday(D) => first = {}
        /\ ~ Monday(D) => /\ \A y \in U : \E x \in first : Levels(x) = Levels(y)
                          /\ \A x \in first : \E y \in U : Levels(x) = Levels(y)
    BY <2>1, LaddersAreFound
  <2>4. \A e \in Entries : /\ e.sig.q \in Nat /\ e.pair \in DOMAIN Pairs
                           /\ e.of.sym = Pairs[e.pair] /\ e.sig \in SignalsOf(data[e.pair], D)
    BY <2>1, EntryOf
  <2>5. /\ all \in Seq(Entries)
        /\ \A y \in U : \E k \in DOMAIN all : all[k] = Entry(i, y)
    BY DayFound
  <2>6. \A k \in DOMAIN all : all[k] \in Entries
    BY <2>5, ElementOfSeq, LenProperties
  <2>7. BookedOf(book, Entries) /\ (Monday(D) => book.trades = <<>>)
    <3> HIDE DEF all
    <3>1. DaySignals(data, D) \in Seq(Entries) /\ \A e \in Entries : e.sig.q \in Nat
      BY <2>4, <2>5 DEF all
    <3>2. QED BY <2>2, <3>1, TradesOf
  <2> HIDE DEF all, first, U
  <2>8. ~ Monday(D) => found = U
    <3> SUFFICES ASSUME ~ Monday(D) PROVE found = U
      OBVIOUS
    <3>1. ASSUME NEW y \in found PROVE y \in U
      <4>1. PICK k \in DOMAIN all : all[k].pair = i /\ y = all[k].sig
        BY <3>1
      <4>2. QED BY <2>4, <2>6, <4>1 DEF U
    <3>2. ASSUME NEW y \in U PROVE y \in found
      <4>1. PICK k \in DOMAIN all : all[k] = Entry(i, y)
        BY <2>5
      <4>2. all[k].pair = i /\ all[k].sig = y
        BY <4>1 DEF Entry
      <4>3. QED BY <4>2
    <3>3. QED BY <3>1, <3>2
  <2>9. Monday(D) => found = {}
    OBVIOUS
  <2> HIDE DEF found
  <2>10. {Levels(x) : x \in first} = {Levels(x) : x \in found}
    <3>1. CASE Monday(D)
      BY <2>3, <2>9, <3>1
    <3>2. CASE ~ Monday(D)
      <4>1. found = U
        BY <2>8, <3>2
      <4>2. /\ \A y \in U : \E x \in first : Levels(x) = Levels(y)
            /\ \A x \in first : \E y \in U : Levels(x) = Levels(y)
        BY <2>3, <3>2
      <4>3. QED BY <4>1, <4>2
    <3>3. QED BY <3>1, <3>2
  <2>11. ASSUME NEW k \in DOMAIN book.trades, book.trades[k].sym = Pairs[i]
         PROVE  \E x \in first : Levels(x) = Levels(book.trades[k].res.sig)
    <3>1. PICK X : book.trades \in Seq(X) /\ \A x \in X : \E e \in Entries : TradeOf(x, e)
      BY <2>7 DEF BookedOf
    <3>2. book.trades[k] \in X
      BY <3>1, ElementOfSeq, LenProperties
    <3>3. PICK e \in Entries : TradeOf(book.trades[k], e)
      BY <3>1, <3>2
    <3>4. Pairs[e.pair] = Pairs[i] /\ book.trades[k].res.sig = e.sig
      BY <2>4, <2>11, <3>3 DEF TradeOf
    <3>5. e.pair = i
      BY <2>4, <3>4, DayAssumption
    <3>6. e.sig \in U
      BY <2>4, <3>5 DEF U
    <3>7. ~ Monday(D)
      <4>1. book.trades # <<>>
        BY <2>11
      <4>2. QED BY <2>7, <4>1
    <3>8. QED BY <2>3, <3>4, <3>6, <3>7
  <2>12. QED BY <2>10, <2>11 DEF all, found, first
<1>2. QED BY <1>1, DayAlways, SeenAlways, PTL
=============================================================================
