------------------------------- MODULE Backtests -------------------------------
(***************************************************************************)
(* The backtests that walk stored bars, as one machine: a script is        *)
(* chosen, then one stored event after another is walked, and at the end   *)
(* the trades that are still open are closed.  The scripts that walk the   *)
(* 15M bars of several pairs meet any bar and any answer of the detectors  *)
(* (the bars of a pair differ only while one of its trades is open;        *)
(* without one nothing but the spread is read).  The gold script walks 1M  *)
(* bars and runs its own detector on them.                                 *)
(***************************************************************************)
EXTENDS SrFlipExitSweep, NYGoldBacktest

CONSTANTS
  Scripts,       \* <<script, halts>>: "multi", "silver", "flip", "gold" or a variant of the sweep
  Bars,          \* candles a trade may meet
  CalmBars,      \* candles of a pair that has no trade
  Answers,       \* per event: what the calendar and the detectors may say
  MaxTrades,     \* trades of a walk
  GoldTimes,     \* open times of the stored 1M bars of gold
  GoldBars,      \* per event: what the bar may be
  GoldNews       \* events in a news blackout

\* Prices and times are whole numbers of their units.
Candle == [o : Int, h : Int, l : Int, c : Int, v : Int, spread : Int]
Signals == [dir : {"BUY", "SELL"}, entry : Int, sl : Int, tp1 : Int, tp : Int]
Frames == [t : Int, done : Int, o : Int, h : Int, l : Int, c : Int]
GoldBar == [t : Int, done : Int, o : Int, h : Int, l : Int, c : Int, spread : Int]
ASSUME DataAssumption ==
  /\ RiskPct \in Nat /\ SlBuffer \in Int /\ SwingBars \in Nat
  /\ Scripts \subseteq ({"multi", "silver", "flip", "gold"} \cup VARIANTS) \X BOOLEAN
  /\ LoadedLtf \in Seq(Int \X DOMAIN StoredHtf)
  /\ Bars \cup CalmBars \subseteq Candle
  /\ \A i \in DOMAIN LoadedLtf :
       Answers[i] \subseteq [kind : {"signal", "none", "quiet", "news"}, sig : Signals]
  /\ GoldTimes \in Seq(Int) /\ \A i \in DOMAIN GoldTimes : GoldBars[i] \subseteq GoldBar
  /\ Stored5 \in Seq(Frames) /\ Stored15 \in Seq(Frames)

VARIABLES
  script,        \* the script that runs
  s,             \* its state
  n,             \* events walked
  hist,          \* bars of every pair so far, for the exits that look back
  lastbar,       \* the last close of every pair
  reported       \* the trades left at the end are closed
vars == <<script, s, n, hist, lastbar, reported>>

Name       == script[1]
DdHalts    == script[2]
Gold       == Name = "gold"
Sweep      == Name \in VARIANTS

Pairs  == IF Gold THEN {GOLD} ELSE DOMAIN StoredHtf
Events == IF Gold THEN [i \in DOMAIN GoldTimes |-> <<GoldTimes[i], GOLD>>] ELSE LoadedLtf
\* An event: its number, time, pair, and the position of its bar in the pair.
Event(i) ==
  [n |-> i, t |-> Events[i][1], sym |-> Events[i][2],
   k |-> Cardinality({j \in 1 .. i : Events[j][2] = Events[i][2]})]

LooksBack  == Name \in {"D", "E"}
Candidates(sym) ==
  IF \E i \in DOMAIN s.open : s.open[i].sym = sym THEN Bars ELSE CalmBars
Asked(i) ==
  IF Len(s.open) + Len(s.closed) < MaxTrades THEN Answers[i]
  ELSE {a \in Answers[i] : a.kind # "signal"}

Init ==
  /\ script \in Scripts
  /\ s = IF Gold THEN GoldState ELSE MsState
  /\ n = 0
  /\ hist = [p \in Pairs |-> <<>>]
  /\ lastbar = [p \in Pairs |-> [c |-> 0]]
  /\ reported = FALSE

\* One event of the stored data, for the step of a script.
Walked(Step(_, _, _, _)) ==
  /\ n < Len(Events)
  /\ n' = n + 1
  /\ LET e == Event(n + 1) IN
     \E bar \in Candidates(e.sym), in \in Asked(n + 1) :
       /\ lastbar' = [lastbar EXCEPT ![e.sym] = [c |-> bar.c]]
       /\ hist' = IF LooksBack THEN [hist EXCEPT ![e.sym] = Append(@, bar)] ELSE hist
       /\ s' = Step(e, bar, in, Append(hist[e.sym], bar))
  /\ UNCHANGED <<script, reported>>

WalkMulti  == Name = "multi"  /\ Walked(LAMBDA e, bar, in, past : MsStep(s, e, bar, in))
WalkSilver == Name = "silver" /\ Walked(LAMBDA e, bar, in, past : SbStep(s, e, bar, in))
WalkFlip   == Name = "flip"   /\ Walked(LAMBDA e, bar, in, past : SfStep(s, e, bar, in))
WalkSweep  ==
  /\ Sweep
  /\ Walked(LAMBDA e, bar, in, past : SwStep(s, e, bar, in, past, Name, DdHalts))

\* A 1M bar of gold.
WalkGold ==
  /\ Gold /\ n < Len(Events)
  /\ n' = n + 1
  /\ LET e == Event(n + 1) IN
     \E bar \in GoldBars[n + 1], news \in {FALSE, n + 1 \in GoldNews} :
       LET v1 == Append(hist[GOLD], [bar EXCEPT !.t = e.t, !.done = e.t + 1]) IN
       /\ lastbar' = [lastbar EXCEPT ![GOLD] = bar]
       /\ hist' = [hist EXCEPT ![GOLD] = v1]
       /\ s' = GoldStep(s, e, v1, news)
  /\ UNCHANGED <<script, reported>>

Finish ==
  /\ n = Len(Events) /\ ~reported
  /\ reported' = TRUE
  /\ s' = CASE Name = "multi"  -> MsFinish(s, lastbar, n + 1)
            [] Name = "silver" -> SbFinish(s, lastbar, n + 1)
            [] Name = "flip"   -> SfFinish(s, lastbar, n + 1)
            [] Sweep             -> SwFinish(s, lastbar, n + 1)
            [] Gold              -> GoldFinish(s, lastbar[GOLD], [Event(n) EXCEPT !.n = n + 1])
  /\ UNCHANGED <<script, n, hist, lastbar>>

Done == reported /\ UNCHANGED vars
Next == WalkMulti \/ WalkSilver \/ WalkFlip \/ WalkSweep \/ WalkGold \/ Finish \/ Done
Spec == Init /\ [][Next]_vars

-----------------------------------------------------------------------------
(* The books. *)

Trades  == s.open \o s.closed
Plus(a, b)  == a + b
SumOf(nums) == FoldLeft(Plus, 0, nums)
Lots(t)     == SumOf([i \in DOMAIN t.fills |-> t.fills[i][2]])
Earned(t)   ==
  SumOf([i \in DOMAIN t.fills |->
           (Sgn(t) * (t.fills[i][1] - t.entry) * t.fills[i][2] * t.pv) \div 2])

\* Every lot of a trade is closed once and paid for once: the fills of a closed
\* trade are its lot, those of an open one its lot without what is left, and
\* the balance is what the trades earned, from the first to the last event.
TradesAddUp ==
  /\ \A i \in DOMAIN s.closed : LET t == s.closed[i] IN
       Lots(t) = t.lot /\ t.net = Earned(t) - t.fee
  /\ \A i \in DOMAIN s.open : Lots(s.open[i]) = s.open[i].lot - s.open[i].left
  /\ s.bal = INITIAL_BALANCE + Total(s.closed)
  /\ reported => s.open = <<>>

\* No bar moves the stop of an open trade away from its market, whatever it
\* trails: a price, a swing, a close or the best close so far.
StopOnlyTightens ==
  [][\A i \in DOMAIN s.open, j \in DOMAIN s'.open :
       LET old == s.open[i]  new == s'.open[j]
       IN  old.ev = new.ev => Sgn(old) * (new.sl - old.sl) >= 0]_vars

\* The balance after the closes of an event, the first event of its day, and
\* the highest balance so far, booked one trade at a time.
BalanceAt(i) ==
  INITIAL_BALANCE + Total(SelectSeq(s.closed, LAMBDA t : t.out <= i))
FirstOfDay(i) ==
  Min({j \in 1 .. i : DateKey(Events[j][1]) = DateKey(Events[i][1])})
DayIsLost(i) ==
  LET b == BalanceAt(FirstOfDay(i)) IN 100 * (b - BalanceAt(i)) >= DAILY_DD_PCT * b
PeakAt(i) ==
  LET then == SelectSeq(s.closed, LAMBDA t : t.out <= i)
  IN  Max({INITIAL_BALANCE + Total(SubSeq(then, 1, j)) : j \in 0 .. Len(then)})
IsDrawnDown(i) == 100 * (PeakAt(i) - BalanceAt(i)) >= TOTAL_DD_PCT * PeakAt(i)
CapKey(t) ==
  CASE Name = "multi"  -> <<DateKey(t.at)>>
    [] Name = "silver" -> <<t.sym, DateKey(t.at), WindowIdFor(t.at)>>
    [] Gold            -> <<DateKey(t.at)>>
    [] OTHER             -> <<t.sym, DateKey(t.at)>>
Cap ==
  CASE Name = "silver" -> MAX_TRADES_PER_WINDOW_PER_PAIR [] Gold -> GoldCap [] OTHER -> 2
Concurrent == IF Gold THEN 1 ELSE MAX_CONCURRENT
\* The gold script measures the total drawdown from the initial balance.
IsTotal(i) == IF Gold THEN 10 * BalanceAt(i) <= 9 * INITIAL_BALANCE ELSE IsDrawnDown(i)

\* The daily gate is asked before the total (multi_setup_backtest.py:423-435):
\* on a day that is lost a total drawdown leaves no latch, and should a trade
\* still open bring the balance back, entries go on.  In gold it leaves one.
Latches(i) == IsTotal(i) /\ (Gold \/ ~DayIsLost(i))

\* Half an hour after a loss, an hour after two of one day in a row.
Cooled(t) ==
  \A i \in DOMAIN s.closed : LET u == s.closed[i] IN
    u.net <= 0 /\ u.out < t.ev =>
      /\ t.at >= u.until + COOLDOWN_AFTER_LOSS
      /\ (i > 1 /\ s.closed[i - 1].net <= 0
            /\ DateKey(s.closed[i - 1].at) = DateKey(u.until)) =>
           t.at >= u.until + COOLDOWN_AFTER_TWO

\* What the gates promise, read off the trades alone: never more than two open
\* at once (gold: one), never more than the cap under one key, no entry on a day
\* that had lost 5 % by then or at a drawdown of 10 %, and none after such a
\* drawdown was met at an event of a day not lost; and in gold none while a loss
\* is recent, and no exit in the bar of the entry.
GatesHold ==
  LET all == {Trades[i] : i \in DOMAIN Trades} IN
  \A t \in all :
    /\ Cardinality({u \in all : u.ev <= t.ev /\ (u.reason = "open" \/ u.out > t.ev)})
         <= Concurrent
    /\ Cardinality({u \in all : CapKey(u) = CapKey(t)}) <= Cap
    /\ DdHalts => ~DayIsLost(t.ev) /\ \A j \in 1 .. t.ev : ~Latches(j)
    /\ Gold => Cooled(t) /\ t.out # t.ev

\* A trade that its stop or its target closed has lost no more than the risk
\* per trade of the balance it was entered with, and the commission.
RiskIsKept ==
  \A i \in DOMAIN s.closed : LET t == s.closed[i] IN
    t.reason \in {"SL", "TRAIL", "BE", "TP", "TP2", "sl", "tp", "sl_minhold", "tp_minhold"} =>
      100 * (t.net + t.fee) >= -RiskPct * BalanceAt(t.ev)

-----------------------------------------------------------------------------
(* What the detectors see, and what the report says. *)

\* The newest bar of the longer timeframe a detector is shown is the newest that
\* opened before the event (gold: that is closed by then), however many hours
\* passed since the last time it was asked.
NewestShown ==
  s.shown # <<>> =>
    LET upto(p) == IF Gold THEN {f.done - 1 : f \in ToSet(Frame(Stored15, hist[p], 15))}
                   ELSE ToSet(LoadedHtf[p])
        latest  == IF Gold THEN s.shown[1] - 1 ELSE s.shown[1]
    IN  \E p \in Pairs : /\ latest \in upto(p) /\ latest < s.shown[2]
                         /\ \A x \in upto(p) : x > latest => x >= s.shown[2]

\* In gold a level is used once a day, and since it was confirmed no 1M bar had
\* run past it by more than half a pip when its signal came: that also bounds
\* the depth of the sweep, whatever SWEEP_MAX_PENETRATION and the ATR allow.
LevelsAreFresh ==
  Gold => \A i \in DOMAIN Trades : LET t == Trades[i]  L == t.level IN
    /\ \A j \in DOMAIN Trades \ {i} :
         DateKey(Trades[j].asked) = DateKey(t.asked) => Key(Trades[j].level) # Key(L)
    /\ \A b \in ToSet(hist[GOLD]) :
         L.conf <= b.t /\ b.done <= t.asked => Seen(b, L.dir).l >= Price(L) - LEVEL_INVALIDATE
    /\ t.depth <= LEVEL_INVALIDATE

\* The longest run of trades that all satisfy P.
LongestRun(trades, P(_)) ==
  Max({0} \cup {r[2] - r[1] + 1 : r \in
         {x \in (DOMAIN trades) \X (DOMAIN trades) :
            x[1] <= x[2] /\ \A k \in x[1] .. x[2] : P(trades[k])}})
Parted(groups) ==
  FoldFunction(LAMBDA g, a : a + Total(g), 0, groups)

\* The report agrees with the trades: its streaks are the longest runs, its
\* groups part the net result, its drawdown is at least the one at the end, and
\* while nothing halted the walk the curve holds the latest balance.
MultiReportIsTrue ==
  LET r == MsReport(s) IN
  /\ s.peak = PeakAt(n + 1)
  /\ r.streaks = <<LongestRun(s.closed, LAMBDA t : t.net < 0),
                   LongestRun(s.closed, LAMBDA t : t.net > 0)>>
  /\ r.net = r.gross_win - r.gross_loss
  /\ Parted(r.by_pair) = r.net /\ Parted(r.by_period) = r.net
  /\ Parted(SbReport(s).by_period) = r.net /\ Parted(SfReport(s).by_period) = r.net
  /\ (s.halted => ~DdHalts) => Last(s.curve) = s.bal
  /\ reported => r.mdd >= ((Max({Last(s.curve), INITIAL_BALANCE}) - Last(s.curve)) * 1000)
                            \div Max({Last(s.curve), INITIAL_BALANCE})

\* In gold the curve holds the balance of every bar, so the reported final
\* balance leaves out exactly a trade that was closed for want of data.
GoldReportIsTrue ==
  LET r == GoldReport(s) IN
  /\ Len(s.curve) = n /\ \A i \in 1 .. n : s.curve[i] = BalanceAt(i)
  /\ r.wins + r.losses = Len(s.closed)
  /\ r.gross_win - r.gross_loss = Total(s.closed) /\ Parted(r.days) = Total(s.closed)
  /\ s.closed # <<>> =>
       r.final = INITIAL_BALANCE + Total(SelectSeq(s.closed, LAMBDA t : t.reason # "data_end"))

ReportIsTrue == IF Gold THEN GoldReportIsTrue ELSE MultiReportIsTrue
=============================================================================
