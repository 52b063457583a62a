----------------------------- MODULE AsianSweepDay -----------------------------
(***************************************************************************)
(* One trading day of the Asian sweep, twice: hour by hour as the live     *)
(* program sees it, each closed bar shown to the open exit ladders and     *)
(* then, in the buffer of LiveBarPoller, to the detector; and at the end   *)
(* of the session the whole day at once, as the backtest judges it.        *)
(***************************************************************************)
EXTENDS MultiPairBacktest

CONSTANTS
  Pairs,           \* the pairs, in the order of SYMBOLS
  Settings,        \* what may precede the day: its number, equity, season, and the bars before it
  HourEvents,      \* the bars of the day: offset, position of the pair, and what the bar may be
  history_bars     \* bars the poller keeps

BarType == [h : Int, l : Int, c : Int, t : Int]

ASSUME DayAssumption ==
  /\ Pairs \in Seq(DOMAIN PAIR_CONFIG) /\ history_bars \in Nat \ {0}
  /\ \A x \in Settings :
       /\ x.d \in Nat /\ x.equity \in Nat \ {0} /\ x.weak \in BOOLEAN
       /\ \A i \in DOMAIN Pairs : x.past[i] \in Seq(BarType)
  /\ HourEvents \in Seq([at : Nat, pair : DOMAIN Pairs, bars : SUBSET BarType])
  \* the bars of a pair come in the order of time, none after the close of the session
  /\ \A k \in DOMAIN HourEvents : LET e == HourEvents[k] IN
       /\ e.at <= SESS_CLOSE
       /\ \A j \in 1 .. k - 1 : HourEvents[j].pair = e.pair => HourEvents[j].at < e.at
       /\ \A x \in Settings : \A n \in DOMAIN x.past[e.pair] :
            x.past[e.pair][n].t < x.d * A_DAY + e.at
  \* a pair has one bar an hour, the first sessions of the day begin after the bars it
  \* starts with, and the buffer holds what is needed since the range began
  /\ \A i, j \in DOMAIN Pairs : Pairs[i] = Pairs[j] => i = j
  /\ \A k \in DOMAIN HourEvents : HourEvents[k].at % 60 = 0
  /\ min_bars_required <= history_bars /\ Len(HourEvents) <= history_bars
  /\ \A x \in Settings, i \in DOMAIN Pairs : LET past == x.past[i] IN
       /\ Len(past) >= min_bars_required
       /\ \A n \in DOMAIN past :
            /\ past[n].t < x.d * A_DAY + 6 * 60
            /\ past[n].t >= ASIAN_START(x.d) => Len(past) - n + Len(HourEvents) < history_bars

VARIABLES
  setting,         \* the one that holds
  data,            \* per pair: all its bars so far
  hour,            \* bars closed
  ladders,         \* the live signals in order, each with its ladder and the acts it asked for
  book             \* what the backtest makes of the day, at its end
dayvars == <<setting, data, hour, ladders, book>>

NoBook == [trades |-> <<>>]
D == setting.d

DayInit ==
  /\ setting \in Settings
  /\ data = [i \in DOMAIN Pairs |-> [sym |-> Pairs[i], df |-> setting.past[i]]]
  /\ hour = 0 /\ ladders = <<>> /\ book = NoBook

\* fetch_closed_bars: the last history_bars of them.
Buffer(df) == SubSeq(df, Max({1, Len(df) - history_bars + 1}), Len(df))

Begun(sig, i) ==
  [pair |-> i, sig |-> sig, acts |-> <<>>,
   st |-> init_exit_state(sig, size_position(PAIR_CONFIG[Pairs[i]], setting.equity,
                                 Sgn(sig) * (sig.entry - sig.sl), setting.weak))]
Did(l, out) == [l EXCEPT !.st = out.st, !.acts = @ \o out.acts]

\* A 1H bar of a pair closes.
HourBarCloses ==
  /\ hour < Len(HourEvents) /\ hour' = hour + 1
  /\ LET e == HourEvents[hour + 1]  i == e.pair IN
     \E b \in e.bars :
       LET bar == [b EXCEPT !.t = D * A_DAY + e.at]
           df  == Append(data[i].df, bar)
           kept == [k \in DOMAIN ladders |->
                      IF ladders[k].pair = i THEN Did(ladders[k], maintain_exit(ladders[k].st, bar))
                                             ELSE ladders[k]]
       IN  /\ data' = [data EXCEPT ![i].df = df]
           /\ ladders' = kept \o SetToSeq({Begun(sig, i) : sig \in detect(Buffer(df), Pairs[i])})
  /\ UNCHANGED <<setting, book>>

\* 16:00: what is open is closed at the last bar, and the backtest is run.
SessionEnds ==
  /\ hour = Len(HourEvents) /\ hour' = hour + 1
  /\ ladders' = [k \in DOMAIN ladders |->
                   Did(ladders[k], force_close_eod(ladders[k].st, Last(data[ladders[k].pair].df).c))]
  /\ book' = RunDay(data, D, setting.equity, setting.weak)
  /\ UNCHANGED <<setting, data>>

DayOver == hour > Len(HourEvents)
DayDone == DayOver /\ UNCHANGED dayvars
DayNext == HourBarCloses \/ SessionEnds \/ DayDone
DaySpec == DayInit /\ [][DayNext]_dayvars

-----------------------------------------------------------------------------
(* The live program against the backtest. *)

\* In every hour of a session the buffer gives the bias that all the data give:
\* not so if it begins after the data and the two averages fall apart.
SameBias(i) ==
  \A k \in Len(setting.past[i]) + 1 .. Len(data[i].df) :
    SessionOf(data[i].df[k].t) # "none" =>
      get_bias(Buffer(SubSeq(data[i].df, 1, k)), D) = get_bias(data[i].df, D)

\* The first live signals of the sessions of a pair.
FirstOfSession(i) ==
  {ladders[k].sig : k \in {m \in DOMAIN ladders :
     /\ ladders[m].pair = i
     /\ \A j \in 1 .. m - 1 : ladders[j].pair = i => ladders[j].sig.session # ladders[m].sig.session}}
Levels(sig) == <<sig.dir, sig.session, sig.at, sig.entry, sig.sl, sig.tp1, sig.tp>>

\* asian_sweep.py:4-5 "Decision logic and constants are pinned to that backtest;
\* any deviation is a bug": asked hour by hour, with no bar but those closed by
\* then, the detector signals first in each session what the backtest finds with
\* the whole day before it, and every trade the backtest books is one of those.
SignalsArePinned ==
  DayOver => \A i \in DOMAIN Pairs : SameBias(i) =>
    LET all   == DaySignals(data, D)
        found == {all[k].sig : k \in {m \in DOMAIN all : all[m].pair = i /\ ~Monday(D)}}
    IN  /\ {Levels(x) : x \in FirstOfSession(i)} = {Levels(x) : x \in found}
        /\ \A k \in DOMAIN book.trades : book.trades[k].sym = Pairs[i] =>
             \E x \in FirstOfSession(i) : Levels(x) = Levels(book.trades[k].res.sig)

\* A position to which the acts of a ladder are done, and what they earn.
Sold(x, px, lots) ==
  [x EXCEPT !.left = @ - lots, !.paid = @ + x.sgn * (px - x.entry) * lots]
Act(x, a) ==
  IF a.act = "stop" THEN [x EXCEPT !.sl = a.px]
  ELSE Sold(x, a.px, IF a.act = "half" THEN x.left \div 2 ELSE x.left)
Opened(sig, lots) ==
  [sgn |-> Sgn(sig), entry |-> sig.entry, left |-> lots, sl |-> sig.sl, paid |-> 0]
Acted(x, acts) == FoldLeft(Act, x, acts)

\* The ladder is the mover of the backtest, and its acts are the ladder: a
\* position they are done to has its lots and stop at every hour; at the end of
\* the session it left at the price and for the reason simulate gives, and for
\* the same profit per lot, which the acts have paid (but for a runner that
\* reached TP2, paid there for the half that was gone at TP1); and it was never
\* larger than the backtest's.
ExitsArePinned ==
  \A k \in DOMAIN ladders :
    LET l == ladders[k]  x == Acted(Opened(l.sig, l.st.lots), l.acts)
        cfg == PAIR_CONFIG[Pairs[l.pair]]
        sim == simulate(data[l.pair].df, l.sig, D, setting.equity,
                        IF setting.weak THEN WEAK_RISK ELSE RISK_PER_TRADE, cfg)
    IN  /\ x.left = l.st.left /\ x.sl = l.st.sl
        /\ l.st.closed /\ l.st.reason # "TP2" => compute_pnl(l.st, cfg) = x.paid * cfg.vpl
        /\ (DayOver /\ sim # <<>>) =>
             /\ l.st.exit = sim[1].ep /\ l.st.reason = sim[1].er
             /\ ToCent(compute_pnl([l.st EXCEPT !.lots = sim[1].lot], cfg)) = sim[1].pnl
             /\ l.st.lots <= sim[1].lot

\* config:133-137, live_engine.py:408-423: whatever the allocation, an order is
\* no larger than the size of its signal and risks no more than the ceiling, but
\* for half a step of rounding and for the smallest order there is.
OrderRiskBounded ==
  \A k \in DOMAIN ladders, no \in 1 .. 2, pnl \in {0, 200 * 100 * CENT} :
    LET l    == ladders[k]
        cfg  == PAIR_CONFIG[Pairs[l.pair]]
        dist == Sgn(l.sig) * (l.sig.entry - l.sig.sl)
        lots == OrderLots(l.st.lots, calc_trade_risk(l.sig.grade, setting.equity, pnl, no),
                          risk_pct_for(cfg, setting.weak))
    IN  lots > MIN_LOT => /\ (lots - 1) * Unit(dist, cfg) <= MAX_RISK_USD_PER_TRADE
                          /\ lots <= l.st.lots
=============================================================================
