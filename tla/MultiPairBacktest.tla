--------------------------- MODULE MultiPairBacktest ---------------------------
(***************************************************************************)
(* multi_pair_backtest.py: the backtest the live detector and the exit     *)
(* ladder are ported from.  It judges a whole day at once: the signals of  *)
(* all pairs, the best two of them, and the bars that follow each one.     *)
(* data is, per pair in the order of SYMBOLS, all stored 1H bars.  Units   *)
(* are those of AsianSweep; PAIR_CONFIG stands for SYMBOLS, it copies it.*)
(***************************************************************************)
EXTENDS AsianSweep

MAX_TRADES_DAY  == 2
MAX_DAILY_DD    == 3
RISK_PER_TRADE  == 16
WEAK_RISK       == 6
SESS_CLOSE      == 16 * 60

\* The share of a pair of its own is no less than that of the weak months.
ASSUME OverrideAssumption ==
  \A p \in DOMAIN PAIR_CONFIG :
    PAIR_CONFIG[p].override # 0 => PAIR_CONFIG[p].override >= WEAK_MONTH_RISK

\* get_asian_range
get_asian_range(df, d) ==
  LET bars == {i \in DOMAIN df : df[i].t >= d * A_DAY - 270 /\ df[i].t < d * A_DAY + 30}
  IN  IF Cardinality(bars) < 2 THEN <<>>
      ELSE <<Max({df[i].h : i \in bars}), Min({df[i].l : i \in bars})>>

\* get_bias
Smoothed(e, b) == (2 * b.c + (BIAS_EMA_SPAN - 1) * e) \div (BIAS_EMA_SPAN + 1)
get_bias(df, d) ==
  LET rec == Until(df, d * A_DAY - 60)
      cl  == Last(rec).c
      avg == FoldLeft(Smoothed, Head(rec).c, Tail(rec))
  IN  IF Len(rec) < BIAS_MIN_BARS THEN "neutral"
      ELSE IF (cl - avg) * 1000 > avg THEN "bullish"
      ELSE IF (avg - cl) * 1000 > avg THEN "bearish" ELSE "neutral"

\* The positions of a session's bars: hours from sh to half past eh.
InSession(df, d, sh, eh) ==
  {i \in DOMAIN df : df[i].t >= d * A_DAY + 60 * sh /\ df[i].t <= d * A_DAY + 60 * eh + 30}
\* The first of some bars that satisfies P: the hit flag of a direction is
\* set once per session, whether or not a signal comes of it.
FirstHit(df, bars, P(_)) ==
  {df[i] : i \in {j \in bars : P(df[j]) /\ \A k \in bars : P(df[k]) => j <= k}}

\* A signal with the risk of three points at least.
Scanned(dir, entry, sl, b, sess, q) ==
  LET sgn == IF dir = "BUY" THEN 1 ELSE -1  risk == sgn * (entry - sl)
  IN  IF risk < 3 * PT THEN {}
      ELSE {[dir |-> dir, entry |-> entry, sl |-> sl, tp1 |-> entry + sgn * risk,
             tp |-> entry + sgn * ((25 * risk) \div 10), session |-> sess, at |-> b.t, q |-> q]}

\* scan_signals, one session.
SessionSignals(df, d, ah, al, bias, cfg, sess, sh, eh, short) ==
  LET bars == InSession(df, d, sh, eh)
      high(b) == short /\ bias = "bearish" /\ b.h > ah /\ b.c < ah
      low(b)  == bias \in {"bullish", "neutral"} /\ b.l < al /\ b.c > al
  IN  (UNION {Scanned("SELL", ah - cfg.spread * PT, b.h + cfg.sl_pts * PT, b, sess, cfg.quality)
              : b \in FirstHit(df, bars, high)})
      \cup
      (UNION {Scanned("BUY", al + cfg.spread * PT, b.l - cfg.sl_pts * PT, b, sess, cfg.quality)
              : b \in FirstHit(df, bars, low)})

\* scan_signals: a bias allows one direction only, so a session has one signal
\* at most and the list is in the order of time.
scan_signals(df, d, range, bias, cfg) ==
  IF (range[1] - range[2]) \div PT \notin cfg.min_r .. cfg.max_r THEN <<>>
  ELSE SetToSeq(SessionSignals(df, d, range[1], range[2], bias, cfg, "LONDON", 6, 10, TRUE))
       \o SetToSeq(SessionSignals(df, d, range[1], range[2], bias, cfg, "NY", 12, 15, FALSE))

\* What simulate keeps while it goes over the bars after a signal until SESS_CLOSE:
\* last is the close of the latest of them, which a trade still open leaves at.
Entered(sig, d) ==
  [sig |-> sig, until |-> d * A_DAY + SESS_CLOSE, tp1hit |-> FALSE, trail |-> sig.sl,
   ep |-> 0, er |-> "none", last |-> <<>>]
Follows(x, bar) == x.sig.at < bar.t /\ bar.t <= x.until

\* One bar of the loop.
SimBar(x, bar) ==
  LET buys == x.sig.dir = "BUY"
      reached(px) == IF buys THEN bar.h >= px ELSE bar.l <= px
      hit  == x.tp1hit \/ reached(x.sig.tp1)
      even == IF hit /\ ~x.tp1hit THEN x.sig.entry ELSE x.trail
      nt   == bar.c - Sgn(x.sig) * ((3 * (Sgn(x.sig) * (x.sig.entry - x.sig.sl))) \div 10)
      next == IF hit /\ Sgn(x.sig) * (nt - even) > 0 THEN nt ELSE even
      seen == [x EXCEPT !.last = <<bar.c>>]
  IN  IF x.er # "none" \/ ~Follows(x, bar) THEN x
      ELSE IF (IF buys THEN bar.l <= x.trail ELSE bar.h >= x.trail)
           THEN [seen EXCEPT !.ep = x.trail, !.er = IF x.tp1hit THEN "TRAIL" ELSE "SL"]
      ELSE IF hit /\ reached(x.sig.tp)
           THEN [seen EXCEPT !.tp1hit = TRUE, !.trail = next, !.ep = x.sig.tp, !.er = "TP2"]
      ELSE [seen EXCEPT !.tp1hit = hit, !.trail = next]
Simulated(x, bars) == FoldLeft(SimBar, x, bars)

\* The lot of simulate: the override of a pair before the weak months.
SimLot(cfg, balance, rp, risk) ==
  LET amt == (balance * (IF cfg.override # 0 THEN cfg.override ELSE rp)) \div 2000
  IN  Clamp(Nearest(amt, Unit(risk, cfg)), cfg)

\* The nearest cent.
ToCent(x) == CENT * ((x + CENT \div 2) \div CENT)

\* simulate: nothing, if no bar follows on that day.
simulate(df, sig, d, balance, rp, cfg) ==
  LET run_ == Simulated(Entered(sig, d), df)
      lot  == SimLot(cfg, balance, rp, Sgn(sig) * (sig.entry - sig.sl))
      out  == IF run_.er # "none" THEN run_
              ELSE [run_ EXCEPT !.ep = run_.last[1], !.er = IF run_.tp1hit THEN "EOD_trail" ELSE "EOD"]
      diff == Sgn(sig) * (out.ep - sig.entry)
      d1   == Sgn(sig) * (sig.tp1 - sig.entry)
      pnl  == IF out.tp1hit /\ out.er # "TP2" THEN ((d1 + diff) * lot * cfg.vpl) \div 2
              ELSE diff * lot * cfg.vpl
  IN  IF run_.last = <<>> THEN <<>>
      ELSE <<[sig |-> sig, lot |-> lot, ep |-> out.ep, er |-> out.er, pnl |-> ToCent(pnl)]>>

-----------------------------------------------------------------------------
(* A day of run. *)

\* The signals of a pair; those of all pairs, in their order.
PairSignals(of, d) ==
  LET range == get_asian_range(of.df, d)
  IN  IF range = <<>> THEN <<>>
      ELSE scan_signals(of.df, d, range, get_bias(of.df, d), PAIR_CONFIG[of.sym])
Extended(all, more) == all \o more
DaySignals(data, d) ==
  FoldLeft(Extended, <<>>, [i \in DOMAIN data |->
    LET found == PairSignals(data[i], d)
    IN  [k \in DOMAIN found |-> [pair |-> i, of |-> data[i], sig |-> found[k]]]])

\* The best of some of them: the highest quality, the first among equals.
Best(all, S) ==
  CHOOSE i \in S : \A j \in S : all[i].sig.q > all[j].sig.q \/ (all[i].sig.q = all[j].sig.q /\ i <= j)

\* At most MAX_TRADES_DAY, one per direction.
Picked(all) ==
  LET one  == Best(all, DOMAIN all)
      rest == {i \in DOMAIN all : all[i].sig.dir # all[one].sig.dir}
  IN  IF all = <<>> THEN <<>> ELSE IF rest = {} THEN <<all[one]>>
      ELSE <<all[one], all[Best(all, rest)]>>

\* Booked one after the other, until the day has lost MAX_DAILY_DD; the break is
\* met again by every later pick.
Booked(s, p) ==
  LET res == simulate(p.of.df, p.sig, s.day, s.bal, s.rp, PAIR_CONFIG[p.of.sym])
  IN  IF (s.start - s.bal) * 100 >= MAX_DAILY_DD * s.start \/ res = <<>> THEN s
      ELSE [s EXCEPT !.bal = s.bal + res[1].pnl,
                     !.trades = Append(s.trades, [sym |-> p.of.sym, from |-> s.bal, res |-> res[1]])]
RunDay(data, d, balance, weak) ==
  LET begin == [day |-> d, start |-> balance, bal |-> balance, trades |-> <<>>,
                rp |-> IF weak THEN WEAK_RISK ELSE RISK_PER_TRADE]
  IN  IF Monday(d) THEN begin ELSE FoldLeft(Booked, begin, Picked(DaySignals(data, d)))
=============================================================================
