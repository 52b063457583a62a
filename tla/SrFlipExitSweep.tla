---------------------------- MODULE SrFlipExitSweep ----------------------------
(***************************************************************************)
(* scripts/sr_flip_exit_sweep.py: the signals of one pass of the detector  *)
(* are cached, then replayed under six exits, A to F, each with the        *)
(* drawdown halts and without them.  A trade of this script also knows its *)
(* bar, whether it is armed and the high water of its runner; its target   *)
(* is tp2 and a half that was closed is tp1_hit.  hist are the bars of the *)
(* pair so far, the current one last.                                      *)
(***************************************************************************)
EXTENDS OneSetupBacktests, Candles

CONSTANTS
  SwingBars,      \* L_SWING of the configuration
  SlBuffer        \* sl_buffer_pips_for, in pips

SwPipValue(sym, known)         == PipValue(sym, known)
SwCloseTrade(t, px, reason, ev) == CloseTrade(t, px, reason, ev)
BookRemaining(t, px)           == Filled(t, px, Rest(t))
SwForceClose(t, bar, reason, ev) == SwCloseTrade(BookRemaining(t, bar.c), bar.c, reason, ev)

\* The stop closes what is left.
StoppedOut(t, reason, ev) == SwCloseTrade(BookRemaining(t, t.sl), t.sl, reason, ev)
InR(t, halves)  == t.entry + Sgn(t) * ((halves * t.risk) \div 2)
Raised(t, px)   == IF Tighter(t, px) THEN [t EXCEPT !.sl = px] ELSE t

\* exit_A, exit_B, exit_C: the stop, then the target.
FixedTp(t, bar, ev) ==
  IF Stopped(t, bar) THEN StoppedOut(t, "SL", ev)
  ELSE IF Reached(t, bar, t.tp2) THEN SwCloseTrade(BookRemaining(t, t.tp2), t.tp2, "TP", ev)
  ELSE t

\* exit_D: once 1 R was seen, the stop goes behind the best of the swings that
\* the bars since the entry confirm.
SwingsSince(t, hist) ==
  LET lo   == Max({1, t.k - SwingBars})
      beyond(i, j) == IF t.dir = "BUY" THEN hist[i].l < hist[j].l ELSE hist[i].h > hist[j].h
  IN  {i \in lo + SwingBars .. Len(hist) - SwingBars :
         \A d \in 1 .. SwingBars : beyond(i, i - d) /\ beyond(i, i + d)}
BehindSwings(t, hist) ==
  {IF t.dir = "BUY" THEN hist[i].l - SlBuffer ELSE hist[i].h + SlBuffer :
     i \in SwingsSince(t, hist)}
ExitD(t, bar, hist, ev) ==
  LET armed  == t.armed \/ Reached(t, bar, InR(t, 2))
      behind == BehindSwings(t, hist)
      best   == IF t.dir = "BUY" THEN Max(behind) ELSE Min(behind)
  IN  IF Stopped(t, bar) THEN StoppedOut(t, IF t.armed THEN "TRAIL" ELSE "SL", ev)
      ELSE IF armed /\ behind # {} THEN Raised([t EXCEPT !.armed = TRUE], best)
      ELSE [t EXCEPT !.armed = armed]

\* exit_E: held until a candle rejects the direction of the trade.
Rejects(t, hist) ==
  LET cur == Last(hist)  prev == hist[Len(hist) - 1]
  IN  /\ Len(hist) > 1
      /\ IF t.dir = "BUY" THEN is_bearish_pin(cur) \/ is_bearish_engulf(prev, cur)
                          ELSE is_bullish_pin(cur) \/ is_bullish_engulf(prev, cur)
ExitE(t, bar, hist, ev) ==
  IF Stopped(t, bar) THEN StoppedOut(t, "SL", ev)
  ELSE IF Rejects(t, hist) THEN SwForceClose(t, bar, "OPP_REJ", ev) ELSE t

\* exit_F: break even at 1 R, half at 2 R, then 0.3 R behind the best close.
Runner(t, bar) ==
  LET water == IF Sgn(t) * (bar.c - t.water) > 0 THEN bar.c ELSE t.water
  IN  Raised([t EXCEPT !.water = water], water - Sgn(t) * ((3 * t.risk) \div 10))
ExitF(t, bar, ev) ==
  LET one == IF ~t.armed /\ Reached(t, bar, InR(t, 2))
             THEN Raised([t EXCEPT !.armed = TRUE], t.entry + Sgn(t) * HalfSpread) ELSE t
      half == one.left \div 2
      two == IF one.armed /\ ~one.tp1_hit /\ Reached(one, bar, InR(t, 4))
             THEN [Filled(one, InR(t, 4), half) EXCEPT
                     !.left = one.left - half, !.tp1_hit = TRUE, !.water = InR(t, 4)]
             ELSE one
  IN  IF Stopped(t, bar)
      THEN StoppedOut(t, IF t.tp1_hit THEN "TRAIL" ELSE IF t.armed THEN "BE" ELSE "SL", ev)
      ELSE IF two.tp1_hit THEN Runner(two, bar) ELSE two

\* VARIANTS: the target in halves of R (D and E have none) and the exit.
VARIANTS == {"A", "B", "C", "D", "E", "F"}
SetupTp  == [A |-> 4, B |-> 3, C |-> 6, D |-> 0, E |-> 0, F |-> 4]
ExitOf(v, t, bar, hist, ev) ==
  CASE v \in {"A", "B", "C"} -> FixedTp(t, bar, ev)
    [] v = "D" -> ExitD(t, bar, hist, ev)
    [] v = "E" -> ExitE(t, bar, hist, ev)
    [] v = "F" -> ExitF(t, bar, ev)

\* collect_signals: what the pass of the detector over the same events found.
CollectSignals(e, in) ==
  IF Seek(0, LoadedHtf[e.sym], e.t) > MinHistory /\ in.kind = "signal" THEN {in.sig} ELSE {}

\* Only the stop needs room here; a lot that is too small is refused uncounted.
SwRefusal(s, e, bar, sig) ==
  LET px == SlippedEntry(sig)
  IN  IF bar.spread > 10 * MAX_SPREAD_PIPS THEN "spread"
      ELSE IF Risk(sig, px) <= 0 THEN "levels"
      ELSE IF Risk(sig, px) < MIN_RISK_PIPS THEN "min_risk"
      ELSE IF Lot(s, e, Risk(sig, px)) < LOT_MIN THEN "lot" ELSE "none"
SwTrade(s, e, sig, v) ==
  LET t    == NewTrade(s, e, sig)
      aims == [t EXCEPT !.tp2 = InR(t, SetupTp[v])]
      more == [k |-> e.k, armed |-> FALSE, water |-> 0]
  IN  [f \in DOMAIN aims \cup DOMAIN more |-> IF f \in DOMAIN more THEN more[f] ELSE aims[f]]

SwWalk(s, e, bar, hist, v) ==
  WalkOver(s, e, bar, [i \in DOMAIN s.open |-> ExitOf(v, s.open[i], bar, hist, e.n)])

SwHalt(s, e, dd) ==
  IF ~dd THEN "pass"
  ELSE IF s.halted THEN "stopped"
  ELSE IF DayLost(s, e) THEN "daily_dd"
  ELSE IF DrawnDown(s) THEN "total_dd" ELSE "pass"
SwCaps(s, e) ==
  IF Len(s.open) >= MAX_CONCURRENT THEN "concurrent"
  ELSE IF Counted(s, SfKey(e)) >= MAX_TRADES_PER_DAY_PER_PAIR THEN "pair_day_cap" ELSE "pass"

\* simulate_variant, one event; dd: with the halts.
SwState == MsState
SwEntered(s, e, bar, sig, v) ==
  LET why == IF SwCaps(s, e) # "pass" THEN SwCaps(s, e) ELSE SwRefusal(s, e, bar, sig)
  IN  IF why = "none" THEN EquityLog(Admit(s, SwTrade(s, e, sig, v), SfKey(e)))
                      ELSE Refused(s, why)
SwStep(s, e, bar, in, hist, v, dd) ==
  LET w == DayRoll(SwWalk(s, e, bar, hist, v), e)
  IN  IF SwHalt(w, e, dd) # "pass" THEN Refused(w, SwHalt(w, e, dd))
      ELSE IF CollectSignals(e, in) = {} THEN EquityLog(w)
      ELSE SwEntered(w, e, bar, in.sig, v)

\* After the last event, whether or not a trade was open.
SwFinish(s, lastbar, n) == EquityLog(MsFinish(s, lastbar, n))

SwBook(s, t)        == Book(s, t)
SwEquityLog(s)      == EquityLog(s)
SwMaxDd(curve)      == MaxDdFromCurve(curve)

\* _metrics
Metrics(s) ==
  [n |-> Len(s.closed), wins |-> Len(Wins(s.closed)), losses |-> Len(Losses(s.closed)),
   gross_win |-> Total(Wins(s.closed)), gross_loss |-> -Total(Losses(s.closed)),
   net |-> s.bal - INITIAL_BALANCE, mdd |-> SwMaxDd(s.curve)]

\* print_comparison: the variant of the best factor, and what becomes of the setup.
SwVerdict(pf, wr, mdd) ==
  IF pf >= 130 /\ wr >= 45 /\ mdd <= 80 THEN "KEEP"
  ELSE IF 110 <= pf /\ pf < 130 THEN "FIX" ELSE IF pf < 110 THEN "CUT" ELSE "BORDERLINE"
Pf(m) == ProfitFactor(m.gross_win, m.gross_loss)
Status(m) ==
  LET traded == {v \in VARIANTS : m[v].n > 0}
      kept == {v \in traded : SwVerdict(Pf(m[v]), (100 * m[v].wins) \div m[v].n, m[v].mdd) = "KEEP"}
  IN  IF kept # {} THEN "REVIVED"
      ELSE IF \E v \in traded : Pf(m[v]) >= 130 THEN "PARTIALLY" ELSE "STAYS_CUT"
=============================================================================
