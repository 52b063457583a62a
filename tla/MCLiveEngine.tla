---------------------------- MODULE MCLiveEngine ----------------------------
(***************************************************************************)
(* Instances of LiveEngine for TLC.                                        *)
(***************************************************************************)
EXTENDS LiveEngine, TLC

CONSTANTS eurusd, gbpusd

MCSmallRisk == [s \in Symbols |-> 1]

\* Pairs are alike where none is in the news.
PairsAlike == Permutations(Symbols)

\* What the run of the days looks at: two days and two fills, with answers and
\* stop-outs that go wrong, while the account rests; one day and one fill, with
\* an account that moves or is not known, and deaths; one day with failing polls.
Rests == equity = StartingEquity /\ balance = StartingEquity /\ sample.known
InScope ==
  \/ Rests /\ missed = {} /\ mishaps \subseteq {"ambiguous", "misjudged"}
  \/ day = 0 /\ Len(fills) <= 1 /\ missed = {} /\ mishaps \subseteq {"crash"}
  \/ Rests /\ day = 0 /\ mishaps = {}

-----------------------------------------------------------------------------
(* What comments and docstrings of the repository say of the live program  *)
(* and the program does not do.  Each formula quotes the text it states;   *)
(* the run that checks it shows a behaviour of the code that breaks it.    *)

TradedOn(d) == {i \in DOMAIN Trades : Trades[i].day = d}

\* daily_tracker.py:3 "Rolls at 00:00 IST": a signal refused with
\* daily_trade_cap_reached is refused because two trades were taken today.
\* The tracker rolls only inside a mutator, the engine reads trade_count
\* without one, and the only mutator it calls is behind this very gate.
CapMeansTwoToday ==
  \A s \in Symbols :
    Pending(s) /\ Gate(s) = "daily_trade_cap_reached"
      => Cardinality(TradedOn(at.day)) >= 2

\* compliance.py:5 "Daily loss < 80% of cap? (early-stop margin)": no order
\* leaves once what was realised today, against the balance at 00:00 IST,
\* has reached 80% of the daily cap.
DailyLossGateHolds ==
  pc = "sending" =>
    (day_balance - acct.daily_start_equity) * 10000
       < day_balance * MaxDailyLossPct * SafetyMarginPct
=============================================================================
