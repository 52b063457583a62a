----------------------------- MODULE LiveEngine -----------------------------
(***************************************************************************)
(* The live trading program of scripts/run_asian_sweep_live.py: one poller *)
(* task (data/live_bar_poller.py) drives AsianSweepLiveEngine              *)
(* (execution/live_engine.py) on every new H1 close.  A cycle samples the  *)
(* clock and the account once, scans, takes the surviving signals one by   *)
(* one through the admission gates, sends an order for each one admitted,  *)
(* books it, and then runs the per-bar maintenance of every pair that had  *)
(* a new bar.  Every alert, order and broker call is an await, so between  *)
(* two actions below the clock moves, bars close, the broker fills and     *)
(* closes positions, and the task may be cancelled or the process die.     *)
(*                                                                         *)
(* The broker is modelled from how the code uses it: a fill is an index    *)
(* into fills (its ticket), live is what is open there now.  Prices, lots  *)
(* and stop levels are not here: how maintenance decides that a position   *)
(* was stopped out is PositionManager's business, and the engine only sees *)
(* that some tracked positions are dropped.                                *)
(***************************************************************************)
EXTENDS DailyState, Compliance, Sequences, FiniteSets

CONSTANTS
  Symbols,          \* the configured pairs
  NewsSymbols,      \* pairs blacked out during the "news" phase of a day
  EquityLevels,     \* values account equity and balance move between
  StartingEquity,   \* --starting-equity
  WorstLoss,        \* Symbols -> risk_distance * contract_size * 0.01
  Notional,         \* Symbols -> entry * contract_size * 0.01
  Faults,           \* which of AllFaults the environment may commit
  MaxDay, MaxRun, MaxFills   \* bounds of the instance

AllFaults == {"ambiguous", "crash", "misjudged", "no_account", "poll"}

ASSUME EngineAssumption ==
  /\ NewsSymbols \subseteq Symbols
  /\ EquityLevels \subseteq Nat \ {0}
  /\ StartingEquity \in EquityLevels
  /\ WorstLoss \in [Symbols -> Nat]
  /\ Notional \in [Symbols -> Nat]
  /\ Faults \subseteq AllFaults
  /\ MaxDay \in Nat /\ MaxRun \in Nat /\ MaxFills \in Nat

MaxTotalDdPct       == 8     \* config/asian_sweep_config.py: MAX_TOTAL_DD_PCT
HouseMoneyMaxNumber == 2     \* _HOUSE_MONEY_MAX_TRADE_NUMBER

Directions == {"BUY", "SELL"}
NoSignal   == "none"
NoDay      == -1
NoStamp    == [day |-> 0, phase |-> "pre"]
NoTrade    == [sym |-> NoSignal, dir |-> NoSignal, no |-> 0, ticket |-> 0]

\* An IST day as the gates see it: the entry window 12:30-22:30 is "open"
\* and "news" (a HIGH-impact event inside the window).
Phases    == {"pre", "open", "news", "post"}
InWindow(p) == p \in {"open", "news"}
NextPhase == [pre |-> "open", open |-> "news", news |-> "post", post |-> "pre"]

VARIABLES
  day, phase,        \* the wall clock, in IST
  equity, balance,   \* the account at the broker
  fresh,             \* pairs whose last closed bar the poller has not seen
  missed,            \* history: pairs whose last closed bar no cycle will be given
  fills,             \* every fill of this bot at the broker, in ticket order
  live,              \* tickets open at the broker
  pc,                \* where the poller task is
  at,                \* now_msc of the running cycle
  acct,              \* the AccountState of the running cycle
  sample,            \* history: the account's true equity then, and whether it was read
  todo,              \* per_pair_best not yet processed
  closes,            \* new_closes not yet maintained
  cur,               \* the trade being placed
  tracked,           \* tickets in GriffPositionManager._positions
  daily,             \* DailyTracker.state
  traded_today, traded_day,   \* the engine's per-direction ledger and its day
  hwm,               \* _equity_hwm, 0 for None
  peak,              \* history: the highest equity this process read
  run,               \* history: which process lifetime this is
  mishaps,           \* history: which of AllFaults have happened
  booked,            \* history: tickets the engine recorded as trades, in order
  day_balance        \* history: the balance when the IST day began

clock   == <<day, phase>>
account == <<equity, balance, day_balance>>
broker  == <<fills, live>>
ledgers == <<daily, traded_today, traded_day, booked>>
vars == <<clock, account, fresh, missed, broker, pc, at, acct, sample, todo, closes, cur,
          tracked, ledgers, hwm, peak, run, mishaps>>

-----------------------------------------------------------------------------
NoSignals == [s \in Symbols |-> NoSignal]

\* AccountState as _account_provider of the script builds it; when the
\* terminal gives no account_info, the starting equity stands in for both.
AccountSnapshot(known) ==
  [ equity             |-> IF known THEN equity ELSE StartingEquity,
    starting_equity    |-> StartingEquity,
    daily_start_equity |-> IF known THEN balance ELSE StartingEquity,
    daily_pnl_usd      |-> daily.closed_pnl,
    trades_today       |-> daily.trade_count ]

NoAccount ==
  [ equity |-> StartingEquity, starting_equity |-> StartingEquity,
    daily_start_equity |-> StartingEquity, daily_pnl_usd |-> 0, trades_today |-> 0 ]

NoSample == [equity |-> StartingEquity, known |-> TRUE]

\* A call that returned, raised or was cancelled takes its locals with it.
LocalsGone ==
  /\ at' = NoStamp /\ acct' = NoAccount /\ sample' = NoSample
  /\ todo' = NoSignals /\ closes' = {} /\ cur' = NoTrade

Init ==
  /\ day = 0 /\ phase = "pre"
  /\ equity = StartingEquity /\ balance = StartingEquity
  /\ day_balance = StartingEquity
  /\ fresh = Symbols /\ missed = {}
  /\ fills = <<>> /\ live = {}
  /\ pc = "idle"
  /\ at = NoStamp /\ acct = NoAccount /\ sample = NoSample
  /\ daily = EmptyDay(0, StartingEquity)
  /\ todo = NoSignals /\ closes = {} /\ cur = NoTrade
  /\ tracked = {}
  /\ traded_today = {} /\ traded_day = NoDay
  /\ hwm = 0 /\ peak = 0 /\ run = 0 /\ mishaps = {} /\ booked = <<>>

-----------------------------------------------------------------------------
(***************************************************************************)
(* The environment.                                                        *)
(***************************************************************************)

\* The clock moves on.  A cycle is far shorter than a phase of the day, so
\* while one runs the clock passes at most one boundary.
AdvanceClock ==
  /\ pc \in {"idle", "down"} \/ (at.day = day /\ at.phase = phase)
  /\ phase = "post" => day < MaxDay
  /\ phase' = NextPhase[phase]
  /\ IF phase = "post" THEN day' = day + 1 /\ day_balance' = balance
                       ELSE UNCHANGED <<day, day_balance>>
  /\ UNCHANGED <<equity, balance, fresh, missed, broker, pc, at, acct, sample, todo, closes,
                 cur, tracked, ledgers, hwm, peak, run, mishaps>>

\* An H1 bar of s closes.
BarCloses(s) ==
  /\ fresh' = fresh \cup {s} /\ missed' = missed \ {s}
  /\ UNCHANGED <<clock, account, broker, pc, at, acct, sample, todo, closes, cur,
                 tracked, ledgers, hwm, peak, run, mishaps>>

\* Floating profit and loss of open positions.
EquityMoves ==
  /\ live # {}
  /\ equity' \in EquityLevels
  /\ UNCHANGED <<clock, balance, day_balance, fresh, missed, broker, pc, at, acct, sample,
                 todo, closes, cur, tracked, ledgers, hwm, peak, run, mishaps>>

\* The broker closes a position (SL, TP or by hand) and realises its result.
BrokerCloses(t) ==
  /\ t \in live
  /\ live' = live \ {t}
  /\ balance' \in EquityLevels
  /\ IF live' = {} THEN equity' = balance' ELSE equity' \in EquityLevels
  /\ UNCHANGED <<clock, day_balance, fresh, missed, fills, pc, at, acct, sample, todo, closes,
                 cur, tracked, ledgers, hwm, peak, run, mishaps>>

-----------------------------------------------------------------------------
(***************************************************************************)
(* The scan cycle.                                                         *)
(***************************************************************************)

\* Variant: drawdown measured from the starting equity, not from the peak.
DrawdownBreached_FromStart(top, eq) ==
  (StartingEquity - eq) * 100 >= MaxTotalDdPct * StartingEquity
DrawdownBreached(top, eq) == (top - eq) * 100 >= MaxTotalDdPct * top

\* _equity_hwm after a cycle that was given eq as the equity.
NewHwm(eq) == IF eq > hwm THEN eq ELSE hwm

\* The direction ledger after the roll at the top of process_scan_cycle.
\* Variant: the ledger is cleared on every cycle.
RolledLedger_EveryCycle == {}
RolledLedger == IF traded_day = day THEN traded_today ELSE {}

\* poll_once may return new closes for these pairs: a pair whose rates come
\* back empty is passed over, and its stamp stays.
PollFires(new) == new # {} /\ new \subseteq fresh

\* What the terminal may answer to account_info.
AccountAnswers == IF "no_account" \in Faults THEN BOOLEAN ELSE {TRUE}

\* What the scanner finds: for each pair its best signal, without grade C.
Signals == [Symbols -> Directions \cup {NoSignal}]

\* poll_once found new closes; _fire_engine samples clock and account and
\* process_scan_cycle runs to its first await.
StartCycle ==
  /\ pc = "idle"
  /\ \E new \in SUBSET fresh :
       PollFires(new) /\ closes' = new /\ fresh' = fresh \ new
  /\ at' = [day |-> day, phase |-> phase]
  /\ \E known \in AccountAnswers :
       /\ acct' = AccountSnapshot(known)
       /\ sample' = [equity |-> equity, known |-> known]
       /\ peak' = IF known /\ equity > peak THEN equity ELSE peak
  /\ traded_day' = day
  /\ traded_today' = RolledLedger
  /\ hwm' = NewHwm(acct'.equity)
  /\ IF DrawdownBreached(hwm', acct'.equity) THEN todo' = NoSignals
                                             ELSE todo' \in Signals
  /\ pc' = "scan"
  /\ UNCHANGED <<clock, account, missed, broker, cur, tracked, daily, booked,
                 run, mishaps>>

\* The stamps of these pairs have moved and their closes are never offered.
LosesCloses(pairs) ==
  /\ pc = "idle" /\ "poll" \in Faults
  /\ fresh' = fresh \ pairs /\ missed' = missed \cup pairs
  /\ UNCHANGED <<clock, account, broker, pc, at, acct, sample, todo, closes, cur,
                 tracked, ledgers, hwm, peak, run, mishaps>>

\* The rates of a pair raise: poll_once loses what it found of the pairs
\* before it, whichever come before it.
PollFails ==
  \E new \in SUBSET fresh : PollFires(new) /\ new # Symbols /\ LosesCloses(new)

\* The prices or the account raise: _fire_engine never reaches the scan.
ProvidersRaise ==
  \E new \in SUBSET fresh : PollFires(new) /\ LosesCloses(new)

Blackout(s)     == s \in NewsSymbols /\ at.phase = "news"
\* Variant: only a position in the signal's own direction counts as held.
Held_SameSide(s) == \E t \in tracked : fills[t].sym = s /\ fills[t].dir = todo[s]
Held(s)         == \E t \in tracked : fills[t].sym = s
Proposal(s)     == [worst_loss |-> WorstLoss[s], notional |-> Notional[s]]

ProspectiveNo      == daily.trade_count + 1

\* The admission gates, in the order the code asks them.
Gate(s) ==
  IF Blackout(s)                                         THEN "news_blackout"
  ELSE IF Held(s)                                        THEN "open_position_exists"
  ELSE IF todo[s] \in traded_today                       THEN "direction_already_traded_today"
  ELSE IF ProspectiveNo > HouseMoneyMaxNumber           THEN "daily_trade_cap_reached"
  ELSE CanTrade(Proposal(s), InWindow(at.phase), Blackout(s), acct, FALSE)

Pending(s) == pc = "scan" /\ todo[s] # NoSignal

\* A gate refuses the signal; the loop continues with the next one.
Refuse(s) ==
  /\ Pending(s)
  /\ Gate(s) # "ok"
  /\ todo' = [todo EXCEPT ![s] = NoSignal]
  /\ UNCHANGED <<clock, account, fresh, missed, broker, pc, at, acct, sample, closes, cur,
                 tracked, ledgers, hwm, peak, run, mishaps>>

\* Every gate passed: the trade is numbered and sized, and place_market
\* hands it to the broker.
Admit(s) ==
  /\ Pending(s)
  /\ Gate(s) = "ok"
  /\ cur' = [sym |-> s, dir |-> todo[s], no |-> ProspectiveNo, ticket |-> 0]
  /\ todo' = [todo EXCEPT ![s] = NoSignal]
  /\ pc' = "sending"
  /\ UNCHANGED <<clock, account, fresh, missed, broker, at, acct, sample, closes, tracked,
                 ledgers, hwm, peak, run, mishaps>>

\* The broker fills n orders for the trade in flight.
Filled(n) ==
  LET last == Len(fills)
      new  == [sym |-> cur.sym, dir |-> cur.dir, run |-> run, day |-> at.day]
  IN  /\ last + n <= MaxFills
      /\ fills' = [i \in 1 .. last + n |-> IF i <= last THEN fills[i] ELSE new]
      /\ live' = live \cup (last + 1 .. last + n)

\* A send the broker executed although it answered with an error: retried by
\* _send_with_retry when the code is transient, final otherwise.
Ghosts == IF "ambiguous" \in Faults THEN 0 .. 1 ELSE {0}

\* History: an answer was blurred if the broker has more fills than it said.
Blurred(ghosts) == mishaps \cup (IF ghosts = 0 THEN {} ELSE {"ambiguous"})

\* The position map after register_position(t).
\* Variant: the map is keyed by side, so a position evicts another.
Registered_BySide(t) == {u \in tracked : fills[u].dir # cur.dir} \cup {t}
Registered(t)        == tracked \cup {t}

\* Where the cycle goes on with a filled order, and after one that raised.
\* Variants: without booking it; the poller task ends with the exception.
AfterFill_Unbooked   == "scan"
AfterFill            == "opened"
AfterRaise_TaskEnds  == "ended"
AfterRaise           == "idle"

\* place_market returns and register_position follows without an await.
OrderFilled ==
  /\ pc = "sending"
  /\ \E ghosts \in Ghosts : Filled(ghosts + 1) /\ mishaps' = Blurred(ghosts)
  /\ cur' = [cur EXCEPT !.ticket = Len(fills')]
  /\ tracked' = Registered(Len(fills'))
  /\ pc' = AfterFill
  /\ UNCHANGED <<clock, account, fresh, missed, at, acct, sample, todo, closes, ledgers, hwm, peak, run>>

\* place_market raises (rejected, retries exhausted, duplicate, no answer).
\* The exception leaves process_scan_cycle: the other signals are not looked
\* at and _fire_engine never reaches maintain_open.
OrderRaises ==
  /\ pc = "sending"
  /\ \E ghosts \in Ghosts : Filled(ghosts) /\ mishaps' = Blurred(ghosts)
  /\ LocalsGone
  /\ pc' = AfterRaise
  /\ UNCHANGED <<clock, account, fresh, missed, tracked, ledgers, hwm, peak, run>>

\* After the trade_opened alert: record_trade_open and the direction ledger.
BookTrade ==
  /\ pc = "opened"
  /\ daily' = RecordTradeOpen(daily, at.day)
  /\ traded_today' = traded_today \cup {cur.dir}
  /\ booked' = Append(booked, cur.ticket)
  /\ cur' = NoTrade
  /\ pc' = "scan"
  /\ UNCHANGED <<clock, account, fresh, missed, broker, at, acct, sample, todo, closes,
                 tracked, traded_day, hwm, peak, run, mishaps>>

\* The loop is over (or the drawdown kill switch returned): maintain_open.
EndScan ==
  /\ pc = "scan" /\ todo = NoSignals
  /\ pc' = "maintain"
  /\ UNCHANGED <<clock, account, fresh, missed, broker, at, acct, sample, todo, closes, cur,
                 tracked, ledgers, hwm, peak, run, mishaps>>

\* GriffPositionManager.maintain(s, bar): positions of s whose stop the bar
\* touched leave the map.  One the broker closed at its target stays.  With
\* "misjudged" a position still open at the broker may be dropped.
Maintain(s) ==
  /\ pc = "maintain" /\ s \in closes
  /\ \E stopped \in SUBSET {t \in tracked : fills[t].sym = s} :
       /\ "misjudged" \in Faults \/ stopped \cap live = {}
       /\ tracked' = tracked \ stopped
       /\ mishaps' = mishaps \cup (IF stopped \cap live = {} THEN {} ELSE {"misjudged"})
  /\ closes' = closes \ {s}
  /\ UNCHANGED <<clock, account, fresh, missed, broker, pc, at, acct, sample, todo, cur,
                 ledgers, hwm, peak, run>>

EndCycle ==
  /\ pc = "maintain" /\ closes = {}
  /\ LocalsGone
  /\ pc' = "idle"
  /\ UNCHANGED <<clock, account, fresh, missed, broker, tracked, ledgers, hwm, peak, run, mishaps>>

-----------------------------------------------------------------------------
(***************************************************************************)
(* The process.                                                            *)
(***************************************************************************)

\* The process dies, or stop cancels the poller at an await.  order_send
\* runs in a thread, so an order in flight may still be filled.  Nothing is
\* written, because the tracker has no persist_path: all of it is gone.
Terminate ==
  /\ "crash" \in Faults
  /\ pc # "down" /\ run < MaxRun
  /\ \E n \in IF pc = "sending" THEN 0 .. 1 ELSE {0} : Filled(n)
  /\ LocalsGone
  /\ tracked' = {} /\ traded_today' = {} /\ traded_day' = NoDay
  /\ hwm' = 0 /\ peak' = 0
  /\ daily' = EmptyDay(day, StartingEquity)
  /\ fresh' = Symbols /\ missed' = {}
  /\ pc' = "down" /\ mishaps' = mishaps \cup {"crash"}
  /\ UNCHANGED <<clock, account, booked, run>>

\* A new process: every object is built afresh, nothing is reconciled with
\* the broker, and the last closed bar of every pair is new to the poller.
Restart ==
  /\ pc = "down"
  /\ pc' = "idle" /\ run' = run + 1
  /\ daily' = EmptyDay(day, StartingEquity)
  /\ UNCHANGED <<clock, account, fresh, missed, broker, at, acct, sample, todo, closes, cur,
                 tracked, traded_today, traded_day, booked, hwm, peak,
                 mishaps>>

Cycle ==
  \/ StartCycle
  \/ \E s \in Symbols : Refuse(s) \/ Admit(s) \/ Maintain(s)
  \/ OrderFilled \/ OrderRaises \/ BookTrade
  \/ EndScan \/ EndCycle

Environment ==
  \/ AdvanceClock
  \/ \E s \in Symbols : BarCloses(s)
  \/ EquityMoves
  \/ PollFails \/ ProvidersRaise
  \/ \E t \in live : BrokerCloses(t)

Next == Cycle \/ Environment \/ Terminate \/ Restart

Spec == Init /\ [][Next]_vars

\* The event loop runs a ready task, and every call to the terminal returns.
\* A pair that is polled again and again gets its rates some time.
FairSpec ==
  /\ Spec
  /\ WF_vars(Cycle)
  /\ \A s \in Symbols : SF_vars(StartCycle /\ s \in closes')
-----------------------------------------------------------------------------
(***************************************************************************)
(* Properties.                                                             *)
(***************************************************************************)

Trade == [sym : Symbols, dir : Directions, no : Nat, ticket : Nat]
Fill  == [sym : Symbols, dir : Directions, run : Nat, day : Nat]
Tickets == 1 .. Len(fills)

\* Every variable has the type the code gives it; a ticket that is live,
\* tracked or booked was filled.
TypeOK ==
  /\ day \in Nat /\ phase \in Phases
  /\ equity \in EquityLevels /\ balance \in EquityLevels
  /\ day_balance \in EquityLevels
  /\ fresh \subseteq Symbols /\ missed \subseteq Symbols
  /\ fills \in Seq(Fill) /\ live \subseteq Tickets
  /\ pc \in {"idle", "scan", "sending", "opened", "maintain", "down"}
  /\ at \in [day : Nat, phase : Phases]
  /\ acct \in [ equity : EquityLevels, starting_equity : EquityLevels,
                daily_start_equity : EquityLevels, daily_pnl_usd : Int,
                trades_today : Nat ]
  /\ sample \in [equity : EquityLevels, known : BOOLEAN]
  /\ todo \in Signals /\ closes \subseteq Symbols
  /\ cur \in Trade \cup {NoTrade}
  /\ tracked \subseteq Tickets /\ booked \in Seq(Tickets)
  /\ daily \in DailyStates
  /\ traded_today \subseteq Directions /\ traded_day \in Nat \cup {NoDay}
  /\ hwm \in Nat /\ peak \in Nat /\ run \in Nat /\ mishaps \subseteq AllFaults

\* The booked trades, as the broker filled them.
Trades == [i \in DOMAIN booked |-> fills[booked[i]]]

\* The V5 admission ledger (live_engine.py:190-199): within one process
\* lifetime, no two trades the engine booked on one IST day have the same
\* direction, on whatever symbols and through however many cycles, midnight
\* rolls, failed orders and lost answers.
OneTradePerDirection ==
  \A i, j \in DOMAIN booked :
    /\ Trades[i].run = Trades[j].run
    /\ Trades[i].day = Trades[j].day
    /\ Trades[i].dir = Trades[j].dir
    => i = j

\* The two ledgers of the day, DailyTracker's count and the engine's set of
\* directions, agree whenever they are about the same day; while the count
\* is still that of an earlier day, nothing was traded today.
LedgersAgree ==
  IF daily.trade_day = traded_day
  THEN daily.trade_count = Cardinality(traded_today)
  ELSE traded_today = {}

\* Admission gate #1 (live_engine.py:304-321): the position map never holds
\* two positions on one symbol, whenever they were opened.
OneTrackedPerSymbol ==
  \A t, u \in tracked : fills[t].sym = fills[u].sym => t = u

\* As long as no answer was blurred, no process died and no stop-loss was
\* misjudged, every position open at the broker is in the position map: none
\* goes without trailing and no symbol is doubled.
NothingUntracked == TypeOK /\ (mishaps = {} => live \subseteq tracked)

\* As long as no answer was blurred and no process died, the trades at the
\* broker are exactly those the engine counted, the one being announced
\* excepted: no refusal, failed order or abandoned cycle loses one.
FillsAreBooked ==
  mishaps \cap {"ambiguous", "crash"} = {} =>
    Tickets = {booked[i] : i \in DOMAIN booked}
                \cup (IF pc = "opened" THEN {cur.ticket} ELSE {})

\* SAFETY CAP #3 (live_engine.py:245-275): an order leaves only in a cycle
\* whose sample of the account's equity was less than MAX_TOTAL_DD_PCT below the
\* highest this process read, and less than 80% of the total-loss cap below
\* the starting equity.  A cycle to which the terminal gave no account is
\* excepted: it judges the starting equity in place of the account's.  And
\* sizing does not raise, which would abandon the cycle: the equity is positive,
\* the trade the first or second of its day (house_money.py, calc_trade_risk).
WithinLimits(top, eq) ==
  /\ (top - eq) * 100 < MaxTotalDdPct * top
  /\ (StartingEquity - eq) * 10000 < StartingEquity * MaxTotalLossPct * SafetyMarginPct
KillSwitch ==
  pc = "sending" =>
    /\ cur.no \in {1, 2} /\ acct.equity > 0
    /\ sample.known => WithinLimits(peak, sample.equity)

\* The program implements the trade ledger it promises (TradeLedger): every
\* step books one legal trade or none.
Ledger == INSTANCE TradeLedger
            WITH trades <- Trades, Cap <- HouseMoneyMaxNumber,
                 Runs <- 0 .. MaxRun, Days <- 0 .. MaxDay
LedgerSpec == Ledger!Spec

\* No closed bar stays unseen, so every cycle ends: after whatever refusals,
\* fills and failures of the running one, a pair with a new close is given to a
\* later cycle.  The one way round is a poll that raised after the stamp of the
\* pair had moved, or a provider that raised before the scan
\* (live_bar_poller.py:89-91, 106-110, 140-141).
BarsReachEngine ==
  \A s \in Symbols :
    s \in fresh ~> \/ s \notin fresh /\ s \in closes \cup missed
                   \/ pc = "down"
=============================================================================
