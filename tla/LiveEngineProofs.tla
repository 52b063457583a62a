-------------------------- MODULE LiveEngineProofs --------------------------
(***************************************************************************)
(* Proofs about LiveEngine, for every set of pairs, every broker and every *)
(* choice of the constants: one trade per direction; the position map      *)
(* holds one position a symbol, the two ledgers of the day agree, the      *)
(* program implements TradeLedger, no position goes untracked, every fill  *)
(* is booked, and no order leaves past the kill switch.                    *)
(***************************************************************************)
EXTENDS LiveEngine, FiniteSetTheorems, TLAPS

\* The trade in flight is well formed from its admission to its booking.
CurOK ==
  /\ pc \in {"sending", "opened"} => cur \in Trade
  /\ pc = "opened" => cur.ticket \in Tickets

TypeInv == TypeOK /\ CurOK

-----------------------------------------------------------------------------
(* Lemmas about the daily snapshot. *)

\* A fresh day is a snapshot.
LEMMA EmptyDayType ==
  ASSUME NEW d \in Nat, NEW e \in Int
  PROVE  EmptyDay(d, e) \in DailyStates
BY DEF EmptyDay, DailyStates

\* Rolling a snapshot gives a snapshot of the day rolled to.
LEMMA RolledType ==
  ASSUME NEW s \in DailyStates, NEW d \in Nat
  PROVE  Rolled(s, d) \in DailyStates /\ Rolled(s, d).trade_day = d
<1>1. CASE d = s.trade_day
  BY <1>1 DEF Rolled, DailyStates
<1>2. CASE d # s.trade_day
  <2>1. s.peak_equity - s.max_dd_today + s.closed_pnl + s.floating_pnl \in Int
    BY DEF DailyStates
  <2> QED BY <1>2, <2>1 DEF Rolled, EmptyDay, DailyStates
<1> QED BY <1>1, <1>2

\* Recording an opened trade gives a snapshot of the day it was opened on.
LEMMA RecordTradeOpenType ==
  ASSUME NEW s \in DailyStates, NEW d \in Nat
  PROVE  RecordTradeOpen(s, d) \in DailyStates
BY RolledType DEF RecordTradeOpen, DailyStates

-----------------------------------------------------------------------------
(* Lemmas about fills. *)

\* Orders filled for the trade in flight are appended: the tickets already
\* given out keep their fills, and the new ones all carry the trade's data.
LEMMA FilledExtends ==
  ASSUME TypeOK, NEW n \in Nat, Filled(n), n > 0 => cur \in Trade
  PROVE  /\ fills' \in Seq(Fill)
         /\ Len(fills') = Len(fills) + n
         /\ \A t \in Tickets : t \in Tickets' /\ fills'[t] = fills[t]
         /\ \A t \in Tickets' \ Tickets :
              fills'[t] = [sym |-> cur.sym, dir |-> cur.dir, run |-> run, day |-> at.day]
         /\ live' \subseteq Tickets'
<1> DEFINE last == Len(fills)
           new  == [sym |-> cur.sym, dir |-> cur.dir, run |-> run, day |-> at.day]
<1>1. last \in Nat /\ fills \in Seq(Fill) /\ DOMAIN fills = 1 .. last
  BY DEF TypeOK
<1>2. fills' = [i \in 1 .. last + n |-> IF i <= last THEN fills[i] ELSE new]
  BY DEF Filled
<1>3. \A i \in 1 .. last + n : (IF i <= last THEN fills[i] ELSE new) \in Fill
  <2> SUFFICES ASSUME NEW i \in 1 .. last + n
               PROVE  (IF i <= last THEN fills[i] ELSE new) \in Fill
    OBVIOUS
  <2>1. CASE i <= last
    BY <1>1, <2>1
  <2>2. CASE ~(i <= last)
    <3>1. n > 0
      BY <1>1, <2>2
    <3>2. cur.sym \in Symbols /\ cur.dir \in Directions
      BY <3>1 DEF Trade
    <3>3. run \in Nat /\ at.day \in Nat
      BY DEF TypeOK
    <3> QED BY <2>2, <3>2, <3>3 DEF Fill
  <2> QED BY <2>1, <2>2
<1>4. fills' \in Seq(Fill) /\ Len(fills') = last + n
  <2> HIDE DEF new
  <2> QED BY <1>1, <1>2, <1>3
<1>5. \A t \in Tickets : t \in Tickets' /\ fills'[t] = fills[t]
  BY <1>1, <1>2, <1>4 DEF Tickets
<1>6. \A t \in Tickets' \ Tickets : fills'[t] = new
  BY <1>1, <1>2, <1>4 DEF Tickets
<1>7. live' \subseteq Tickets'
  <2>1. live' = live \cup (last + 1 .. last + n)
    BY DEF Filled
  <2>2. Tickets = 1 .. last /\ Tickets' = 1 .. last + n
    BY <1>4 DEF Tickets
  <2>3. live \subseteq Tickets
    BY DEF TypeOK
  <2>4. last \in Nat
    BY <1>1
  <2> HIDE DEF new, last
  <2>5. 1 .. last \subseteq 1 .. last + n /\ last + 1 .. last + n \subseteq 1 .. last + n
    BY <2>4
  <2> QED BY <2>1, <2>2, <2>3, <2>5
<1> QED BY <1>4, <1>5, <1>6, <1>7

\* Sequences of tickets stay sequences of tickets when tickets are added.
LEMMA BookedExtends ==
  ASSUME booked \in Seq(Tickets), Tickets \subseteq Tickets'
  PROVE  booked \in Seq(Tickets')
OBVIOUS

\* A poll or a provider that raises only moves stamps.
LEMMA PollsMiss ==
  ASSUME TypeOK, PollFails \/ ProvidersRaise
  PROVE  /\ fresh' \subseteq Symbols /\ missed' \subseteq Symbols
         /\ UNCHANGED <<clock, account, broker, pc, at, acct, sample, todo, closes, cur,
                        tracked, ledgers, hwm, peak, run, mishaps>>
<1>1. PICK new \in SUBSET fresh : LosesCloses(new)
  BY DEF PollFails, ProvidersRaise
<1> QED BY <1>1 DEF LosesCloses, TypeOK

-----------------------------------------------------------------------------
(* The type invariant. *)

LEMMA TypeInit == Init => TypeInv
<1> SUFFICES ASSUME Init PROVE TypeInv
  OBVIOUS
<1> USE EngineAssumption
<1>1. daily \in DailyStates
  BY EmptyDayType DEF Init
<1>2. fills \in Seq(Fill) /\ booked \in Seq(Tickets) /\ Tickets = {}
  BY DEF Init, Tickets
<1>3. acct \in [ equity : EquityLevels, starting_equity : EquityLevels,
                 daily_start_equity : EquityLevels, daily_pnl_usd : Int,
                 trades_today : Nat ]
  BY DEF Init, NoAccount
<1>4. TypeOK
  BY <1>1, <1>2, <1>3
     DEF Init, TypeOK, Phases, NoSignals, Signals, NoStamp, NoDay, NoSample
<1>5. CurOK
  BY DEF Init, CurOK
<1> QED BY <1>4, <1>5 DEF TypeInv

\* What the end of a cycle leaves in the locals has its type.
LEMMA LocalsGoneType ==
  ASSUME LocalsGone
  PROVE  /\ at' \in [day : Nat, phase : Phases]
         /\ acct' \in [ equity : EquityLevels, starting_equity : EquityLevels,
                        daily_start_equity : EquityLevels, daily_pnl_usd : Int,
                        trades_today : Nat ]
         /\ sample' \in [equity : EquityLevels, known : BOOLEAN]
         /\ todo' \in Signals
         /\ closes' \subseteq Symbols
         /\ cur' = NoTrade
BY EngineAssumption DEF LocalsGone, NoStamp, NoAccount, NoSample, NoSignals, Signals, Phases

LEMMA TypeStep == TypeInv /\ [Next]_vars => TypeInv'
<1> SUFFICES ASSUME TypeInv, [Next]_vars PROVE TypeInv'
  OBVIOUS
<1> USE EngineAssumption
<1>t. TypeOK /\ CurOK
  BY DEF TypeInv
<1>1. CASE StartCycle
  <2>1. acct' \in [ equity : EquityLevels, starting_equity : EquityLevels,
                    daily_start_equity : EquityLevels, daily_pnl_usd : Int,
                    trades_today : Nat ]
    <3>1. PICK known \in AccountAnswers : acct' = AccountSnapshot(known)
      BY <1>1 DEF StartCycle
    <3>2. /\ daily.closed_pnl \in Int /\ daily.trade_count \in Nat
          /\ equity \in EquityLevels /\ balance \in EquityLevels
      BY <1>t DEF TypeOK, DailyStates
    <3>3. CASE known = TRUE
      BY <3>1, <3>2, <3>3 DEF AccountSnapshot
    <3>4. CASE known = FALSE
      BY <3>1, <3>2, <3>4 DEF AccountSnapshot
    <3> QED BY <3>3, <3>4 DEF AccountAnswers
  <2>6. /\ sample' \in [equity : EquityLevels, known : BOOLEAN]
        /\ peak' \in Nat
    <3>1. PICK known \in AccountAnswers :
            /\ sample' = [equity |-> equity, known |-> known]
            /\ peak' = IF known /\ equity > peak THEN equity ELSE peak
      BY <1>1 DEF StartCycle
    <3>2. known \in BOOLEAN
      BY DEF AccountAnswers
    <3>3. equity \in EquityLevels /\ equity \in Nat /\ peak \in Nat
      BY <1>t DEF TypeOK
    <3>4. peak' \in Nat
      BY <3>1, <3>3
    <3> QED BY <3>1, <3>2, <3>3, <3>4
  <2>7. closes' \subseteq Symbols /\ fresh' \subseteq Symbols
    BY <1>t, <1>1 DEF TypeOK, StartCycle, PollFires
  <2>2. hwm' \in Nat
    <3>1. acct'.equity \in EquityLevels /\ hwm' = NewHwm(acct'.equity)
      BY <1>1, <2>1 DEF StartCycle
    <3> QED BY <1>t, <3>1 DEF TypeOK, NewHwm
  <2>3. todo' \in Signals
    BY <1>t, <1>1 DEF TypeOK, StartCycle, NoSignals, Signals
  <2>4. TypeOK'
    BY <1>t, <1>1, <2>1, <2>2, <2>3, <2>6, <2>7
       DEF TypeOK, StartCycle, clock, account, broker, RolledLedger, Tickets
  <2>5. CurOK'
    BY <1>1 DEF CurOK, StartCycle
  <2> QED BY <2>4, <2>5 DEF TypeInv
<1>2. ASSUME NEW s \in Symbols, Refuse(s) PROVE TypeInv'
  BY <1>t, <1>2 DEF TypeInv, TypeOK, CurOK, Refuse, Signals, Tickets,
     clock, account, broker, ledgers
<1>3. ASSUME NEW s \in Symbols, Admit(s) PROVE TypeInv'
  <2>1. cur' \in Trade
    <3>1. todo[s] \in Directions
      BY <1>t, <1>3 DEF TypeOK, Admit, Pending, Signals
    <3>2. ProspectiveNo \in Nat
      BY <1>t DEF TypeOK, DailyStates, ProspectiveNo
    <3> QED BY <1>3, <3>1, <3>2 DEF Admit, Trade
  <2>2. TypeOK'
    BY <1>t, <1>3, <2>1 DEF TypeOK, Admit, Signals, Tickets,
       clock, account, broker, ledgers
  <2>3. CurOK'
    BY <1>3, <2>1 DEF CurOK, Admit
  <2> QED BY <2>2, <2>3 DEF TypeInv
<1>4. ASSUME NEW s \in Symbols, Maintain(s) PROVE TypeInv'
  BY <1>t, <1>4 DEF TypeInv, TypeOK, CurOK, Maintain, AllFaults, Tickets,
     clock, account, broker, ledgers
<1>5. CASE OrderFilled
  <2>1. PICK n \in Nat : n > 0 /\ Filled(n)
    BY <1>5 DEF OrderFilled, Ghosts
  <2>3. cur \in Trade
    BY <1>t, <1>5 DEF OrderFilled, CurOK
  <2>4. /\ fills' \in Seq(Fill)
        /\ Len(fills') = Len(fills) + n
        /\ \A t \in Tickets : t \in Tickets'
        /\ live' \subseteq Tickets'
    BY <1>t, <2>1, <2>3, FilledExtends
  <2>5. Len(fills') \in Tickets'
    <3>1. Len(fills) \in Nat
      BY <1>t DEF TypeOK
    <3> QED BY <2>1, <2>4, <3>1 DEF Tickets
  <2>6. tracked' \subseteq Tickets'
    BY <1>t, <1>5, <2>4, <2>5 DEF TypeOK, OrderFilled, Registered
  <2>7. booked' \in Seq(Tickets')
    <3>1. booked' = booked
      BY <1>5 DEF OrderFilled, ledgers
    <3> QED BY <1>t, <2>4, <3>1, BookedExtends DEF TypeOK
  <2>8. cur' \in Trade /\ cur'.ticket = Len(fills')
    <3>1. Len(fills') \in Nat
      BY <2>4
    <3>2. cur' = [cur EXCEPT !.ticket = Len(fills')]
      BY <1>5 DEF OrderFilled
    <3> QED BY <2>3, <3>1, <3>2 DEF Trade
  <2>9. TypeOK'
    BY <1>t, <1>5, <2>4, <2>6, <2>7, <2>8
       DEF TypeOK, OrderFilled, AfterFill, Blurred, AllFaults, clock, account, ledgers
  <2>10. CurOK'
    BY <1>5, <2>5, <2>8 DEF CurOK, OrderFilled
  <2> QED BY <2>9, <2>10 DEF TypeInv
<1>6. CASE OrderRaises
  <2>1. PICK ghosts \in Ghosts : Filled(ghosts)
    BY <1>6 DEF OrderRaises
  <2>2. ghosts \in Nat /\ cur \in Trade
    BY <1>t, <1>6 DEF Ghosts, OrderRaises, CurOK
  <2>3. /\ fills' \in Seq(Fill)
        /\ \A t \in Tickets : t \in Tickets'
        /\ live' \subseteq Tickets'
    BY <1>t, <2>1, <2>2, FilledExtends
  <2>4. booked' \in Seq(Tickets') /\ tracked' \subseteq Tickets'
    <3>1. booked' = booked /\ tracked' = tracked
      BY <1>6 DEF OrderRaises, ledgers
    <3> QED BY <1>t, <2>3, <3>1, BookedExtends DEF TypeOK
  <2>5. LocalsGone
    BY <1>6 DEF OrderRaises
  <2>6. TypeOK'
    BY <1>t, <1>6, <2>3, <2>4, <2>5, LocalsGoneType
       DEF TypeOK, OrderRaises, AfterRaise, Blurred, AllFaults, clock, account, ledgers
  <2>7. CurOK'
    BY <1>6 DEF CurOK, OrderRaises, AfterRaise
  <2> QED BY <2>6, <2>7 DEF TypeInv
<1>7. CASE BookTrade
  <2>1. daily' \in DailyStates
    BY <1>t, <1>7, RecordTradeOpenType DEF BookTrade, TypeOK
  <2>2. Tickets' = Tickets
    BY <1>7 DEF BookTrade, broker, Tickets
  <2>3. booked' \in Seq(Tickets')
    BY <1>t, <1>7, <2>2 DEF BookTrade, TypeOK, CurOK
  <2>4. traded_today' \subseteq Directions
    BY <1>t, <1>7 DEF BookTrade, TypeOK, CurOK, Trade
  <2>5. TypeOK'
    BY <1>t, <1>7, <2>1, <2>2, <2>3, <2>4
       DEF TypeOK, BookTrade, clock, account, broker
  <2>6. CurOK'
    BY <1>7 DEF CurOK, BookTrade
  <2> QED BY <2>5, <2>6 DEF TypeInv
<1>8. CASE EndScan
  BY <1>t, <1>8 DEF TypeInv, TypeOK, CurOK, EndScan, Tickets,
     clock, account, broker, ledgers
<1>9. CASE EndCycle
  <2>1. LocalsGone
    BY <1>9 DEF EndCycle
  <2>2. TypeOK'
    BY <1>t, <1>9, <2>1, LocalsGoneType DEF TypeOK, EndCycle, Tickets,
       clock, account, broker, ledgers
  <2>3. CurOK'
    BY <1>9 DEF CurOK, EndCycle
  <2> QED BY <2>2, <2>3 DEF TypeInv
<1>10. CASE AdvanceClock
  <2>1. day' \in Nat /\ phase' \in Phases /\ day_balance' \in EquityLevels
    BY <1>t, <1>10 DEF TypeOK, AdvanceClock, NextPhase, Phases
  <2> QED BY <1>t, <1>10, <2>1 DEF TypeInv, TypeOK, CurOK, AdvanceClock, Tickets,
          broker, ledgers
<1>11. ASSUME NEW s \in Symbols, BarCloses(s)
       PROVE  TypeInv'
  BY <1>t, <1>11 DEF TypeInv, TypeOK, CurOK, BarCloses, Tickets,
     clock, account, broker, ledgers
<1>12. CASE EquityMoves
  BY <1>t, <1>12 DEF TypeInv, TypeOK, CurOK, EquityMoves, Tickets,
     clock, broker, ledgers
<1>13. ASSUME NEW t \in live, BrokerCloses(t) PROVE TypeInv'
  BY <1>t, <1>13 DEF TypeInv, TypeOK, CurOK, BrokerCloses, Tickets,
     clock, ledgers
<1>14. CASE Terminate
  <2>1. PICK n \in IF pc = "sending" THEN 0 .. 1 ELSE {0} : Filled(n)
    BY <1>14 DEF Terminate
  <2>2. n \in Nat /\ (n > 0 => cur \in Trade)
    BY <1>t DEF CurOK
  <2>3. /\ fills' \in Seq(Fill)
        /\ \A t \in Tickets : t \in Tickets'
        /\ live' \subseteq Tickets'
    BY <1>t, <2>1, <2>2, FilledExtends
  <2>4. booked' \in Seq(Tickets') /\ tracked' \subseteq Tickets'
    <3>1. booked' = booked /\ tracked' = {}
      BY <1>14 DEF Terminate
    <3> QED BY <1>t, <2>3, <3>1, BookedExtends DEF TypeOK
  <2>5. LocalsGone
    BY <1>14 DEF Terminate
  <2>6. daily' \in DailyStates
    BY <1>t, <1>14, EmptyDayType DEF Terminate, TypeOK
  <2>7. TypeOK'
    BY <1>t, <1>14, <2>3, <2>4, <2>5, <2>6, LocalsGoneType
       DEF TypeOK, Terminate, AllFaults, clock, account
  <2>8. CurOK'
    BY <1>14 DEF CurOK, Terminate
  <2> QED BY <2>7, <2>8 DEF TypeInv
<1>15. CASE Restart
  <2>1. daily' \in DailyStates
    BY <1>t, <1>15, EmptyDayType DEF Restart, TypeOK
  <2>2. TypeOK'
    BY <1>t, <1>15, <2>1 DEF TypeOK, Restart, Tickets, clock, account, broker
  <2>3. CurOK'
    BY <1>15 DEF CurOK, Restart
  <2> QED BY <2>2, <2>3 DEF TypeInv
<1>16. CASE UNCHANGED vars
  BY <1>t, <1>16 DEF TypeInv, TypeOK, CurOK, Tickets, vars,
     clock, account, broker, ledgers
<1>17. CASE PollFails \/ ProvidersRaise
  BY <1>t, <1>17, PollsMiss DEF TypeInv, TypeOK, CurOK, Tickets,
     clock, account, broker, ledgers
<1> QED BY <1>1, <1>2, <1>3, <1>4, <1>5, <1>6, <1>7, <1>8, <1>9, <1>10, <1>11,
           <1>12, <1>13, <1>14, <1>15, <1>16, <1>17 DEF Next, Cycle, Environment

\* Every variable of the live program keeps its type through cycles, failed
\* sends, crashes and restarts; a ticket that is live, tracked or booked was
\* filled (live_engine.py, live_bar_poller.py, run_asian_sweep_live.py).
THEOREM TypeCorrect == Spec => []TypeOK
<1>1. TypeInv => TypeOK
  BY DEF TypeInv
<1> QED BY TypeInit, TypeStep, <1>1, PTL DEF Spec

-----------------------------------------------------------------------------
(***************************************************************************)
(* One trade per direction.                                                *)
(*                                                                         *)
(* The property speaks of the whole history of trades; the program only    *)
(* remembers a set of directions and the day it is about.  The invariant   *)
(* says what that memory is worth: no trade of this process lifetime is    *)
(* later than traded_day, those of traded_day have their direction in      *)
(* traded_today, and the trade in flight is about traded_day and is of a   *)
(* direction that is not in it yet.                                        *)
(***************************************************************************)
InCycle == pc \in {"scan", "sending", "opened", "maintain"}

CycleDay ==
  /\ traded_day <= day
  /\ InCycle => traded_day = at.day

InFlightIsNew ==
  /\ pc \in {"sending", "opened"} => cur.dir \notin traded_today
  /\ pc = "opened" =>
       /\ fills[cur.ticket].dir = cur.dir
       /\ fills[cur.ticket].run = run
       /\ fills[cur.ticket].day = at.day

RunsSoFar == \A i \in DOMAIN Trades : Trades[i].run <= run

LedgerRemembers ==
  pc # "down" =>
    \A i \in DOMAIN Trades : Trades[i].run = run =>
      /\ Trades[i].day <= traded_day
      /\ Trades[i].day = traded_day => Trades[i].dir \in traded_today

DirectionInv ==
  /\ TypeInv /\ CycleDay /\ InFlightIsNew
  /\ RunsSoFar /\ LedgerRemembers /\ OneTradePerDirection

\* What was booked is not changed by orders filled later.
LEMMA TradesStable ==
  ASSUME TypeOK, booked' = booked,
         \A t \in Tickets : fills'[t] = fills[t]
  PROVE  Trades' = Trades
<1>1. \A i \in DOMAIN booked : booked[i] \in Tickets
  BY DEF TypeOK
<1> QED BY <1>1 DEF Trades

\* A booked trade is a fill.
LEMMA TradesAreFills ==
  ASSUME TypeOK
  PROVE  \A i \in DOMAIN Trades : Trades[i] \in Fill
<1>1. \A i \in DOMAIN booked : booked[i] \in Tickets
  BY DEF TypeOK
<1>2. \A t \in Tickets : fills[t] \in Fill
  BY DEF TypeOK, Tickets
<1> QED BY <1>1, <1>2 DEF Trades

\* The steps that book nothing and leave the day's ledger, the process and
\* its trades alone keep the history part of the invariant.
LEMMA HistoryStable ==
  ASSUME RunsSoFar, LedgerRemembers, OneTradePerDirection,
         Trades' = Trades, booked' = booked, run' = run, pc # "down",
         traded_day' = traded_day, traded_today' = traded_today
  PROVE  RunsSoFar' /\ LedgerRemembers' /\ OneTradePerDirection'
BY DEF RunsSoFar, LedgerRemembers, OneTradePerDirection

LEMMA DirectionInit == Init => DirectionInv
<1> SUFFICES ASSUME Init PROVE DirectionInv
  OBVIOUS
<1>1. DOMAIN booked = {} /\ DOMAIN Trades = {}
  BY DEF Init, Trades
<1> QED BY <1>1, TypeInit DEF Init, DirectionInv, CycleDay, InCycle, InFlightIsNew,
        RunsSoFar, LedgerRemembers, OneTradePerDirection, NoDay

LEMMA DirectionStep == DirectionInv /\ [Next]_vars => DirectionInv'
<1> SUFFICES ASSUME DirectionInv, [Next]_vars PROVE DirectionInv'
  OBVIOUS
<1>t. TypeInv' /\ TypeOK /\ CurOK
  BY TypeStep DEF DirectionInv, TypeInv
<1>i. CycleDay /\ InFlightIsNew /\ RunsSoFar /\ LedgerRemembers /\ OneTradePerDirection
  BY DEF DirectionInv
<1>q. ASSUME UNCHANGED <<fills, booked, run, traded_day, traded_today>>,
             pc' = "down" <=> pc = "down"
      PROVE  RunsSoFar' /\ LedgerRemembers' /\ OneTradePerDirection'
  <2>1. Trades' = Trades
    BY <1>q DEF Trades
  <2> QED BY <1>i, <1>q, <2>1 DEF RunsSoFar, LedgerRemembers, OneTradePerDirection
<1>1. CASE StartCycle
  <2>1. Trades' = Trades /\ booked' = booked /\ run' = run
    BY <1>1 DEF StartCycle, broker, Trades
  <2>2. CycleDay' /\ InFlightIsNew'
    BY <1>1, <1>t DEF StartCycle, CycleDay, InFlightIsNew, InCycle, clock, TypeOK
  <2>3. LedgerRemembers'
    <3> SUFFICES ASSUME NEW i \in DOMAIN Trades, Trades[i].run = run
                 PROVE  /\ Trades[i].day <= day
                        /\ Trades[i].day = day => Trades[i].dir \in RolledLedger
      BY <1>1, <2>1 DEF StartCycle, LedgerRemembers
    <3>1. /\ Trades[i].day <= traded_day
          /\ Trades[i].day = traded_day => Trades[i].dir \in traded_today
      BY <1>1, <1>i DEF StartCycle, LedgerRemembers
    <3>2. Trades[i].day \in Nat /\ traded_day \in Int /\ day \in Nat /\ traded_day <= day
      BY <1>t, <1>i, TradesAreFills DEF Fill, TypeOK, NoDay, CycleDay
    <3> QED BY <3>1, <3>2 DEF RolledLedger
  <2>4. RunsSoFar' /\ OneTradePerDirection'
    BY <1>i, <2>1 DEF RunsSoFar, OneTradePerDirection
  <2> QED BY <1>t, <2>2, <2>3, <2>4 DEF DirectionInv
<1>2. ASSUME NEW s \in Symbols, Refuse(s) PROVE DirectionInv'
  BY <1>2, <1>t, <1>i, <1>q DEF DirectionInv, Refuse, Pending, CycleDay, InCycle,
     InFlightIsNew, clock, account, broker, ledgers
<1>3. ASSUME NEW s \in Symbols, Admit(s) PROVE DirectionInv'
  <2>1. todo[s] \notin traded_today /\ cur'.dir = todo[s]
    BY <1>3 DEF Admit, Gate
  <2> QED BY <1>3, <1>t, <1>i, <1>q, <2>1 DEF DirectionInv, Admit, Pending, CycleDay,
          InCycle, InFlightIsNew, clock, account, broker, ledgers
<1>4. ASSUME NEW s \in Symbols, Maintain(s) PROVE DirectionInv'
  BY <1>4, <1>t, <1>i, <1>q DEF DirectionInv, Maintain, CycleDay, InCycle,
     InFlightIsNew, clock, account, broker, ledgers
<1>5. CASE OrderFilled
  <2>1. PICK n \in Nat : n > 0 /\ Filled(n)
    BY <1>5 DEF OrderFilled, Ghosts
  <2>2. cur \in Trade
    BY <1>5, <1>t DEF OrderFilled, CurOK
  <2>3. /\ Len(fills') = Len(fills) + n
        /\ \A t \in Tickets : fills'[t] = fills[t]
        /\ \A t \in Tickets' \ Tickets :
             fills'[t] = [sym |-> cur.sym, dir |-> cur.dir, run |-> run, day |-> at.day]
    BY <1>t, <2>1, <2>2, FilledExtends
  <2>4. booked' = booked /\ run' = run /\ at' = at /\ day' = day
        /\ traded_day' = traded_day /\ traded_today' = traded_today
    BY <1>5 DEF OrderFilled, ledgers, clock
  <2>5. cur'.dir = cur.dir /\ cur'.ticket = Len(fills')
    BY <1>5, <2>2 DEF OrderFilled, Trade
  <2>6. cur'.ticket \in Tickets' \ Tickets
    <3>1. Len(fills) \in Nat
      BY <1>t DEF TypeOK
    <3> QED BY <2>1, <2>3, <2>5, <3>1 DEF Tickets
  <2>7. InFlightIsNew'
    BY <1>5, <1>i, <2>3, <2>4, <2>5, <2>6 DEF InFlightIsNew, OrderFilled, AfterFill
  <2>8. CycleDay'
    BY <1>5, <1>i, <2>4 DEF CycleDay, InCycle, OrderFilled, AfterFill
  <2>9. Trades' = Trades
    BY <1>t, <2>3, <2>4, TradesStable
  <2>10. RunsSoFar' /\ LedgerRemembers' /\ OneTradePerDirection'
    BY <1>5, <1>i, <2>4, <2>9, HistoryStable DEF OrderFilled, AfterFill
  <2> QED BY <1>t, <2>7, <2>8, <2>10 DEF DirectionInv
<1>6. CASE OrderRaises
  <2>1. PICK n \in Nat : Filled(n)
    BY <1>6 DEF OrderRaises, Ghosts
  <2>2. cur \in Trade
    BY <1>6, <1>t DEF OrderRaises, CurOK
  <2>3. \A t \in Tickets : fills'[t] = fills[t]
    BY <1>t, <2>1, <2>2, FilledExtends
  <2>4. booked' = booked /\ run' = run /\ day' = day
        /\ traded_day' = traded_day /\ traded_today' = traded_today
    BY <1>6 DEF OrderRaises, ledgers, clock
  <2>5. CycleDay' /\ InFlightIsNew'
    BY <1>6, <1>i, <2>4 DEF CycleDay, InCycle, InFlightIsNew, OrderRaises, AfterRaise
  <2>6. RunsSoFar' /\ LedgerRemembers' /\ OneTradePerDirection'
    BY <1>6, <1>t, <1>i, <2>3, <2>4, TradesStable, HistoryStable DEF OrderRaises, AfterRaise
  <2> QED BY <1>t, <2>5, <2>6 DEF DirectionInv
<1>7. CASE BookTrade
  <2> DEFINE x == fills[cur.ticket]
             n == Len(booked)
  <2>1. x.dir = cur.dir /\ x.run = run /\ x.day = at.day /\ at.day = traded_day
    BY <1>7, <1>i DEF BookTrade, InFlightIsNew, CycleDay, InCycle
  <2>2. /\ booked' = Append(booked, cur.ticket) /\ fills' = fills /\ run' = run
        /\ traded_day' = traded_day /\ traded_today' = traded_today \cup {cur.dir}
        /\ pc' = "scan" /\ at' = at /\ day' = day
    BY <1>7 DEF BookTrade, broker, clock
  <2>3. booked \in Seq(Tickets) /\ cur.ticket \in Tickets /\ n \in Nat
    BY <1>7, <1>t DEF TypeOK, CurOK, BookTrade
  <2>4. /\ DOMAIN booked' = DOMAIN booked \cup {n + 1}
        /\ n + 1 \notin DOMAIN booked
        /\ booked'[n + 1] = cur.ticket
        /\ \A i \in DOMAIN booked : booked'[i] = booked[i]
    BY <2>2, <2>3
  <2>5. /\ DOMAIN Trades = DOMAIN booked
        /\ DOMAIN Trades' = DOMAIN booked \cup {n + 1}
        /\ Trades'[n + 1] = x
        /\ \A i \in DOMAIN booked : Trades'[i] = Trades[i]
    BY <2>2, <2>4 DEF Trades
  <2>6. pc # "down" /\ cur.dir \notin traded_today
    BY <1>7, <1>i DEF BookTrade, InFlightIsNew
  <2>7. \A i \in DOMAIN booked :
          ~(Trades[i].run = x.run /\ Trades[i].day = x.day /\ Trades[i].dir = x.dir)
    BY <1>i, <2>1, <2>5, <2>6 DEF LedgerRemembers
  <2>8. run \in Nat /\ traded_day \in Int
    BY <1>t DEF TypeOK, NoDay
  <2>9. RunsSoFar'
    BY <1>i, <2>1, <2>2, <2>5, <2>8 DEF RunsSoFar
  <2>10. LedgerRemembers'
    BY <1>i, <2>1, <2>2, <2>5, <2>6, <2>8 DEF LedgerRemembers
  <2>11. OneTradePerDirection'
    <3> HIDE DEF n, x
    <3> QED BY <1>i, <2>4, <2>5, <2>7 DEF OneTradePerDirection
  <2>12. CycleDay' /\ InFlightIsNew'
    BY <1>7, <1>i, <2>2 DEF CycleDay, InCycle, InFlightIsNew, BookTrade
  <2> QED BY <1>t, <2>9, <2>10, <2>11, <2>12 DEF DirectionInv
<1>8. CASE EndScan
  BY <1>8, <1>t, <1>i, <1>q DEF DirectionInv, EndScan, CycleDay, InCycle,
     InFlightIsNew, clock, account, broker, ledgers
<1>9. CASE EndCycle
  BY <1>9, <1>t, <1>i, <1>q DEF DirectionInv, EndCycle, CycleDay, InCycle,
     InFlightIsNew, clock, account, broker, ledgers
<1>10. CASE AdvanceClock
  <2>1. day' \in Nat /\ day \in Nat /\ day <= day' /\ traded_day \in Int
    BY <1>10, <1>t DEF AdvanceClock, TypeOK, NoDay
  <2> QED BY <1>10, <1>t, <1>i, <1>q, <2>1 DEF DirectionInv, AdvanceClock, CycleDay,
          InCycle, InFlightIsNew, broker, ledgers
<1>11. ASSUME NEW s \in Symbols, BarCloses(s)
       PROVE  DirectionInv'
  BY <1>11, <1>t, <1>i, <1>q DEF DirectionInv, BarCloses, CycleDay, InCycle,
     InFlightIsNew, clock, account, broker, ledgers
<1>12. CASE EquityMoves
  BY <1>12, <1>t, <1>i, <1>q DEF DirectionInv, EquityMoves, CycleDay, InCycle,
     InFlightIsNew, clock, broker, ledgers
<1>13. ASSUME NEW t \in live, BrokerCloses(t) PROVE DirectionInv'
  BY <1>13, <1>t, <1>i, <1>q DEF DirectionInv, BrokerCloses, CycleDay, InCycle,
     InFlightIsNew, clock, ledgers
<1>14. CASE Terminate
  <2>1. PICK n \in IF pc = "sending" THEN 0 .. 1 ELSE {0} : Filled(n)
    BY <1>14 DEF Terminate
  <2>2. n \in Nat /\ (n > 0 => cur \in Trade)
    BY <1>t DEF CurOK
  <2>3. \A t \in Tickets : fills'[t] = fills[t]
    BY <1>t, <2>1, <2>2, FilledExtends
  <2>4. booked' = booked /\ run' = run /\ day' = day /\ pc' = "down" /\ traded_day' = NoDay
    BY <1>14 DEF Terminate, clock
  <2>5. Trades' = Trades
    BY <1>t, <2>3, <2>4, TradesStable
  <2>6. day \in Nat
    BY <1>t DEF TypeOK
  <2> QED BY <1>t, <1>i, <2>4, <2>5, <2>6 DEF DirectionInv, CycleDay, InCycle,
          InFlightIsNew, RunsSoFar, LedgerRemembers, OneTradePerDirection, NoDay
<1>15. CASE Restart
  <2>1. Trades' = Trades /\ booked' = booked
    BY <1>15 DEF Restart, broker, ledgers, Trades
  <2>2. run' = run + 1 /\ pc' = "idle" /\ day' = day /\ traded_day' = traded_day
    BY <1>15 DEF Restart, clock
  <2>3. run \in Nat /\ \A i \in DOMAIN Trades : Trades[i].run \in Nat
    BY <1>t, TradesAreFills DEF TypeOK, Fill
  <2>4. \A i \in DOMAIN Trades : Trades[i].run <= run
    BY <1>i DEF RunsSoFar
  <2>5. \A i \in DOMAIN Trades : Trades[i].run # run + 1 /\ Trades[i].run <= run + 1
    BY <2>3, <2>4
  <2> QED BY <1>t, <1>i, <2>1, <2>2, <2>5 DEF DirectionInv, CycleDay, InCycle,
          InFlightIsNew, RunsSoFar, LedgerRemembers, OneTradePerDirection
<1>16. CASE UNCHANGED vars
  BY <1>16, <1>t, <1>i, <1>q DEF DirectionInv, CycleDay, InCycle,
     InFlightIsNew, vars, clock, account, broker, ledgers
<1>17. CASE PollFails \/ ProvidersRaise
  BY <1>17, PollsMiss, <1>t, <1>i, <1>q DEF DirectionInv, CycleDay, InCycle,
     InFlightIsNew, clock, account, broker, ledgers
<1> QED BY <1>1, <1>2, <1>3, <1>4, <1>5, <1>6, <1>7, <1>8, <1>9, <1>10, <1>11,
           <1>12, <1>13, <1>14, <1>15, <1>16, <1>17 DEF Next, Cycle, Environment

\* The V5 admission ledger (live_engine.py:190-199, :323-343): in every run
\* of the program, within one process lifetime no two booked trades of one
\* IST day have the same direction, for any number of pairs, days, fills and
\* restarts, with any faults of the broker.
THEOREM DirectionsNeverRepeat == Spec => []OneTradePerDirection
<1>1. DirectionInv => OneTradePerDirection
  BY DEF DirectionInv
<1> QED BY DirectionInit, DirectionStep, <1>1, PTL DEF Spec

-----------------------------------------------------------------------------
(***************************************************************************)
(* No pyramiding.  The trade in flight is for a symbol nothing is tracked  *)
(* on, because nobody but the cycle that sends it registers positions.     *)
(***************************************************************************)
InFlightIsAlone ==
  pc = "sending" => \A t \in tracked : fills[t].sym # cur.sym

MapInv == TypeInv /\ OneTrackedPerSymbol /\ InFlightIsAlone

LEMMA MapInit == Init => MapInv
BY TypeInit DEF Init, MapInv, OneTrackedPerSymbol, InFlightIsAlone

\* A step that tracks nothing new and sends nothing keeps the map in order.
LEMMA MapShrinks ==
  ASSUME TypeOK, OneTrackedPerSymbol, tracked' \subseteq tracked,
         \A t \in Tickets : fills'[t] = fills[t]
  PROVE  OneTrackedPerSymbol'
BY DEF TypeOK, OneTrackedPerSymbol

LEMMA MapStep == MapInv /\ [Next]_vars => MapInv'
<1> SUFFICES ASSUME MapInv, [Next]_vars PROVE MapInv'
  OBVIOUS
<1>t. TypeInv' /\ TypeInv /\ TypeOK /\ CurOK
  BY TypeStep DEF MapInv, TypeInv
<1>i. OneTrackedPerSymbol /\ InFlightIsAlone
  BY DEF MapInv
<1>q. ASSUME UNCHANGED <<fills, tracked>>, pc' = "sending" => pc = "sending" /\ cur' = cur
      PROVE  MapInv'
  BY <1>q, <1>t, <1>i DEF MapInv, OneTrackedPerSymbol, InFlightIsAlone
<1>1. CASE StartCycle
  BY <1>1, <1>q DEF StartCycle, broker
<1>2. ASSUME NEW s \in Symbols, Refuse(s) PROVE MapInv'
  BY <1>2, <1>q DEF Refuse, broker
<1>3. ASSUME NEW s \in Symbols, Admit(s) PROVE MapInv'
  <2>1. ~Held(s)
    BY <1>3 DEF Admit, Gate
  <2> QED BY <1>3, <1>t, <1>i, <2>1 DEF Admit, Held, MapInv, OneTrackedPerSymbol,
          InFlightIsAlone, broker
<1>4. ASSUME NEW s \in Symbols, Maintain(s) PROVE MapInv'
  <2>1. tracked' \subseteq tracked /\ fills' = fills /\ pc' = "maintain"
    BY <1>4 DEF Maintain, broker
  <2> QED BY <1>t, <1>i, <2>1, MapShrinks DEF MapInv, InFlightIsAlone
<1>5. CASE OrderFilled
  <2>1. PICK n \in Nat : n > 0 /\ Filled(n)
    BY <1>5 DEF OrderFilled, Ghosts
  <2>2. cur \in Trade /\ pc = "sending"
    BY <1>5, <1>t DEF OrderFilled, CurOK
  <2>3. /\ Len(fills') = Len(fills) + n
        /\ \A t \in Tickets : fills'[t] = fills[t]
        /\ \A t \in Tickets' \ Tickets : fills'[t].sym = cur.sym
    BY <1>t, <2>1, <2>2, FilledExtends
  <2>4. Len(fills') \in Tickets' \ Tickets
    <3>1. Len(fills) \in Nat
      BY <1>t DEF TypeOK
    <3> QED BY <2>1, <2>3, <3>1 DEF Tickets
  <2>5. tracked' = tracked \cup {Len(fills')} /\ tracked \subseteq Tickets
    BY <1>5, <1>t DEF OrderFilled, Registered, TypeOK
  <2>6. fills'[Len(fills')].sym = cur.sym /\ \A t \in tracked : fills'[t] = fills[t]
    BY <2>3, <2>4, <2>5
  <2>7. OneTrackedPerSymbol'
    BY <1>i, <2>2, <2>5, <2>6 DEF OneTrackedPerSymbol, InFlightIsAlone
  <2>8. InFlightIsAlone'
    BY <1>5 DEF OrderFilled, AfterFill, InFlightIsAlone
  <2> QED BY <1>t, <2>7, <2>8 DEF MapInv
<1>6. CASE OrderRaises
  <2>1. PICK n \in Nat : Filled(n)
    BY <1>6 DEF OrderRaises, Ghosts
  <2>2. \A t \in Tickets : fills'[t] = fills[t]
    BY <1>6, <1>t, <2>1, FilledExtends DEF OrderRaises, CurOK
  <2>3. tracked' = tracked /\ pc' = "idle"
    BY <1>6 DEF OrderRaises, AfterRaise
  <2> QED BY <1>t, <1>i, <2>2, <2>3, MapShrinks DEF MapInv, InFlightIsAlone
<1>7. CASE BookTrade
  BY <1>7, <1>q DEF BookTrade, broker
<1>8. CASE EndScan
  BY <1>8, <1>q DEF EndScan, broker
<1>9. CASE EndCycle
  BY <1>9, <1>q DEF EndCycle, broker
<1>10. CASE AdvanceClock
  BY <1>10, <1>q DEF AdvanceClock, broker
<1>11. ASSUME NEW s \in Symbols, BarCloses(s) PROVE MapInv'
  BY <1>11, <1>q DEF BarCloses, broker
<1>12. CASE EquityMoves
  BY <1>12, <1>q DEF EquityMoves, broker
<1>13. ASSUME NEW t \in live, BrokerCloses(t) PROVE MapInv'
  BY <1>13, <1>q DEF BrokerCloses
<1>14. CASE Terminate
  BY <1>14, <1>t DEF Terminate, MapInv, OneTrackedPerSymbol, InFlightIsAlone
<1>15. CASE Restart
  BY <1>15, <1>q DEF Restart, broker
<1>16. CASE UNCHANGED vars
  BY <1>16, <1>q DEF vars, broker
<1>17. CASE PollFails \/ ProvidersRaise
  BY <1>t, <1>17, PollsMiss, <1>q DEF broker
<1> QED BY <1>1, <1>2, <1>3, <1>4, <1>5, <1>6, <1>7, <1>8, <1>9, <1>10, <1>11,
           <1>12, <1>13, <1>14, <1>15, <1>16, <1>17 DEF Next, Cycle, Environment

\* Admission gate #1 (live_engine.py:304-321): the position map never holds
\* two positions on one symbol, for any number of pairs, however orders
\* fail, answers are lost and stop-outs are misjudged.
THEOREM NoPyramiding == Spec => []OneTrackedPerSymbol
<1>1. MapInv => OneTrackedPerSymbol
  BY DEF MapInv
<1> QED BY MapInit, MapStep, <1>1, PTL DEF Spec

-----------------------------------------------------------------------------
(***************************************************************************)
(* The two ledgers of the day.  They are rolled by different code: the set *)
(* of directions at the top of a cycle, the count when a trade is booked.  *)
(* In between the count may be about an earlier day, or (after a restart)  *)
(* about a later one; then no trade was counted on it yet.                 *)
(***************************************************************************)
LedgerInv ==
  /\ LedgersAgree
  /\ daily.trade_day > traded_day => daily.trade_count = 0
  /\ pc = "down" => traded_today = {} /\ traded_day = NoDay

LEMMA LedgerInit == Init => LedgerInv
BY DEF Init, LedgerInv, LedgersAgree, EmptyDay, NoDay

\* Adding a direction that is not in the ledger adds one to its size.
LEMMA DirectionAdded ==
  ASSUME NEW D \in SUBSET Directions, NEW d \in Directions, d \notin D
  PROVE  Cardinality(D) \in Nat /\ Cardinality(D \cup {d}) = Cardinality(D) + 1
<1>1. IsFiniteSet(Directions)
  <2>1. Directions = {"BUY"} \cup {"SELL"} /\ IsFiniteSet({"BUY"})
    BY FS_Singleton DEF Directions
  <2> QED BY <2>1, FS_AddElement
<1>2. IsFiniteSet(D)
  BY <1>1, FS_Subset
<1> QED BY <1>2, FS_AddElement, FS_CardinalityType

LEMMA LedgerStep == DirectionInv /\ LedgerInv /\ [Next]_vars => LedgerInv'
<1> SUFFICES ASSUME DirectionInv, LedgerInv, [Next]_vars PROVE LedgerInv'
  OBVIOUS
<1>t. TypeOK /\ TypeOK' /\ CurOK
  BY TypeStep DEF DirectionInv, TypeInv
<1>d. CycleDay /\ InFlightIsNew
  BY DEF DirectionInv
<1>i. /\ LedgersAgree
      /\ daily.trade_day > traded_day => daily.trade_count = 0
      /\ pc = "down" => traded_today = {} /\ traded_day = NoDay
  BY DEF LedgerInv
<1>n. daily.trade_day \in Nat /\ daily.trade_count \in Nat /\ traded_day \in Int /\ day \in Nat
  BY <1>t DEF TypeOK, DailyStates, NoDay
<1>q. ASSUME UNCHANGED <<daily, traded_today, traded_day>>, pc' = "down" => pc = "down"
      PROVE  LedgerInv'
  BY <1>q, <1>i DEF LedgerInv, LedgersAgree
<1>1. CASE StartCycle
  <2>1. daily' = daily /\ traded_day' = day /\ traded_today' = RolledLedger /\ pc' = "scan"
    BY <1>1 DEF StartCycle
  <2>2. CASE traded_day = day
    BY <1>q, <2>1, <2>2 DEF RolledLedger
  <2>3. CASE traded_day # day
    <3>1. traded_today' = {} /\ traded_day < day
      BY <1>n, <1>d, <2>1, <2>3 DEF RolledLedger, CycleDay
    <3>2. daily.trade_day >= day => daily.trade_count = 0
      BY <1>i, <1>n, <3>1
    <3>3. Cardinality({}) = 0
      BY FS_EmptySet
    <3> QED BY <1>n, <2>1, <3>1, <3>2, <3>3 DEF LedgerInv, LedgersAgree
  <2> QED BY <2>2, <2>3
<1>2. ASSUME NEW s \in Symbols, Refuse(s) PROVE LedgerInv'
  BY <1>2, <1>q DEF Refuse, ledgers
<1>3. ASSUME NEW s \in Symbols, Admit(s) PROVE LedgerInv'
  BY <1>3, <1>q DEF Admit, ledgers
<1>4. ASSUME NEW s \in Symbols, Maintain(s) PROVE LedgerInv'
  BY <1>4, <1>q DEF Maintain, ledgers
<1>5. CASE OrderFilled
  BY <1>5, <1>q DEF OrderFilled, AfterFill, ledgers
<1>6. CASE OrderRaises
  BY <1>6, <1>q DEF OrderRaises, AfterRaise, ledgers
<1>7. CASE BookTrade
  <2>1. at.day = traded_day /\ cur.dir \notin traded_today /\ cur.dir \in Directions
    BY <1>7, <1>d, <1>t DEF BookTrade, CycleDay, InCycle, InFlightIsNew, CurOK, Trade
  <2>2. /\ daily' = RecordTradeOpen(daily, at.day)
        /\ traded_today' = traded_today \cup {cur.dir}
        /\ traded_day' = traded_day /\ pc' = "scan"
    BY <1>7 DEF BookTrade
  <2>3. traded_today \subseteq Directions /\ daily \in DailyStates /\ at.day \in Nat
    BY <1>t DEF TypeOK
  <2>4. Cardinality(traded_today') = Cardinality(traded_today) + 1
    BY <2>1, <2>2, <2>3, DirectionAdded
  <2>5. daily'.trade_day = traded_day
    BY <2>1, <2>2, <2>3, RolledType DEF RecordTradeOpen, DailyStates
  <2>6. daily'.trade_count = Cardinality(traded_today')
    <3>1. CASE daily.trade_day = at.day
      <4>1. daily'.trade_count = daily.trade_count + 1
        BY <2>2, <2>3, <3>1 DEF RecordTradeOpen, Rolled, DailyStates
      <4> QED BY <1>i, <2>1, <2>4, <3>1, <4>1 DEF LedgersAgree
    <3>2. CASE daily.trade_day # at.day
      <4>1. daily'.trade_count = 1
        BY <2>2, <2>3, <3>2 DEF RecordTradeOpen, Rolled, EmptyDay, DailyStates
      <4>2. traded_today = {} /\ Cardinality({}) = 0
        BY <1>i, <2>1, <3>2, FS_EmptySet DEF LedgersAgree
      <4> QED BY <2>4, <4>1, <4>2
    <3> QED BY <3>1, <3>2
  <2> QED BY <1>n, <2>2, <2>5, <2>6 DEF LedgerInv, LedgersAgree
<1>8. CASE EndScan
  BY <1>8, <1>q DEF EndScan, ledgers
<1>9. CASE EndCycle
  BY <1>9, <1>q DEF EndCycle, ledgers
<1>10. CASE AdvanceClock
  BY <1>10, <1>q DEF AdvanceClock, ledgers
<1>11. ASSUME NEW s \in Symbols, BarCloses(s) PROVE LedgerInv'
  BY <1>11, <1>q DEF BarCloses, ledgers
<1>12. CASE EquityMoves
  BY <1>12, <1>q DEF EquityMoves, ledgers
<1>13. ASSUME NEW t \in live, BrokerCloses(t) PROVE LedgerInv'
  BY <1>13, <1>q DEF BrokerCloses, ledgers
<1>14. CASE Terminate
  <2>1. traded_today' = {} /\ traded_day' = NoDay /\ daily' = EmptyDay(day, StartingEquity)
    BY <1>14 DEF Terminate
  <2> QED BY <1>n, <2>1 DEF LedgerInv, LedgersAgree, EmptyDay, NoDay
<1>15. CASE Restart
  <2>1. traded_today' = traded_today /\ traded_day' = traded_day
        /\ daily' = EmptyDay(day, StartingEquity) /\ pc' = "idle"
    BY <1>15 DEF Restart
  <2>2. traded_today = {} /\ traded_day = NoDay
    BY <1>15, <1>i DEF Restart
  <2> QED BY <1>n, <2>1, <2>2 DEF LedgerInv, LedgersAgree, EmptyDay, NoDay
<1>16. CASE UNCHANGED vars
  BY <1>16, <1>q DEF vars, ledgers
<1>17. CASE PollFails \/ ProvidersRaise
  BY <1>t, <1>17, PollsMiss, <1>q DEF ledgers
<1> QED BY <1>1, <1>2, <1>3, <1>4, <1>5, <1>6, <1>7, <1>8, <1>9, <1>10, <1>11,
           <1>12, <1>13, <1>14, <1>15, <1>16, <1>17 DEF Next, Cycle, Environment

\* DailyTracker's count (monitoring/daily_tracker.py:148) and the engine's
\* set of directions (live_engine.py:198) agree whenever they are about the
\* same day, through any midnights, failed orders and restarts.
THEOREM LedgersNeverDisagree == Spec => []LedgersAgree
<1>1. LedgerInv => LedgersAgree
  BY DEF LedgerInv
<1> QED BY DirectionInit, DirectionStep, LedgerInit, LedgerStep, <1>1, PTL DEF Spec

-----------------------------------------------------------------------------
(***************************************************************************)
(* The program implements TradeLedger.  Only BookTrade changes the list of *)
(* trades.  The trade it appends is legal: its direction is new to the day *)
(* and, there being two directions, it is at most the second; its day is   *)
(* not before that of any other trade, those of earlier processes          *)
(* included.                                                               *)
(***************************************************************************)
InBounds ==
  /\ run <= MaxRun /\ (pc = "down" => run < MaxRun)
  /\ day <= MaxDay

DaysInOrder ==
  \A i \in DOMAIN Trades :
    /\ Trades[i].day <= day
    /\ InCycle => Trades[i].day <= at.day

OrderInv == InBounds /\ DaysInOrder

\* A booking appends the trade in flight to the list of trades.
LEMMA BookAppends ==
  ASSUME TypeOK, CurOK, BookTrade
  PROVE  /\ Trades' = Append(Trades, fills[cur.ticket])
         /\ Trades \in Seq(Fill) /\ fills[cur.ticket] \in Fill
<1>1. booked \in Seq(Tickets) /\ fills \in Seq(Fill) /\ cur.ticket \in Tickets
  BY DEF TypeOK, CurOK, BookTrade
<1>2. booked' = Append(booked, cur.ticket) /\ fills' = fills
  BY DEF BookTrade, broker
<1>3. \A t \in Tickets : fills[t] \in Fill
  BY <1>1 DEF Tickets
<1>4. Trades \in Seq(Fill) /\ Len(Trades) = Len(booked)
  BY <1>1, <1>3 DEF Trades
<1>5. Trades' = [i \in 1 .. Len(booked) + 1 |->
                   IF i = Len(booked) + 1 THEN fills[cur.ticket] ELSE fills[booked[i]]]
  BY <1>1, <1>2 DEF Trades
<1>6. Append(Trades, fills[cur.ticket]) =
        [i \in 1 .. Len(booked) + 1 |->
           IF i = Len(booked) + 1 THEN fills[cur.ticket] ELSE fills[booked[i]]]
  BY <1>1, <1>4 DEF Trades
<1> QED BY <1>1, <1>3, <1>4, <1>5, <1>6

\* No other step changes it.
LEMMA OthersKeepTrades ==
  ASSUME TypeOK, CurOK, [Next]_vars, ~BookTrade
  PROVE  Trades' = Trades /\ booked' = booked
<1>q. ASSUME UNCHANGED <<fills, booked>> PROVE Trades' = Trades /\ booked' = booked
  BY <1>q DEF Trades
<1>f. ASSUME NEW n \in Nat, Filled(n), n > 0 => cur \in Trade, booked' = booked
      PROVE  Trades' = Trades /\ booked' = booked
  BY <1>f, FilledExtends, TradesStable
<1>1. CASE StartCycle
  BY <1>1, <1>q DEF StartCycle, broker
<1>2. ASSUME NEW s \in Symbols, Refuse(s) PROVE Trades' = Trades /\ booked' = booked
  BY <1>2, <1>q DEF Refuse, broker, ledgers
<1>3. ASSUME NEW s \in Symbols, Admit(s) PROVE Trades' = Trades /\ booked' = booked
  BY <1>3, <1>q DEF Admit, broker, ledgers
<1>4. ASSUME NEW s \in Symbols, Maintain(s) PROVE Trades' = Trades /\ booked' = booked
  BY <1>4, <1>q DEF Maintain, broker, ledgers
<1>5. CASE OrderFilled
  BY <1>5, <1>f DEF OrderFilled, Ghosts, CurOK, ledgers
<1>6. CASE OrderRaises
  BY <1>6, <1>f DEF OrderRaises, Ghosts, CurOK, ledgers
<1>7. CASE EndScan \/ EndCycle
  BY <1>7, <1>q DEF EndScan, EndCycle, broker, ledgers
<1>8. CASE AdvanceClock \/ EquityMoves
  BY <1>8, <1>q DEF AdvanceClock, EquityMoves, broker, ledgers
<1>9. ASSUME NEW s \in Symbols, BarCloses(s) PROVE Trades' = Trades /\ booked' = booked
  BY <1>9, <1>q DEF BarCloses, broker, ledgers
<1>10. ASSUME NEW t \in live, BrokerCloses(t) PROVE Trades' = Trades /\ booked' = booked
  BY <1>10, <1>q DEF BrokerCloses, ledgers
<1>11. CASE Terminate
  <2>1. PICK n \in IF pc = "sending" THEN 0 .. 1 ELSE {0} : Filled(n)
    BY <1>11 DEF Terminate
  <2>2. n \in Nat /\ (n > 0 => cur \in Trade)
    BY DEF CurOK
  <2> QED BY <1>11, <1>f, <2>1, <2>2 DEF Terminate
<1>12. CASE Restart
  BY <1>12, <1>q DEF Restart, broker
<1>13. CASE UNCHANGED vars
  BY <1>13, <1>q DEF vars, broker, ledgers
<1>14. CASE PollFails \/ ProvidersRaise
  BY <1>14, PollsMiss, <1>q DEF broker, ledgers
<1> QED BY <1>1, <1>2, <1>3, <1>4, <1>5, <1>6, <1>7, <1>8, <1>9, <1>10, <1>11,
           <1>12, <1>13, <1>14 DEF Next, Cycle, Environment

LEMMA OrderInit == Init => OrderInv
<1> SUFFICES ASSUME Init PROVE OrderInv
  OBVIOUS
<1>1. DOMAIN Trades = {}
  BY DEF Init, Trades
<1> QED BY <1>1, EngineAssumption DEF Init, OrderInv, InBounds, DaysInOrder

LEMMA OrderStep == DirectionInv /\ OrderInv /\ [Next]_vars => OrderInv'
<1> SUFFICES ASSUME DirectionInv, OrderInv, [Next]_vars PROVE OrderInv'
  OBVIOUS
<1>t. TypeOK /\ CurOK /\ CycleDay /\ InFlightIsNew
  BY DEF DirectionInv, TypeInv
<1>i. InBounds /\ DaysInOrder
  BY DEF OrderInv
<1>n. /\ run \in Nat /\ day \in Nat /\ at.day \in Nat /\ traded_day \in Int
      /\ MaxRun \in Nat /\ MaxDay \in Nat
  BY <1>t, EngineAssumption DEF TypeOK, NoDay
<1>b. InBounds'
  <2>1. CASE AdvanceClock
    BY <2>1, <1>i, <1>n DEF AdvanceClock, InBounds
  <2>2. CASE Terminate
    BY <2>2, <1>i DEF Terminate, InBounds, clock
  <2>3. CASE Restart
    BY <2>3, <1>i, <1>n DEF Restart, InBounds, clock
  <2>4. CASE /\ run' = run /\ day' = day
             /\ pc' = "down" => pc = "down"
    BY <2>4, <1>i DEF InBounds
  <2>5. CASE StartCycle
    BY <2>4, <2>5 DEF StartCycle, clock
  <2>6. ASSUME NEW s \in Symbols, Refuse(s) \/ Admit(s) \/ Maintain(s) \/ BarCloses(s)
        PROVE  InBounds'
    BY <2>4, <2>6 DEF Refuse, Admit, Maintain, BarCloses, clock
  <2>7. CASE OrderFilled \/ OrderRaises \/ BookTrade
    BY <2>4, <2>7 DEF OrderFilled, OrderRaises, BookTrade, AfterFill, AfterRaise, clock
  <2>8. CASE EndScan \/ EndCycle \/ EquityMoves
    BY <2>4, <2>8 DEF EndScan, EndCycle, EquityMoves, clock
  <2>9. ASSUME NEW t \in live, BrokerCloses(t) PROVE InBounds'
    BY <2>4, <2>9 DEF BrokerCloses, clock
  <2>10. CASE UNCHANGED vars
    BY <2>4, <2>10 DEF vars, clock
  <2>11. CASE PollFails \/ ProvidersRaise
    BY <1>t, <2>4, <2>11, PollsMiss DEF clock
  <2> QED BY <2>1, <2>2, <2>3, <2>5, <2>6, <2>7, <2>8, <2>9, <2>10, <2>11
          DEF Next, Cycle, Environment
<1>o. DaysInOrder'
  <2>1. CASE BookTrade
    <3>1. Trades' = Append(Trades, fills[cur.ticket]) /\ Trades \in Seq(Fill)
      BY <1>t, <2>1, BookAppends
    <3>2. fills[cur.ticket].day = at.day /\ at.day <= day /\ InCycle
      BY <1>t, <2>1 DEF BookTrade, InFlightIsNew, CycleDay, InCycle
    <3>3. day' = day /\ at' = at
      BY <2>1 DEF BookTrade, clock
    <3>4. \A i \in DOMAIN Trades' : Trades'[i].day <= at.day /\ Trades'[i].day <= day
      <4>1. \A i \in DOMAIN Trades : Trades[i].day <= at.day /\ Trades[i].day <= day
        BY <1>i, <3>2 DEF DaysInOrder
      <4>2. \A i \in DOMAIN Trades' : \/ i \in DOMAIN Trades /\ Trades'[i] = Trades[i]
                                      \/ Trades'[i] = fills[cur.ticket]
        BY <3>1
      <4> QED BY <1>n, <3>2, <4>1, <4>2
    <3> QED BY <3>3, <3>4 DEF DaysInOrder
  <2>2. CASE ~BookTrade
    <3>1. Trades' = Trades
      BY <1>t, <2>2, OthersKeepTrades
    <3>2. \A i \in DOMAIN Trades : Trades[i].day \in Nat
      BY <1>t, TradesAreFills DEF Fill
    <3>3. day' \in Nat /\ day <= day'
      <4>1. CASE AdvanceClock
        BY <4>1, <1>n DEF AdvanceClock
      <4>2. CASE ~AdvanceClock
        BY <4>2, <1>n, <1>t, PollsMiss DEF Next, Cycle, Environment, StartCycle, Refuse, Admit, Maintain,
           OrderFilled, OrderRaises, BookTrade, EndScan, EndCycle, BarCloses, EquityMoves,
           BrokerCloses, Terminate, Restart, vars, clock
      <4> QED BY <4>1, <4>2
    <3>4. InCycle' => (at' = at /\ InCycle) \/ at'.day = day
      BY <1>t, <2>2, PollsMiss DEF Next, Cycle, Environment, StartCycle, Refuse, Admit, Maintain, Pending,
         OrderFilled, OrderRaises, EndScan, EndCycle, BarCloses, EquityMoves, InCycle,
         BrokerCloses, AdvanceClock, Terminate, Restart, AfterRaise, vars
    <3> QED BY <1>i, <1>n, <3>1, <3>2, <3>3, <3>4 DEF DaysInOrder
  <2> QED BY <2>1, <2>2
<1> QED BY <1>b, <1>o DEF OrderInv

\* A booking is a step of the ledger.
LEMMA BookIsLegal ==
  ASSUME DirectionInv, OrderInv, BookTrade
  PROVE  Ledger!Next
<1> DEFINE x == fills[cur.ticket]
           same == Ledger!OfDay(x.run, x.day)
<1>t. TypeOK /\ CurOK /\ CycleDay /\ InFlightIsNew
  BY DEF DirectionInv, TypeInv
<1>1. Trades' = Append(Trades, x) /\ Trades \in Seq(Fill) /\ x \in Fill
  BY <1>t, BookAppends
<1>2. /\ x.dir = cur.dir /\ x.run = run /\ x.day = at.day /\ at.day = traded_day
      /\ cur.dir \notin traded_today /\ InCycle /\ pc # "down"
  BY <1>t DEF BookTrade, InFlightIsNew, CycleDay, InCycle
<1>3. DOMAIN Trades = DOMAIN booked /\ DOMAIN Trades = 1 .. Len(Trades)
  BY <1>1 DEF Trades
<1>4. same = {i \in DOMAIN Trades : Trades[i].run = run /\ Trades[i].day = at.day}
  BY <1>2 DEF Ledger!OfDay
<1>5. \A i \in same : Trades[i].dir # x.dir
  BY <1>2, <1>4 DEF DirectionInv, LedgerRemembers
<1>6. \A i, j \in same : i = j
  <2> SUFFICES ASSUME NEW i \in same, NEW j \in same PROVE i = j
    OBVIOUS
  <2>1. i \in DOMAIN booked /\ j \in DOMAIN booked
    BY <1>3, <1>4
  <2>2. Trades[i] \in Fill /\ Trades[j] \in Fill
    BY <1>1, <1>4
  <2>3. Trades[i].dir = Trades[j].dir
    BY <1>1, <1>5, <2>2 DEF Fill, Directions
  <2> QED BY <1>4, <2>1, <2>3 DEF DirectionInv, OneTradePerDirection
<1>7. Cardinality(same) < HouseMoneyMaxNumber
  <2> HIDE DEF same
  <2>1. CASE same = {}
    BY <2>1, FS_EmptySet DEF HouseMoneyMaxNumber
  <2>2. CASE same # {}
    <3>1. PICK i \in same : same = {i}
      BY <1>6, <2>2
    <3> QED BY <3>1, FS_Singleton DEF HouseMoneyMaxNumber
  <2> QED BY <2>1, <2>2
<1>8. \A i \in DOMAIN Trades : Trades[i].run <= x.run /\ Trades[i].day <= x.day
  BY <1>2 DEF DirectionInv, RunsSoFar, OrderInv, DaysInOrder
<1>9. x \in Ledger!Trade
  <2>1. x.run \in 0 .. MaxRun /\ x.day \in 0 .. MaxDay
    <3>1. run \in Nat /\ at.day \in Nat /\ day \in Nat /\ MaxRun \in Nat /\ MaxDay \in Nat
      BY <1>t, EngineAssumption DEF TypeOK
    <3>2. run <= MaxRun /\ at.day <= day /\ day <= MaxDay
      BY <1>t, <1>2 DEF OrderInv, InBounds, CycleDay
    <3> QED BY <1>2, <3>1, <3>2
  <2> QED BY <1>1, <2>1 DEF Ledger!Trade, Fill
<1>10. Ledger!Cardinality(same) = Cardinality(same)
  <2> HIDE DEF same
  <2> QED BY DEF Ledger!Cardinality, Cardinality
<1>11. Ledger!Book(x)
  <2> HIDE DEF x
  <2> QED BY <1>1, <1>5, <1>7, <1>8, <1>10 DEF Ledger!Book
<1> QED BY <1>9, <1>11 DEF Ledger!Next

\* The live program implements the trade ledger it promises (live_engine.py
\* :190-199, :304-364): every step of every cycle, failure, crash and restart
\* books one legal trade or none.
THEOREM ImplementsLedger == Spec => LedgerSpec
<1>1. Init => Ledger!Init
  BY DEF Init, Ledger!Init, Trades
<1>2. DirectionInv /\ OrderInv /\ [Next]_vars => [Ledger!Next]_Trades
  <2> SUFFICES ASSUME DirectionInv, OrderInv, [Next]_vars PROVE [Ledger!Next]_Trades
    OBVIOUS
  <2>1. CASE BookTrade
    BY <2>1, BookIsLegal
  <2>2. CASE ~BookTrade
    BY <2>2, OthersKeepTrades DEF DirectionInv, TypeInv
  <2> QED BY <2>1, <2>2
<1> QED BY DirectionInit, DirectionStep, OrderInit, OrderStep, <1>1, <1>2, PTL
        DEF Spec, LedgerSpec, Ledger!Spec

-----------------------------------------------------------------------------
(***************************************************************************)
(* The position map against the broker.  A definite answer means one fill  *)
(* for a return and none for an exception; only a misjudged stop-out drops *)
(* what is still open.                                                     *)
(***************************************************************************)
MapCovers == mishaps = {} => live \subseteq tracked

LEMMA CoversInit == Init => MapCovers
BY DEF Init, MapCovers

LEMMA CoversStep == TypeInv /\ MapCovers /\ [Next]_vars => MapCovers'
<1> SUFFICES ASSUME TypeInv, MapCovers, [Next]_vars, mishaps' = {}
             PROVE  live' \subseteq tracked'
  BY DEF MapCovers
<1>t. TypeOK
  BY DEF TypeInv
<1>q. ASSUME UNCHANGED mishaps, live' \subseteq live, tracked \subseteq tracked'
      PROVE  live' \subseteq tracked'
  BY <1>q DEF MapCovers
<1>1. CASE StartCycle
  BY <1>1, <1>q DEF StartCycle, broker
<1>2. ASSUME NEW s \in Symbols, Refuse(s) PROVE live' \subseteq tracked'
  BY <1>2, <1>q DEF Refuse, broker
<1>3. ASSUME NEW s \in Symbols, Admit(s) PROVE live' \subseteq tracked'
  BY <1>3, <1>q DEF Admit, broker
<1>4. ASSUME NEW s \in Symbols, Maintain(s) PROVE live' \subseteq tracked'
  <2>1. PICK stopped \in SUBSET tracked :
          /\ tracked' = tracked \ stopped
          /\ mishaps' = mishaps \cup (IF stopped \cap live = {} THEN {} ELSE {"misjudged"})
    BY <1>4 DEF Maintain
  <2>2. stopped \cap live = {} /\ mishaps = {}
    BY <2>1
  <2>3. live' = live
    BY <1>4 DEF Maintain, broker
  <2> QED BY <2>1, <2>2, <2>3 DEF MapCovers
<1>5. CASE OrderFilled
  <2>1. PICK ghosts \in Ghosts : Filled(ghosts + 1) /\ mishaps' = Blurred(ghosts)
    BY <1>5 DEF OrderFilled
  <2>2. ghosts = 0 /\ mishaps = {}
    BY <2>1 DEF Blurred
  <2>3. Len(fills) \in Nat
    BY <1>t DEF TypeOK
  <2>4. live' = live \cup {Len(fills) + 1} /\ Len(fills') = Len(fills) + 1
    BY <2>1, <2>2, <2>3 DEF Filled
  <2>5. tracked' = tracked \cup {Len(fills')}
    BY <1>5 DEF OrderFilled, Registered
  <2> QED BY <2>2, <2>4, <2>5 DEF MapCovers
<1>6. CASE OrderRaises
  <2>1. PICK ghosts \in Ghosts : Filled(ghosts) /\ mishaps' = Blurred(ghosts)
    BY <1>6 DEF OrderRaises
  <2>2. ghosts = 0 /\ mishaps = {}
    BY <2>1 DEF Blurred
  <2>3. Len(fills) \in Nat
    BY <1>t DEF TypeOK
  <2>4. live' = live
    BY <2>1, <2>2, <2>3 DEF Filled
  <2>5. tracked' = tracked
    BY <1>6 DEF OrderRaises
  <2> QED BY <2>2, <2>4, <2>5 DEF MapCovers
<1>7. CASE BookTrade
  BY <1>7, <1>q DEF BookTrade, broker
<1>8. CASE EndScan \/ EndCycle
  BY <1>8, <1>q DEF EndScan, EndCycle, broker
<1>9. CASE AdvanceClock \/ EquityMoves
  BY <1>9, <1>q DEF AdvanceClock, EquityMoves, broker
<1>10. ASSUME NEW s \in Symbols, BarCloses(s) PROVE live' \subseteq tracked'
  BY <1>10, <1>q DEF BarCloses, broker
<1>11. ASSUME NEW t \in live, BrokerCloses(t) PROVE live' \subseteq tracked'
  BY <1>11, <1>q DEF BrokerCloses
<1>12. CASE Terminate
  BY <1>12 DEF Terminate
<1>13. CASE Restart
  BY <1>13, <1>q DEF Restart, broker
<1>14. CASE UNCHANGED vars
  BY <1>14, <1>q DEF vars, broker
<1>15. CASE PollFails \/ ProvidersRaise
  BY <1>t, <1>15, PollsMiss, <1>q DEF broker
<1> QED BY <1>1, <1>2, <1>3, <1>4, <1>5, <1>6, <1>7, <1>8, <1>9, <1>10, <1>11,
           <1>12, <1>13, <1>14, <1>15 DEF Next, Cycle, Environment

\* live_engine.py:366-431 with position_manager.py: for any pairs, days and
\* brokers, as long as no answer was blurred, no process died and no stop-out
\* was misjudged, every position open at the broker is in the position map.
THEOREM NothingGoesUntracked == Spec => []NothingUntracked
<1>1. TypeInv /\ MapCovers => NothingUntracked
  BY DEF TypeInv, MapCovers, NothingUntracked
<1> QED BY TypeInit, TypeStep, CoversInit, CoversStep, <1>1, PTL DEF Spec

-----------------------------------------------------------------------------
(***************************************************************************)
(* The bookings against the broker.                                        *)
(***************************************************************************)
Definite == mishaps \cap {"ambiguous", "crash"} = {}
BookedTickets == {booked[i] : i \in DOMAIN booked}
InAnnouncement == IF pc = "opened" THEN {cur.ticket} ELSE {}

LEMMA FillsInit == Init => FillsAreBooked
<1> SUFFICES ASSUME Init PROVE Tickets = {}
                                /\ {booked[i] : i \in DOMAIN booked} = {} /\ pc # "opened"
  BY DEF FillsAreBooked
<1>1. Tickets = {}
  BY DEF Init, Tickets
<1> QED BY <1>1 DEF Init

LEMMA FillsStep == TypeInv /\ FillsAreBooked /\ [Next]_vars => FillsAreBooked'
<1> USE DEF Definite, BookedTickets, InAnnouncement
<1> SUFFICES ASSUME TypeInv, FillsAreBooked, [Next]_vars, Definite'
             PROVE  Tickets' = BookedTickets' \cup InAnnouncement'
  BY DEF FillsAreBooked
<1>t. TypeOK /\ CurOK /\ Len(fills) \in Nat
  BY DEF TypeInv, TypeOK
<1>i. Definite => Tickets = BookedTickets \cup InAnnouncement
  BY DEF FillsAreBooked
<1>q. ASSUME mishaps \subseteq mishaps', UNCHANGED <<fills, booked>>,
             pc # "opened", pc' # "opened"
      PROVE  Tickets' = BookedTickets' \cup InAnnouncement'
  BY <1>q, <1>i DEF Tickets
<1>p. ASSUME UNCHANGED <<mishaps, fills, booked, cur, pc>>
      PROVE  Tickets' = BookedTickets' \cup InAnnouncement'
  BY <1>p, <1>i DEF Tickets
<1>1. CASE StartCycle
  BY <1>1, <1>q DEF StartCycle, broker
<1>2. ASSUME NEW s \in Symbols, Refuse(s)
      PROVE  Tickets' = BookedTickets' \cup InAnnouncement'
  BY <1>2, <1>q DEF Refuse, Pending, broker, ledgers
<1>3. ASSUME NEW s \in Symbols, Admit(s)
      PROVE  Tickets' = BookedTickets' \cup InAnnouncement'
  BY <1>3, <1>q DEF Admit, Pending, broker, ledgers
<1>4. ASSUME NEW s \in Symbols, Maintain(s)
      PROVE  Tickets' = BookedTickets' \cup InAnnouncement'
  <2>1. mishaps \subseteq mishaps'
    BY <1>4 DEF Maintain
  <2> QED BY <1>4, <1>q, <2>1 DEF Maintain, broker, ledgers
<1>5. CASE OrderFilled
  <2>1. PICK ghosts \in Ghosts : Filled(ghosts + 1) /\ mishaps' = Blurred(ghosts)
    BY <1>5 DEF OrderFilled
  <2>2. ghosts = 0 /\ mishaps' = mishaps
    BY <2>1 DEF Blurred
  <2>3. Len(fills') = Len(fills) + 1
    BY <1>t, <2>1, <2>2 DEF Filled
  <2>4. Tickets' = Tickets \cup {Len(fills')}
    BY <1>t, <2>3 DEF Tickets
  <2>5. Tickets = BookedTickets /\ booked' = booked
    BY <1>5, <1>i, <2>2 DEF OrderFilled, ledgers
  <2>6. cur'.ticket = Len(fills') /\ pc' = "opened"
    BY <1>5, <1>t DEF OrderFilled, AfterFill, CurOK, Trade
  <2> QED BY <2>4, <2>5, <2>6
<1>6. CASE OrderRaises
  <2>1. PICK ghosts \in Ghosts : Filled(ghosts) /\ mishaps' = Blurred(ghosts)
    BY <1>6 DEF OrderRaises
  <2>2. ghosts = 0 /\ mishaps' = mishaps
    BY <2>1 DEF Blurred
  <2>3. Len(fills') = Len(fills)
    BY <1>t, <2>1, <2>2 DEF Filled
  <2>4. pc = "sending" /\ pc' = "idle" /\ booked' = booked
    BY <1>6 DEF OrderRaises, AfterRaise, ledgers
  <2> QED BY <1>i, <2>2, <2>3, <2>4 DEF Tickets
<1>7. CASE BookTrade
  <2>1. booked' = Append(booked, cur.ticket) /\ pc = "opened" /\ pc' = "scan"
        /\ fills' = fills /\ mishaps' = mishaps
    BY <1>7 DEF BookTrade, broker
  <2>2. booked \in Seq(Tickets) /\ cur.ticket \in Tickets
    BY <1>t, <2>1 DEF TypeOK, CurOK
  <2>3. BookedTickets' = BookedTickets \cup {cur.ticket}
    <3>1. DOMAIN booked' = DOMAIN booked \cup {Len(booked) + 1} /\ Len(booked) \in Nat
          /\ DOMAIN booked = 1 .. Len(booked)
      BY <2>1, <2>2
    <3>2. booked'[Len(booked) + 1] = cur.ticket /\ \A i \in DOMAIN booked : booked'[i] = booked[i]
      BY <2>1, <2>2
    <3> QED BY <3>1, <3>2
  <2> QED BY <1>i, <2>1, <2>3 DEF Tickets
<1>8. CASE EndScan
  BY <1>8, <1>q DEF EndScan, broker, ledgers
<1>9. CASE EndCycle
  BY <1>9, <1>q DEF EndCycle, broker, ledgers
<1>10. CASE AdvanceClock
  BY <1>10, <1>p DEF AdvanceClock, broker, ledgers
<1>11. ASSUME NEW s \in Symbols, BarCloses(s)
       PROVE  Tickets' = BookedTickets' \cup InAnnouncement'
  BY <1>11, <1>p DEF BarCloses, broker, ledgers
<1>12. CASE EquityMoves
  BY <1>12, <1>p DEF EquityMoves, broker, ledgers
<1>13. ASSUME NEW t \in live, BrokerCloses(t)
       PROVE  Tickets' = BookedTickets' \cup InAnnouncement'
  BY <1>13, <1>p DEF BrokerCloses, ledgers
<1>14. CASE Terminate
  BY <1>14 DEF Terminate
<1>15. CASE Restart
  BY <1>15, <1>q DEF Restart, broker
<1>16. CASE UNCHANGED vars
  BY <1>16, <1>p DEF vars, broker, ledgers
<1>17. CASE PollFails \/ ProvidersRaise
  BY <1>t, <1>17, PollsMiss, <1>p DEF broker, ledgers
<1> QED BY <1>1, <1>2, <1>3, <1>4, <1>5, <1>6, <1>7, <1>8, <1>9, <1>10, <1>11,
           <1>12, <1>13, <1>14, <1>15, <1>16, <1>17 DEF Next, Cycle, Environment

\* live_engine.py:366-470: as long as no answer was blurred and no process
\* died, the broker's fills are exactly the trades the engine counted, the one
\* being announced excepted: no refusal, failed order, abandoned cycle or
\* midnight loses one, for any pairs and signals.
THEOREM EveryFillIsBooked == Spec => []FillsAreBooked
BY TypeInit, TypeStep, FillsInit, FillsStep, PTL DEF Spec

-----------------------------------------------------------------------------
(***************************************************************************)
(* The drawdown kill switch.  It is looked at once, at the top of a cycle, *)
(* and empties the list of signals; what is sent later in the cycle was    *)
(* judged then, against a mark that does not move before the next cycle.   *)
(* The mark is never below what the process read, so what it lets pass is  *)
(* within the limit of the true peak; what it judges is the account's      *)
(* equity when the account was read, and the starting equity when not.     *)
(***************************************************************************)
WithinDrawdown == (hwm - acct.equity) * 100 < MaxTotalDdPct * hwm

SnapshotIs ==
  /\ acct.starting_equity = StartingEquity
  /\ sample.known => acct.equity = sample.equity
  /\ peak <= hwm

KillInv ==
  /\ SnapshotIs
  /\ pc \in {"scan", "sending", "opened"} /\ todo # NoSignals => WithinDrawdown
  /\ pc = "sending" => WithinDrawdown
  /\ KillSwitch

\* Of two integers one is less if it is not at least the other.
LEMMA IntOrder == \A a, b \in Int : ~(a >= b) => a < b
OBVIOUS

\* Within the limit of a mark is within the limit of every lower one.
LEMMA LowerPeak ==
  ASSUME NEW top \in Nat, NEW mark \in Nat, NEW eq \in Nat, top <= mark,
         (mark - eq) * 100 < MaxTotalDdPct * mark
  PROVE  (top - eq) * 100 < MaxTotalDdPct * top
BY DEF MaxTotalDdPct

LEMMA KillInit == Init => KillInv
BY DEF Init, KillInv, SnapshotIs, KillSwitch, NoAccount, NoSample

LEMMA KillStep == TypeInv /\ KillInv /\ [Next]_vars => KillInv'
<1> SUFFICES ASSUME TypeInv, KillInv, [Next]_vars PROVE KillInv'
  OBVIOUS
<1>t. TypeOK
  BY DEF TypeInv
<1>q. ASSUME UNCHANGED <<acct, sample, hwm, peak>>,
             pc' \in {"scan", "sending", "opened"} /\ todo' # NoSignals =>
               pc \in {"scan", "sending", "opened"} /\ todo # NoSignals,
             pc' = "sending" => pc = "sending" /\ cur' = cur
      PROVE  KillInv'
  BY <1>q DEF KillInv, SnapshotIs, KillSwitch, WithinLimits, WithinDrawdown, NoSignals
<1>g. ASSUME LocalsGone, pc' \in {"idle", "down"}, peak' <= hwm' PROVE KillInv'
  BY <1>g DEF KillInv, SnapshotIs, KillSwitch, LocalsGone, NoAccount, NoSample
<1>k. ASSUME UNCHANGED <<hwm, peak>> PROVE peak' <= hwm'
  BY <1>k DEF KillInv, SnapshotIs
<1>1. CASE StartCycle
  <2>0. PICK known \in AccountAnswers :
          /\ acct' = AccountSnapshot(known)
          /\ sample' = [equity |-> equity, known |-> known]
          /\ peak' = IF known /\ equity > peak THEN equity ELSE peak
    BY <1>1 DEF StartCycle
  <2>1. /\ acct'.equity = IF known THEN equity ELSE StartingEquity
        /\ acct'.starting_equity = StartingEquity
        /\ sample'.known = known /\ sample'.equity = equity
    BY <2>0 DEF AccountSnapshot
  <2>2. todo' # NoSignals => ~DrawdownBreached(hwm', acct'.equity)
    BY <1>1 DEF StartCycle
  <2>3. /\ hwm \in Nat /\ peak \in Nat /\ equity \in Nat /\ StartingEquity \in Nat
        /\ peak <= hwm /\ acct'.equity \in Nat
    BY <1>t, <2>1, EngineAssumption DEF TypeOK, KillInv, SnapshotIs
  <2>4. hwm' = IF acct'.equity > hwm THEN acct'.equity ELSE hwm
    BY <1>1 DEF StartCycle, NewHwm
  <2>5. hwm' \in Nat /\ peak' <= hwm'
    <3>1. CASE known
      BY <2>0, <2>1, <2>3, <2>4, <3>1
    <3>2. CASE ~known
      BY <2>0, <2>3, <2>4, <3>2
    <3> QED BY <3>1, <3>2
  <2>6. todo' # NoSignals => WithinDrawdown'
    <3>1. (hwm' - acct'.equity) * 100 \in Int /\ 8 * hwm' \in Int
      BY <2>3, <2>5
    <3>2. ~((hwm' - acct'.equity) * 100 >= 8 * hwm')
            => (hwm' - acct'.equity) * 100 < 8 * hwm'
      BY <3>1, IntOrder
    <3> QED BY <2>2, <3>2 DEF DrawdownBreached, WithinDrawdown, MaxTotalDdPct
  <2>7. pc' = "scan"
    BY <1>1 DEF StartCycle
  <2>8. SnapshotIs'
    BY <2>1, <2>5 DEF SnapshotIs
  <2> QED BY <2>6, <2>7, <2>8 DEF KillInv, KillSwitch, NoSignals
<1>2. ASSUME NEW s \in Symbols, Refuse(s) PROVE KillInv'
  <2>1. pc = "scan" /\ pc' = "scan" /\ todo # NoSignals
    BY <1>2 DEF Refuse, Pending, NoSignals
  <2> QED BY <1>2, <1>q, <2>1 DEF Refuse
<1>3. ASSUME NEW s \in Symbols, Admit(s) PROVE KillInv'
  <2>1. pc = "scan" /\ pc' = "sending" /\ todo # NoSignals
        /\ cur'.no = ProspectiveNo /\ UNCHANGED <<acct, sample, hwm, peak>>
    BY <1>3 DEF Admit, Pending, NoSignals
  <2>2. ProspectiveNo <= HouseMoneyMaxNumber /\ ~TotalLossNearCap(acct)
    <3>1. Gate(s) = "ok"
      BY <1>3 DEF Admit
    <3>2. ~(ProspectiveNo > HouseMoneyMaxNumber)
      BY <3>1 DEF Gate
    <3>3. CanTrade(Proposal(s), InWindow(at.phase), Blackout(s), acct, FALSE) = "ok"
      BY <3>1 DEF Gate
    <3>4. ProspectiveNo \in Nat
      BY <1>t DEF ProspectiveNo, TypeOK, DailyStates
    <3> QED BY <3>2, <3>3, <3>4 DEF CanTrade, HouseMoneyMaxNumber
  <2>3. cur'.no \in {1, 2}
    BY <1>t, <2>1, <2>2 DEF ProspectiveNo, HouseMoneyMaxNumber, TypeOK, DailyStates
  <2>4. acct.equity \in Nat /\ acct.equity > 0 /\ SnapshotIs
    <3>1. acct.equity \in EquityLevels
      BY <1>t DEF TypeOK
    <3>2. \A e \in EquityLevels : e \in Nat /\ e > 0
      BY EngineAssumption
    <3> QED BY <3>1, <3>2 DEF KillInv
  <2>5. (StartingEquity - acct.equity) * 10000 < StartingEquity * MaxTotalLossPct * SafetyMarginPct
    <3>1. StartingEquity * MaxTotalLossPct * SafetyMarginPct \in Int
      BY EngineAssumption, ComplianceAssumption DEF SafetyMarginPct
    <3>2. (StartingEquity - acct.equity) * 10000 \in Int
      BY <2>4, EngineAssumption
    <3>3. ~((StartingEquity - acct.equity) * 10000
              >= StartingEquity * MaxTotalLossPct * SafetyMarginPct)
      BY <2>2, <2>4 DEF TotalLossNearCap, SnapshotIs
    <3> QED BY <3>1, <3>2, <3>3, IntOrder
  <2>6. WithinDrawdown
    BY <2>1 DEF KillInv
  <2>7. (peak - acct.equity) * 100 < MaxTotalDdPct * peak
    <3>1. peak \in Nat /\ hwm \in Nat /\ peak <= hwm
      BY <1>t, <2>4 DEF TypeOK, SnapshotIs
    <3> QED BY <2>4, <2>6, <3>1, LowerPeak DEF WithinDrawdown
  <2>8. sample.known => WithinLimits(peak, sample.equity)
    BY <2>4, <2>5, <2>7 DEF WithinLimits, SnapshotIs
  <2>9. KillSwitch'
    BY <2>1, <2>3, <2>4, <2>8 DEF KillSwitch, WithinLimits
  <2> QED BY <2>1, <2>4, <2>6, <2>9 DEF KillInv, SnapshotIs, WithinDrawdown
<1>4. ASSUME NEW s \in Symbols, Maintain(s) PROVE KillInv'
  BY <1>4, <1>q DEF Maintain
<1>5. CASE OrderFilled
  BY <1>5, <1>q DEF OrderFilled, AfterFill
<1>6. CASE OrderRaises
  BY <1>6, <1>g, <1>k DEF OrderRaises, AfterRaise
<1>7. CASE BookTrade
  BY <1>7, <1>q DEF BookTrade
<1>8. CASE EndScan
  BY <1>8, <1>q DEF EndScan
<1>9. CASE EndCycle
  BY <1>9, <1>g, <1>k DEF EndCycle
<1>10. CASE AdvanceClock
  BY <1>10, <1>q DEF AdvanceClock
<1>11. ASSUME NEW s \in Symbols, BarCloses(s) PROVE KillInv'
  BY <1>11, <1>q DEF BarCloses
<1>12. CASE EquityMoves
  BY <1>12, <1>q DEF EquityMoves
<1>13. ASSUME NEW t \in live, BrokerCloses(t) PROVE KillInv'
  BY <1>13, <1>q DEF BrokerCloses
<1>14. CASE Terminate
  BY <1>14, <1>g DEF Terminate
<1>15. CASE Restart
  BY <1>15, <1>q DEF Restart
<1>16. CASE UNCHANGED vars
  BY <1>16, <1>q DEF vars
<1>17. CASE PollFails \/ ProvidersRaise
  BY <1>t, <1>17, PollsMiss, <1>q
<1> QED BY <1>1, <1>2, <1>3, <1>4, <1>5, <1>6, <1>7, <1>8, <1>9, <1>10, <1>11,
           <1>12, <1>13, <1>14, <1>15, <1>16, <1>17 DEF Next, Cycle, Environment

\* SAFETY CAP #3 (live_engine.py:245-275): whenever an order leaves, the trade
\* is the first or second of its day, and if the terminal gave the cycle its
\* account, the equity it read was less than MAX_TOTAL_DD_PCT below the highest the
\* process ever read and less than 80% of the total-loss cap below the starting
\* equity, for any equity curve, restarts and cycles without an account between.
THEOREM KillSwitchHolds == Spec => []KillSwitch
<1>1. KillInv => KillSwitch
  BY DEF KillInv
<1> QED BY TypeInit, TypeStep, KillInit, KillStep, <1>1, PTL DEF Spec

=============================================================================
