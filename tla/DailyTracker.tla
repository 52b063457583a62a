----------------------------- MODULE DailyTracker -----------------------------
(***************************************************************************)
(* monitoring/daily_tracker.py with a persist_path: the day's snapshot in  *)
(* memory, its one-row file on disk, and an account that tells it what     *)
(* happens.  The process may die at any time, also while the file is being *)
(* written (to_parquet overwrites in place), and midnight IST passes while *)
(* it runs, while it is down, or between two calls.                        *)
(***************************************************************************)
EXTENDS DailyState, Sequences, FiniteSets

CONSTANTS
  StartingEquity,   \* starting_equity of the tracker and of the account
  Results,          \* results a trade may be closed with
  Floats,           \* floating results the account may show
  MaxDay, MaxEvents, MaxDeaths   \* bounds: days, calls to mutators, deaths

TrackerAssumption ==
  /\ StartingEquity \in Nat
  /\ Results \subseteq Int /\ Floats \subseteq Int /\ 0 \in Floats
  /\ MaxDay \in Nat /\ MaxEvents \in Nat /\ MaxDeaths \in Nat

VARIABLES
  day,          \* the IST trade day
  realised,     \* account: what closed trades have made, all days
  floating,     \* account: what open trades show
  up,           \* the process runs
  state,        \* DailyTracker._state
  file,         \* the file: "absent", "torn", or a snapshot
  opens, seen,  \* history: opens and equities told today, to any process
  born,         \* history: how many of each before this process
  unsaved,      \* history: one was told since the file was last written
  whole,        \* history: no death of today has lost one
  events, deaths

account == <<realised, floating>>
told    == <<opens, seen>>
fate    == <<born, unsaved, whole>>
vars == <<day, account, up, state, file, told, fate, events, deaths>>

Equity == StartingEquity + realised + floating
Absent == [kind |-> "absent"]
Torn   == [kind |-> "torn"]
Row(s) == [kind |-> "row", row |-> s]
Nothing == [opens |-> 0, seen |-> 0]
ToldToday == opens > 0 \/ seen # <<>>

Init ==
  /\ day = 0 /\ realised = 0 /\ floating = 0
  /\ up = TRUE /\ state = EmptyDay(0, StartingEquity)
  /\ file = Absent
  /\ opens = 0 /\ seen = <<>>
  /\ born = Nothing /\ unsaved = FALSE /\ whole = TRUE
  /\ events = 0 /\ deaths = 0

-----------------------------------------------------------------------------
Midnight ==
  /\ day < MaxDay
  /\ day' = day + 1
  /\ opens' = 0 /\ seen' = <<>>
  /\ born' = Nothing /\ unsaved' = FALSE /\ whole' = TRUE
  /\ UNCHANGED <<account, up, state, file, events, deaths>>

AccountFloats ==
  /\ floating' \in Floats
  /\ UNCHANGED <<day, realised, up, state, file, told, fate, events, deaths>>

Event ==
  /\ up /\ events < MaxEvents /\ events' = events + 1
  /\ UNCHANGED <<day, up, file, born, whole, deaths>>

\* update_equity with the account's equity
ObserveEquity ==
  /\ Event
  /\ state' = UpdateEquity(state, Equity, day)
  /\ seen' = Append(seen, Equity) /\ unsaved' = TRUE
  /\ UNCHANGED <<account, opens>>

\* record_trade_open
TradeOpens ==
  /\ Event
  /\ state' = RecordTradeOpen(state, day)
  /\ opens' = opens + 1 /\ unsaved' = TRUE
  /\ UNCHANGED <<account, seen>>

\* record_trade_closed, when a trade was closed
TradeCloses(pnl) ==
  /\ Event
  /\ realised' = realised + pnl /\ floating' = 0
  /\ state' = RecordTradeClosed(state, pnl, day)
  /\ UNCHANGED <<told, unsaved>>

\* set_floating_pnl with the account's floating result
ObserveFloating ==
  /\ Event
  /\ state' = SetFloatingPnl(state, floating, day)
  /\ UNCHANGED <<account, told, unsaved>>

\* persist
Persist ==
  /\ up
  /\ file' = Row(state)
  /\ unsaved' = FALSE
  /\ UNCHANGED <<day, account, up, state, told, born, whole, events, deaths>>

\* The process dies; if it was inside persist, the file is left torn.  What it
\* was told since it last wrote the file is lost, with a torn file all of today.
Die ==
  /\ up /\ deaths < MaxDeaths
  /\ up' = FALSE /\ deaths' = deaths + 1
  /\ file' \in {file, Torn}
  /\ whole' = (whole /\ ~unsaved /\ (file' = Torn => ~ToldToday))
  /\ UNCHANGED <<day, account, state, told, born, unsaved, events>>

\* _load_if_same_day
Loadable == file.kind = "row" /\ file.row.trade_day = day

\* __init__: a snapshot of today from the file, or an empty one.
Start ==
  /\ ~up
  /\ up' = TRUE
  /\ state' = IF Loadable THEN file.row ELSE EmptyDay(day, StartingEquity)
  /\ born' = [opens |-> opens, seen |-> Len(seen)]
  /\ UNCHANGED <<day, account, file, told, unsaved, whole, events, deaths>>

Next ==
  \/ Midnight \/ AccountFloats
  \/ ObserveEquity \/ TradeOpens \/ ObserveFloating
  \/ \E pnl \in Results : TradeCloses(pnl)
  \/ Persist \/ Die \/ Start

Spec == Init /\ [][Next]_vars

-----------------------------------------------------------------------------
(* Properties. *)

TypeOK ==
  /\ day \in 0 .. MaxDay /\ realised \in Int /\ floating \in Floats
  /\ up \in BOOLEAN /\ state \in DailyStates
  /\ file \in {Absent, Torn} \/ (file.kind = "row" /\ file.row \in DailyStates)
  /\ opens \in Nat /\ \A i \in DOMAIN seen : seen[i] \in Int
  /\ born.opens \in 0 .. opens /\ born.seen \in 0 .. Len(seen)
  /\ unsaved \in BOOLEAN /\ whole \in BOOLEAN
  /\ events \in 0 .. MaxEvents /\ deaths \in 0 .. MaxDeaths

\* The snapshot a reader would get: the tracker's, once it has rolled.
Current == state.trade_day = day

\* The day's count is the number of opens that all processes of this IST day
\* were told of, unless a death of the day came after one that was not in the
\* file, or tore the file; also then it holds every open this process was told
\* of, and never more than were told.
CountIsToday ==
  up => IF Current
        THEN /\ state.trade_count \in (opens - born.opens) .. opens
             /\ whole => state.trade_count = opens
        ELSE opens = 0

\* The day's drawdown covers every fall between two equities that all processes
\* of this day observed (with the same exception: that this process did), it is
\* never understated, wherever the midnight and the restarts fell.  That it is
\* not overstated is not promised: the baseline of a rolled day is no equity
\* (DailyState!Rolled).
DrawdownCovers ==
  up => \A i, j \in DOMAIN seen : i <= j /\ (whole \/ i > born.seen) =>
          /\ Current
          /\ seen[i] <= state.peak_equity
          /\ seen[i] - seen[j] <= state.max_dd_today
=============================================================================
