---------------------------- MODULE TradeLedger ----------------------------
(***************************************************************************)
(* What the live program promises about its trades, without its cycles,    *)
(* clocks and brokers: a list of booked trades in which every process      *)
(* lifetime takes at most one trade per direction and at most Cap trades   *)
(* per IST day, each booked at or after the day of the one before, and     *)
(* from which nothing is ever removed.                                     *)
(***************************************************************************)
EXTENDS Naturals, FiniteSets, Sequences

CONSTANTS Symbols, Directions, Cap, Runs, Days

VARIABLE trades      \* booked trades, oldest first

Trade == [sym : Symbols, dir : Directions, run : Runs, day : Days]

OfDay(r, d) == {i \in DOMAIN trades : trades[i].run = r /\ trades[i].day = d}

Init == trades = <<>>

Book(x) ==
  /\ \A i \in OfDay(x.run, x.day) : trades[i].dir # x.dir
  /\ Cardinality(OfDay(x.run, x.day)) < Cap
  /\ \A i \in DOMAIN trades : trades[i].run <= x.run /\ trades[i].day <= x.day
  /\ trades' = Append(trades, x)

Next == \E x \in Trade : Book(x)

Spec == Init /\ [][Next]_trades
=============================================================================
