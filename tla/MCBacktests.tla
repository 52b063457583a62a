------------------------------ MODULE MCBacktests ------------------------------
(***************************************************************************)
(* The stored data of the model-checked instance: a Monday that the        *)
(* look-back leaves out, then events from Wednesday to Friday night.       *)
(***************************************************************************)
EXTENDS Backtests

MCUsdQuoted == {"EURUSD"}
MCConverter == [GBPJPY |-> "USDJPY", USDJPY |-> "USDJPY"]
At(day, hour, minute) == day * DAY + 60 * hour + minute
MCStoredHtf ==
  [EURUSD |-> <<At(0, 9, 0), At(2, 12, 0), At(2, 13, 0), At(2, 14, 0), At(3, 5, 0), At(3, 6, 0), At(4, 13, 0)>>,
   GBPJPY |-> <<At(2, 12, 0), At(2, 13, 0), At(2, 18, 0)>>]
MCStoredLtf ==
  <<<<At(0, 10, 0), "EURUSD">>, <<At(2, 14, 0), "EURUSD">>, <<At(2, 14, 15), "GBPJPY">>,
    <<At(2, 14, 30), "EURUSD">>, <<At(3, 7, 0), "EURUSD">>,
    <<At(4, 14, 15), "GBPJPY">>, <<At(4, 23, 45), "EURUSD">>>>

Bar(o, h, l, c) == [o |-> o, h |-> h, l |-> l, c |-> c, v |-> 1, spread |-> 10]
Calm   == Bar(100, 102, 98, 100)
Wide   == [Calm EXCEPT !.spread = 30]
MCCalmBars == {Calm, Wide}
MCBars == {Calm, Bar(100, 118, 99, 116), Bar(116, 133, 112, 113),
           Bar(100, 102, 88, 90), Bar(110, 111, 104, 106),
           Bar(115, 117, 114, 115)}

Signal(d, entry, sl, tp1, tp) == [dir |-> d, entry |-> entry, sl |-> sl, tp1 |-> tp1, tp |-> tp]
Says(kind) == [kind |-> kind, sig |-> Signal("BUY", 0, 0, 0, 0)]
Gives(x)   == [kind |-> "signal", sig |-> x]
Long  == Gives(Signal("BUY", 100, 91, 0, 131))
Tagged == Gives(Signal("BUY", 100, 91, 111, 121))
Short == Gives(Signal("SELL", 100, 109, 0, 69))
Tight == Gives(Signal("BUY", 100, 97, 0, 131))
MCAnswers ==
  <<{Long, Tagged, Tight}, {Says("none"), Short, Says("news")}, {Says("none"), Long, Short},
    {Says("none"), Says("quiet"), Tagged}, {Says("none"), Long}, {Says("none"), Short}>>
MCScripts == ({"multi", "silver", "flip", "gold", "A", "D", "E", "F"} \X {TRUE}) \cup {<<"C", FALSE>>}

(* Gold: three levels from before the session, two lows at 1000 and 1001 and a
   high at 1040 between them; then a Wednesday and a Thursday. *)
Frame15(day, k, low, high) ==
  [t |-> At(day, 9, 45) + 15 * k, done |-> At(day, 10, 0) + 15 * k,
   o |-> 1012, c |-> 1012, l |-> low, h |-> high]
Morning(day) ==
  <<Frame15(day, 0, 1010, 1030), Frame15(day, 1, 1006, 1025), Frame15(day, 2, 1000, 1020),
    Frame15(day, 3, 1006, 1030), Frame15(day, 4, 1010, 1040), Frame15(day, 5, 1006, 1030),
    Frame15(day, 6, 1001, 1020), Frame15(day, 7, 1006, 1025), Frame15(day, 8, 1008, 1022)>>
MCStored15 == Morning(2) \o Morning(3)
MCStored5  ==
  <<[t |-> At(2, 11, 55), done |-> At(2, 12, 0), o |-> 1010, c |-> 1012, l |-> 1008, h |-> 1013],
    [t |-> At(3, 11, 55), done |-> At(3, 12, 0), o |-> 1010, c |-> 1012, l |-> 1008, h |-> 1013]>>
Gold1(o, h, l, c) == [o |-> o, h |-> h, l |-> l, c |-> c, spread |-> 4, t |-> 0, done |-> 0]
Still   == Gold1(1004, 1010, 1002, 1005)
PinLow  == Gold1(1002, 1003, 996, 1003)
PinHigh == Gold1(1038, 1044, 1037, 1037)
Drop    == Gold1(1003, 1004, 990, 992)
Rise    == Gold1(1004, 1033, 1003, 1032)
Dip     == Gold1(1004, 1004, 997, 1000)
Engulf  == Gold1(1000, 1006, 998, 1005)
Fall    == Gold1(1036, 1037, 1004, 1006)
Sink    == Gold1(997, 999, 990, 992)
MCGoldTimes ==
  <<At(2, 12, 10), At(2, 12, 11), At(2, 12, 14), At(2, 12, 15), At(2, 12, 16), At(2, 13, 0),
    At(2, 13, 1), At(2, 13, 2), At(3, 12, 20), At(3, 16, 54), At(3, 17, 0)>>
MCGoldBars ==
  <<{PinLow, Dip}, {Still, Engulf, Rise, PinLow, Sink}, {Still, Rise, PinLow}, {PinHigh, PinLow, Still},
    {Fall, Still, PinHigh}, {PinLow, PinHigh}, {Still, PinHigh}, {[Still EXCEPT !.spread = 0]},
    {PinLow, Still}, {PinLow, Still, Drop}, {Still}>>
MCGoldNews == {4, 9}

-----------------------------------------------------------------------------
(* What the header of a backtest says of its data and the walk does not do. *)

\* The gold backtest has a clock of its own and makes no such claim.
ClaimScripts == {x \in MCScripts : x[1] # "gold"}

\* multi_setup_backtest.py:4 "with strict no-look-ahead bias", and :461 "closed
\* bars strictly before current LTF time": every 1H bar a detector is shown
\* has closed when the 15M bar it decides on closes.  The cursor compares the
\* time at which the 1H bar opened, so the bar that is still forming is shown
\* with its final high, low and close.
NoLookAhead ==
  s.shown # <<>> => s.shown[1] + 60 <= s.shown[2] + 15
=============================================================================
