------------------------------ MODULE MCDetectors ------------------------------
(***************************************************************************)
(* The candles and the signals of the model-checked instance, and a day of *)
(* the Asian sweep next to them: one or the other goes on.                 *)
(***************************************************************************)
EXTENDS Detectors, AsianSweepDay

MCHourShapes    == {<<14, 1, 1>>, <<-14, 0, 1>>, <<33, 2, 0>>, <<-37, 2, 2>>}
MCLateShapes    == {<<14, 1, 1>>, <<-37, 2, 2>>, <<2, 1, 1>>, <<-2, 1, 1>>}
MCQuarterShapes == {<<14, 1, 1>>, <<-14, 1, 1>>, <<1, 1, 7>>, <<-1, 7, 1>>}
MCFoundSignals  ==
  {[symbol |-> "EURUSD", dir |-> d, entry |-> e, bar |-> b, setups |-> {s[1]},
    grade |-> s[2], confidence |-> s[3]] :
     d \in {"BUY", "SELL"}, e \in {0, 4, 8}, b \in {0, 3},
     s \in {<<"BOS_RETEST", "A", 85>>, <<"LIQ_SWEEP", "B", 70>>}}

-----------------------------------------------------------------------------
(* The day of the Asian sweep, in points. *)

MCPairConfig ==
  [EURUSD |-> [spread |-> 4, sl_pts |-> 80, min_r |-> 200, max_r |-> 2000, quality |-> 9,
               vpl |-> 1, lot_max |-> 10000, override |-> 0],
   AUDCHF |-> [spread |-> 8, sl_pts |-> 80, min_r |-> 150, max_r |-> 1800, quality |-> 5,
               vpl |-> 1, lot_max |-> 10000, override |-> 0],
   XAUUSD |-> [spread |-> 45, sl_pts |-> 70, min_r |-> 100, max_r |-> 3000, quality |-> 10,
               vpl |-> 1, lot_max |-> 10000, override |-> 10]]
MCPairs == <<"XAUUSD", "EURUSD">>

HBar(h, l, c) == [h |-> PT * h, l |-> PT * l, c |-> PT * c, t |-> 0]
\* Bars of the day before: one close after another, then the night, in a range.
History(d, first, closes, night) ==
  [k \in 1 .. Len(closes) + Len(night) |->
     LET t == d * A_DAY + first + 60 * (k - 1) IN
     IF k <= Len(closes) THEN [HBar(closes[k] + 20, closes[k] - 20, closes[k]) EXCEPT !.t = t]
     ELSE [night[k - Len(closes)] EXCEPT !.t = t]]
Night(c)   == <<HBar(110300, 110100, 110200), HBar(110250, 110000, 110150),
                HBar(110280, 110080, 110180), HBar(110200, 110050, c), HBar(110220, 110060, 110150)>>
GoldNight  == <<HBar(200300, 200100, 200200), HBar(200250, 200000, 200150), HBar(200200, 200050, 200150)>>
GoldQuiet  == <<200150, 200150, 200150, 200150, 200150>>
Quiet      == <<110150, 110150, 110150, 110150, 110150, 110150>>
Falling    == <<112500, 112500, 112500, 112500, 110900, 110900, 110900, 110900, 110900, 110900>>
Fallen     == <<112500, 112500, 112500, 112500, 112500, 112500, 112500, 110150, 110150, 110150>>
Setting(d, usd, weak, eur) ==
  [d |-> d, equity |-> usd * 100 * CENT, weak |-> weak,
   past |-> <<History(d, -420, GoldQuiet, GoldNight), eur>>]
MCSettings ==
  {Setting(2, 10000, FALSE, History(2, -600, Quiet, Night(110150))),
   Setting(2, 30000, TRUE,  History(2, -600, Quiet, Night(110050))),
   Setting(2, 30000, FALSE, History(2, -840, Falling, Night(110050))),
   Setting(2, 10000, FALSE, History(2, -840, Fallen, Night(110050))),
   Setting(7, 10000, FALSE, History(7, -600, Quiet, Night(110150)))}

Inside   == HBar(110250, 110050, 110150)
SweepLow == HBar(110100, 109900, 110020)
SweepHi  == HBar(110400, 110150, 110250)
ToTp1    == HBar(110200, 110050, 110190)
Rally    == HBar(110480, 110150, 110470)
Crash    == HBar(110100, 109700, 109750)
Fall     == HBar(110200, 109990, 110005)
GoldLow  == HBar(200100, 199800, 200030)
GoldFlash == HBar(200100, 165000, 200030)
GoldIn   == HBar(200400, 200010, 200350)
MCHourEvents ==
  <<[at |-> 360, pair |-> 2, bars |-> {Inside, SweepLow, SweepHi}],
    [at |-> 420, pair |-> 2, bars |-> {ToTp1, SweepLow, Crash, SweepHi}],
    [at |-> 480, pair |-> 2, bars |-> {Inside, Rally, Fall}],
    [at |-> 540, pair |-> 1, bars |-> {GoldIn, GoldLow, GoldFlash}],
    [at |-> 600, pair |-> 2, bars |-> {SweepLow, Inside, Crash}],
    [at |-> 660, pair |-> 1, bars |-> {GoldIn}],
    [at |-> 720, pair |-> 2, bars |-> {SweepLow, SweepHi}],
    [at |-> 780, pair |-> 2, bars |-> {Rally, Inside, Crash}],
    [at |-> 900, pair |-> 2, bars |-> {SweepLow, ToTp1}],
    [at |-> 960, pair |-> 2, bars |-> {Inside, Rally}]>>

OneSetting == CHOOSE x \in MCSettings : TRUE
Still == htf = <<>> /\ scan = <<>>
MCInit == Init /\ DayInit
MCNext ==
  \/ hour = 0 /\ setting = OneSetting /\ Next /\ UNCHANGED dayvars
  \/ Still /\ DayNext /\ UNCHANGED vars
MCSpec == MCInit /\ [][MCNext]_<<vars, dayvars>>
=============================================================================
