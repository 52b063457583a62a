--------------------------- MODULE PositionManager ---------------------------
(***************************************************************************)
(* Per-bar maintenance of open positions on one pair: GriffPositionManager *)
(* .maintain (execution/position_manager.py) over SwingTracker and         *)
(* TrailingStopLoss, against the broker's own view of the same positions.  *)
(*                                                                         *)
(* The manager never asks the broker what is open.  It moves the broker's  *)
(* stop with modify_sl and infers from the bar that closed whether its own *)
(* copy of the stop was touched.  The modify_sl call is an await: prices   *)
(* move, and the broker closes positions, while it is in flight.           *)
(*                                                                         *)
(* A position is its ticket, an index into deals.  Its side, entry and     *)
(* target never change, so the map holds the cached stop alone.  Pending   *)
(* orders are in PendingExpiry; the V5 engine registers none.              *)
(***************************************************************************)
EXTENDS Integers, Sequences

CONSTANTS
  Sides,          \* sides positions may have: a subset of {"BUY", "SELL"}
  Prices,         \* prices the market visits
  Targets,        \* tp_price values of the signals
  SlPoints,       \* sl_pts of the pair
  TrailOffset,    \* trail_offset_pips
  WidenPips,      \* widen_pips_for(pair)
  Faults,         \* which of AllFaults occur
  MaxPositions,   \* bound: positions ever opened
  MaxBars         \* bound: H1 bars closed

AllFaults == {"ambiguous", "rejected", "skipped"}

ASSUME PositionAssumption ==
  /\ Sides \subseteq {"BUY", "SELL"}
  /\ Prices \subseteq Nat /\ Targets \subseteq Nat
  /\ SlPoints \in Nat \ {0}
  /\ TrailOffset \in Nat /\ WidenPips \in Nat
  /\ Faults \subseteq AllFaults
  /\ MaxPositions \in Nat /\ MaxBars \in Nat

VARIABLES
  forming,      \* the H1 bar in progress: its range so far and last price
  due,          \* the newest closed bar not yet maintained, if any
  bars,         \* H1 bars closed so far
  deals,        \* the broker's positions, by ticket
  window,       \* _PairState.bars, without the bar about to leave it
  last_high, last_low,   \* last confirmed swings, {} or {level}
  positions,    \* _positions: ticket -> cached sl_price
  trails,       \* _state: ticket -> structural_sl
  pc, bar, now_inside, target,   \* the running maintain call
  queue,        \* the tickets of its snapshot it has not come to yet
  young,        \* history: tickets whose broker stop was set in the forming bar
  unsettled,    \* history: tickets whose stop was set in or after the closed bar
  denied        \* history: tickets whose last modification was executed and denied

market  == <<forming, due, bars>>
swings  == <<window, last_high, last_low>>
call    == <<bar, now_inside, target>>
history == <<young, unsettled, denied>>
vars == <<market, deals, swings, positions, trails, pc, call, queue, history>>

NoBar == [lo |-> 0, hi |-> 0]
Tracked == DOMAIN positions

\* a is at least as good a stop as b for a position of this side.
AtLeast(side, a, b) == IF side = "BUY" THEN a >= b ELSE a <= b
\* level moved d away from the market for a position of this side.
Away(side, level, d) == IF side = "BUY" THEN level - d ELSE level + d

Init ==
  /\ \E p \in Prices : forming = [lo |-> p, hi |-> p, last |-> p]
  /\ due = <<>> /\ bars = 0
  /\ deals = <<>>
  /\ window = <<>> /\ last_high = {} /\ last_low = {}
  /\ positions = <<>> /\ trails = <<>>
  /\ pc = "idle" /\ bar = NoBar /\ now_inside = FALSE
  /\ queue = {} /\ target = 0
  /\ young = {} /\ unsettled = {} /\ denied = {}

-----------------------------------------------------------------------------
(* The market and the broker. *)

\* The broker closes at the stop or at the target when a price reaches it.
AfterPrice(d, p) ==
  IF d.status # "open" THEN d
  ELSE IF AtLeast(d.side, d.sl, p) THEN [d EXCEPT !.status = "stopped"]
  ELSE IF AtLeast(d.side, p, d.tp) THEN [d EXCEPT !.status = "target"]
  ELSE d

Tick(p) ==
  /\ p # forming.last
  /\ forming' = [ lo   |-> IF p < forming.lo THEN p ELSE forming.lo,
                  hi   |-> IF p > forming.hi THEN p ELSE forming.hi,
                  last |-> p ]
  /\ deals' = [t \in DOMAIN deals |-> AfterPrice(deals[t], p)]
  /\ UNCHANGED <<due, bars, swings, positions, trails, pc, call, queue, history>>

\* The hour ends; the next bar opens at the last price.  An hour is longer
\* than a poll and the maintenance that follows it.
BarCloses ==
  /\ pc = "idle" /\ due = <<>> /\ bars < MaxBars
  /\ bars' = bars + 1
  /\ due' = <<[lo |-> forming.lo, hi |-> forming.hi]>>
  /\ forming' = [lo |-> forming.last, hi |-> forming.last, last |-> forming.last]
  /\ unsettled' = young /\ young' = {}
  /\ UNCHANGED <<deals, swings, positions, trails, pc, call, queue, denied>>

-----------------------------------------------------------------------------
(* The manager, called by the engine's cycle. *)

\* The stop of an ASIAN_SWEEP signal: sl_pts beyond the bar that swept.
SignalStop(side) ==
  Away(side, IF side = "BUY" THEN due[1].lo ELSE due[1].hi, SlPoints)

\* register_position: the cycle of the closed bar filled a market order.
RegisterPosition(side, tp) ==
  LET ticket == Len(deals) + 1
      entry  == forming.last
      sl     == SignalStop(side)
  IN  /\ pc = "idle" /\ due # <<>>
      /\ ticket <= MaxPositions
      /\ ~AtLeast(side, sl, entry) /\ ~AtLeast(side, entry, tp)
      /\ deals' = Append(deals, [ side |-> side, entry |-> entry, sl |-> sl,
                                  tp |-> tp, status |-> "open" ])
      /\ positions' = [t \in Tracked \cup {ticket} |->
                         IF t = ticket THEN sl ELSE positions[t]]
      /\ young' = young \cup {ticket} /\ unsettled' = unsettled \cup {ticket}
      /\ UNCHANGED <<market, swings, trails, pc, call, queue, denied>>

\* The cycle was abandoned before maintain_open (an order raised).
SkipMaintain ==
  /\ "skipped" \in Faults
  /\ pc = "idle" /\ due # <<>>
  /\ due' = <<>>
  /\ UNCHANGED <<forming, bars, deals, swings, positions, trails, pc, call,
                 queue, history>>

\* SwingTracker.update: the middle of three bars is a swing when it stands
\* out strictly from both neighbours.
SwingHigh(l, m, r) == m.hi > l.hi /\ m.hi > r.hi
SwingLow(l, m, r)  == m.lo < l.lo /\ m.lo < r.lo

\* The deque of three after b arrived, less the bar the next one pushes out.
Slid(w, b) == IF Len(w) = 2 THEN <<w[2], b>> ELSE Append(w, b)

\* maintain, up to its loop over a snapshot of the positions.  The call may
\* fall inside the rollover protection window or not.
StartMaintain ==
  /\ pc = "idle" /\ due # <<>>
  /\ bar' = due[1] /\ due' = <<>>
  /\ now_inside' \in BOOLEAN
  /\ window' = Slid(window, due[1])
  /\ IF Len(window) = 2
     THEN LET l == window[1]  m == window[2]  r == due[1]
          IN  /\ last_high' = IF SwingHigh(l, m, r) THEN {m.hi} ELSE last_high
              /\ last_low'  = IF SwingLow(l, m, r)  THEN {m.lo} ELSE last_low
     ELSE UNCHANGED <<last_high, last_low>>
  /\ queue' = Tracked
  /\ pc' = "loop"
  /\ UNCHANGED <<forming, bars, deals, positions, trails, target, history>>

\* The structural stop after TrailingStopLoss.update's first step.
Anchor(side) == IF side = "BUY" THEN last_low ELSE last_high
Seeded(t) == IF t \in DOMAIN trails THEN trails[t] ELSE positions[t]
\* Variant: the stop follows structure in both directions.
Structural_Follows(t) ==
  LET side == deals[t].side
      targets == {Away(side, a, TrailOffset) : a \in Anchor(side)}
  IN  IF targets = {} THEN Seeded(t) ELSE CHOOSE x \in targets : TRUE
Structural(t) ==
  LET side   == deals[t].side
      better == {x \in {Away(side, a, TrailOffset) : a \in Anchor(side)} :
                   ~AtLeast(side, Seeded(t), x)}
  IN  IF better = {} THEN Seeded(t) ELSE CHOOSE x \in better : TRUE

\* Variant: a position in profit is widened like any other.
InProfit_Never(t, structural) == FALSE
InProfit(t, structural) == AtLeast(deals[t].side, structural, deals[t].entry)

\* The stop update() asks for, widened in the window unless in profit.
Effective(t) ==
  LET s == Structural(t)
  IN  IF now_inside /\ ~InProfit(t, s) THEN Away(deals[t].side, s, WidenPips) ELSE s

\* _sl_hit: the bar that closed touched the cached stop.
\* Variant: the sides are swapped.
SlHit_Swapped(t, sl) == IF deals[t].side = "SELL" THEN bar.lo <= sl ELSE bar.hi >= sl
SlHit(t, sl) == IF deals[t].side = "BUY" THEN bar.lo <= sl ELSE bar.hi >= sl

\* The rest of the loop body once the cached stop is sl.
Settle(t, sl) ==
  /\ positions' = IF SlHit(t, sl) THEN [u \in Tracked \ {t} |-> positions[u]]
                                  ELSE [positions EXCEPT ![t] = sl]
  /\ queue' = queue \ {t}

\* A dict keeps the order of insertion, which is that of the tickets.
IsNext(t) == t \in queue /\ \A u \in queue : t <= u

\* One position of the snapshot: the trail is updated, and either the stop
\* stands or modify_sl is awaited.
Examine ==
  /\ pc = "loop"
  /\ \E t \in queue :
       /\ IsNext(t)
       /\ trails' = [u \in DOMAIN trails \cup {t} |->
                       IF u = t THEN Structural(t) ELSE trails[u]]
       /\ IF Effective(t) = positions[t]
          THEN Settle(t, positions[t]) /\ UNCHANGED <<pc, target>>
          ELSE pc' = "modify" /\ target' = Effective(t) /\ UNCHANGED <<positions, queue>>
  /\ UNCHANGED <<market, deals, swings, bar, now_inside, history>>

\* The broker accepts a stop on the losing side of the price, for a position
\* it still holds.
Acceptable(t, sl) ==
  deals[t].status = "open" /\ ~AtLeast(deals[t].side, sl, forming.last)

\* The stop the map holds once modify_sl answered.
\* Variant: the answer is not looked at.
Cached_Regardless(t, ok) == target
Cached(t, ok) == IF ok THEN target ELSE positions[t]

\* The broker's side of modify_sl: the stop of t is moved.
Execute(t) ==
  /\ Acceptable(t, target)
  /\ deals' = [deals EXCEPT ![t].sl = target]
  /\ young' = young \cup {t} /\ unsettled' = unsettled \cup {t}

\* It is not; asking for the stop a position has already is no success either.
Decline(t) ==
  /\ "rejected" \in Faults \/ ~Acceptable(t, target) \/ deals[t].sl = target
  /\ UNCHANGED <<deals, young, unsettled>>

\* modify_sl is True for DONE and False for no answer and any other code,
\* also where the broker executed it.
ModifyAnswered ==
  /\ pc = "modify"
  /\ \E t \in queue, ok \in BOOLEAN :
       /\ IsNext(t)
       /\ \/ ok /\ Execute(t) /\ denied' = denied \ {t}
          \/ ~ok /\ Decline(t) /\ UNCHANGED denied
          \/ ~ok /\ "ambiguous" \in Faults /\ Execute(t) /\ denied' = denied \cup {t}
       /\ Settle(t, Cached(t, ok))
  /\ pc' = "loop"
  /\ UNCHANGED <<market, swings, trails, call>>

EndMaintain ==
  /\ pc = "loop" /\ queue = {}
  /\ pc' = "idle" /\ bar' = NoBar /\ now_inside' = FALSE /\ target' = 0
  /\ UNCHANGED <<market, deals, swings, positions, trails, queue, history>>

Next ==
  \/ \E p \in Prices : Tick(p)
  \/ BarCloses
  \/ \E side \in Sides, tp \in Targets : RegisterPosition(side, tp)
  \/ SkipMaintain
  \/ StartMaintain \/ Examine \/ ModifyAnswered \/ EndMaintain

Spec == Init /\ [][Next]_vars
-----------------------------------------------------------------------------
(* Properties. *)

Tickets == 1 .. Len(deals)
BarType == [lo : Prices, hi : Prices]
Deal == [ side : Sides, entry : Prices, sl : Int, tp : Targets,
          status : {"open", "stopped", "target"} ]

\* Types; every tracked or queued position is a deal of the broker.
TypeOK ==
  /\ forming \in [lo : Prices, hi : Prices, last : Prices]
  /\ due \in Seq(BarType) /\ Len(due) <= 1 /\ bars \in 0 .. MaxBars
  /\ deals \in Seq(Deal)
  /\ window \in Seq(BarType) /\ Len(window) <= 2
  /\ last_high \subseteq Prices /\ last_low \subseteq Prices
  /\ Tracked \subseteq Tickets /\ \A t \in Tracked : positions[t] \in Int
  /\ DOMAIN trails \subseteq Tickets /\ \A t \in DOMAIN trails : trails[t] \in Int
  /\ pc \in {"idle", "loop", "modify"} /\ bar \in BarType \cup {NoBar}
  /\ now_inside \in BOOLEAN /\ target \in Int
  /\ queue \subseteq Tracked
  /\ young \subseteq Tickets /\ unsettled \subseteq Tickets /\ denied \subseteq Tickets

\* "replace the cached position with the updated copy" (position_manager.py
\* :9-11) only after the broker accepted: as long as a tracked position is
\* open, the stop in the map is the stop at the broker, whatever was refused
\* and however prices moved while modify_sl was awaited.  The one exception is
\* a position whose last modification the broker executed and the answer denied
\* (order_router.py:326-328); the next one that is confirmed ends it.
MapMatchesBroker ==
  /\ TypeOK
  /\ \A t \in Tracked :
       deals[t].status = "open" => positions[t] = deals[t].sl \/ t \in denied

\* trailing_sl.py "the trail never moves UNFAVORABLY" and its one exception:
\* a stop is only moved away from the market by a maintenance call that
\* began inside the protection window, on a position not yet in profit.
LooseningOnlyInWindow ==
  [][\A t \in Tracked \cap DOMAIN positions' :
       AtLeast(deals[t].side, positions'[t], positions[t])
       \/ (now_inside /\ ~InProfit(t, trails[t]))]_positions

\* "no point handing a winner back" (trailing_sl.py): once the stop in the
\* map is at or beyond entry it never returns to the losing side, through
\* any number of bars, windows and refusals.
ProfitLockKept ==
  [][\A t \in Tracked \cap DOMAIN positions' :
       AtLeast(deals[t].side, positions[t], deals[t].entry)
         => AtLeast(deals[t].side, positions'[t], deals[t].entry)]_positions

\* A position is dropped from the map only if the broker has closed it, or
\* if its stop was set (by its opening or by modify_sl) after the bar it is
\* judged by had begun, or if the broker executed a loosening of its stop
\* and denied it, so that the cached stop is ahead of the broker's.
DropJustified ==
  [][\A t \in Tracked \ DOMAIN positions' :
       \/ deals[t].status # "open"
       \/ t \in unsettled \cup unsettled'
       \/ t \in denied /\ ~AtLeast(deals[t].side, deals[t].sl, positions[t])]_positions

\* position_manager.py:200-201 "The broker has SL set MT5-side so it already
\* closed; we just remove from our map": a position is only removed when the
\* broker holds it no longer.  The code does otherwise.
DropMeansClosed ==
  [][\A t \in Tracked \ DOMAIN positions' : deals[t].status # "open"]_positions
=============================================================================
