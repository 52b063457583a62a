---------------------------- MODULE PositionProofs ----------------------------
(***************************************************************************)
(* Proofs about PositionManager, for any prices, targets, distances and    *)
(* number of positions, whichever of the faults occur.                     *)
(***************************************************************************)
EXTENDS PositionManager, SequenceTheorems, TLAPS

-----------------------------------------------------------------------------
(***************************************************************************)
(* The inductive invariant.  The properties speak of one step; what makes  *)
(* them hold is how four stops of a position are ordered between steps:    *)
(* the broker's, the cached one, the structural one of the trail, and the  *)
(* one modify_sl is asked for.                                             *)
(***************************************************************************)
Side(t) == deals[t].side

\* The cached stop of an open position is the broker's, or an answer denied it.
CachedIsBrokers ==
  \A t \in Tracked : deals[t].status = "open" => positions[t] = deals[t].sl \/ t \in denied

\* The structural stop is never behind the cached one.
TrailLeads == \A t \in Tracked \cap DOMAIN trails : AtLeast(Side(t), trails[t], positions[t])

\* What modify_sl was asked for: the structural stop, or it widened.
AskedFor ==
  pc = "modify" => \A t \in queue : IsNext(t) =>
    /\ t \in DOMAIN trails
    /\ target = IF now_inside /\ ~InProfit(t, trails[t])
                THEN Away(Side(t), trails[t], WidenPips) ELSE trails[t]

\* The price of a bar that comes nearest to the stop of a position.
Nearest(side, b) == IF side = "BUY" THEN b.lo ELSE b.hi

\* No price reached the stop of an open position, neither the last one nor
\* any of a bar in which that stop was in force from the beginning.
NotReached ==
  \A t \in Tickets : deals[t].status = "open" =>
    LET clear(p) == ~AtLeast(Side(t), deals[t].sl, p)
    IN  /\ clear(forming.last)
        /\ t \notin young => clear(Nearest(Side(t), forming))
        /\ t \notin unsettled /\ due # <<>> => clear(Nearest(Side(t), due[1]))
        /\ t \notin unsettled /\ pc # "idle" => clear(Nearest(Side(t), bar))

PositionInv ==
  /\ TypeOK
  /\ pc = "idle" => queue = {}
  /\ CachedIsBrokers /\ TrailLeads /\ AskedFor /\ NotReached

-----------------------------------------------------------------------------
(* Lemmas about the order of stops and about bars. *)

LEMMA StopOrder ==
  \A side, a, b, c, d :
    a \in Int /\ b \in Int /\ c \in Int /\ d \in Nat =>
      /\ AtLeast(side, a, a)
      /\ AtLeast(side, a, b) \/ AtLeast(side, b, a)
      /\ AtLeast(side, a, b) /\ AtLeast(side, b, c) => AtLeast(side, a, c)
      /\ Away(side, a, d) \in Int /\ AtLeast(side, a, Away(side, a, d))
<1> SUFFICES ASSUME NEW side, NEW a \in Int, NEW b \in Int, NEW c \in Int, NEW d \in Nat
             PROVE  /\ AtLeast(side, a, a)
                    /\ AtLeast(side, a, b) \/ AtLeast(side, b, a)
                    /\ AtLeast(side, a, b) /\ AtLeast(side, b, c) => AtLeast(side, a, c)
                    /\ Away(side, a, d) \in Int /\ AtLeast(side, a, Away(side, a, d))
  OBVIOUS
<1>1. CASE side = "BUY"
  BY <1>1 DEF AtLeast, Away
<1>2. CASE side # "BUY"
  BY <1>2 DEF AtLeast, Away
<1> QED BY <1>1, <1>2

\* The constants, and the types of what a step reads.
LEMMA PositionTypes ==
  ASSUME TypeOK
  PROVE  /\ \A p \in Prices : p \in Nat
         /\ \A p \in Targets : p \in Nat
         /\ TrailOffset \in Nat /\ WidenPips \in Nat /\ SlPoints \in Nat
         /\ MaxBars \in Nat
         /\ Len(deals) \in Nat /\ DOMAIN deals = Tickets
         /\ \A t \in Tickets : /\ deals[t] \in Deal /\ deals[t].side \in Sides
                               /\ deals[t].sl \in Int /\ deals[t].entry \in Prices
                               /\ deals[t].entry \in Int
                               /\ deals[t].tp \in Targets
         /\ forming.lo \in Prices /\ forming.hi \in Prices /\ forming.last \in Prices
         /\ forming.lo \in Int /\ forming.hi \in Int /\ forming.last \in Int
<1>1. /\ \A p \in Prices : p \in Nat
      /\ \A p \in Targets : p \in Nat
      /\ TrailOffset \in Nat /\ WidenPips \in Nat /\ SlPoints \in Nat
      /\ MaxBars \in Nat
  BY PositionAssumption DEF PositionAssumption
<1>2. deals \in Seq(Deal) /\ forming \in [lo : Prices, hi : Prices, last : Prices]
  BY DEF TypeOK
<1>3. /\ Len(deals) \in Nat /\ DOMAIN deals = Tickets
      /\ \A t \in Tickets : deals[t] \in Deal
  BY <1>2 DEF Tickets
<1> QED BY <1>1, <1>2, <1>3 DEF Deal

\* The stop the trail settles on is the one it starts from or a better one.
LEMMA StructuralLeads ==
  ASSUME TypeOK, NEW t \in Tracked
  PROVE  /\ Seeded(t) \in Int /\ Structural(t) \in Int /\ Effective(t) \in Int
         /\ AtLeast(Side(t), Structural(t), Seeded(t))
<1>1. t \in Tickets /\ positions[t] \in Int /\ \A u \in DOMAIN trails : trails[u] \in Int
  BY DEF TypeOK
<1>2. Seeded(t) \in Int
  BY <1>1 DEF Seeded
<1>3. /\ \A p \in Prices : p \in Int
      /\ TrailOffset \in Nat /\ WidenPips \in Nat
      /\ Anchor(Side(t)) \subseteq Prices
  BY PositionTypes DEF Anchor, TypeOK
<1> DEFINE better == {x \in {Away(Side(t), a, TrailOffset) : a \in Anchor(Side(t))} :
                        ~AtLeast(Side(t), Seeded(t), x)}
<1>4. \A x \in better : x \in Int /\ ~AtLeast(Side(t), Seeded(t), x)
  <2>1. \A a \in Anchor(Side(t)) : Away(Side(t), a, TrailOffset) \in Int
    BY <1>3, StopOrder
  <2> QED BY <2>1
<1>5. Structural(t) = IF better = {} THEN Seeded(t) ELSE CHOOSE x \in better : TRUE
  BY DEF Structural, Side
<1> HIDE DEF better
<1>6. CASE better = {}
  <2>1. Structural(t) = Seeded(t)
    BY <1>5, <1>6
  <2> QED BY <1>2, <1>3, <2>1, StopOrder DEF Effective, Side
<1>7. CASE better # {}
  <2>1. Structural(t) \in better
    BY <1>5, <1>7
  <2>2. Structural(t) \in Int /\ ~AtLeast(Side(t), Seeded(t), Structural(t))
    BY <1>4, <2>1
  <2>3. AtLeast(Side(t), Structural(t), Seeded(t))
    BY <1>2, <2>2, StopOrder
  <2> QED BY <1>2, <1>3, <2>2, <2>3, StopOrder DEF Effective, Side
<1> QED BY <1>6, <1>7

-----------------------------------------------------------------------------
(* The initial states, and one lemma for each action. *)

LEMMA PositionInit == Init => PositionInv
<1> SUFFICES ASSUME Init PROVE PositionInv
  OBVIOUS
<1>1. /\ due = <<>> /\ bars = 0 /\ deals = <<>> /\ window = <<>>
      /\ last_high = {} /\ last_low = {} /\ positions = <<>> /\ trails = <<>>
      /\ pc = "idle" /\ bar = NoBar /\ queue = {} /\ target = 0
      /\ young = {} /\ unsettled = {} /\ denied = {} /\ MaxBars \in Nat
  BY PositionAssumption DEF Init, PositionAssumption
<1>2. /\ Tickets = {} /\ Tracked = {} /\ DOMAIN trails = {} /\ Len(due) = 0 /\ Len(window) = 0
      /\ deals \in Seq(Deal) /\ due \in Seq(BarType) /\ window \in Seq(BarType)
  BY <1>1 DEF Tickets, Tracked
<1>3. forming \in [lo : Prices, hi : Prices, last : Prices] /\ now_inside \in BOOLEAN
  <2>1. \E p \in Prices : forming = [lo |-> p, hi |-> p, last |-> p]
    BY DEF Init
  <2>2. forming \in [lo : Prices, hi : Prices, last : Prices]
    BY <2>1
  <2> QED BY <2>2 DEF Init
<1>4. TypeOK
  BY <1>1, <1>2, <1>3 DEF TypeOK
<1> QED BY <1>1, <1>2, <1>4
        DEF PositionInv, CachedIsBrokers, TrailLeads, AskedFor, NotReached

LEMMA TickKeeps == \A p \in Prices : PositionInv /\ Tick(p) => PositionInv'
<1> SUFFICES ASSUME NEW p \in Prices, PositionInv, Tick(p) PROVE PositionInv'
  OBVIOUS
<1>1. /\ deals' = [t \in DOMAIN deals |-> AfterPrice(deals[t], p)]
      /\ forming' = [ lo   |-> IF p < forming.lo THEN p ELSE forming.lo,
                      hi   |-> IF p > forming.hi THEN p ELSE forming.hi,
                      last |-> p ]
      /\ UNCHANGED <<due, bars, window, last_high, last_low, positions, trails, pc,
                     bar, target, queue, young, unsettled, denied>>
  BY DEF Tick, swings, call, history
<1>n. now_inside' = now_inside
  BY DEF Tick, call
<1>t. TypeOK
  BY DEF PositionInv
\* A price changes the status of a deal at most, and closes those it reaches.
<1>2. ASSUME NEW t \in Tickets
      PROVE  /\ AfterPrice(deals[t], p) \in Deal
             /\ AfterPrice(deals[t], p).side = deals[t].side
             /\ AfterPrice(deals[t], p).sl = deals[t].sl
             /\ AfterPrice(deals[t], p).entry = deals[t].entry
             /\ AfterPrice(deals[t], p).status = "open" =>
                  deals[t].status = "open" /\ ~AtLeast(Side(t), deals[t].sl, p)
  <2>1. deals[t] \in Deal
    BY <1>t, <1>2, PositionTypes
  <2> QED BY <2>1 DEF AfterPrice, Deal, Side
<1>3. Len(deals) \in Nat /\ DOMAIN deals = 1 .. Len(deals) /\ Tickets = 1 .. Len(deals)
  BY <1>t, PositionTypes DEF Tickets
<1>4. deals' \in [1 .. Len(deals) -> Deal]
  BY <1>1, <1>2, <1>3
<1>5. deals' \in Seq(Deal) /\ Tickets' = Tickets
  <2>1. deals' \in Seq(Deal)
    BY <1>3, <1>4, SeqDef
  <2>2. Len(deals') = Len(deals)
    BY <1>3, <1>4, <2>1
  <2> QED BY <2>1, <2>2 DEF Tickets
<1>6. \A t \in Tickets : deals'[t] = AfterPrice(deals[t], p)
  BY <1>1, <1>3
<1>7. /\ forming' \in [lo : Prices, hi : Prices, last : Prices]
      /\ forming'.last = p
      /\ forming'.lo \in {p, forming.lo} /\ forming'.hi \in {p, forming.hi}
  BY <1>1, <1>t, PositionTypes
<1>8. TypeOK'
  <2>1. now_inside' \in BOOLEAN
    BY <1>n, <1>t, Zenon DEF TypeOK
  <2> QED BY <1>1, <1>5, <1>7, <1>t, <2>1 DEF TypeOK, Tracked
<1>9. /\ Tracked' = Tracked /\ Tracked \subseteq Tickets /\ queue \subseteq Tracked
  BY <1>1, <1>t DEF Tracked, TypeOK
<1>10. CachedIsBrokers' /\ TrailLeads'
  BY <1>1, <1>2, <1>6, <1>9 DEF PositionInv, CachedIsBrokers, TrailLeads, Side
<1>11. AskedFor'
  <2>1. \A t \in queue : InProfit(t, trails[t])' = InProfit(t, trails[t]) /\ Side(t)' = Side(t)
    BY <1>1, <1>2, <1>6, <1>9 DEF InProfit, Side
  <2> QED BY <1>1, <1>n, <2>1, Zenon DEF PositionInv, AskedFor, IsNext
<1>12. NotReached'
  <2> SUFFICES ASSUME NEW t \in Tickets, deals'[t].status = "open"
               PROVE  /\ ~AtLeast(Side(t), deals[t].sl, forming'.last)
                      /\ t \notin young => ~AtLeast(Side(t), deals[t].sl, Nearest(Side(t), forming'))
                      /\ t \notin unsettled /\ due # <<>> =>
                           ~AtLeast(Side(t), deals[t].sl, Nearest(Side(t), due[1]))
                      /\ t \notin unsettled /\ pc # "idle" =>
                           ~AtLeast(Side(t), deals[t].sl, Nearest(Side(t), bar))
    BY <1>1, <1>2, <1>5, <1>6 DEF NotReached, Side
  <2>1. deals[t].status = "open" /\ ~AtLeast(Side(t), deals[t].sl, p)
    BY <1>2, <1>6
  <2>2. Nearest(Side(t), forming') \in {p, Nearest(Side(t), forming)}
    BY <1>7 DEF Nearest
  <2> QED BY <1>7, <2>1, <2>2 DEF PositionInv, NotReached
<1> QED BY <1>1, <1>8, <1>10, <1>11, <1>12 DEF PositionInv

LEMMA BarClosesKeeps == PositionInv /\ BarCloses => PositionInv'
<1> SUFFICES ASSUME PositionInv, BarCloses PROVE PositionInv'
  OBVIOUS
<1> DEFINE b == [lo |-> forming.lo, hi |-> forming.hi]
<1>1. /\ pc = "idle" /\ bars < MaxBars /\ bars' = bars + 1 /\ due' = <<b>>
      /\ forming' = [lo |-> forming.last, hi |-> forming.last, last |-> forming.last]
      /\ unsettled' = young /\ young' = {}
      /\ UNCHANGED <<deals, window, last_high, last_low, positions, trails, pc, bar, target, queue,
                     denied>>
  BY DEF BarCloses, swings, call
<1>n. now_inside' = now_inside
  BY DEF BarCloses, call
<1>t. TypeOK
  BY DEF PositionInv
<1>2. b \in BarType /\ due' \in Seq(BarType) /\ Len(due') = 1 /\ due'[1] = b /\ due' # <<>>
  <2>1. b \in BarType
    BY <1>t, PositionTypes DEF BarType
  <2> HIDE DEF b
  <2> QED BY <1>1, <2>1
<1>3. forming' \in [lo : Prices, hi : Prices, last : Prices]
  BY <1>1, <1>t, PositionTypes
<1>4. bars' \in 0 .. MaxBars
  BY <1>1, <1>t, PositionTypes DEF TypeOK
<1>5. Tickets' = Tickets /\ Tracked' = Tracked
  BY <1>1 DEF Tickets, Tracked
<1>6. TypeOK'
  <2>1. now_inside' \in BOOLEAN
    BY <1>n, <1>t, Zenon DEF TypeOK
  <2>2. Len(due') <= 1
    BY <1>2
  <2> HIDE DEF b
  <2> QED BY <1>1, <1>2, <1>3, <1>4, <1>5, <1>t, <2>1, <2>2 DEF TypeOK
<1>7. CachedIsBrokers' /\ TrailLeads' /\ AskedFor'
  BY <1>1, <1>5 DEF PositionInv, CachedIsBrokers, TrailLeads, AskedFor, Side
<1>8. NotReached'
  <2> SUFFICES ASSUME NEW t \in Tickets, deals[t].status = "open"
               PROVE  /\ ~AtLeast(Side(t), deals[t].sl, forming'.last)
                      /\ ~AtLeast(Side(t), deals[t].sl, Nearest(Side(t), forming'))
                      /\ t \notin young => ~AtLeast(Side(t), deals[t].sl, Nearest(Side(t), due'[1]))
    BY <1>1, <1>5 DEF NotReached, Side
  <2>1. forming'.last = forming.last /\ Nearest(Side(t), forming') = forming.last
        /\ Nearest(Side(t), due'[1]) = Nearest(Side(t), forming)
    BY <1>1, <1>2 DEF Nearest
  <2> QED BY <2>1 DEF PositionInv, NotReached
<1> QED BY <1>1, <1>6, <1>7, <1>8 DEF PositionInv

LEMMA RegisterKeeps ==
  \A side \in Sides, tp \in Targets : PositionInv /\ RegisterPosition(side, tp) => PositionInv'
<1> SUFFICES ASSUME NEW side \in Sides, NEW tp \in Targets,
                    PositionInv, RegisterPosition(side, tp)
             PROVE  PositionInv'
  OBVIOUS
<1> DEFINE ticket == Len(deals) + 1
           sl     == SignalStop(side)
           new    == [ side |-> side, entry |-> forming.last, sl |-> sl, tp |-> tp,
                       status |-> "open" ]
<1>1. /\ pc = "idle" /\ due # <<>> /\ ~AtLeast(side, sl, forming.last)
      /\ deals' = Append(deals, new)
      /\ positions' = [t \in Tracked \cup {ticket} |-> IF t = ticket THEN sl ELSE positions[t]]
      /\ young' = young \cup {ticket} /\ unsettled' = unsettled \cup {ticket}
      /\ UNCHANGED <<forming, due, bars, window, last_high, last_low, trails, pc, bar, target,
                     queue, denied>>
  BY DEF RegisterPosition, market, swings, call
<1>n. now_inside' = now_inside
  BY DEF RegisterPosition, call
<1>t. TypeOK
  BY DEF PositionInv
<1>2. sl \in Int
  <2>1. due \in Seq(BarType) /\ Len(due) <= 1
    BY <1>t DEF TypeOK
  <2>2. due[1] \in BarType
    BY <1>1, <2>1
  <2>3. due[1].lo \in Int /\ due[1].hi \in Int
    BY <1>t, <2>2, PositionTypes DEF BarType
  <2>4. sl \in {Away(side, due[1].lo, SlPoints), Away(side, due[1].hi, SlPoints)}
    BY DEF SignalStop
  <2> HIDE DEF sl
  <2> QED BY <1>t, <2>3, <2>4, PositionTypes, StopOrder
<1>3. new \in Deal /\ new.sl = sl /\ new.side = side
  BY <1>2, <1>t, PositionTypes DEF Deal
<1> HIDE DEF sl, new
<1>4. /\ Len(deals) \in Nat /\ deals \in Seq(Deal) /\ Tickets = 1 .. Len(deals)
      /\ ticket \notin Tickets /\ \A t \in Tickets : t \in Int /\ t <= Len(deals)
  BY <1>t, PositionTypes DEF TypeOK, Tickets
<1>5. /\ deals' \in Seq(Deal) /\ Tickets' = Tickets \cup {ticket} /\ deals'[ticket] = new
      /\ \A t \in Tickets : deals'[t] = deals[t]
  BY <1>1, <1>3, <1>4 DEF Tickets
<1>6. /\ Tracked \subseteq Tickets /\ Tracked' = Tracked \cup {ticket}
      /\ positions'[ticket] = sl
      /\ \A t \in Tracked : positions'[t] = positions[t]
      /\ queue \subseteq Tracked /\ DOMAIN trails \subseteq Tickets
  BY <1>1, <1>4, <1>t DEF TypeOK, Tracked
<1> HIDE DEF ticket
<1>7. TypeOK'
  <2>1. now_inside' \in BOOLEAN
    BY <1>n, <1>t, Zenon DEF TypeOK
  <2>2. \A t \in Tracked' : positions'[t] \in Int
    BY <1>2, <1>6, <1>t DEF TypeOK
  <2> QED BY <1>1, <1>5, <1>6, <1>t, <2>1, <2>2 DEF TypeOK
<1>8. CachedIsBrokers' /\ TrailLeads'
  BY <1>1, <1>3, <1>4, <1>5, <1>6 DEF PositionInv, CachedIsBrokers, TrailLeads, Side
<1>9. AskedFor'
  BY <1>1 DEF AskedFor
<1>10. NotReached'
  <2>1. ASSUME NEW t \in Tickets, deals[t].status = "open"
        PROVE  /\ ~AtLeast(Side(t), deals[t].sl, forming.last)
               /\ t \notin young' => ~AtLeast(Side(t), deals[t].sl, Nearest(Side(t), forming))
               /\ t \notin unsettled' => ~AtLeast(Side(t), deals[t].sl, Nearest(Side(t), due[1]))
    BY <1>1, <2>1 DEF PositionInv, NotReached
  <2> QED BY <1>1, <1>3, <1>5, <2>1 DEF NotReached, Side
<1> QED BY <1>1, <1>7, <1>8, <1>9, <1>10 DEF PositionInv

LEMMA StartKeeps == PositionInv /\ StartMaintain => PositionInv'
<1> SUFFICES ASSUME PositionInv, StartMaintain PROVE PositionInv'
  OBVIOUS
<1>t. TypeOK
  BY DEF PositionInv
<1>1. /\ pc = "idle" /\ due # <<>> /\ bar' = due[1] /\ due' = <<>>
      /\ window' = Slid(window, due[1]) /\ queue' = Tracked /\ pc' = "loop"
      /\ UNCHANGED <<forming, bars, deals, positions, trails, target, young, unsettled, denied>>
  BY DEF StartMaintain, history
<1>2. now_inside' \in BOOLEAN
  BY DEF StartMaintain
<1>3. due[1] \in BarType
  <2>1. due \in Seq(BarType)
    BY <1>t DEF TypeOK
  <2> QED BY <1>1, <2>1
<1>4. window \in Seq(BarType) /\ Len(window) <= 2
  BY <1>t DEF TypeOK
<1>5. window' \in Seq(BarType) /\ Len(window') <= 2
  <2>1. CASE Len(window) = 2
    <3>1. window[2] \in BarType
      BY <1>4, <2>1, ElementOfSeq
    <3>2. window' = <<window[2], due[1]>>
      BY <1>1, <2>1 DEF Slid
    <3> QED BY <1>3, <3>1, <3>2
  <2>2. CASE Len(window) # 2
    <3>1. window' = Append(window, due[1])
      BY <1>1, <2>2 DEF Slid
    <3>2. Len(window) \in Nat /\ Len(window) <= 1
      <4> DEFINE n == Len(window)
      <4>1. n \in Nat /\ n <= 2 /\ n # 2
        BY <1>4, <2>2, LenProperties
      <4> HIDE DEF n
      <4>2. n \in Nat /\ n <= 1
        BY <4>1
      <4> QED BY <4>2 DEF n
    <3> QED BY <1>3, <1>4, <3>1, <3>2, AppendProperties
  <2> QED BY <2>1, <2>2
<1>6. last_high' \subseteq Prices /\ last_low' \subseteq Prices
  <2>1. Len(window) = 2 => window[2].hi \in Prices /\ window[2].lo \in Prices
    <3>1. Len(window) = 2 => window[2] \in BarType
      BY <1>4, ElementOfSeq
    <3> QED BY <3>1 DEF BarType
  <2> QED BY <1>t, <2>1 DEF StartMaintain, TypeOK
<1>7. Tracked' = Tracked /\ Tickets' = Tickets
  BY <1>1 DEF Tracked, Tickets
<1>8. TypeOK'
  <2>1. due' \in Seq(BarType) /\ Len(due') <= 1
    BY <1>1
  <2> QED BY <1>1, <1>2, <1>3, <1>5, <1>6, <1>7, <1>t, <2>1 DEF TypeOK
<1>9. CachedIsBrokers' /\ TrailLeads' /\ AskedFor'
  BY <1>1, <1>7 DEF PositionInv, CachedIsBrokers, TrailLeads, AskedFor, Side
<1>10. NotReached'
  BY <1>1, <1>7 DEF PositionInv, NotReached, Side
<1> QED BY <1>1, <1>8, <1>9, <1>10 DEF PositionInv

\* Leaving one position settled: the map keeps its stop, or lets it go.
LEMMA Settled ==
  ASSUME TypeOK, NEW t \in Tracked, NEW sl \in Int, Settle(t, sl)
  PROVE  /\ Tracked' \subseteq Tracked /\ queue' = queue \ {t}
         /\ Tracked' \in {Tracked, Tracked \ {t}}
         /\ Tracked' = Tracked <=> ~SlHit(t, sl)
         /\ \A u \in Tracked' : positions'[u] = IF u = t THEN sl ELSE positions[u]
         /\ \A u \in Tracked' : positions'[u] \in Int
<1>1. \A u \in Tracked : positions[u] \in Int
  BY DEF TypeOK
<1>2. CASE SlHit(t, sl)
  <2>1. positions' = [u \in Tracked \ {t} |-> positions[u]] /\ queue' = queue \ {t}
    BY <1>2 DEF Settle
  <2> QED BY <1>1, <1>2, <2>1 DEF Tracked
<1>3. CASE ~SlHit(t, sl)
  <2>1. positions' = [positions EXCEPT ![t] = sl] /\ queue' = queue \ {t}
    BY <1>3 DEF Settle
  <2>2. Tracked' = Tracked
    BY <2>1 DEF Tracked
  <2>3. \A u \in Tracked : positions'[u] = IF u = t THEN sl ELSE positions[u]
    BY <2>1 DEF Tracked
  <2> QED BY <1>1, <1>3, <2>1, <2>2, <2>3
<1> QED BY <1>2, <1>3

LEMMA ExamineKeeps == PositionInv /\ Examine => PositionInv'
<1> SUFFICES ASSUME PositionInv, Examine PROVE PositionInv'
  OBVIOUS
<1>t. TypeOK
  BY DEF PositionInv
<1>1. PICK t \in queue :
        /\ IsNext(t)
        /\ trails' = [u \in DOMAIN trails \cup {t} |-> IF u = t THEN Structural(t) ELSE trails[u]]
        /\ IF Effective(t) = positions[t]
           THEN Settle(t, positions[t]) /\ UNCHANGED <<pc, target>>
           ELSE pc' = "modify" /\ target' = Effective(t) /\ UNCHANGED <<positions, queue>>
  BY DEF Examine
<1>2. /\ pc = "loop"
      /\ UNCHANGED <<forming, due, bars, deals, window, last_high, last_low, bar, young, unsettled, denied>>
  BY DEF Examine, market, swings, history
<1>n. now_inside' = now_inside
  BY DEF Examine
<1>3. /\ t \in Tracked /\ Tracked \subseteq Tickets /\ DOMAIN trails \subseteq Tickets
      /\ positions[t] \in Int /\ queue \subseteq Tracked
      /\ Tickets' = Tickets
  BY <1>1, <1>2, <1>t DEF TypeOK, Tickets
<1>4. /\ Seeded(t) \in Int /\ Structural(t) \in Int /\ Effective(t) \in Int
      /\ AtLeast(Side(t), Structural(t), Seeded(t))
  BY <1>t, <1>3, StructuralLeads
<1>5. /\ DOMAIN trails' = DOMAIN trails \cup {t} /\ trails'[t] = Structural(t)
      /\ \A u \in DOMAIN trails : u # t => trails'[u] = trails[u]
      /\ \A u \in DOMAIN trails : trails[u] \in Int
  BY <1>1, <1>t DEF TypeOK
\* What is true of the map and the snapshot, whichever way the step goes.
<1>6. /\ Tracked' \subseteq Tracked /\ queue' \subseteq Tracked' /\ queue' \subseteq queue
      /\ \A u \in Tracked' : positions'[u] = positions[u] /\ positions'[u] \in Int
      /\ pc' \in {"loop", "modify"} /\ target' \in Int
  <2>1. CASE Effective(t) = positions[t]
    <3>1. Settle(t, positions[t]) /\ UNCHANGED <<pc, target>>
      BY <1>1, <2>1
    <3>2. target' \in Int /\ pc' = "loop"
      BY <1>2, <1>t, <3>1 DEF TypeOK
    <3> QED BY <1>3, <1>t, <3>1, <3>2, Settled
  <2>2. CASE Effective(t) # positions[t]
    <3>1. pc' = "modify" /\ target' = Effective(t) /\ UNCHANGED <<positions, queue>>
      BY <1>1, <2>2
    <3> QED BY <1>3, <1>4, <1>t, <3>1 DEF Tracked, TypeOK
  <2> QED BY <2>1, <2>2
<1>7. TypeOK'
  <2>1. now_inside' \in BOOLEAN
    BY <1>n, <1>t, Zenon DEF TypeOK
  <2>2. DOMAIN trails' \subseteq Tickets /\ \A u \in DOMAIN trails' : trails'[u] \in Int
    BY <1>3, <1>4, <1>5
  <2> QED BY <1>2, <1>3, <1>6, <1>t, <2>1, <2>2 DEF TypeOK
<1>8. CachedIsBrokers'
  BY <1>2, <1>6 DEF PositionInv, CachedIsBrokers
\* The structural stop only gets better, and starts at the cached one.
<1>9. AtLeast(Side(t), Structural(t), positions[t])
  <2>1. CASE t \in DOMAIN trails
    <3>1. AtLeast(Side(t), trails[t], positions[t]) /\ Seeded(t) = trails[t]
      BY <1>3, <2>1 DEF PositionInv, TrailLeads, Seeded
    <3> QED BY <1>3, <1>4, <3>1, StopOrder
  <2>2. CASE t \notin DOMAIN trails
    BY <1>4, <2>2 DEF Seeded
  <2> QED BY <2>1, <2>2
<1>10. TrailLeads'
  <2> SUFFICES ASSUME NEW u \in Tracked', u \in DOMAIN trails'
               PROVE  AtLeast(Side(u), trails'[u], positions[u])
    BY <1>2, <1>6 DEF TrailLeads, Side
  <2>1. CASE u = t
    BY <1>5, <1>9, <2>1
  <2>2. CASE u # t
    BY <1>5, <1>6, <2>2 DEF PositionInv, TrailLeads
  <2> QED BY <2>1, <2>2
<1>11. AskedFor'
  <2> SUFFICES ASSUME pc' = "modify", NEW u \in queue', IsNext(u)'
               PROVE  /\ u \in DOMAIN trails'
                      /\ target' = IF now_inside /\ ~InProfit(u, trails'[u])
                                   THEN Away(Side(u), trails'[u], WidenPips) ELSE trails'[u]
    BY <1>2, <1>n DEF AskedFor, Side, InProfit
  <2>1. target' = Effective(t) /\ queue' = queue
    BY <1>1, <1>2
  <2>2. u = t
    <3>1. u \in queue /\ t \in queue /\ u <= t /\ t <= u
      BY <1>1, <2>1 DEF IsNext
    <3>2. u \in Nat /\ t \in Nat
      BY <1>3, <1>t, <3>1 DEF Tickets, TypeOK
    <3> QED BY <3>1, <3>2
  <2>3. Effective(t) = IF now_inside /\ ~InProfit(t, Structural(t))
                       THEN Away(Side(t), Structural(t), WidenPips) ELSE Structural(t)
    BY DEF Effective, Side
  <2> QED BY <1>5, <2>1, <2>2, <2>3, Zenon
<1>12. NotReached'
  BY <1>2, <1>3 DEF PositionInv, NotReached, Side
<1> QED BY <1>6, <1>7, <1>8, <1>10, <1>11, <1>12 DEF PositionInv

\* What modify_sl may answer: the stop that is cached next is at least as good
\* as the old one or a widened stop, and never past the structural one.
LEMMA AnswerIsOrdered ==
  ASSUME PositionInv, pc = "modify", NEW t \in queue, IsNext(t), NEW ok \in BOOLEAN
  PROVE  /\ t \in Tracked /\ t \in Tickets /\ t \in DOMAIN trails
         /\ Cached(t, ok) \in Int
         /\ AtLeast(Side(t), trails[t], Cached(t, ok))
         /\ \/ AtLeast(Side(t), Cached(t, ok), positions[t])
            \/ now_inside /\ ~InProfit(t, trails[t])
         /\ AtLeast(Side(t), positions[t], deals[t].entry)
              => AtLeast(Side(t), Cached(t, ok), deals[t].entry)
<1>t. TypeOK
  BY DEF PositionInv
<1>1. /\ t \in Tracked /\ t \in Tickets /\ t \in DOMAIN trails /\ target \in Int
      /\ positions[t] \in Int /\ trails[t] \in Int /\ deals[t].entry \in Int
      /\ AtLeast(Side(t), trails[t], positions[t])
      /\ WidenPips \in Nat
  BY <1>t, PositionTypes DEF PositionInv, AskedFor, TrailLeads, TypeOK
<1>2. CASE ~ok
  <2>1. Cached(t, ok) = positions[t]
    BY <1>2 DEF Cached
  <2> QED BY <1>1, <2>1, StopOrder
<1>3. CASE ok
  <2>1. Cached(t, ok) = target
    BY <1>3 DEF Cached
  <2>2. CASE now_inside /\ ~InProfit(t, trails[t])
    <3>1. target = Away(Side(t), trails[t], WidenPips)
      BY <2>2, Zenon DEF PositionInv, AskedFor
    <3>2. AtLeast(Side(t), trails[t], target)
      BY <1>1, <3>1, StopOrder
    <3>3. ~AtLeast(Side(t), trails[t], deals[t].entry)
      BY <2>2, Zenon DEF InProfit, Side
    <3>4. ~AtLeast(Side(t), positions[t], deals[t].entry)
      BY <1>1, <3>3, StopOrder
    <3> QED BY <1>1, <2>1, <2>2, <3>2, <3>4, Zenon
  <2>3. CASE ~(now_inside /\ ~InProfit(t, trails[t]))
    <3>1. target = trails[t]
      BY <2>3, Zenon DEF PositionInv, AskedFor
    <3>2. /\ AtLeast(Side(t), trails[t], target) /\ AtLeast(Side(t), target, positions[t])
          /\ AtLeast(Side(t), positions[t], deals[t].entry)
               => AtLeast(Side(t), target, deals[t].entry)
      BY <1>1, <3>1, StopOrder
    <3> QED BY <1>1, <2>1, <3>2, Zenon
  <2> QED BY <2>2, <2>3, Zenon
<1> QED BY <1>2, <1>3

LEMMA AnswerKeeps == PositionInv /\ ModifyAnswered => PositionInv'
<1> SUFFICES ASSUME PositionInv, ModifyAnswered PROVE PositionInv'
  OBVIOUS
<1>t. TypeOK
  BY DEF PositionInv
<1>1. PICK t \in queue, ok \in BOOLEAN :
        /\ IsNext(t)
        /\ \/ ok /\ Execute(t) /\ denied' = denied \ {t}
           \/ ~ok /\ Decline(t) /\ UNCHANGED denied
           \/ ~ok /\ Execute(t) /\ denied' = denied \cup {t}
        /\ Settle(t, Cached(t, ok))
  BY Zenon DEF ModifyAnswered
\* The broker's side, whatever the answer says of it.
<1> DEFINE done == Execute(t)
<1>d. /\ done => /\ Acceptable(t, target)
                 /\ deals' = [deals EXCEPT ![t].sl = target]
                 /\ young' = young \cup {t} /\ unsettled' = unsettled \cup {t}
      /\ ~done => UNCHANGED <<deals, young, unsettled>> /\ ~ok
      /\ denied' \in {denied, denied \cup {t}, denied \ {t}}
      /\ \A u \in denied : u # t => u \in denied'
      /\ ok => done
      /\ ~ok => (done /\ t \in denied') \/ (UNCHANGED <<deals, denied>>)
  BY <1>1, Zenon DEF Execute, Decline
<1> HIDE DEF done
<1>2. /\ pc = "modify" /\ pc' = "loop"
      /\ UNCHANGED <<forming, due, bars, window, last_high, last_low, trails, bar, target>>
  BY DEF ModifyAnswered, market, swings, call
<1>n. now_inside' = now_inside
  BY DEF ModifyAnswered, call
<1>3. /\ t \in Tracked /\ t \in Tickets /\ t \in DOMAIN trails
      /\ Cached(t, ok) \in Int
      /\ AtLeast(Side(t), trails[t], Cached(t, ok))
  BY <1>1, <1>2, AnswerIsOrdered
<1>4. /\ Tracked' \subseteq Tracked /\ queue' = queue \ {t}
      /\ Tracked' \in {Tracked, Tracked \ {t}}
      /\ \A u \in Tracked' : positions'[u] = IF u = t THEN Cached(t, ok) ELSE positions[u]
      /\ \A u \in Tracked' : positions'[u] \in Int
  BY <1>1, <1>3, <1>t, Settled
\* The broker's side: one stop may change, of a position it still holds.
<1>5. /\ deals' \in Seq(Deal) /\ Tickets' = Tickets
      /\ \A u \in Tickets : /\ u # t \/ ~done => deals'[u] = deals[u]
                            /\ deals'[u].side = deals[u].side
                            /\ deals'[u].entry = deals[u].entry
                            /\ deals'[u].status = deals[u].status
      /\ done => deals'[t].sl = target
      /\ young \subseteq young' /\ unsettled \subseteq unsettled'
      /\ young' \subseteq Tickets /\ unsettled' \subseteq Tickets
      /\ done => t \in young' /\ t \in unsettled'
  <2>1. CASE done
    <3> DEFINE d == [deals[t] EXCEPT !.sl = target]
    <3>1. deals[t] \in Deal /\ target \in Int
      BY <1>3, <1>t, PositionTypes DEF TypeOK
    <3>2. d \in Deal /\ d.sl = target /\ d.side = deals[t].side /\ d.status = deals[t].status
          /\ d.entry = deals[t].entry
      BY <3>1 DEF Deal
    <3>3. deals' = [deals EXCEPT ![t] = d]
      BY <1>d, <2>1
    <3> HIDE DEF d
    <3>4. t \in 1 .. Len(deals) /\ deals \in Seq(Deal) /\ DOMAIN deals = Tickets
      BY <1>3, <1>t, PositionTypes DEF Tickets, TypeOK
    <3>5. deals' \in Seq(Deal) /\ Len(deals') = Len(deals)
      BY <3>2, <3>3, <3>4, ExceptSeq
    <3>6. /\ Tickets' = Tickets
          /\ \A u \in Tickets : deals'[u] = IF u = t THEN d ELSE deals[u]
      BY <3>3, <3>4, <3>5 DEF Tickets
    <3>7. young' = young \cup {t} /\ unsettled' = unsettled \cup {t}
      BY <1>d, <2>1
    <3> QED BY <1>3, <1>t, <2>1, <3>2, <3>5, <3>6, <3>7 DEF TypeOK
  <2>2. CASE ~done
    BY <1>d, <1>t, <2>2 DEF Tickets, TypeOK
  <2> QED BY <2>1, <2>2
<1>6. TypeOK'
  <2>1. now_inside' \in BOOLEAN
    BY <1>n, <1>t, Zenon DEF TypeOK
  <2>2. Tracked' \subseteq Tickets' /\ queue' \subseteq Tracked'
    BY <1>4, <1>5, <1>t DEF TypeOK
  <2>3. denied' \subseteq Tickets'
    BY <1>3, <1>5, <1>d, <1>t DEF TypeOK
  <2> QED BY <1>2, <1>4, <1>5, <1>t, <2>1, <2>2, <2>3 DEF TypeOK
<1>7. CachedIsBrokers'
  <2> SUFFICES ASSUME NEW u \in Tracked', deals'[u].status = "open"
               PROVE  positions'[u] = deals'[u].sl \/ u \in denied'
    BY DEF CachedIsBrokers
  <2>1. u \in Tracked /\ u \in Tickets /\ deals[u].status = "open"
    BY <1>4, <1>5, <1>t DEF TypeOK
  <2>2. CASE u = t /\ ok
    BY <1>4, <1>5, <1>d, <2>2 DEF Cached
  <2>3. CASE u = t /\ ~ok
    BY <1>4, <1>d, <2>1, <2>3 DEF Cached, PositionInv, CachedIsBrokers
  <2>4. CASE u # t
    BY <1>4, <1>5, <1>d, <2>1, <2>4 DEF PositionInv, CachedIsBrokers
  <2> QED BY <2>2, <2>3, <2>4
<1>8. TrailLeads'
  <2> SUFFICES ASSUME NEW u \in Tracked', u \in DOMAIN trails
               PROVE  AtLeast(Side(u), trails[u], positions'[u])
    <3>1. \A u \in Tracked' : deals'[u].side = deals[u].side
      BY <1>4, <1>5, <1>t DEF TypeOK
    <3> QED BY <1>2, <3>1 DEF TrailLeads, Side
  <2>1. u \in Tracked
    BY <1>4
  <2> QED BY <1>3, <1>4, <2>1 DEF PositionInv, TrailLeads
<1>9. AskedFor'
  BY <1>2 DEF AskedFor
<1>10. NotReached'
  <2> SUFFICES ASSUME NEW u \in Tickets, deals'[u].status = "open"
               PROVE  /\ ~AtLeast(Side(u), deals'[u].sl, forming.last)
                      /\ u \notin young' => ~AtLeast(Side(u), deals'[u].sl, Nearest(Side(u), forming))
                      /\ u \notin unsettled' /\ due # <<>> =>
                           ~AtLeast(Side(u), deals'[u].sl, Nearest(Side(u), due[1]))
                      /\ u \notin unsettled' =>
                           ~AtLeast(Side(u), deals'[u].sl, Nearest(Side(u), bar))
    BY <1>2, <1>5 DEF NotReached, Side
  <2>1. CASE u = t /\ done
    BY <1>d, <1>5, <2>1 DEF Acceptable, Side
  <2>2. CASE u # t \/ ~done
    <3>1. deals'[u] = deals[u] /\ deals[u].status = "open"
      BY <1>5, <2>2
    <3>2. u \notin young' => u \notin young
      BY <1>5
    <3>3. u \notin unsettled' => u \notin unsettled
      BY <1>5
    <3> QED BY <1>2, <3>1, <3>2, <3>3 DEF PositionInv, NotReached
  <2> QED BY <2>1, <2>2
<1> QED BY <1>2, <1>6, <1>7, <1>8, <1>9, <1>10 DEF PositionInv

LEMMA OthersKeep ==
  PositionInv /\ (SkipMaintain \/ EndMaintain \/ UNCHANGED vars) => PositionInv'
<1> SUFFICES ASSUME PositionInv, SkipMaintain \/ EndMaintain \/ UNCHANGED vars
             PROVE  PositionInv'
  OBVIOUS
<1>t. TypeOK
  BY DEF PositionInv
<1>1. /\ UNCHANGED <<forming, bars, deals, window, last_high, last_low, positions, trails,
                     queue, young, unsettled, denied>>
      /\ pc' \in {pc, "idle"} /\ bar' \in {bar, NoBar} /\ due' \in {due, <<>>}
      /\ target' \in {target, 0}
      /\ pc' # pc => queue = {}
      /\ pc' # "idle" => bar' = bar /\ target' = target
  BY DEF SkipMaintain, EndMaintain, vars, market, swings, call, history
<1>2. now_inside' \in BOOLEAN
  BY <1>t, Zenon DEF SkipMaintain, EndMaintain, vars, call, TypeOK
<1>3. pc' # "idle" => now_inside' = now_inside
  BY DEF SkipMaintain, EndMaintain, vars, call
<1>4. Tickets' = Tickets /\ Tracked' = Tracked
  BY <1>1 DEF Tickets, Tracked
<1>5. TypeOK'
  <2>1. due' \in Seq(BarType) /\ Len(due') <= 1
    <3>1. due \in Seq(BarType) /\ Len(due) <= 1
      BY <1>t DEF TypeOK
    <3>2. CASE due' = due
      BY <3>1, <3>2
    <3>3. CASE due' = <<>>
      BY <3>3
    <3> QED BY <1>1, <3>2, <3>3
  <2>2. target' \in Int /\ pc' \in {"idle", "loop", "modify"} /\ bar' \in BarType \cup {NoBar}
    BY <1>1, <1>t DEF TypeOK
  <2> QED BY <1>1, <1>2, <1>4, <1>t, <2>1, <2>2 DEF TypeOK
<1>6. CachedIsBrokers' /\ TrailLeads' /\ NotReached'
  BY <1>1, <1>4 DEF PositionInv, CachedIsBrokers, TrailLeads, NotReached, Side
<1>7. AskedFor'
  <2>1. pc' = "modify" => pc = "modify" /\ target' = target
    BY <1>1
  <2>2. \A t \in queue : InProfit(t, trails[t])' = InProfit(t, trails[t]) /\ Side(t)' = Side(t)
    BY <1>1 DEF InProfit, Side
  <2>3. queue' = queue /\ trails' = trails
    BY <1>1
  <2>4. CASE pc' = "modify"
    <3>1. pc = "modify" /\ target' = target /\ now_inside' = now_inside
      BY <1>1, <1>3, <2>1, <2>4
    <3>2. \A t \in queue : IsNext(t)' = IsNext(t)
      BY <2>3 DEF IsNext
    <3> QED BY <2>2, <2>3, <2>4, <3>1, <3>2, Zenon DEF PositionInv, AskedFor
  <2> QED BY <2>4 DEF AskedFor
<1>8. pc' = "idle" => queue' = {}
  BY <1>1 DEF PositionInv
<1> QED BY <1>5, <1>6, <1>7, <1>8 DEF PositionInv

LEMMA PositionStep == PositionInv /\ [Next]_vars => PositionInv'
BY TickKeeps, BarClosesKeeps, RegisterKeeps, StartKeeps, ExamineKeeps, AnswerKeeps, OthersKeep
   DEF Next

LEMMA PositionAlways == Spec => []PositionInv
<1> QED BY PositionInit, PositionStep, PTL DEF Spec

-----------------------------------------------------------------------------
(* The theorems. *)

\* As long as a tracked position is open, the stop in the map is the stop at the
\* broker, whatever was refused and however prices moved during modify_sl, unless
\* the last modification the broker executed was answered with a refusal.
THEOREM MapAlwaysMatches == Spec => []MapMatchesBroker
<1>1. PositionInv => MapMatchesBroker
  BY DEF PositionInv, CachedIsBrokers, MapMatchesBroker
<1> QED BY <1>1, PositionAlways, PTL

\* The steps that change the map: an opening, and the two ends of the loop body.
LEMMA MapSteps ==
  ASSUME PositionInv, [Next]_vars, positions' # positions
  PROVE  \/ /\ \A t \in Tracked : t \in DOMAIN positions' /\ positions'[t] = positions[t]
         \/ \E t \in queue, ok \in BOOLEAN :
              /\ IsNext(t) /\ pc # "idle"
              /\ ok => pc = "modify"
              /\ Settle(t, IF ok THEN target ELSE positions[t])
              /\ ok => t \in unsettled'
<1>1. CASE Examine
  <2>1. PICK t \in queue : IsNext(t) /\ (Settle(t, positions[t]) \/ UNCHANGED positions)
    BY <1>1, Zenon DEF Examine
  <2>2. pc # "idle" /\ Settle(t, IF FALSE THEN target ELSE positions[t])
    BY <1>1, <2>1 DEF Examine
  <2> QED BY <2>1, <2>2
<1>2. CASE ModifyAnswered
  <2>1. pc = "modify"
    BY <1>2 DEF ModifyAnswered
  <2>2. PICK t \in queue, ok \in BOOLEAN :
          IsNext(t) /\ Settle(t, Cached(t, ok)) /\ (ok => unsettled' = unsettled \cup {t})
    BY <1>2, Zenon DEF ModifyAnswered, Execute
  <2> QED BY <2>1, <2>2 DEF Cached
<1>3. ASSUME NEW side \in Sides, NEW tp \in Targets, RegisterPosition(side, tp)
      PROVE  \A t \in Tracked : t \in DOMAIN positions' /\ positions'[t] = positions[t]
  <2> DEFINE ticket == Len(deals) + 1
  <2>1. positions' = [t \in Tracked \cup {ticket} |->
                        IF t = ticket THEN SignalStop(side) ELSE positions[t]]
    BY <1>3 DEF RegisterPosition
  <2>2. Len(deals) \in Nat /\ Tracked \subseteq 1 .. Len(deals)
    BY PositionTypes DEF PositionInv, TypeOK, Tickets
  <2> QED BY <2>1, <2>2
<1> QED BY <1>1, <1>2, <1>3
        DEF Next, vars, Tick, BarCloses, SkipMaintain, StartMaintain, EndMaintain

\* trailing_sl.py: a cached stop is only moved away from the market by a call
\* that began inside the protection window, on a position not yet in profit.
THEOREM StopsOnlyLoosenInWindow == Spec => LooseningOnlyInWindow
<1> DEFINE Step == \A t \in Tracked \cap DOMAIN positions' :
                     AtLeast(deals[t].side, positions'[t], positions[t])
                     \/ (now_inside /\ ~InProfit(t, trails[t]))
<1>1. PositionInv /\ [Next]_vars => [Step]_positions
  <2> SUFFICES ASSUME PositionInv, [Next]_vars, positions' # positions,
                      NEW t \in Tracked \cap DOMAIN positions'
               PROVE  \/ AtLeast(Side(t), positions'[t], positions[t])
                      \/ now_inside /\ ~InProfit(t, trails[t])
    BY DEF Side
  <2>1. TypeOK /\ positions[t] \in Int
    BY DEF PositionInv, TypeOK
  <2>2. CASE positions'[t] = positions[t]
    BY <2>1, <2>2, StopOrder
  <2>3. ASSUME NEW u \in queue, NEW ok \in BOOLEAN, IsNext(u), ok => pc = "modify",
               Settle(u, IF ok THEN target ELSE positions[u])
        PROVE  \/ AtLeast(Side(t), positions'[t], positions[t])
               \/ now_inside /\ ~InProfit(t, trails[t])
    <3>1. u \in Tracked /\ positions[u] \in Int /\ target \in Int
      BY <2>1 DEF TypeOK
    <3> DEFINE sl == IF ok THEN target ELSE positions[u]
    <3>2. \A v \in DOMAIN positions' : positions'[v] = IF v = u THEN sl ELSE positions[v]
      BY <2>1, <2>3, <3>1, Settled DEF Tracked
    <3>3. CASE t = u /\ ok
      <4>1. positions'[t] = Cached(t, ok)
        BY <3>2, <3>3 DEF Cached
      <4> QED BY <2>3, <3>3, <4>1, AnswerIsOrdered
    <3>4. CASE ~(t = u /\ ok)
      BY <2>2, <3>2, <3>4
    <3> QED BY <3>3, <3>4
  <2> QED BY <2>2, <2>3, MapSteps
<1> QED BY <1>1, PositionAlways, PTL DEF Spec, LooseningOnlyInWindow

\* trailing_sl.py: a cached stop at or beyond entry never returns to the losing
\* side, through any number of bars, windows and refusals.
THEOREM LockedProfitIsKept == Spec => ProfitLockKept
<1> DEFINE Step == \A t \in Tracked \cap DOMAIN positions' :
                     AtLeast(deals[t].side, positions[t], deals[t].entry)
                       => AtLeast(deals[t].side, positions'[t], deals[t].entry)
<1>1. PositionInv /\ [Next]_vars => [Step]_positions
  <2> SUFFICES ASSUME PositionInv, [Next]_vars, positions' # positions,
                      NEW t \in Tracked \cap DOMAIN positions',
                      AtLeast(Side(t), positions[t], deals[t].entry)
               PROVE  AtLeast(Side(t), positions'[t], deals[t].entry)
    BY DEF Side
  <2>1. TypeOK
    BY DEF PositionInv
  <2>2. CASE positions'[t] = positions[t]
    BY <2>2
  <2>3. ASSUME NEW u \in queue, NEW ok \in BOOLEAN, IsNext(u), ok => pc = "modify",
               Settle(u, IF ok THEN target ELSE positions[u])
        PROVE  AtLeast(Side(t), positions'[t], deals[t].entry)
    <3>1. u \in Tracked /\ positions[u] \in Int /\ target \in Int
      BY <2>1 DEF TypeOK
    <3> DEFINE sl == IF ok THEN target ELSE positions[u]
    <3>2. \A v \in DOMAIN positions' : positions'[v] = IF v = u THEN sl ELSE positions[v]
      BY <2>1, <2>3, <3>1, Settled DEF Tracked
    <3>3. CASE t = u /\ ok
      <4>1. positions'[t] = Cached(t, ok)
        BY <3>2, <3>3 DEF Cached
      <4> QED BY <2>3, <3>3, <4>1, AnswerIsOrdered
    <3>4. CASE ~(t = u /\ ok)
      BY <2>2, <3>2, <3>4
    <3> QED BY <3>3, <3>4
  <2> QED BY <2>2, <2>3, MapSteps
<1> QED BY <1>1, PositionAlways, PTL DEF Spec, ProfitLockKept

\* position_manager.py: a position only leaves the map if the broker has closed
\* it, or if its stop was set after the bar it is judged by had begun, or if the
\* broker executed a loosening of its stop and the answer denied it.
THEOREM DropsAreJustified == Spec => DropJustified
<1> DEFINE Step == \A t \in Tracked \ DOMAIN positions' :
                     \/ deals[t].status # "open"
                     \/ t \in unsettled \cup unsettled'
                     \/ t \in denied /\ ~AtLeast(deals[t].side, deals[t].sl, positions[t])
<1>1. PositionInv /\ [Next]_vars => [Step]_positions
  <2> SUFFICES ASSUME PositionInv, [Next]_vars, positions' # positions,
                      NEW t \in Tracked \ DOMAIN positions',
                      deals[t].status = "open", t \notin unsettled,
                      t \in denied => AtLeast(Side(t), deals[t].sl, positions[t])
               PROVE  t \in unsettled'
    BY DEF Side
  <2>1. TypeOK /\ t \in Tickets
    BY DEF PositionInv, TypeOK
  <2>2. PICK u \in queue, ok \in BOOLEAN :
          /\ pc # "idle"
          /\ Settle(u, IF ok THEN target ELSE positions[u])
          /\ ok => u \in unsettled'
    BY MapSteps
  <2> DEFINE sl == IF ok THEN target ELSE positions[u]
  <2>3. u \in Tracked /\ sl \in Int
    BY <2>1 DEF TypeOK
  <2>4. u = t /\ SlHit(t, sl)
    BY <2>1, <2>2, <2>3, Settled DEF Tracked
  \* Were it not a new stop, the bar that touched it would have closed the deal.
  <2>5. ASSUME ~ok PROVE FALSE
    <3>1. sl = positions[t] /\ SlHit(t, positions[t]) /\ positions[t] \in Int
      BY <2>3, <2>4, <2>5
    <3>2. ~AtLeast(Side(t), deals[t].sl, Nearest(Side(t), bar))
      BY <2>1, <2>2 DEF PositionInv, NotReached
    <3>4. deals[t].sl \in Int /\ bar.lo \in Int /\ bar.hi \in Int
      BY <2>1, PositionTypes DEF TypeOK, BarType, NoBar
    <3>5. AtLeast(Side(t), deals[t].sl, positions[t])
      <4>1. t \in denied \/ positions[t] = deals[t].sl
        BY <2>3, <2>4 DEF PositionInv, CachedIsBrokers
      <4> QED BY <3>4, <4>1, StopOrder
    <3> QED BY <3>1, <3>2, <3>4, <3>5 DEF SlHit, AtLeast, Nearest, Side
  <2> QED BY <2>2, <2>4, <2>5
<1> QED BY <1>1, PositionAlways, PTL DEF Spec, DropJustified

=============================================================================
