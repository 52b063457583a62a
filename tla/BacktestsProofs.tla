---------------------------- MODULE BacktestsProofs ----------------------------
(***************************************************************************)
(* The books of every backtest balance at every event (TradesAddUp), and   *)
(* no stop moves away from its market (StopOnlyTightens), for any stored   *)
(* data, answers, scripts and bounds.                                      *)
(***************************************************************************)
EXTENDS Backtests, FiniteSetTheorems, SequenceTheorems, TLAPS

Adding   == INSTANCE Folding WITH Op <- Plus
Netting  == INSTANCE Folding WITH Op <- AddNet
Settling == INSTANCE Folding WITH Op <- Settle
Merging  == INSTANCE Folding WITH Op <- Merged
Placing  == INSTANCE Folding WITH Op <- Placed

-----------------------------------------------------------------------------
(* Sums over sequences. *)

Members(seq) == {seq[i] : i \in DOMAIN seq}
IsSeq(seq)   == seq \in Seq(Members(seq))

LEMMA AppendIs ==
  ASSUME NEW seq, IsSeq(seq), NEW x
  PROVE  /\ IsSeq(Append(seq, x))
         /\ Members(Append(seq, x)) = Members(seq) \cup {x}
         /\ Len(Append(seq, x)) = Len(seq) + 1 /\ Len(seq) \in Nat
         /\ DOMAIN seq = 1 .. Len(seq) /\ DOMAIN Append(seq, x) = 1 .. Len(seq) + 1
         /\ \A i \in DOMAIN seq : Append(seq, x)[i] = seq[i]
         /\ Append(seq, x)[Len(seq) + 1] = x
<1> DEFINE D == Members(seq) \cup {x}
           a == Append(seq, x)
<1>1. seq \in Seq(D) /\ x \in D
  BY SeqMonotonic DEF IsSeq
<1>2. /\ a \in Seq(D) /\ Len(a) = Len(seq) + 1 /\ a[Len(seq) + 1] = x
      /\ \A i \in 1 .. Len(seq) : a[i] = seq[i]
  BY <1>1, AppendProperties
<1>3. Len(seq) \in Nat /\ DOMAIN seq = 1 .. Len(seq) /\ DOMAIN a = 1 .. Len(seq) + 1
  BY <1>1, <1>2, LenProperties
<1> HIDE DEF a
<1>4. Members(a) = D
  BY <1>2, <1>3 DEF Members
<1>5. QED BY <1>2, <1>3, <1>4 DEF IsSeq, a

\* A sequence of integers with one more at its end.
LEMMA OneMore ==
  ASSUME NEW k \in Nat, NEW a \in [1 .. k -> Int], NEW b \in [1 .. k + 1 -> Int],
         \A i \in 1 .. k : b[i] = a[i]
  PROVE  IsSeq(a) /\ b = Append(a, b[k + 1])
<1>1. DOMAIN a = 1 .. k /\ DOMAIN b = 1 .. k + 1
  OBVIOUS
<1>2. IsSeq(a)
  <2> DEFINE D == Members(a)
  <2>1. \A i \in 1 .. k : a[i] \in D
    BY <1>1 DEF Members
  <2> HIDE DEF D
  <2>2. a \in [1 .. k -> D]
    BY <2>1
  <2>3. a \in Seq(D)
    BY <2>2 DEF Seq
  <2>4. QED BY <2>3 DEF IsSeq, D
<1>3. a \in Seq(Int) /\ Len(a) = k
  BY LenProperties
<1>4. /\ Append(a, b[k + 1]) \in [1 .. k + 1 -> Int]
      /\ \A i \in 1 .. k : Append(a, b[k + 1])[i] = a[i]
      /\ Append(a, b[k + 1])[k + 1] = b[k + 1]
  <2>1. b[k + 1] \in Int
    OBVIOUS
  <2>2. Append(a, b[k + 1]) \in Seq(Int) /\ Len(Append(a, b[k + 1])) = k + 1
    BY <1>3, <2>1, AppendProperties
  <2>3. Append(a, b[k + 1]) \in [1 .. k + 1 -> Int]
    BY <2>2, LenProperties
  <2>4. /\ \A i \in 1 .. k : Append(a, b[k + 1])[i] = a[i]
        /\ Append(a, b[k + 1])[k + 1] = b[k + 1]
    BY <1>3, <2>1, AppendProperties
  <2>5. QED BY <2>3, <2>4
<1> DEFINE c == Append(a, b[k + 1])
<1> HIDE DEF c
<1>5. c \in [1 .. k + 1 -> Int] /\ \A i \in 1 .. k + 1 : c[i] = b[i]
  BY <1>4 DEF c
<1>6. c = b
  BY <1>5
<1>7. QED BY <1>2, <1>6 DEF c

LEMMA SumIs == \A seq : SumOf(seq) = Adding!Fold(0, seq)
  BY DEF SumOf, FoldLeft, MapThenFoldSet, Max, Adding!Fold, Adding!FoldLeft,
         Adding!MapThenFoldSet, Adding!Max

LEMMA TotalIs == \A seq : Total(seq) = Netting!Fold(0, seq)
  BY DEF Total, FoldLeft, MapThenFoldSet, Max, Netting!Fold, Netting!FoldLeft,
         Netting!MapThenFoldSet, Netting!Max

LEMMA SettledIs ==
  \A r, trades : Settled(r, trades) = Settling!Fold([r EXCEPT !.open = <<>>], trades)
  BY DEF Settled, FoldLeft, MapThenFoldSet, Max, Settling!Fold, Settling!FoldLeft,
         Settling!MapThenFoldSet, Settling!Max

LEMMA SumMore ==
  ASSUME NEW seq, IsSeq(seq), NEW x
  PROVE  SumOf(Append(seq, x)) = SumOf(seq) + x
<1> DEFINE D == Members(seq) \cup {x}
<1>1. seq \in Seq(D) /\ x \in D
  BY SeqMonotonic DEF IsSeq
<1>2. Adding!Fold(0, Append(seq, x)) = Plus(Adding!Fold(0, seq), x)
  BY <1>1, Adding!FoldMore
<1>3. QED BY <1>2, SumIs DEF Plus

LEMMA TotalMore ==
  ASSUME NEW seq, IsSeq(seq), NEW t
  PROVE  Total(Append(seq, t)) = Total(seq) + t.net
<1> DEFINE D == Members(seq) \cup {t}
<1>1. seq \in Seq(D) /\ t \in D
  BY SeqMonotonic DEF IsSeq
<1>2. Netting!Fold(0, Append(seq, t)) = AddNet(Netting!Fold(0, seq), t)
  BY <1>1, Netting!FoldMore
<1>3. QED BY <1>2, TotalIs DEF AddNet

LEMMA NoSum == SumOf(<<>>) = 0 /\ Total(<<>>) = 0
  BY SumIs, TotalIs, Adding!FoldNone, Netting!FoldNone

-----------------------------------------------------------------------------
(* The life of one trade. *)

TradeFields ==
  {"sym", "dir", "entry", "sl", "tp2", "risk", "lot", "left", "pv", "at", "ev", "gross", "fee",
   "fills", "exit", "reason", "net", "out"}
IsTrade(t) ==
  /\ TradeFields \subseteq DOMAIN t /\ t.dir \in {"BUY", "SELL"}
  /\ t.entry \in Int /\ t.sl \in Int /\ t.tp2 \in Int /\ t.risk \in Int
  /\ t.lot \in Int /\ t.left \in Int /\ t.pv \in Int /\ t.ev \in Int /\ t.fee \in Int
  /\ t.fills \in Seq(Int \X Int) /\ t.gross = Earned(t) /\ t.gross \in Int /\ Lots(t) \in Int

\* What is booked of an open trade is what was closed of it; of a closed one
\* everything was.
IsOpen(t)   == IsTrade(t) /\ t.reason = "open" /\ Lots(t) = t.lot - t.left
IsClosed(t) ==
  /\ IsTrade(t) /\ t.reason # "open" /\ Lots(t) = t.lot
  /\ t.net = Earned(t) - t.fee /\ t.net \in Int

\* What the life of a trade never changes.
Alike(t, u) ==
  /\ DOMAIN u = DOMAIN t /\ u.sym = t.sym /\ u.dir = t.dir /\ u.entry = t.entry
  /\ u.tp2 = t.tp2 /\ u.risk = t.risk /\ u.lot = t.lot /\ u.pv = t.pv
  /\ u.at = t.at /\ u.ev = t.ev /\ u.fee = t.fee

GainOf(t, f) == (Sgn(t) * (f[1] - t.entry) * f[2] * t.pv) \div 2

LEMMA SgnIs == \A t : Sgn(t) \in {1, -1}
  BY DEF Sgn

\* One fill more: its lots and what it earned are added.
LEMMA FillAdds ==
  ASSUME NEW t, NEW u, IsTrade(t), NEW f \in Int \X Int, u.fills = Append(t.fills, f),
         u.dir = t.dir, u.entry = t.entry, u.pv = t.pv
  PROVE  /\ u.fills \in Seq(Int \X Int)
         /\ Lots(u) = Lots(t) + f[2]
         /\ Earned(u) = t.gross + GainOf(t, f)
         /\ GainOf(t, f) \in Int
<1> DEFINE L(v) == [i \in DOMAIN v.fills |-> v.fills[i][2]]
           G(v) == [i \in DOMAIN v.fills |-> GainOf(t, v.fills[i])]
           k == Len(t.fills)
<1>1. f[1] \in Int /\ f[2] \in Int /\ t.fills \in Seq(Int \X Int)
  BY DEF IsTrade
<1>2. /\ u.fills \in Seq(Int \X Int) /\ k \in Nat /\ DOMAIN t.fills = 1 .. k
      /\ DOMAIN u.fills = 1 .. k + 1 /\ u.fills[k + 1] = f
      /\ \A i \in 1 .. k : u.fills[i] = t.fills[i]
  BY <1>1, AppendProperties, LenProperties
<1>3. \A v : Sgn(v) = IF v.dir = "BUY" THEN 1 ELSE -1
  BY DEF Sgn
<1>4. Lots(t) = SumOf(L(t)) /\ Lots(u) = SumOf(L(u))
  BY DEF Lots
<1>5. Earned(t) = SumOf(G(t))
  BY DEF Earned, GainOf
<1>6. Earned(u) = SumOf(G(u))
  BY <1>3 DEF Earned, GainOf
<1>7. \A g \in Int \X Int : GainOf(t, g) \in Int
  <2>1. SUFFICES ASSUME NEW g \in Int \X Int PROVE GainOf(t, g) \in Int
    OBVIOUS
  <2>2. Sgn(t) \in Int /\ g[1] - t.entry \in Int /\ g[2] \in Int /\ t.pv \in Int
    BY <2>1, SgnIs DEF IsTrade
  <2>3. Sgn(t) * (g[1] - t.entry) * g[2] * t.pv \in Int
    BY <2>2
  <2>4. QED BY <2>3 DEF GainOf
<1>8. IsSeq(L(t)) /\ L(u) = Append(L(t), f[2])
  <2>1. L(t) \in [1 .. k -> Int] /\ L(u) \in [1 .. k + 1 -> Int]
    <3>1. \A i \in 1 .. k : t.fills[i][2] \in Int
      BY <1>1, <1>2
    <3>2. \A i \in 1 .. k + 1 : u.fills[i][2] \in Int
      BY <1>2
    <3>3. L(t) \in [1 .. k -> Int]
      BY <1>2, <3>1
    <3>4. L(u) \in [1 .. k + 1 -> Int]
      BY <1>2, <3>2
    <3>5. QED BY <3>3, <3>4
  <2>2. k + 1 \in DOMAIN u.fills
    BY <1>2
  <2>3. L(u)[k + 1] = f[2]
    BY <1>2, <2>2
  <2>4. \A i \in 1 .. k : L(u)[i] = L(t)[i]
    BY <1>2
  <2> HIDE DEF L, k
  <2>5. IsSeq(L(t)) /\ L(u) = Append(L(t), L(u)[k + 1])
    BY <1>2, <2>1, <2>4, OneMore
  <2>6. QED BY <2>3, <2>5
<1>9. IsSeq(G(t)) /\ G(u) = Append(G(t), GainOf(t, f))
  <2>1. /\ \A i \in 1 .. k : t.fills[i] \in Int \X Int
        /\ \A i \in 1 .. k + 1 : u.fills[i] \in Int \X Int
    BY <1>1, <1>2
  <2>2. G(t) \in [1 .. k -> Int] /\ G(u) \in [1 .. k + 1 -> Int]
    BY <1>2, <1>7, <2>1
  <2>3. k + 1 \in DOMAIN u.fills
    BY <1>2
  <2>4. G(u)[k + 1] = GainOf(t, u.fills[k + 1])
    BY <2>3
  <2>5. \A i \in 1 .. k : G(u)[i] = G(t)[i]
    BY <1>2
  <2> HIDE DEF G, k
  <2>6. IsSeq(G(t)) /\ G(u) = Append(G(t), G(u)[k + 1])
    BY <1>2, <2>2, <2>5, OneMore
  <2>7. QED BY <1>2, <2>4, <2>6
<1> HIDE DEF L, G, k
<1>10. QED BY <1>1, <1>2, <1>4, <1>5, <1>6, <1>7, <1>8, <1>9, SumMore DEF IsTrade

LEMMA SameFills ==
  ASSUME NEW t, NEW u, u.fills = t.fills, u.dir = t.dir, u.entry = t.entry, u.pv = t.pv
  PROVE  Lots(u) = Lots(t) /\ Earned(u) = Earned(t)
<1>1. Sgn(u) = Sgn(t)
  BY DEF Sgn
<1>2. QED BY <1>1 DEF Lots, Earned

LEMMA FilledIs ==
  ASSUME NEW t, IsTrade(t), NEW px \in Int, NEW lots \in Int
  PROVE  LET u == Filled(t, px, lots) IN
         /\ IsTrade(u) /\ Alike(t, u) /\ Lots(u) = Lots(t) + lots
         /\ u.sl = t.sl /\ u.left = t.left /\ u.reason = t.reason
         /\ "tp1" \in DOMAIN t => u.tp1 = t.tp1
         /\ "tp1_hit" \in DOMAIN t => u.tp1_hit = t.tp1_hit
         /\ "armed" \in DOMAIN t => u.armed = t.armed
         /\ "water" \in DOMAIN t => u.water = t.water
         /\ "k" \in DOMAIN t => u.k = t.k
<1> DEFINE u == Filled(t, px, lots)
<1>1. /\ DOMAIN u = DOMAIN t /\ Alike(t, u) /\ u.fills = Append(t.fills, <<px, lots>>)
      /\ u.gross = t.gross + (Sgn(t) * (px - t.entry) * lots * t.pv) \div 2
      /\ u.sl = t.sl /\ u.left = t.left /\ u.reason = t.reason
  BY DEF Filled, IsTrade, TradeFields, Alike
<1>2. /\ "tp1" \in DOMAIN t => u.tp1 = t.tp1
      /\ "tp1_hit" \in DOMAIN t => u.tp1_hit = t.tp1_hit
      /\ "armed" \in DOMAIN t => u.armed = t.armed
      /\ "water" \in DOMAIN t => u.water = t.water
      /\ "k" \in DOMAIN t => u.k = t.k
  BY DEF Filled, IsTrade
<1> HIDE DEF u
<1> DEFINE f == <<px, lots>>
<1>3. /\ u.fills \in Seq(Int \X Int) /\ Lots(u) = Lots(t) + lots
      /\ u.gross = Earned(u) /\ u.gross \in Int /\ Lots(u) \in Int
  <2>1. u.fills = Append(t.fills, f) /\ u.dir = t.dir /\ u.entry = t.entry /\ u.pv = t.pv
    BY <1>1 DEF Alike
  <2>2. f \in Int \X Int /\ f[2] = lots
    OBVIOUS
  <2>3. u.gross = t.gross + GainOf(t, f)
    BY <1>1 DEF GainOf
  <2> HIDE DEF f
  <2>4. /\ u.fills \in Seq(Int \X Int) /\ Lots(u) = Lots(t) + f[2]
        /\ Earned(u) = t.gross + GainOf(t, f) /\ GainOf(t, f) \in Int
    BY <2>1, <2>2, FillAdds
  <2>5. t.gross \in Int /\ Lots(t) \in Int
    BY DEF IsTrade
  <2>6. QED BY <2>2, <2>3, <2>4, <2>5
<1>6. IsTrade(u)
  BY <1>1, <1>3 DEF IsTrade, Alike
<1>7. QED BY <1>1, <1>2, <1>3, <1>6 DEF u

\* What is left of a trade goes at one price.
LEMMA ClosedOut ==
  ASSUME NEW t, IsTrade(t), Lots(t) = t.lot - t.left, NEW px \in Int,
         NEW reason, reason # "open", NEW ev
  PROVE  LET u == CloseTrade(Filled(t, px, t.left), px, reason, ev) IN
         IsClosed(u) /\ Alike(t, u)
<1> DEFINE v == Filled(t, px, t.left)
<1>0. t.left \in Int /\ t.lot \in Int
  BY DEF IsTrade
<1>1. IsTrade(v) /\ Alike(t, v) /\ Lots(v) = Lots(t) + t.left
  BY <1>0, FilledIs
<1> HIDE DEF v
<1> DEFINE u == CloseTrade(v, px, reason, ev)
<1>2. /\ Alike(v, u) /\ u.fills = v.fills /\ u.gross = v.gross /\ u.sl = v.sl /\ u.left = v.left
      /\ u.reason = reason /\ u.net = v.gross - v.fee
  BY <1>1 DEF CloseTrade, IsTrade, TradeFields, Alike
<1> HIDE DEF u
<1>3. Lots(u) = Lots(v) /\ Earned(u) = Earned(v)
  BY <1>2, SameFills DEF Alike
<1>4. IsTrade(u)
  BY <1>1, <1>2, <1>3 DEF IsTrade, Alike
<1>5. Lots(u) = u.lot /\ u.net = Earned(u) - u.fee /\ u.net \in Int
  <2>1. Lots(v) = t.lot /\ v.lot = t.lot /\ u.lot = v.lot /\ u.fee = v.fee
    BY <1>0, <1>1, <1>2 DEF Alike
  <2>2. v.gross = Earned(v) /\ v.gross \in Int /\ v.fee \in Int
    BY <1>1 DEF IsTrade
  <2>3. QED BY <1>2, <1>3, <2>1, <2>2
<1>6. IsClosed(u) /\ Alike(t, u)
  BY <1>1, <1>2, <1>4, <1>5 DEF IsClosed, Alike
<1>7. QED BY <1>6 DEF u, v

\* What a bar may make of an open trade: it is closed, or open with a stop that
\* is where it was or nearer to the market.
Meets(t, u) ==
  /\ Alike(t, u)
  /\ u.reason = "open" => IsOpen(u) /\ Sgn(t) * (u.sl - t.sl) >= 0
  /\ u.reason # "open" => IsClosed(u)

LEMMA ClosedMeets ==
  ASSUME NEW t, IsTrade(t), Lots(t) = t.lot - t.left, NEW px \in Int,
         NEW reason, reason # "open", NEW ev
  PROVE  Meets(t, CloseTrade(Filled(t, px, t.left), px, reason, ev))
  BY ClosedOut DEF Meets, IsClosed

LEMMA StaysMeets == \A t : IsOpen(t) => Meets(t, t)
<1> SUFFICES ASSUME NEW t, IsOpen(t) PROVE Meets(t, t)
  OBVIOUS
<1>1. Sgn(t) * (t.sl - t.sl) = 0
  <2>1. t.sl \in Int /\ Sgn(t) \in Int
    BY SgnIs DEF IsOpen, IsTrade
  <2>2. t.sl - t.sl = 0
    BY <2>1
  <2>3. QED BY <2>1, <2>2
<1>2. QED BY <1>1 DEF Meets, IsOpen, Alike

LEMMA AlikeAgain ==
  ASSUME NEW t, NEW u, NEW v, Alike(t, u), Alike(u, v)
  PROVE  Alike(t, v) /\ Sgn(u) = Sgn(t)
  BY DEF Alike, Sgn

-----------------------------------------------------------------------------
(* The ladder of the three scripts that bank a half at TP1. *)

\* Until TP1 the stop is on the losing side of the entry.
Rung(t) ==
  /\ {"tp1", "tp1_hit"} \subseteq DOMAIN t /\ t.tp1 \in Int /\ t.tp1_hit \in BOOLEAN
  /\ ~t.tp1_hit => Sgn(t) * (t.entry - t.sl) > 0

LEMMA StopMoved ==
  ASSUME NEW t, IsOpen(t), NEW px \in Int
  PROVE  LET u == [t EXCEPT !.sl = px] IN
         /\ IsOpen(u) /\ Alike(t, u) /\ u.sl = px
         /\ "tp1" \in DOMAIN t => u.tp1 = t.tp1
         /\ "tp1_hit" \in DOMAIN t => u.tp1_hit = t.tp1_hit
         /\ "armed" \in DOMAIN t => u.armed = t.armed
         /\ "water" \in DOMAIN t => u.water = t.water
         /\ "k" \in DOMAIN t => u.k = t.k
<1> DEFINE u == [t EXCEPT !.sl = px]
<1>1. /\ Alike(t, u) /\ u.sl = px /\ u.fills = t.fills /\ u.gross = t.gross /\ u.left = t.left
      /\ u.reason = t.reason
      /\ "tp1" \in DOMAIN t => u.tp1 = t.tp1
      /\ "tp1_hit" \in DOMAIN t => u.tp1_hit = t.tp1_hit
      /\ "armed" \in DOMAIN t => u.armed = t.armed
      /\ "water" \in DOMAIN t => u.water = t.water
      /\ "k" \in DOMAIN t => u.k = t.k
  BY DEF IsOpen, IsTrade, TradeFields, Alike
<1> HIDE DEF u
<1>2. Lots(u) = Lots(t) /\ Earned(u) = Earned(t)
  BY <1>1, SameFills DEF Alike
<1>3. IsOpen(u)
  BY <1>1, <1>2 DEF IsOpen, IsTrade, Alike
<1>4. QED BY <1>1, <1>3 DEF u

LEMMA HalfBanked ==
  ASSUME NEW t, IsOpen(t), Rung(t)
  PROVE  LET u == TP1Taken(t) IN
         /\ IsOpen(u) /\ Alike(t, u) /\ u.sl = t.entry + Sgn(t) * HalfSpread
         /\ u.tp1 = t.tp1 /\ u.tp1_hit = TRUE
<1> DEFINE half == t.left \div 2
           v == Filled(t, t.tp1, half)
           sl == t.entry + Sgn(t) * HalfSpread
           u == [v EXCEPT !.left = t.left - half, !.tp1_hit = TRUE, !.sl = sl]
<1>1. half \in Int /\ t.tp1 \in Int /\ t.left \in Int /\ t.lot \in Int /\ Lots(t) = t.lot - t.left
  BY DEF IsOpen, IsTrade, Rung
<1>2. sl \in Int
  BY SgnIs DEF IsOpen, IsTrade, HalfSpread, MAX_SPREAD_PIPS
<1> HIDE DEF half, sl
<1>3. /\ IsTrade(v) /\ Alike(t, v) /\ Lots(v) = Lots(t) + half /\ v.reason = "open"
      /\ v.tp1 = t.tp1 /\ {"tp1", "tp1_hit"} \subseteq DOMAIN v
  BY <1>1, FilledIs DEF IsOpen, Rung, Alike
<1> HIDE DEF v
<1>4. /\ Alike(v, u) /\ u.fills = v.fills /\ u.gross = v.gross /\ u.left = t.left - half
      /\ u.sl = sl /\ u.reason = v.reason /\ u.tp1 = t.tp1 /\ u.tp1_hit = TRUE
  BY <1>3 DEF IsTrade, TradeFields, Alike
<1> HIDE DEF u
<1>5. Lots(u) = Lots(v) /\ Earned(u) = Earned(v)
  BY <1>4, SameFills DEF Alike
<1>6. IsTrade(u)
  <2>1. u.left \in Int /\ u.sl \in Int
    BY <1>1, <1>2, <1>4
  <2>2. QED BY <1>3, <1>4, <1>5, <2>1 DEF IsTrade, Alike
<1>7. Lots(u) = u.lot - u.left
  BY <1>1, <1>3, <1>4, <1>5 DEF Alike
<1>8. IsOpen(u) /\ Alike(t, u)
  BY <1>3, <1>4, <1>6, <1>7, AlikeAgain DEF IsOpen
<1>9. u = TP1Taken(t)
  BY DEF u, v, sl, half, TP1Taken
<1>10. QED BY <1>4, <1>8, <1>9 DEF sl

LEMMA BehindIs ==
  ASSUME NEW t, NEW c \in Int, NEW risk \in Int
  PROVE  c - Sgn(t) * ((3 * risk) \div 10) \in Int
<1>1. (3 * risk) \div 10 \in Int /\ Sgn(t) \in Int
  BY SgnIs
<1>2. Sgn(t) * ((3 * risk) \div 10) \in Int
  BY <1>1
<1>3. QED BY <1>2

LEMMA TrailMeets ==
  ASSUME NEW t, IsOpen(t), Rung(t), t.tp1_hit, NEW bar \in Candle
  PROVE  Meets(t, Trailed(t, bar)) /\ Rung(Trailed(t, bar)) /\ Trailed(t, bar).reason = "open"
<1> DEFINE px == bar.c - Sgn(t) * ((3 * t.risk) \div 10)
           u == [t EXCEPT !.sl = px]
<1>1. px \in Int
  <2>1. bar.c \in Int /\ t.risk \in Int
    BY DEF IsOpen, IsTrade, Candle
  <2>2. QED BY <2>1, BehindIs
<1> HIDE DEF px
<1>2. /\ IsOpen(u) /\ Alike(t, u) /\ u.sl = px /\ u.tp1 = t.tp1 /\ u.tp1_hit = t.tp1_hit
  BY <1>1, StopMoved DEF Rung
<1> HIDE DEF u
<1>3. CASE Tighter(t, px)
  <2>1. Trailed(t, bar) = u
    BY <1>3 DEF Trailed, u, px
  <2>2. Sgn(t) * (u.sl - t.sl) >= 0
    <3>1. t.sl \in Int /\ Sgn(t) \in Int
      BY SgnIs DEF IsOpen, IsTrade
    <3>2. Sgn(t) * (px - t.sl) \in Int
      BY <1>1, <3>1
    <3>3. QED BY <1>2, <1>3, <3>2 DEF Tighter
  <2>3. QED BY <1>2, <2>1, <2>2 DEF Meets, IsOpen, Rung, Alike
<1>4. CASE ~Tighter(t, px)
  <2>1. Trailed(t, bar) = t
    BY <1>4 DEF Trailed, px
  <2>2. QED BY <2>1, StaysMeets DEF IsOpen
<1>5. QED BY <1>3, <1>4

LEMMA MeetsAgain ==
  ASSUME NEW t, NEW u, NEW v, IsOpen(t), IsOpen(u), Meets(t, u), Meets(u, v)
  PROVE  Meets(t, v)
<1>1. Alike(t, v) /\ Sgn(u) = Sgn(t)
  BY AlikeAgain DEF Meets
<1>2. ASSUME v.reason = "open" PROVE Sgn(t) * (v.sl - t.sl) >= 0
  <2>1. Sgn(t) * (u.sl - t.sl) >= 0 /\ Sgn(t) * (v.sl - u.sl) >= 0
    BY <1>1, <1>2 DEF Meets, IsOpen
  <2>2. t.sl \in Int /\ u.sl \in Int /\ v.sl \in Int
    BY <1>2 DEF Meets, IsOpen, IsTrade
  <2>3. CASE Sgn(t) = 1
    BY <2>1, <2>2, <2>3
  <2>4. CASE Sgn(t) = -1
    BY <2>1, <2>2, <2>4
  <2>5. QED BY <2>3, <2>4, SgnIs
<1>3. QED BY <1>1, <1>2 DEF Meets

LEMMA UpdateMeets ==
  ASSUME NEW t, IsOpen(t), Rung(t), NEW bar \in Candle, NEW ev
  PROVE  LET u == UpdateOpenTrade(t, bar, ev) IN
         Meets(t, u) /\ (u.reason = "open" => Rung(u))
<1> DEFINE banked == IF ~t.tp1_hit /\ Reached(t, bar, t.tp1) THEN TP1Taken(t) ELSE t
           u == UpdateOpenTrade(t, bar, ev)
<1>1. /\ IsOpen(banked) /\ Meets(t, banked) /\ banked.tp1_hit \in BOOLEAN
      /\ Rung(banked)
  <2>1. CASE ~t.tp1_hit /\ Reached(t, bar, t.tp1)
    <3>1. /\ IsOpen(banked) /\ Alike(t, banked) /\ banked.sl = t.entry + Sgn(t) * HalfSpread
          /\ banked.tp1 = t.tp1 /\ banked.tp1_hit = TRUE
      BY <2>1, HalfBanked
    <3>2. Sgn(t) * (banked.sl - t.sl) >= 0
      <4>1. Sgn(t) * (t.entry - t.sl) > 0 /\ t.entry \in Int /\ t.sl \in Int
        BY <2>1 DEF Rung, IsOpen, IsTrade
      <4>2. HalfSpread = 1
        BY DEF HalfSpread, MAX_SPREAD_PIPS
      <4>3. CASE Sgn(t) = 1
        BY <3>1, <4>1, <4>2, <4>3
      <4>4. CASE Sgn(t) = -1
        BY <3>1, <4>1, <4>2, <4>4
      <4>5. QED BY <4>3, <4>4, SgnIs
    <3>3. QED BY <3>1, <3>2 DEF Meets, IsOpen, Rung, Alike
  <2>2. CASE ~(~t.tp1_hit /\ Reached(t, bar, t.tp1))
    BY <2>2, StaysMeets DEF Rung
  <2>3. QED BY <2>1, <2>2
<1> HIDE DEF banked
<1>2. CASE Stopped(t, bar)
  <2> DEFINE why == IF t.tp1_hit THEN "TRAIL" ELSE "SL"
  <2>1. why # "open" /\ t.sl \in Int /\ IsTrade(t) /\ Lots(t) = t.lot - t.left
    BY DEF IsOpen, IsTrade
  <2>2. u = CloseTrade(Filled(t, t.sl, t.left), t.sl, why, ev)
    BY <1>2 DEF UpdateOpenTrade, Rest
  <2> HIDE DEF why, u
  <2>3. IsClosed(u) /\ Alike(t, u)
    BY <2>1, <2>2, ClosedOut
  <2>4. QED BY <2>3 DEF Meets, IsClosed, u
<1>3. CASE ~Stopped(t, bar) /\ banked.tp1_hit /\ Reached(t, bar, t.tp2)
  <2>1. /\ t.tp2 \in Int /\ IsTrade(banked) /\ Lots(banked) = banked.lot - banked.left
        /\ Alike(t, banked)
    BY <1>1 DEF IsOpen, IsTrade, Meets
  <2>2. u = CloseTrade(Filled(banked, t.tp2, banked.left), t.tp2, "TP2", ev)
    BY <1>3 DEF UpdateOpenTrade, Rest, banked
  <2> HIDE DEF u
  <2>3. IsClosed(u) /\ Alike(banked, u)
    BY <2>1, <2>2, ClosedOut
  <2>4. QED BY <2>1, <2>3, AlikeAgain DEF Meets, IsClosed, u
<1>4. CASE ~Stopped(t, bar) /\ ~(banked.tp1_hit /\ Reached(t, bar, t.tp2))
  <2>1. u = IF banked.tp1_hit THEN Trailed(banked, bar) ELSE banked
    BY <1>4 DEF UpdateOpenTrade, banked
  <2>2. Meets(banked, u) /\ Rung(u)
    BY <1>1, <2>1, TrailMeets, StaysMeets
  <2>3. QED BY <1>1, <2>2, MeetsAgain
<1>5. QED BY <1>2, <1>3, <1>4

\* The copies of the other two scripts do the same.
LEMMA CopiesUpdate ==
  \A t, bar, ev :
    /\ SbUpdateOpenTrade(t, bar, ev) = UpdateOpenTrade(t, bar, ev)
    /\ SfUpdateOpenTrade(t, bar, ev) = UpdateOpenTrade(t, bar, ev)
  BY DEF SbUpdateOpenTrade, SfUpdateOpenTrade, UpdateOpenTrade, SbTP1Taken, TP1Taken,
         SbCloseTrade, SfCloseTrade

-----------------------------------------------------------------------------
(* The six exits of the sweep. *)

Runs(t) ==
  /\ {"tp1_hit", "k", "armed", "water"} \subseteq DOMAIN t
  /\ t.tp1_hit \in BOOLEAN /\ t.armed \in BOOLEAN /\ t.k \in Int /\ t.water \in Int

\* A finite set of integers has a greatest and a least one.
LEMMA SomeGreatest ==
  \A m \in Nat : \A T \in SUBSET (1 .. m) : \A g \in [T -> Int] :
    T # {} => \E i \in T : \A j \in T : g[i] >= g[j]
<1> DEFINE Q(m) == \A T \in SUBSET (1 .. m) : \A g \in [T -> Int] :
                     T # {} => \E i \in T : \A j \in T : g[i] >= g[j]
           S == {m \in Nat : Q(m)}
<1>1. 0 \in S
  <2>1. 1 .. 0 = {}
    OBVIOUS
  <2>2. \A T \in SUBSET (1 .. 0) : T = {}
    BY <2>1
  <2>3. QED BY <2>2
<1>2. ASSUME NEW m \in Nat, Q(m) PROVE Q(m + 1)
  <2> SUFFICES ASSUME NEW T \in SUBSET (1 .. m + 1), NEW g \in [T -> Int], T # {}
               PROVE  \E i \in T : \A j \in T : g[i] >= g[j]
    OBVIOUS
  <2> DEFINE U == T \ {m + 1}
             h == [i \in U |-> g[i]]
  <2>1. U \in SUBSET (1 .. m) /\ h \in [U -> Int]
    OBVIOUS
  <2>2. CASE U = {}
    <3>1. T = {m + 1}
      BY <2>2
    <3>2. QED BY <3>1
  <2>3. CASE U # {}
    <3>1. PICK i \in U : \A j \in U : h[i] >= h[j]
      BY <1>2, <2>1, <2>3
    <3>2. \A j \in U : g[i] >= g[j]
      BY <3>1
    <3>3. CASE m + 1 \in T /\ g[m + 1] >= g[i]
      BY <3>2, <3>3
    <3>4. CASE ~(m + 1 \in T /\ g[m + 1] >= g[i])
      BY <3>2, <3>4
    <3>5. QED BY <3>3, <3>4
  <2>4. QED BY <2>2, <2>3
<1> HIDE DEF Q
<1>3. \A m \in Nat : m \in S => m + 1 \in S
  BY <1>2
<1>4. Nat \subseteq S
  BY <1>1, <1>3, Adding!AllNumbers
<1>5. QED BY <1>4 DEF Q

LEMMA EndsAreIn ==
  ASSUME NEW m \in Nat, NEW T \in SUBSET (1 .. m), T # {}, NEW g \in [T -> Int],
         NEW V, V = {g[i] : i \in T}
  PROVE  Max(V) \in V /\ Min(V) \in V /\ V \subseteq Int
<1>1. PICK i \in T : \A j \in T : g[i] >= g[j]
  BY SomeGreatest
<1> DEFINE h == [j \in T |-> 0 - g[j]]
<1>2. h \in [T -> Int]
  OBVIOUS
<1>3. PICK k \in T : \A j \in T : h[k] >= h[j]
  BY <1>2, SomeGreatest
<1>4. \A j \in T : g[k] <= g[j]
  BY <1>3
<1>5. g[i] \in V /\ \A x \in V : g[i] >= x
  BY <1>1
<1>6. g[k] \in V /\ \A x \in V : g[k] <= x
  BY <1>4
<1>7. Max(V) \in V
  BY <1>5 DEF Max
<1>8. Min(V) \in V
  BY <1>6 DEF Min
<1>9. QED BY <1>7, <1>8

LEMMA FlagSet ==
  ASSUME NEW t, IsOpen(t), Runs(t), NEW b \in BOOLEAN
  PROVE  LET u == [t EXCEPT !.armed = b] IN
         /\ IsOpen(u) /\ Runs(u) /\ Meets(t, u) /\ u.sl = t.sl /\ u.left = t.left
<1> DEFINE u == [t EXCEPT !.armed = b]
<1>1. /\ Alike(t, u) /\ u.sl = t.sl /\ u.fills = t.fills /\ u.gross = t.gross
      /\ u.left = t.left /\ u.reason = t.reason /\ Runs(u)
  BY DEF IsOpen, IsTrade, TradeFields, Alike, Runs
<1> HIDE DEF u
<1>2. Lots(u) = Lots(t) /\ Earned(u) = Earned(t)
  BY <1>1, SameFills DEF Alike
<1>3. IsOpen(u)
  BY <1>1, <1>2 DEF IsOpen, IsTrade, Alike
<1>4. Meets(t, u)
  BY <1>1, <1>3, StaysMeets DEF Meets, IsOpen
<1>5. QED BY <1>1, <1>3, <1>4 DEF u

LEMMA WaterSet ==
  ASSUME NEW t, IsOpen(t), Runs(t), NEW w \in Int
  PROVE  LET u == [t EXCEPT !.water = w] IN
         /\ IsOpen(u) /\ Runs(u) /\ Meets(t, u)
<1> DEFINE u == [t EXCEPT !.water = w]
<1>1. /\ Alike(t, u) /\ u.sl = t.sl /\ u.fills = t.fills /\ u.gross = t.gross
      /\ u.left = t.left /\ u.reason = t.reason /\ Runs(u)
  BY DEF IsOpen, IsTrade, TradeFields, Alike, Runs
<1> HIDE DEF u
<1>2. Lots(u) = Lots(t) /\ Earned(u) = Earned(t)
  BY <1>1, SameFills DEF Alike
<1>3. IsOpen(u)
  BY <1>1, <1>2 DEF IsOpen, IsTrade, Alike
<1>4. Meets(t, u)
  BY <1>1, <1>3, StaysMeets DEF Meets, IsOpen
<1>5. QED BY <1>1, <1>3, <1>4 DEF u

LEMMA RaiseMeets ==
  ASSUME NEW t, IsOpen(t), Runs(t), NEW px \in Int
  PROVE  LET u == Raised(t, px) IN IsOpen(u) /\ Runs(u) /\ Meets(t, u)
<1> DEFINE u == [t EXCEPT !.sl = px]
<1>2. /\ IsOpen(u) /\ Alike(t, u) /\ u.sl = px /\ u.tp1_hit = t.tp1_hit
      /\ u.armed = t.armed /\ u.water = t.water /\ u.k = t.k
  BY StopMoved DEF Runs
<1> HIDE DEF u
<1>3. CASE Tighter(t, px)
  <2>1. Raised(t, px) = u
    BY <1>3 DEF Raised, u
  <2>2. Sgn(t) * (u.sl - t.sl) >= 0
    <3>1. t.sl \in Int /\ Sgn(t) \in Int
      BY SgnIs DEF IsOpen, IsTrade
    <3>2. Sgn(t) * (px - t.sl) \in Int
      BY <3>1
    <3>3. QED BY <1>2, <1>3, <3>2 DEF Tighter
  <2>3. QED BY <1>2, <2>1, <2>2 DEF Meets, IsOpen, Runs, Alike
<1>4. CASE ~Tighter(t, px)
  <2>1. Raised(t, px) = t
    BY <1>4 DEF Raised
  <2>2. QED BY <2>1, StaysMeets
<1>5. QED BY <1>3, <1>4

LEMMA ClosesMeets ==
  ASSUME NEW t, NEW u, IsOpen(t), IsOpen(u), Meets(t, u), NEW px \in Int,
         NEW reason, reason # "open", NEW ev
  PROVE  LET v == CloseTrade(Filled(u, px, u.left), px, reason, ev) IN
         Meets(t, v) /\ v.reason # "open"
<1> DEFINE v == CloseTrade(Filled(u, px, u.left), px, reason, ev)
<1>1. IsTrade(u) /\ Lots(u) = u.lot - u.left
  BY DEF IsOpen
<1>2. IsClosed(v) /\ Alike(u, v)
  BY <1>1, ClosedOut
<1> HIDE DEF v
<1>3. Meets(t, v) /\ v.reason # "open"
  BY <1>2, AlikeAgain DEF Meets, IsClosed
<1>4. QED BY <1>3 DEF v

LEMMA StoppedMeets ==
  ASSUME NEW t, IsOpen(t), NEW reason, reason # "open", NEW ev
  PROVE  LET v == StoppedOut(t, reason, ev) IN Meets(t, v) /\ v.reason # "open"
<1>1. t.sl \in Int /\ Meets(t, t)
  BY StaysMeets DEF IsOpen, IsTrade
<1>2. StoppedOut(t, reason, ev) = CloseTrade(Filled(t, t.sl, t.left), t.sl, reason, ev)
  BY DEF StoppedOut, SwCloseTrade, BookRemaining, Rest
<1>3. QED BY <1>1, <1>2, ClosesMeets

\* A target in R, and the stop behind it.
LEMMA InRIs == ASSUME NEW t, IsOpen(t), NEW halves \in Int PROVE InR(t, halves) \in Int
<1>1. (halves * t.risk) \div 2 \in Int /\ Sgn(t) \in Int /\ t.entry \in Int
  BY SgnIs DEF IsOpen, IsTrade
<1>2. Sgn(t) * ((halves * t.risk) \div 2) \in Int
  BY <1>1
<1>3. QED BY <1>1, <1>2 DEF InR

Ends(t, u) == Meets(t, u) /\ (u.reason = "open" => Runs(u))

LEMMA FixedMeets ==
  ASSUME NEW t, IsOpen(t), Runs(t), NEW bar \in Candle, NEW ev
  PROVE  Ends(t, FixedTp(t, bar, ev))
<1>1. CASE Stopped(t, bar)
  <2>1. FixedTp(t, bar, ev) = StoppedOut(t, "SL", ev)
    BY <1>1 DEF FixedTp
  <2>2. QED BY <2>1, StoppedMeets DEF Ends
<1>2. CASE ~Stopped(t, bar) /\ Reached(t, bar, t.tp2)
  <2>1. FixedTp(t, bar, ev) = CloseTrade(Filled(t, t.tp2, t.left), t.tp2, "TP", ev)
    BY <1>2 DEF FixedTp, SwCloseTrade, BookRemaining, Rest
  <2>2. t.tp2 \in Int /\ Meets(t, t)
    BY StaysMeets DEF IsOpen, IsTrade
  <2>3. QED BY <2>1, <2>2, ClosesMeets DEF Ends
<1>3. CASE ~Stopped(t, bar) /\ ~Reached(t, bar, t.tp2)
  <2>1. FixedTp(t, bar, ev) = t
    BY <1>3 DEF FixedTp
  <2>2. QED BY <2>1, StaysMeets DEF Ends
<1>4. QED BY <1>1, <1>2, <1>3

\* The swings that are looked at are bars there were.
LEMMA SwingsAreBars ==
  ASSUME NEW t, Runs(t), NEW past \in Seq(Candle), BehindSwings(t, past) # {}
  PROVE  Max(BehindSwings(t, past)) \in Int /\ Min(BehindSwings(t, past)) \in Int
<1> DEFINE T == SwingsSince(t, past)
           px(i) == IF t.dir = "BUY" THEN past[i].l - SlBuffer ELSE past[i].h + SlBuffer
           g == [i \in T |-> px(i)]
           m == Len(past)
<1>1. T \subseteq 1 .. m
  <2>1. t.k - SwingBars \in Int /\ SwingBars \in Nat /\ m \in Nat
    BY DataAssumption, LenProperties DEF Runs
  <2>2. Max({1, t.k - SwingBars}) \in Int /\ Max({1, t.k - SwingBars}) >= 1
    <3> DEFINE a == t.k - SwingBars
    <3> HIDE DEF a
    <3>1. a \in Int
      BY <2>1 DEF a
    <3>2. \E x \in {1, a} : \A y \in {1, a} : x >= y
      BY <3>1
    <3>3. Max({1, a}) \in {1, a} /\ \A y \in {1, a} : Max({1, a}) >= y
      BY <3>2 DEF Max
    <3>4. Max({1, a}) \in Int /\ Max({1, a}) >= 1
      BY <3>1, <3>3
    <3>5. QED BY <3>4 DEF a
  <2>3. QED BY <2>1, <2>2 DEF SwingsSince
<1>2. \A i \in T : px(i) \in Int
  <2>1. \A i \in T : past[i] \in Candle
    BY <1>1, LenProperties
  <2> HIDE DEF T
  <2>2. SlBuffer \in Int /\ \A i \in T : past[i].l \in Int /\ past[i].h \in Int
    BY <2>1, DataAssumption DEF Candle
  <2>3. QED BY <2>2
<1>3. BehindSwings(t, past) = {px(i) : i \in T}
  BY DEF BehindSwings
<1>4. m \in Nat
  BY LenProperties
<1> HIDE DEF T, px, m
<1>5. g \in [T -> Int] /\ BehindSwings(t, past) = {g[i] : i \in T}
  <2>1. \A i \in T : g[i] = px(i)
    OBVIOUS
  <2>2. {g[i] : i \in T} = {px(i) : i \in T}
    BY <2>1
  <2>3. QED BY <1>2, <1>3, <2>2
<1>6. T # {}
  BY <1>3
<1> HIDE DEF g
<1> DEFINE V == BehindSwings(t, past)
<1>7. V = {g[i] : i \in T} /\ T \in SUBSET (1 .. m)
  BY <1>1, <1>5
<1> HIDE DEF V
<1>8. Max(V) \in V /\ Min(V) \in V /\ V \subseteq Int
  BY <1>4, <1>5, <1>6, <1>7, EndsAreIn
<1>9. QED BY <1>8 DEF V

LEMMA DMeets ==
  ASSUME NEW t, IsOpen(t), Runs(t), NEW bar \in Candle, NEW past \in Seq(Candle), NEW ev
  PROVE  Ends(t, ExitD(t, bar, past, ev))
<1> DEFINE armed  == t.armed \/ Reached(t, bar, InR(t, 2))
           behind == BehindSwings(t, past)
           best   == IF t.dir = "BUY" THEN Max(behind) ELSE Min(behind)
           u      == ExitD(t, bar, past, ev)
<1>1. armed \in BOOLEAN
  BY DEF Runs, Reached
<1>2. behind # {} => best \in Int
  BY SwingsAreBars
<1> HIDE DEF armed, behind, best
<1>3. CASE Stopped(t, bar)
  <2> DEFINE why == IF t.armed THEN "TRAIL" ELSE "SL"
  <2>1. why # "open"
    OBVIOUS
  <2>2. u = StoppedOut(t, why, ev)
    BY <1>3 DEF ExitD
  <2> HIDE DEF why, u
  <2>3. QED BY <2>1, <2>2, StoppedMeets DEF Ends, u
<1>4. CASE ~Stopped(t, bar) /\ armed /\ behind # {}
  <2> DEFINE v == [t EXCEPT !.armed = TRUE]
  <2>1. u = Raised(v, best)
    BY <1>4 DEF ExitD, armed, behind, best
  <2>2. IsOpen(v) /\ Runs(v) /\ Meets(t, v)
    BY FlagSet
  <2> HIDE DEF v, u
  <2>3. IsOpen(u) /\ Runs(u) /\ Meets(v, u)
    BY <1>2, <1>4, <2>1, <2>2, RaiseMeets
  <2>4. QED BY <2>2, <2>3, MeetsAgain DEF Ends, u
<1>5. CASE ~Stopped(t, bar) /\ ~(armed /\ behind # {})
  <2>1. u = [t EXCEPT !.armed = armed]
    BY <1>5 DEF ExitD, armed, behind
  <2> HIDE DEF u
  <2>2. IsOpen(u) /\ Runs(u) /\ Meets(t, u)
    BY <1>1, <2>1, FlagSet
  <2>3. QED BY <2>2 DEF Ends, u
<1>6. QED BY <1>3, <1>4, <1>5

LEMMA EMeets ==
  ASSUME NEW t, IsOpen(t), Runs(t), NEW bar \in Candle, NEW past, NEW ev
  PROVE  Ends(t, ExitE(t, bar, past, ev))
<1> DEFINE u == ExitE(t, bar, past, ev)
<1>1. CASE Stopped(t, bar)
  <2>1. u = StoppedOut(t, "SL", ev)
    BY <1>1 DEF ExitE
  <2>2. QED BY <2>1, StoppedMeets DEF Ends
<1>2. CASE ~Stopped(t, bar) /\ Rejects(t, past)
  <2>1. u = CloseTrade(Filled(t, bar.c, t.left), bar.c, "OPP_REJ", ev)
    BY <1>2 DEF ExitE, SwForceClose, SwCloseTrade, BookRemaining, Rest
  <2>2. bar.c \in Int /\ Meets(t, t)
    BY StaysMeets DEF Candle
  <2>3. QED BY <2>1, <2>2, ClosesMeets DEF Ends
<1>3. CASE ~Stopped(t, bar) /\ ~Rejects(t, past)
  <2>1. u = t
    BY <1>3 DEF ExitE
  <2>2. QED BY <2>1, StaysMeets DEF Ends
<1>4. QED BY <1>1, <1>2, <1>3

\* Half of a runner goes at 2 R; the stop stays.
LEMMA HalfRuns ==
  ASSUME NEW t, IsOpen(t), Runs(t), NEW px \in Int
  PROVE  LET half == t.left \div 2
             u == [Filled(t, px, half) EXCEPT !.left = t.left - half, !.tp1_hit = TRUE, !.water = px]
         IN  IsOpen(u) /\ Runs(u) /\ Meets(t, u)
<1> DEFINE half == t.left \div 2
           v == Filled(t, px, half)
           u == [v EXCEPT !.left = t.left - half, !.tp1_hit = TRUE, !.water = px]
<1>1. half \in Int /\ t.left \in Int /\ t.lot \in Int /\ Lots(t) = t.lot - t.left /\ IsTrade(t)
  BY DEF IsOpen, IsTrade
<1> HIDE DEF half
<1>2. /\ IsTrade(v) /\ Alike(t, v) /\ Lots(v) = Lots(t) + half /\ v.sl = t.sl
      /\ v.reason = "open" /\ v.armed = t.armed /\ v.k = t.k
      /\ {"tp1_hit", "k", "armed", "water"} \subseteq DOMAIN v
  BY <1>1, FilledIs DEF IsOpen, Runs, Alike
<1> HIDE DEF v
<1>3. /\ Alike(v, u) /\ u.fills = v.fills /\ u.gross = v.gross /\ u.left = t.left - half
      /\ u.sl = v.sl /\ u.reason = v.reason /\ u.tp1_hit = TRUE /\ u.water = px
      /\ u.armed = v.armed /\ u.k = v.k
  BY <1>2 DEF IsTrade, TradeFields, Alike
<1>4. DOMAIN u = DOMAIN v
  OBVIOUS
<1> HIDE DEF u
<1>5. Lots(u) = Lots(v) /\ Earned(u) = Earned(v)
  BY <1>3, SameFills DEF Alike
<1>6. IsTrade(u)
  <2>1. u.left \in Int
    BY <1>1, <1>3
  <2>2. QED BY <1>2, <1>3, <1>5, <2>1 DEF IsTrade, Alike
<1>7. Lots(u) = u.lot - u.left
  BY <1>1, <1>2, <1>3, <1>5 DEF Alike
<1>8. IsOpen(u) /\ Alike(t, u) /\ u.sl = t.sl
  BY <1>2, <1>3, <1>6, <1>7, AlikeAgain DEF IsOpen
<1>9. Runs(u)
  BY <1>2, <1>3, <1>4 DEF Runs
<1>10. Meets(t, u)
  BY <1>8, StaysMeets DEF Meets, IsOpen
<1>11. QED BY <1>8, <1>9, <1>10 DEF u, v, half

LEMMA RunnerMeets ==
  ASSUME NEW t, IsOpen(t), Runs(t), NEW bar \in Candle
  PROVE  LET u == Runner(t, bar) IN IsOpen(u) /\ Runs(u) /\ Meets(t, u)
<1> DEFINE w == IF Sgn(t) * (bar.c - t.water) > 0 THEN bar.c ELSE t.water
           v == [t EXCEPT !.water = w]
           px == w - Sgn(t) * ((3 * t.risk) \div 10)
           u == Runner(t, bar)
<1>1. w \in Int
  BY DEF Candle, Runs
<1>2. u = Raised(v, px)
  BY DEF Runner
<1> HIDE DEF w
<1>3. px \in Int
  BY <1>1, BehindIs DEF IsOpen, IsTrade
<1>4. IsOpen(v) /\ Runs(v) /\ Meets(t, v)
  BY <1>1, WaterSet
<1> HIDE DEF v, px, u
<1>5. IsOpen(u) /\ Runs(u) /\ Meets(v, u)
  BY <1>2, <1>3, <1>4, RaiseMeets
<1>6. Meets(t, u)
  BY <1>4, <1>5, MeetsAgain
<1>7. QED BY <1>5, <1>6 DEF u

LEMMA FMeets ==
  ASSUME NEW t, IsOpen(t), Runs(t), NEW bar \in Candle, NEW ev
  PROVE  Ends(t, ExitF(t, bar, ev))
<1> DEFINE armed == [t EXCEPT !.armed = TRUE]
           even  == t.entry + Sgn(t) * HalfSpread
           one   == IF ~t.armed /\ Reached(t, bar, InR(t, 2)) THEN Raised(armed, even) ELSE t
           half  == one.left \div 2
           banked == [Filled(one, InR(t, 4), half) EXCEPT
                        !.left = one.left - half, !.tp1_hit = TRUE, !.water = InR(t, 4)]
           two   == IF one.armed /\ ~one.tp1_hit /\ Reached(one, bar, InR(t, 4))
                    THEN banked ELSE one
           why   == IF t.tp1_hit THEN "TRAIL" ELSE IF t.armed THEN "BE" ELSE "SL"
           u     == ExitF(t, bar, ev)
<1>1. u = IF Stopped(t, bar) THEN StoppedOut(t, why, ev)
          ELSE IF two.tp1_hit THEN Runner(two, bar) ELSE two
  BY DEF ExitF
<1>2. even \in Int /\ InR(t, 4) \in Int /\ why # "open"
  <2>1. Sgn(t) * HalfSpread \in Int /\ t.entry \in Int
    BY SgnIs DEF IsOpen, IsTrade, HalfSpread, MAX_SPREAD_PIPS
  <2>2. InR(t, 4) \in Int
    BY InRIs
  <2>3. QED BY <2>1, <2>2
<1> HIDE DEF even, why, u
<1>3. IsOpen(one) /\ Runs(one) /\ Meets(t, one)
  <2>1. IsOpen(armed) /\ Runs(armed) /\ Meets(t, armed)
    BY FlagSet
  <2> HIDE DEF armed
  <2> DEFINE w == Raised(armed, even)
  <2>2. IsOpen(w) /\ Runs(w) /\ Meets(armed, w)
    BY <1>2, <2>1, RaiseMeets
  <2>3. one = w \/ one = t
    OBVIOUS
  <2> HIDE DEF w, one
  <2>4. Meets(t, w)
    BY <2>1, <2>2, MeetsAgain
  <2>5. QED BY <2>2, <2>3, <2>4, StaysMeets
<1> HIDE DEF one
<1>4. IsOpen(two) /\ Runs(two) /\ Meets(t, two)
  <2>1. IsOpen(banked) /\ Runs(banked) /\ Meets(one, banked)
    BY <1>2, <1>3, HalfRuns
  <2>2. two = banked \/ two = one
    OBVIOUS
  <2> HIDE DEF banked, two
  <2>3. Meets(t, banked)
    BY <1>3, <2>1, MeetsAgain
  <2>4. QED BY <1>3, <2>1, <2>2, <2>3
<1> HIDE DEF two
<1>5. CASE Stopped(t, bar)
  <2>1. u = StoppedOut(t, why, ev)
    BY <1>1, <1>5
  <2>2. Meets(t, u) /\ u.reason # "open"
    BY <1>2, <2>1, StoppedMeets
  <2>3. QED BY <2>2 DEF Ends, u
<1>6. CASE ~Stopped(t, bar)
  <2> DEFINE run == Runner(two, bar)
  <2>1. IsOpen(run) /\ Runs(run) /\ Meets(two, run)
    BY <1>4, RunnerMeets
  <2>2. u = run \/ u = two
    BY <1>1, <1>6
  <2> HIDE DEF run
  <2>3. Meets(t, run)
    BY <1>4, <2>1, MeetsAgain
  <2>4. QED BY <1>4, <2>1, <2>2, <2>3 DEF Ends, u
<1>7. QED BY <1>5, <1>6

LEMMA ExitMeets ==
  ASSUME NEW v \in VARIANTS, NEW t, IsOpen(t), Runs(t), NEW bar \in Candle,
         NEW past \in Seq(Candle), NEW ev
  PROVE  Ends(t, ExitOf(v, t, bar, past, ev))
<1>1. CASE v \in {"A", "B", "C"}
  <2>1. ExitOf(v, t, bar, past, ev) = FixedTp(t, bar, ev)
    BY <1>1 DEF ExitOf
  <2>2. QED BY <2>1, FixedMeets
<1>2. CASE v = "D"
  <2>1. ExitOf(v, t, bar, past, ev) = ExitD(t, bar, past, ev)
    BY <1>2 DEF ExitOf
  <2>2. QED BY <2>1, DMeets
<1>3. CASE v = "E"
  <2>1. ExitOf(v, t, bar, past, ev) = ExitE(t, bar, past, ev)
    BY <1>3 DEF ExitOf
  <2>2. QED BY <2>1, EMeets
<1>4. CASE v = "F"
  <2>1. ExitOf(v, t, bar, past, ev) = ExitF(t, bar, ev)
    BY <1>4 DEF ExitOf
  <2>2. QED BY <2>1, FMeets
<1>5. QED BY <1>1, <1>2, <1>3, <1>4 DEF VARIANTS

-----------------------------------------------------------------------------
(* The state of a walk. *)

\* What the script v needs to know of an open trade.
Fit(v, t) ==
  /\ v # "gold" => t.sym \in DOMAIN StoredHtf
  /\ v \in VARIANTS => Runs(t)
  /\ v \in {"multi", "silver", "flip"} => Rung(t)
  /\ v = "gold" => t.deferred \in {"none", "sl_minhold", "tp_minhold"}

Turns(v, t, u) == Meets(t, u) /\ (u.reason = "open" => Fit(v, u))

\* Trades are in the order of their entries, at most one of an event.
Rising(trades) == \A i, j \in DOMAIN trades : i < j => trades[i].ev < trades[j].ev

Accounts(r) ==
  /\ {"bal", "open", "closed"} \subseteq DOMAIN r
  /\ r.bal \in Int /\ Total(r.closed) \in Int /\ r.bal = INITIAL_BALANCE + Total(r.closed)
  /\ IsSeq(r.closed) /\ \A i \in DOMAIN r.closed : IsClosed(r.closed[i])

\* The books of the script v after k events.
Books(v, r, k) ==
  /\ Accounts(r)
  /\ IsSeq(r.open) /\ Rising(r.open)
  /\ \A i \in DOMAIN r.open : LET t == r.open[i] IN IsOpen(t) /\ Fit(v, t) /\ t.ev <= k

\* The open trades of w are trades of r, met by a bar, or entered at event k.
Follows(r, w, k) ==
  \A j \in DOMAIN w.open :
    w.open[j].ev = k \/ \E i \in DOMAIN r.open : Meets(r.open[i], w.open[j])

\* One trade booked.
LEMMA BookKeeps ==
  ASSUME NEW r, Accounts(r), NEW t, IsClosed(t)
  PROVE  LET w == Book(r, t) IN Accounts(w) /\ w.open = r.open /\ DOMAIN w = DOMAIN r
<1> DEFINE w == Book(r, t)
<1>1. /\ DOMAIN w = DOMAIN r /\ w.bal = r.bal + t.net /\ w.closed = Append(r.closed, t)
      /\ w.open = r.open
  BY DEF Book, Accounts
<1> HIDE DEF w
<1>2. Total(w.closed) = Total(r.closed) + t.net
  BY <1>1, TotalMore DEF Accounts
<1>3. /\ IsSeq(w.closed) /\ DOMAIN r.closed = 1 .. Len(r.closed)
      /\ DOMAIN w.closed = 1 .. Len(r.closed) + 1 /\ Len(r.closed) \in Nat
      /\ \A i \in DOMAIN r.closed : w.closed[i] = r.closed[i]
      /\ w.closed[Len(r.closed) + 1] = t
  BY <1>1, AppendIs DEF Accounts
<1>4. \A i \in DOMAIN w.closed : IsClosed(w.closed[i])
  <2>1. \A i \in DOMAIN w.closed : i \in DOMAIN r.closed \/ i = Len(r.closed) + 1
    BY <1>3
  <2>2. QED BY <1>3, <2>1 DEF Accounts
<1>5. w.bal \in Int /\ Total(w.closed) \in Int /\ w.bal = INITIAL_BALANCE + Total(w.closed)
  <2>1. t.net \in Int /\ INITIAL_BALANCE \in Int
    BY DEF IsClosed, INITIAL_BALANCE
  <2>2. QED BY <1>1, <1>2, <2>1 DEF Accounts
<1>6. Accounts(w)
  BY <1>1, <1>3, <1>4, <1>5 DEF Accounts
<1>7. QED BY <1>1, <1>6 DEF w

\* The trades of a bar booked or kept, one after another.
SettlesWell(r, D, trades) ==
  LET w == Settled(r, trades) IN
  /\ Accounts(w) /\ DOMAIN w = DOMAIN r /\ w.open \in Seq(D) /\ Rising(w.open)
  /\ \A j \in DOMAIN w.open :
       w.open[j].reason = "open" /\ \E i \in DOMAIN trades : w.open[j] = trades[i]

LEMMA SettledKeeps ==
  ASSUME NEW r, Accounts(r), NEW D,
         \A t \in D : t.ev \in Int /\ (t.reason # "open" => IsClosed(t)),
         NEW trades \in Seq(D), Rising(trades)
  PROVE  SettlesWell(r, D, trades)
<1> DEFINE w(q) == Settled(r, q)
           Good(q) == /\ Accounts(w(q)) /\ DOMAIN w(q) = DOMAIN r /\ w(q).open \in Seq(D)
                      /\ Rising(w(q).open)
                      /\ \A j \in DOMAIN w(q).open :
                           /\ w(q).open[j].reason = "open"
                           /\ \E i \in DOMAIN q : w(q).open[j] = q[i]
           S == {q \in Seq(D) : Rising(q) => Good(q)}
           b == [r EXCEPT !.open = <<>>]
<1>1. <<>> \in S
  <2>1. w(<<>>) = b
    BY SettledIs, Settling!FoldNone
  <2>2. /\ DOMAIN b = DOMAIN r /\ b.open = <<>> /\ b.bal = r.bal /\ b.closed = r.closed
    BY DEF Accounts
  <2> HIDE DEF b, w
  <2>3. Accounts(w(<<>>))
    BY <2>1, <2>2 DEF Accounts
  <2>4. w(<<>>).open = <<>>
    BY <2>1, <2>2
  <2>5. DOMAIN w(<<>>).open = {} /\ w(<<>>).open \in Seq(D) /\ DOMAIN w(<<>>) = DOMAIN r
    <3>1. <<>> \in Seq(D)
      OBVIOUS
    <3>2. DOMAIN w(<<>>).open = DOMAIN <<>>
      BY <2>4
    <3>3. DOMAIN <<>> = {}
      OBVIOUS
    <3>4. QED BY <2>1, <2>2, <2>4, <3>1, <3>2, <3>3
  <2> DEFINE o == w(<<>>).open
  <2>6. Rising(o) /\ \A j \in DOMAIN o : o[j].reason = "open" /\ \E i \in DOMAIN <<>> : o[j] = <<>>[i]
    <3> HIDE DEF o
    <3>1. DOMAIN o = {}
      BY <2>5 DEF o
    <3>2. QED BY <3>1 DEF Rising
  <2>7. Good(<<>>)
    BY <2>3, <2>5, <2>6
  <2>8. QED BY <2>7
<1>2. ASSUME NEW q \in Seq(D), NEW t \in D, q \in S PROVE Append(q, t) \in S
  <2> DEFINE p == Append(q, t)
             m == Len(q)
  <2>1. /\ p \in Seq(D) /\ m \in Nat /\ DOMAIN q = 1 .. m /\ DOMAIN p = 1 .. m + 1
        /\ p[m + 1] = t /\ \A i \in 1 .. m : p[i] = q[i]
    BY AppendProperties, LenProperties
  <2>2. w(p) = Settle(w(q), t)
    <3>1. Settling!Fold(b, Append(q, t)) = Settle(Settling!Fold(b, q), t)
      BY Settling!FoldMore
    <3>2. QED BY <3>1, SettledIs
  <2> HIDE DEF p, m, w, b
  <2> SUFFICES ASSUME Rising(p) PROVE Good(p)
    BY <2>1 DEF p
  <2>3. Rising(q) /\ \A i \in 1 .. m : q[i].ev < t.ev
    <3>1. \A i, j \in 1 .. m + 1 : i < j => p[i].ev < p[j].ev
      BY <2>1 DEF Rising
    <3>2. ASSUME NEW i \in 1 .. m PROVE q[i].ev < t.ev
      <4>1. p[i].ev < p[m + 1].ev
        BY <2>1, <3>1
      <4>2. QED BY <2>1, <4>1
    <3>3. ASSUME NEW i \in 1 .. m, NEW j \in 1 .. m, i < j PROVE q[i].ev < q[j].ev
      <4>1. p[i].ev < p[j].ev
        BY <2>1, <3>1, <3>3
      <4>2. QED BY <2>1, <4>1
    <3>4. QED BY <2>1, <3>2, <3>3 DEF Rising
  <2>4. Good(q)
    BY <1>2, <2>3
  <2>5. \A i \in DOMAIN q : i \in DOMAIN p /\ p[i] = q[i]
    BY <2>1
  <2>6. CASE t.reason # "open"
    <3>1. w(p) = Book(w(q), t) /\ IsClosed(t)
      BY <2>2, <2>6 DEF Settle
    <3>2. Accounts(w(p)) /\ w(p).open = w(q).open /\ DOMAIN w(p) = DOMAIN w(q)
      BY <2>4, <3>1, BookKeeps
    <3>3. QED BY <2>4, <2>5, <3>2
  <2>7. CASE t.reason = "open"
    <3> DEFINE x == w(q)
               y == w(p)
               o == x.open
               k == Len(o)
    <3>1. y = [x EXCEPT !.open = Append(o, t)]
      BY <2>2, <2>7 DEF Settle
    <3>2. /\ Accounts(x) /\ DOMAIN x = DOMAIN r /\ o \in Seq(D) /\ Rising(o)
          /\ \A j \in DOMAIN o : o[j].reason = "open" /\ \E i \in DOMAIN q : o[j] = q[i]
      BY <2>4
    <3>3. /\ DOMAIN y = DOMAIN x /\ y.open = Append(o, t) /\ y.bal = x.bal /\ y.closed = x.closed
      BY <3>1, <3>2 DEF Accounts
    <3>4. Accounts(y)
      BY <3>2, <3>3 DEF Accounts
    <3> HIDE DEF x, y, o
    <3>5. /\ y.open \in Seq(D) /\ k \in Nat /\ DOMAIN o = 1 .. k /\ DOMAIN y.open = 1 .. k + 1
          /\ y.open[k + 1] = t /\ \A j \in 1 .. k : y.open[j] = o[j]
      BY <3>2, <3>3, AppendProperties, LenProperties
    <3> HIDE DEF k
    <3>6. \A j \in DOMAIN y.open :
            y.open[j].reason = "open" /\ \E i \in DOMAIN p : y.open[j] = p[i]
      <4>1. SUFFICES ASSUME NEW j \in DOMAIN y.open
                     PROVE  y.open[j].reason = "open" /\ \E i \in DOMAIN p : y.open[j] = p[i]
        OBVIOUS
      <4>2. CASE j \in 1 .. k
        <5>1. o[j].reason = "open" /\ \E i \in DOMAIN q : o[j] = q[i]
          BY <3>2, <3>5, <4>2
        <5>2. QED BY <2>5, <3>5, <4>2, <5>1
      <4>3. CASE j = k + 1
        <5>1. m + 1 \in DOMAIN p
          BY <2>1
        <5>2. QED BY <2>1, <2>7, <3>5, <4>3, <5>1
      <4>4. QED BY <3>5, <4>1, <4>2, <4>3
    <3>7. Rising(y.open)
      <4>1. SUFFICES ASSUME NEW i \in DOMAIN y.open, NEW j \in DOMAIN y.open, i < j
                     PROVE  y.open[i].ev < y.open[j].ev
        BY DEF Rising
      <4>2. i \in 1 .. k /\ y.open[i] = o[i]
        BY <3>5, <4>1
      <4>3. CASE j \in 1 .. k
        BY <3>2, <3>5, <4>1, <4>2, <4>3 DEF Rising
      <4>4. CASE j = k + 1
        <5>1. \E h \in DOMAIN q : o[i] = q[h]
          BY <3>2, <3>5, <4>2
        <5>2. o[i].ev < t.ev
          BY <2>1, <2>3, <5>1
        <5>3. QED BY <3>5, <4>2, <4>4, <5>2
      <4>5. QED BY <3>5, <4>1, <4>3, <4>4
    <3>8. QED BY <3>2, <3>3, <3>4, <3>5, <3>6, <3>7 DEF x, y
  <2>8. QED BY <2>6, <2>7
<1>3. Seq(D) \subseteq S
  <2> HIDE DEF S
  <2>1. QED BY <1>1, <1>2, Settling!AllSequences
<1>4. Good(trades)
  BY <1>3
<1>5. QED BY <1>4 DEF SettlesWell

LEMMA ForceMeets ==
  ASSUME NEW t, IsOpen(t), NEW bar, bar.c \in Int, NEW reason, reason # "open", NEW ev
  PROVE  LET u == ForceClose(t, bar, reason, ev) IN Meets(t, u) /\ u.reason # "open"
<1>1. ForceClose(t, bar, reason, ev) = CloseTrade(Filled(t, bar.c, t.left), bar.c, reason, ev)
  BY DEF ForceClose, Rest
<1>2. QED BY <1>1, StaysMeets, ClosesMeets

LEMMA TouchedTurns ==
  ASSUME NEW v, NEW t, IsOpen(t), Fit(v, t), NEW e, NEW bar \in Candle, NEW x, Turns(v, t, x)
  PROVE  Turns(v, t, Touched(t, e, bar, x))
<1> DEFINE u == Touched(t, e, bar, x)
           f == ForceClose(t, bar, "TIME_STOP", e.n)
           g == ForceClose(t, bar, "FRIDAY_FLATTEN", e.n)
<1>1. u = t \/ u = f \/ u = g \/ u = x
  <2>1. t.sym # e.sym => u = t
    BY DEF Touched
  <2>2. t.sym = e.sym /\ e.t - t.at >= 48 * 60 => u = f \/ u = g
    BY DEF Touched
  <2>3. t.sym = e.sym /\ ~(e.t - t.at >= 48 * 60) => u = g \/ u = x
    BY DEF Touched
  <2>4. QED BY <2>1, <2>2, <2>3
<1>2. bar.c \in Int
  BY DEF Candle
<1>3. Meets(t, f) /\ f.reason # "open" /\ Meets(t, g) /\ g.reason # "open"
  BY <1>2, ForceMeets
<1>4. Meets(t, t)
  BY StaysMeets
<1> HIDE DEF u, f, g
<1>5. Turns(v, t, u)
  BY <1>1, <1>3, <1>4 DEF Turns
<1>6. QED BY <1>5 DEF u

\* What a walk makes of open trades that each turn into something.
LEMMA TurnsKeep ==
  ASSUME NEW v, NEW r, NEW k \in Int, Books(v, r, k), NEW x, Accounts(x), x.open = r.open,
         NEW X, NEW T \in [DOMAIN r.open -> X],
         \A i \in DOMAIN r.open : Turns(v, r.open[i], T[i])
  PROVE  LET w == Settled(x, T) IN
         /\ Books(v, w, k) /\ DOMAIN w = DOMAIN x
         /\ \A j \in DOMAIN w.open : \E i \in DOMAIN r.open :
              w.open[j] = T[i] /\ T[i].reason = "open" /\ Meets(r.open[i], w.open[j])
<1> DEFINE D == Members(T)
           w == Settled(x, T)
           m == Len(r.open)
<1>1. m \in Nat /\ DOMAIN r.open = 1 .. m /\ DOMAIN T = 1 .. m
  BY LenProperties DEF Books, IsSeq
<1>2. \A i \in 1 .. m : LET t == r.open[i]  u == T[i] IN
        /\ u \in D /\ IsTrade(u) /\ u.ev = t.ev /\ u.ev \in Int /\ u.ev <= k
        /\ u.reason # "open" => IsClosed(u)
        /\ u.reason = "open" => IsOpen(u) /\ Fit(v, u) /\ Meets(t, u)
  <2> SUFFICES ASSUME NEW i \in 1 .. m
               PROVE  LET t == r.open[i]  u == T[i] IN
                      /\ u \in D /\ IsTrade(u) /\ u.ev = t.ev /\ u.ev \in Int /\ u.ev <= k
                      /\ u.reason # "open" => IsClosed(u)
                      /\ u.reason = "open" => IsOpen(u) /\ Fit(v, u) /\ Meets(t, u)
    OBVIOUS
  <2> DEFINE t == r.open[i]
             u == T[i]
  <2>1. IsTrade(t) /\ t.ev <= k /\ Turns(v, t, u) /\ u \in D
    BY <1>1 DEF Books, IsOpen, Members
  <2> HIDE DEF t, u
  <2>2. /\ Meets(t, u) /\ (u.reason = "open" => Fit(v, u)) /\ u.ev = t.ev
        /\ (u.reason = "open" => IsOpen(u)) /\ (u.reason # "open" => IsClosed(u))
    BY <2>1 DEF Turns, Meets, Alike
  <2>3. IsTrade(u)
    BY <2>2 DEF IsOpen, IsClosed
  <2>4. u.ev \in Int
    BY <2>3 DEF IsTrade
  <2>5. QED BY <2>1, <2>2, <2>3, <2>4 DEF t, u
<1>3. T \in Seq(D)
  <2>1. T \in [1 .. m -> D]
    BY <1>1, <1>2
  <2>2. QED BY <1>1, <2>1 DEF Seq
<1>4. Rising(T)
  BY <1>1, <1>2 DEF Books, Rising
<1>5. \A t \in D : t.ev \in Int /\ (t.reason # "open" => IsClosed(t))
  BY <1>1, <1>2 DEF Members
<1> HIDE DEF D
<1>6. /\ Accounts(w) /\ DOMAIN w = DOMAIN x /\ w.open \in Seq(D) /\ Rising(w.open)
      /\ \A j \in DOMAIN w.open : w.open[j].reason = "open" /\ \E i \in DOMAIN T : w.open[j] = T[i]
  <2>1. SettlesWell(x, D, T)
    BY <1>3, <1>4, <1>5, SettledKeeps
  <2>2. QED BY <2>1 DEF SettlesWell
<1> HIDE DEF w
<1>7. \A j \in DOMAIN w.open : \E i \in DOMAIN r.open :
        w.open[j] = T[i] /\ T[i].reason = "open" /\ Meets(r.open[i], w.open[j])
  BY <1>1, <1>2, <1>6
<1>8. \A j \in DOMAIN w.open : LET t == w.open[j] IN IsOpen(t) /\ Fit(v, t) /\ t.ev <= k
  BY <1>1, <1>2, <1>7
<1>9. IsSeq(w.open)
  <2>1. w.open \in Seq(D)
    BY <1>6
  <2> DEFINE o == w.open
  <2> HIDE DEF o
  <2>2. o \in Seq(D) => o \in Seq(Members(o))
    <3>1. \A j \in DOMAIN o : o[j] \in Members(o)
      BY DEF Members
    <3>2. QED BY <3>1
  <2>3. QED BY <2>1, <2>2 DEF IsSeq, o
<1>10. Books(v, w, k)
  BY <1>6, <1>8, <1>9 DEF Books
<1>11. QED BY <1>6, <1>7, <1>10 DEF w

\* What is left of the books when the rest of the state changes.
Same(r, w) ==
  w.bal = r.bal /\ w.open = r.open /\ w.closed = r.closed /\ DOMAIN w = DOMAIN r
Grown(r, w, t) ==
  /\ w.bal = r.bal /\ w.open = Append(r.open, t) /\ w.closed = r.closed /\ DOMAIN w = DOMAIN r

LEMMA SameKeeps ==
  ASSUME NEW v, NEW r, NEW k, Books(v, r, k), NEW w, Same(r, w)
  PROVE  Books(v, w, k)
  BY DEF Books, Accounts, Same

LEMMA SameAgain ==
  ASSUME NEW r, NEW w, NEW x, Same(r, w)
  PROVE  /\ Same(w, x) => Same(r, x)
         /\ \A t : Grown(w, x, t) => Grown(r, x, t)
  BY DEF Same, Grown

LEMMA HelpersKeep ==
  ASSUME NEW r, {"bal", "open", "closed"} \subseteq DOMAIN r
  PROVE  /\ Same(r, r) /\ Same(r, EquityLog(r))
         /\ \A e : Same(r, DayRoll(r, e)) /\ Same(r, Sought(r, e))
         /\ \A why : Same(r, Refused(r, why))
         /\ \A P : Same(r, [r EXCEPT !.known = P])
         /\ \A t, key : Grown(r, Admit(r, t, key), t)
<1>1. Same(r, r) /\ Same(r, EquityLog(r))
  BY DEF EquityLog, Same
<1>2. \A e : Same(r, DayRoll(r, e))
  BY DEF DayRoll, Same
<1>3. \A e : Same(r, Sought(r, e))
  BY DEF Sought, Same
<1>4. \A why : Same(r, Refused(r, why))
  <2> SUFFICES ASSUME NEW why PROVE Same(r, Refused(r, why))
    OBVIOUS
  <2> DEFINE x == [r EXCEPT !.blocked = @ \cup ({why} \cap Remembered),
                            !.halted = @ \/ why = "total_dd"]
  <2>1. Same(r, x) /\ {"bal", "open", "closed"} \subseteq DOMAIN x
    BY DEF Same
  <2>2. Refused(r, why) = r \/ Refused(r, why) = EquityLog(x)
    BY DEF Refused
  <2> HIDE DEF x
  <2>3. Same(x, EquityLog(x))
    BY <2>1 DEF EquityLog, Same
  <2>4. Same(r, EquityLog(x))
    BY <2>1, <2>3, SameAgain
  <2>5. QED BY <1>1, <2>2, <2>4
<1>5. \A P : Same(r, [r EXCEPT !.known = P])
  BY DEF Same
<1>6. \A t, key : Grown(r, Admit(r, t, key), t)
  BY DEF Grown, Admit
<1>7. QED BY <1>1, <1>2, <1>3, <1>4, <1>5, <1>6

Derives(r, w) ==
  \A j \in DOMAIN w.open : \E i \in DOMAIN r.open : Meets(r.open[i], w.open[j])

LEMMA WalkKeeps ==
  ASSUME NEW v, NEW r, NEW k \in Int, Books(v, r, k), NEW e, NEW bar \in Candle, NEW exits,
         \A i \in DOMAIN r.open : Turns(v, r.open[i], exits[i])
  PROVE  LET w == WalkOver(r, e, bar, exits) IN
         Books(v, w, k) /\ DOMAIN w = DOMAIN r /\ Derives(r, w)
<1> DEFINE x == [r EXCEPT !.known = @ \cup {e.sym}]
           T == [i \in DOMAIN r.open |-> Touched(r.open[i], e, bar, exits[i])]
           X == {Touched(r.open[i], e, bar, exits[i]) : i \in DOMAIN r.open}
           w == WalkOver(r, e, bar, exits)
<1>1. w = Settled(x, T)
  BY DEF WalkOver
<1>2. Same(r, x)
  BY DEF Same, Books, Accounts
<1> HIDE DEF x, w
<1>3. T \in [DOMAIN r.open -> X]
  OBVIOUS
<1>4. ASSUME NEW i \in DOMAIN r.open PROVE Turns(v, r.open[i], T[i])
  <2>1. IsOpen(r.open[i]) /\ Fit(v, r.open[i])
    BY DEF Books
  <2>2. Turns(v, r.open[i], Touched(r.open[i], e, bar, exits[i]))
    BY <2>1, TouchedTurns
  <2>3. QED BY <2>2
<1> HIDE DEF T, X
<1>5. Accounts(x) /\ x.open = r.open /\ DOMAIN x = DOMAIN r
  BY <1>2 DEF Same, Books, Accounts
<1>6. /\ Books(v, w, k) /\ DOMAIN w = DOMAIN x
      /\ \A j \in DOMAIN w.open : \E i \in DOMAIN r.open :
           w.open[j] = T[i] /\ T[i].reason = "open" /\ Meets(r.open[i], w.open[j])
  BY <1>1, <1>3, <1>4, <1>5, TurnsKeep
<1>7. QED BY <1>5, <1>6 DEF Derives, w

\* After the walk of an event: nothing more, or one trade more.
LEMMA StepEnds ==
  ASSUME NEW v, NEW k \in Int, NEW r, NEW w, Books(v, w, k), Derives(r, w), NEW z,
         \/ Same(w, z)
         \/ \E t : Grown(w, z, t) /\ IsOpen(t) /\ Fit(v, t) /\ t.ev = k + 1
  PROVE  Books(v, z, k + 1) /\ Follows(r, z, k + 1)
<1>1. CASE Same(w, z)
  <2>1. Books(v, z, k)
    BY <1>1, SameKeeps
  <2>2. \A i \in DOMAIN z.open : z.open[i].ev \in Int
    BY <2>1 DEF Books, IsOpen, IsTrade
  <2>3. Books(v, z, k + 1)
    BY <2>1, <2>2 DEF Books
  <2>4. QED BY <1>1, <2>3 DEF Same, Derives, Follows
<1>2. ASSUME NEW t, Grown(w, z, t), IsOpen(t), Fit(v, t), t.ev = k + 1
      PROVE  Books(v, z, k + 1) /\ Follows(r, z, k + 1)
  <2> DEFINE o == w.open
             m == Len(o)
  <2>1. z.open = Append(o, t) /\ IsSeq(o) /\ Rising(o)
    BY <1>2 DEF Grown, Books
  <2>2. \A i \in DOMAIN o : IsOpen(o[i]) /\ Fit(v, o[i]) /\ o[i].ev <= k /\ o[i].ev \in Int
    BY DEF Books, IsOpen, IsTrade
  <2>3. \A i \in DOMAIN o : \E h \in DOMAIN r.open : Meets(r.open[h], o[i])
    BY DEF Derives
  <2> HIDE DEF o
  <2>4. /\ IsSeq(z.open) /\ m \in Nat /\ DOMAIN o = 1 .. m /\ DOMAIN z.open = 1 .. m + 1
        /\ z.open[m + 1] = t /\ \A i \in 1 .. m : z.open[i] = o[i]
    BY <2>1, AppendIs
  <2> HIDE DEF m
  <2>5. ASSUME NEW i \in DOMAIN z.open
        PROVE  IsOpen(z.open[i]) /\ Fit(v, z.open[i]) /\ z.open[i].ev <= k + 1
    <3>1. CASE i \in 1 .. m
      BY <2>2, <2>4, <3>1
    <3>2. CASE i = m + 1
      BY <1>2, <2>4, <3>2
    <3>3. QED BY <2>4, <3>1, <3>2
  <2>6. ASSUME NEW i \in DOMAIN z.open, NEW j \in DOMAIN z.open, i < j
        PROVE  z.open[i].ev < z.open[j].ev
    <3>1. i \in 1 .. m
      BY <2>4, <2>6
    <3>2. CASE j \in 1 .. m
      BY <2>1, <2>4, <2>6, <3>1, <3>2 DEF Rising
    <3>3. CASE j = m + 1
      BY <1>2, <2>2, <2>4, <3>1, <3>3
    <3>4. QED BY <2>4, <3>2, <3>3
  <2>7. Rising(z.open)
    BY <2>6 DEF Rising
  <2>8. Accounts(z)
    BY <1>2 DEF Grown, Books, Accounts
  <2>9. Follows(r, z, k + 1)
    <3>1. ASSUME NEW j \in DOMAIN z.open
          PROVE  z.open[j].ev = k + 1 \/ \E h \in DOMAIN r.open : Meets(r.open[h], z.open[j])
      <4>1. CASE j \in 1 .. m
        BY <2>3, <2>4, <4>1
      <4>2. CASE j = m + 1
        BY <1>2, <2>4, <4>2
      <4>3. QED BY <2>4, <4>1, <4>2
    <3>2. QED BY <3>1 DEF Follows
  <2>10. QED BY <2>4, <2>5, <2>7, <2>8, <2>9 DEF Books
<1>3. QED BY <1>1, <1>2

-----------------------------------------------------------------------------
(* The trades a signal becomes. *)

LEMMA SlippedIs ==
  ASSUME NEW sig \in Signals
  PROVE  /\ SlippedEntry(sig) \in Int /\ Risk(sig, SlippedEntry(sig)) \in Int
         /\ sig.dir \in {"BUY", "SELL"} /\ sig.sl \in Int /\ sig.tp \in Int
         /\ ExtractTp1(sig, SlippedEntry(sig)) \in Int
<1>1. sig.entry \in Int /\ sig.sl \in Int /\ sig.tp \in Int /\ sig.tp1 \in Int
      /\ sig.dir \in {"BUY", "SELL"}
  BY DEF Signals
<1>2. SlippedEntry(sig) \in Int
  BY <1>1 DEF SlippedEntry, MAX_SPREAD_PIPS
<1> DEFINE px == SlippedEntry(sig)
           risk == Risk(sig, px)
<1> HIDE DEF px
<1>3. risk \in Int
  BY <1>1, <1>2 DEF Risk, px
<1> HIDE DEF risk
<1>4. (3 * risk) \div 2 \in Int
  BY <1>3
<1>5. ExtractTp1(sig, px) \in Int
  <2>1. ExtractTp1(sig, px) =
          IF sig.tp1 # 0 THEN sig.tp1
          ELSE px + (IF sig.dir = "BUY" THEN 1 ELSE -1) * ((3 * risk) \div 2)
    BY DEF ExtractTp1, risk
  <2> DEFINE half == (3 * risk) \div 2
  <2>2. half \in Int /\ px \in Int
    BY <1>2, <1>4 DEF px
  <2> HIDE DEF half
  <2>3. QED BY <1>1, <2>1, <2>2 DEF half
<1>6. QED BY <1>1, <1>2, <1>3, <1>5 DEF px, risk

LEMMA LotIs ==
  ASSUME NEW r, r.bal \in Int, NEW e, NEW risk \in Int, risk > 0
  PROVE  Lot(r, e, risk) \in Int
<1> DEFINE pip  == PipValue(e.sym, r.known)
           unit == risk * pip
           usd  == (r.bal * RiskPct) \div 100
           lots == 2 * (usd \div unit)
<1>1. pip = 6 \/ pip = 10
  BY DEF PipValue
<1> HIDE DEF pip
<1>2. unit \in Int /\ unit > 0
  BY <1>1
<1>3. usd \in Int
  <2>1. r.bal * RiskPct \in Int
    BY DataAssumption
  <2>2. QED BY <2>1
<1> HIDE DEF unit, usd
<1>4. lots \in Int
  BY <1>2, <1>3
<1>5. Lot(r, e, risk) = Min({LOT_MAX, lots})
  BY DEF Lot, RoundLot, unit, usd, pip
<1> HIDE DEF lots
<1>6. LOT_MAX \in Int
  BY DEF LOT_MAX
<1>7. \E x \in {LOT_MAX, lots} : \A y \in {LOT_MAX, lots} : x <= y
  BY <1>4, <1>6
<1>8. Min({LOT_MAX, lots}) \in {LOT_MAX, lots}
  BY <1>7 DEF Min
<1>9. QED BY <1>4, <1>5, <1>6, <1>8

\* A trade without fills.
LEMMA FreshIs ==
  ASSUME NEW t, t.fills = <<>>
  PROVE  Lots(t) = 0 /\ Earned(t) = 0 /\ t.fills \in Seq(Int \X Int)
<1>1. DOMAIN t.fills = {}
  BY EmptySeq
<1>2. \A f : [i \in {} |-> f[i]] = <<>>
  OBVIOUS
<1>3. Lots(t) = SumOf(<<>>) /\ Earned(t) = SumOf(<<>>)
  BY <1>1 DEF Lots, Earned
<1>4. QED BY <1>3, NoSum

LEMMA NewIs ==
  ASSUME NEW r, r.bal \in Int, NEW e, e.n \in Int, NEW sig \in Signals,
         Risk(sig, SlippedEntry(sig)) >= MIN_RISK_PIPS
  PROVE  LET t == NewTrade(r, e, sig) IN
         IsOpen(t) /\ Rung(t) /\ t.ev = e.n /\ t.sym = e.sym
<1> DEFINE px  == SlippedEntry(sig)
           lot == Lot(r, e, Risk(sig, px))
           pv  == PipValue(e.sym, r.known)
           tp1 == ExtractTp1(sig, px)
           fee == 7 * (lot \div 2)
           t   == NewTrade(r, e, sig)
<1>1. /\ px \in Int /\ Risk(sig, px) \in Int /\ Risk(sig, px) >= 5 /\ tp1 \in Int
      /\ sig.dir \in {"BUY", "SELL"} /\ sig.sl \in Int /\ sig.tp \in Int
  BY SlippedIs DEF MIN_RISK_PIPS
<1>2. pv \in Int
  BY DEF PipValue
<1> HIDE DEF px
<1>3. lot \in Int
  BY <1>1, LotIs
<1> HIDE DEF lot
<1>4. fee \in Int
  BY <1>3
<1>5. /\ TradeFields \cup {"tp1", "tp1_hit"} \subseteq DOMAIN t
      /\ t.sym = e.sym /\ t.dir = sig.dir /\ t.entry = px /\ t.sl = sig.sl /\ t.tp1 = tp1
      /\ t.tp2 = sig.tp /\ t.risk = Risk(sig, px) /\ t.lot = lot /\ t.left = lot /\ t.pv = pv
      /\ t.ev = e.n /\ t.tp1_hit = FALSE /\ t.gross = 0 /\ t.fee = fee /\ t.fills = <<>>
      /\ t.reason = "open"
  BY DEF NewTrade, TradeFields, px, lot
<1> HIDE DEF t, pv, tp1, fee
<1>6. Lots(t) = 0 /\ Earned(t) = 0 /\ t.fills \in Seq(Int \X Int)
  BY <1>5, FreshIs
<1>7. IsTrade(t)
  BY <1>1, <1>2, <1>3, <1>4, <1>5, <1>6 DEF IsTrade
<1>8. IsOpen(t)
  BY <1>3, <1>5, <1>6, <1>7 DEF IsOpen
<1>9. Rung(t)
  <2>1. Sgn(t) * (t.entry - t.sl) > 0
    BY <1>1, <1>5 DEF Sgn, Risk
  <2>2. QED BY <1>1, <1>5, <2>1 DEF Rung
<1>10. QED BY <1>5, <1>8, <1>9 DEF t

\* The trade of the sweep: its target in R, and what its exits remember.
LEMMA SwIs ==
  ASSUME NEW r, r.bal \in Int, NEW e, e.n \in Int, e.k \in Int, NEW sig \in Signals,
         Risk(sig, SlippedEntry(sig)) >= MIN_RISK_PIPS, NEW v \in VARIANTS
  PROVE  LET t == SwTrade(r, e, sig, v) IN
         IsOpen(t) /\ Runs(t) /\ t.ev = e.n /\ t.sym = e.sym
<1> DEFINE b    == NewTrade(r, e, sig)
           aim  == InR(b, SetupTp[v])
           aims == [b EXCEPT !.tp2 = aim]
           more == [k |-> e.k, armed |-> FALSE, water |-> 0]
           t    == SwTrade(r, e, sig, v)
<1>1. IsOpen(b) /\ Rung(b) /\ b.ev = e.n /\ b.sym = e.sym
  BY NewIs
<1>2. aim \in Int
  <2>1. SetupTp[v] \in Int
    BY DEF SetupTp, VARIANTS
  <2>2. QED BY <1>1, <2>1, InRIs
<1>3. t = [f \in DOMAIN aims \cup DOMAIN more |-> IF f \in DOMAIN more THEN more[f] ELSE aims[f]]
  BY DEF SwTrade
<1>4. DOMAIN more = {"k", "armed", "water"} /\ more.k = e.k /\ more.armed = FALSE /\ more.water = 0
  OBVIOUS
<1> HIDE DEF b, more, aim
<1>5. DOMAIN aims = DOMAIN b /\ \A f \in DOMAIN b : aims[f] = IF f = "tp2" THEN aim ELSE b[f]
  OBVIOUS
<1> HIDE DEF aims, t
<1>6. /\ DOMAIN t = DOMAIN b \cup {"k", "armed", "water"} /\ t.k = e.k /\ t.armed = FALSE
      /\ t.water = 0
      /\ \A f \in DOMAIN b \ {"k", "armed", "water", "tp2"} : t[f] = b[f]
      /\ "tp2" \in DOMAIN b => t.tp2 = aim
  BY <1>3, <1>4, <1>5
<1>7. /\ t.sym = b.sym /\ t.dir = b.dir /\ t.entry = b.entry /\ t.sl = b.sl /\ t.tp2 = aim
      /\ t.risk = b.risk /\ t.lot = b.lot /\ t.left = b.left /\ t.pv = b.pv /\ t.ev = b.ev
      /\ t.gross = b.gross /\ t.fee = b.fee /\ t.fills = b.fills /\ t.reason = b.reason
      /\ t.tp1_hit = b.tp1_hit /\ TradeFields \subseteq DOMAIN t
      /\ {"tp1_hit", "k", "armed", "water"} \subseteq DOMAIN t
  BY <1>1, <1>6 DEF IsOpen, IsTrade, TradeFields, Rung
<1>8. Lots(t) = Lots(b) /\ Earned(t) = Earned(b)
  BY <1>7, SameFills
<1>9. IsOpen(t)
  BY <1>1, <1>2, <1>7, <1>8 DEF IsOpen, IsTrade
<1>10. Runs(t)
  <2>1. t.tp1_hit \in BOOLEAN /\ t.armed \in BOOLEAN
    BY <1>1, <1>6, <1>7 DEF Rung
  <2>2. t.k \in Int /\ t.water \in Int
    BY <1>6
  <2>3. QED BY <1>7, <2>1, <2>2 DEF Runs
<1>11. QED BY <1>1, <1>7, <1>9, <1>10 DEF t

-----------------------------------------------------------------------------
(* The steps of the scripts that walk several pairs. *)

LEMMA GrownSame ==
  ASSUME NEW w, NEW x, NEW z, NEW t, Grown(w, x, t), Same(x, z) PROVE Grown(w, z, t)
  BY DEF Grown, Same

Goes(v, w, z, k) ==
  \/ Same(w, z)
  \/ \E t : Grown(w, z, t) /\ IsOpen(t) /\ Fit(v, t) /\ t.ev = k + 1

\* Whatever was admitted to h, that holds the books of w.
LEMMA AdmitGoes ==
  ASSUME NEW v, NEW k, NEW w, {"bal", "open", "closed"} \subseteq DOMAIN w, NEW h, Same(w, h),
         NEW t, IsOpen(t), Fit(v, t), t.ev = k + 1, NEW key
  PROVE  Goes(v, w, EquityLog(Admit(h, t, key)), k)
<1> DEFINE x == Admit(h, t, key)
           z == EquityLog(x)
<1>1. {"bal", "open", "closed"} \subseteq DOMAIN h
  BY DEF Same
<1>2. Grown(h, x, t)
  BY <1>1, HelpersKeep
<1> HIDE DEF x, z
<1>3. {"bal", "open", "closed"} \subseteq DOMAIN x
  BY <1>1, <1>2 DEF Grown
<1>4. Same(x, z)
  BY <1>3, HelpersKeep DEF z
<1>5. Grown(w, x, t)
  BY <1>2, SameAgain
<1>6. Grown(w, z, t)
  BY <1>4, <1>5, GrownSame
<1>7. QED BY <1>6 DEF Goes, z, x

LEMMA RefusedGoes ==
  ASSUME NEW v, NEW k, NEW w, {"bal", "open", "closed"} \subseteq DOMAIN w, NEW h, Same(w, h)
  PROVE  /\ Goes(v, w, h, k) /\ Goes(v, w, EquityLog(h), k)
         /\ \A why : Goes(v, w, Refused(h, why), k)
<1>1. {"bal", "open", "closed"} \subseteq DOMAIN h
  BY DEF Same
<1>2. Same(h, EquityLog(h)) /\ \A why : Same(h, Refused(h, why))
  BY <1>1, HelpersKeep
<1>3. QED BY <1>2, SameAgain DEF Goes

LEMMA EnteredGoes ==
  ASSUME NEW v \in {"multi", "silver", "flip"}, NEW k \in Int, NEW w, Accounts(w),
         NEW h, Same(w, h), NEW e, e.n = k + 1, e.sym \in DOMAIN StoredHtf,
         NEW bar, NEW sig \in Signals, NEW key
  PROVE  Goes(v, w, Entered(h, e, bar, sig, key), k)
<1> DEFINE why == Refusal(h, e, bar, sig)
           t == NewTrade(h, e, sig)
           z == Entered(h, e, bar, sig, key)
<1>0. {"bal", "open", "closed"} \subseteq DOMAIN w /\ h.bal \in Int
  BY DEF Accounts, Same
<1>1. CASE why = "none"
  <2>1. z = EquityLog(Admit(h, t, key))
    BY <1>1 DEF Entered
  <2>2. Risk(sig, SlippedEntry(sig)) >= MIN_RISK_PIPS
    <3>1. ~(Risk(sig, SlippedEntry(sig)) < MIN_RISK_PIPS)
      BY <1>1 DEF Refusal
    <3>2. QED BY <3>1, SlippedIs DEF MIN_RISK_PIPS
  <2>3. IsOpen(t) /\ Rung(t) /\ t.ev = e.n /\ t.sym = e.sym
    BY <1>0, <2>2, NewIs
  <2> HIDE DEF t, z
  <2>4. Fit(v, t)
    BY <2>3 DEF Fit, VARIANTS
  <2>5. QED BY <1>0, <2>1, <2>3, <2>4, AdmitGoes DEF z
<1>2. CASE why # "none"
  <2>1. z = Refused(h, why)
    BY <1>2 DEF Entered
  <2>2. QED BY <1>0, <2>1, RefusedGoes
<1>3. QED BY <1>1, <1>2

\* An event of a script with the ladder.
LadderEnd(w, e, bar, sig, z) ==
  \/ \E why : z = Refused(DayRoll(w, e), why)
  \/ z = EquityLog(Sought(DayRoll(w, e), e))
  \/ \E key : z = Entered(Sought(DayRoll(w, e), e), e, bar, sig, key)

LEMMA LadderSteps ==
  ASSUME NEW v \in {"multi", "silver", "flip"}, NEW k \in Int, NEW r, Books(v, r, k),
         NEW e, e.n = k + 1, e.sym \in DOMAIN StoredHtf, NEW bar \in Candle, NEW sig \in Signals,
         NEW z, LadderEnd(Walk(r, e, bar), e, bar, sig, z)
  PROVE  Books(v, z, k + 1) /\ Follows(r, z, k + 1)
<1> DEFINE exits == [i \in DOMAIN r.open |-> UpdateOpenTrade(r.open[i], bar, e.n)]
           w == Walk(r, e, bar)
           d == DayRoll(w, e)
           h == Sought(d, e)
<1>1. ASSUME NEW i \in DOMAIN r.open PROVE Turns(v, r.open[i], exits[i])
  <2> DEFINE t == r.open[i]
             u == UpdateOpenTrade(t, bar, e.n)
  <2>1. IsOpen(t) /\ Rung(t) /\ Fit(v, t)
    BY DEF Books, Fit
  <2> HIDE DEF t
  <2>2. Meets(t, u) /\ (u.reason = "open" => Rung(u))
    BY <2>1, UpdateMeets
  <2> HIDE DEF u
  <2>3. u.sym = t.sym
    BY <2>2 DEF Meets, Alike
  <2>4. Turns(v, t, u)
    BY <2>1, <2>2, <2>3 DEF Turns, Fit, VARIANTS
  <2>5. QED BY <2>4 DEF t, u
<1>2. w = WalkOver(r, e, bar, exits)
  BY DEF Walk
<1> HIDE DEF exits, w, d, h
<1>3. Books(v, w, k) /\ Derives(r, w)
  BY <1>1, <1>2, WalkKeeps
<1>4. Accounts(w) /\ {"bal", "open", "closed"} \subseteq DOMAIN w
  BY <1>3 DEF Books, Accounts
<1>5. Same(w, d)
  BY <1>4, HelpersKeep DEF d
<1>6. Same(w, h)
  <2>1. {"bal", "open", "closed"} \subseteq DOMAIN d
    BY <1>4, <1>5 DEF Same
  <2>2. Same(d, h)
    BY <2>1, HelpersKeep DEF h
  <2>3. QED BY <1>5, <2>2, SameAgain
<1>7. /\ \A why : Goes(v, w, Refused(d, why), k)
      /\ Goes(v, w, EquityLog(h), k)
      /\ \A key : Goes(v, w, Entered(h, e, bar, sig, key), k)
  BY <1>4, <1>5, <1>6, RefusedGoes, EnteredGoes
<1>8. \/ \E why : z = Refused(d, why)
      \/ z = EquityLog(h)
      \/ \E key : z = Entered(h, e, bar, sig, key)
  BY DEF LadderEnd, w, d, h
<1>9. Goes(v, w, z, k)
  BY <1>7, <1>8
<1>10. QED BY <1>3, <1>9, StepEnds DEF Goes

LEMMA MsEnds ==
  ASSUME NEW r, NEW e, NEW bar, NEW in
  PROVE  LadderEnd(Walk(r, e, bar), e, bar, in.sig, MsStep(r, e, bar, in))
  BY DEF MsStep, LadderEnd

LEMMA CopiesWalk ==
  ASSUME NEW r, NEW e, NEW bar
  PROVE  SbWalk(r, e, bar) = Walk(r, e, bar) /\ SfWalk(r, e, bar) = Walk(r, e, bar)
  BY CopiesUpdate DEF SbWalk, SfWalk, Walk

LEMMA SbEnds ==
  ASSUME NEW r, NEW e, NEW bar, NEW in
  PROVE  LadderEnd(Walk(r, e, bar), e, bar, in.sig, SbStep(r, e, bar, in))
  BY CopiesWalk DEF SbStep, LadderEnd

LEMMA SfEnds ==
  ASSUME NEW r, NEW e, NEW bar, NEW in
  PROVE  LadderEnd(Walk(r, e, bar), e, bar, in.sig, SfStep(r, e, bar, in))
  BY CopiesWalk DEF SfStep, LadderEnd

LEMMA SwEnteredGoes ==
  ASSUME NEW v \in VARIANTS, NEW k \in Int, NEW w, Accounts(w), NEW h, Same(w, h),
         NEW e, e.n = k + 1, e.k \in Int, e.sym \in DOMAIN StoredHtf,
         NEW bar, NEW sig \in Signals
  PROVE  Goes(v, w, SwEntered(h, e, bar, sig, v), k)
<1> DEFINE why == IF SwCaps(h, e) # "pass" THEN SwCaps(h, e) ELSE SwRefusal(h, e, bar, sig)
           t == SwTrade(h, e, sig, v)
           z == SwEntered(h, e, bar, sig, v)
<1>0. {"bal", "open", "closed"} \subseteq DOMAIN w /\ h.bal \in Int
  BY DEF Accounts, Same
<1>1. CASE why = "none"
  <2>1. z = EquityLog(Admit(h, t, SfKey(e)))
    BY <1>1 DEF SwEntered
  <2>2. Risk(sig, SlippedEntry(sig)) >= MIN_RISK_PIPS
    <3>1. SwRefusal(h, e, bar, sig) = "none"
      BY <1>1 DEF SwCaps
    <3>2. ~(Risk(sig, SlippedEntry(sig)) < MIN_RISK_PIPS)
      BY <3>1 DEF SwRefusal
    <3>3. QED BY <3>2, SlippedIs DEF MIN_RISK_PIPS
  <2>3. IsOpen(t) /\ Runs(t) /\ t.ev = e.n /\ t.sym = e.sym
    BY <1>0, <2>2, SwIs
  <2> HIDE DEF t, z
  <2>4. Fit(v, t)
    BY <2>3 DEF Fit, VARIANTS
  <2>5. QED BY <1>0, <2>1, <2>3, <2>4, AdmitGoes DEF z
<1>2. CASE why # "none"
  <2>1. z = Refused(h, why)
    BY <1>2 DEF SwEntered
  <2>2. QED BY <1>0, <2>1, RefusedGoes
<1>3. QED BY <1>1, <1>2

LEMMA SwSteps ==
  ASSUME NEW v \in VARIANTS, NEW k \in Int, NEW r, Books(v, r, k),
         NEW e, e.n = k + 1, e.k \in Int, e.sym \in DOMAIN StoredHtf, NEW bar \in Candle,
         NEW in, in.sig \in Signals, NEW past \in Seq(Candle), NEW dd
  PROVE  LET z == SwStep(r, e, bar, in, past, v, dd) IN
         Books(v, z, k + 1) /\ Follows(r, z, k + 1)
<1> DEFINE exits == [i \in DOMAIN r.open |-> ExitOf(v, r.open[i], bar, past, e.n)]
           w == SwWalk(r, e, bar, past, v)
           d == DayRoll(w, e)
           z == SwStep(r, e, bar, in, past, v, dd)
<1>1. ASSUME NEW i \in DOMAIN r.open PROVE Turns(v, r.open[i], exits[i])
  <2> DEFINE t == r.open[i]
             u == ExitOf(v, t, bar, past, e.n)
  <2>1. IsOpen(t) /\ Runs(t) /\ Fit(v, t)
    BY DEF Books, Fit
  <2> HIDE DEF t
  <2>2. Meets(t, u) /\ (u.reason = "open" => Runs(u))
    BY <2>1, ExitMeets DEF Ends
  <2> HIDE DEF u
  <2>3. u.sym = t.sym
    BY <2>2 DEF Meets, Alike
  <2>4. Turns(v, t, u)
    BY <2>1, <2>2, <2>3 DEF Turns, Fit, VARIANTS
  <2>5. QED BY <2>4 DEF t, u
<1>2. w = WalkOver(r, e, bar, exits)
  BY DEF SwWalk
<1>3. (\E why : z = Refused(d, why)) \/ z = EquityLog(d) \/ z = SwEntered(d, e, bar, in.sig, v)
  BY DEF SwStep
<1> HIDE DEF exits, w, d, z
<1>4. Books(v, w, k) /\ Derives(r, w)
  BY <1>1, <1>2, WalkKeeps
<1>5. Accounts(w) /\ {"bal", "open", "closed"} \subseteq DOMAIN w
  BY <1>4 DEF Books, Accounts
<1>6. Same(w, d)
  BY <1>5, HelpersKeep DEF d
<1>7. Goes(v, w, z, k)
  BY <1>3, <1>5, <1>6, RefusedGoes, SwEnteredGoes
<1>8. Books(v, z, k + 1) /\ Follows(r, z, k + 1)
  BY <1>4, <1>7, StepEnds DEF Goes
<1>9. QED BY <1>8 DEF z

\* After the last event everything that is open is closed.
LEMMA FinishKeeps ==
  ASSUME NEW v, v # "gold", NEW k \in Int, NEW r, Books(v, r, k), NEW last, NEW m,
         \A x \in DOMAIN StoredHtf : last[x].c \in Int
  PROVE  LET w == MsFinish(r, last, m) IN Books(v, w, k) /\ w.open = <<>>
<1> DEFINE T == [i \in DOMAIN r.open |->
                   ForceClose(r.open[i], last[r.open[i].sym], "END_OF_DATA", m)]
           X == {ForceClose(r.open[i], last[r.open[i].sym], "END_OF_DATA", m) : i \in DOMAIN r.open}
           w == MsFinish(r, last, m)
           x == Settled(r, T)
<1>1. CASE r.open = <<>>
  <2>1. w = r
    BY <1>1 DEF MsFinish
  <2>2. QED BY <1>1, <2>1
<1>2. CASE r.open # <<>>
  <2>1. w = EquityLog(x)
    BY <1>2 DEF MsFinish
  <2>2. T \in [DOMAIN r.open -> X]
    OBVIOUS
  <2>3. ASSUME NEW i \in DOMAIN r.open
        PROVE  Turns(v, r.open[i], T[i]) /\ T[i].reason # "open"
    <3> DEFINE t == r.open[i]
               b == last[t.sym]
               u == ForceClose(t, b, "END_OF_DATA", m)
    <3>1. IsOpen(t) /\ t.sym \in DOMAIN StoredHtf
      BY DEF Books, Fit
    <3> HIDE DEF t
    <3>2. b.c \in Int
      BY <3>1
    <3> HIDE DEF b
    <3>3. Meets(t, u) /\ u.reason # "open"
      BY <3>1, <3>2, ForceMeets
    <3> HIDE DEF u
    <3>4. Turns(v, t, u) /\ u.reason # "open"
      BY <3>3 DEF Turns
    <3>5. QED BY <3>4 DEF t, u, b
  <2> HIDE DEF T, X, w, x
  <2>4. /\ Books(v, x, k)
        /\ \A j \in DOMAIN x.open : \E i \in DOMAIN r.open :
             x.open[j] = T[i] /\ T[i].reason = "open" /\ Meets(r.open[i], x.open[j])
    <3>1. Accounts(r) /\ \A i \in DOMAIN r.open : Turns(v, r.open[i], T[i])
      BY <2>3 DEF Books
    <3>2. QED BY <2>2, <3>1, TurnsKeep DEF x
  <2>5. DOMAIN x.open = {}
    BY <2>3, <2>4
  <2>6. x.open = <<>>
    <3>1. IsSeq(x.open)
      BY <2>4 DEF Books
    <3> DEFINE o == x.open
    <3> HIDE DEF o
    <3>2. o \in Seq(Members(o)) /\ DOMAIN o = {} => o = <<>>
      BY EmptySeq, LenProperties
    <3>3. QED BY <2>5, <3>1, <3>2 DEF IsSeq, o
  <2>7. Same(x, w)
    BY <2>1, <2>4, HelpersKeep DEF Books, Accounts
  <2>8. Books(v, w, k) /\ w.open = <<>>
    BY <2>4, <2>6, <2>7, SameKeeps DEF Same
  <2>9. QED BY <2>8 DEF w
<1>3. QED BY <1>1, <1>2

-----------------------------------------------------------------------------
(* The gold script: what its data layer and its detector hand on. *)

LEMMA SeenIs ==
  \A b, dir : b \in GoldBar \/ b \in Frames =>
    LET x == Seen(b, dir) IN x.o \in Int /\ x.h \in Int /\ x.l \in Int /\ x.c \in Int
<1> SUFFICES ASSUME NEW b, NEW dir, b \in GoldBar \/ b \in Frames
             PROVE  LET x == Seen(b, dir)
                    IN  x.o \in Int /\ x.h \in Int /\ x.l \in Int /\ x.c \in Int
  OBVIOUS
<1>1. /\ b.o \in Int /\ b.h \in Int /\ b.l \in Int /\ b.c \in Int
      /\ {"o", "h", "l", "c"} \subseteq DOMAIN b
  BY DEF GoldBar, Frames
<1> DEFINE up == [b EXCEPT !.o = -b.o, !.h = -b.l, !.l = -b.h, !.c = -b.c]
<1>2. up.o \in Int /\ up.h \in Int /\ up.l \in Int /\ up.c \in Int
  BY <1>1
<1>3. Seen(b, dir) = b \/ Seen(b, dir) = up
  BY DEF Seen
<1> HIDE DEF up
<1>4. QED BY <1>1, <1>2, <1>3

LEMMA TwoEnds ==
  ASSUME NEW a \in Int, NEW b \in Int
  PROVE  Max({a, b}) \in Int /\ Min({a, b}) \in Int
         /\ Max({a, b}) >= a /\ Max({a, b}) >= b
<1>1. (\E x \in {a, b} : \A y \in {a, b} : x >= y) /\ (\E x \in {a, b} : \A y \in {a, b} : x <= y)
  OBVIOUS
<1>2. Max({a, b}) \in {a, b} /\ \A y \in {a, b} : Max({a, b}) >= y
  BY <1>1 DEF Max
<1>3. Min({a, b}) \in {a, b}
  BY <1>1 DEF Min
<1>4. QED BY <1>2, <1>3

LEMMA MergingIs == \A seq : FoldLeft(Merged, <<>>, seq) = Merging!Fold(<<>>, seq)
  BY DEF FoldLeft, MapThenFoldSet, Max, Merging!Fold, Merging!FoldLeft,
         Merging!MapThenFoldSet, Merging!Max

LEMMA PlacingIs == \A b, seq : FoldLeft(Placed, b, seq) = Placing!Fold(b, seq)
  BY DEF FoldLeft, MapThenFoldSet, Max, Placing!Fold, Placing!FoldLeft,
         Placing!MapThenFoldSet, Placing!Max

LEMMA MergedIs ==
  ASSUME NEW bars \in Seq(Frames), NEW b \in Frames
  PROVE  Merged(bars, b) \in Seq(Frames)
<1> DEFINE k == Len(bars)
<1>1. CASE bars # <<>> /\ bars[k].t = b.t
  <2>1. k \in 1 .. Len(bars) /\ bars[k] \in Frames
    BY <1>1, EmptySeq, LenProperties
  <2>2. bars[k].h \in Int /\ bars[k].l \in Int /\ b.h \in Int /\ b.l \in Int /\ b.c \in Int
    BY <2>1 DEF Frames
  <2>3. Max({bars[k].h, b.h}) \in Int /\ Min({bars[k].l, b.l}) \in Int
    BY <2>2, TwoEnds
  <2> DEFINE hi == Max({bars[k].h, b.h})
             lo == Min({bars[k].l, b.l})
             out == [bars EXCEPT ![k].c = b.c, ![k].h = Max({@, b.h}), ![k].l = Min({@, b.l})]
             one == [bars[k] EXCEPT !.c = b.c, !.h = hi, !.l = lo]
  <2> HIDE DEF hi, lo
  <2>4. one \in Frames
    BY <2>1, <2>2, <2>3 DEF Frames, hi, lo
  <2>5. out = [bars EXCEPT ![k] = one]
    BY <2>1 DEF hi, lo
  <2>6. Merged(bars, b) = out
    BY <1>1 DEF Merged
  <2> HIDE DEF one, out
  <2>7. QED BY <2>1, <2>4, <2>5, <2>6
<1>2. CASE ~(bars # <<>> /\ bars[k].t = b.t)
  <2>1. Merged(bars, b) = Append(bars, b)
    BY <1>2 DEF Merged
  <2>2. QED BY <2>1
<1>3. QED BY <1>1, <1>2

LEMMA FirstOf ==
  ASSUME NEW D, NEW bars \in Seq(D), NEW T \in SUBSET DOMAIN bars
  PROVE  /\ Cardinality(T) \in 0 .. Len(bars)
         /\ SubSeq(bars, 1, Cardinality(T)) \in Seq(D)
         /\ SubSeq(bars, Cardinality(T) + 1, Len(bars)) \in Seq(D)
<1> DEFINE m == Len(bars)
           k == Cardinality(T)
<1>1. m \in Nat /\ DOMAIN bars = 1 .. m
  BY LenProperties
<1>2. IsFiniteSet(1 .. m) /\ Cardinality(1 .. m) = m
  <2>1. IsFiniteSet(1 .. m) /\ Cardinality(1 .. m) = IF 1 > m THEN 0 ELSE m - 1 + 1
    BY <1>1, FS_Interval
  <2>2. QED BY <1>1, <2>1
<1>3. k \in Nat /\ k <= m
  BY <1>1, <1>2, FS_Subset, FS_CardinalityType
<1> HIDE DEF k
<1>4. \A i \in 1 .. m : bars[i] \in D
  BY <1>1, ElementOfSeq
<1> HIDE DEF m
<1>5. SubSeq(bars, 1, k) \in Seq(D)
  BY <1>3, <1>4, <1>1
<1>6. SubSeq(bars, k + 1, m) \in Seq(D)
  BY <1>3, <1>4, <1>1
<1>7. QED BY <1>3, <1>5, <1>6 DEF m, k

LEMMA PlacedIs ==
  ASSUME NEW bars \in Seq(Frames), NEW b \in Frames
  PROVE  Placed(bars, b) \in Seq(Frames)
<1> DEFINE T == {i \in DOMAIN bars : bars[i].t < b.t}
           x == SubSeq(bars, 1, Cardinality(T))
           y == SubSeq(bars, Cardinality(T) + 1, Len(bars))
<1>1. x \in Seq(Frames) /\ y \in Seq(Frames)
  BY FirstOf
<1>2. Placed(bars, b) = x \o <<b>> \o y
  BY DEF Placed
<1> HIDE DEF x, y
<1>3. <<b>> \in Seq(Frames)
  OBVIOUS
<1>4. QED BY <1>1, <1>2, <1>3, ConcatProperties

LEMMA StretchedIs ==
  ASSUME NEW b \in GoldBar, NEW len \in {5, 15} PROVE Stretched(b, len) \in Frames
<1>1. b.t \in Int /\ b.o \in Int /\ b.h \in Int /\ b.l \in Int /\ b.c \in Int
  BY DEF GoldBar
<1>2. (b.t \div len) * len \in Int /\ ((b.t \div len) + 1) * len \in Int
  BY <1>1
<1>3. QED BY <1>1, <1>2 DEF Stretched, Frames

LEMMA FrameIs ==
  ASSUME NEW stored \in Seq(Frames), NEW v1 \in Seq(GoldBar), NEW len \in {5, 15}
  PROVE  Frame(stored, v1, len) \in Seq(Frames)
<1> DEFINE q == [i \in DOMAIN v1 |-> Stretched(v1[i], len)]
           x == FoldLeft(Merged, <<>>, q)
           S == Seq(Frames)
<1>1. q \in Seq(Frames)
  <2>1. Len(v1) \in Nat /\ DOMAIN v1 = 1 .. Len(v1) /\ \A i \in 1 .. Len(v1) : v1[i] \in GoldBar
    BY LenProperties, ElementOfSeq
  <2>2. \A i \in 1 .. Len(v1) : Stretched(v1[i], len) \in Frames
    BY <2>1, StretchedIs
  <2>3. QED BY <2>1, <2>2
<1> HIDE DEF q
<1>2. x \in S
  <2>1. <<>> \in S /\ \A y \in S, b \in Frames : Merged(y, b) \in S
    BY MergedIs
  <2> DEFINE none == <<>>
  <2>2. none \in S
    BY <2>1
  <2> HIDE DEF S, none
  <2>3. Merging!Fold(none, q) \in S
    BY <1>1, <2>1, <2>2, Merging!FoldIn
  <2>4. QED BY <2>3, MergingIs DEF none
<1> HIDE DEF x
<1>3. FoldLeft(Placed, stored, x) \in S
  <2>1. stored \in S /\ \A y \in S, b \in Frames : Placed(y, b) \in S
    BY PlacedIs
  <2>2. x \in Seq(Frames)
    BY <1>2
  <2> HIDE DEF S
  <2>3. Placing!Fold(stored, x) \in S
    BY <2>1, <2>2, Placing!FoldIn
  <2>4. QED BY <2>3, PlacingIs
<1>4. Frame(stored, v1, len) = FoldLeft(Placed, stored, x)
  BY DEF Frame, x, q
<1>5. QED BY <1>3, <1>4

\* The levels of a signal are whole numbers.
Sound(g) == g.dir \in {"BUY", "SELL"} /\ g.sl \in Int /\ g.tp \in Int

LEMMA OppositeIs ==
  ASSUME NEW entry \in Int, NEW dir, NEW v15 \in Seq(Frames), NEW t,
         tp_mode_b(entry, dir, v15, t) # {}
  PROVE  Min(tp_mode_b(entry, dir, v15, t)) \in Int
<1> DEFINE other == IF dir = "low" THEN "high" ELSE "low"
           m == Len(v15)
           A == {j \in Searched(v15, t) : IsSwing(v15, j, other)}
           far(i) == -Seen(v15[i], other).l
           T == {i \in A : entry < far(i) - OPPOSING_BUFFER /\ far(i) - entry <= OPPOSING_MAX_DISTANCE}
           V == tp_mode_b(entry, dir, v15, t)
           g == [i \in T |-> far(i) - OPPOSING_BUFFER]
<1>1. m \in Nat
  BY LenProperties
<1>2. A \subseteq 1 .. m
  <2> DEFINE lo == Max({3, m - 79})
             a == 3
             b == m - 79
  <2>1. lo \in Int /\ lo >= 3
    <3>1. a \in Int /\ b \in Int /\ a = 3
      BY <1>1
    <3> HIDE DEF a, b
    <3>2. Max({a, b}) \in Int /\ Max({a, b}) >= 3
      BY <3>1, TwoEnds
    <3>3. QED BY <3>2 DEF a, b
  <2>2. Searched(v15, t) \subseteq lo .. m - 2
    BY DEF Searched
  <2> HIDE DEF lo
  <2>3. lo .. m - 2 \subseteq 1 .. m
    BY <1>1, <2>1
  <2>4. QED BY <2>2, <2>3
<1>3. \A i \in A : far(i) \in Int
  <2>1. \A i \in A : v15[i] \in Frames
    BY <1>2, ElementOfSeq
  <2> HIDE DEF A
  <2>2. \A i \in A : Seen(v15[i], other).l \in Int
    BY <2>1, SeenIs
  <2>3. QED BY <2>2
<1>4. V = {far(i) - OPPOSING_BUFFER : i \in T}
  BY DEF tp_mode_b
<1> HIDE DEF A, far, V, m
<1>5. T \in SUBSET (1 .. m) /\ g \in [T -> Int]
  <2>1. T \subseteq A
    OBVIOUS
  <2> HIDE DEF T
  <2>2. \A i \in T : far(i) - OPPOSING_BUFFER \in Int
    BY <1>3, <2>1 DEF OPPOSING_BUFFER
  <2>3. g \in [T -> Int]
    BY <2>2
  <2>4. QED BY <1>2, <2>1, <2>3
<1>6. V = {g[i] : i \in T}
  <2>1. \A i \in T : g[i] = far(i) - OPPOSING_BUFFER
    OBVIOUS
  <2> HIDE DEF g, T
  <2>2. {g[i] : i \in T} = {far(i) - OPPOSING_BUFFER : i \in T}
    BY <2>1
  <2>3. QED BY <1>4, <2>2
<1>7. V # {}
  BY DEF V
<1> HIDE DEF g, T
<1>8. T # {}
  BY <1>6, <1>7
<1>9. Max(V) \in V /\ Min(V) \in V /\ V \subseteq Int
  BY <1>1, <1>5, <1>6, <1>8, EndsAreIn
<1>10. QED BY <1>9 DEF V

LEMMA TargetIs ==
  ASSUME NEW entry \in Int, NEW risk \in Int, NEW B, B # {} => Min(B) \in Int
  PROVE  tp_mode_c(entry, risk, B) \in Int
<1>1. tp_mode_a(entry, risk) \in Int
  <2>1. (3 * risk) \div 2 \in Int
    OBVIOUS
  <2>2. QED BY <2>1 DEF tp_mode_a
<1>2. CASE B = {} \/ Min(B) - entry < risk
  BY <1>1, <1>2 DEF tp_mode_c
<1>3. CASE ~(B = {} \/ Min(B) - entry < risk)
  <2>1. tp_mode_c(entry, risk, B) = Min({Min(B), entry + 3 * risk})
    BY <1>3 DEF tp_mode_c
  <2> DEFINE near == Min(B)
             cap  == entry + 3 * risk
  <2>2. near \in Int /\ cap \in Int
    BY <1>3
  <2> HIDE DEF near, cap
  <2>3. Min({near, cap}) \in Int
    BY <2>2, TwoEnds
  <2>4. QED BY <2>1, <2>3 DEF near, cap
<1>4. QED BY <1>2, <1>3

LEMMA SideIs == \A dir : Side(dir) \in {1, -1}
  BY DEF Side

LEMMA FinalIs ==
  ASSUME NEW v1 \in Seq(GoldBar), NEW v15 \in Seq(Frames), NEW L, NEW i \in 1 .. Len(v1), NEW t
  PROVE  \A g \in finalise_signal(v1, v15, L, i, t) : Sound(g)
<1> DEFINE entry == Seen(Last(v1), L.dir).c
           stop  == Seen(v1[i], L.dir).l - GOLD_SL_BUFFER
           B     == tp_mode_b(entry, L.dir, v15, t)
           tp    == tp_mode_c(entry, entry - stop, B)
           depth == Price(L) - Seen(v1[i], L.dir).l
           sig   == [dir |-> IF L.dir = "low" THEN "BUY" ELSE "SELL",
                     sl |-> Side(L.dir) * stop, tp |-> Side(L.dir) * tp,
                     grade |-> IF GradeA(v1, L, depth) THEN "A" ELSE "B",
                     level |-> L, depth |-> depth, at |-> t]
<1>1. v1[i] \in GoldBar /\ v1[Len(v1)] \in GoldBar
  BY LenProperties, ElementOfSeq
<1>2. entry \in Int /\ Seen(v1[i], L.dir).l \in Int
  BY <1>1, SeenIs DEF Last
<1>3. stop \in Int
  BY <1>2 DEF GOLD_SL_BUFFER
<1> HIDE DEF entry, stop
<1>4. B # {} => Min(B) \in Int
  BY <1>2, OppositeIs
<1> HIDE DEF B
<1>5. tp \in Int
  <2> DEFINE risk == entry - stop
  <2>1. risk \in Int
    BY <1>2, <1>3
  <2> HIDE DEF risk
  <2>2. tp_mode_c(entry, risk, B) \in Int
    BY <1>2, <1>4, <2>1, TargetIs
  <2>3. QED BY <2>2 DEF risk
<1> HIDE DEF tp
<1>6. Side(L.dir) * stop \in Int /\ Side(L.dir) * tp \in Int
  BY <1>3, <1>5, SideIs
<1>7. Sound(sig)
  BY <1>6 DEF Sound
<1>8. finalise_signal(v1, v15, L, i, t) \subseteq {sig}
  BY DEF finalise_signal, entry, stop, B, tp
<1> HIDE DEF sig
<1>9. QED BY <1>7, <1>8

LEMMA TriggerIs ==
  ASSUME NEW v1 \in Seq(GoldBar), NEW v5, NEW v15 \in Seq(Frames), NEW L, NEW t
  PROVE  \A g \in try_trigger(t, v1, v5, v15, L) : Sound(g)
<1> DEFINE T == Sweeps(v1, L, PenMax(v5), "match")
           m == Len(v1)
<1>1. CASE T = {}
  BY <1>1 DEF try_trigger
<1>2. CASE T # {}
  <2>1. try_trigger(t, v1, v5, v15, L) = finalise_signal(v1, v15, L, Max(T), t)
    BY <1>2 DEF try_trigger
  <2>2. m \in Nat
    BY LenProperties
  <2>3. T \in SUBSET (1 .. m)
    <3> DEFINE lo == Max({1, m - REVERSAL_MAX_WAIT_BARS})
    <3>1. lo \in Int /\ lo >= 1
      <4> DEFINE b == m - REVERSAL_MAX_WAIT_BARS
      <4>1. b \in Int
        BY <2>2 DEF REVERSAL_MAX_WAIT_BARS
      <4> DEFINE a == 1
      <4>2. a \in Int
        OBVIOUS
      <4> HIDE DEF a, b
      <4>3. Max({a, b}) \in Int /\ Max({a, b}) >= a
        BY <4>1, <4>2, TwoEnds
      <4>4. QED BY <4>3 DEF a, b
    <3>2. T \subseteq lo .. m
      BY DEF Sweeps
    <3> HIDE DEF lo, T, m
    <3>3. lo .. m \subseteq 1 .. m
      BY <2>2, <3>1
    <3>4. QED BY <3>2, <3>3
  <2> HIDE DEF T, m
  <2>4. Max(T) \in T
    <3> DEFINE g == [i \in T |-> i]
    <3>1. g \in [T -> Int] /\ T = {g[i] : i \in T}
      BY <2>2, <2>3
    <3> HIDE DEF g
    <3>2. QED BY <1>2, <2>2, <2>3, <3>1, EndsAreIn
  <2>5. Max(T) \in 1 .. m
    BY <2>3, <2>4
  <2>6. QED BY <2>1, <2>5, FinalIs DEF m
<1>3. QED BY <1>1, <1>2

LEMMA DetectIs ==
  ASSUME NEW det, NEW t, NEW v1 \in Seq(GoldBar), NEW v5, NEW v15 \in Seq(Frames)
  PROVE  \A g \in gold_detect(det, t, v1, v5, v15).sigs : Sound(g)
<1> SUFFICES ASSUME NEW g \in gold_detect(det, t, v1, v5, v15).sigs PROVE Sound(g)
  OBVIOUS
<1>1. \E L : g \in try_trigger(t, v1, v5, v15, L)
  BY DEF gold_detect
<1>2. QED BY <1>1, TriggerIs

-----------------------------------------------------------------------------
(* The steps of the gold script. *)

\* Its books, the balances it sampled and the signals it waits to fill.
GoldKept(r) ==
  /\ {"curve", "pending"} \subseteq DOMAIN r
  /\ r.curve \in Seq(Int) /\ (r.curve = <<>> => r.pending = {})
  /\ \A g \in r.pending : Sound(g)

SameGold(r, w) ==
  w.curve = r.curve /\ w.pending = r.pending /\ DOMAIN w = DOMAIN r

LEMMA KeptAgain == \A r, w : GoldKept(r) /\ SameGold(r, w) => GoldKept(w)
  BY DEF GoldKept, SameGold

LEMMA BookedIs ==
  ASSUME NEW r, Accounts(r), NEW t, IsClosed(t), NEW w, DOMAIN w = DOMAIN r,
         w.bal = r.bal + t.net, w.closed = Append(r.closed, t)
  PROVE  Accounts(w)
<1> DEFINE b == Book(r, t)
<1>1. Accounts(b) /\ DOMAIN b = DOMAIN r
  BY BookKeeps
<1>2. b.bal = r.bal + t.net /\ b.closed = Append(r.closed, t)
  BY DEF Book, Accounts
<1> HIDE DEF b
<1>3. QED BY <1>1, <1>2 DEF Accounts

LEMMA UntilSet == ASSUME NEW t, IsClosed(t), NEW x PROVE IsClosed([t EXCEPT !.until = x])
<1> DEFINE u == [t EXCEPT !.until = x]
<1>1. /\ Alike(t, u) /\ u.fills = t.fills /\ u.gross = t.gross /\ u.sl = t.sl /\ u.left = t.left
      /\ u.reason = t.reason /\ u.net = t.net
  BY DEF IsClosed, IsTrade, TradeFields, Alike
<1> HIDE DEF u
<1>2. Lots(u) = Lots(t) /\ Earned(u) = Earned(t)
  BY <1>1, SameFills DEF Alike
<1>3. IsClosed(u)
  BY <1>1, <1>2 DEF IsClosed, IsTrade, Alike
<1>4. QED BY <1>3 DEF u

LEMMA LateSet == ASSUME NEW t, IsOpen(t), NEW x
                 PROVE  LET u == [t EXCEPT !.deferred = x] IN IsOpen(u) /\ u.ev = t.ev
<1> DEFINE u == [t EXCEPT !.deferred = x]
<1>1. /\ Alike(t, u) /\ u.fills = t.fills /\ u.gross = t.gross /\ u.sl = t.sl /\ u.left = t.left
      /\ u.reason = t.reason
  BY DEF IsOpen, IsTrade, TradeFields, Alike
<1> HIDE DEF u
<1>2. Lots(u) = Lots(t) /\ Earned(u) = Earned(t)
  BY <1>1, SameFills DEF Alike
<1>3. IsOpen(u) /\ u.ev = t.ev
  BY <1>1, <1>2 DEF IsOpen, IsTrade, Alike
<1>4. QED BY <1>3 DEF u

LEMMA GoldCloses ==
  ASSUME NEW k, NEW r, Books("gold", r, k), GoldKept(r), r.open # <<>>, NEW e,
         NEW px \in Int, NEW reason, reason # "open"
  PROVE  LET w == GoldClose(r, e, px, reason) IN
         Books("gold", w, k) /\ GoldKept(w) /\ w.open = <<>> /\ DOMAIN w = DOMAIN r
<1> DEFINE h == Head(r.open)
           c == CloseTrade(Filled(h, px, h.left), px, reason, e.n)
           t == [c EXCEPT !.until = e.t]
           w == GoldClose(r, e, px, reason)
<1>1. IsOpen(h)
  <2>1. 1 \in DOMAIN r.open /\ h = r.open[1]
    BY EmptySeq, LenProperties DEF Books, IsSeq
  <2>2. QED BY <2>1 DEF Books
<1>2. IsClosed(c)
  <2>1. IsTrade(h) /\ Lots(h) = h.lot - h.left
    BY <1>1 DEF IsOpen
  <2> HIDE DEF h
  <2>2. QED BY <2>1, ClosedOut
<1>3. /\ w.bal = r.bal + t.net /\ w.closed = Append(r.closed, t) /\ w.open = <<>>
      /\ w.curve = r.curve /\ w.pending = r.pending /\ DOMAIN w = DOMAIN r
  BY DEF GoldClose, Books, Accounts, GoldKept
<1> HIDE DEF h, c, w
<1>4. IsClosed(t)
  BY <1>2, UntilSet
<1> HIDE DEF t
<1>5. Accounts(w)
  BY <1>3, <1>4, BookedIs DEF Books
<1>6. Books("gold", w, k)
  <2> DEFINE o == w.open
  <2>1. o = <<>>
    BY <1>3
  <2>2. DOMAIN <<>> = {}
    OBVIOUS
  <2>3. IsSeq(o) /\ DOMAIN o = {}
    BY <2>1, <2>2 DEF IsSeq
  <2> HIDE DEF o
  <2>4. Rising(o) /\ \A i \in DOMAIN o : IsOpen(o[i]) /\ Fit("gold", o[i]) /\ o[i].ev <= k
    BY <2>3 DEF Rising
  <2>5. QED BY <1>5, <2>3, <2>4 DEF Books, o
<1>7. GoldKept(w)
  BY <1>3, KeptAgain DEF SameGold
<1>8. QED BY <1>3, <1>6, <1>7 DEF w

LEMMA AtOpenIs ==
  ASSUME NEW t, NEW b \in GoldBar PROVE AtOpen(t, b) \in Int /\ GoldHalf(b) \in Int
<1>1. GoldHalf(b) \in Int
  BY DEF GoldHalf, GoldBar, GOLD_DEFAULT_HALF
<1>2. Seen(b, DirOf(t)).o \in Int
  BY SeenIs
<1>3. QED BY <1>1, <1>2, SgnIs DEF AtOpen


LEMMA ManageIs ==
  ASSUME NEW r, r.open # <<>>, NEW h, h = Head(r.open), IsOpen(h), Fit("gold", h), NEW e,
         NEW b \in GoldBar, Manage(r, e, b) # r
  PROVE  \E px, reason : px \in Int /\ Manage(r, e, b) = GoldClose(r, e, px, reason) /\ reason # "open"
<1> DEFINE w == Manage(r, e, b)
<1>1. h.sl \in Int /\ h.tp2 \in Int /\ AtOpen(h, b) \in Int
  BY AtOpenIs DEF IsOpen, IsTrade
<1>2. CASE h.deferred # "none" /\ e.n = h.ev + 1
  <2> DEFINE px == IF h.deferred = "sl_minhold" THEN h.sl ELSE h.tp2
  <2>1. px \in Int /\ h.deferred # "open"
    BY <1>1 DEF Fit
  <2>2. w = GoldClose(r, e, px, h.deferred)
    BY <1>2 DEF Manage
  <2> HIDE DEF px, w
  <2>3. QED BY <2>1, <2>2 DEF w
<1>3. CASE ~(h.deferred # "none" /\ e.n = h.ev + 1)
  <2>1. \/ w = GoldClose(r, e, AtOpen(h, b), "session_flatten")
        \/ w = GoldClose(r, e, AtOpen(h, b), "time_stop")
        \/ w = GoldClose(r, e, h.sl, "sl")
        \/ w = GoldClose(r, e, h.tp2, "tp")
    BY <1>3 DEF Manage
  <2> HIDE DEF w
  <2>2. QED BY <1>1, <2>1 DEF w
<1>4. QED BY <1>2, <1>3

LEMMA ManageKeeps ==
  ASSUME NEW k, NEW r, Books("gold", r, k), GoldKept(r), NEW e, NEW b \in GoldBar
  PROVE  LET w == Manage(r, e, b) IN
         Books("gold", w, k) /\ GoldKept(w) /\ Derives(r, w) /\ DOMAIN w = DOMAIN r
<1> DEFINE h == Head(r.open)
           w == Manage(r, e, b)
<1>1. Derives(r, r)
  <2>1. \A i \in DOMAIN r.open : IsOpen(r.open[i])
    BY DEF Books
  <2>2. QED BY <2>1, StaysMeets DEF Derives
<1>2. CASE w = r
  BY <1>1, <1>2
<1>3. CASE w # r
  <2>1. r.open # <<>>
    BY <1>3 DEF Manage
  <2>2. IsOpen(h) /\ Fit("gold", h)
    <3>1. 1 \in DOMAIN r.open /\ h = r.open[1]
      BY <2>1, EmptySeq, LenProperties DEF Books, IsSeq
    <3>2. QED BY <3>1 DEF Books
  <2> HIDE DEF h
  <2>3. PICK px, reason : px \in Int /\ w = GoldClose(r, e, px, reason) /\ reason # "open"
    BY <1>3, <2>1, <2>2, ManageIs DEF h
  <2> HIDE DEF w
  <2>4. Books("gold", w, k) /\ GoldKept(w) /\ w.open = <<>> /\ DOMAIN w = DOMAIN r
    BY <2>1, <2>3, GoldCloses
  <2>5. Derives(r, w)
    <3>1. DOMAIN w.open = DOMAIN <<>>
      BY <2>4
    <3>2. DOMAIN <<>> = {}
      OBVIOUS
    <3>3. QED BY <3>1, <3>2 DEF Derives
  <2>6. QED BY <2>4, <2>5 DEF w
<1>4. QED BY <1>2, <1>3

\* A signal filled, or found too close to its stop.
LEMMA FillGoes ==
  ASSUME NEW k, NEW r, {"bal", "open", "closed"} \subseteq DOMAIN r, GoldKept(r), r.curve # <<>>,
         NEW e, e.n = k + 1, k \in Int, NEW b \in GoldBar, NEW sig, Sound(sig)
  PROVE  LET z == GoldFill(r, e, b, sig) IN Goes("gold", r, z, k) /\ SameGold(r, z)
<1> DEFINE sgn   == IF sig.dir = "BUY" THEN 1 ELSE -1
           px    == b.o + sgn * (GoldHalf(b) + SLIPPAGE)
           risk  == sgn * (px - sig.sl)
           money == (Last(r.curve) * RiskPct) \div 100
           lot   == Max({LOT_MIN, Min({LOT_MAX, RoundLot(money, risk)})})
           t     == [sym |-> GOLD, dir |-> sig.dir, entry |-> px, sl |-> sig.sl, tp2 |-> sig.tp,
                     risk |-> risk, lot |-> lot, left |-> lot, pv |-> 1,
                     fee |-> (7 * (lot \div 2)) \div 10, at |-> e.t, ev |-> e.n,
                     level |-> sig.level, asked |-> sig.at, grade |-> sig.grade, depth |-> sig.depth,
                     gross |-> 0, fills |-> <<>>, exit |-> 0, reason |-> "open",
                     net |-> 0, out |-> 0, until |-> 0, deferred |-> "none"]
           late  == IF HitsSl(t, b) THEN "sl_minhold"
                    ELSE IF HitsTp(t, b) THEN "tp_minhold" ELSE "none"
           u     == [t EXCEPT !.deferred = late]
           z     == GoldFill(r, e, b, sig)
<1>1. z = IF risk < GOLD_MIN_RISK THEN r ELSE Admit(r, u, <<DateKey(e.t)>>)
  BY DEF GoldFill
<1> HIDE DEF z
<1>2. CASE risk < GOLD_MIN_RISK
  <2>1. z = r
    BY <1>1, <1>2
  <2>2. QED BY <2>1 DEF Goes, Same, SameGold, z
<1>3. CASE ~(risk < GOLD_MIN_RISK)
  <2>1. px \in Int /\ sig.sl \in Int /\ sig.tp \in Int /\ sig.dir \in {"BUY", "SELL"}
    <3>1. b.o \in Int /\ GoldHalf(b) \in Int
      BY AtOpenIs DEF GoldBar
    <3>2. QED BY <3>1 DEF SLIPPAGE, Sound
  <2> HIDE DEF px
  <2>2. risk \in Int
    BY <2>1
  <2> HIDE DEF risk
  <2>3. risk >= 3
    BY <1>3, <2>2 DEF GOLD_MIN_RISK
  <2>4. money \in Int
    <3>1. Last(r.curve) \in Int
      BY EmptySeq, LenProperties, ElementOfSeq DEF GoldKept, Last
    <3>2. Last(r.curve) * RiskPct \in Int
      BY <3>1, DataAssumption
    <3>3. QED BY <3>2
  <2> HIDE DEF money
  <2>5. lot \in Int
    <3> DEFINE x == RoundLot(money, risk)
               y == Min({LOT_MAX, x})
               top == LOT_MAX
               low == LOT_MIN
    <3>1. x \in Int
      <4>1. money \div risk \in Int
        BY <2>2, <2>3, <2>4
      <4>2. QED BY <4>1 DEF RoundLot
    <3>2. top \in Int /\ low \in Int
      BY DEF LOT_MAX, LOT_MIN
    <3> HIDE DEF x, top, low
    <3>3. Min({top, x}) \in Int
      BY <3>1, <3>2, TwoEnds
    <3>4. y \in Int
      BY <3>3 DEF top
    <3> HIDE DEF y
    <3>5. Max({low, y}) \in Int
      BY <3>2, <3>4, TwoEnds
    <3>6. QED BY <3>5 DEF low, y, x
  <2> HIDE DEF lot
  <2>6. (7 * (lot \div 2)) \div 10 \in Int
    <3>1. 7 * (lot \div 2) \in Int
      BY <2>5
    <3>2. QED BY <3>1
  <2> DEFINE fee == (7 * (lot \div 2)) \div 10
  <2> HIDE DEF fee
  <2>7. /\ TradeFields \cup {"deferred"} \subseteq DOMAIN t
        /\ t.dir = sig.dir /\ t.entry = px /\ t.sl = sig.sl /\ t.tp2 = sig.tp
        /\ t.risk = risk /\ t.lot = lot /\ t.left = lot /\ t.pv = 1 /\ t.fee = fee
        /\ t.ev = e.n /\ t.gross = 0 /\ t.fills = <<>> /\ t.reason = "open"
    BY DEF TradeFields, fee
  <2>8. late \in {"none", "sl_minhold", "tp_minhold"}
    OBVIOUS
  <2> HIDE DEF t, late
  <2>9. Lots(t) = 0 /\ Earned(t) = 0 /\ t.fills \in Seq(Int \X Int)
    BY <2>7, FreshIs
  <2>10. fee \in Int
    BY <2>6 DEF fee
  <2>11. IsTrade(t)
    BY <2>1, <2>2, <2>5, <2>7, <2>9, <2>10 DEF IsTrade
  <2>12. IsOpen(t)
    BY <2>5, <2>7, <2>9, <2>11 DEF IsOpen
  <2>13. IsOpen(u) /\ u.ev = t.ev
    BY <2>12, LateSet
  <2>14. u.deferred = late
    BY <2>7
  <2> HIDE DEF u
  <2>15. Fit("gold", u)
    BY <2>8, <2>14 DEF Fit, VARIANTS
  <2>16. z = Admit(r, u, <<DateKey(e.t)>>)
    BY <1>1, <1>3
  <2>17. Grown(r, z, u)
    BY <2>16, HelpersKeep
  <2>18. SameGold(r, z)
    BY <2>16 DEF SameGold, Admit, GoldKept
  <2>19. Goes("gold", r, z, k)
    BY <2>7, <2>13, <2>15, <2>17 DEF Goes
  <2>20. QED BY <2>18, <2>19 DEF z
<1>4. QED BY <1>2, <1>3

LEMMA PendingFilled ==
  ASSUME NEW k \in Int, NEW r, {"bal", "open", "closed"} \subseteq DOMAIN r, GoldKept(r),
         NEW e, e.n = k + 1, NEW b \in GoldBar
  PROVE  LET z == FillPending(r, e, b) IN Goes("gold", r, z, k) /\ GoldKept(z)
<1> DEFINE f == [r EXCEPT !.pending = {}]
           g == CHOOSE sig \in r.pending : TRUE
           z == FillPending(r, e, b)
<1>1. Same(r, f) /\ GoldKept(f) /\ f.curve = r.curve /\ {"bal", "open", "closed"} \subseteq DOMAIN f
  BY DEF Same, GoldKept
<1>2. z = r \/ z = f \/ (r.pending # {} /\ z = GoldFill(f, e, b, g))
  BY DEF FillPending
<1> HIDE DEF f, z
<1>3. CASE z = r \/ z = f
  <2>1. Same(r, r)
    BY DEF Same
  <2>2. QED BY <1>1, <1>3, <2>1 DEF Goes, z
<1>4. CASE r.pending # {} /\ z = GoldFill(f, e, b, g)
  <2>1. Sound(g) /\ f.curve # <<>>
    BY <1>1, <1>4 DEF GoldKept
  <2> HIDE DEF g
  <2>2. Goes("gold", f, z, k) /\ SameGold(f, z)
    BY <1>1, <1>4, <2>1, FillGoes
  <2>3. GoldKept(z)
    BY <1>1, <2>2, KeptAgain
  <2>4. Goes("gold", r, z, k)
    BY <1>1, <2>2, SameAgain DEF Goes
  <2>5. QED BY <2>3, <2>4 DEF z
<1>5. QED BY <1>2, <1>3, <1>4

LEMMA SampledKeeps ==
  ASSUME NEW r, {"bal", "open", "closed"} \subseteq DOMAIN r, r.bal \in Int,
         {"curve", "pending"} \subseteq DOMAIN r, r.curve \in Seq(Int),
         \A g \in r.pending : Sound(g)
  PROVE  LET z == Sampled(r) IN Same(r, z) /\ GoldKept(z)
<1> DEFINE z == Sampled(r)
           c == Append(r.curve, r.bal)
<1>1. Same(r, z) /\ z.curve = c /\ z.pending = r.pending
  BY DEF Sampled, Same
<1>2. c \in Seq(Int) /\ Len(c) = Len(r.curve) + 1 /\ Len(r.curve) \in Nat
  BY AppendProperties, LenProperties
<1> HIDE DEF c, z
<1>3. c # <<>>
  BY <1>2, EmptySeq
<1>4. GoldKept(z)
  BY <1>1, <1>2, <1>3 DEF GoldKept, Same
<1>5. QED BY <1>1, <1>4 DEF z

LEMMA DecideKeeps ==
  ASSUME NEW r, {"bal", "open", "closed"} \subseteq DOMAIN r, GoldKept(r), NEW e,
         NEW v1 \in Seq(GoldBar), NEW news
  PROVE  LET z == Decide(r, e, v1, news) IN
         Same(r, z) /\ z.curve = r.curve /\ \A g \in z.pending : Sound(g)
<1> DEFINE t   == e.t + 1
           f15 == Frame(Stored15, v1, 15)
           T   == {i \in DOMAIN f15 : f15[i].done <= t}
           v5  == get_visible(Frame(Stored5, v1, 5), t)
           v15 == get_visible(f15, t)
           out == gold_detect(r.det, t, v1, v5, v15)
           z   == Decide(r, e, v1, news)
<1>1. f15 \in Seq(Frames)
  BY FrameIs, DataAssumption
<1> HIDE DEF f15
<1>2. v15 \in Seq(Frames)
  <2>1. T \in SUBSET DOMAIN f15
    OBVIOUS
  <2>2. v15 = SubSeq(f15, 1, Cardinality(T))
    BY DEF get_visible, visible_count
  <2> HIDE DEF T
  <2>3. QED BY <1>1, <2>1, <2>2, FirstOf
<1>3. Same(r, z) /\ z.curve = r.curve /\ (z.pending = r.pending \/ z.pending = out.sigs)
  BY DEF Decide, Same, GoldKept, f15
<1> HIDE DEF v5, v15, t, z
<1>4. \A g \in out.sigs : Sound(g)
  BY <1>2, DetectIs
<1> HIDE DEF out
<1>5. \A g \in z.pending : Sound(g)
  BY <1>3, <1>4 DEF GoldKept
<1>6. QED BY <1>3, <1>5 DEF z

LEMMA GoldSteps ==
  ASSUME NEW k \in Int, NEW r, Books("gold", r, k), GoldKept(r), NEW e, e.n = k + 1,
         NEW v1 \in Seq(GoldBar), v1 # <<>>, NEW news
  PROVE  LET z == GoldStep(r, e, v1, news) IN
         Books("gold", z, k + 1) /\ Follows(r, z, k + 1) /\ GoldKept(z)
<1> DEFINE b == Last(v1)
           m == Manage(r, e, b)
           d == GoldDay(m, e)
           a == DailyHalt(d, e)
           f == FillPending(a, e, b)
           h == [d EXCEPT !.halted = TRUE]
           x == Decide(f, e, v1, news)
           z == GoldStep(r, e, v1, news)
           Fields == {"bal", "open", "closed"}
<1>1. b \in GoldBar
  BY EmptySeq, LenProperties, ElementOfSeq DEF Last
<1>2. z = Sampled(h) \/ z = Sampled(f) \/ z = Sampled(x)
  BY DEF GoldStep
<1> HIDE DEF b, z
<1>3. Books("gold", m, k) /\ GoldKept(m) /\ Derives(r, m)
  BY <1>1, ManageKeeps
<1>4. Fields \subseteq DOMAIN m /\ m.bal \in Int
  BY <1>3 DEF Books, Accounts
<1> HIDE DEF m
<1>5. Same(m, d) /\ SameGold(m, d)
  BY <1>4 DEF GoldDay, DayRoll, Same, SameGold
<1> HIDE DEF d
<1>6. Same(d, a) /\ SameGold(d, a) /\ Same(d, h) /\ SameGold(d, h)
  BY <1>4, <1>5 DEF DailyHalt, Same, SameGold
<1> HIDE DEF a, h
<1>7. Same(m, a) /\ Same(m, h)
  BY <1>5, <1>6, SameAgain
<1>8. GoldKept(a) /\ GoldKept(h)
  <2>1. GoldKept(d)
    BY <1>3, <1>5, KeptAgain
  <2>2. QED BY <1>6, <2>1, KeptAgain
<1>9. Fields \subseteq DOMAIN a /\ Fields \subseteq DOMAIN h /\ a.bal \in Int /\ h.bal \in Int
  BY <1>4, <1>7 DEF Same
<1>10. Goes("gold", a, f, k) /\ GoldKept(f)
  BY <1>1, <1>8, <1>9, PendingFilled
<1> HIDE DEF f
<1>11. Goes("gold", m, f, k) /\ Fields \subseteq DOMAIN f /\ f.bal \in Int
  BY <1>7, <1>9, <1>10, SameAgain DEF Goes, Same, Grown
<1>12. Same(f, x) /\ x.curve = f.curve /\ \A g \in x.pending : Sound(g)
  BY <1>10, <1>11, DecideKeeps
<1> HIDE DEF x, Fields
<1>13. ASSUME NEW y, NEW u, Goes("gold", m, y, k), Same(y, u) PROVE Goes("gold", m, u, k)
  <2>1. Same(m, y) => Same(m, u)
    BY <1>13, SameAgain
  <2>2. \A t : Grown(m, y, t) => Grown(m, u, t)
    BY <1>13, GrownSame
  <2>3. QED BY <1>13, <2>1, <2>2 DEF Goes
<1>14. Goes("gold", m, z, k) /\ GoldKept(z)
  <2>1. CASE z = Sampled(h)
    <3>1. Same(h, z) /\ GoldKept(z)
      BY <1>8, <1>9, <2>1, SampledKeeps DEF GoldKept, Fields
    <3>2. Same(m, z)
      BY <1>7, <3>1, SameAgain
    <3>3. QED BY <3>1, <3>2 DEF Goes
  <2>2. CASE z = Sampled(f)
    <3>1. Same(f, z) /\ GoldKept(z)
      BY <1>10, <1>11, <2>2, SampledKeeps DEF GoldKept, Fields
    <3>2. QED BY <1>11, <1>13, <3>1
  <2>3. CASE z = Sampled(x)
    <3>1. /\ Fields \subseteq DOMAIN x /\ x.bal \in Int /\ {"curve", "pending"} \subseteq DOMAIN x
          /\ x.curve \in Seq(Int)
      BY <1>10, <1>11, <1>12 DEF Same, GoldKept
    <3>2. Same(x, z) /\ GoldKept(z)
      BY <1>12, <2>3, <3>1, SampledKeeps DEF Fields
    <3>3. Goes("gold", m, x, k)
      BY <1>11, <1>12, <1>13
    <3>4. QED BY <1>13, <3>2, <3>3
  <2>4. QED BY <1>2, <2>1, <2>2, <2>3
<1>15. Books("gold", z, k + 1) /\ Follows(r, z, k + 1)
  BY <1>3, <1>14, StepEnds DEF Goes
<1>16. QED BY <1>14, <1>15 DEF z

LEMMA GoldFinishKeeps ==
  ASSUME NEW k \in Int, NEW r, Books("gold", r, k), GoldKept(r), NEW b,
         r.open # <<>> => b \in GoldBar, NEW e
  PROVE  LET z == GoldFinish(r, b, e) IN Books("gold", z, k) /\ GoldKept(z) /\ z.open = <<>>
<1>1. CASE r.open = <<>>
  BY <1>1 DEF GoldFinish
<1>2. CASE r.open # <<>>
  <2> DEFINE px == AtOpen(Head(r.open), b)
             z == GoldFinish(r, b, e)
  <2>1. px \in Int
    BY <1>2, AtOpenIs
  <2>2. z = GoldClose(r, e, px, "data_end")
    BY <1>2 DEF GoldFinish
  <2> HIDE DEF px, z
  <2>3. Books("gold", z, k) /\ GoldKept(z) /\ z.open = <<>>
    BY <1>2, <2>1, <2>2, GoldCloses
  <2>4. QED BY <2>3 DEF z
<1>3. QED BY <1>1, <1>2

-----------------------------------------------------------------------------
(* The machine. *)

Tightens(r, z) ==
  \A i \in DOMAIN r.open, j \in DOMAIN z.open :
    LET old == r.open[i]  new == z.open[j]
    IN  old.ev = new.ev => Sgn(old) * (new.sl - old.sl) >= 0

\* What comes of the open trades of one state in the next.
LEMMA FollowTightens ==
  ASSUME NEW v, NEW r, NEW k \in Int, Books(v, r, k), NEW z, NEW l, Books(v, z, l),
         Follows(r, z, k + 1) \/ z.open = r.open \/ z.open = <<>>
  PROVE  Tightens(r, z)
<1>1. CASE z.open = <<>>
  <2>1. DOMAIN z.open = DOMAIN <<>>
    BY <1>1
  <2>2. DOMAIN <<>> = {}
    OBVIOUS
  <2>3. QED BY <2>1, <2>2 DEF Tightens
<1>2. CASE z.open = r.open \/ Follows(r, z, k + 1)
  <2> SUFFICES ASSUME NEW i \in DOMAIN r.open, NEW j \in DOMAIN z.open,
                      r.open[i].ev = z.open[j].ev
               PROVE  Sgn(r.open[i]) * (z.open[j].sl - r.open[i].sl) >= 0
    BY DEF Tightens
  <2> DEFINE m == Len(r.open)
  <2>1. m \in Nat /\ DOMAIN r.open = 1 .. m
    BY LenProperties DEF Books, IsSeq
  <2>2. \A h \in 1 .. m : IsOpen(r.open[h]) /\ r.open[h].ev \in Int /\ r.open[h].ev <= k
    BY <2>1 DEF Books, IsOpen, IsTrade
  <2>3. z.open[j].reason = "open"
    BY DEF Books, IsOpen
  <2>4. z.open[j].ev # k + 1
    BY <2>1, <2>2
  <2>5. \E h \in 1 .. m : Meets(r.open[h], z.open[j])
    <3>1. CASE z.open = r.open
      BY <2>1, <2>2, <3>1, StaysMeets
    <3>2. CASE Follows(r, z, k + 1)
      BY <2>1, <2>4, <3>2 DEF Follows
    <3>3. QED BY <1>2, <3>1, <3>2
  <2>6. PICK h \in 1 .. m : Meets(r.open[h], z.open[j])
    BY <2>5
  <2>7. h = i
    <3>1. r.open[h].ev = r.open[i].ev
      BY <2>6 DEF Meets, Alike
    <3>2. \A a, b \in 1 .. m : a < b => r.open[a].ev < r.open[b].ev
      BY <2>1 DEF Books, Rising
    <3> DEFINE ev(a) == r.open[a].ev
    <3>3. /\ ev(h) = ev(i) /\ ev(h) \in Int /\ h \in 1 .. m /\ i \in 1 .. m
          /\ \A a, b \in 1 .. m : a < b => ev(a) < ev(b)
      BY <2>1, <2>2, <2>6, <3>1, <3>2
    <3> HIDE DEF ev
    <3>4. ~(h < i) /\ ~(i < h)
      BY <3>3
    <3>5. QED BY <2>1, <3>3, <3>4
  <2>8. QED BY <2>3, <2>6, <2>7 DEF Meets
<1>3. QED BY <1>1, <1>2

\* Everything the steps of the machine keep.
BooksInv ==
  /\ script \in Scripts /\ n \in Nat /\ Books(Name, s, n)
  /\ reported => n = Len(Events) /\ s.open = <<>>
  /\ ~Gold => /\ hist \in [DOMAIN StoredHtf -> Seq(Candle)]
              /\ DOMAIN lastbar = DOMAIN StoredHtf
              /\ \A x \in DOMAIN StoredHtf : lastbar[x].c \in Int
  /\ Gold => /\ GoldKept(s)
             /\ GOLD \in DOMAIN hist /\ hist[GOLD] \in Seq(GoldBar)
             /\ GOLD \in DOMAIN lastbar /\ (s.open # <<>> => lastbar[GOLD] \in GoldBar)

LEMMA NameIs ==
  ASSUME script \in Scripts
  PROVE  /\ Name \in {"multi", "silver", "flip", "gold"} \cup VARIANTS
         /\ Name = "gold" <=> Gold
         /\ Sweep <=> Name \in VARIANTS
<1>1. script \in ({"multi", "silver", "flip", "gold"} \cup VARIANTS) \X BOOLEAN
  BY DataAssumption
<1>2. QED BY <1>1 DEF Name, Gold, Sweep

LEMMA EventIs ==
  ASSUME NEW i \in Nat, i < Len(Events)
  PROVE  LET e == Event(i + 1) IN
         /\ e.n = i + 1 /\ e.k \in Int /\ Len(Events) \in Nat
         /\ ~Gold => /\ e.sym \in DOMAIN StoredHtf /\ i + 1 \in DOMAIN LoadedLtf
         /\ Gold => e.t \in Int /\ e.sym = GOLD /\ i + 1 \in DOMAIN GoldTimes
<1> DEFINE e == Event(i + 1)
           T == {j \in 1 .. i + 1 : Events[j][2] = Events[i + 1][2]}
<1>1. e.n = i + 1 /\ e.t = Events[i + 1][1] /\ e.sym = Events[i + 1][2] /\ e.k = Cardinality(T)
  BY DEF Event
<1>2. Cardinality(T) \in Int
  <2>1. IsFiniteSet(1 .. i + 1) /\ T \subseteq 1 .. i + 1
    BY FS_Interval
  <2>2. IsFiniteSet(T)
    BY <2>1, FS_Subset
  <2>3. QED BY <2>2, FS_CardinalityType
<1> HIDE DEF e, T
<1>3. CASE ~Gold
  <2>1. Events = LoadedLtf
    BY <1>3 DEF Events
  <2>2. LoadedLtf \in Seq(Int \X DOMAIN StoredHtf)
    BY DataAssumption
  <2>3. Len(LoadedLtf) \in Nat /\ i + 1 \in 1 .. Len(LoadedLtf) /\ DOMAIN LoadedLtf = 1 .. Len(LoadedLtf)
    BY <2>1, <2>2, LenProperties
  <2>4. LoadedLtf[i + 1] \in Int \X DOMAIN StoredHtf
    BY <2>2, <2>3, ElementOfSeq
  <2>5. e.sym \in DOMAIN StoredHtf
    BY <1>1, <2>1, <2>4
  <2>6. QED BY <1>1, <1>2, <1>3, <2>1, <2>3, <2>5 DEF e
<1>4. CASE Gold
  <2>1. Events = [j \in DOMAIN GoldTimes |-> <<GoldTimes[j], GOLD>>]
    BY <1>4 DEF Events
  <2>2. GoldTimes \in Seq(Int)
    BY DataAssumption
  <2> DEFINE m == Len(GoldTimes)
  <2>3. m \in Nat /\ DOMAIN GoldTimes = 1 .. m
    BY <2>2, LenProperties
  <2> HIDE DEF m
  <2>4. Len(Events) = m
    <3>1. Events \in Seq(Int \X {GOLD})
      <4>1. \A j \in 1 .. m : <<GoldTimes[j], GOLD>> \in Int \X {GOLD}
        BY <2>2, <2>3, ElementOfSeq DEF m
      <4>2. QED BY <2>1, <2>3, <4>1
    <3>2. DOMAIN Events = 1 .. m
      BY <2>1, <2>3
    <3>3. DOMAIN Events = 1 .. Len(Events) /\ Len(Events) \in Nat
      BY <3>1, LenProperties
    <3>4. QED BY <2>3, <3>2, <3>3
  <2>5. i + 1 \in DOMAIN GoldTimes
    BY <2>3, <2>4
  <2>6. Events[i + 1] = <<GoldTimes[i + 1], GOLD>> /\ GoldTimes[i + 1] \in Int
    BY <2>1, <2>2, <2>5, ElementOfSeq
  <2>7. e.t \in Int /\ e.sym = GOLD
    BY <1>1, <2>6
  <2>8. QED BY <1>1, <1>2, <1>4, <2>3, <2>4, <2>5, <2>7 DEF e
<1>5. QED BY <1>3, <1>4

LEMMA EmptyBooks ==
  ASSUME NEW v, NEW r, {"bal", "open", "closed"} \subseteq DOMAIN r,
         r.bal = INITIAL_BALANCE, r.open = <<>>, r.closed = <<>>
  PROVE  Books(v, r, 0)
<1>1. Total(r.closed) = 0
  BY NoSum
<1>2. DOMAIN <<>> = {} /\ IsSeq(<<>>)
  BY DEF IsSeq
<1>3. DOMAIN r.open = {} /\ DOMAIN r.closed = {} /\ IsSeq(r.open) /\ IsSeq(r.closed)
  BY <1>2
<1>4. Accounts(r)
  BY <1>1, <1>3 DEF Accounts, INITIAL_BALANCE
<1>5. Rising(r.open)
  BY <1>3 DEF Rising
<1>6. QED BY <1>3, <1>4, <1>5 DEF Books

LEMMA BooksInit == Init => BooksInv
<1> SUFFICES ASSUME Init PROVE BooksInv
  OBVIOUS
<1>1. script \in Scripts /\ n = 0 /\ reported = FALSE
  BY DEF Init
<1>2. Books(Name, s, 0)
  <2>1. /\ {"bal", "open", "closed"} \subseteq DOMAIN s
        /\ s.bal = INITIAL_BALANCE /\ s.open = <<>> /\ s.closed = <<>>
    BY DEF Init, GoldState, MsState
  <2>2. QED BY <2>1, EmptyBooks
<1>3. ASSUME ~Gold
      PROVE  /\ hist \in [DOMAIN StoredHtf -> Seq(Candle)]
             /\ DOMAIN lastbar = DOMAIN StoredHtf
             /\ \A x \in DOMAIN StoredHtf : lastbar[x].c \in Int
  <2>1. Pairs = DOMAIN StoredHtf
    BY <1>3 DEF Pairs
  <2>2. hist = [p \in DOMAIN StoredHtf |-> <<>>] /\ lastbar = [p \in DOMAIN StoredHtf |-> [c |-> 0]]
    BY <2>1 DEF Init
  <2>3. <<>> \in Seq(Candle)
    OBVIOUS
  <2>4. QED BY <2>2, <2>3
<1>4. ASSUME Gold
      PROVE  /\ GoldKept(s) /\ GOLD \in DOMAIN hist /\ hist[GOLD] \in Seq(GoldBar)
             /\ GOLD \in DOMAIN lastbar /\ (s.open # <<>> => lastbar[GOLD] \in GoldBar)
  <2>1. Pairs = {GOLD}
    BY <1>4 DEF Pairs
  <2>2. hist = [p \in {GOLD} |-> <<>>] /\ lastbar = [p \in {GOLD} |-> [c |-> 0]]
    BY <2>1 DEF Init
  <2>3. hist[GOLD] \in Seq(GoldBar) /\ GOLD \in DOMAIN hist /\ GOLD \in DOMAIN lastbar
    BY <2>2
  <2>4. s = GoldState
    BY <1>4 DEF Init
  <2>5. s.open = <<>> /\ GoldKept(s)
    BY <2>4 DEF GoldState, GoldKept
  <2>6. QED BY <2>3, <2>5
<1>5. QED BY <1>1, <1>2, <1>3, <1>4 DEF BooksInv

\* What an event of the pairs hands to the step of a script.
LEMMA WalkedIs ==
  ASSUME BooksInv, ~Gold, n < Len(Events), NEW e, e = Event(n + 1),
         NEW bar, bar \in Candidates(e.sym), NEW in, in \in Asked(n + 1)
  PROVE  /\ bar \in Candle /\ in.sig \in Signals
         /\ Append(hist[e.sym], bar) \in Seq(Candle)
<1>1. e.sym \in DOMAIN StoredHtf /\ n + 1 \in DOMAIN LoadedLtf
  BY EventIs DEF BooksInv
<1>2. bar \in Candle
  BY DataAssumption DEF Candidates
<1>3. in \in Answers[n + 1]
  BY DEF Asked
<1>4. in \in [kind : {"signal", "none", "quiet", "news"}, sig : Signals]
  BY <1>1, <1>3, DataAssumption
<1>5. in.sig \in Signals
  BY <1>4
<1>6. hist[e.sym] \in Seq(Candle)
  BY <1>1 DEF BooksInv
<1>7. QED BY <1>2, <1>5, <1>6

\* The data kept by such an event.
Tracked(e, bar) ==
  /\ n' = n + 1 /\ script' = script /\ reported' = reported
  /\ lastbar' = [lastbar EXCEPT ![e.sym] = [c |-> bar.c]]
  /\ hist' = hist \/ hist' = [hist EXCEPT ![e.sym] = Append(@, bar)]

LEMMA WalkedKeeps ==
  ASSUME BooksInv, ~Gold, n < Len(Events), NEW e, e = Event(n + 1),
         NEW bar \in Candle, Append(hist[e.sym], bar) \in Seq(Candle), Tracked(e, bar),
         Books(Name, s', n + 1) /\ Follows(s, s', n + 1)
  PROVE  BooksInv' /\ Tightens(s, s')
<1>1. n \in Nat /\ script \in Scripts /\ Books(Name, s, n)
  BY DEF BooksInv
<1>2. e.sym \in DOMAIN StoredHtf /\ Len(Events) \in Nat
  BY <1>1, EventIs
<1>3. ~reported
  BY <1>1, <1>2 DEF BooksInv
<1>4. script' = script /\ n' = n + 1 /\ n' \in Nat /\ ~reported'
  BY <1>1, <1>3 DEF Tracked
<1>5. Name' = Name /\ Gold' = Gold
  BY <1>4 DEF Name, Gold
<1>6. hist' \in [DOMAIN StoredHtf -> Seq(Candle)]
  BY <1>2 DEF Tracked, BooksInv
<1>7. DOMAIN lastbar' = DOMAIN StoredHtf /\ \A x \in DOMAIN StoredHtf : lastbar'[x].c \in Int
  <2>1. bar.c \in Int
    BY DEF Candle
  <2>2. DOMAIN lastbar = DOMAIN StoredHtf /\ \A x \in DOMAIN StoredHtf : lastbar[x].c \in Int
    BY DEF BooksInv
  <2>3. /\ DOMAIN lastbar' = DOMAIN lastbar
        /\ \A x \in DOMAIN lastbar : lastbar'[x] = IF x = e.sym THEN [c |-> bar.c] ELSE lastbar[x]
    BY DEF Tracked
  <2>4. QED BY <2>1, <2>2, <2>3
<1>8. Books(Name', s', n')
  BY <1>4, <1>5
<1>9. BooksInv'
  BY <1>1, <1>4, <1>5, <1>6, <1>7, <1>8 DEF BooksInv
<1>10. Tightens(s, s')
  BY <1>1, FollowTightens
<1>11. QED BY <1>9, <1>10

LEMMA MultiKeeps == BooksInv /\ WalkMulti => BooksInv' /\ Tightens(s, s')
<1> SUFFICES ASSUME BooksInv, WalkMulti PROVE BooksInv' /\ Tightens(s, s')
  OBVIOUS
<1> DEFINE e == Event(n + 1)
<1>1. /\ Name = "multi" /\ n < Len(Events) /\ n' = n + 1 /\ script' = script /\ reported' = reported
      /\ \E bar \in Candidates(e.sym), in \in Asked(n + 1) :
           /\ lastbar' = [lastbar EXCEPT ![e.sym] = [c |-> bar.c]]
           /\ hist' = IF LooksBack THEN [hist EXCEPT ![e.sym] = Append(@, bar)] ELSE hist
           /\ s' = MsStep(s, e, bar, in)
  BY DEF WalkMulti, Walked
<1>2. PICK bar \in Candidates(e.sym), in \in Asked(n + 1) :
           /\ lastbar' = [lastbar EXCEPT ![e.sym] = [c |-> bar.c]]
           /\ hist' = IF LooksBack THEN [hist EXCEPT ![e.sym] = Append(@, bar)] ELSE hist
           /\ s' = MsStep(s, e, bar, in)
  BY <1>1
<1>3. ~Gold /\ n \in Nat /\ Books("multi", s, n)
  BY <1>1 DEF Gold, BooksInv
<1>4. e.n = n + 1 /\ e.sym \in DOMAIN StoredHtf
  BY <1>1, <1>3, EventIs
<1>5. Tracked(e, bar)
  BY <1>1, <1>2 DEF Tracked
<1> HIDE DEF e
<1>6. bar \in Candle /\ in.sig \in Signals /\ Append(hist[e.sym], bar) \in Seq(Candle)
  BY <1>1, <1>2, <1>3, WalkedIs DEF e
<1>7. LadderEnd(Walk(s, e, bar), e, bar, in.sig, s')
  BY <1>2, MsEnds
<1>8. Books("multi", s', n + 1) /\ Follows(s, s', n + 1)
  <2>1. "multi" \in {"multi", "silver", "flip"} /\ n \in Int
    BY <1>3
  <2>2. QED BY <1>3, <1>4, <1>6, <1>7, <2>1, LadderSteps
<1>9. QED BY <1>1, <1>3, <1>5, <1>6, <1>8, WalkedKeeps DEF e

LEMMA SilverKeeps == BooksInv /\ WalkSilver => BooksInv' /\ Tightens(s, s')
<1> SUFFICES ASSUME BooksInv, WalkSilver PROVE BooksInv' /\ Tightens(s, s')
  OBVIOUS
<1> DEFINE e == Event(n + 1)
<1>1. /\ Name = "silver" /\ n < Len(Events) /\ n' = n + 1 /\ script' = script /\ reported' = reported
      /\ \E bar \in Candidates(e.sym), in \in Asked(n + 1) :
           /\ lastbar' = [lastbar EXCEPT ![e.sym] = [c |-> bar.c]]
           /\ hist' = IF LooksBack THEN [hist EXCEPT ![e.sym] = Append(@, bar)] ELSE hist
           /\ s' = SbStep(s, e, bar, in)
  BY DEF WalkSilver, Walked
<1>2. PICK bar \in Candidates(e.sym), in \in Asked(n + 1) :
           /\ lastbar' = [lastbar EXCEPT ![e.sym] = [c |-> bar.c]]
           /\ hist' = IF LooksBack THEN [hist EXCEPT ![e.sym] = Append(@, bar)] ELSE hist
           /\ s' = SbStep(s, e, bar, in)
  BY <1>1
<1>3. ~Gold /\ n \in Nat /\ Books("silver", s, n)
  BY <1>1 DEF Gold, BooksInv
<1>4. e.n = n + 1 /\ e.sym \in DOMAIN StoredHtf
  BY <1>1, <1>3, EventIs
<1>5. Tracked(e, bar)
  BY <1>1, <1>2 DEF Tracked
<1> HIDE DEF e
<1>6. bar \in Candle /\ in.sig \in Signals /\ Append(hist[e.sym], bar) \in Seq(Candle)
  BY <1>1, <1>2, <1>3, WalkedIs DEF e
<1>7. LadderEnd(Walk(s, e, bar), e, bar, in.sig, s')
  BY <1>2, SbEnds
<1>8. Books("silver", s', n + 1) /\ Follows(s, s', n + 1)
  <2>1. "silver" \in {"multi", "silver", "flip"} /\ n \in Int
    BY <1>3
  <2>2. QED BY <1>3, <1>4, <1>6, <1>7, <2>1, LadderSteps
<1>9. QED BY <1>1, <1>3, <1>5, <1>6, <1>8, WalkedKeeps DEF e

LEMMA FlipKeeps == BooksInv /\ WalkFlip => BooksInv' /\ Tightens(s, s')
<1> SUFFICES ASSUME BooksInv, WalkFlip PROVE BooksInv' /\ Tightens(s, s')
  OBVIOUS
<1> DEFINE e == Event(n + 1)
<1>1. /\ Name = "flip" /\ n < Len(Events) /\ n' = n + 1 /\ script' = script /\ reported' = reported
      /\ \E bar \in Candidates(e.sym), in \in Asked(n + 1) :
           /\ lastbar' = [lastbar EXCEPT ![e.sym] = [c |-> bar.c]]
           /\ hist' = IF LooksBack THEN [hist EXCEPT ![e.sym] = Append(@, bar)] ELSE hist
           /\ s' = SfStep(s, e, bar, in)
  BY DEF WalkFlip, Walked
<1>2. PICK bar \in Candidates(e.sym), in \in Asked(n + 1) :
           /\ lastbar' = [lastbar EXCEPT ![e.sym] = [c |-> bar.c]]
           /\ hist' = IF LooksBack THEN [hist EXCEPT ![e.sym] = Append(@, bar)] ELSE hist
           /\ s' = SfStep(s, e, bar, in)
  BY <1>1
<1>3. ~Gold /\ n \in Nat /\ Books("flip", s, n)
  BY <1>1 DEF Gold, BooksInv
<1>4. e.n = n + 1 /\ e.sym \in DOMAIN StoredHtf
  BY <1>1, <1>3, EventIs
<1>5. Tracked(e, bar)
  BY <1>1, <1>2 DEF Tracked
<1> HIDE DEF e
<1>6. bar \in Candle /\ in.sig \in Signals /\ Append(hist[e.sym], bar) \in Seq(Candle)
  BY <1>1, <1>2, <1>3, WalkedIs DEF e
<1>7. LadderEnd(Walk(s, e, bar), e, bar, in.sig, s')
  BY <1>2, SfEnds
<1>8. Books("flip", s', n + 1) /\ Follows(s, s', n + 1)
  <2>1. "flip" \in {"multi", "silver", "flip"} /\ n \in Int
    BY <1>3
  <2>2. QED BY <1>3, <1>4, <1>6, <1>7, <2>1, LadderSteps
<1>9. QED BY <1>1, <1>3, <1>5, <1>6, <1>8, WalkedKeeps DEF e

LEMMA SweepKeeps == BooksInv /\ WalkSweep => BooksInv' /\ Tightens(s, s')
<1> SUFFICES ASSUME BooksInv, WalkSweep PROVE BooksInv' /\ Tightens(s, s')
  OBVIOUS
<1> DEFINE e == Event(n + 1)
           past(bar) == Append(hist[e.sym], bar)
<1>1. /\ Sweep /\ n < Len(Events) /\ n' = n + 1 /\ script' = script /\ reported' = reported
      /\ \E bar \in Candidates(e.sym), in \in Asked(n + 1) :
           /\ lastbar' = [lastbar EXCEPT ![e.sym] = [c |-> bar.c]]
           /\ hist' = IF LooksBack THEN [hist EXCEPT ![e.sym] = Append(@, bar)] ELSE hist
           /\ s' = SwStep(s, e, bar, in, past(bar), Name, DdHalts)
  BY DEF WalkSweep, Walked
<1>2. PICK bar \in Candidates(e.sym), in \in Asked(n + 1) :
           /\ lastbar' = [lastbar EXCEPT ![e.sym] = [c |-> bar.c]]
           /\ hist' = IF LooksBack THEN [hist EXCEPT ![e.sym] = Append(@, bar)] ELSE hist
           /\ s' = SwStep(s, e, bar, in, past(bar), Name, DdHalts)
  BY <1>1
<1>3. ~Gold /\ n \in Nat /\ Name \in VARIANTS /\ Books(Name, s, n)
  BY <1>1 DEF Gold, Sweep, VARIANTS, BooksInv
<1>4. e.n = n + 1 /\ e.k \in Int /\ e.sym \in DOMAIN StoredHtf
  BY <1>1, <1>3, EventIs
<1>5. Tracked(e, bar)
  BY <1>1, <1>2 DEF Tracked
<1> HIDE DEF e
<1>6. bar \in Candle /\ in.sig \in Signals /\ past(bar) \in Seq(Candle)
  BY <1>1, <1>2, <1>3, WalkedIs DEF e
<1>7. Books(Name, s', n + 1) /\ Follows(s, s', n + 1)
  <2> DEFINE v == Name
             q == past(bar)
  <2>1. v \in VARIANTS /\ n \in Int /\ Books(v, s, n) /\ q \in Seq(Candle)
    BY <1>3, <1>6
  <2>2. s' = SwStep(s, e, bar, in, q, v, DdHalts)
    BY <1>2
  <2> HIDE DEF v, q
  <2>3. Books(v, s', n + 1) /\ Follows(s, s', n + 1)
    BY <1>4, <1>6, <2>1, <2>2, SwSteps
  <2>4. QED BY <2>3 DEF v
<1>8. QED BY <1>1, <1>3, <1>5, <1>6, <1>7, WalkedKeeps DEF e

LEMMA GoldKeeps == BooksInv /\ WalkGold => BooksInv' /\ Tightens(s, s')
<1> SUFFICES ASSUME BooksInv, WalkGold PROVE BooksInv' /\ Tightens(s, s')
  OBVIOUS
<1> DEFINE e == Event(n + 1)
           one(bar) == [bar EXCEPT !.t = e.t, !.done = e.t + 1]
           v1(bar) == Append(hist[GOLD], one(bar))
<1>1. /\ Gold /\ n < Len(Events) /\ n' = n + 1 /\ script' = script /\ reported' = reported
      /\ \E bar \in GoldBars[n + 1], news \in {FALSE, n + 1 \in GoldNews} :
           /\ lastbar' = [lastbar EXCEPT ![GOLD] = bar]
           /\ hist' = [hist EXCEPT ![GOLD] = v1(bar)]
           /\ s' = GoldStep(s, e, v1(bar), news)
  BY DEF WalkGold
<1>2. PICK bar \in GoldBars[n + 1], news \in {FALSE, n + 1 \in GoldNews} :
           /\ lastbar' = [lastbar EXCEPT ![GOLD] = bar]
           /\ hist' = [hist EXCEPT ![GOLD] = v1(bar)]
           /\ s' = GoldStep(s, e, v1(bar), news)
  BY <1>1
<1>3. /\ n \in Nat /\ Name = "gold" /\ Books("gold", s, n) /\ GoldKept(s)
      /\ hist[GOLD] \in Seq(GoldBar) /\ GOLD \in DOMAIN hist /\ GOLD \in DOMAIN lastbar
  BY <1>1 DEF Gold, BooksInv
<1>4. e.n = n + 1 /\ e.t \in Int /\ n + 1 \in DOMAIN GoldTimes /\ Len(Events) \in Nat
  BY <1>1, <1>3, EventIs
<1>5. bar \in GoldBar
  BY <1>4, DataAssumption
<1> HIDE DEF e
<1>6. one(bar) \in GoldBar
  <2> DEFINE t == e.t
             d == e.t + 1
             x == [bar EXCEPT !.t = t, !.done = d]
  <2>1. t \in Int /\ d \in Int
    BY <1>4
  <2> HIDE DEF t, d
  <2>2. x \in GoldBar
    BY <1>5, <2>1 DEF GoldBar
  <2>3. QED BY <2>2 DEF t, d
<1> HIDE DEF one
<1>7. v1(bar) \in Seq(GoldBar) /\ v1(bar) # <<>>
  <2> DEFINE q == hist[GOLD]
             x == one(bar)
  <2>1. q \in Seq(GoldBar) /\ x \in GoldBar
    BY <1>3, <1>6
  <2> HIDE DEF q, x
  <2> DEFINE A == GoldBar
             z == Append(q, x)
  <2>1a. q \in Seq(A) /\ x \in A
    BY <2>1
  <2> HIDE DEF A
  <2>1b. z \in Seq(A) /\ Len(z) = Len(q) + 1 /\ Len(q) \in Nat
    BY <2>1a, AppendProperties
  <2>1c. z # <<>>
    BY <2>1b
  <2>2. Append(q, x) \in Seq(GoldBar) /\ Append(q, x) # <<>>
    BY <2>1b, <2>1c DEF A
  <2>3. QED BY <2>2 DEF q, x
<1> HIDE DEF v1
<1>8. Books("gold", s', n + 1) /\ Follows(s, s', n + 1) /\ GoldKept(s')
  <2>1. n \in Int
    BY <1>3
  <2>2. QED BY <1>2, <1>3, <1>4, <1>7, <2>1, GoldSteps
<1>9. ~reported
  BY <1>1, <1>3, <1>4 DEF BooksInv
<1>10. Name' = "gold" /\ Gold' /\ n' \in Nat /\ ~reported' /\ script' \in Scripts
  BY <1>1, <1>3, <1>9 DEF Name, Gold, BooksInv
<1>11. /\ GOLD \in DOMAIN hist' /\ hist'[GOLD] \in Seq(GoldBar)
       /\ GOLD \in DOMAIN lastbar' /\ lastbar'[GOLD] \in GoldBar
  BY <1>2, <1>3, <1>5, <1>7
<1>12. BooksInv'
  BY <1>1, <1>8, <1>10, <1>11 DEF BooksInv
<1>13. Tightens(s, s')
  <2>1. n \in Int
    BY <1>3
  <2>2. QED BY <1>3, <1>8, <2>1, FollowTightens
<1>14. QED BY <1>12, <1>13

LEMMA FinishBooks == BooksInv /\ Finish => BooksInv' /\ Tightens(s, s')
<1> SUFFICES ASSUME BooksInv, Finish PROVE BooksInv' /\ Tightens(s, s')
  OBVIOUS
<1>1. /\ n = Len(Events) /\ reported' = TRUE /\ script' = script /\ n' = n /\ hist' = hist
      /\ lastbar' = lastbar
  BY DEF Finish
<1>2. n \in Nat /\ n \in Int /\ script \in Scripts /\ Books(Name, s, n)
  BY DEF BooksInv
<1>3. Name' = Name /\ Gold' = Gold /\ Events' = Events
  BY <1>1 DEF Name, Gold, Events
<1>4. Books(Name, s', n) /\ s'.open = <<>> /\ (Gold => GoldKept(s'))
  <2>1. CASE Gold
    <3>1. s' = GoldFinish(s, lastbar[GOLD], [Event(n) EXCEPT !.n = n + 1]) /\ Name = "gold"
      BY <1>2, <2>1, NameIs DEF Finish, VARIANTS
    <3>2. GoldKept(s) /\ (s.open # <<>> => lastbar[GOLD] \in GoldBar)
      BY <2>1 DEF BooksInv
    <3> DEFINE b == lastbar[GOLD]
               e == [Event(n) EXCEPT !.n = n + 1]
    <3> HIDE DEF b, e
    <3>3. Books("gold", s', n) /\ GoldKept(s') /\ s'.open = <<>>
      BY <1>2, <3>1, <3>2, GoldFinishKeeps DEF b, e
    <3>4. QED BY <3>1, <3>3
  <2>2. CASE ~Gold
    <3> DEFINE w == MsFinish(s, lastbar, n + 1)
    <3>1. Name # "gold" /\ \A x \in DOMAIN StoredHtf : lastbar[x].c \in Int
      BY <2>2 DEF Gold, BooksInv
    <3>2. Books(Name, w, n) /\ w.open = <<>>
      BY <1>2, <3>1, FinishKeeps
    <3>3. s' = w \/ s' = EquityLog(w)
      BY <1>2, <2>2, NameIs DEF Finish, SbFinish, SfFinish, SwFinish, VARIANTS
    <3> HIDE DEF w
    <3>4. Same(w, w) /\ Same(w, EquityLog(w))
      BY <3>2, HelpersKeep DEF Books, Accounts
    <3>5. Same(w, s')
      BY <3>3, <3>4
    <3>6. Books(Name, s', n) /\ s'.open = <<>>
      BY <3>2, <3>5, SameKeeps DEF Same
    <3>7. QED BY <2>2, <3>6
  <2>3. QED BY <2>1, <2>2
<1>5. BooksInv'
  <2>1. ~Gold => /\ hist \in [DOMAIN StoredHtf -> Seq(Candle)]
                 /\ DOMAIN lastbar = DOMAIN StoredHtf
                 /\ \A x \in DOMAIN StoredHtf : lastbar[x].c \in Int
    BY DEF BooksInv
  <2>2. Gold => GOLD \in DOMAIN hist /\ hist[GOLD] \in Seq(GoldBar) /\ GOLD \in DOMAIN lastbar
    BY DEF BooksInv
  <2>3. QED BY <1>1, <1>2, <1>3, <1>4, <2>1, <2>2 DEF BooksInv
<1>6. Tightens(s, s')
  BY <1>2, <1>4, FollowTightens
<1>7. QED BY <1>5, <1>6

LEMMA RestKeeps == BooksInv /\ (Done \/ UNCHANGED vars) => BooksInv' /\ Tightens(s, s')
<1> SUFFICES ASSUME BooksInv, UNCHANGED vars PROVE BooksInv' /\ Tightens(s, s')
  BY DEF Done
<1>1. /\ script' = script /\ s' = s /\ n' = n /\ hist' = hist /\ lastbar' = lastbar
      /\ reported' = reported
  BY DEF vars
<1>2. BooksInv'
  BY <1>1 DEF BooksInv, Name, Gold, Events
<1>3. Tightens(s, s')
  <2>1. n \in Int /\ Books(Name, s, n) /\ s'.open = s.open /\ Books(Name, s', n)
    BY <1>1 DEF BooksInv
  <2>2. QED BY <2>1, FollowTightens
<1>4. QED BY <1>2, <1>3

LEMMA BooksStep == BooksInv /\ [Next]_vars => BooksInv' /\ Tightens(s, s')
  BY MultiKeeps, SilverKeeps, FlipKeeps, SweepKeeps, GoldKeeps, FinishBooks, RestKeeps DEF Next

\* In every state the fills of a closed trade are its lot and its profit what
\* they earned less the commission, those of an open trade its lot without what
\* is left, the balance is the initial one and what the trades earned, and after
\* the last event nothing is open.
THEOREM BooksBalance == Spec => []TradesAddUp
<1>1. BooksInv => TradesAddUp
  <2> SUFFICES ASSUME BooksInv PROVE TradesAddUp
    OBVIOUS
  <2>1. Accounts(s) /\ \A i \in DOMAIN s.open : IsOpen(s.open[i])
    BY DEF BooksInv, Books
  <2>2. reported => s.open = <<>>
    BY DEF BooksInv
  <2>3. \A i \in DOMAIN s.closed : IsClosed(s.closed[i])
    BY <2>1 DEF Accounts
  <2>4. s.bal = INITIAL_BALANCE + Total(s.closed)
    BY <2>1 DEF Accounts
  <2>5. QED BY <2>1, <2>2, <2>3, <2>4 DEF TradesAddUp, IsOpen, IsClosed
<1>2. QED BY <1>1, BooksInit, BooksStep, PTL DEF Spec

\* No step of any script moves the stop of an open trade away from its market.
THEOREM StopsTighten == Spec => StopOnlyTightens
<1>1. Tightens(s, s') =>
        \A i \in DOMAIN s.open, j \in DOMAIN s'.open :
          LET old == s.open[i]  new == s'.open[j]
          IN  old.ev = new.ev => Sgn(old) * (new.sl - old.sl) >= 0
  BY DEF Tightens
<1>2. QED BY <1>1, BooksInit, BooksStep, PTL DEF Spec, StopOnlyTightens
=============================================================================
