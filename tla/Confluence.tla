------------------------------ MODULE Confluence ------------------------------
(***************************************************************************)
(* strategy/multi_setup_config.py: the signals of one scan that agree are  *)
(* merged, those that contradict each other dropped.  A signal is a record *)
(* of symbol, direction, entry (in pips), bar (its number), the name of    *)
(* its setup, its grade and its confidence (in hundredths); the signals of *)
(* a scan are a sequence, in the order they were found.                    *)
(***************************************************************************)
EXTENDS Integers, Sequences, FiniteSets
LOCAL INSTANCE SequencesExt
LOCAL INSTANCE FiniteSetsExt

CONFLUENCE_PRICE_TOL_PIPS   == 5
CONFLUENCE_BAR_TOL_LTF      == 3
CONFLUENCE_CONFIDENCE_BOOST == 15
SETUP_RANK == [BOS_RETEST |-> 4, ORDER_BLOCK |-> 3, LIQ_SWEEP |-> 2, SR_REJECTION |-> 1]
GRADE_RANK == [A |-> 2, B |-> 1]

\* _within_confluence_window
Near(x, y, tol) == x - y <= tol /\ y - x <= tol
within_confluence_window(a, b) ==
  /\ a.symbol = b.symbol
  /\ Near(a.entry, b.entry, CONFLUENCE_PRICE_TOL_PIPS)
  /\ Near(a.bar, b.bar, CONFLUENCE_BAR_TOL_LTF)

Pick(s, I) == [i \in 1 .. Cardinality(I) |-> s[SetToSortSeq(I, <)[i]]]

\* _merge_confluence: the earliest gives the trade, the best the grade.
merge_confluence(group) ==
  LET first == CHOOSE i \in DOMAIN group : \A j \in DOMAIN group :
                 group[i].bar < group[j].bar \/ (group[i].bar = group[j].bar /\ i <= j)
      best == Max({group[i].confidence : i \in DOMAIN group})
      a == \E i \in DOMAIN group : group[i].grade = "A"
  IN  [group[first] EXCEPT
         !.setups = UNION {group[i].setups : i \in DOMAIN group},
         !.confidence = Min({100, best + CONFLUENCE_CONFIDENCE_BOOST}),
         !.grade = IF a THEN "A" ELSE @]

\* The survivors of one pair: a signal goes if any other contradicts it.
\* Variant: of two the later one goes.
Survivors_LaterGoes(sigs) ==
  Pick(sigs, {i \in DOMAIN sigs : \A j \in 1 .. i - 1 :
     sigs[i].dir = sigs[j].dir \/ ~within_confluence_window(sigs[i], sigs[j])})
Survivors(sigs) ==
  Pick(sigs, {i \in DOMAIN sigs : \A j \in DOMAIN sigs :
     sigs[i].dir = sigs[j].dir \/ ~within_confluence_window(sigs[i], sigs[j])})

\* Each survivor that no group has yet gathers those that agree with it.
Grouped(sigs) ==
  FoldLeft(LAMBDA m, i :
             LET g == {j \in i .. Len(sigs) : j \notin m.used /\
                         (j = i \/ (sigs[i].dir = sigs[j].dir /\
                                    within_confluence_window(sigs[i], sigs[j])))}
             IN  IF i \in m.used THEN m
                 ELSE [used |-> m.used \cup g,
                       out |-> Append(m.out, IF Cardinality(g) >= 2
                                             THEN merge_confluence(Pick(sigs, g))
                                             ELSE sigs[i])],
           [used |-> {}, out |-> <<>>], [i \in 1 .. Len(sigs) |-> i]).out

\* The best first; a merged signal ranks by the first of its setups' names.
FirstName(s) ==
  CHOOSE n \in s.setups : \A m \in s.setups :
    LET order == <<"BOS_RETEST", "LIQ_SWEEP", "ORDER_BLOCK", "SR_REJECTION">>
        at(x) == CHOOSE i \in DOMAIN order : order[i] = x
    IN  at(n) <= at(m)
Better(a, b) ==
  LET ga == GRADE_RANK[a.grade]        gb == GRADE_RANK[b.grade]
      ra == SETUP_RANK[FirstName(a)]   rb == SETUP_RANK[FirstName(b)]
  IN  \/ ga > gb
      \/ ga = gb /\ a.confidence > b.confidence
      \/ ga = gb /\ a.confidence = b.confidence /\ ra > rb

\* resolve_confluence
resolve_confluence(signals) ==
  LET pairs == {signals[i].symbol : i \in DOMAIN signals}
      of(p) == Grouped(Survivors(SelectSeq(signals, LAMBDA s : s.symbol = p)))
  IN  SortSeq(FoldLeft(LAMBDA out, p : out \o of(p), <<>>, SetToSeq(pairs)), Better)
=============================================================================
