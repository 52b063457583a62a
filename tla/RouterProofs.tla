----------------------------- MODULE RouterProofs -----------------------------
(***************************************************************************)
(* Proofs about OrderRouter, for any signals, windows, retries and bounds  *)
(* of the table of submissions, whichever of the broker's faults occur.    *)
(***************************************************************************)
EXTENDS OrderRouter, SequenceTheorems, TLAPS

-----------------------------------------------------------------------------
(***************************************************************************)
(* The inductive invariant.  The guard works because every market order    *)
(* still inside its window is in the table under its key with a stamp no   *)
(* older than its own, which the cleanup respects; the outcome is true     *)
(* because a call sends again only while it has no order at the broker.    *)
(***************************************************************************)
Order == [call : Nat, kind : Kinds, key : Keys, at : Nat]

RouterTypes ==
  /\ now \in 0 .. MaxNow /\ calls \in 0 .. MaxCalls
  /\ DOMAIN remembered \subseteq Keys /\ \A k \in DOMAIN remembered : remembered[k] \in 0 .. now
  /\ pc \in {"idle", "sending", "sleeping", "resolving"}
  /\ pc = "idle" => call = NoCall /\ attempt = 0
  /\ pc # "idle" => call \in RunningCall /\ call.no = calls /\ call.at <= now
  /\ attempt \in 0 .. MaxRetries /\ (pc = "sending" => attempt < MaxRetries)
  /\ ticket \in {0} \cup Tickets
  /\ deals \in Seq(Order)
  /\ \A t \in Tickets : deals[t].call \in 1 .. calls /\ deals[t].at <= now
  /\ gone \subseteq Tickets
  /\ blurred \in 0 .. MaxBlurred
  /\ \A r \in returned : r.call \in 1 .. calls /\ r.entry \in Tickets \cup {Quote}

\* An order inside its window is remembered.
WindowRemembered ==
  \A t \in Tickets :
    deals[t].kind = "market" /\ now - deals[t].at < DedupWindow
      => /\ deals[t].key \in DOMAIN remembered
         /\ deals[t].at <= remembered[deals[t].key]

\* The running market call is the last submission of its signal.
CallRemembered ==
  pc # "idle" /\ call.kind = "market"
    => call.key \in DOMAIN remembered /\ remembered[call.key] = call.at

\* The running call is a window apart from every earlier call's order.
CallIsApart ==
  pc # "idle" /\ call.kind = "market" =>
    \A t \in Tickets :
      deals[t].kind = "market" /\ deals[t].key = call.key /\ deals[t].call # call.no
        => call.at - deals[t].at >= DedupWindow

\* What the running call has at the broker.
Placed == {t \in Tickets : deals[t].call = call.no}
CallsOrder ==
  /\ pc = "resolving" => ticket = Len(deals) /\ ticket \in Placed
  /\ blurred = 0 => Placed = IF pc = "resolving" THEN {ticket} ELSE {}

\* Calls that are over and have an order are those that returned.
OverIsReturned ==
  /\ pc # "idle" => \A r \in returned : r.call < call.no
  /\ blurred = 0 => {deals[t].call : t \in Tickets} \ {call.no} = {r.call : r \in returned}

RouterInv ==
  /\ RouterTypes /\ WindowRemembered /\ CallRemembered /\ CallIsApart /\ CallsOrder
  /\ OverIsReturned /\ OneOrderPerWindow

-----------------------------------------------------------------------------
(* The constants, and what the types give a step. *)

LEMMA RouterFacts ==
  ASSUME RouterTypes
  PROVE  /\ MaxRetries \in Nat /\ MaxRetries > 0 /\ DedupWindow \in Nat /\ MaxNow \in Nat
         /\ MaxCalls \in Nat /\ MaxBlurred \in Nat
         /\ now \in Nat /\ calls \in Nat /\ blurred \in Nat /\ attempt \in Nat
         /\ Len(deals) \in Nat /\ Tickets = 1 .. Len(deals) /\ DOMAIN deals = Tickets
         /\ \A t \in Tickets :
              /\ t \in Nat /\ t > 0 /\ t <= Len(deals)
              /\ deals[t] \in Order /\ deals[t].call \in Nat /\ deals[t].call > 0
              /\ deals[t].call <= calls /\ deals[t].at \in Nat /\ deals[t].at <= now
         /\ \A k \in DOMAIN remembered : remembered[k] \in Nat /\ remembered[k] <= now
         /\ pc # "idle" => /\ call.no \in Nat /\ call.no = calls /\ call.no > 0
                           /\ call.kind \in Kinds /\ call.key \in Keys
                           /\ call.at \in Nat /\ call.at <= now
<1>1. /\ MaxRetries \in Nat /\ MaxRetries > 0 /\ DedupWindow \in Nat /\ MaxNow \in Nat
      /\ MaxCalls \in Nat /\ MaxBlurred \in Nat
  BY RouterAssumption DEF RouterAssumption
<1>2. /\ now \in Nat /\ calls \in Nat /\ blurred \in Nat /\ attempt \in Nat
  BY <1>1 DEF RouterTypes
<1>3. deals \in Seq(Order) /\ \A t \in Tickets : deals[t].call \in 1 .. calls /\ deals[t].at <= now
  BY DEF RouterTypes
<1>4. /\ Len(deals) \in Nat /\ Tickets = 1 .. Len(deals) /\ DOMAIN deals = Tickets
      /\ \A t \in Tickets : t \in Nat /\ t > 0 /\ t <= Len(deals) /\ deals[t] \in Order
  BY <1>3 DEF Tickets
<1>5. \A t \in Tickets : deals[t].at \in Nat
  BY <1>4 DEF Order
<1>6. \A k \in DOMAIN remembered : remembered[k] \in Nat /\ remembered[k] <= now
  BY <1>2 DEF RouterTypes
<1>7. ASSUME pc # "idle"
      PROVE  /\ call.no \in Nat /\ call.no = calls /\ call.no > 0
             /\ call.kind \in Kinds /\ call.key \in Keys
             /\ call.at \in Nat /\ call.at <= now
  <2>1. call \in RunningCall /\ call.no = calls /\ call.at <= now
    BY <1>7 DEF RouterTypes
  <2> QED BY <1>1, <2>1 DEF RunningCall
<1> QED BY <1>1, <1>2, <1>3, <1>4, <1>5, <1>6, <1>7

LEMMA RouterInit == Init => RouterInv
<1> SUFFICES ASSUME Init PROVE RouterInv
  OBVIOUS
<1>1. /\ now = 0 /\ DOMAIN remembered = {} /\ pc = "idle" /\ call = NoCall /\ attempt = 0
      /\ ticket = 0 /\ deals = <<>> /\ gone = {} /\ calls = 0 /\ returned = {} /\ blurred = 0
      /\ MaxNow \in Nat /\ MaxCalls \in Nat /\ MaxRetries \in Nat /\ MaxBlurred \in Nat
  BY RouterAssumption DEF Init, RouterAssumption
<1>2. Tickets = {} /\ deals \in Seq(Order)
  BY <1>1 DEF Tickets
<1>3. RouterTypes
  BY <1>1, <1>2 DEF RouterTypes
<1> QED BY <1>1, <1>2, <1>3
        DEF RouterInv, WindowRemembered, CallRemembered, CallIsApart, CallsOrder, Placed,
            OverIsReturned, OneOrderPerWindow

\* The broker executes the order of the running call.
LEMMA ExecutedOrder ==
  ASSUME RouterInv, pc = "sending", Executed, UNCHANGED <<now, remembered, calls, gone>>,
         blurred' \in Nat, blurred' >= blurred
  PROVE  /\ deals' \in Seq(Order) /\ Len(deals') = Len(deals) + 1
         /\ Len(deals') \notin Tickets /\ Tickets' = Tickets \cup {Len(deals')}
         /\ deals'[Len(deals')].call = call.no
         /\ \A t \in Tickets : deals'[t] = deals[t]
         /\ \A t \in Tickets' : deals'[t].call \in 1 .. calls /\ deals'[t].at <= now
         /\ WindowRemembered' /\ OneOrderPerWindow'
<1> DEFINE o == [call |-> call.no, kind |-> call.kind, key |-> call.key, at |-> call.at]
           n == Len(deals) + 1
<1>t. RouterTypes
  BY DEF RouterInv
<1>c. /\ call.no \in Nat /\ call.no = calls /\ call.no > 0
      /\ call.kind \in Kinds /\ call.key \in Keys /\ call.at \in Nat /\ call.at <= now
  BY <1>t, RouterFacts
<1>1. deals' = Append(deals, o)
  BY DEF Executed
<1>2. o \in Order /\ o.call = call.no /\ o.kind = call.kind /\ o.key = call.key /\ o.at = call.at
  BY <1>c DEF Order
<1> HIDE DEF o
<1>3. deals \in Seq(Order) /\ Len(deals) \in Nat /\ Tickets = 1 .. Len(deals)
  BY <1>t, RouterFacts DEF RouterTypes
<1>4. /\ deals' \in Seq(Order) /\ Len(deals') = n /\ deals'[n] = o
      /\ \A t \in Tickets : deals'[t] = deals[t]
  BY <1>1, <1>2, <1>3, AppendProperties
<1>5. n \notin Tickets /\ Tickets' = Tickets \cup {n} /\ \A t \in Tickets : t < n
  BY <1>3, <1>4 DEF Tickets
<1> HIDE DEF n
<1>6. \A t \in Tickets' : deals'[t].call \in 1 .. calls /\ deals'[t].at <= now
  BY <1>2, <1>4, <1>5, <1>c, <1>t DEF RouterTypes
<1>7. WindowRemembered'
  <2> SUFFICES ASSUME NEW t \in Tickets', deals'[t].kind = "market",
                      now - deals'[t].at < DedupWindow
               PROVE  /\ deals'[t].key \in DOMAIN remembered
                      /\ deals'[t].at <= remembered[deals'[t].key]
    BY DEF WindowRemembered
  <2>1. CASE t \in Tickets
    BY <1>4, <2>1 DEF RouterInv, WindowRemembered
  <2>2. CASE t = n
    <3>1. call.key \in DOMAIN remembered /\ remembered[call.key] = call.at
      BY <1>2, <1>4, <2>2 DEF RouterInv, CallRemembered
    <3> QED BY <1>2, <1>4, <1>c, <2>2, <3>1
  <2> QED BY <1>5, <2>1, <2>2
<1>8. OneOrderPerWindow'
  <2> SUFFICES ASSUME NEW t \in Tickets', NEW u \in Tickets', t < u, blurred = 0,
                      deals'[t].kind = "market", deals'[u].kind = "market",
                      deals'[t].key = deals'[u].key
               PROVE  deals'[t].call # deals'[u].call /\ deals'[u].at - deals'[t].at >= DedupWindow
    <3>1. blurred \in Nat /\ (blurred' = 0 => blurred = 0)
      BY <1>t, RouterFacts
    <3> QED BY <3>1 DEF OneOrderPerWindow
  <2>1. CASE u \in Tickets
    <3>1. t \in Tickets
      BY <1>5, <1>3, <2>1
    <3> QED BY <1>4, <2>1, <3>1 DEF RouterInv, OneOrderPerWindow
  <2>2. CASE u = n
    <3>1. t \in Tickets
      BY <1>5, <2>2, <1>3 DEF n
    <3>2. deals[t].call # call.no
      BY <3>1 DEF RouterInv, CallsOrder, Placed
    <3>3. call.at - deals[t].at >= DedupWindow
      BY <1>2, <1>4, <2>2, <3>1, <3>2 DEF RouterInv, CallIsApart
    <3> QED BY <1>2, <1>4, <2>2, <3>1, <3>2, <3>3
  <2> QED BY <1>5, <2>1, <2>2
<1> QED BY <1>2, <1>4, <1>5, <1>6, <1>7, <1>8 DEF n

\* A call ends: by raising, which leaves no order there, or by returning.
LEMMA CallOver ==
  ASSUME RouterInv, pc # "idle", Raise, UNCHANGED <<now, remembered, calls, gone>>,
         deals' \in Seq(Order), Tickets \subseteq Tickets',
         \A t \in Tickets' : deals'[t].call \in 1 .. calls /\ deals'[t].at <= now,
         blurred' \in 0 .. MaxBlurred,
         \A r \in returned' : r.call \in 1 .. calls /\ r.entry \in Tickets' \cup {Quote},
         blurred' = 0 => {deals'[t].call : t \in Tickets'} = {r.call : r \in returned'},
         WindowRemembered', OneOrderPerWindow'
  PROVE  RouterInv'
<1>t. RouterTypes
  BY DEF RouterInv
<1>1. pc' = "idle" /\ call' = NoCall /\ attempt' = 0 /\ ticket' = 0
  BY DEF Raise
<1>2. call'.no = 0 /\ \A t \in Tickets' : deals'[t].call # 0
  BY <1>1, <1>t, RouterFacts DEF NoCall
<1>3. RouterTypes'
  BY <1>1, <1>t, RouterFacts DEF RouterTypes
<1>4. Placed' = {}
  BY <1>2 DEF Placed
<1>5. CallRemembered' /\ CallIsApart' /\ CallsOrder'
  BY <1>1, <1>4 DEF CallRemembered, CallIsApart, CallsOrder
<1>6. OverIsReturned'
  BY <1>1, <1>2 DEF OverIsReturned
<1> QED BY <1>3, <1>5, <1>6 DEF RouterInv

-----------------------------------------------------------------------------
(* One lemma for each action. *)

LEMMA ClockAndBroker ==
  RouterInv /\ (Tick \/ (\E t \in Tickets : BrokerCloses(t)) \/ UNCHANGED vars) => RouterInv'
<1> SUFFICES ASSUME RouterInv,
                    Tick \/ (\E t \in Tickets : BrokerCloses(t)) \/ UNCHANGED vars
             PROVE  RouterInv'
  OBVIOUS
<1>t. RouterTypes
  BY DEF RouterInv
<1>1. /\ UNCHANGED <<remembered, pc, call, attempt, ticket, deals, calls, returned, blurred>>
      /\ now' \in 0 .. MaxNow /\ now' >= now /\ gone' \subseteq Tickets
  <2>1. CASE Tick
    BY <1>t, <2>1, RouterFacts DEF Tick, RouterTypes
  <2>2. CASE \E t \in Tickets : BrokerCloses(t)
    BY <1>t, <2>2, RouterFacts DEF BrokerCloses, RouterTypes
  <2>3. CASE UNCHANGED vars
    BY <1>t, <2>3, RouterFacts DEF vars, RouterTypes
  <2> QED BY <2>1, <2>2, <2>3
<1>2. Tickets' = Tickets /\ Placed' = Placed /\ now' \in Nat
  BY <1>1, <1>t, RouterFacts DEF Tickets, Placed
<1>3. RouterTypes'
  <2>1. \A k \in DOMAIN remembered : remembered[k] \in 0 .. now'
    BY <1>1, <1>2, <1>t, RouterFacts
  <2>2. \A t \in Tickets : deals[t].at <= now'
    BY <1>1, <1>2, <1>t, RouterFacts
  <2>3. pc # "idle" => call.at <= now'
    BY <1>1, <1>2, <1>t, RouterFacts
  <2> QED BY <1>1, <1>2, <1>t, <2>1, <2>2, <2>3 DEF RouterTypes
<1>4. WindowRemembered'
  <2> SUFFICES ASSUME NEW t \in Tickets, deals[t].kind = "market",
                      now' - deals[t].at < DedupWindow
               PROVE  /\ deals[t].key \in DOMAIN remembered
                      /\ deals[t].at <= remembered[deals[t].key]
    BY <1>1, <1>2 DEF WindowRemembered
  <2>1. now - deals[t].at < DedupWindow
    BY <1>1, <1>2, <1>t, RouterFacts
  <2> QED BY <2>1 DEF RouterInv, WindowRemembered
<1>5. CallRemembered' /\ CallIsApart' /\ CallsOrder' /\ OverIsReturned' /\ OneOrderPerWindow'
  BY <1>1, <1>2 DEF RouterInv, CallRemembered, CallIsApart, CallsOrder, OverIsReturned,
     OneOrderPerWindow
<1> QED BY <1>3, <1>4, <1>5 DEF RouterInv

\* Recording a submission forgets nothing that is still inside its window.
LEMMA RecordedKeeps ==
  ASSUME RouterTypes, NEW key \in Keys
  PROVE  /\ DOMAIN Recorded(key) \subseteq Keys
         /\ \A k \in DOMAIN Recorded(key) : Recorded(key)[k] \in 0 .. now
         /\ key \in DOMAIN Recorded(key) /\ Recorded(key)[key] = now
         /\ \A k \in DOMAIN remembered :
              now - remembered[k] <= DedupWindow
                => k \in DOMAIN Recorded(key) /\ Recorded(key)[k] >= remembered[k]
<1> DEFINE table == [k \in DOMAIN remembered \cup {key} |->
                       IF k = key THEN now ELSE remembered[k]]
<1>1. /\ now \in Nat /\ DedupWindow \in Nat /\ DOMAIN remembered \subseteq Keys
      /\ \A k \in DOMAIN remembered : remembered[k] \in Nat /\ remembered[k] <= now
  BY RouterFacts DEF RouterTypes
<1>2. /\ DOMAIN table = DOMAIN remembered \cup {key}
      /\ \A k \in DOMAIN table : table[k] \in Nat /\ table[k] <= now
      /\ table[key] = now
      /\ \A k \in DOMAIN remembered : table[k] >= remembered[k]
  BY <1>1
<1>3. Recorded(key) = table
      \/ Recorded(key) = [k \in {j \in DOMAIN table : table[j] >= now - DedupWindow} |-> table[k]]
  BY DEF Recorded, Cleaned
<1> HIDE DEF table
<1>4. CASE Recorded(key) = table
  BY <1>1, <1>2, <1>4
<1>5. CASE Recorded(key)
             = [k \in {j \in DOMAIN table : table[j] >= now - DedupWindow} |-> table[k]]
  <2> DEFINE kept == {j \in DOMAIN table : table[j] >= now - DedupWindow}
  <2>1. DOMAIN Recorded(key) = kept /\ \A k \in kept : Recorded(key)[k] = table[k]
    BY <1>5
  <2>2. key \in kept
    BY <1>1, <1>2
  <2>3. ASSUME NEW k \in DOMAIN remembered, now - remembered[k] <= DedupWindow
        PROVE  k \in kept
    BY <1>1, <1>2, <2>3
  <2>4. kept \subseteq DOMAIN table
    OBVIOUS
  <2> HIDE DEF kept
  <2>5. \A k \in kept : table[k] \in 0 .. now
    BY <1>1, <1>2, <2>4
  <2> QED BY <1>1, <1>2, <2>1, <2>2, <2>3, <2>4, <2>5
<1> QED BY <1>3, <1>4, <1>5

LEMMA CallKeeps ==
  \A kind \in Kinds, key \in Keys : RouterInv /\ Call(kind, key) => RouterInv'
<1> SUFFICES ASSUME NEW kind \in Kinds, NEW key \in Keys, RouterInv, Call(kind, key)
             PROVE  RouterInv'
  OBVIOUS
<1>t. RouterTypes
  BY DEF RouterInv
<1>1. /\ pc = "idle" /\ calls < MaxCalls /\ calls' = calls + 1
      /\ UNCHANGED <<now, attempt, ticket, deals, gone, returned, blurred>>
  BY DEF Call
<1>2. /\ Tickets' = Tickets /\ call = NoCall /\ attempt = 0
      /\ calls \in Nat /\ calls' \in 0 .. MaxCalls /\ calls' \in Nat /\ now \in Nat
      /\ MaxRetries > 0 /\ MaxRetries \in Nat /\ MaxNow \in Nat /\ MaxCalls \in Nat
  BY <1>1, <1>t, RouterFacts DEF Tickets, RouterTypes
<1>3. /\ \A t \in Tickets : deals[t].call \in 1 .. calls' /\ deals[t].call # calls + 1
      /\ \A t \in Tickets : deals[t].call # 0
      /\ \A r \in returned : r.call \in 1 .. calls' /\ r.call < calls + 1
  BY <1>1, <1>2, <1>t, RouterFacts DEF RouterTypes
<1>4. CASE kind = "market" /\ Duplicate(key)
  <2>1. UNCHANGED <<remembered, pc, call>>
    BY <1>4 DEF Call
  <2>2. RouterTypes'
    BY <1>1, <1>2, <1>3, <1>t, <2>1 DEF RouterTypes
  <2>3. Placed' = Placed
    BY <1>1, <1>2, <2>1 DEF Placed
  <2> QED BY <1>1, <1>2, <2>1, <2>2, <2>3
          DEF RouterInv, WindowRemembered, CallRemembered, CallIsApart, CallsOrder,
              OverIsReturned, OneOrderPerWindow
<1>5. CASE ~(kind = "market" /\ Duplicate(key))
  <2> DEFINE c == [no |-> calls + 1, kind |-> kind, key |-> key, at |-> now]
  <2>1. /\ call' = c /\ pc' = "sending"
        /\ remembered' = IF kind = "market" THEN Recorded(key) ELSE remembered
    BY <1>5 DEF Call
  <2>2. c \in RunningCall /\ c.no = calls + 1 /\ c.kind = kind /\ c.key = key /\ c.at = now
    <3>1. calls + 1 \in 1 .. MaxCalls /\ now \in 0 .. MaxNow
      BY <1>1, <1>2, <1>t DEF RouterTypes
    <3> QED BY <3>1 DEF RunningCall
  <2> HIDE DEF c
  <2>3. /\ DOMAIN remembered' \subseteq Keys
        /\ \A k \in DOMAIN remembered' : remembered'[k] \in 0 .. now
        /\ kind = "market" => key \in DOMAIN remembered' /\ remembered'[key] = now
        /\ \A k \in DOMAIN remembered :
             now - remembered[k] <= DedupWindow
               => k \in DOMAIN remembered' /\ remembered'[k] >= remembered[k]
    <3>1. CASE kind = "market"
      BY <1>t, <2>1, <3>1, RecordedKeeps
    <3>2. CASE kind # "market"
      BY <1>t, <2>1, <3>2, RouterFacts DEF RouterTypes
    <3> QED BY <3>1, <3>2
  <2>4. RouterTypes'
    <3>1. now <= now
      BY <1>2
    <3>2. attempt' < MaxRetries /\ attempt' \in 0 .. MaxRetries
      BY <1>1, <1>2
    <3> QED BY <1>1, <1>2, <1>3, <1>t, <2>1, <2>2, <2>3, <3>1, <3>2 DEF RouterTypes
  <2>5. WindowRemembered'
    <3> SUFFICES ASSUME NEW t \in Tickets, deals[t].kind = "market",
                        now - deals[t].at < DedupWindow
                 PROVE  /\ deals[t].key \in DOMAIN remembered'
                        /\ deals[t].at <= remembered'[deals[t].key]
      BY <1>1, <1>2 DEF WindowRemembered
    <3> DEFINE k == deals[t].key
    <3>1. k \in DOMAIN remembered /\ deals[t].at <= remembered[k]
      BY DEF RouterInv, WindowRemembered
    <3>2. remembered[k] \in Nat /\ deals[t].at \in Nat /\ DedupWindow \in Nat
      BY <1>t, <3>1, RouterFacts
    <3>3. now - remembered[k] <= DedupWindow
      BY <1>2, <3>1, <3>2
    <3>4. k \in DOMAIN remembered' /\ remembered'[k] >= remembered[k] /\ remembered'[k] \in Nat
      BY <1>2, <2>3, <3>1, <3>3
    <3> QED BY <3>1, <3>2, <3>4
  <2>6. CallRemembered'
    BY <2>1, <2>2, <2>3 DEF CallRemembered
  \* The guard let the submission pass: no order of its signal is in the window.
  <2>7. CallIsApart'
    <3> SUFFICES ASSUME kind = "market", NEW t \in Tickets, deals[t].kind = "market",
                        deals[t].key = key
                 PROVE  now - deals[t].at >= DedupWindow
      BY <1>1, <1>2, <2>1, <2>2 DEF CallIsApart
    <3>1. ~Duplicate(key)
      BY <1>5
    <3>2. deals[t].at \in Nat /\ DedupWindow \in Nat
      BY <1>t, RouterFacts
    <3>3. CASE now - deals[t].at < DedupWindow
      <4>1. key \in DOMAIN remembered /\ deals[t].at <= remembered[key]
        BY <3>3 DEF RouterInv, WindowRemembered
      <4>2. ~(now - remembered[key] < DedupWindow) /\ remembered[key] \in Nat
        BY <1>t, <3>1, <4>1, RouterFacts DEF Duplicate
      <4> QED BY <1>2, <3>2, <3>3, <4>1, <4>2
    <3> QED BY <1>2, <3>2, <3>3
  <2>8. Placed' = {}
    BY <1>1, <1>2, <1>3, <2>1, <2>2 DEF Placed
  <2>9. CallsOrder'
    BY <2>1, <2>8 DEF CallsOrder
  <2>10. OverIsReturned'
    <3>1. call.no = 0 /\ call'.no = calls + 1
      BY <1>2, <2>1, <2>2 DEF NoCall
    <3>2. blurred = 0 => {deals[t].call : t \in Tickets} = {r.call : r \in returned}
      BY <1>3, <3>1 DEF RouterInv, OverIsReturned
    <3> QED BY <1>1, <1>2, <1>3, <3>1, <3>2 DEF OverIsReturned
  <2> QED BY <1>1, <1>2, <2>4, <2>5, <2>6, <2>7, <2>9, <2>10 DEF RouterInv, OneOrderPerWindow
<1> QED BY <1>4, <1>5

\* A send that was executed and one that was not, while the call goes on.
LEMMA AnswerDoneKeeps == RouterInv /\ AnsweredDone => RouterInv'
<1> SUFFICES ASSUME RouterInv, AnsweredDone PROVE RouterInv'
  OBVIOUS
<1>t. RouterTypes
  BY DEF RouterInv
<1>1. /\ pc = "sending" /\ Executed /\ UNCHANGED <<now, remembered, gone, calls, blurred>>
      /\ \/ Report(Len(deals'))
         \/ pc' = "resolving" /\ ticket' = Len(deals') /\ UNCHANGED <<call, attempt, returned>>
  BY DEF AnsweredDone, Answered
<1>2. blurred \in Nat /\ Len(deals) \in Nat
  BY <1>t, RouterFacts
<1>3. /\ deals' \in Seq(Order) /\ Len(deals') = Len(deals) + 1
      /\ Len(deals') \notin Tickets /\ Tickets' = Tickets \cup {Len(deals')}
      /\ deals'[Len(deals')].call = call.no
      /\ \A t \in Tickets : deals'[t] = deals[t]
      /\ \A t \in Tickets' : deals'[t].call \in 1 .. calls /\ deals'[t].at <= now
      /\ WindowRemembered' /\ OneOrderPerWindow'
  BY <1>1, <1>2, ExecutedOrder
\* The call had no order at the broker before.
<1>4. blurred = 0 => /\ call.no \notin {deals[t].call : t \in Tickets}
                     /\ {deals[t].call : t \in Tickets} = {r.call : r \in returned}
                     /\ {deals'[t].call : t \in Tickets'}
                          = {deals[t].call : t \in Tickets} \cup {call.no}
  BY <1>1, <1>3 DEF RouterInv, CallsOrder, OverIsReturned, Placed
<1>5. CASE Report(Len(deals'))
  <2> DEFINE r == [call |-> call.no, entry |-> Len(deals'), seen |-> TRUE]
  <2>1. Raise /\ returned' = returned \cup {r}
    BY <1>5 DEF Report, ReportSeen
  <2>2. r.call = call.no /\ r.entry = Len(deals')
    OBVIOUS
  <2> HIDE DEF r
  <2>3. call.no \in 1 .. calls
    BY <1>1, <1>t, RouterFacts
  <2>4. \A q \in returned' : q.call \in 1 .. calls /\ q.entry \in Tickets' \cup {Quote}
    BY <1>3, <1>t, <2>1, <2>2, <2>3 DEF RouterTypes
  <2>5. {q.call : q \in returned'} = {q.call : q \in returned} \cup {call.no}
    BY <2>1, <2>2
  <2>6. blurred' \in 0 .. MaxBlurred /\ Tickets \subseteq Tickets'
    BY <1>1, <1>3, <1>t DEF RouterTypes
  <2> QED BY <1>1, <1>3, <1>4, <2>1, <2>4, <2>5, <2>6, CallOver
<1>6. CASE pc' = "resolving" /\ ticket' = Len(deals') /\ UNCHANGED <<call, attempt, returned>>
  <2>1. RouterTypes'
    BY <1>1, <1>3, <1>6, <1>t DEF RouterTypes
  <2>2. CallRemembered'
    BY <1>1, <1>6 DEF RouterInv, CallRemembered
  <2>3. CallIsApart'
    BY <1>1, <1>3, <1>6 DEF RouterInv, CallIsApart
  <2>4. CallsOrder'
    <3>1. ticket' \in Placed'
      BY <1>3, <1>6 DEF Placed
    <3>2. blurred = 0 => Placed' = {ticket'}
      BY <1>1, <1>3, <1>6 DEF RouterInv, CallsOrder, Placed
    <3> QED BY <1>1, <1>6, <3>1, <3>2 DEF CallsOrder
  <2>5. OverIsReturned'
    BY <1>1, <1>4, <1>6 DEF RouterInv, OverIsReturned
  <2> QED BY <1>3, <2>1, <2>2, <2>3, <2>4, <2>5 DEF RouterInv
<1> QED BY <1>1, <1>5, <1>6

LEMMA UnansweredFacts ==
  ASSUME RouterInv, pc = "sending", Unanswered, UNCHANGED <<now, remembered, calls, gone>>
  PROVE  /\ deals' \in Seq(Order) /\ Tickets \subseteq Tickets'
         /\ \A t \in Tickets' : deals'[t].call \in 1 .. calls /\ deals'[t].at <= now
         /\ \A t \in Tickets' : t \in Tickets \/ deals'[t].call = call.no
         /\ \A t \in Tickets : deals'[t] = deals[t]
         /\ blurred' \in 0 .. MaxBlurred
         /\ WindowRemembered' /\ OneOrderPerWindow'
         /\ blurred' = 0 => blurred = 0 /\ deals' = deals /\ Tickets' = Tickets
<1>t. RouterTypes
  BY DEF RouterInv
<1>0. blurred \in Nat /\ MaxBlurred \in Nat /\ blurred <= MaxBlurred /\ Len(deals) \in Nat
  BY <1>t, RouterFacts DEF RouterTypes
<1>1. CASE UNCHANGED <<deals, blurred>>
  BY <1>0, <1>1, <1>t
     DEF RouterInv, RouterTypes, Tickets, WindowRemembered, OneOrderPerWindow
<1>2. CASE blurred < MaxBlurred /\ Executed /\ blurred' = blurred + 1
  <2>1. blurred' \in 0 .. MaxBlurred /\ blurred' \in Nat /\ blurred' >= blurred /\ blurred' # 0
    BY <1>0, <1>2
  <2> QED BY <1>2, <2>1, ExecutedOrder
<1> QED BY <1>1, <1>2 DEF Unanswered

LEMMA AnswerTransientKeeps == RouterInv /\ AnsweredTransient => RouterInv'
<1> SUFFICES ASSUME RouterInv, AnsweredTransient PROVE RouterInv'
  OBVIOUS
<1>t. RouterTypes
  BY DEF RouterInv
<1>1. /\ pc = "sending" /\ Unanswered /\ attempt' = attempt + 1 /\ pc' = "sleeping"
      /\ UNCHANGED <<now, remembered, call, ticket, gone, calls, returned>>
  BY DEF AnsweredTransient, NextAttempt
<1>2. /\ deals' \in Seq(Order) /\ Tickets \subseteq Tickets'
      /\ \A t \in Tickets' : deals'[t].call \in 1 .. calls /\ deals'[t].at <= now
      /\ \A t \in Tickets' : t \in Tickets \/ deals'[t].call = call.no
      /\ \A t \in Tickets : deals'[t] = deals[t]
      /\ blurred' \in 0 .. MaxBlurred
      /\ WindowRemembered' /\ OneOrderPerWindow'
      /\ blurred' = 0 => blurred = 0 /\ deals' = deals /\ Tickets' = Tickets
  BY <1>1, UnansweredFacts
<1>3. attempt' \in 0 .. MaxRetries
  BY <1>1, <1>t, RouterFacts DEF RouterTypes
<1>4. RouterTypes'
  BY <1>1, <1>2, <1>3, <1>t DEF RouterTypes
<1>5. CallRemembered' /\ CallIsApart'
  BY <1>1, <1>2 DEF RouterInv, CallRemembered, CallIsApart
<1>6. CallsOrder' /\ OverIsReturned'
  BY <1>1, <1>2 DEF RouterInv, CallsOrder, OverIsReturned, Placed
<1> QED BY <1>2, <1>4, <1>5, <1>6 DEF RouterInv

LEMMA AnswerPermanentKeeps == RouterInv /\ AnsweredPermanent => RouterInv'
<1> SUFFICES ASSUME RouterInv, AnsweredPermanent PROVE RouterInv'
  OBVIOUS
<1>t. RouterTypes
  BY DEF RouterInv
<1>1. /\ pc = "sending" /\ Unanswered /\ Raise
      /\ UNCHANGED <<now, remembered, gone, calls, returned>>
  BY DEF AnsweredPermanent
<1>2. /\ deals' \in Seq(Order) /\ Tickets \subseteq Tickets'
      /\ \A t \in Tickets' : deals'[t].call \in 1 .. calls /\ deals'[t].at <= now
      /\ blurred' \in 0 .. MaxBlurred
      /\ WindowRemembered' /\ OneOrderPerWindow'
      /\ blurred' = 0 => blurred = 0 /\ deals' = deals /\ Tickets' = Tickets
  BY <1>1, UnansweredFacts
<1>3. blurred = 0 => {deals[t].call : t \in Tickets} = {r.call : r \in returned}
  BY <1>1 DEF RouterInv, CallsOrder, OverIsReturned, Placed
<1>4. \A r \in returned' : r.call \in 1 .. calls /\ r.entry \in Tickets' \cup {Quote}
  BY <1>1, <1>2, <1>t DEF RouterTypes
<1> QED BY <1>1, <1>2, <1>3, <1>4, CallOver

LEMMA WakeUpKeeps == RouterInv /\ WakeUp => RouterInv'
<1> SUFFICES ASSUME RouterInv, WakeUp PROVE RouterInv'
  OBVIOUS
<1>t. RouterTypes
  BY DEF RouterInv
<1>1. pc = "sleeping" /\ UNCHANGED <<now, remembered, deals, gone, calls, returned, blurred>>
  BY DEF WakeUp
<1>2. Tickets' = Tickets
  BY <1>1 DEF Tickets
<1>3. CASE Exhausted(attempt)
  <2>1. Raise
    BY <1>3 DEF WakeUp
  <2>2. blurred = 0 => {deals[t].call : t \in Tickets} = {r.call : r \in returned}
    BY <1>1 DEF RouterInv, CallsOrder, OverIsReturned, Placed
  <2>3. WindowRemembered' /\ OneOrderPerWindow'
    BY <1>1, <1>2 DEF RouterInv, WindowRemembered, OneOrderPerWindow
  <2> QED BY <1>1, <1>2, <1>t, <2>1, <2>2, <2>3, CallOver DEF RouterTypes
<1>4. CASE ~Exhausted(attempt)
  <2>1. pc' = "sending" /\ UNCHANGED <<call, attempt, ticket>>
    BY <1>4 DEF WakeUp
  <2>2. attempt < MaxRetries
    BY <1>4, <1>t, RouterFacts DEF Exhausted
  <2>3. RouterTypes'
    BY <1>1, <1>2, <1>t, <2>1, <2>2 DEF RouterTypes
  <2>4. Placed' = Placed
    BY <1>1, <1>2, <2>1 DEF Placed
  <2> QED BY <1>1, <1>2, <2>1, <2>3, <2>4
          DEF RouterInv, WindowRemembered, CallRemembered, CallIsApart, CallsOrder,
              OverIsReturned, OneOrderPerWindow
<1> QED BY <1>3, <1>4

LEMMA ResolveKeeps == RouterInv /\ ResolvePrice => RouterInv'
<1> SUFFICES ASSUME RouterInv, ResolvePrice PROVE RouterInv'
  OBVIOUS
<1>t. RouterTypes
  BY DEF RouterInv
<1>1. pc = "resolving" /\ UNCHANGED <<now, remembered, deals, gone, calls, blurred>>
  BY DEF ResolvePrice
<1>2. Tickets' = Tickets /\ ticket \in Tickets /\ deals[ticket].call = call.no
  BY <1>1 DEF RouterInv, CallsOrder, Placed, Tickets
<1>3. PICK entry \in Tickets \cup {Quote}, seen \in BOOLEAN : ReportSeen(entry, seen)
  <2>1. OpenOn(SymbolOf[call.key]) \subseteq Tickets
    BY DEF OpenOn, Tickets
  <2>2. Candidates \subseteq Tickets
    BY <1>2, <2>1 DEF Candidates
  <2>3. \A hidden : (hidden = {}) \in BOOLEAN
    OBVIOUS
  <2> QED BY <2>1, <2>2, <2>3 DEF ResolvePrice
<1> DEFINE r == [call |-> call.no, entry |-> entry, seen |-> seen]
<1>4. Raise /\ returned' = returned \cup {r}
  BY <1>3 DEF ReportSeen
<1>5. r.call = call.no /\ r.entry = entry
  OBVIOUS
<1> HIDE DEF r
<1>6. \A q \in returned' : q.call \in 1 .. calls /\ q.entry \in Tickets' \cup {Quote}
  <2>1. call.no \in 1 .. calls
    BY <1>1, <1>t, RouterFacts
  <2> QED BY <1>2, <1>4, <1>5, <1>t, <2>1 DEF RouterTypes
<1>7. blurred = 0 => {deals[t].call : t \in Tickets} = {q.call : q \in returned'}
  <2>1. {q.call : q \in returned'} = {q.call : q \in returned} \cup {call.no}
    BY <1>4, <1>5
  <2>2. call.no \in {deals[t].call : t \in Tickets}
    BY <1>2
  <2> QED BY <2>1, <2>2 DEF RouterInv, OverIsReturned
<1>8. WindowRemembered' /\ OneOrderPerWindow'
  BY <1>1, <1>2 DEF RouterInv, WindowRemembered, OneOrderPerWindow
<1> QED BY <1>1, <1>2, <1>4, <1>6, <1>7, <1>8, <1>t, CallOver DEF RouterTypes

LEMMA RouterStep == RouterInv /\ [Next]_vars => RouterInv'
BY ClockAndBroker, CallKeeps, AnswerDoneKeeps, AnswerTransientKeeps, AnswerPermanentKeeps,
   WakeUpKeeps, ResolveKeeps
   DEF Next, Router, Tickets

LEMMA RouterAlways == Spec => []RouterInv
<1> QED BY RouterInit, RouterStep, PTL DEF Spec

-----------------------------------------------------------------------------
(* The theorems. *)

\* The idempotency guard: as long as every answer was definite, two market orders
\* for one signal are from two calls at least the window apart.
THEOREM OneOrderInAWindow == Spec => []OneOrderPerWindow
<1>1. RouterInv => OneOrderPerWindow
  BY DEF RouterInv
<1> QED BY <1>1, RouterAlways, PTL

\* As long as every answer was definite, the calls that returned are exactly those
\* whose order is at the broker; one that raised left nothing there.
THEOREM TheOutcomeIsTrue == Spec => []OutcomeIsTrue
<1>1. ASSUME RouterInv PROVE OutcomeIsTrue
  <2>1. RouterTypes
    BY <1>1 DEF RouterInv
  <2>2. call \in RunningCall \cup {NoCall} /\ (pc = "idle" <=> call = NoCall)
    <3>1. \A c \in RunningCall : c # NoCall
      BY DEF RunningCall, NoCall, Kinds
    <3> QED BY <2>1, <3>1 DEF RouterTypes
  <2>3. TypeOK
    BY <2>1, <2>2 DEF RouterTypes, TypeOK
  <2> QED BY <1>1, <2>3 DEF RouterInv, OverIsReturned, OutcomeIsTrue
<1> QED BY <1>1, RouterAlways, PTL

\* The largest ticket of a set.
LEMMA LargestTicket ==
  ASSUME NEW S, NEW n \in Nat, n \in S, \A t \in S : t \in Nat /\ t <= n
  PROVE  Max(S) = n
<1>1. \E x \in S : \A y \in S : x >= y
  OBVIOUS
<1> DEFINE m == Max(S)
<1>2. m \in S /\ \A y \in S : m >= y
  BY <1>1 DEF Max
<1> HIDE DEF m
<1>3. m = n
  BY <1>2
<1> QED BY <1>3 DEF m

\* A call whose answer came without a price reports its own fill price if
\* positions_get shows the position, however many others are open on the symbol.
THEOREM TheEntryIsReal == Spec => EntryIsReal
<1> DEFINE Own(r) == {t \in DOMAIN deals' : deals'[t].call = r.call}
           Step == \A r \in returned' \ returned :
                     LET own == Own(r)
                     IN  r.seen => own # {} /\ (Max(own) \notin gone => r.entry = Max(own))
<1>1. RouterInv /\ [Next]_vars => [Step]_returned
  <2> SUFFICES ASSUME RouterInv, [Next]_vars, NEW r \in returned' \ returned, r.seen
               PROVE  Own(r) # {} /\ (Max(Own(r)) \notin gone => r.entry = Max(Own(r)))
    OBVIOUS
  <2>t. RouterTypes
    BY DEF RouterInv
  \* The order of the call is the newest of all.
  <2>1. ASSUME deals' \in Seq(Order), Len(deals') > 0, deals'[Len(deals')].call = r.call
        PROVE  Own(r) # {} /\ Max(Own(r)) = Len(deals')
    <3>1. /\ Len(deals') \in Nat /\ Len(deals') \in Own(r)
          /\ \A t \in Own(r) : t \in Nat /\ t <= Len(deals')
      BY <2>1
    <3> QED BY <3>1, LargestTicket
  <2>2. CASE AnsweredDone
    <3>1. /\ Executed /\ pc = "sending" /\ UNCHANGED <<now, remembered, gone, calls, blurred>>
          /\ returned' = returned
               \cup {[call |-> call.no, entry |-> Len(deals'), seen |-> TRUE]}
      BY <2>2 DEF AnsweredDone, Answered, Report, ReportSeen
    <3>2. r.call = call.no /\ r.entry = Len(deals')
      BY <3>1
    <3>3. blurred \in Nat /\ Len(deals) \in Nat
      BY <2>t, RouterFacts
    <3>4. /\ deals' \in Seq(Order) /\ Len(deals') = Len(deals) + 1
          /\ deals'[Len(deals')].call = call.no
      BY <3>1, <3>3, ExecutedOrder
    <3> QED BY <2>1, <3>2, <3>3, <3>4
  <2>3. CASE ResolvePrice
    <3>1. pc = "resolving" /\ deals' = deals
      BY <2>3 DEF ResolvePrice
    <3>2. /\ ticket = Len(deals) /\ ticket \in Tickets /\ deals[ticket].call = call.no
          /\ deals \in Seq(Order) /\ Len(deals) > 0
      BY <3>1, <2>t, RouterFacts DEF RouterInv, CallsOrder, Placed, RouterTypes
    <3>3. \E hidden \in Seen, entry \in Candidates \cup {Quote} :
            /\ hidden = {} => entry \in Candidates \/ Candidates = {}
            /\ r.call = call.no /\ r.seen = (hidden = {}) /\ (hidden = {} => r.entry = entry)
      <4>1. PICK hidden \in Seen :
              LET found == IF hidden = {} THEN Candidates
                           ELSE OpenOn(SymbolOf[call.key]) \ hidden
              IN  \/ (found = {} \/ hidden # {}) /\ ReportSeen(Quote, hidden = {})
                  \/ \E t \in found : ReportSeen(t, hidden = {})
        BY <2>3 DEF ResolvePrice
      <4>2. CASE hidden = {}
        <5>1. \/ Candidates = {} /\ ReportSeen(Quote, TRUE)
              \/ \E t \in Candidates : ReportSeen(t, TRUE)
          BY <4>1, <4>2
        <5>2. \E e \in Candidates \cup {Quote} :
                (e \in Candidates \/ Candidates = {}) /\ ReportSeen(e, TRUE)
          BY <5>1
        <5>3. \A e : ReportSeen(e, TRUE)
                      => r = [call |-> call.no, entry |-> e, seen |-> TRUE]
          BY DEF ReportSeen
        <5>4. \E e \in Candidates \cup {Quote} :
                /\ e \in Candidates \/ Candidates = {}
                /\ r.call = call.no /\ r.seen = TRUE /\ r.entry = e
          <6>1. PICK e \in Candidates \cup {Quote} :
                  (e \in Candidates \/ Candidates = {}) /\ ReportSeen(e, TRUE)
            BY <5>2
          <6>2. r = [call |-> call.no, entry |-> e, seen |-> TRUE]
            BY <5>3, <6>1
          <6>3. r.call = call.no /\ r.seen = TRUE /\ r.entry = e
            BY <6>2
          <6> QED BY <6>1, <6>3, Zenon
        <5> QED BY <4>2, <5>4
      <4>3. CASE hidden # {}
        <5>1. \E e : ReportSeen(e, FALSE)
          BY <4>1, <4>3
        <5>2. ~r.seen
          BY <5>1 DEF ReportSeen
        <5> QED BY <5>2
      <4> QED BY <4>2, <4>3
    <3>4. ticket \notin gone => r.entry = ticket
      BY <3>3 DEF Candidates
    <3> QED BY <2>1, <3>1, <3>2, <3>3, <3>4
  <2>4. CASE ~AnsweredDone /\ ~ResolvePrice
    BY <2>4 DEF Next, Router, vars, Tick, BrokerCloses, Call, AnsweredTransient,
       AnsweredPermanent, WakeUp
  <2> QED BY <2>2, <2>3, <2>4
<1> QED BY <1>1, RouterAlways, PTL DEF Spec, EntryIsReal

=============================================================================
