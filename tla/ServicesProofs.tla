---------------------------- MODULE ServicesProofs ----------------------------
(***************************************************************************)
(* Proofs about the four parts that MCServices puts side by side: for each *)
(* part an invariant of its own steps, for any values of its constants.    *)
(* A step of one part leaves the variables of the others alone, so the     *)
(* invariant of a part is one of the whole.                                *)
(***************************************************************************)
EXTENDS MCServices, TLAPS, FiniteSetTheorems

-----------------------------------------------------------------------------
(***************************************************************************)
(* The hourly reporter.  A report in flight has told all of stats but what *)
(* came in since; between two sends stats and reports share nothing.       *)
(***************************************************************************)
Told == UNION {reports[i] : i \in DOMAIN reports}

ReporterInv ==
  /\ Reporter!TypeOK
  /\ reports \in Seq(SUBSET Nat)
  /\ \A i, j \in DOMAIN reports : i # j => reports[i] \cap reports[j] = {}
  /\ at = "waiting" => /\ (1 .. counted) \ counted_while_sending = stats \cup Told
                       /\ stats \cap Told = {}
  /\ at = "sending" => (1 .. counted) \ counted_while_sending = Told

LEMMA ReporterInit == Reporter!Init => ReporterInv
<1> SUFFICES ASSUME Reporter!Init PROVE ReporterInv
  OBVIOUS
<1>1. /\ at = "waiting" /\ stop_event = FALSE /\ stats = {} /\ reports = <<>>
      /\ counted = 0 /\ counted_while_sending = {} /\ MaxCounted \in Nat
  BY ServicesAssumption DEF Reporter!Init, Reporter!ReporterAssumption
<1>2. DOMAIN reports = {} /\ reports \in Seq(SUBSET Nat) /\ 1 .. counted = {} /\ Told = {}
  BY <1>1 DEF Told
<1>3. Reporter!TypeOK
  <2>1. stop_event \in BOOLEAN
    BY <1>1
  <2>2. counted \in 0 .. MaxCounted
    BY <1>1
  <2> QED BY <1>1, <1>2, <2>1, <2>2 DEF Reporter!TypeOK
<1> QED BY <1>1, <1>2, <1>3 DEF ReporterInv

LEMMA ReporterKept == ReporterInv /\ Reporter!Next => ReporterInv'
<1> SUFFICES ASSUME ReporterInv, Reporter!Next PROVE ReporterInv'
  OBVIOUS
<1> USE ServicesAssumption DEF Reporter!ReporterAssumption
<1>t. /\ counted \in Nat /\ counted <= MaxCounted /\ MaxCounted \in Nat
      /\ stats \subseteq 1 .. counted /\ counted_while_sending \subseteq 1 .. counted
      /\ reports \in Seq(SUBSET Nat)
      /\ \A i \in DOMAIN reports : reports[i] \subseteq 1 .. counted
      /\ Told \subseteq 1 .. counted
  BY DEF ReporterInv, Reporter!TypeOK, Told
<1>1. CASE Reporter!Record
  <2>1. /\ counted' = counted + 1 /\ counted' <= MaxCounted
        /\ stats' = stats \cup {counted + 1} /\ reports' = reports /\ at' = at
        /\ stop_event' = stop_event
        /\ counted_while_sending' = counted_while_sending
             \cup (IF at = "sending" THEN {counted + 1} ELSE {})
    BY <1>1, <1>t DEF Reporter!Record
  <2>2. 1 .. counted + 1 = (1 .. counted) \cup {counted + 1} /\ counted + 1 \notin 1 .. counted
    BY <1>t
  <2>3. Reporter!TypeOK'
    BY <1>t, <2>1, <2>2 DEF ReporterInv, Reporter!TypeOK
  <2>4. Told' = Told
    BY <2>1 DEF Told
  <2> HIDE DEF Reporter!ReporterAssumption
  <2> QED BY <1>t, <2>1, <2>2, <2>3, <2>4 DEF ReporterInv
<1>2. CASE Reporter!Boundary
  <2>1. /\ reports' = Append(reports, stats) /\ at = "waiting" /\ at' = "sending"
        /\ UNCHANGED <<stop_event, stats, counted, counted_while_sending>>
    BY <1>2 DEF Reporter!Boundary
  <2> DEFINE n == Len(reports)
  <2>2. /\ DOMAIN reports' = (DOMAIN reports) \cup {n + 1} /\ n + 1 \notin DOMAIN reports
        /\ reports'[n + 1] = stats
        /\ \A i \in DOMAIN reports : reports'[i] = reports[i]
        /\ reports' \in Seq(SUBSET Nat)
    BY <1>t, <2>1
  <2> HIDE DEF n
  <2>3. Told' = Told \cup stats
    BY <2>2 DEF Told
  <2>4. \A i \in DOMAIN reports : stats \cap reports[i] = {}
    BY <2>1 DEF ReporterInv, Told
  <2>5. \A i, j \in DOMAIN reports' : i # j => reports'[i] \cap reports'[j] = {}
    BY <2>2, <2>4 DEF ReporterInv
  <2>6. Reporter!TypeOK'
    BY <1>t, <2>1, <2>2 DEF ReporterInv, Reporter!TypeOK
  <2> QED BY <2>1, <2>2, <2>3, <2>5, <2>6 DEF ReporterInv
<1>3. ASSUME NEW ok \in BOOLEAN, Reporter!SendReturns(ok) PROVE ReporterInv'
  <2>1. /\ stats' = {} /\ at' \in {"waiting", "ended"} /\ at = "sending"
        /\ UNCHANGED <<stop_event, reports, counted, counted_while_sending>>
    BY <1>3 DEF Reporter!SendReturns, Reporter!Reset
  <2>2. Told' = Told
    BY <2>1 DEF Told
  <2> QED BY <1>t, <2>1, <2>2 DEF ReporterInv, Reporter!TypeOK
<1>4. CASE Reporter!StopSet
  <2>1. Told' = Told
    BY <1>4 DEF Reporter!StopSet, Told
  <2> QED BY <1>4, <2>1 DEF Reporter!StopSet, ReporterInv, Reporter!TypeOK
<1>5. CASE Reporter!Ends
  <2>1. /\ stats' \subseteq stats /\ at' = "ended"
        /\ UNCHANGED <<stop_event, reports, counted, counted_while_sending>>
    BY <1>5 DEF Reporter!Ends
  <2>2. Told' = Told
    BY <2>1 DEF Told
  <2> QED BY <1>t, <2>1, <2>2 DEF ReporterInv, Reporter!TypeOK
<1> QED BY <1>1, <1>2, <1>3, <1>4, <1>5 DEF Reporter!Next

-----------------------------------------------------------------------------
(***************************************************************************)
(* The supervisor.  The baseline of the guard is the last balance that     *)
(* passed, also after probes that failed.                                  *)
(***************************************************************************)
LoopInv ==
  /\ Loop!TypeOK
  /\ loop_pc \in {"sleep", "spawning", "running"} => attempt <= MaxAttempts
  /\ passed \in Seq(Balances)
  /\ IF passed = <<>> THEN last_balance = {} ELSE last_balance = {passed[Len(passed)]}
  /\ Loop!ProbesClose

LEMMA LoopInit == Loop!Init => LoopInv
<1> SUFFICES ASSUME Loop!Init PROVE LoopInv
  OBVIOUS
<1>1. passed = <<>> /\ last_balance = {} /\ attempt = 0 /\ MaxAttempts \in Nat
  BY ServicesAssumption DEF Loop!Init, Loop!SupervisorAssumption
<1>2. passed \in Seq(Balances) /\ Loop!ProbesClose
  BY <1>1 DEF Loop!ProbesClose
<1>3. Loop!TypeOK
  <2>1. terminated \in BOOLEAN /\ stop_requested \in BOOLEAN
    BY DEF Loop!Init
  <2>2. attempt \in 0 .. MaxAttempts + 1
    BY <1>1
  <2> QED BY <1>1, <2>1, <2>2
          DEF Loop!Init, Loop!TypeOK, Loop!NoCode, Loop!NoResult
<1> QED BY <1>1, <1>2, <1>3 DEF Loop!Init, LoopInv

LEMMA LoopKept == LoopInv /\ Loop!Next => LoopInv'
<1> SUFFICES ASSUME LoopInv, Loop!Next PROVE LoopInv'
  OBVIOUS
<1>t. Loop!TypeOK /\ MaxAttempts \in Nat /\ Balances \subseteq Int
  BY ServicesAssumption DEF LoopInv, Loop!SupervisorAssumption
<1>p. ASSUME UNCHANGED <<passed, last_balance>>
      PROVE  /\ passed' \in Seq(Balances) /\ Loop!ProbesClose'
             /\ IF passed' = <<>> THEN last_balance' = {}
                                  ELSE last_balance' = {passed'[Len(passed')]}
  BY <1>p DEF LoopInv, Loop!ProbesClose
<1>1. CASE Loop!BalanceMoves \/ Loop!ChildEnds \/ Loop!Signal
  <2>1. UNCHANGED <<loop_pc, attempt, last_balance, result, passed>>
    BY <1>1 DEF Loop!BalanceMoves, Loop!ChildEnds, Loop!Signal, Loop!loop, Loop!history
  <2>2. Loop!TypeOK'
    BY <1>1, <1>t, <2>1 DEF Loop!BalanceMoves, Loop!ChildEnds, Loop!Signal, Loop!TypeOK,
       Loop!kid
  <2> QED BY <1>p, <2>1, <2>2 DEF LoopInv
<1>2. CASE Loop!Check
  <2>1. UNCHANGED <<attempt, child, code, terminated, stop_requested, balance>>
    BY <1>2 DEF Loop!Check, Loop!kid
  <2>c. loop_pc' \in {"ended", "spawning", "sleep"} /\ (loop_pc' # "ended" => attempt <= MaxAttempts)
    BY <1>2 DEF Loop!Check, Loop!SafeToRestart, Loop!End, Loop!More
  <2>r. result' \in {Loop!NoResult, 0, 2, 3}
    BY <1>2, <1>t DEF Loop!Check, Loop!SafeToRestart, Loop!End, Loop!TypeOK
  <2>u. /\ attempt' \in 0 .. MaxAttempts + 1 /\ balance' \in Balances
        /\ child' \in {"none", "alive", "dead"} /\ code' \in {Loop!NoCode, "clean", "crash"}
        /\ terminated' \in BOOLEAN /\ stop_requested' \in BOOLEAN
    BY <1>t, <2>1, Zenon DEF Loop!TypeOK
  <2>2. CASE UNCHANGED <<last_balance, passed>>
    <3>1. last_balance' \subseteq Balances
      BY <1>t, <2>2, Zenon DEF Loop!TypeOK
    <3>2. Loop!TypeOK'
      BY <2>c, <2>r, <2>u, <3>1, Zenon DEF Loop!TypeOK
    <3> QED BY <1>p, <2>1, <2>c, <2>2, <3>2 DEF LoopInv
  <2>3. CASE /\ \A prev \in last_balance : prev <= 0 \/ ~Loop!Far(balance, prev)
             /\ last_balance' = {balance} /\ passed' = Append(passed, balance)
    <3> DEFINE n == Len(passed)
    <3>1. balance \in Balances
      BY <1>t DEF Loop!TypeOK
    <3>2. /\ n \in Nat /\ Len(passed') = n + 1 /\ passed' \in Seq(Balances)
          /\ passed'[n + 1] = balance
          /\ \A i \in 1 .. n : passed'[i] = passed[i] /\ passed[i] \in Balances
          /\ n = 0 <=> passed = <<>>
      BY <2>3, <3>1 DEF LoopInv
    <3> HIDE DEF n
    <3>3. \A i \in 1 .. n : passed'[i] > 0 => ~Loop!Far(passed'[i + 1], passed'[i])
      <4> SUFFICES ASSUME NEW i \in 1 .. n, passed'[i] > 0
                   PROVE  ~Loop!Far(passed'[i + 1], passed'[i])
        OBVIOUS
      <4>1. CASE i = n
        <5>1. passed[n] \in last_balance /\ passed[n] \in Balances /\ passed'[i] = passed[n]
          BY <3>2, <4>1 DEF LoopInv, n
        <5>2. passed[n] \in Int /\ passed[n] > 0
          BY <1>t, <5>1, Zenon
        <5> QED BY <2>3, <3>2, <4>1, <5>1, <5>2
      <4>2. CASE i # n
        <5>1. i \in 1 .. n - 1 /\ i + 1 \in 1 .. n
          BY <3>2, <4>2
        <5>2. passed'[i + 1] = passed[i + 1] /\ passed'[i] = passed[i]
          BY <3>2, <5>1
        <5>3. passed[i] > 0 => ~Loop!Far(passed[i + 1], passed[i])
          BY <5>1 DEF LoopInv, Loop!ProbesClose, n
        <5> QED BY <5>2, <5>3
      <4> QED BY <4>1, <4>2
    <3>4. Len(passed') - 1 = n
      BY <3>2
    <3>5. Loop!ProbesClose'
      BY <3>3, <3>4 DEF Loop!ProbesClose, Loop!Far
    <3>6. passed' # <<>> /\ last_balance' = {passed'[Len(passed')]}
      BY <2>3, <3>2
    <3>7. Loop!TypeOK'
      <4>1. last_balance' \subseteq Balances
        BY <2>3, <3>1, Zenon
      <4> QED BY <2>c, <2>r, <2>u, <4>1, Zenon DEF Loop!TypeOK
    <3> QED BY <2>1, <2>c, <3>2, <3>5, <3>6, <3>7 DEF LoopInv
  <2> QED BY <1>2, <2>2, <2>3 DEF Loop!Check, Loop!SafeToRestart, Loop!Baseline, Loop!Passes
<1>3. CASE Loop!WakeUp
  <2>1. Loop!TypeOK'
    BY <1>3, <1>t DEF Loop!WakeUp, Loop!End, Loop!TypeOK, Loop!kid, Loop!history
  <2> QED BY <1>3, <1>t, <1>p, <2>1 DEF Loop!WakeUp, Loop!End, Loop!history, LoopInv
<1>4. CASE Loop!Spawned
  <2>1. Loop!TypeOK'
    BY <1>4, <1>t DEF Loop!Spawned, Loop!TypeOK
  <2> QED BY <1>4, <1>t, <1>p, <2>1 DEF Loop!Spawned, LoopInv
<1>5. CASE Loop!ChildWaited
  <2>1. attempt \in Nat /\ attempt <= MaxAttempts
    BY <1>5, <1>t DEF Loop!ChildWaited, LoopInv, Loop!TypeOK
  <2>2. Loop!TypeOK'
    BY <1>5, <1>t, <2>1 DEF Loop!ChildWaited, Loop!End, Loop!TypeOK, Loop!kid, Loop!history
  <2> QED BY <1>5, <1>p, <2>2 DEF Loop!ChildWaited, Loop!End, Loop!history, LoopInv
<1> QED BY <1>1, <1>2, <1>3, <1>4, <1>5 DEF Loop!Next, Loop!Run

-----------------------------------------------------------------------------
(***************************************************************************)
(* The pending orders.  Every promoted order once counted among the        *)
(* pending ones, and an order is placed at most once: that bounds the      *)
(* positions.  The one order a cancel is under way for is still pending.   *)
(***************************************************************************)
Statuses == {"resting", "filled", "expired", "cancelled"}
BrokerOrders == [status : Statuses, expiry : Nat]

PendingInv ==
  /\ Pending!TypeOK
  /\ orders \in Seq(BrokerOrders)
  /\ IsFiniteSet(pendings) /\ Cardinality(pendings) + Len(promoted) <= Len(orders)
  /\ pending_pc = "idle" => queue = {}
  /\ Pending!NothingRestsForgotten

LEMMA BrokerEntries ==
  \A s \in Seq(BrokerOrders) : \A o \in 1 .. Len(s) :
    s[o] \in BrokerOrders /\ s[o].status \in Statuses /\ s[o].expiry \in Nat
<1> TAKE s \in Seq(BrokerOrders)
<1> TAKE o \in 1 .. Len(s)
<1>1. s[o] \in BrokerOrders
  OBVIOUS
<1> QED BY <1>1 DEF BrokerOrders

LEMMA PendingInit == Pending!Init => PendingInv
<1> SUFFICES ASSUME Pending!Init PROVE PendingInv
  OBVIOUS
<1>1. /\ now = 0 /\ orders = <<>> /\ pendings = {} /\ promoted = <<>>
      /\ pending_pc = "idle" /\ called_at = 0 /\ queue = {} /\ disowned = {} /\ MaxNow \in Nat
  BY ServicesAssumption DEF Pending!Init, Pending!PendingAssumption
<1>2. Pending!Tickets = {} /\ Len(orders) = 0 /\ Len(promoted) = 0
  BY <1>1 DEF Pending!Tickets
<1>3. IsFiniteSet(pendings) /\ Cardinality(pendings) = 0
  BY <1>1, FS_EmptySet
<1>4. promoted \in Seq(Pending!Tickets) /\ orders \in Seq(BrokerOrders)
  BY <1>1
<1> QED BY <1>1, <1>2, <1>3, <1>4 DEF PendingInv, Pending!TypeOK, Pending!NothingRestsForgotten

LEMMA PendingKept == PendingInv /\ Pending!Next => PendingInv'
<1> SUFFICES ASSUME PendingInv, Pending!Next PROVE PendingInv'
  OBVIOUS
<1> DEFINE n == Len(orders)
<1>t. /\ MaxNow \in Nat /\ Lifetime \in Nat
      /\ now \in Nat /\ now <= MaxNow /\ called_at \in Nat /\ called_at <= now
      /\ n \in Nat /\ Pending!Tickets = 1 .. n /\ orders \in Seq(BrokerOrders)
      /\ \A o \in 1 .. n : orders[o] \in BrokerOrders
      /\ pendings \subseteq 1 .. n /\ promoted \in Seq(1 .. n) /\ queue \subseteq pendings
      /\ disowned \subseteq 1 .. n
      /\ IsFiniteSet(pendings) /\ Cardinality(pendings) \in Nat /\ Len(promoted) \in Nat
      /\ Cardinality(pendings) + Len(promoted) <= n
  BY ServicesAssumption, FS_CardinalityType
     DEF PendingInv, Pending!PendingAssumption, Pending!TypeOK, Pending!Tickets
\* What is left to show when the orders stay.
<1>s. ASSUME orders' = orders, disowned' = disowned,
             now' \in 0 .. MaxNow, called_at' \in 0 .. now',
             pending_pc' \in {"idle", "walking", "cancelling"},
             promoted' \in Seq(1 .. n), IsFiniteSet(pendings'),
             Cardinality(pendings') + Len(promoted') <= n, Len(promoted') <= n,
             pendings' \subseteq 1 .. n, queue' \subseteq pendings',
             pending_pc' = "idle" => queue' = {},
             \A o \in (1 .. n) \ pendings' : orders[o].status = "resting" => o \in disowned
      PROVE  PendingInv'
  <2>1. Pending!Tickets' = 1 .. n
    BY <1>s, <1>t DEF Pending!Tickets
  <2>2. \A o \in 1 .. n : orders'[o].status \in Statuses /\ orders'[o].expiry \in Nat
    BY <1>s, <1>t DEF BrokerOrders
  <2> QED BY <1>s, <1>t, <2>1, <2>2
          DEF PendingInv, Pending!TypeOK, Pending!NothingRestsForgotten, Statuses
\* The broker gives a resting order another status.
<1>b. ASSUME NEW o \in 1 .. n, NEW status \in Statuses \ {"resting"}, Pending!Becomes(o, status)
      PROVE  /\ orders' \in Seq(BrokerOrders) /\ Len(orders') = n
             /\ \A u \in 1 .. n : orders'[u].status = "resting" => orders[u].status = "resting"
             /\ orders'[o].status # "resting"
  <2>1. orders' = [orders EXCEPT ![o].status = status]
    BY <1>b DEF Pending!Becomes
  <2>2. [orders[o] EXCEPT !.status = status] \in BrokerOrders
    BY <1>t, <1>b DEF BrokerOrders
  <2> QED BY <1>t, <1>b, <2>1, <2>2 DEF BrokerOrders
\* What is left to show when the orders change at most in status.
<1>c. ASSUME orders' \in Seq(BrokerOrders), Len(orders') = n,
             UNCHANGED <<now, promoted, called_at>>,
             pending_pc' \in {"idle", "walking", "cancelling"},
             pendings' \subseteq pendings, queue' \subseteq pendings',
             pending_pc' = "idle" => queue' = {}, disowned' \subseteq 1 .. n,
             \A u \in (1 .. n) \ pendings' : orders'[u].status = "resting" => u \in disowned'
      PROVE  PendingInv'
  <2>1. Pending!Tickets' = 1 .. n
    BY <1>c, <1>t DEF Pending!Tickets
  <2>2. \A u \in 1 .. n : orders'[u].status \in Statuses /\ orders'[u].expiry \in Nat
    BY <1>c, BrokerEntries
  <2>3. /\ IsFiniteSet(pendings') /\ Cardinality(pendings') <= Cardinality(pendings)
        /\ Cardinality(pendings') \in Nat
    BY <1>c, <1>t, FS_Subset, FS_CardinalityType
  <2>4. Cardinality(pendings') + Len(promoted') <= n /\ Len(promoted') <= n
    BY <1>c, <1>t, <2>3
  <2> QED BY <1>c, <1>t, <2>1, <2>2, <2>3, <2>4
          DEF PendingInv, Pending!TypeOK, Pending!NothingRestsForgotten, Statuses
<1>r. \A o \in (1 .. n) \ pendings : orders[o].status = "resting" => o \in disowned
  BY <1>t DEF PendingInv, Pending!NothingRestsForgotten
<1>1. CASE Pending!Tick
  BY <1>1, <1>s, <1>t, <1>r DEF Pending!Tick, Pending!call, PendingInv, Pending!TypeOK
<1>2. CASE Pending!RegisterPending
  <2> DEFINE new == [status |-> "resting", expiry |-> now + Lifetime]
  <2>1. /\ orders' = Append(orders, new) /\ new \in BrokerOrders
        /\ pendings' = pendings \cup {Len(orders')}
        /\ UNCHANGED <<now, promoted, pending_pc, called_at, queue, disowned>>
    BY <1>2, <1>t DEF Pending!RegisterPending, Pending!call, BrokerOrders, Statuses
  <2> HIDE DEF new
  <2>2. /\ orders' \in Seq(BrokerOrders) /\ Len(orders') = n + 1
        /\ \A o \in 1 .. n : orders'[o] = orders[o]
    BY <1>t, <2>1
  <2>3. n + 1 \notin pendings /\ pendings' = pendings \cup {n + 1}
    BY <1>t, <2>1, <2>2
  <2>4. IsFiniteSet(pendings') /\ Cardinality(pendings') = Cardinality(pendings) + 1
    BY <1>t, <2>3, FS_AddElement
  <2>5. Pending!Tickets' = 1 .. n + 1
    BY <2>2 DEF Pending!Tickets
  <2>6. \A o \in 1 .. n + 1 : orders'[o].status \in Statuses /\ orders'[o].expiry \in Nat
    BY <2>2, BrokerEntries
  <2>7. \A o \in (1 .. n + 1) \ pendings' : orders'[o].status = "resting" => o \in disowned'
    BY <1>t, <1>r, <2>1, <2>2, <2>3
  <2>8. promoted' \in Seq(1 .. n + 1) /\ Len(promoted') <= n + 1
        /\ Cardinality(pendings') + Len(promoted') <= n + 1
    BY <1>t, <2>1, <2>4
  <2>9. Pending!TypeOK'
    <3>1. now' \in 0 .. MaxNow /\ called_at' \in 0 .. now'
      BY <1>t, <2>1
    <3>2. Len(promoted') <= Len(orders')
      BY <1>t, <2>1, <2>2
    <3>3. pendings' \subseteq 1 .. n + 1 /\ queue' \subseteq pendings'
      <4>1. \A o \in pendings : o \in 1 .. n + 1
        BY <1>t
      <4>2. n + 1 \in 1 .. n + 1 /\ queue' = queue
        BY <1>t, <2>1
      <4> QED BY <1>t, <2>3, <4>1, <4>2, Zenon
    <3>4. pending_pc' \in {"idle", "walking", "cancelling"}
      BY <2>1 DEF PendingInv, Pending!TypeOK
    <3>5. disowned' \subseteq 1 .. n + 1
      BY <1>t, <2>1
    <3> QED BY <2>5, <2>6, <2>8, <3>1, <3>2, <3>3, <3>4, <3>5 DEF Pending!TypeOK, Statuses
  <2> QED BY <2>1, <2>2, <2>4, <2>5, <2>7, <2>8, <2>9, <1>2
          DEF PendingInv, Pending!NothingRestsForgotten, Pending!RegisterPending,
              Pending!call
<1>3. ASSUME NEW o \in Pending!Tickets,
             Pending!BrokerFills(o) \/ Pending!BrokerExpires(o)
      PROVE  PendingInv'
  <2>1. /\ Pending!Becomes(o, "filled") \/ Pending!Becomes(o, "expired")
        /\ UNCHANGED <<now, promoted, called_at, pendings, queue, pending_pc, disowned>>
    BY <1>3 DEF Pending!BrokerFills, Pending!BrokerExpires, Pending!call
  <2>2. /\ orders' \in Seq(BrokerOrders) /\ Len(orders') = n
        /\ \A u \in 1 .. n : orders'[u].status = "resting" => orders[u].status = "resting"
    BY <1>b, <1>t, <2>1 DEF Statuses
  <2> QED BY <1>c, <1>t, <1>r, <2>1, <2>2 DEF PendingInv, Pending!TypeOK
<1>4. ASSUME NEW o \in Pending!Tickets, Pending!OnPendingFilled(o)
      PROVE  PendingInv'
  <2>1. /\ o \in pendings /\ orders[o].status = "filled"
        /\ pendings' = pendings \ {o} /\ promoted' = Append(promoted, o)
        /\ UNCHANGED <<now, orders, pending_pc, called_at, queue, disowned>>
        /\ pending_pc = "idle"
    BY <1>4 DEF Pending!OnPendingFilled, Pending!Remaining, Pending!call
  <2>2. /\ IsFiniteSet(pendings') /\ Cardinality(pendings') = Cardinality(pendings) - 1
        /\ queue = {}
    BY <1>t, <2>1, FS_RemoveElement DEF PendingInv
  <2>3. promoted' \in Seq(1 .. n) /\ Len(promoted') = Len(promoted) + 1
    BY <1>t, <2>1
  <2>4. Cardinality(pendings') \in Nat
    BY <2>2, FS_CardinalityType
  <2> QED BY <1>s, <1>t, <1>r, <2>1, <2>2, <2>3, <2>4 DEF PendingInv, Pending!TypeOK
<1>5. CASE Pending!StartMaintain
  BY <1>5, <1>s, <1>t, <1>r DEF Pending!StartMaintain
<1>6. CASE Pending!WalkOn
  <2>1. /\ UNCHANGED <<now, orders, pendings, promoted, called_at, disowned>>
        /\ queue' \subseteq queue /\ pending_pc' \in {"walking", "cancelling"}
    BY <1>6 DEF Pending!WalkOn
  <2> QED BY <2>1, <1>s, <1>t, <1>r
<1>7. CASE Pending!CancelAnswered
  <2>1. PICK o \in queue :
          /\ \/ /\ Pending!Becomes(o, "cancelled") /\ disowned' = disowned
                /\ pendings' \in {pendings, pendings \ {o}}
             \/ /\ orders' = orders
                /\ \/ pendings' = pendings \ {o} /\ disowned' = disowned \cup {o}
                   \/ pendings' = pendings /\ disowned' = disowned
          /\ queue' = queue \ {o}
    BY <1>7 DEF Pending!CancelAnswered, Pending!Forgotten
  <2>2. pending_pc' = "walking" /\ UNCHANGED <<now, promoted, called_at>>
    BY <1>7 DEF Pending!CancelAnswered
  <2>3. CASE /\ Pending!Becomes(o, "cancelled") /\ disowned' = disowned
             /\ pendings' \in {pendings, pendings \ {o}}
    <3>1. /\ orders' \in Seq(BrokerOrders) /\ Len(orders') = n
          /\ \A u \in 1 .. n : orders'[u].status = "resting" => orders[u].status = "resting"
          /\ orders'[o].status # "resting"
      BY <1>b, <1>t, <2>3 DEF Statuses
    <3> QED BY <1>c, <1>t, <1>r, <2>1, <2>2, <2>3, <3>1
  <2>4. CASE /\ orders' = orders
             /\ \/ pendings' = pendings \ {o} /\ disowned' = disowned \cup {o}
                \/ pendings' = pendings /\ disowned' = disowned
    BY <1>c, <1>t, <1>r, <2>1, <2>2, <2>4
  <2> QED BY <2>1, <2>3, <2>4
<1>8. CASE Pending!EndMaintain
  BY <1>8, <1>s, <1>t, <1>r DEF Pending!EndMaintain
<1> QED BY <1>1, <1>2, <1>3, <1>4, <1>5, <1>6, <1>7, <1>8 DEF Pending!Next, Pending!Maintain

-----------------------------------------------------------------------------
(***************************************************************************)
(* The daily tracker.  While no death of the day has lost anything the     *)
(* snapshot is true to what was told, and so is the file unless something  *)
(* was told since it was written.  A process is always true to what it was *)
(* told itself, and no snapshot counts more opens than were told.  The     *)
(* drawdown is at least the fall from the peak to the last equity          *)
(* observed, and no equity was above the peak.                             *)
(***************************************************************************)
\* A snapshot is true, on a day, to a number of opens between two and to the
\* equities after the first ones.
TrueTo(s, least, most, equities, first, today) ==
  IF s.trade_day = today
  THEN /\ least <= s.trade_count /\ s.trade_count <= most
       /\ \A i, j \in DOMAIN equities : first < i /\ i <= j =>
            /\ equities[i] <= s.peak_equity
            /\ equities[i] - equities[j] <= s.max_dd_today
  ELSE most = 0 /\ equities = <<>>

TrackerInv ==
  /\ Tracker!TypeOK
  /\ seen \in Seq(Int)
  /\ up => /\ state.trade_day <= day
           /\ TrueTo(state, opens - born.opens, opens, seen, born.seen, day)
           /\ whole => TrueTo(state, opens, opens, seen, 0, day)
  /\ ~up /\ whole => ~unsaved
  /\ file.kind = "row" =>
       /\ file.row.trade_day <= day
       /\ file.row.trade_day = day => file.row.trade_count <= opens
  /\ whole /\ ~unsaved =>
       IF file.kind = "row" THEN TrueTo(file.row, opens, opens, seen, 0, day)
                            ELSE opens = 0 /\ seen = <<>>

LEMMA TrackerInit == Tracker!Init => TrackerInv
<1> SUFFICES ASSUME Tracker!Init PROVE TrackerInv
  OBVIOUS
<1> DEFINE s == [trade_day |-> 0, peak_equity |-> StartingEquity, closed_pnl |-> 0,
                 floating_pnl |-> 0, trade_count |-> 0, max_dd_today |-> 0]
<1>1. /\ day = 0 /\ realised = 0 /\ floating = 0 /\ up = TRUE /\ state = s
      /\ file = [kind |-> "absent"] /\ opens = 0 /\ seen = <<>>
      /\ born = [opens |-> 0, seen |-> 0] /\ unsaved = FALSE /\ whole = TRUE
      /\ events = 0 /\ deaths = 0
  BY DEF Tracker!Init, Tracker!EmptyDay, Tracker!Absent, Tracker!Nothing
<1>2. /\ StartingEquity \in Nat /\ 0 \in Floats /\ MaxDay \in Nat /\ MaxEvents \in Nat
      /\ MaxDeaths \in Nat
  BY ServicesAssumption DEF Tracker!TrackerAssumption
<1>3. s \in Tracker!DailyStates /\ s.trade_day = 0 /\ s.trade_count = 0
  BY <1>2 DEF Tracker!DailyStates
<1> HIDE DEF s
<1>4. DOMAIN seen = {} /\ seen \in Seq(Int) /\ Len(seen) = 0
  BY <1>1
<1>5. Tracker!TypeOK
  <2>1. up \in BOOLEAN /\ unsaved \in BOOLEAN /\ whole \in BOOLEAN
    BY <1>1
  <2>2. born.opens \in 0 .. opens /\ born.seen \in 0 .. Len(seen)
    BY <1>1, <1>4
  <2> QED BY <1>1, <1>2, <1>3, <1>4, <2>1, <2>2 DEF Tracker!TypeOK, Tracker!Absent
<1>6. TrueTo(state, opens - born.opens, opens, seen, born.seen, day)
      /\ TrueTo(state, opens, opens, seen, 0, day)
  BY <1>1, <1>3, <1>4 DEF TrueTo
<1>7. file.kind # "row"
  BY <1>1
<1> QED BY <1>1, <1>3, <1>4, <1>5, <1>6, <1>7 DEF TrackerInv

\* The roll of the day, and each mutator, keeps a snapshot true to what was told.
LEMMA RolledIsTrue ==
  ASSUME NEW s \in Tracker!DailyStates, NEW today \in Nat,
         NEW least \in Int, NEW most \in Nat, least <= most, NEW first \in Nat,
         NEW equities \in Seq(Int), TrueTo(s, least, most, equities, first, today)
  PROVE  /\ Tracker!Rolled(s, today) \in Tracker!DailyStates
         /\ Tracker!Rolled(s, today).trade_day = today
         /\ TrueTo(Tracker!Rolled(s, today), least, most, equities, first, today)
<1>1. CASE today = s.trade_day
  BY <1>1 DEF Tracker!Rolled, Tracker!DailyStates
<1>2. CASE today # s.trade_day
  <2> DEFINE e == s.peak_equity - s.max_dd_today + s.closed_pnl + s.floating_pnl
  <2>1. e \in Int
    BY DEF Tracker!DailyStates
  <2>2. Tracker!Rolled(s, today)
          = [trade_day |-> today, peak_equity |-> e, closed_pnl |-> 0, floating_pnl |-> 0,
             trade_count |-> 0, max_dd_today |-> 0]
    BY <1>2 DEF Tracker!Rolled, Tracker!EmptyDay
  <2> HIDE DEF e
  <2>3. most = 0 /\ DOMAIN equities = {}
    BY <1>2 DEF TrueTo
  <2> QED BY <2>1, <2>2, <2>3 DEF TrueTo, Tracker!DailyStates
<1> QED BY <1>1, <1>2

LEMMA ObservedIsTrue ==
  ASSUME NEW s \in Tracker!DailyStates, NEW today \in Nat, NEW equity \in Int,
         NEW least \in Int, NEW most \in Nat, least <= most, NEW first \in Nat,
         NEW equities \in Seq(Int), TrueTo(s, least, most, equities, first, today)
  PROVE  /\ Tracker!UpdateEquity(s, equity, today) \in Tracker!DailyStates
         /\ Tracker!UpdateEquity(s, equity, today).trade_day = today
         /\ TrueTo(Tracker!UpdateEquity(s, equity, today), least, most,
                   Append(equities, equity), first, today)
<1> DEFINE r    == Tracker!Rolled(s, today)
           peak == Tracker!Higher(r.peak_equity, equity)
           dd   == Tracker!Higher(r.max_dd_today, Tracker!Higher(0, peak - equity))
           told == Append(equities, equity)
           n    == Len(equities)
           new  == Tracker!UpdateEquity(s, equity, today)
<1>1. /\ r \in Tracker!DailyStates /\ r.trade_day = today
      /\ TrueTo(r, least, most, equities, first, today)
  BY RolledIsTrue
<1>2. new = [r EXCEPT !.peak_equity = peak, !.max_dd_today = dd]
  BY DEF Tracker!UpdateEquity
<1> HIDE DEF r, new
<1>3. r.peak_equity \in Int /\ r.max_dd_today \in Int
  BY <1>1 DEF Tracker!DailyStates
<1>4. /\ peak \in Int /\ dd \in Int
      /\ peak >= r.peak_equity /\ peak >= equity
      /\ dd >= r.max_dd_today /\ dd >= 0 /\ dd >= peak - equity
  BY <1>3 DEF Tracker!Higher
<1> HIDE DEF peak, dd
<1>5. /\ new \in Tracker!DailyStates /\ new.trade_day = today
      /\ new.trade_count = r.trade_count /\ new.peak_equity = peak /\ new.max_dd_today = dd
  BY <1>1, <1>2, <1>4 DEF Tracker!DailyStates
<1>6. /\ n \in Nat /\ DOMAIN told = 1 .. n + 1 /\ told[n + 1] = equity
      /\ \A i \in 1 .. n : told[i] = equities[i] /\ equities[i] \in Int
      /\ DOMAIN equities = 1 .. n
  OBVIOUS
<1> HIDE DEF told, n
<1>7. /\ least <= r.trade_count /\ r.trade_count <= most
      /\ \A i, j \in 1 .. n : first < i /\ i <= j =>
           equities[i] <= r.peak_equity /\ equities[i] - equities[j] <= r.max_dd_today
  BY <1>1, <1>6 DEF TrueTo
<1>8. ASSUME NEW i \in 1 .. n + 1, NEW j \in 1 .. n + 1, first < i, i <= j
      PROVE  told[i] <= peak /\ told[i] - told[j] <= dd
  <2>1. CASE j \in 1 .. n
    <3>1. i \in 1 .. n
      BY <1>6, <1>8, <2>1
    <3>2. equities[i] <= r.peak_equity /\ equities[i] - equities[j] <= r.max_dd_today
      BY <1>7, <1>8, <2>1, <3>1
    <3>3. told[i] = equities[i] /\ told[j] = equities[j] /\ {equities[i], equities[j]} \subseteq Int
      BY <1>6, <2>1, <3>1
    <3> QED BY <1>3, <1>4, <3>2, <3>3
  <2>2. CASE j = n + 1 /\ i \in 1 .. n
    <3>1. equities[i] <= r.peak_equity
      BY <1>7, <1>8, <2>2
    <3> QED BY <1>3, <1>4, <1>6, <2>2, <3>1
  <2>3. CASE j = n + 1 /\ i = n + 1
    BY <1>4, <1>6, <2>3
  <2> QED BY <1>6, <1>8, <2>1, <2>2, <2>3
<1> QED BY <1>5, <1>6, <1>7, <1>8 DEF TrueTo, told, new

LEMMA CountedIsTrue ==
  ASSUME NEW s \in Tracker!DailyStates, NEW today \in Nat,
         NEW least \in Int, NEW most \in Nat, least <= most, NEW first \in Nat,
         NEW equities \in Seq(Int), TrueTo(s, least, most, equities, first, today)
  PROVE  /\ Tracker!RecordTradeOpen(s, today) \in Tracker!DailyStates
         /\ Tracker!RecordTradeOpen(s, today).trade_day = today
         /\ TrueTo(Tracker!RecordTradeOpen(s, today), least + 1, most + 1, equities, first, today)
<1> DEFINE r == Tracker!Rolled(s, today)
<1>1. /\ r \in Tracker!DailyStates /\ r.trade_day = today
      /\ TrueTo(r, least, most, equities, first, today)
  BY RolledIsTrue
<1>2. Tracker!RecordTradeOpen(s, today) = [r EXCEPT !.trade_count = @ + 1]
  BY DEF Tracker!RecordTradeOpen
<1> HIDE DEF r
<1>3. PICK t : t = Tracker!RecordTradeOpen(s, today)
  OBVIOUS
<1>4. /\ t \in Tracker!DailyStates /\ t.trade_day = r.trade_day
      /\ t.trade_count = r.trade_count + 1 /\ t.peak_equity = r.peak_equity
      /\ t.max_dd_today = r.max_dd_today
  <2> DEFINE c == r.trade_count + 1
  <2>1. c \in Nat /\ t = [r EXCEPT !.trade_count = c]
    BY <1>1, <1>2, <1>3 DEF Tracker!DailyStates
  <2> HIDE DEF c
  <2>2. /\ t \in Tracker!DailyStates /\ t.trade_day = r.trade_day
        /\ t.trade_count = c /\ t.peak_equity = r.peak_equity
        /\ t.max_dd_today = r.max_dd_today
    BY <1>1, <2>1 DEF Tracker!DailyStates
  <2> QED BY <2>2 DEF c
<1>5. r.trade_count \in Nat
  BY <1>1 DEF Tracker!DailyStates
<1>6. TrueTo(t, least + 1, most + 1, equities, first, today)
  <2>1. /\ least <= r.trade_count /\ r.trade_count <= most
        /\ \A i, j \in DOMAIN equities : first < i /\ i <= j =>
             equities[i] <= r.peak_equity /\ equities[i] - equities[j] <= r.max_dd_today
    BY <1>1 DEF TrueTo
  <2>2. least + 1 <= t.trade_count /\ t.trade_count <= most + 1
    BY <1>4, <1>5, <2>1
  <2> QED BY <1>1, <1>4, <2>1, <2>2 DEF TrueTo
<1> QED BY <1>1, <1>3, <1>4, <1>6

LEMMA MoneyIsTrue ==
  ASSUME NEW s \in Tracker!DailyStates, NEW today \in Nat, NEW money \in Int,
         NEW least \in Int, NEW most \in Nat, least <= most, NEW first \in Nat,
         NEW equities \in Seq(Int), TrueTo(s, least, most, equities, first, today),
         NEW t, t \in {Tracker!RecordTradeClosed(s, money, today),
                       Tracker!SetFloatingPnl(s, money, today)}
  PROVE  /\ t \in Tracker!DailyStates /\ t.trade_day = today
         /\ TrueTo(t, least, most, equities, first, today)
<1> DEFINE r == Tracker!Rolled(s, today)
<1>1. /\ r \in Tracker!DailyStates /\ r.trade_day = today
      /\ TrueTo(r, least, most, equities, first, today)
  BY RolledIsTrue
<1>2. t \in {[r EXCEPT !.closed_pnl = @ + money], [r EXCEPT !.floating_pnl = money]}
  BY DEF Tracker!RecordTradeClosed, Tracker!SetFloatingPnl
<1> HIDE DEF r
<1>3. /\ t \in Tracker!DailyStates /\ t.trade_day = r.trade_day
      /\ t.trade_count = r.trade_count /\ t.peak_equity = r.peak_equity
      /\ t.max_dd_today = r.max_dd_today
  <2>1. CASE t = [r EXCEPT !.closed_pnl = @ + money]
    <3> DEFINE c == r.closed_pnl + money
    <3>1. c \in Int /\ t = [r EXCEPT !.closed_pnl = c]
      BY <1>1, <2>1 DEF Tracker!DailyStates
    <3> HIDE DEF c
    <3> QED BY <1>1, <3>1 DEF Tracker!DailyStates
  <2>2. CASE t = [r EXCEPT !.floating_pnl = money]
    BY <1>1, <2>2 DEF Tracker!DailyStates
  <2> QED BY <1>2, <2>1, <2>2
<1> QED BY <1>1, <1>3 DEF TrueTo

LEMMA TrackerKept == TrackerInv /\ Tracker!Next => TrackerInv'
<1> SUFFICES ASSUME TrackerInv, Tracker!Next PROVE TrackerInv'
  OBVIOUS
<1>a. /\ StartingEquity \in Nat /\ 0 \in Floats /\ MaxDay \in Nat /\ MaxEvents \in Nat
      /\ MaxDeaths \in Nat /\ Results \subseteq Int /\ Floats \subseteq Int
  BY ServicesAssumption DEF Tracker!TrackerAssumption
<1>t. /\ day \in Nat /\ day <= MaxDay /\ realised \in Int /\ floating \in Floats
      /\ floating \in Int /\ state \in Tracker!DailyStates
      /\ opens \in Nat /\ seen \in Seq(Int) /\ events \in 0 .. MaxEvents
      /\ deaths \in 0 .. MaxDeaths /\ Len(seen) \in Nat
  BY <1>a DEF TrackerInv, Tracker!TypeOK
<1>u. /\ up \in BOOLEAN /\ unsaved \in BOOLEAN /\ whole \in BOOLEAN
      /\ born.opens \in Nat /\ born.opens <= opens /\ born.seen \in Nat /\ born.seen <= Len(seen)
  BY <1>t DEF TrackerInv, Tracker!TypeOK
<1>f. /\ file \in {Tracker!Absent, Tracker!Torn}
           \/ (file.kind = "row" /\ file.row \in Tracker!DailyStates)
      /\ file.kind = "row" =>
           /\ file.row \in Tracker!DailyStates /\ file.row.trade_day <= day
           /\ file.row.trade_day = day => file.row.trade_count <= opens
      /\ ~up /\ whole => ~unsaved
      /\ whole /\ ~unsaved =>
           IF file.kind = "row" THEN TrueTo(file.row, opens, opens, seen, 0, day)
                                ELSE opens = 0 /\ seen = <<>>
  BY DEF TrackerInv, Tracker!TypeOK, Tracker!Absent, Tracker!Torn
<1>n. ASSUME up
      PROVE  /\ state.trade_day <= day
             /\ TrueTo(state, opens - born.opens, opens, seen, born.seen, day)
             /\ whole => TrueTo(state, opens, opens, seen, 0, day)
  BY <1>n DEF TrackerInv
\* A call of a mutator: what is left to show of its result.
<1>m. ASSUME Tracker!Event, realised' \in Int, floating' \in Floats,
             opens' \in Nat, opens' >= opens, seen' \in Seq(Int), Len(seen') >= Len(seen),
             unsaved' \in BOOLEAN, ~unsaved' => UNCHANGED <<opens, seen, unsaved>>,
             state' \in Tracker!DailyStates, state'.trade_day = day,
             TrueTo(state', opens' - born.opens, opens', seen', born.seen, day),
             whole => TrueTo(state', opens', opens', seen', 0, day)
      PROVE  TrackerInv'
  <2>1. /\ UNCHANGED <<day, up, file, born, whole, deaths>> /\ events' = events + 1
        /\ events < MaxEvents /\ up
    BY <1>m DEF Tracker!Event
  <2>2. Tracker!TypeOK'
    <3>1. events' \in 0 .. MaxEvents
      BY <1>a, <1>t, <2>1
    <3>2. up' \in BOOLEAN /\ unsaved' \in BOOLEAN /\ whole' \in BOOLEAN
      BY <1>m, <1>u, <2>1
    <3>3. \A i \in DOMAIN seen' : seen'[i] \in Int
      BY <1>m
    <3>4. day' \in 0 .. MaxDay
      BY <1>t, <2>1
    <3>5. born'.opens \in 0 .. opens' /\ born'.seen \in 0 .. Len(seen')
      BY <1>m, <1>t, <1>u, <2>1
    <3> QED BY <1>m, <1>t, <1>f, <2>1, <3>1, <3>2, <3>3, <3>4, <3>5 DEF Tracker!TypeOK
  <2>3. state'.trade_day <= day'
    BY <1>m, <1>t, <2>1
  <2>4. file'.kind = "row" =>
          /\ file'.row.trade_day <= day'
          /\ file'.row.trade_day = day' => file'.row.trade_count <= opens'
    <3> SUFFICES ASSUME file.kind = "row"
                 PROVE  /\ file.row.trade_day <= day
                        /\ file.row.trade_day = day => file.row.trade_count <= opens'
      BY <2>1
    <3>1. file.row.trade_count \in Nat
      BY <1>f DEF Tracker!DailyStates
    <3> QED BY <1>m, <1>t, <1>f, <3>1
  <2>5. whole' /\ ~unsaved' =>
          IF file'.kind = "row" THEN TrueTo(file'.row, opens', opens', seen', 0, day')
                                ELSE opens' = 0 /\ seen' = <<>>
    BY <1>m, <1>f, <2>1
  <2> QED BY <1>m, <2>1, <2>2, <2>3, <2>4, <2>5 DEF TrackerInv
<1>1. CASE Tracker!Midnight
  <2>1. /\ day' = day + 1 /\ day < MaxDay /\ opens' = 0 /\ seen' = <<>>
        /\ born' = [opens |-> 0, seen |-> 0] /\ unsaved' = FALSE /\ whole' = TRUE
        /\ UNCHANGED <<realised, floating, up, state, file, events, deaths>>
    BY <1>1 DEF Tracker!Midnight, Tracker!account, Tracker!Nothing
  <2>2. /\ day' \in 0 .. MaxDay /\ seen' \in Seq(Int) /\ DOMAIN seen' = {}
        /\ born'.opens \in 0 .. opens' /\ born'.seen \in 0 .. Len(seen')
    BY <1>a, <1>t, <2>1
  <2>3. /\ up => state.trade_day <= day' /\ state.trade_day # day'
        /\ file.kind = "row" => file.row.trade_day <= day' /\ file.row.trade_day # day'
    <3>1. up => state.trade_day \in Nat /\ state.trade_day <= day
      BY <1>n, <1>t DEF Tracker!DailyStates
    <3>2. file.kind = "row" => file.row.trade_day \in Nat /\ file.row.trade_day <= day
      BY <1>f DEF Tracker!DailyStates
    <3> QED BY <1>t, <2>1, <3>1, <3>2
  <2>4. Tracker!TypeOK'
    <3>1. up' \in BOOLEAN /\ unsaved' \in BOOLEAN /\ whole' \in BOOLEAN
      BY <1>u, <2>1
    <3> QED BY <1>t, <1>f, <2>1, <2>2, <3>1 DEF Tracker!TypeOK
  <2>5. \A s, least, first : s.trade_day # day' => TrueTo(s, least, 0, <<>>, first, day')
    BY DEF TrueTo
  <2>6. /\ up' => /\ TrueTo(state', opens' - born'.opens, opens', seen', born'.seen, day')
                  /\ TrueTo(state', opens', opens', seen', 0, day')
        /\ file'.kind = "row" => TrueTo(file'.row, opens', opens', seen', 0, day')
    BY <2>1, <2>3, <2>5
  <2> QED BY <2>1, <2>2, <2>3, <2>4, <2>6 DEF TrackerInv
<1>2. CASE Tracker!AccountFloats
  <2>1. /\ floating' \in Floats
        /\ UNCHANGED <<day, realised, up, state, file, opens, seen, born, unsaved, whole,
                       events, deaths>>
    BY <1>2 DEF Tracker!AccountFloats, Tracker!told, Tracker!fate
  <2>2. Tracker!TypeOK'
    BY <2>1 DEF TrackerInv, Tracker!TypeOK
  <2> QED BY <2>1, <2>2 DEF TrackerInv
<1>3. CASE Tracker!ObserveEquity
  <2> DEFINE equity == StartingEquity + realised + floating
  <2>1. /\ Tracker!Event /\ up /\ UNCHANGED <<realised, floating, opens>> /\ unsaved' = TRUE
        /\ state' = Tracker!UpdateEquity(state, equity, day) /\ seen' = Append(seen, equity)
    BY <1>3 DEF Tracker!ObserveEquity, Tracker!Event, Tracker!Equity, Tracker!account
  <2>2. equity \in Int
    BY <1>a, <1>t
  <2> HIDE DEF equity
  <2>3. /\ state' \in Tracker!DailyStates /\ state'.trade_day = day
        /\ TrueTo(state', opens' - born.opens, opens', seen', born.seen, day)
    <3>1. opens - born.opens \in Int /\ opens - born.opens <= opens
      BY <1>t, <1>u
    <3> QED BY <1>n, <1>t, <1>u, <2>1, <2>2, <3>1, ObservedIsTrue
  <2>4. whole => TrueTo(state', opens', opens', seen', 0, day)
    BY <1>n, <1>t, <2>1, <2>2, ObservedIsTrue
  <2>5. seen' \in Seq(Int) /\ Len(seen') >= Len(seen)
    BY <1>t, <2>1, <2>2
  <2> QED BY <1>m, <1>t, <2>1, <2>3, <2>4, <2>5
<1>4. CASE Tracker!TradeOpens
  <2>1. /\ Tracker!Event /\ up /\ UNCHANGED <<realised, floating, seen>> /\ unsaved' = TRUE
        /\ state' = Tracker!RecordTradeOpen(state, day) /\ opens' = opens + 1
    BY <1>4 DEF Tracker!TradeOpens, Tracker!Event, Tracker!account
  <2>2. /\ state' \in Tracker!DailyStates /\ state'.trade_day = day
        /\ TrueTo(state', opens' - born.opens, opens', seen', born.seen, day)
    <3> DEFINE least == opens - born.opens
    <3>1. least \in Int /\ least <= opens /\ opens' - born.opens = least + 1
      BY <1>t, <1>u, <2>1
    <3> HIDE DEF least
    <3>2. TrueTo(state, least, opens, seen, born.seen, day)
      BY <1>n, <2>1 DEF least
    <3> QED BY <1>t, <1>u, <2>1, <3>1, <3>2, CountedIsTrue
  <2>3. whole => TrueTo(state', opens', opens', seen', 0, day)
    BY <1>n, <1>t, <2>1, CountedIsTrue
  <2> QED BY <1>m, <1>t, <2>1, <2>2, <2>3
\* A mutator of money changes neither count nor drawdown.
<1>o. ASSUME NEW money \in Int, Tracker!Event, UNCHANGED <<opens, seen, unsaved>>,
             realised' \in Int, floating' \in Floats,
             state' \in {Tracker!RecordTradeClosed(state, money, day),
                         Tracker!SetFloatingPnl(state, money, day)}
      PROVE  TrackerInv'
  <2>0. up
    BY <1>o DEF Tracker!Event
  <2>1. /\ state' \in Tracker!DailyStates /\ state'.trade_day = day
        /\ TrueTo(state', opens - born.opens, opens, seen, born.seen, day)
    <3> DEFINE least == opens - born.opens
    <3>1. least \in Int /\ least <= opens
      BY <1>t, <1>u
    <3>2. TrueTo(state, least, opens, seen, born.seen, day)
      BY <1>n, <2>0
    <3> HIDE DEF least
    <3>3. \A t \in {Tracker!RecordTradeClosed(state, money, day),
                   Tracker!SetFloatingPnl(state, money, day)} :
            /\ t \in Tracker!DailyStates /\ t.trade_day = day
            /\ TrueTo(t, least, opens, seen, born.seen, day)
      BY <1>t, <1>u, <3>1, <3>2, MoneyIsTrue, SMTT(30)
    <3> QED BY <1>o, <3>3 DEF least
  <2>2. whole => TrueTo(state', opens, opens, seen, 0, day)
    BY <1>n, <1>o, <1>t, <2>0, MoneyIsTrue
  <2> QED BY <1>m, <1>o, <1>t, <1>u, <2>1, <2>2
<1>5. ASSUME NEW pnl \in Results, Tracker!TradeCloses(pnl)
      PROVE  TrackerInv'
  <2>1. /\ Tracker!Event /\ UNCHANGED <<opens, seen, unsaved>>
        /\ state' = Tracker!RecordTradeClosed(state, pnl, day)
        /\ realised' = realised + pnl /\ floating' = 0 /\ pnl \in Int
    BY <1>5, <1>a DEF Tracker!TradeCloses, Tracker!Event, Tracker!told
  <2> QED BY <1>o, <1>a, <1>t, <2>1
<1>6. CASE Tracker!ObserveFloating
  <2>1. /\ Tracker!Event /\ UNCHANGED <<realised, floating, opens, seen, unsaved>>
        /\ state' = Tracker!SetFloatingPnl(state, floating, day)
    BY <1>6 DEF Tracker!ObserveFloating, Tracker!Event, Tracker!told, Tracker!account
  <2> QED BY <1>o, <1>t, <2>1
<1>7. CASE Tracker!Persist
  <2>1. /\ file' = [kind |-> "row", row |-> state] /\ unsaved' = FALSE /\ up
        /\ UNCHANGED <<day, realised, floating, up, state, opens, seen, born, whole, events,
                       deaths>>
    BY <1>7 DEF Tracker!Persist, Tracker!Row, Tracker!account, Tracker!told
  <2>2. file'.kind = "row" /\ file'.row = state
    BY <2>1
  <2>3. Tracker!TypeOK'
    <3>1. file'.kind = "row" /\ file'.row \in Tracker!DailyStates
      BY <1>t, <2>2
    <3>2. unsaved' \in BOOLEAN
      BY <2>1
    <3> QED BY <2>1, <3>1, <3>2 DEF TrackerInv, Tracker!TypeOK
  <2>4. state.trade_day = day => state.trade_count <= opens
    BY <1>n, <2>1 DEF TrueTo
  <2> QED BY <1>n, <2>1, <2>2, <2>3, <2>4 DEF TrackerInv
<1>8. CASE Tracker!Die
  <2>1. /\ deaths < MaxDeaths /\ deaths' = deaths + 1 /\ file' \in {file, Tracker!Torn}
        /\ up' = FALSE
        /\ whole' = (whole /\ ~unsaved /\ (file' = Tracker!Torn => ~(opens > 0 \/ seen # <<>>)))
        /\ UNCHANGED <<day, realised, floating, state, opens, seen, born, unsaved, events>>
    BY <1>8 DEF Tracker!Die, Tracker!account, Tracker!told, Tracker!ToldToday
  <2>2. Tracker!TypeOK'
    <3>1. up' \in BOOLEAN /\ whole' \in BOOLEAN
      BY <1>u, <2>1
    <3>2. deaths' \in 0 .. MaxDeaths
      BY <1>a, <1>t, <2>1
    <3>3. file' \in {Tracker!Absent, Tracker!Torn}
             \/ (file'.kind = "row" /\ file'.row \in Tracker!DailyStates)
      BY <1>f, <2>1
    <3> QED BY <2>1, <3>1, <3>2, <3>3 DEF TrackerInv, Tracker!TypeOK
  <2>3. file'.kind = "row" => file' = file
    BY <2>1 DEF Tracker!Torn
  <2>4. whole' /\ ~unsaved' =>
          IF file'.kind = "row" THEN TrueTo(file'.row, opens', opens', seen', 0, day')
                                ELSE opens' = 0 /\ seen' = <<>>
    <3>1. CASE file' = file
      BY <1>f, <2>1, <3>1
    <3>2. CASE file' = Tracker!Torn
      <4>1. file'.kind # "row"
        BY <3>2 DEF Tracker!Torn
      <4>2. whole' => ~(opens > 0) /\ seen = <<>>
        BY <2>1, <3>2, Zenon
      <4>3. whole' => opens = 0
        BY <1>t, <4>2
      <4> QED BY <2>1, <4>1, <4>2, <4>3
    <3> QED BY <2>1, <3>1, <3>2
  <2> QED BY <1>f, <1>t, <2>1, <2>2, <2>3, <2>4 DEF TrackerInv
<1>9. CASE Tracker!Start
  <2>1. /\ up' = TRUE /\ ~up /\ born' = [opens |-> opens, seen |-> Len(seen)]
        /\ UNCHANGED <<day, realised, floating, file, opens, seen, unsaved, whole, events,
                       deaths>>
    BY <1>9 DEF Tracker!Start, Tracker!account, Tracker!told
  <2>2. whole => ~unsaved
    BY <1>f, <2>1
  <2>3. /\ born'.opens = opens /\ born'.seen = Len(seen)
        /\ born'.opens \in 0 .. opens' /\ born'.seen \in 0 .. Len(seen')
    BY <1>t, <2>1
  \* The new snapshot is one of today, with at most the opens told.
  <2>4. /\ state' \in Tracker!DailyStates /\ state'.trade_day = day
        /\ state'.trade_count <= opens
        /\ whole => TrueTo(state', opens, opens, seen, 0, day)
    <3>1. CASE Tracker!Loadable
      <4>1. /\ file.kind = "row" /\ file.row.trade_day = day /\ state' = file.row
        BY <1>9, <3>1 DEF Tracker!Start, Tracker!Loadable
      <4> QED BY <1>f, <2>2, <4>1
    <3>2. CASE ~Tracker!Loadable
      <4> DEFINE s == [trade_day |-> day, peak_equity |-> StartingEquity, closed_pnl |-> 0,
                       floating_pnl |-> 0, trade_count |-> 0, max_dd_today |-> 0]
      <4>1. state' = s
        BY <1>9, <3>2 DEF Tracker!Start, Tracker!EmptyDay
      <4>2. s \in Tracker!DailyStates /\ s.trade_day = day /\ s.trade_count = 0
        BY <1>a, <1>t DEF Tracker!DailyStates
      <4> HIDE DEF s
      <4>3. whole => opens = 0 /\ seen = <<>>
        <5>1. file.kind = "row" => file.row.trade_day # day
          BY <3>2 DEF Tracker!Loadable
        <5> QED BY <1>f, <2>2, <5>1 DEF TrueTo
      <4> QED BY <1>t, <4>1, <4>2, <4>3 DEF TrueTo
    <3> QED BY <3>1, <3>2
  <2>5. TrueTo(state', opens' - born'.opens, opens', seen', born'.seen, day')
    <3>1. opens' - born'.opens = 0 /\ 0 <= state'.trade_count
      BY <1>t, <2>1, <2>3, <2>4 DEF Tracker!DailyStates
    <3>2. \A i \in DOMAIN seen : ~(Len(seen) < i)
      BY <1>t
    <3>3. \A s : s.trade_day = day /\ 0 <= s.trade_count /\ s.trade_count <= opens
                 => TrueTo(s, 0, opens, seen, Len(seen), day)
      BY <3>2 DEF TrueTo
    <3> QED BY <2>1, <2>3, <2>4, <3>1, <3>3
  <2>6. Tracker!TypeOK'
    <3>1. up' \in BOOLEAN /\ unsaved' \in BOOLEAN /\ whole' \in BOOLEAN
      BY <1>u, <2>1
    <3> QED BY <1>t, <1>f, <2>1, <2>3, <2>4, <3>1 DEF TrackerInv, Tracker!TypeOK
  <2>7. state'.trade_day <= day'
    BY <1>t, <2>1, <2>4
  <2> QED BY <1>f, <2>1, <2>4, <2>5, <2>6, <2>7 DEF TrackerInv
<1> QED BY <1>1, <1>2, <1>3, <1>4, <1>5, <1>6, <1>7, <1>8, <1>9 DEF Tracker!Next

-----------------------------------------------------------------------------
(***************************************************************************)
(* The whole.  Every step is one of one part, and leaves the variables of  *)
(* the other three as they are.                                            *)
(***************************************************************************)
ServicesInv == PendingInv /\ TrackerInv /\ LoopInv /\ ReporterInv

LEMMA PendingRests == PendingInv /\ UNCHANGED pendingvars => PendingInv'
BY DEF pendingvars, PendingInv, Pending!TypeOK, Pending!Tickets, Pending!NothingRestsForgotten

LEMMA TrackerRests == TrackerInv /\ UNCHANGED trackervars => TrackerInv'
BY DEF trackervars, TrackerInv, Tracker!TypeOK

LEMMA LoopRests == LoopInv /\ UNCHANGED loopvars => LoopInv'
BY DEF loopvars, LoopInv, Loop!TypeOK, Loop!ProbesClose

LEMMA ReporterRests == ReporterInv /\ UNCHANGED reportervars => ReporterInv'
BY DEF reportervars, ReporterInv, Reporter!TypeOK, Told

LEMMA ServicesStep == ServicesInv /\ [Next]_vars => ServicesInv'
<1> SUFFICES ASSUME ServicesInv, [Next]_vars PROVE ServicesInv'
  OBVIOUS
<1>1. CASE PendingStep
  <2>1. Pending!Next /\ UNCHANGED <<trackervars, loopvars, reportervars>>
    BY <1>1 DEF PendingStep, Only
  <2> QED BY <2>1, PendingKept, TrackerRests, LoopRests, ReporterRests DEF ServicesInv
<1>2. CASE TrackerStep
  <2>1. Tracker!Next /\ UNCHANGED <<pendingvars, loopvars, reportervars>>
    BY <1>2 DEF TrackerStep, Only
  <2> QED BY <2>1, TrackerKept, PendingRests, LoopRests, ReporterRests DEF ServicesInv
<1>3. CASE LoopStep
  <2>1. Loop!Next /\ UNCHANGED <<pendingvars, trackervars, reportervars>>
    BY <1>3 DEF LoopStep, Only
  <2> QED BY <2>1, LoopKept, PendingRests, TrackerRests, ReporterRests DEF ServicesInv
<1>4. CASE ReporterStep
  <2>1. Reporter!Next /\ UNCHANGED <<pendingvars, trackervars, loopvars>>
    BY <1>4 DEF ReporterStep, Only
  <2> QED BY <2>1, ReporterKept, PendingRests, TrackerRests, LoopRests DEF ServicesInv
<1>5. CASE ReporterDone \/ UNCHANGED vars
  <2>1. UNCHANGED <<pendingvars, trackervars, loopvars, reportervars>>
    BY <1>5 DEF ReporterDone, vars
  <2> QED BY <2>1, PendingRests, TrackerRests, LoopRests, ReporterRests DEF ServicesInv
<1> QED BY <1>1, <1>2, <1>3, <1>4, <1>5 DEF Next

LEMMA ServicesAlways == Spec => []ServicesInv
<1>1. Init => ServicesInv
  BY PendingInit, TrackerInit, LoopInit, ReporterInit DEF Init, ServicesInv
<1> QED BY <1>1, ServicesStep, PTL DEF Spec

\* The hybrid expiry: an order that left the map of the position manager is not
\* resting at the broker, whatever the broker and the manager did in between,
\* unless a cancel of it was answered with 10027.
THEOREM NothingIsForgotten == Spec => []NothingRestsForgotten
<1>1. ServicesInv => NothingRestsForgotten
  BY DEF ServicesInv, PendingInv, NothingRestsForgotten
<1> QED BY <1>1, ServicesAlways, PTL

\* The day's count and drawdown are those of the opens and equities told on this
\* IST day, across midnights and restarts, unless a death of the day tore the file
\* or came after an update that was not in it; also then no process forgets what
\* it was told itself, and no count is above the opens told.
THEOREM TheDayIsTold == Spec => []DayIsTold
<1>1. ServicesInv => DayIsTold
  <2> SUFFICES ASSUME TrackerInv PROVE Tracker!CountIsToday /\ Tracker!DrawdownCovers
    BY DEF ServicesInv, TrackerInv, DayIsTold
  <2> SUFFICES ASSUME up PROVE Tracker!CountIsToday /\ Tracker!DrawdownCovers
    BY DEF Tracker!CountIsToday, Tracker!DrawdownCovers
  <2>1. /\ TrueTo(state, opens - born.opens, opens, seen, born.seen, day)
        /\ whole => TrueTo(state, opens, opens, seen, 0, day)
        /\ state.trade_count \in Nat /\ opens \in Nat /\ born.opens \in Nat /\ seen \in Seq(Int)
    BY DEF TrackerInv, Tracker!TypeOK, Tracker!DailyStates
  <2>2. Tracker!CountIsToday
    BY <2>1 DEF TrueTo, Tracker!CountIsToday, Tracker!Current
  <2>3. \A i \in DOMAIN seen : 0 < i
    BY <2>1
  <2>4. state.trade_day # day => DOMAIN seen = {}
    BY <2>1 DEF TrueTo
  <2>5. Tracker!DrawdownCovers
    BY <2>1, <2>3, <2>4 DEF TrueTo, Tracker!DrawdownCovers, Tracker!Current
  <2> QED BY <2>2, <2>5
<1> QED BY <1>1, ServicesAlways, PTL

\* Between two probes that let a restart pass the balance changed by less than
\* the guard of the supervisor, over any number of failed probes, unless the
\* first of them found an account without money.
THEOREM ProbesAreClose == Spec => []ProbesClose
<1>1. ServicesInv => ProbesClose
  BY DEF ServicesInv, LoopInv, ProbesClose
<1> QED BY <1>1, ServicesAlways, PTL

\* The hourly reports: nothing is told twice, and nothing that was counted
\* between two sends is lost.
THEOREM EachIsReportedOnce == Spec => []EachReportedOnce
<1>1. ServicesInv => EachReportedOnce
  BY DEF ServicesInv, ReporterInv, Told, EachReportedOnce, Reporter!EachReportedOnce
<1> QED BY <1>1, ServicesAlways, PTL

=============================================================================
