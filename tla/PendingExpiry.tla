---------------------------- MODULE PendingExpiry ----------------------------
(***************************************************************************)
(* Pending orders and their hybrid expiry: the broker removes an order at  *)
(* its expiry, and GriffPositionManager.maintain cancels it too, at the    *)
(* first bar close past the expiry (execution/position_manager.py, with    *)
(* cancel_pending of execution/order_router.py).  An order that fills is   *)
(* promoted to a position by on_pending_filled, which the caller invokes   *)
(* when it sees the fill; the manager does not look for fills itself.      *)
(* Caller and manager share one task; the broker acts at any time.         *)
(***************************************************************************)
EXTENDS Integers, Sequences

CONSTANTS
  Lifetime,      \* pending_expiry_hours, in steps of the clock
  MaxNow, MaxOrders   \* bounds: clock steps, orders placed

PendingAssumption ==
  Lifetime \in Nat /\ MaxNow \in Nat /\ MaxOrders \in Nat

VARIABLES
  now,         \* the clock
  orders,      \* the broker's orders, by ticket
  pendings,    \* tickets in _pendings
  promoted,    \* order tickets that became positions in _positions, in order
  pc, called_at,   \* the running maintain call
  queue,       \* the orders of its snapshot it has not come to yet
  disowned     \* history: tickets whose cancel was answered with 10027

vars == <<now, orders, pendings, promoted, pc, called_at, queue, disowned>>
call == <<pc, called_at, queue>>

Init ==
  /\ now = 0 /\ orders = <<>>
  /\ pendings = {} /\ promoted = <<>>
  /\ pc = "idle" /\ called_at = 0 /\ queue = {} /\ disowned = {}

-----------------------------------------------------------------------------
(* The clock and the broker. *)

Tick == now < MaxNow /\ now' = now + 1 /\ UNCHANGED <<orders, pendings, promoted, call, disowned>>

Becomes(o, status) ==
  /\ orders[o].status = "resting"
  /\ orders' = [orders EXCEPT ![o].status = status]

BrokerFills(o)   == Becomes(o, "filled") /\ UNCHANGED <<now, pendings, promoted, call, disowned>>
BrokerExpires(o) == /\ now >= orders[o].expiry
                    /\ Becomes(o, "expired")
                    /\ UNCHANGED <<now, pendings, promoted, call, disowned>>

-----------------------------------------------------------------------------
(* The manager. *)

\* place_pending_* succeeded and register_pending follows.
RegisterPending ==
  /\ pc = "idle" /\ Len(orders) < MaxOrders
  /\ orders' = Append(orders, [status |-> "resting", expiry |-> now + Lifetime])
  /\ pendings' = pendings \cup {Len(orders')}
  /\ UNCHANGED <<now, promoted, call, disowned>>

\* on_pending_filled; an unknown order changes nothing.
Remaining(o) == pendings \ {o}

OnPendingFilled(o) ==
  /\ pc = "idle" /\ orders[o].status = "filled" /\ o \in pendings
  /\ pendings' = Remaining(o)
  /\ promoted' = Append(promoted, o)
  /\ UNCHANGED <<now, orders, call, disowned>>

\* maintain, third part: a snapshot of the orders is walked.  A dict keeps
\* the order of insertion, which is that of the tickets.
StartMaintain ==
  /\ pc = "idle"
  /\ pc' = "walking" /\ called_at' = now
  /\ queue' = pendings
  /\ UNCHANGED <<now, orders, pendings, promoted, disowned>>

IsNext(o) == o \in queue /\ \A u \in queue : o <= u
\* now_msc >= order.expiry_msc.  Variant: only the bar that closes at the expiry.
Past_AtExpiry(o) == called_at = orders[o].expiry
Past(o) == called_at >= orders[o].expiry

WalkOn ==
  /\ pc = "walking"
  /\ \E o \in queue :
       /\ IsNext(o)
       /\ IF Past(o) THEN pc' = "cancelling" /\ UNCHANGED queue
                     ELSE queue' = queue \ {o} /\ UNCHANGED pc
  /\ UNCHANGED <<now, orders, pendings, promoted, called_at, disowned>>

\* The order leaves the map if cancel_pending returned True.
\* Variant: whatever it returned.
Forgotten_Always(o, ok) == pendings \ {o}
Forgotten(o, ok) == IF ok THEN pendings \ {o} ELSE pendings

\* cancel_pending decides by the code alone: True for DONE, and for 10027, which
\* it takes for "order not found" but which says nothing of the order, so any
\* order may be answered with it; False for every other code and for no answer,
\* also when the order is gone, or when the broker did cancel it.
CancelAnswered ==
  /\ pc = "cancelling"
  /\ \E o \in queue :
       /\ IsNext(o)
       /\ \/ Becomes(o, "cancelled") /\ pendings' = Forgotten(o, TRUE) /\ UNCHANGED disowned
          \/ /\ pendings' = Forgotten(o, TRUE) /\ disowned' = disowned \cup {o}
             /\ UNCHANGED orders
          \/ /\ Becomes(o, "cancelled") \/ UNCHANGED orders
             /\ pendings' = Forgotten(o, FALSE) /\ UNCHANGED disowned
       /\ queue' = queue \ {o}
  /\ pc' = "walking"
  /\ UNCHANGED <<now, promoted, called_at>>

EndMaintain ==
  /\ pc = "walking" /\ queue = {}
  /\ pc' = "idle" /\ called_at' = 0
  /\ UNCHANGED <<now, orders, pendings, promoted, queue, disowned>>

Tickets  == 1 .. Len(orders)
Maintain == StartMaintain \/ WalkOn \/ CancelAnswered \/ EndMaintain

Next ==
  \/ Tick \/ RegisterPending \/ Maintain
  \/ \E o \in Tickets : BrokerFills(o) \/ BrokerExpires(o) \/ OnPendingFilled(o)

Spec == Init /\ [][Next]_vars

-----------------------------------------------------------------------------
(* Properties. *)

\* Types; the map only holds orders that were placed.
TypeOK ==
  /\ now \in 0 .. MaxNow
  /\ \A o \in Tickets : /\ orders[o].status \in {"resting", "filled", "expired", "cancelled"}
                        /\ orders[o].expiry \in Nat
  /\ pendings \subseteq Tickets
  /\ promoted \in Seq(Tickets) /\ Len(promoted) <= Len(orders)
  /\ pc \in {"idle", "walking", "cancelling"} /\ called_at \in 0 .. now
  /\ queue \subseteq pendings /\ disowned \subseteq Tickets

\* The hybrid expiry (order_router.py:15-18): an order the bot has let go of
\* is not resting at the broker any more, where it could still fill, whatever
\* broker, caller and manager did in between; the one way to forget an order
\* that rests is a cancel answered with 10027.
NothingRestsForgotten ==
  \A o \in Tickets \ pendings : orders[o].status = "resting" => o \in disowned

\* maintain asks the router to cancel this order.
Asked(o) == pc = "cancelling" /\ IsNext(o)
=============================================================================
