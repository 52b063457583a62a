----------------------------- MODULE OrderRouter -----------------------------
(***************************************************************************)
(* Sending an order: GriffOrderRouter.place_market and _place_pending      *)
(* (execution/order_router.py) with their idempotency guard, their retries *)
(* and the recovery of a missing fill price, against a broker that answers *)
(* as MetaTrader5.order_send may: done, a transient retcode, a permanent   *)
(* one, or nothing.  Each send and each sleep is an await, so the clock    *)
(* moves and positions close in between; the callers run one call at a     *)
(* time.                                                                   *)
(***************************************************************************)
EXTENDS Integers, Sequences, FiniteSetsExt

CONSTANTS
  Keys,           \* (pattern, symbol, direction, bar) of a signal
  SymbolOf,       \* Keys -> symbol
  MaxRetries,     \* MAX_RETRIES
  DedupWindow,    \* DEDUP_WINDOW_MS, in steps of the clock
  MaxRemembered,  \* submissions kept before the cleanup (1024)
  Faults,         \* which of AllFaults occur
  MaxNow, MaxCalls, MaxBlurred   \* bounds: clock steps, calls, blurred answers

AllFaults == {"ambiguous", "unpriced", "invisible"}

ASSUME RouterAssumption ==
  /\ MaxRetries \in Nat \ {0} /\ DedupWindow \in Nat /\ MaxRemembered \in Nat
  /\ Faults \subseteq AllFaults
  /\ MaxNow \in Nat /\ MaxCalls \in Nat /\ MaxBlurred \in Nat

Kinds   == {"market", "pending"}
NoCall  == [no |-> 0, kind |-> "none"]

\* No two fills have the same price: a price is the ticket it belongs to, and
\* the entry price of the signal is none of them.
Quote == 0

VARIABLES
  now,           \* the clock
  remembered,    \* _recent_submissions: key -> now_msc of its last submission
  pc,            \* idle, sending, sleeping or resolving
  call,          \* the running call and its arguments
  attempt,       \* sends of this call that have failed
  ticket,        \* the ticket a done answer carried
  deals,         \* what the broker executed, by ticket
  gone,          \* tickets no longer open at the broker
  calls,         \* calls made so far
  returned,      \* history: calls that returned, with the entry they report
  blurred        \* history: sends that were executed and whose answer did not say so

vars == <<now, remembered, pc, call, attempt, ticket, deals, gone, calls, returned, blurred>>

Init ==
  /\ now = 0
  /\ remembered = [k \in {} |-> 0]
  /\ pc = "idle" /\ call = NoCall /\ attempt = 0 /\ ticket = 0
  /\ deals = <<>> /\ gone = {} /\ calls = 0 /\ returned = {} /\ blurred = 0

-----------------------------------------------------------------------------
Tick ==
  /\ now < MaxNow
  /\ now' = now + 1
  /\ UNCHANGED <<remembered, pc, call, attempt, ticket, deals, gone, calls, returned, blurred>>

BrokerCloses(t) ==
  /\ t \in 1 .. Len(deals) /\ t \notin gone
  /\ gone' = gone \cup {t}
  /\ UNCHANGED <<now, remembered, pc, call, attempt, ticket, deals, calls, returned, blurred>>

-----------------------------------------------------------------------------
(* _check_and_record_submission *)

Duplicate(key) ==
  key \in DOMAIN remembered /\ now - remembered[key] < DedupWindow

\* The bounded cleanup after a submission was recorded.
\* Variant: the table is emptied when it is full.
Cleaned_Emptied(table) ==
  IF Cardinality(DOMAIN table) > MaxRemembered THEN [k \in {} |-> 0] ELSE table
Cleaned(table) ==
  IF Cardinality(DOMAIN table) > MaxRemembered
  THEN [k \in {j \in DOMAIN table : table[j] >= now - DedupWindow} |-> table[k]]
  ELSE table

Recorded(key) ==
  Cleaned([k \in DOMAIN remembered \cup {key} |-> IF k = key THEN now ELSE remembered[k]])

\* place_market or _place_pending up to its first send.  Only place_market
\* asks the guard; a duplicate raises and nothing else happens.
Call(kind, key) ==
  /\ pc = "idle" /\ calls < MaxCalls
  /\ calls' = calls + 1
  /\ IF kind = "market" /\ Duplicate(key)
     THEN UNCHANGED <<remembered, pc, call>>
     ELSE /\ remembered' = IF kind = "market" THEN Recorded(key) ELSE remembered
          /\ call' = [no |-> calls + 1, kind |-> kind, key |-> key, at |-> now]
          /\ pc' = "sending"
  /\ UNCHANGED <<now, attempt, ticket, deals, gone, returned, blurred>>

-----------------------------------------------------------------------------
(* _send_with_retry *)

Executed ==
  deals' = Append(deals, [ call |-> call.no, kind |-> call.kind, key |-> call.key,
                           at |-> call.at ])

Raise == pc' = "idle" /\ call' = NoCall /\ attempt' = 0 /\ ticket' = 0

ReportSeen(entry, seen) ==
  /\ returned' = returned \cup {[call |-> call.no, entry |-> entry, seen |-> seen]}
  /\ Raise
Report(entry) == ReportSeen(entry, TRUE)

\* The answer to a send the broker executed.
\* Variant: the answer to the last attempt is not looked at.
Answered_NotLast(entry) == IF attempt + 1 = MaxRetries THEN Raise /\ UNCHANGED returned
                                                       ELSE Report(entry)
Answered(entry) == Report(entry)

\* TRADE_RETCODE_DONE.  A market answer may come without its price.
AnsweredDone ==
  /\ pc = "sending"
  /\ Executed
  /\ \/ Answered(Len(deals'))
     \/ /\ "unpriced" \in Faults /\ call.kind = "market"
        /\ pc' = "resolving" /\ ticket' = Len(deals')
        /\ UNCHANGED <<call, attempt, returned>>
  /\ UNCHANGED <<now, remembered, gone, calls, blurred>>

\* The broker did not execute, or did and the answer does not say so.
Unanswered ==
  \/ UNCHANGED <<deals, blurred>>
  \/ /\ "ambiguous" \in Faults /\ blurred < MaxBlurred
     /\ Executed /\ blurred' = blurred + 1

\* A transient retcode: sleep, then try again while attempts are left.
Exhausted(n) == n >= MaxRetries

\* Variant: the count starts over on every attempt.
NextAttempt_Restarted == 1
NextAttempt == attempt + 1

AnsweredTransient ==
  /\ pc = "sending"
  /\ Unanswered
  /\ attempt' = NextAttempt
  /\ pc' = "sleeping"
  /\ UNCHANGED <<now, remembered, call, ticket, gone, calls, returned>>

WakeUp ==
  /\ pc = "sleeping"
  /\ IF Exhausted(attempt) THEN Raise
                           ELSE pc' = "sending" /\ UNCHANGED <<call, attempt, ticket>>
  /\ UNCHANGED <<now, remembered, deals, gone, calls, returned, blurred>>

\* Any other retcode, and no result at all (retcode -1), raises at once.
AnsweredPermanent ==
  /\ pc = "sending"
  /\ Unanswered
  /\ Raise
  /\ UNCHANGED <<now, remembered, gone, calls, returned>>

-----------------------------------------------------------------------------
(* _fill_price_from_position *)

OpenOn(symbol) ==
  {t \in 1 .. Len(deals) : deals[t].kind = "market" /\ t \notin gone
                           /\ SymbolOf[deals[t].key] = symbol}

\* The position asked for by ticket, else any on the symbol; {} for neither.
\* Variant: the symbol is asked first.
Candidates_AnyOnSymbol == OpenOn(SymbolOf[call.key])
Candidates ==
  IF ticket \in gone THEN OpenOn(SymbolOf[call.key]) ELSE {ticket}

\* positions_get may fail, or not show the position yet.
Seen == IF "invisible" \in Faults THEN SUBSET {ticket} ELSE {{}}

ResolvePrice ==
  /\ pc = "resolving"
  /\ \E hidden \in Seen :
       LET found == IF hidden = {} THEN Candidates
                    ELSE OpenOn(SymbolOf[call.key]) \ hidden
       IN  \/ (found = {} \/ hidden # {}) /\ ReportSeen(Quote, hidden = {})
           \/ \E t \in found : ReportSeen(t, hidden = {})
  /\ UNCHANGED <<now, remembered, deals, gone, calls, blurred>>

Router ==
  \/ AnsweredDone \/ AnsweredTransient \/ AnsweredPermanent
  \/ WakeUp \/ ResolvePrice

Next ==
  \/ Tick
  \/ \E t \in 1 .. Len(deals) : BrokerCloses(t)
  \/ \E kind \in Kinds, key \in Keys : Call(kind, key)
  \/ Router

Spec == Init /\ [][Next]_vars

\* order_send and positions_get return, and a sleep ends.
FairSpec == Spec /\ WF_vars(Router)
-----------------------------------------------------------------------------
(* Properties. *)

Tickets == 1 .. Len(deals)
RunningCall ==
  [no : 1 .. MaxCalls, kind : Kinds, key : Keys, at : 0 .. MaxNow]

\* Types; the table of submissions holds no more than the cleanup allows,
\* unless all of them are inside the window.
TypeOK ==
  /\ now \in 0 .. MaxNow /\ calls \in 0 .. MaxCalls
  /\ DOMAIN remembered \subseteq Keys /\ \A k \in DOMAIN remembered : remembered[k] \in 0 .. now
  /\ pc \in {"idle", "sending", "sleeping", "resolving"}
  /\ call \in RunningCall \cup {NoCall} /\ (pc = "idle" <=> call = NoCall)
  /\ attempt \in 0 .. MaxRetries /\ (pc = "sending" => attempt < MaxRetries)
  /\ ticket \in {0} \cup Tickets
  /\ \A t \in Tickets : deals[t].call \in 1 .. calls
  /\ gone \subseteq Tickets
  /\ blurred \in 0 .. MaxBlurred
  /\ \A r \in returned : r.call \in 1 .. calls /\ r.entry \in Tickets \cup {Quote}

\* The idempotency guard (order_router.py:332-356): as long as every answer
\* was definite, two market orders for the same signal are never from one
\* call, and never from two calls less than the window apart, also after the
\* table was cleaned up in between.
OneOrderPerWindow ==
  \A t, u \in Tickets :
    t < u /\ blurred = 0 /\ deals[t].kind = "market" /\ deals[u].kind = "market"
          /\ deals[t].key = deals[u].key
      => deals[t].call # deals[u].call /\ deals[u].at - deals[t].at >= DedupWindow

\* As long as every answer was definite the caller is told the truth: of the
\* calls that are over, those that returned a position or an order are exactly
\* those whose order is at the broker.  A call that raised left nothing there.
OutcomeIsTrue ==
  /\ TypeOK
  /\ blurred = 0 => {deals[t].call : t \in Tickets} \ {call.no} = {r.call : r \in returned}

\* order_router.py:170-174: a position whose answer came without a price is
\* reported with its own fill price if positions_get shows it, however many
\* others are open on the symbol.
EntryIsReal ==
  [][\A r \in returned' \ returned :
       LET own == {t \in DOMAIN deals' : deals'[t].call = r.call}
       IN  r.seen => own # {} /\ (Max(own) \notin gone => r.entry = Max(own))]_returned

\* Every call ends, by returning or by raising.
CallEnds == pc # "idle" ~> pc = "idle"
=============================================================================
