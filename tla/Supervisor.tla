------------------------------ MODULE Supervisor ------------------------------
(***************************************************************************)
(* BotSupervisor (supervisor.py): run the bot as a child process, restart  *)
(* it after a crash with a growing delay and at most MaxAttempts times,    *)
(* refuse in REAL mode when the balance jumped, stop when a signal asks.   *)
(* The signal handler runs between any two steps of the loop, which is     *)
(* suspended while it probes the balance, notifies, sleeps, spawns the     *)
(* child and waits for it.                                                 *)
(***************************************************************************)
EXTENDS Integers, Sequences

CONSTANTS
  MaxAttempts,    \* max_attempts
  RealMode,       \* settings.execution_mode = "REAL"
  Balances,       \* balances the account may have
  GuardPct        \* BALANCE_CHANGE_GUARD_PCT

SupervisorAssumption ==
  /\ MaxAttempts \in Nat /\ RealMode \in BOOLEAN
  /\ Balances \subseteq Int /\ GuardPct \in Nat

NoCode == "none"
NoResult == -1

VARIABLES
  pc,               \* check, sleep, spawning, running or ended
  attempt,
  child,            \* "none", "alive" or "dead": the process of self._child
  code,             \* how the child ended
  terminated,       \* the child was sent SIGTERM
  stop_requested,   \* _stop_requested
  last_balance,     \* _last_real_balance, a set of at most one
  result,           \* what run returned
  balance,          \* the account
  starts,           \* history: children started
  passed            \* history: balances that passed the guard

loop == <<pc, attempt, last_balance, result>>
kid  == <<child, code, terminated>>
history == <<starts, passed>>
vars == <<loop, kid, stop_requested, balance, history>>

Init ==
  /\ pc = "check" /\ attempt = 0 /\ last_balance = {} /\ result = NoResult
  /\ child = "none" /\ code = NoCode /\ terminated = FALSE
  /\ stop_requested = FALSE
  /\ balance \in Balances
  /\ starts = 0 /\ passed = <<>>

-----------------------------------------------------------------------------
(* The environment. *)

BalanceMoves ==
  /\ balance' \in Balances
  /\ UNCHANGED <<loop, kid, stop_requested, history>>

ChildEnds ==
  /\ child = "alive"
  /\ child' = "dead" /\ code' \in {"clean", "crash"}
  /\ UNCHANGED <<loop, terminated, stop_requested, balance, history>>

\* _request_stop, from SIGINT or SIGTERM.  Before the first spawn the loop does
\* not pause.
Signal ==
  /\ pc # "ended" /\ ~(pc = "check" /\ attempt = 0)
  /\ stop_requested' = TRUE
  /\ terminated' = (terminated \/ (pc = "running" /\ child = "alive"))
  /\ UNCHANGED <<loop, child, code, balance, history>>

-----------------------------------------------------------------------------
(* run *)

End(r) == pc' = "ended" /\ result' = r

More == attempt <= MaxAttempts

Far(a, b) == (IF a > b THEN a - b ELSE b - a) * 100 >= GuardPct * b

\* _last_real_balance after a probe that let the restart pass.
\* Variant: the baseline stays that of the first probe.
Baseline_First(cur) == IF last_balance = {} THEN {cur} ELSE last_balance
Baseline(cur) == {cur}

\* No balance to compare with, one that is not positive, or one that is near.
Passes(cur) == \A prev \in last_balance : prev <= 0 \/ ~Far(cur, prev)

\* _safe_to_restart: the probe answers with the balance, or fails.
SafeToRestart ==
  \/ /\ RealMode /\ Passes(balance)
     /\ last_balance' = Baseline(balance) /\ passed' = Append(passed, balance)
     /\ pc' = "sleep" /\ UNCHANGED result
  \/ /\ RealMode /\ ~Passes(balance)
     /\ End(2) /\ UNCHANGED <<last_balance, passed>>
  \/ pc' = "sleep" /\ UNCHANGED <<last_balance, passed, result>>

\* The head of the loop.
Check ==
  /\ pc = "check"
  /\ IF ~More THEN End(3) /\ UNCHANGED <<last_balance, passed>>
     ELSE IF attempt = 0 THEN pc' = "spawning" /\ UNCHANGED <<last_balance, passed, result>>
     ELSE SafeToRestart
  /\ UNCHANGED <<attempt, kid, stop_requested, balance, starts>>

\* The backoff is over.
\* Variant: the flag is not looked at.
StopSeen_Never == FALSE
StopSeen == stop_requested

WakeUp ==
  /\ pc = "sleep"
  /\ IF StopSeen THEN End(0) ELSE pc' = "spawning" /\ UNCHANGED result
  /\ UNCHANGED <<attempt, last_balance, kid, stop_requested, balance, history>>

\* create_subprocess_exec returns.
Spawned ==
  /\ pc = "spawning"
  /\ child' = "alive" /\ code' = NoCode /\ terminated' = FALSE
  /\ starts' = starts + 1
  /\ pc' = "running"
  /\ UNCHANGED <<attempt, last_balance, result, stop_requested, balance, passed>>

\* child.wait() returns.
ChildWaited ==
  /\ pc = "running" /\ child = "dead"
  /\ IF stop_requested \/ code = "clean"
     THEN End(0) /\ UNCHANGED attempt
     ELSE pc' = "check" /\ attempt' = attempt + 1 /\ UNCHANGED result
  /\ UNCHANGED <<last_balance, kid, stop_requested, balance, history>>

Run == Check \/ WakeUp \/ Spawned \/ ChildWaited
Next == Run \/ BalanceMoves \/ ChildEnds \/ Signal
Spec == Init /\ [][Next]_vars

-----------------------------------------------------------------------------
(* Properties. *)

TypeOK ==
  /\ pc \in {"check", "sleep", "spawning", "running", "ended"}
  /\ attempt \in 0 .. MaxAttempts + 1
  /\ child \in {"none", "alive", "dead"} /\ code \in {NoCode, "clean", "crash"}
  /\ terminated \in BOOLEAN /\ stop_requested \in BOOLEAN
  /\ last_balance \subseteq Balances /\ result \in {NoResult, 0, 2, 3}
  /\ balance \in Balances

\* Between two probes that let a restart pass the balance changed by less
\* than the guard, over any number of restarts, refusals and failed probes,
\* unless the first of them found an account without money: then any balance
\* passes and is the next baseline (supervisor.py:151-153).
ProbesClose ==
  \A i \in 1 .. Len(passed) - 1 : passed[i] > 0 => ~Far(passed[i + 1], passed[i])
=============================================================================
