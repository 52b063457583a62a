----------------------------- MODULE Compliance -----------------------------
(***************************************************************************)
(* The pre-trade gate of risk/prop_firm/compliance.py: ComplianceEngine.   *)
(* can_trade is pure on the account snapshot it is given, so it is an      *)
(* operator.  Percentages of caps are multiplied out to stay in the        *)
(* integers:  x >= equity * (pct/100) * 0.80  is  10000 * x >= equity *    *)
(* pct * 80.  The emergency latch is an argument; nothing in the live      *)
(* program sets it.                                                        *)
(***************************************************************************)
EXTENDS Integers

CONSTANTS
  MaxDailyLossPct,   \* rules.max_daily_loss_pct
  MaxTotalLossPct,   \* rules.max_total_loss_pct
  MaxTradesPerDay,   \* max_trades_per_day
  LeverageForex      \* rules.leverage_forex

ASSUME ComplianceAssumption ==
  /\ MaxDailyLossPct \in Nat
  /\ MaxTotalLossPct \in Nat
  /\ MaxTradesPerDay \in Nat \ {0}
  /\ LeverageForex \in Nat

SafetyMarginPct == 80

\* 80% of the daily cap, times 10000
EarlyStop(account) == account.daily_start_equity * MaxDailyLossPct * SafetyMarginPct

DailyLossNearCap(account) ==
  -account.daily_pnl_usd * 10000 >= EarlyStop(account)

TotalLossNearCap(account) ==
  (account.starting_equity - account.equity) * 10000
     >= account.starting_equity * MaxTotalLossPct * SafetyMarginPct

SlExceedsDailyRoom(sig, account) ==
  sig.worst_loss * 10000 > EarlyStop(account) + account.daily_pnl_usd * 10000

ExceedsLeverageCap(sig, account) ==
  account.equity > 0 /\ sig.notional > LeverageForex * account.equity

\* The reason can_trade returns: the first of its checks that refuses.
CanTrade(sig, in_window, blackout, account, emergency) ==
  IF emergency                                  THEN "emergency_stop"
  ELSE IF ~in_window                            THEN "outside_ist_window"
  ELSE IF DailyLossNearCap(account)             THEN "daily_loss_near_cap"
  ELSE IF TotalLossNearCap(account)             THEN "total_loss_near_cap"
  ELSE IF account.trades_today >= MaxTradesPerDay
                                                THEN "daily_trade_cap_reached"
  ELSE IF blackout                              THEN "news_blackout"
  ELSE IF SlExceedsDailyRoom(sig, account)      THEN "sl_exceeds_remaining_daily_room"
  ELSE IF ExceedsLeverageCap(sig, account)      THEN "exceeds_leverage_cap"
  ELSE "ok"
=============================================================================
