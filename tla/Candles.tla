------------------------------- MODULE Candles -------------------------------
(***************************************************************************)
(* strategy/patterns/_multi_setup_common.py, the part without parameters:  *)
(* the parts of a candle, and the two shapes that reject a price.  A       *)
(* candle is a record of its open, high, low, close (o h l c) and volume   *)
(* (v); fractions are in percent.                                          *)
(***************************************************************************)
EXTENDS Integers, Sequences, FiniteSetsExt

PIN_BODY_MAX_PCT         == 33
PIN_WICK_MIN_BODY_MULT   == 2
PIN_WICK_MIN_RANGE_PCT   == 55
ENGULF_BODY_MIN_RANGE_PCT == 40

Distance(x, y) == IF x < y THEN y - x ELSE x - y

body(b)       == Distance(b.c, b.o)
range_(b)     == b.h - b.l
upper_wick(b) == b.h - Max({b.o, b.c})
lower_wick(b) == Min({b.o, b.c}) - b.l
is_bullish(b) == b.c > b.o
is_bearish(b) == b.c < b.o

\* A small body and a long wick; a body, if there is one, of the right colour.
PinShape(b, wick) ==
  /\ range_(b) > 0
  /\ 100 * body(b) <= PIN_BODY_MAX_PCT * range_(b)
  /\ wick >= PIN_WICK_MIN_BODY_MULT * body(b)
  /\ 100 * wick >= PIN_WICK_MIN_RANGE_PCT * range_(b)
is_bullish_pin(b) == PinShape(b, lower_wick(b)) /\ (is_bullish(b) \/ body(b) = 0)
is_bearish_pin(b) == PinShape(b, upper_wick(b)) /\ (is_bearish(b) \/ body(b) = 0)

\* A body that covers the one before it, and most of its own range.
Covers(prev, cur) ==
  /\ body(cur) >= body(prev)
  /\ range_(cur) > 0
  /\ 100 * body(cur) >= ENGULF_BODY_MIN_RANGE_PCT * range_(cur)
is_bullish_engulf(prev, cur) ==
  /\ is_bearish(prev) /\ cur.o <= prev.c /\ cur.c >= prev.o
  /\ is_bullish(cur) /\ Covers(prev, cur)
is_bearish_engulf(prev, cur) ==
  /\ is_bullish(prev) /\ cur.o >= prev.c /\ cur.c <= prev.o
  /\ is_bearish(cur) /\ Covers(prev, cur)
=============================================================================
