----------------------------- MODULE MCBacktest -----------------------------
(***************************************************************************)
(* Small series for Backtest: the shapes of candle that tell the rules of  *)
(* the broker apart, and brackets around them.                             *)
(***************************************************************************)
EXTENDS Backtest

Bar(o, h, l, c) == [open |-> o, high |-> h, low |-> l, close |-> c]
Quiet == Bar(25, 27, 23, 25)
ManyCandles == {
    Quiet,
    Bar(28, 34, 27, 33),   \* breaks the trigger of the long, stops the short
    Bar(32, 36, 31, 35),   \* opens beyond that trigger, within the tolerance
    Bar(34, 44, 33, 43),   \* opens too far beyond it; the target of the long
    Bar(22, 23, 16, 17),   \* breaks the trigger of the short, stops the long
    Bar(12, 14, 9, 12),    \* a gap below the stop of the long
    Bar(25, 45, 8, 25)     \* everything within one candle
  }

Bracket(k, d, e, s, t) ==
    [kind |-> k, direction |-> d, entry |-> e, stop |-> s, target |-> t]
ManySetups == {
    Bracket("stop", "long", 30, 20, 40),
    Bracket("stop", "short", 20, 30, 10),
    Bracket("limit", "long", 25, 20, 35),
    Bracket("limit", "long", 25, 30, 35)    \* its stop is on the wrong side
  }

SixBars == 1 .. 6
=============================================================================
