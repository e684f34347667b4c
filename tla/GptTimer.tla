------------------------------ MODULE GptTimer ------------------------------
(***************************************************************************)
(* The general purpose timer behind ir_context.gpt, as far as ir.c can     *)
(* observe it.  The driver is ChibiOS code outside the repository; what is *)
(* modelled is the contract ir.c relies on:                                *)
(*                                                                         *)
(*   - starting the timer zeroes the counter and clears the update flag;   *)
(*   - stopping it clears the update flag and KEEPS the counter, so that   *)
(*     gptGetCounterX after a stop reads the value it stopped at;          *)
(*   - on reaching the interval the counter wraps to zero and the update   *)
(*     flag is raised; a one-shot timer keeps counting until its interrupt *)
(*     is served, only the service routine stops it;                       *)
(*   - the service routine first acknowledges the update flag, then stops  *)
(*     the timer if its mode is one-shot NOW, then calls the callback.     *)
(***************************************************************************)
EXTENDS Naturals

GptModes == {"stop", "one_shot", "continuous"}

\* interval is meaningful while the timer runs; a stopped timer has none.
GptState == [mode : GptModes, interval : Nat, cnt : Nat, uif : BOOLEAN]

GptInit == [mode |-> "stop", interval |-> 0, cnt |-> 0, uif |-> FALSE]

\* gptStopTimerI
GptStop(t) == [t EXCEPT !.mode = "stop", !.interval = 0, !.uif = FALSE]

\* gptStartOneShot, gptStartOneShotI
GptOneShot(n) == [mode |-> "one_shot", interval |-> n, cnt |-> 0, uif |-> FALSE]

\* gptStartContinuousI
GptContinuous(n) == [mode |-> "continuous", interval |-> n, cnt |-> 0, uif |-> FALSE]

\* One tick of the timer clock.
GptTick(t) ==
  IF t.mode = "stop" THEN t
  ELSE IF t.cnt + 1 < t.interval THEN [t EXCEPT !.cnt = @ + 1]
  ELSE [t EXCEPT !.cnt = 0, !.uif = TRUE]

\* First half of the service routine: the update flag is acknowledged.
GptAcknowledge(t) == [t EXCEPT !.uif = FALSE]

\* Second half: a timer found in one-shot mode is stopped before the callback.
GptBeforeCallback(t) == IF t.mode = "one_shot" THEN GptStop(t) ELSE t

\* The timer will raise its update flag again without any help.
GptWillFire(t) == t.mode # "stop"

=============================================================================
