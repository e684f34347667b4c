-------------------------------- MODULE Boot --------------------------------
(***************************************************************************)
(* The initialization: main (main.c:171-213) with ir_initialize,           *)
(* ir_set_callback and pwm_initialize, statement by statement, while the   *)
(* smoothing thread already runs and the interrupts of the receiver are    *)
(* already enabled.  The lamp is that of module Lamp.                      *)
(*                                                                         *)
(* No lock and no test keeps the parts from meeting before they are set    *)
(* up.  What does, where something does, is time: a frame takes tens of    *)
(* milliseconds, a statement some microseconds.                            *)
(***************************************************************************)
EXTENDS Lamp, Sequences

CONSTANT
  FrameTime   \* the shortest frame, in units of the longest statement but the sleep

VARIABLES
  at,       \* the next statement of main
  timer,    \* ir_context.gpt: unknown, known, started, or left without a clock
  frame,    \* for how long the receiver has been able to receive a frame
  cpu,      \* it runs, or has halted in a fault
  asked     \* history: the lamp was turned on

boot     == <<at, timer, frame, cpu, asked>>
bootVars == <<vars, boot>>

-----------------------------------------------------------------------------
(* The statements. *)

\* Mutant: USB is activated, with its sleep, after everything else is set up.
BootOrder_UsbLate ==
  << "led_thread", "pwm_thread", "chp", "pad_event", "timer_known", "timer_start",
     "callback", "context", "pwm_start", "pwm_enable", "pwm_pin", "usb", "default" >>

\* Mutant: USB is activated, with its sleep, before the PWM is set up.
BootOrder_UsbBeforePwm ==
  << "led_thread", "pwm_thread", "chp", "pad_event", "timer_known", "timer_start",
     "callback", "context", "usb", "pwm_start", "pwm_enable", "pwm_pin", "default" >>

\* Mutant: the pin is given to the PWM first, and the PWM is set up then.
BootOrder_PinFirst ==
  << "usb", "led_thread", "pwm_thread", "chp", "pad_event", "timer_known", "timer_start",
     "callback", "context", "pwm_pin", "pwm_start", "pwm_enable", "default" >>

\* Mutant: the callback is stored without its context.
BootOrder_NoContext ==
  << "usb", "led_thread", "pwm_thread", "chp", "pad_event", "timer_known", "timer_start",
     "callback", "pwm_start", "pwm_enable", "pwm_pin", "default" >>

\* What main does, in order; usb is all of main.c:179-186, the sleep included.
BootOrder ==
  << "usb", "led_thread", "pwm_thread", "chp",
     "pad_event", "timer_known", "timer_start",   \* ir_initialize
     "callback", "context",                       \* ir_set_callback
     "pwm_start", "pwm_enable",                   \* pwm_initialize
     "pwm_pin", "default" >>

\* A frame takes longer than all statements but the sleep together.
ASSUME FrameTimeAssumption == FrameTime \in Nat /\ FrameTime > Len(BootOrder)

Loop    == at = Len(BootOrder) + 1
At(s)   == ~Loop /\ BootOrder[at] = s
Done(s) == \E i \in 1..(at - 1) : BootOrder[i] = s

BootInit ==
  /\ Init
  /\ at = 1 /\ timer = "unknown" /\ frame = 0 /\ cpu = "runs" /\ asked = FALSE

\* Time passes, in which a frame may come in.
Pass == frame' \in IF timer = "started" /\ frame < FrameTime THEN {frame, frame + 1}
                                                           ELSE {frame}

Run(s) ==
  /\ cpu = "runs" /\ At(s)
  /\ at' = at + 1
  /\ Pass
  /\ UNCHANGED <<cpu, asked>>

\* The driver gives the timer its clock only when it finds it stopped.
ir_initialize ==
  /\ \/ Run("pad_event") /\ UNCHANGED timer
     \/ Run("timer_known") /\ timer' = "known"
     \/ Run("timer_start") /\ timer' = IF timer = "known" THEN "started" ELSE timer
  /\ UNCHANGED vars

ir_set_callback ==
  /\ Run("callback") \/ Run("context")
  /\ UNCHANGED <<vars, timer>>

pwm_initialize ==
  /\ \/ Run("pwm_start") /\ UNCHANGED duty
     \/ Run("pwm_enable") /\ duty' = 0
  /\ UNCHANGED <<shared, pc, loaded, expected, pwm_value, astray, timer>>

Default == Run("default") /\ StoreDefault /\ UNCHANGED timer

Others ==
  /\ \E s \in {"usb", "led_thread", "pwm_thread", "chp", "pwm_pin"} : Run(s)
  /\ UNCHANGED <<vars, timer>>

\* main sleeps for 1500 ms (main.c:184), long enough for many frames, or is in
\* its loop, which leaves the lamp alone.
Wait ==
  /\ cpu = "runs" /\ (Loop \/ At("usb"))
  /\ Pass
  /\ UNCHANGED <<vars, at, timer, cpu, asked>>

-----------------------------------------------------------------------------
(* What runs in between. *)

\* An edge before the timer is set up: ir_pad_interrupt stops and starts it all
\* the same.  Through a NULL pointer anything may come of that; a timer that is
\* known is no longer in the driver's stopped state.
EarlyEdge ==
  /\ cpu = "runs" /\ Done("pad_event")
  /\ \/ timer = "unknown" /\ cpu' \in {"runs", "halted"} /\ UNCHANGED timer
     \/ timer = "known" /\ timer' = "unclocked" /\ UNCHANGED cpu
  /\ UNCHANGED <<vars, at, frame, asked>>

\* The last bit of a frame is decoded, ir.c:199-210.
FrameEnds ==
  /\ cpu = "runs" /\ timer = "started" /\ frame = FrameTime
  /\ frame' = 0
  /\ IF ~Done("callback") THEN UNCHANGED <<vars, cpu, asked>>
     ELSE IF ~Done("context") THEN cpu' = "halted" /\ UNCHANGED <<vars, asked>>
     ELSE Remote /\ asked' = (asked \/ brightness_on') /\ UNCHANGED cpu
  /\ UNCHANGED <<at, timer>>

\* The thread pwm_smooth is about to call pwm_set.
Sets == pc = "move" /\ pwm_value # expected

Thread ==
  /\ cpu = "runs" /\ Done("pwm_thread")
  /\ IF Sets /\ ~Done("pwm_start") THEN cpu' = "halted" /\ UNCHANGED vars
                                    ELSE PwmThread /\ UNCHANGED cpu
  /\ UNCHANGED <<at, timer, frame, asked>>

\* The fault handler does not return.
Fault == cpu = "halted" /\ UNCHANGED bootVars

BootNext ==
  \/ ir_initialize \/ ir_set_callback \/ pwm_initialize \/ Default \/ Others \/ Wait
  \/ EarlyEdge \/ FrameEnds \/ Thread \/ Fault

BootSpec == BootInit /\ [][BootNext]_bootVars

-----------------------------------------------------------------------------
(* The pin. *)

\* config.h: the lamp is lit while its pin is low.
PWM_PIN      == 6
PWM_INVERTED == TRUE

\* board.h, the digits from PA0 to PA7; 8 is an input with a pull-up resistor
\* where the output register has a one.
VAL_GPIOACRL == <<8, 8, 11, 4, 8, 8, 8, 8>>

PulledUp(pin) == VAL_GPIOACRL[pin + 1] = 8

\* Until the PWM has it the pin is what the board makes of it.  A timer that is
\* not started drives it low.
Light ==
  IF Done("pwm_pin") THEN ~Done("pwm_start") \/ duty > 0
                     ELSE PulledUp(PWM_PIN) # PWM_INVERTED

-----------------------------------------------------------------------------
BootTypeOK ==
  /\ TypeOK
  /\ at \in 1..(Len(BootOrder) + 1)
  /\ timer \in {"unknown", "known", "started", "unclocked"}
  /\ frame \in 0..FrameTime
  /\ cpu \in {"runs", "halted"}
  /\ asked \in BOOLEAN

\* The callback becomes visible before its context (ir.c:501-502).  No frame can
\* end in between.
CallbackHasContext ==
  timer = "started" /\ frame = FrameTime /\ Done("callback") => Done("context")

\* The smoothing thread is created before the PWM driver it writes to is known
\* and started (main.c:196, 211).  It does not call it before.
DriverReady == Sets => Done("pwm_start")

\* From reset to the first ON the lamp gives no light: not while its pin is an
\* input, not when the pin is given to the PWM, not through the smoothing.
DarkUntilOn == Light => asked

\* The default brightness is stored when keys are already obeyed (main.c:213).
\* It replaces no brightness and no state a key has asked for.
DefaultSurvives ==
  [][booted' # booted => brightness_value = 0 /\ ~brightness_on /\ pwm_value = 0]_bootVars

\* Whatever runs before the end of the initialization, the lamp's behaviour is
\* that of module Lamp, which starts where everything is set up: the steps of
\* the initialization, the zero written to the channel among them, change
\* nothing of the lamp but the default.
LampSpec == Init /\ [][Next]_vars

\* main.c:206: "Initialize infrared receiver."  When main has got to its loop
\* the receiver has a timer that runs.
ReceiverInitialized == Loop => timer = "started"
=============================================================================
