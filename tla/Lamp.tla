-------------------------------- MODULE Lamp --------------------------------
(***************************************************************************)
(* The lamp of main/src/main.c and main/src/pwm.c: remote_command, called  *)
(* in interrupt context with every key, changes the wanted brightness; the *)
(* thread pwm_smooth moves the duty cycle of the PWM channel towards the   *)
(* square of it in small steps.  The interrupt comes between any two loads *)
(* of the thread.  What remote_command leaves for the console is state of  *)
(* its own, which neither the lamp nor this module reads.                  *)
(***************************************************************************)
EXTENDS Integers, RemoteCodes

CONSTANTS
  Presses,            \* the keys sent: records of an address and a command
  MaxBrightness,      \* 100
  DefaultBrightness   \* 50

ASSUME PressAssumption == Presses \subseteq [address : Nat, command : Nat]

ASSUME BrightnessAssumption ==
  /\ MaxBrightness \in 10..100 /\ MaxBrightness % 10 = 0
  /\ DefaultBrightness \in 0..MaxBrightness /\ DefaultBrightness % 10 = 0

\* The duty cycle is in hundredths of a percent: 10000 for full brightness.
PwmMax == MaxBrightness * MaxBrightness
PwmMin == 10
PwmStep == 10

VARIABLES
  brightness_value,
  brightness_on,
  booted,        \* main has stored the default brightness (main.c:213)
  pc,            \* next step of the thread pwm_smooth
  loaded,        \* the thread's first load of brightness_value
  expected,      \* pwm_expected_value
  pwm_value,
  duty,          \* duty cycle of the channel, the argument of pwm_set clamped
  astray         \* history: moves away from the target since it changed

shared == <<brightness_value, brightness_on, booted>>
vars   == <<shared, pc, loaded, expected, pwm_value, duty, astray>>

\* context and the PWM channel are zeroed when the thread starts.
Init ==
  /\ brightness_value = 0
  /\ brightness_on = FALSE
  /\ booted = FALSE
  /\ pc = "on" /\ loaded = 0 /\ expected = 0
  /\ pwm_value = 0
  /\ duty = 0
  /\ astray = 0

\* What the duty cycle should settle at.
Target == IF brightness_on THEN brightness_value * brightness_value ELSE 0

-----------------------------------------------------------------------------
(* remote_command *)

\* Mutant: the step is not limited.
Brighter_Unlimited(v) == (v + 10) % 256

\* Mutant: the limit is one below the maximum.
Brighter_LimitBelow(v) ==
  LET tmp == (v + 10) % 256
  IN IF tmp > MaxBrightness - 1 THEN MaxBrightness - 1 ELSE tmp

\* A uint8_t is stepped up, then limited (main.c:90-93).
Brighter(v) ==
  LET tmp == (v + 10) % 256
  IN IF tmp > MaxBrightness THEN MaxBrightness ELSE tmp

\* main.c:99-102
Dimmer(v) == IF v < 10 THEN 0 ELSE v - 10

RemoteCommand(address, command, repeat) ==
  LET key == IF repeat THEN "none" ELSE KeyOf(address, command)
  IN /\ brightness_on' = CASE key = "on"  -> TRUE
                           [] key = "off" -> FALSE
                           [] OTHER       -> brightness_on
     /\ brightness_value' =
          CASE key = "plus"  /\ brightness_on -> Brighter(brightness_value)
            [] key = "minus" /\ brightness_on -> Dimmer(brightness_value)
            [] OTHER                          -> brightness_value
     /\ astray' = IF UNCHANGED <<brightness_on, brightness_value>> THEN astray ELSE 0
     /\ UNCHANGED <<booted, pc, loaded, expected, pwm_value, duty>>

\* main stores the default while the callback is already set.
StoreDefault ==
  /\ ~booted
  /\ booted' = TRUE
  /\ brightness_value' = DefaultBrightness
  /\ astray' = 0
  /\ UNCHANGED <<brightness_on, pc, loaded, expected, pwm_value, duty>>

-----------------------------------------------------------------------------
(* The thread pwm_smooth.  brightness_value is read twice, once for each    *)
(* factor of its square, and the interrupt may come in between.             *)

ReadOn ==
  /\ pc = "on"
  /\ expected' = 0
  /\ pc' = IF brightness_on THEN "first" ELSE "move"
  /\ UNCHANGED <<shared, loaded, pwm_value, duty, astray>>

ReadFirst ==
  /\ pc = "first"
  /\ loaded' = brightness_value
  /\ pc' = "second"
  /\ UNCHANGED <<shared, expected, pwm_value, duty, astray>>

ReadSecond ==
  /\ pc = "second"
  /\ expected' = (loaded * brightness_value) % 65536
  /\ loaded' = 0
  /\ pc' = "move"
  /\ UNCHANGED <<shared, pwm_value, duty, astray>>

\* pwm_set
PwmSet(value) ==
  duty' = IF value > PwmMax THEN PwmMax
          ELSE IF value < PwmMin THEN PwmMin ELSE value

\* pwm_corrected_set, which nothing calls: the brightness, not its square.
PwmCorrectedSet(value) ==
  LET limited == IF value > MaxBrightness THEN MaxBrightness ELSE value
      square  == (limited * limited) % 65536
  IN duty' = IF square < PwmMin THEN PwmMin ELSE square

\* The value after one step of the smoothing (main.c:141-161).
Step(value, target) ==
  IF value > target THEN IF value >= PwmStep THEN value - PwmStep ELSE 0
  ELSE IF value + PwmStep > PwmMax THEN PwmMax ELSE value + PwmStep

Away(from, to) ==
  \/ to > from /\ from >= Target
  \/ to < from /\ from <= Target

\* Mutant: the thread keeps moving to the target it has read until it is there.
Move_KeepsTarget ==
  /\ pc = "move" /\ pwm_value # expected
  /\ pwm_value' = Step(pwm_value, expected)
  /\ PwmSet(pwm_value')
  /\ astray' = IF Away(pwm_value, pwm_value') /\ astray < 2 THEN astray + 1 ELSE astray
  /\ UNCHANGED <<shared, pc, loaded, expected>>

\* Mutant: two steps at a time.
Move_Double ==
  /\ pc = "move" /\ pwm_value # expected
  /\ pwm_value' = Step(Step(pwm_value, expected), expected)
  /\ PwmSet(pwm_value')
  /\ astray' = IF Away(pwm_value, pwm_value') /\ astray < 2 THEN astray + 1 ELSE astray
  /\ pc' = "sleep"
  /\ UNCHANGED <<shared, loaded, expected>>

\* Mutant: the last step is not written to the channel.
Move_LastStepLost ==
  /\ pc = "move" /\ pwm_value # expected
  /\ pwm_value' = Step(pwm_value, expected)
  /\ IF pwm_value' = expected THEN UNCHANGED duty ELSE PwmSet(pwm_value')
  /\ astray' = IF Away(pwm_value, pwm_value') /\ astray < 2 THEN astray + 1 ELSE astray
  /\ pc' = "sleep"
  /\ UNCHANGED <<shared, loaded, expected>>

\* One step towards the expected value, written to the channel.
Move ==
  /\ pc = "move" /\ pwm_value # expected
  /\ pwm_value' = Step(pwm_value, expected)
  /\ PwmSet(pwm_value')
  /\ astray' = IF Away(pwm_value, pwm_value') /\ astray < 2 THEN astray + 1 ELSE astray
  /\ pc' = "sleep"
  /\ UNCHANGED <<shared, loaded, expected>>

\* The expected value is reached: nothing to write.
Settled ==
  /\ pc = "move" /\ pwm_value = expected
  /\ pc' = "sleep"
  /\ UNCHANGED <<shared, loaded, expected, pwm_value, duty, astray>>

\* chThdSleepMilliseconds returns; pwm_expected_value leaves its scope.
Wake ==
  /\ pc = "sleep"
  /\ expected' = 0
  /\ pc' = "on"
  /\ UNCHANGED <<shared, loaded, pwm_value, duty, astray>>

PwmThread == ReadOn \/ ReadFirst \/ ReadSecond \/ Move \/ Settled \/ Wake

Remote == \E p \in Presses, repeat \in BOOLEAN :
            RemoteCommand(p.address, p.command, repeat)

Next == Remote \/ StoreDefault \/ PwmThread

Spec == Init /\ [][Next]_vars

\* The thread runs, and so does main's initialization.
FairSpec == Spec /\ WF_vars(PwmThread) /\ WF_vars(StoreDefault)

-----------------------------------------------------------------------------
TypeOK ==
  /\ brightness_value \in 0..MaxBrightness
  /\ brightness_on \in BOOLEAN
  /\ booted \in BOOLEAN
  /\ pc \in {"on", "first", "second", "move", "sleep"}
  /\ loaded \in 0..MaxBrightness
  /\ expected \in 0..PwmMax
  /\ pwm_value \in 0..PwmMax
  /\ duty \in 0..PwmMax
  /\ astray \in 0..2

\* The smoothing moves by 10 and stops only where the value EQUALS the target,
\* so it would swing about a target off its grid for ever.  Limits, defaults,
\* steps of the brightness and squares read while a key changes the brightness
\* all keep to the grid.
OnGrid ==
  /\ brightness_value % 10 = 0 /\ loaded % 10 = 0
  /\ expected % PwmStep = 0
  /\ pwm_value % PwmStep = 0

\* A key comes while the thread is between reading the brightness and moving.
\* The move may then go the wrong way, but only that one: every move re-reads
\* what it moves to.
OneStaleMove == astray <= 1

\* The lamp never jumps: whatever keys arrive, and although very low values are
\* not given to the channel, one move changes the duty cycle by no more than a
\* step, and the channel follows the value of the thread.
SmoothDuty ==
  /\ [][ /\ duty' - duty \in (-PwmStep)..PwmStep
         /\ pwm_value' # pwm_value =>
              duty' = IF pwm_value' < PwmMin THEN PwmMin ELSE pwm_value' ]_vars

\* When no more keys are pressed, the lamp reaches the brightness asked for and
\* stays there.  A lamp that was ever on is left at the lowest duty cycle by OFF.
Converges ==
  (<>[][brightness_value' = brightness_value /\ brightness_on' = brightness_on]_vars)
    => <>[]( /\ pwm_value = Target
             /\ duty \in {pwm_value, IF pwm_value < PwmMin THEN PwmMin ELSE pwm_value} )
=============================================================================
