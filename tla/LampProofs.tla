----------------------------- MODULE LampProofs -----------------------------
(***************************************************************************)
(* The safety of the lamp, for every set of keys and every brightness it   *)
(* may be limited to.                                                      *)
(***************************************************************************)
EXTENDS Lamp, TLAPS

\* The limits of the brightness and of the duty cycle.
LEMMA Limits ==
  /\ MaxBrightness \in Int /\ 10 <= MaxBrightness /\ MaxBrightness <= 100
  /\ MaxBrightness % 10 = 0
  /\ DefaultBrightness \in 0..MaxBrightness /\ DefaultBrightness % 10 = 0
  /\ PwmMax \in Int /\ 100 <= PwmMax /\ PwmMax <= 10000 /\ PwmMax % 10 = 0
<1>1. /\ MaxBrightness \in Int /\ 10 <= MaxBrightness /\ MaxBrightness <= 100
      /\ MaxBrightness % 10 = 0
  BY BrightnessAssumption
<1>2. PICK k \in 1..10 : MaxBrightness = 10 * k
  BY <1>1
<1>3. PwmMax = 100 * (k * k) /\ k * k \in 1..100
  BY <1>2 DEF PwmMax
<1> QED BY <1>1, <1>3, BrightnessAssumption

\* The product of two brightnesses is a duty cycle on the grid; the uint16_t
\* holds it.
LEMMA Product ==
  ASSUME NEW a \in 0..MaxBrightness, a % 10 = 0, NEW b \in 0..MaxBrightness, b % 10 = 0
  PROVE  /\ (a * b) % 65536 = a * b /\ a * b \in 0..PwmMax /\ (a * b) % 10 = 0
<1>1. MaxBrightness \in Int /\ MaxBrightness <= 100
  BY Limits
<1>2. PICK i \in 0..10, j \in 0..10 : a = 10 * i /\ b = 10 * j
  BY <1>1
<1>3. i * j \in 0..100
  BY <1>2
<1>4. a * b = 100 * (i * j)
  BY <1>2
<1>5. a * b <= MaxBrightness * MaxBrightness
  <2>1. a * b <= a * MaxBrightness
    BY <1>1
  <2>2. a * MaxBrightness <= MaxBrightness * MaxBrightness
    BY <1>1
  <2> QED BY <2>1, <2>2, <1>1
<1> QED BY <1>3, <1>4, <1>5 DEF PwmMax

-----------------------------------------------------------------------------
(* The inductive invariant. *)

\* What the thread has read so far is what the brightness is.
Current ==
  CASE pc = "first"  -> brightness_on
    [] pc = "second" -> brightness_on /\ loaded = brightness_value
    [] pc = "move"   -> expected = Target
    [] OTHER         -> TRUE

\* The channel has what pwm_set makes of the thread's value, or nothing yet.
Follows ==
  \/ duty = IF pwm_value < PwmMin THEN PwmMin ELSE pwm_value
  \/ duty = 0 /\ pwm_value = 0

\* A move the wrong way is made from a reading that has become stale; when none
\* has since, the next one is right.
IInv == TypeOK /\ OnGrid /\ OneStaleMove /\ (astray = 1 => Current) /\ Follows

LEMMA InitInv == Init => IInv
<1> SUFFICES ASSUME Init PROVE IInv
  OBVIOUS
<1>1. 0 \in 0..MaxBrightness /\ 0 \in 0..PwmMax /\ 0 % 10 = 0
  BY Limits
<1>2. TypeOK
  <2>1. brightness_on \in BOOLEAN /\ booted \in BOOLEAN
    BY Zenon DEF Init
  <2>2. pc \in {"on", "first", "second", "move", "sleep"} /\ astray \in 0..2
    BY DEF Init
  <2>3. /\ brightness_value \in 0..MaxBrightness /\ loaded \in 0..MaxBrightness
        /\ expected \in 0..PwmMax /\ pwm_value \in 0..PwmMax /\ duty \in 0..PwmMax
    BY <1>1 DEF Init
  <2> QED BY <2>1, <2>2, <2>3 DEF TypeOK
<1>3. OnGrid
  BY <1>1 DEF Init, OnGrid, PwmStep
<1>4. OneStaleMove /\ astray # 1
  BY DEF Init, OneStaleMove
<1>5. Follows
  BY DEF Init, Follows
<1> QED BY <1>2, <1>3, <1>4, <1>5 DEF IInv

\* A key moves the brightness on its grid, and a new target starts anew.
LEMMA RemoteStep ==
  ASSUME IInv, NEW address, NEW command, NEW repeat, RemoteCommand(address, command, repeat)
  PROVE  IInv'
<1>1. brightness_value \in 0..MaxBrightness /\ brightness_value % 10 = 0
  BY DEF IInv, TypeOK, OnGrid
<1>2. /\ Brighter(brightness_value) \in 0..MaxBrightness
      /\ Brighter(brightness_value) % 10 = 0
  BY <1>1, Limits DEF Brighter
<1>3. Dimmer(brightness_value) \in 0..MaxBrightness /\ Dimmer(brightness_value) % 10 = 0
  BY <1>1, Limits DEF Dimmer
<1>4. brightness_value' \in 0..MaxBrightness /\ brightness_value' % 10 = 0
  BY <1>1, <1>2, <1>3 DEF RemoteCommand
<1>5. brightness_on' \in BOOLEAN
  BY DEF RemoteCommand, IInv, TypeOK
<1>6. UNCHANGED <<booted, pc, loaded, expected, pwm_value, duty>>
  BY DEF RemoteCommand
<1>7. \/ UNCHANGED <<brightness_on, brightness_value>> /\ astray' = astray
      \/ astray' = 0
  BY DEF RemoteCommand
<1>8. OneStaleMove' /\ astray' \in 0..2
  BY <1>7 DEF IInv, TypeOK, OneStaleMove
<1>9. (astray = 1 => Current)'
  BY <1>6, <1>7 DEF IInv, Current, Target
<1> QED BY <1>4, <1>5, <1>6, <1>8, <1>9 DEF IInv, TypeOK, OnGrid, Follows

LEMMA DefaultStep == IInv /\ StoreDefault => IInv'
BY Limits DEF IInv, TypeOK, OnGrid, OneStaleMove, Current, Follows, StoreDefault

LEMMA ReadStep == IInv /\ (ReadOn \/ ReadFirst \/ ReadSecond \/ Settled \/ Wake) => IInv'
<1> SUFFICES ASSUME IInv, ReadOn \/ ReadFirst \/ ReadSecond \/ Settled \/ Wake PROVE IInv'
  OBVIOUS
<1>1. CASE ReadOn
  BY <1>1, Limits DEF IInv, TypeOK, OnGrid, OneStaleMove, Current, Follows, Target, ReadOn,
                      shared, PwmStep
<1>2. CASE ReadFirst
  BY <1>2 DEF IInv, TypeOK, OnGrid, OneStaleMove, Current, Follows, Target, ReadFirst, shared
<1>3. CASE ReadSecond
  <2>1. /\ loaded \in 0..MaxBrightness /\ loaded % 10 = 0
        /\ brightness_value \in 0..MaxBrightness /\ brightness_value % 10 = 0
    BY DEF IInv, TypeOK, OnGrid
  <2>2. /\ expected' = loaded * brightness_value
        /\ expected' \in 0..PwmMax /\ expected' % 10 = 0
    BY <1>3, <2>1, Product DEF ReadSecond
  <2>3. (astray = 1 => Current)'
    BY <1>3, <2>2 DEF IInv, Current, Target, ReadSecond, shared
  <2>4. TypeOK' /\ OnGrid'
    BY <1>3, <2>2, Limits DEF IInv, TypeOK, OnGrid, ReadSecond, shared, PwmStep
  <2> QED BY <1>3, <2>3, <2>4 DEF IInv, OneStaleMove, Follows, ReadSecond, shared
<1>4. CASE Settled
  BY <1>4 DEF IInv, TypeOK, OnGrid, OneStaleMove, Current, Follows, Settled, shared
<1>5. CASE Wake
  BY <1>5, Limits DEF IInv, TypeOK, OnGrid, OneStaleMove, Current, Follows, Wake, shared, PwmStep
<1> QED BY <1>1, <1>2, <1>3, <1>4, <1>5

\* A move is one step on the grid, no further than the limit.
LEMMA MoveByStep ==
  ASSUME IInv, Move
  PROVE  /\ pwm_value' \in 0..PwmMax /\ pwm_value' % 10 = 0
         /\ \/ pwm_value > expected /\ pwm_value' = pwm_value - 10
            \/ pwm_value < expected /\ pwm_value' = pwm_value + 10
         /\ duty' = IF pwm_value' < PwmMin THEN PwmMin ELSE pwm_value'
<1>1. /\ pwm_value \in 0..PwmMax /\ pwm_value % 10 = 0
      /\ expected \in 0..PwmMax /\ expected % 10 = 0 /\ pwm_value # expected
      /\ pwm_value' = Step(pwm_value, expected)
  BY DEF IInv, TypeOK, OnGrid, Move, PwmStep
<1>2. /\ pwm_value' \in 0..PwmMax /\ pwm_value' % 10 = 0
      /\ \/ pwm_value > expected /\ pwm_value' = pwm_value - 10
         \/ pwm_value < expected /\ pwm_value' = pwm_value + 10
  BY <1>1, Limits DEF Step, PwmStep
<1>3. duty' = IF pwm_value' < PwmMin THEN PwmMin ELSE pwm_value'
  BY <1>2, Limits DEF Move, PwmSet
<1> QED BY <1>2, <1>3

LEMMA MoveStep == IInv /\ Move => IInv'
<1> SUFFICES ASSUME IInv, Move PROVE IInv'
  OBVIOUS
<1>1. /\ pwm_value' \in 0..PwmMax /\ pwm_value' % 10 = 0
      /\ \/ pwm_value > expected /\ pwm_value' = pwm_value - 10
         \/ pwm_value < expected /\ pwm_value' = pwm_value + 10
      /\ duty' = IF pwm_value' < PwmMin THEN PwmMin ELSE pwm_value'
  BY MoveByStep
<1>2. UNCHANGED <<brightness_value, brightness_on, booted, loaded, expected>>
  BY DEF Move, shared
<1>3. /\ pc = "move" /\ pc' = "sleep"
      /\ astray' = IF Away(pwm_value, pwm_value') /\ astray < 2 THEN astray + 1 ELSE astray
  BY DEF Move
\* What is current does not lead away from the target.
<1>4. astray = 1 => ~Away(pwm_value, pwm_value')
  <2> SUFFICES ASSUME astray = 1 PROVE ~Away(pwm_value, pwm_value')
    OBVIOUS
  <2>1. expected = Target
    BY <1>3 DEF IInv, Current
  <2> QED BY <2>1, <1>1 DEF Away, IInv, TypeOK
<1>5. astray' \in 0..1
  BY <1>3, <1>4 DEF IInv, TypeOK, OneStaleMove
<1>6. duty' \in 0..PwmMax
  BY <1>1, Limits DEF PwmMin
<1>7. TypeOK'
  BY <1>1, <1>2, <1>3, <1>5, <1>6 DEF IInv, TypeOK
<1>8. OnGrid'
  BY <1>1, <1>2 DEF IInv, OnGrid, PwmStep
<1> QED BY <1>1, <1>3, <1>5, <1>7, <1>8 DEF IInv, OneStaleMove, Current, Follows

THEOREM Invariance == Spec => []IInv
<1>1. IInv /\ UNCHANGED vars => IInv'
  BY DEF vars, shared, IInv, TypeOK, OnGrid, OneStaleMove, Current, Follows, Target
<1>2. IInv /\ [Next]_vars => IInv'
  BY <1>1, RemoteStep, DefaultStep, ReadStep, MoveStep DEF Next, Remote, PwmThread
<1> QED BY <1>2, InitInv, PTL DEF Spec

\* Every variable keeps its type: the arithmetic of remote_command in a uint8_t
\* and of the thread in a uint16_t never leaves the range of the brightness and
\* of the duty cycle.
THEOREM TypeCorrect == Spec => []TypeOK
<1>1. IInv => TypeOK
  BY DEF IInv
<1> QED BY <1>1, Invariance, PTL

\* Brightness, target and value stay on the grid of the smoothing's steps, for
\* every limit and default of the brightness, so that a move can reach its
\* target exactly, also when a key comes between the two loads of the square.
THEOREM OnGridSafe == Spec => []OnGrid
<1>1. IInv => OnGrid
  BY DEF IInv
<1> QED BY <1>1, Invariance, PTL

\* Between two changes of the target the thread moves away from it at most
\* once, whatever keys come while it is reading the brightness.
THEOREM OneStaleMoveSafe == Spec => []OneStaleMove
<1>1. IInv => OneStaleMove
  BY DEF IInv
<1> QED BY <1>1, Invariance, PTL

\* Clamping from below does not widen a step.
LEMMA ClampedStep ==
  ASSUME NEW old \in Nat, NEW new \in Nat, new = old - 10 \/ new = old + 10,
         NEW from \in Nat, NEW to \in Nat,
         from = (IF old < 10 THEN 10 ELSE old) \/ (from = 0 /\ old = 0),
         to = IF new < 10 THEN 10 ELSE new
  PROVE  to - from \in (-10)..10
OBVIOUS

\* Only a move changes the channel, by no more than a step, clamped or not.
LEMMA SmoothStep ==
  ASSUME IInv, [Next]_vars
  PROVE  [ /\ duty' - duty \in (-PwmStep)..PwmStep
           /\ pwm_value' # pwm_value =>
                duty' = IF pwm_value' < PwmMin THEN PwmMin ELSE pwm_value' ]_vars
<1>1. duty \in Int /\ pwm_value \in Int /\ duty >= 0 /\ pwm_value >= 0
  BY Limits DEF IInv, TypeOK
<1>2. CASE Move
  <2>1. /\ pwm_value' \in Int /\ pwm_value' >= 0
        /\ pwm_value' = pwm_value - 10 \/ pwm_value' = pwm_value + 10
        /\ duty' = IF pwm_value' < 10 THEN 10 ELSE pwm_value'
    BY <1>2, MoveByStep, Limits DEF PwmMin
  <2>2. \/ duty = IF pwm_value < 10 THEN 10 ELSE pwm_value
        \/ duty = 0 /\ pwm_value = 0
    BY DEF IInv, Follows, PwmMin
  <2>3. duty' - duty \in (-10)..10
    <3>1. pwm_value \in Nat /\ pwm_value' \in Nat /\ duty \in Nat /\ duty' \in Nat
      BY <1>1, <2>1
    <3>2. pwm_value' = pwm_value - 10 \/ pwm_value' = pwm_value + 10
      BY <2>1
    <3>3. duty' = IF pwm_value' < 10 THEN 10 ELSE pwm_value'
      BY <2>1
    <3> QED BY <3>1, <3>2, <3>3, <2>2, ClampedStep
  <2> QED BY <2>1, <2>3 DEF PwmStep, PwmMin
<1>3. CASE UNCHANGED <<pwm_value, duty>>
  BY <1>1, <1>3 DEF PwmStep
<1>4. Remote => UNCHANGED <<pwm_value, duty>>
  BY DEF Remote, RemoteCommand
<1>5. StoreDefault \/ ReadOn \/ ReadFirst \/ ReadSecond \/ Settled \/ Wake \/ UNCHANGED vars
        => UNCHANGED <<pwm_value, duty>>
  BY DEF StoreDefault, ReadOn, ReadFirst, ReadSecond, Settled, Wake, vars
<1> QED BY <1>2, <1>3, <1>4, <1>5 DEF Next, PwmThread

\* The lamp never jumps: no step of the program changes the duty cycle by more
\* than a step of the smoothing, not even where pwm_set raises a value that is
\* too low, and what the thread has is what the channel gets.
THEOREM SmoothDutySafe == Spec => SmoothDuty
<1> QED BY SmoothStep, Invariance, PTL DEF Spec, SmoothDuty

\* pwm_corrected_set gives the channel what pwm_set makes of the square of the
\* brightness, limited first: the square fits in a uint16_t for every argument.
THEOREM CorrectedSet ==
  ASSUME NEW value \in 0..255
  PROVE  LET limited == IF value > MaxBrightness THEN MaxBrightness ELSE value
         IN PwmCorrectedSet(value) <=> PwmSet(limited * limited)
<1> DEFINE limited == IF value > MaxBrightness THEN MaxBrightness ELSE value
<1>1. limited \in 0..MaxBrightness /\ MaxBrightness \in Int /\ MaxBrightness <= 100
  BY Limits
<1>2. limited * limited <= MaxBrightness * MaxBrightness /\ limited * limited >= 0
  <2>1. limited * limited <= limited * MaxBrightness
    BY <1>1
  <2>2. limited * MaxBrightness <= MaxBrightness * MaxBrightness
    BY <1>1
  <2> QED BY <2>1, <2>2, <1>1
<1>3. MaxBrightness * MaxBrightness <= 10000
  BY Limits DEF PwmMax
<1>4. limited * limited \in Int
  BY <1>1
<1>5. (limited * limited) % 65536 = limited * limited /\ ~(limited * limited > PwmMax)
  BY <1>2, <1>3, <1>4, Limits DEF PwmMax
<1> QED BY <1>5 DEF PwmCorrectedSet, PwmSet

=============================================================================
