----------------------------- MODULE BootProofs -----------------------------
(***************************************************************************)
(* The initialization, for every set of keys, every brightness the lamp    *)
(* may be limited to, and every frame that takes longer than the           *)
(* statements of the initialization.                                       *)
(***************************************************************************)
EXTENDS Boot, LampProofs

\* The place of each statement.
LEMMA Places ==
  /\ Len(BootOrder) = 13
  /\ BootOrder[1] = "usb" /\ BootOrder[2] = "led_thread" /\ BootOrder[3] = "pwm_thread"
  /\ BootOrder[4] = "chp" /\ BootOrder[5] = "pad_event" /\ BootOrder[6] = "timer_known"
  /\ BootOrder[7] = "timer_start" /\ BootOrder[8] = "callback" /\ BootOrder[9] = "context"
  /\ BootOrder[10] = "pwm_start" /\ BootOrder[11] = "pwm_enable"
  /\ BootOrder[12] = "pwm_pin" /\ BootOrder[13] = "default"
BY DEF BootOrder

\* Which statement is next.
LEMMA Here ==
  ASSUME at \in 1..14
  PROVE  /\ At("usb") <=> at = 1
         /\ At("timer_known") <=> at = 6
         /\ At("timer_start") <=> at = 7
         /\ At("pwm_start") <=> at = 10
         /\ At("default") <=> at = 13
         /\ Loop <=> at = 14
BY Places DEF At, Loop

\* Which statements have been executed.
LEMMA Behind ==
  ASSUME at \in 1..14
  PROVE  /\ Done("pad_event") <=> at > 5
         /\ Done("callback") <=> at > 8
         /\ Done("context") <=> at > 9
         /\ Done("pwm_start") <=> at > 10
         /\ Done("pwm_pin") <=> at > 12
<1>1. (\E i \in 1..(at - 1) : BootOrder[i] = "pad_event") <=> at > 5
  BY Places
<1>2. (\E i \in 1..(at - 1) : BootOrder[i] = "callback") <=> at > 8
  BY Places
<1>3. (\E i \in 1..(at - 1) : BootOrder[i] = "context") <=> at > 9
  BY Places
<1>4. (\E i \in 1..(at - 1) : BootOrder[i] = "pwm_start") <=> at > 10
  BY Places
<1>5. (\E i \in 1..(at - 1) : BootOrder[i] = "pwm_pin") <=> at > 12
  BY Places
<1> QED BY <1>1, <1>2, <1>3, <1>4, <1>5 DEF Done

-----------------------------------------------------------------------------
(* The inductive invariant. *)

\* Nothing has asked for light yet: the thread has nowhere to move.
Untouched ==
  /\ brightness_on = FALSE /\ pwm_value = 0 /\ duty = 0 /\ expected = 0
  /\ pc \in {"on", "move", "sleep"}

\* How far main has got bounds how long a frame can have been received for, and
\* with it that no key is obeyed before main is in its loop.
BootInv ==
  /\ at \in 1..14
  /\ timer \in {"unknown", "known", "started", "unclocked"}
  /\ timer = "started" => at > 7
  /\ frame \in 0..FrameTime
  /\ at <= 13 => frame <= at /\ brightness_value = 0 /\ asked = FALSE
  /\ cpu \in {"runs", "halted"}
  /\ asked \in BOOLEAN
  /\ asked = FALSE => Untouched

LEMMA Frames == FrameTime \in Nat /\ FrameTime > 13
BY Places, FrameTimeAssumption

LEMMA BootInitInv == BootInit => BootInv
<1> SUFFICES ASSUME BootInit PROVE BootInv
  OBVIOUS
<1>1. Untouched /\ brightness_value = 0
  BY DEF BootInit, Init, Untouched
<1>2. at = 1 /\ timer = "unknown" /\ frame = 0 /\ cpu = "runs" /\ asked = FALSE
  BY DEF BootInit
<1>3. asked \in BOOLEAN
  BY <1>2, Zenon
<1>4. at \in 1..14 /\ frame \in 0..FrameTime /\ frame <= at /\ timer # "started"
  BY <1>2, Frames
<1> QED BY <1>1, <1>2, <1>3, <1>4 DEF BootInv

\* A statement of main advances it by one, and a frame by no more.
LEMMA RunStep ==
  ASSUME BootInv, NEW s, Run(s)
  PROVE  /\ at' = at + 1 /\ at' \in 1..14 /\ at <= 13
         /\ frame' \in 0..FrameTime /\ frame' <= at'
         /\ cpu' = cpu /\ asked' = FALSE /\ asked = FALSE
         /\ Untouched /\ brightness_value = 0
<1>1. at \in 1..14 /\ at # 14 /\ at' = at + 1
  BY Here DEF BootInv, Run, At
<1>2. frame' \in 0..FrameTime /\ frame' <= at'
  BY <1>1, Frames DEF BootInv, Run, Pass
<1> QED BY <1>1, <1>2 DEF BootInv, Run

\* What is left to show of a statement.
LEMMA RunInv ==
  ASSUME BootInv, NEW s, Run(s), Untouched', brightness_value' = 0 \/ at' = 14,
         timer' \in {"unknown", "known", "started", "unclocked"},
         timer' = "started" => at' > 7
  PROVE  BootInv'
<1>1. /\ at' \in 1..14 /\ frame' \in 0..FrameTime /\ frame' <= at' /\ asked' = FALSE
      /\ cpu' = cpu
  BY RunStep
<1>2. asked' \in BOOLEAN
  BY <1>1, Zenon
<1>3. cpu' \in {"runs", "halted"}
  BY <1>1 DEF BootInv
<1>4. at' <= 13 => frame' <= at' /\ brightness_value' = 0 /\ asked' = FALSE
  BY <1>1
<1> QED BY <1>1, <1>2, <1>3, <1>4 DEF BootInv

\* A statement that leaves the timer alone keeps what is known of it.
LEMMA RunKeepsTimer ==
  ASSUME BootInv, NEW s, Run(s), timer' = timer
  PROVE  /\ timer' \in {"unknown", "known", "started", "unclocked"}
         /\ timer' = "started" => at' > 7
<1>1. at' = at + 1 /\ at \in 1..14
  BY RunStep DEF BootInv
<1>2. timer \in {"unknown", "known", "started", "unclocked"} /\ (timer = "started" => at > 7)
  BY DEF BootInv
<1> QED BY <1>1, <1>2

\* A step of the lamp changes nothing before the lamp is asked for light.
LEMMA ThreadStep == Untouched /\ PwmThread => Untouched' /\ UNCHANGED brightness_value
<1> SUFFICES ASSUME Untouched, PwmThread PROVE Untouched' /\ UNCHANGED brightness_value
  OBVIOUS
<1>1. CASE ReadOn
  BY <1>1 DEF Untouched, ReadOn, shared
<1>2. CASE ReadFirst \/ ReadSecond
  BY <1>2 DEF Untouched, ReadFirst, ReadSecond
<1>3. CASE Move
  BY <1>3 DEF Untouched, Move
<1>4. CASE Settled \/ Wake
  BY <1>4 DEF Untouched, Settled, Wake, shared
<1> QED BY <1>1, <1>2, <1>3, <1>4 DEF PwmThread

\* A frame is over only when main is in its loop.
LEMMA FramesLate == BootInv /\ frame = FrameTime => at = 14
BY Frames DEF BootInv

\* The thread moves only when main is in its loop.
LEMMA MovesLate == BootInv /\ Sets => at = 14
BY DEF BootInv, Untouched, Sets

-----------------------------------------------------------------------------
(* One lemma per action. *)

LEMMA IrInitializeStep == BootInv /\ ir_initialize => BootInv' /\ UNCHANGED vars
<1> SUFFICES ASSUME BootInv, ir_initialize PROVE BootInv' /\ UNCHANGED vars
  OBVIOUS
<1>1. UNCHANGED vars
  BY DEF ir_initialize
<1>2. PICK s \in {"pad_event", "timer_known", "timer_start"} : Run(s)
  BY DEF ir_initialize
<1>3. /\ timer' \in {"unknown", "known", "started", "unclocked"}
      /\ timer' = "started" => at' > 7
  <2>1. at \in 1..14 /\ at' = at + 1
    BY <1>2, RunStep DEF BootInv
  <2>2. CASE Run("timer_start") /\ timer' = IF timer = "known" THEN "started" ELSE timer
    <3>1. at = 7
      BY <2>1, <2>2, Here DEF Run
    <3> QED BY <2>1, <2>2, <3>1 DEF BootInv
  <2>3. CASE timer' = "known" \/ timer' = timer
    BY <2>1, <2>3 DEF BootInv
  <2> QED BY <2>2, <2>3 DEF ir_initialize
<1>4. Untouched' /\ brightness_value' = 0
  BY <1>1, <1>2, RunStep DEF Untouched, vars, shared
<1> QED BY <1>1, <1>2, <1>3, <1>4, RunInv

LEMMA SetCallbackStep == BootInv /\ ir_set_callback => BootInv' /\ UNCHANGED vars
<1> SUFFICES ASSUME BootInv, ir_set_callback PROVE BootInv' /\ UNCHANGED vars
  OBVIOUS
<1>1. UNCHANGED vars /\ timer' = timer
  BY DEF ir_set_callback
<1>2. PICK s \in {"callback", "context"} : Run(s)
  BY DEF ir_set_callback
<1>3. Untouched' /\ brightness_value' = 0
  BY <1>1, <1>2, RunStep DEF Untouched, vars, shared
<1> QED BY <1>1, <1>2, <1>3, RunKeepsTimer, RunInv

LEMMA OthersStep == BootInv /\ Others => BootInv' /\ UNCHANGED vars
<1> SUFFICES ASSUME BootInv, Others PROVE BootInv' /\ UNCHANGED vars
  OBVIOUS
<1>1. UNCHANGED vars /\ timer' = timer
  BY DEF Others
<1>2. PICK s \in {"usb", "led_thread", "pwm_thread", "chp", "pwm_pin"} : Run(s)
  BY DEF Others
<1>3. Untouched' /\ brightness_value' = 0
  BY <1>1, <1>2, RunStep DEF Untouched, vars, shared
<1> QED BY <1>1, <1>2, <1>3, RunKeepsTimer, RunInv

\* The zero pwm_initialize writes to the channel is there already.
LEMMA PwmInitializeStep == BootInv /\ pwm_initialize => BootInv' /\ UNCHANGED vars
<1> SUFFICES ASSUME BootInv, pwm_initialize PROVE BootInv' /\ UNCHANGED vars
  OBVIOUS
<1>1. PICK s \in {"pwm_start", "pwm_enable"} : Run(s)
  BY DEF pwm_initialize
<1>2. duty = 0
  BY <1>1, RunStep DEF Untouched
<1>3. timer' = timer /\ UNCHANGED vars
  BY <1>2 DEF pwm_initialize, vars
<1>4. Untouched' /\ brightness_value' = 0
  BY <1>1, <1>3, RunStep DEF Untouched, vars, shared
<1> QED BY <1>1, <1>3, <1>4, RunKeepsTimer, RunInv

LEMMA DefaultIsLast == BootInv /\ Default => BootInv' /\ StoreDefault
<1> SUFFICES ASSUME BootInv, Default PROVE BootInv' /\ StoreDefault
  OBVIOUS
<1>1. Run("default") /\ StoreDefault /\ timer' = timer
  BY DEF Default
<1>2. at = 13
  BY <1>1, Here DEF Run, BootInv
<1>3. Untouched'
  BY <1>1, RunStep DEF Untouched, StoreDefault
<1>4. at' = at + 1
  BY <1>1, RunStep
<1>5. at' = 14
  BY <1>2, <1>4
<1> QED BY <1>1, <1>3, <1>5, RunKeepsTimer, RunInv

LEMMA WaitStep == BootInv /\ Wait => BootInv' /\ UNCHANGED vars
<1> SUFFICES ASSUME BootInv, Wait PROVE BootInv' /\ UNCHANGED vars
  OBVIOUS
<1>1. UNCHANGED <<vars, at, timer, cpu, asked>>
  BY DEF Wait
<1>2. frame' \in 0..FrameTime
  BY Frames DEF Wait, Pass, BootInv
<1>3. at <= 13 => frame' = frame
  BY Here DEF Wait, Pass, BootInv
<1>4. Untouched' <=> Untouched
  BY <1>1 DEF Untouched, vars, shared
<1> QED BY <1>1, <1>2, <1>3, <1>4 DEF BootInv, vars, shared

LEMMA EarlyEdgeStep == BootInv /\ EarlyEdge => BootInv' /\ UNCHANGED vars
<1> SUFFICES ASSUME BootInv, EarlyEdge PROVE BootInv' /\ UNCHANGED vars
  OBVIOUS
<1>1. UNCHANGED <<vars, at, frame, asked>>
  BY DEF EarlyEdge
<1>2. cpu' \in {"runs", "halted"} /\ (timer' = timer \/ timer' = "unclocked")
  BY DEF EarlyEdge
<1>3. Untouched' <=> Untouched
  BY <1>1 DEF Untouched, vars, shared
<1> QED BY <1>1, <1>2, <1>3 DEF BootInv, vars, shared

\* By the time a frame can be over, callback and context are both there.
LEMMA FrameEndsStep == BootInv /\ FrameEnds => BootInv' /\ (Remote \/ UNCHANGED vars)
<1> SUFFICES ASSUME BootInv, FrameEnds PROVE BootInv' /\ (Remote \/ UNCHANGED vars)
  OBVIOUS
<1>1. at = 14
  BY FramesLate DEF FrameEnds
<1>2. Done("callback") /\ Done("context")
  BY <1>1, Behind
<1>3. /\ Remote /\ asked' = (asked \/ brightness_on') /\ UNCHANGED <<cpu, at, timer>>
      /\ frame' = 0
  BY <1>2 DEF FrameEnds
<1>4. asked' \in BOOLEAN
  BY <1>3, Zenon
<1>5. brightness_on' \in BOOLEAN \/ brightness_on' = brightness_on
  BY <1>3 DEF Remote, RemoteCommand
<1>6. UNCHANGED <<pwm_value, duty, expected, pc>>
  BY <1>3 DEF Remote, RemoteCommand
<1>7. asked' = FALSE => Untouched'
  <2> SUFFICES ASSUME asked' = FALSE PROVE Untouched'
    OBVIOUS
  <2>1. ~asked /\ ~brightness_on'
    BY <1>3, Zenon
  <2>2. asked = FALSE
    BY <2>1 DEF BootInv
  <2>3. Untouched
    BY <2>2 DEF BootInv
  <2>4. brightness_on' = FALSE
    BY <1>5, <2>1, <2>3 DEF Untouched
  <2> QED BY <1>6, <2>3, <2>4 DEF Untouched
<1> QED BY <1>1, <1>3, <1>4, <1>7, Frames DEF BootInv

\* The thread has no reason to call a driver that is not ready.
LEMMA ThreadRuns == BootInv /\ Thread => BootInv' /\ PwmThread
<1> SUFFICES ASSUME BootInv, Thread PROVE BootInv' /\ PwmThread
  OBVIOUS
<1>1. Sets => Done("pwm_start")
  BY MovesLate, Behind DEF BootInv
<1>2. PwmThread /\ UNCHANGED <<cpu, at, timer, frame, asked>>
  BY <1>1 DEF Thread
<1>3. asked = FALSE => Untouched' /\ UNCHANGED brightness_value
  BY <1>2, ThreadStep DEF BootInv
<1> QED BY <1>2, <1>3 DEF BootInv

\* Every step of the initialization is a step of the lamp, or none.
LEMMA BootStep ==
  ASSUME BootInv, [BootNext]_bootVars
  PROVE  BootInv' /\ [Next]_vars
<1>1. CASE UNCHANGED bootVars
  BY <1>1 DEF bootVars, boot, vars, shared, BootInv, Untouched
<1>2. CASE BootNext
  BY <1>2, IrInitializeStep, SetCallbackStep, OthersStep, PwmInitializeStep, DefaultIsLast,
     WaitStep, EarlyEdgeStep, FrameEndsStep, ThreadRuns, <1>1 DEF BootNext, Next, Fault
<1> QED BY <1>1, <1>2

THEOREM BootInvariance == BootSpec => []BootInv
<1> QED BY BootInitInv, BootStep, PTL DEF BootSpec

\* The lamp of module Lamp starts at reset already: whatever keys come and
\* however far the smoothing thread has got between the statements of the
\* initialization, each of them changes nothing of the lamp but the default.
THEOREM BootImplementsLamp == BootSpec => LampSpec
<1>1. BootInit => Init
  BY DEF BootInit
<1>2. BootInv /\ [BootNext]_bootVars => [Next]_vars
  BY BootStep
<1> QED BY <1>1, <1>2, BootInvariance, PTL DEF BootSpec, LampSpec

\* Every variable of the initialization keeps its type, and those of the lamp do.
THEOREM BootTypeCorrect == BootSpec => []BootTypeOK
<1>1. BootInv /\ TypeOK => BootTypeOK
  BY Places DEF BootInv, BootTypeOK
<1>2. LampSpec <=> Spec
  BY DEF LampSpec, Spec
<1> QED BY <1>1, <1>2, BootImplementsLamp, BootInvariance, TypeCorrect, PTL

\* ir_set_callback makes the callback visible before its context, but no frame
\* can be over in between, for every frame that takes longer than the statements.
THEOREM CallbackHasContextSafe == BootSpec => []CallbackHasContext
<1>1. BootInv => CallbackHasContext
  BY FramesLate, Behind DEF CallbackHasContext, BootInv
<1> QED BY <1>1, BootInvariance, PTL

\* The smoothing thread does not call the PWM driver before pwm_initialize has
\* started it, although it runs long before.
THEOREM DriverReadySafe == BootSpec => []DriverReady
<1>1. BootInv => DriverReady
  BY MovesLate, Behind DEF DriverReady, BootInv
<1> QED BY <1>1, BootInvariance, PTL

\* The lamp gives no light from reset until a key has turned it on, with the
\* pins and the polarity of the board.
THEOREM DarkUntilOnSafe == BootSpec => []DarkUntilOn
<1>1. ASSUME BootInv PROVE DarkUntilOn
  <2> SUFFICES ASSUME asked = FALSE PROVE ~Light
    BY <1>1, Zenon DEF DarkUntilOn, BootInv
  <2>1. duty = 0 /\ at \in 1..14
    BY <1>1 DEF BootInv, Untouched
  <2>2. CASE Done("pwm_pin")
    BY <2>1, <2>2, Behind DEF Light
  <2>3. CASE ~Done("pwm_pin")
    <3>1. VAL_GPIOACRL[7] = 8 /\ PWM_PIN + 1 = 7
      BY DEF VAL_GPIOACRL, PWM_PIN
    <3>2. PulledUp(PWM_PIN) = TRUE
      BY <3>1, Zenon DEF PulledUp
    <3> QED BY <2>3, <3>2, Zenon DEF Light, PWM_INVERTED
  <2> QED BY <2>2, <2>3
<1> QED BY <1>1, BootInvariance, PTL

\* The default brightness main stores last replaces nothing a key has asked for.
THEOREM DefaultSurvivesSafe == BootSpec => DefaultSurvives
<1>1. ASSUME BootInv, [BootNext]_bootVars
      PROVE  [booted' # booted
                => brightness_value = 0 /\ ~brightness_on /\ pwm_value = 0]_bootVars
  <2>1. CASE Default
    <3>1. Run("default")
      BY <2>1 DEF Default
    <3> QED BY <1>1, <3>1, RunStep DEF Untouched
  <2>2. CASE UNCHANGED bootVars \/ UNCHANGED vars
    BY <2>2 DEF bootVars, vars, shared
  <2>3. CASE FrameEnds
    BY <1>1, <2>3, FrameEndsStep DEF Remote, RemoteCommand, vars, shared
  <2>4. CASE Thread
    <3>1. PwmThread
      BY <1>1, <2>4, ThreadRuns
    <3> QED BY <3>1 DEF PwmThread, ReadOn, ReadFirst, ReadSecond, Move, Settled, Wake, shared
  <2> QED BY <1>1, <2>1, <2>2, <2>3, <2>4, IrInitializeStep, SetCallbackStep, OthersStep,
             PwmInitializeStep, WaitStep, EarlyEdgeStep DEF BootNext, Fault
<1> QED BY <1>1, BootInvariance, PTL DEF BootSpec, DefaultSurvives

=============================================================================
