-------------------------- MODULE IrReceiverProofs --------------------------
(***************************************************************************)
(* Proofs about the infrared receiver, for every value of the constants    *)
(* the assumptions of IrReceiver.tla admit.                                *)
(*                                                                         *)
(* The argument: while an interrupt of the timer is raised or served, the  *)
(* counter is no larger than the lag, hence below every minimum an edge is *)
(* compared with.  So no edge that preempts the timer callback can accept  *)
(* a pulse or a space: what it can do to the callback's data is bounded,   *)
(* and the invariants below say by what.                                   *)
(***************************************************************************)
EXTENDS IrReceiver, TLAPS

-----------------------------------------------------------------------------
(* The inductive invariant. *)

\* An accepted leading pulse has set a period that can be halved and that is
\* too short to be mistaken for any measured space or pulse.
Paced ==
  /\ ticks_measurement_shift > 0
  /\ ticks_per_measurement > ticks_measurement_shift
  /\ ticks_per_measurement <= LeadPulseMin
  /\ ticks_per_measurement <= SyncSpaceMin
  /\ ticks_per_measurement <= RepeatSpaceMin

\* A running timer counts below its interval; while an interrupt of the timer
\* is raised or served the counter is no larger than the lag.
CounterInv ==
  /\ gpt.mode # "stop" => gpt.cnt < gpt.interval
  /\ gpt.uif \/ tpc # "idle" => gpt.cnt <= lag

\* Whoever arms the timer with the period or the shift finds them set.
PaceInv ==
  (\/ rearm_timer
   \/ tpc = "restart"
   \/ state = "receive_command"
   \/ state = "synchronization" /\ sync_state = "rise_end") => Paced

\* Which timer runs in a phase whose length the counter measures: the one-shot
\* of that phase, or one whose counter is too small to be accepted.
Measures(max, min) ==
  /\ gpt.mode = "one_shot" => gpt.interval = max
  /\ gpt.mode = "continuous" => gpt.interval <= min
  /\ gpt.mode = "stop" => gpt.cnt <= MaxLag

PhaseInv ==
  /\ state = "synchronization" /\ sync_state = "fall" =>
       Measures(LeadPulseMax, LeadPulseMin)
  /\ state = "synchronization" /\ sync_state = "rise_end" =>
       Measures(SyncSpaceMax, SyncSpaceMin)
  /\ state = "wait_repeat" /\ repeat_state = "rise_end" =>
       Measures(RepeatSpaceMax, RepeatSpaceMin)

\* The step the timer callback is at, and the states it can see there.
CallbackInv ==
  /\ tpc # "reset" => todo = {}
  /\ tpc \in {"wait_timer", "wait_time", "store_time"} =>
       state = "wait_repeat" /\ ~WaitingTimeout(time_since_last_command_msec)
  /\ tpc = "wait_timer" => repeat_state # "rise_end"
  /\ tpc = "store_time" => ~WaitingTimeout(treg)
  /\ tpc = "check_time" =>
       /\ state # "receive_command"
       /\ time_since_last_command_msec \in {0, treg}
  /\ tpc = "reset" => state = "synchronization" \/ "state" \in todo

\* A store of ir_reset_state the timer callback still owes.
Owed(s) == tpc = "reset" /\ s \in todo

\* A receiver outside of a frame and of a wait is reset, up to owed stores; and
\* what the callback's reset has stored stays stored until the reset is over.
SynchronizationInv ==
  state = "synchronization" \/ tpc = "reset" =>
    /\ command_received => Owed("command")
    /\ bits_received # 0 => Owed("bits")
    /\ bit_measure_num # 0 => Owed("bits")
    /\ time_since_last_command_msec # 0 => Owed("time")
    /\ repeat_state = "rise_end" => Owed("repeat_state")

ReceiveInv ==
  state = "receive_command" =>
    /\ time_since_last_command_msec = 0
    /\ repeat_state # "rise_end"
    /\ bits_received < NumberOfBits \/ tpc = "reset" => ~command_received
    /\ sync_state = "done" \/ (tpc = "reset" /\ sync_state = "rise")
    /\ tpc \in {"idle", "acknowledged", "dispatch"} => gpt.mode # "stop"
    /\ tpc \in {"idle", "acknowledged", "rearm", "dispatch"} =>
         rearm_timer \/ (gpt.mode = "continuous" /\ gpt.interval = ticks_per_measurement)

WaitInv ==
  state = "wait_repeat" =>
    /\ ~command_received => tpc = "reset" /\ "command" \notin todo
    /\ sync_state = "done" \/ (tpc = "reset" /\ sync_state = "rise")
    /\ repeat_state = "fault" /\ tpc \notin {"wait_timer", "reset"} => gpt.mode = "continuous"
    /\ WaitingTimeout(time_since_last_command_msec) => tpc \in {"check_time", "reset"}

SessionInv == command_received <=> last_command # NoCommand

IInv ==
  /\ TypeOK
  /\ BitIndexInBounds
  /\ CounterInv
  /\ PaceInv
  /\ PhaseInv
  /\ CallbackInv
  /\ SynchronizationInv
  /\ ReceiveInv
  /\ WaitInv
  /\ SessionInv

-----------------------------------------------------------------------------
(* Lemmas about the timer and the sampling period. *)

\* Stopping keeps the counter and clears the update flag.
LEMMA GptStopFacts ==
  ASSUME NEW t \in GptState
  PROVE  /\ GptStop(t) \in GptState
         /\ GptStop(t).mode = "stop"
         /\ GptStop(t).cnt = t.cnt
         /\ GptStop(t).uif = FALSE
BY DEF GptState, GptStop, GptModes

\* A started timer counts from zero in its mode, with its flag clear.
LEMMA GptStartFacts ==
  ASSUME NEW n \in Nat
  PROVE  /\ GptOneShot(n) \in GptState
         /\ GptOneShot(n).mode = "one_shot" /\ GptOneShot(n).interval = n
         /\ GptOneShot(n).cnt = 0 /\ GptOneShot(n).uif = FALSE
         /\ GptContinuous(n) \in GptState
         /\ GptContinuous(n).mode = "continuous" /\ GptContinuous(n).interval = n
         /\ GptContinuous(n).cnt = 0 /\ GptContinuous(n).uif = FALSE
BY DEF GptState, GptModes, GptOneShot, GptContinuous

\* A tick keeps mode and interval; the counter advances or wraps with the flag
\* raised; it never reaches the interval.
LEMMA GptTickFacts ==
  ASSUME NEW t \in GptState, t.mode # "stop" => t.cnt < t.interval
  PROVE  /\ GptTick(t) \in GptState
         /\ GptTick(t).mode = t.mode
         /\ GptTick(t).interval = t.interval
         /\ t.mode = "stop" => GptTick(t) = t
         /\ t.mode # "stop" => GptTick(t).cnt < t.interval
         /\ GptTick(t).cnt <= t.cnt + 1
         /\ GptTick(t).uif => t.uif \/ GptTick(t).cnt = 0
         /\ t.uif => GptTick(t).uif
<1>1. CASE t.mode = "stop"
  BY <1>1 DEF GptState, GptModes, GptTick
<1>2. CASE t.mode # "stop" /\ t.cnt + 1 < t.interval
  <2>1. GptTick(t) = [t EXCEPT !.cnt = t.cnt + 1]
    BY <1>2 DEF GptTick
  <2>2. QED
    BY <1>2, <2>1 DEF GptState, GptModes
<1>3. CASE t.mode # "stop" /\ ~(t.cnt + 1 < t.interval)
  <2>1. GptTick(t) = [mode |-> t.mode, interval |-> t.interval, cnt |-> 0, uif |-> TRUE]
    BY <1>3 DEF GptTick, GptState, GptModes
  <2>2. /\ GptTick(t) \in GptState
        /\ GptTick(t).mode = t.mode /\ GptTick(t).interval = t.interval
        /\ GptTick(t).cnt = 0 /\ GptTick(t).uif = TRUE
    BY <2>1 DEF GptState, GptModes
  <2>3. t.interval \in Nat /\ t.cnt \in Nat
    BY DEF GptState
  <2>4. QED
    BY <1>3, <2>2, <2>3
<1>4. QED
  BY <1>1, <1>2, <1>3

\* The service routine keeps the counter; it stops a one-shot timer.
LEMMA GptServiceFacts ==
  ASSUME NEW t \in GptState
  PROVE  /\ GptAcknowledge(t) \in GptState
         /\ GptAcknowledge(t).mode = t.mode
         /\ GptAcknowledge(t).interval = t.interval
         /\ GptAcknowledge(t).cnt = t.cnt
         /\ GptAcknowledge(t).uif = FALSE
         /\ GptBeforeCallback(t) \in GptState
         /\ GptBeforeCallback(t).cnt = t.cnt
         /\ t.mode = "one_shot" => GptBeforeCallback(t) = GptStop(t)
         /\ t.mode # "one_shot" => GptBeforeCallback(t) = t
BY DEF GptState, GptModes, GptAcknowledge, GptBeforeCallback, GptStop

\* A leading pulse accepted within its window sets a period in the range.
LEMMA PeriodFacts ==
  ASSUME NEW p \in Nat, p > LeadPulseMin, p < LeadPulseMax
  PROVE  LET t == TicksPerMeasurement(p)
             s == TicksPerMeasurement(p) \div 2
         IN /\ t \in Nat /\ s \in Nat
            /\ s > 0 /\ t > s
            /\ t <= LeadPulseMin /\ t <= SyncSpaceMin /\ t <= RepeatSpaceMin
<1>1. p \in (LeadPulseMin + 1)..(LeadPulseMax - 1)
  BY TickAssumption
<1>2. TicksPerMeasurement(p) \in Nat
  BY FrameAssumption, SMT DEF TicksPerMeasurement
<1>3. /\ TicksPerMeasurement(p) >= 2
      /\ TicksPerMeasurement(p) <= LeadPulseMin
      /\ TicksPerMeasurement(p) <= SyncSpaceMin
      /\ TicksPerMeasurement(p) <= RepeatSpaceMin
  BY <1>1, TickAssumption
<1>4. QED
  BY <1>2, <1>3, SMT

\* The orders of the thresholds, without the sampling period.
LEMMA TickFacts ==
  /\ MaxLag \in Nat
  /\ LeadPulseMin \in Nat /\ LeadPulseMax \in Nat /\ LeadPulseMax > 0
  /\ SyncSpaceMin \in Nat /\ SyncSpaceMax \in Nat /\ SyncSpaceMax > 0
  /\ RepeatSpaceMin \in Nat /\ RepeatSpaceMax \in Nat /\ RepeatSpaceMax > 0
  /\ Timer10Msec \in Nat /\ Timer10Msec > 0
  /\ MaxLag <= LeadPulseMin /\ MaxLag <= SyncSpaceMin /\ MaxLag <= RepeatSpaceMin
BY TickAssumption

\* An edge of the signal changes the lag at most.
LEMMA ToggleStep ==
  ASSUME IInv, Toggle
  PROVE  IInv'
<1> USE DEF IInv, Toggle, cpu, decoded, counted, pace, mode
<1>1. TypeOK'
  BY TickFacts DEF TypeOK
<1>2. BitIndexInBounds'
  BY DEF BitIndexInBounds
<1>3. CounterInv'
  BY DEF CounterInv, Busy
<1>4. PaceInv'
  BY DEF PaceInv, Paced
<1>5. PhaseInv'
  BY DEF PhaseInv, Measures
<1>6. CallbackInv'
  BY DEF CallbackInv
<1>7. SynchronizationInv'
  BY DEF SynchronizationInv, Owed
<1>8. ReceiveInv'
  BY DEF ReceiveInv
<1>9. WaitInv'
  BY DEF WaitInv
<1>10. SessionInv'
  BY DEF SessionInv
<1> QED
  BY <1>1, <1>2, <1>3, <1>4, <1>5,
     <1>6, <1>7, <1>8, <1>9, <1>10

\* A tick moves counter and lag together.
LEMMA TickStep ==
  ASSUME IInv, Tick
  PROVE  IInv'
<1> USE DEF IInv, Tick, cpu, decoded, counted, pace, mode
<1>a. gpt \in GptState /\ (gpt.mode # "stop" => gpt.cnt < gpt.interval)
  BY DEF TypeOK, CounterInv
<1>b. /\ GptTick(gpt) \in GptState
      /\ GptTick(gpt).mode = gpt.mode
      /\ GptTick(gpt).interval = gpt.interval
      /\ gpt.mode = "stop" => GptTick(gpt) = gpt
      /\ gpt.mode # "stop" => GptTick(gpt).cnt < gpt.interval
      /\ GptTick(gpt).cnt <= gpt.cnt + 1
      /\ GptTick(gpt).uif => gpt.uif \/ GptTick(gpt).cnt = 0
  BY <1>a, GptTickFacts
<1>1. TypeOK'
  BY <1>b, TickFacts DEF TypeOK
<1>2. BitIndexInBounds'
  BY DEF BitIndexInBounds
<1>3. CounterInv'
  BY <1>b DEF CounterInv, TypeOK, GptState, Busy
<1>4. PaceInv'
  BY DEF PaceInv, Paced
<1>5. PhaseInv'
  BY <1>b DEF PhaseInv, Measures
<1>6. CallbackInv'
  BY DEF CallbackInv
<1>7. SynchronizationInv'
  BY DEF SynchronizationInv, Owed
<1>8. ReceiveInv'
  BY <1>b DEF ReceiveInv
<1>9. WaitInv'
  BY <1>b DEF WaitInv
<1>10. SessionInv'
  BY DEF SessionInv
<1> QED
  BY <1>1, <1>2, <1>3, <1>4, <1>5,
     <1>6, <1>7, <1>8, <1>9, <1>10

\* Setting the callback touches nothing the invariant is about.
LEMMA SetCallbackStep ==
  ASSUME IInv, SetCallback
  PROVE  IInv'
<1> USE DEF IInv, SetCallback, cpu, decoded, counted, pace, mode
<1>1. TypeOK'
  BY DEF TypeOK
<1>2. BitIndexInBounds'
  BY DEF BitIndexInBounds
<1>3. CounterInv'
  BY DEF CounterInv
<1>4. PaceInv'
  BY DEF PaceInv, Paced
<1>5. PhaseInv'
  BY DEF PhaseInv, Measures
<1>6. CallbackInv'
  BY DEF CallbackInv
<1>7. SynchronizationInv'
  BY DEF SynchronizationInv, Owed
<1>8. ReceiveInv'
  BY DEF ReceiveInv
<1>9. WaitInv'
  BY DEF WaitInv
<1>10. SessionInv'
  BY DEF SessionInv
<1> QED
  BY <1>1, <1>2, <1>3, <1>4, <1>5,
     <1>6, <1>7, <1>8, <1>9, <1>10

\* The service routine begins with the counter at most the lag.
LEMMA TimerAcknowledgeStep ==
  ASSUME IInv, TimerAcknowledge
  PROVE  IInv'
<1> USE DEF IInv, TimerAcknowledge, cpu, decoded, counted, pace, mode, TimerFrame, Context
<1>a. gpt \in GptState
  BY DEF TypeOK
<1>b. /\ gpt' \in GptState
      /\ gpt'.mode = gpt.mode /\ gpt'.interval = gpt.interval
      /\ gpt'.cnt = gpt.cnt /\ gpt'.uif = FALSE
  BY <1>a, GptServiceFacts
<1>1. TypeOK'
  BY <1>b DEF TypeOK, TimerSteps
<1>2. BitIndexInBounds'
  BY DEF BitIndexInBounds
<1>3. CounterInv'
  BY <1>b DEF CounterInv
<1>4. PaceInv'
  BY DEF PaceInv, Paced
<1>5. PhaseInv'
  BY <1>b DEF PhaseInv, Measures
<1>6. CallbackInv'
  BY DEF CallbackInv
<1>7. SynchronizationInv'
  BY DEF SynchronizationInv, Owed
<1>8. ReceiveInv'
  BY <1>b DEF ReceiveInv
<1>9. WaitInv'
  BY <1>b DEF WaitInv
<1>10. SessionInv'
  BY DEF SessionInv
<1> QED
  BY <1>1, <1>2, <1>3, <1>4, <1>5,
     <1>6, <1>7, <1>8, <1>9, <1>10

\* A one-shot timer is stopped: in a frame it is one to be rearmed.
LEMMA TimerEnterStep ==
  ASSUME IInv, TimerEnter
  PROVE  IInv'
<1> USE DEF IInv, TimerEnter, cpu, decoded, counted, pace, mode, TimerFrame, Context
<1>a. gpt \in GptState
  BY DEF TypeOK
<1>b. /\ gpt' \in GptState
      /\ gpt'.cnt = gpt.cnt
      /\ gpt.mode = "one_shot" => gpt'.mode = "stop" /\ gpt'.uif = FALSE
      /\ gpt.mode # "one_shot" => gpt' = gpt
  BY <1>a, GptServiceFacts, GptStopFacts
<1>1. TypeOK'
  BY <1>b DEF TypeOK, TimerSteps
<1>2. BitIndexInBounds'
  BY DEF BitIndexInBounds
<1>3. CounterInv'
  BY <1>b DEF CounterInv
<1>4. PaceInv'
  BY DEF PaceInv, Paced
<1>5. PhaseInv'
  BY <1>b, TickFacts DEF PhaseInv, Measures, CounterInv, TypeOK, GptState
<1>6. CallbackInv'
  BY DEF CallbackInv
<1>7. SynchronizationInv'
  BY DEF SynchronizationInv, Owed
<1>8. ReceiveInv'
  BY <1>b DEF ReceiveInv
<1>9. WaitInv'
  BY <1>b DEF WaitInv
<1>10. SessionInv'
  BY DEF SessionInv
<1> QED
  BY <1>1, <1>2, <1>3, <1>4, <1>5,
     <1>6, <1>7, <1>8, <1>9, <1>10

\* The rearm flag is handed over to the callback's own step.
LEMMA TimerRearmStep ==
  ASSUME IInv, TimerRearm
  PROVE  IInv'
<1> USE DEF IInv, TimerRearm, cpu, decoded, counted, pace, mode, TimerFrame, Context
<1>1. TypeOK'
  BY DEF TypeOK, TimerSteps
<1>2. BitIndexInBounds'
  BY DEF BitIndexInBounds
<1>3. CounterInv'
  BY DEF CounterInv
<1>4. PaceInv'
  BY DEF PaceInv, Paced
<1>5. PhaseInv'
  BY DEF PhaseInv, Measures
<1>6. CallbackInv'
  BY DEF CallbackInv
<1>7. SynchronizationInv'
  BY DEF SynchronizationInv, Owed
<1>8. ReceiveInv'
  BY DEF ReceiveInv
<1>9. WaitInv'
  BY DEF WaitInv
<1>10. SessionInv'
  BY DEF SessionInv
<1> QED
  BY <1>1, <1>2, <1>3, <1>4, <1>5,
     <1>6, <1>7, <1>8, <1>9, <1>10

\* The sampling period begins.
LEMMA TimerRestartStep ==
  ASSUME IInv, TimerRestart
  PROVE  IInv'
<1> USE DEF IInv, TimerRestart, cpu, decoded, counted, pace, mode, TimerFrame, Context
<1>a. ticks_per_measurement \in Nat
  BY DEF TypeOK
<1>b. /\ gpt' \in GptState
      /\ gpt'.mode = "continuous" /\ gpt'.interval = ticks_per_measurement
      /\ gpt'.cnt = 0 /\ gpt'.uif = FALSE
  BY <1>a, GptStartFacts
<1>c. Paced
  BY DEF PaceInv
<1>1. TypeOK'
  BY <1>b DEF TypeOK, TimerSteps
<1>2. BitIndexInBounds'
  BY DEF BitIndexInBounds
<1>3. CounterInv'
  BY <1>b, <1>c DEF CounterInv, TypeOK, Paced
<1>4. PaceInv'
  BY DEF PaceInv, Paced
<1>5. PhaseInv'
  BY <1>b, <1>c DEF PhaseInv, Measures, Paced
<1>6. CallbackInv'
  BY DEF CallbackInv
<1>7. SynchronizationInv'
  BY DEF SynchronizationInv, Owed
<1>8. ReceiveInv'
  BY <1>b DEF ReceiveInv
<1>9. WaitInv'
  BY <1>b DEF WaitInv
<1>10. SessionInv'
  BY DEF SessionInv
<1> QED
  BY <1>1, <1>2, <1>3, <1>4, <1>5,
     <1>6, <1>7, <1>8, <1>9, <1>10

\* A tick outside of a frame and of a wait changes nothing.
LEMMA TimerIgnoredStep ==
  ASSUME IInv, TimerIgnored
  PROVE  IInv'
<1> USE DEF IInv, TimerIgnored, cpu, decoded, counted, pace, mode, TimerFrame, Context
<1>1. TypeOK'
  BY DEF TypeOK, TimerSteps
<1>2. BitIndexInBounds'
  BY DEF BitIndexInBounds
<1>3. CounterInv'
  BY DEF CounterInv
<1>4. PaceInv'
  BY DEF PaceInv, Paced
<1>5. PhaseInv'
  BY DEF PhaseInv, Measures
<1>6. CallbackInv'
  BY DEF CallbackInv
<1>7. SynchronizationInv'
  BY DEF SynchronizationInv, Owed
<1>8. ReceiveInv'
  BY DEF ReceiveInv
<1>9. WaitInv'
  BY DEF WaitInv
<1>10. SessionInv'
  BY DEF SessionInv
<1> QED
  BY <1>1, <1>2, <1>3, <1>4, <1>5,
     <1>6, <1>7, <1>8, <1>9, <1>10

\* A frame without a command begins a reset.
LEMMA TimerNoCommandStep ==
  ASSUME IInv, TimerNoCommand
  PROVE  IInv'
<1> USE DEF IInv, TimerNoCommand, cpu, decoded, counted, pace, mode, TimerFrame, Context, BeginReset
<1>a. gpt \in GptState
  BY DEF TypeOK
<1>b. /\ gpt' \in GptState
      /\ gpt'.mode = "stop" /\ gpt'.cnt = gpt.cnt /\ gpt'.uif = FALSE
  BY <1>a, GptStopFacts
<1>1. TypeOK'
  BY <1>b DEF TypeOK, TimerSteps
<1>2. BitIndexInBounds'
  BY DEF BitIndexInBounds
<1>3. CounterInv'
  BY <1>b DEF CounterInv
<1>4. PaceInv'
  BY DEF PaceInv, Paced
<1>5. PhaseInv'
  BY DEF PhaseInv
<1>6. CallbackInv'
  BY DEF CallbackInv, ResetStores
<1>7. SynchronizationInv'
  BY DEF SynchronizationInv, Owed, ResetStores
<1>8. ReceiveInv'
  BY DEF ReceiveInv
<1>9. WaitInv'
  BY DEF WaitInv
<1>10. SessionInv'
  BY DEF SessionInv
<1> QED
  BY <1>1, <1>2, <1>3, <1>4, <1>5,
     <1>6, <1>7, <1>8, <1>9, <1>10

\* A frame with a command begins a wait, with no time counted.
LEMMA TimerWaitRepeatStep ==
  ASSUME IInv, TimerWaitRepeat
  PROVE  IInv'
<1> USE DEF IInv, TimerWaitRepeat, cpu, decoded, counted, pace, mode, TimerFrame, Context
<1>1. TypeOK'
  BY DEF TypeOK, TimerSteps, States
<1>2. BitIndexInBounds'
  BY DEF BitIndexInBounds
<1>3. CounterInv'
  BY DEF CounterInv
<1>4. PaceInv'
  BY DEF PaceInv, Paced
<1>5. PhaseInv'
  BY DEF PhaseInv, ReceiveInv
<1>6. CallbackInv'
  BY TimeAssumption DEF CallbackInv, WaitingTimeout, ReceiveInv
<1>7. SynchronizationInv'
  BY DEF SynchronizationInv
<1>8. ReceiveInv'
  BY DEF ReceiveInv
<1>9. WaitInv'
  BY TimeAssumption DEF WaitInv, WaitingTimeout, ReceiveInv
<1>10. SessionInv'
  BY DEF SessionInv
<1> QED
  BY <1>1, <1>2, <1>3, <1>4, <1>5,
     <1>6, <1>7, <1>8, <1>9, <1>10

\* The wait's timer starts while no space is being measured.
LEMMA TimerWaitStartStep ==
  ASSUME IInv, TimerWaitStart
  PROVE  IInv'
<1> USE DEF IInv, TimerWaitStart, cpu, decoded, counted, pace, mode, TimerFrame, Context
<1>b. /\ gpt' \in GptState
      /\ gpt'.mode = "continuous" /\ gpt'.interval = Timer10Msec
      /\ gpt'.cnt = 0 /\ gpt'.uif = FALSE
  BY TickFacts, GptStartFacts
<1>1. TypeOK'
  BY <1>b DEF TypeOK, TimerSteps
<1>2. BitIndexInBounds'
  BY DEF BitIndexInBounds
<1>3. CounterInv'
  BY <1>b, TickFacts DEF CounterInv, TypeOK
<1>4. PaceInv'
  BY DEF PaceInv, Paced
<1>5. PhaseInv'
  BY DEF PhaseInv, CallbackInv
<1>6. CallbackInv'
  BY DEF CallbackInv
<1>7. SynchronizationInv'
  BY DEF SynchronizationInv, Owed
<1>8. ReceiveInv'
  BY DEF ReceiveInv
<1>9. WaitInv'
  BY <1>b DEF WaitInv
<1>10. SessionInv'
  BY DEF SessionInv
<1> QED
  BY <1>1, <1>2, <1>3, <1>4, <1>5,
     <1>6, <1>7, <1>8, <1>9, <1>10

\* The time of the command itself is below the timeout.
LEMMA TimerWaitTimeStep ==
  ASSUME IInv, TimerWaitTime
  PROVE  IInv'
<1> USE DEF IInv, TimerWaitTime, cpu, decoded, counted, pace, mode, TimerFrame, Context
<1>1. TypeOK'
  BY TimeAssumption DEF TypeOK, TimerSteps
<1>2. BitIndexInBounds'
  BY DEF BitIndexInBounds
<1>3. CounterInv'
  BY DEF CounterInv
<1>4. PaceInv'
  BY DEF PaceInv, Paced
<1>5. PhaseInv'
  BY DEF PhaseInv, Measures
<1>6. CallbackInv'
  BY DEF CallbackInv
<1>7. SynchronizationInv'
  BY DEF SynchronizationInv, CallbackInv
<1>8. ReceiveInv'
  BY DEF ReceiveInv, CallbackInv
<1>9. WaitInv'
  BY TimeAssumption DEF WaitInv, WaitingTimeout
<1>10. SessionInv'
  BY DEF SessionInv
<1> QED
  BY <1>1, <1>2, <1>3, <1>4, <1>5,
     <1>6, <1>7, <1>8, <1>9, <1>10

\* A sample never goes past the frame; only its last one delivers a command.
LEMMA TimerSampleStep ==
  ASSUME IInv, TimerSample
  PROVE  IInv'
<1> USE DEF IInv, TimerSample, cpu, decoded, counted, pace, mode, TimerFrame, Context,
   DecodeCommand, Calls
<1>1. TypeOK'
  <2>1. last_call' \in Call /\ command_received' \in BOOLEAN
         /\ last_command' \in Commands \cup {NoCommand}
    <3>1. CASE UNCHANGED <<decoded, last_call>>
      BY <3>1 DEF TypeOK
    <3>2. CASE callback /\ \E c \in Commands : /\ command_received' = TRUE
                                               /\ last_command' = c
                                               /\ Calls(c, FALSE)
      <4>1. PICK c \in Commands : /\ command_received' = TRUE
                                  /\ last_command' = c
                                  /\ Calls(c, FALSE)
        BY <3>2
      <4>2. [command |-> c, repeat |-> FALSE, odd |-> ~last_call.odd] \in Call
        BY DEF Call
      <4>3. QED
        BY <4>1, <4>2
    <3>3. QED
      BY <3>1, <3>2
  <2>2. bits_received' \in Nat /\ bit_measure_num' \in Nat /\ tpc' \in TimerSteps
    BY DEF TypeOK, TimerSteps
  <2>3. QED
    BY <2>1, <2>2 DEF TypeOK
<1>2. BitIndexInBounds'
  BY FrameAssumption DEF BitIndexInBounds, TypeOK
<1>3. CounterInv'
  BY DEF CounterInv
<1>4. PaceInv'
  BY DEF PaceInv, Paced
<1>5. PhaseInv'
  BY DEF PhaseInv
<1>6. CallbackInv'
  BY DEF CallbackInv
<1>7. SynchronizationInv'
  BY DEF SynchronizationInv
<1>8. ReceiveInv'
  BY FrameAssumption DEF ReceiveInv, TypeOK
<1>9. WaitInv'
  BY DEF WaitInv
<1>10. SessionInv'
  BY CommandAssumption DEF SessionInv
<1> QED
  BY <1>1, <1>2, <1>3, <1>4, <1>5,
     <1>6, <1>7, <1>8, <1>9, <1>10

\* The counter is loaded below the timeout.
LEMMA TimerLoadTimeStep ==
  ASSUME IInv, TimerLoadTime
  PROVE  IInv'
<1> USE DEF IInv, TimerLoadTime, cpu, decoded, counted, pace, mode, TimerFrame, Context
<1>1. TypeOK'
  BY DEF TypeOK, TimerSteps
<1>2. BitIndexInBounds'
  BY DEF BitIndexInBounds
<1>3. CounterInv'
  BY DEF CounterInv
<1>4. PaceInv'
  BY DEF PaceInv, Paced
<1>5. PhaseInv'
  BY DEF PhaseInv, Measures
<1>6. CallbackInv'
  BY DEF CallbackInv, WaitInv
<1>7. SynchronizationInv'
  BY DEF SynchronizationInv
<1>8. ReceiveInv'
  BY DEF ReceiveInv
<1>9. WaitInv'
  BY DEF WaitInv
<1>10. SessionInv'
  BY DEF SessionInv
<1> QED
  BY <1>1, <1>2, <1>3, <1>4, <1>5,
     <1>6, <1>7, <1>8, <1>9, <1>10

\* The counter may pass the timeout, which the callback then checks.
LEMMA TimerStoreTimeStep ==
  ASSUME IInv, TimerStoreTime
  PROVE  IInv'
<1> USE DEF IInv, TimerStoreTime, cpu, decoded, counted, pace, mode, TimerFrame, Context
<1>1. TypeOK'
  BY TimeAssumption DEF TypeOK, TimerSteps
<1>2. BitIndexInBounds'
  BY DEF BitIndexInBounds
<1>3. CounterInv'
  BY DEF CounterInv
<1>4. PaceInv'
  BY DEF PaceInv, Paced
<1>5. PhaseInv'
  BY DEF PhaseInv, Measures
<1>6. CallbackInv'
  BY DEF CallbackInv
<1>7. SynchronizationInv'
  BY DEF SynchronizationInv, CallbackInv
<1>8. ReceiveInv'
  BY DEF ReceiveInv, CallbackInv
<1>9. WaitInv'
  BY DEF WaitInv
<1>10. SessionInv'
  BY DEF SessionInv
<1> QED
  BY <1>1, <1>2, <1>3, <1>4, <1>5,
     <1>6, <1>7, <1>8, <1>9, <1>10

\* Whether the register or the counter is tested: without a reset, no timeout is left.
LEMMA TimerCheckTimeStep ==
  ASSUME IInv, TimerCheckTime
  PROVE  IInv'
<1> USE DEF IInv, TimerCheckTime, cpu, decoded, counted, pace, mode, TimerFrame, Context, BeginReset
<1>a. gpt \in GptState
  BY DEF TypeOK
<1>b. /\ gpt' \in GptState
      /\ gpt'.cnt = gpt.cnt
      /\ gpt' = gpt \/ (gpt'.mode = "stop" /\ gpt'.uif = FALSE)
  BY <1>a, GptStopFacts
<1>c. tpc' = "idle" => gpt' = gpt
  OBVIOUS
<1>1. TypeOK'
  BY <1>b DEF TypeOK, TimerSteps
<1>2. BitIndexInBounds'
  BY DEF BitIndexInBounds
<1>3. CounterInv'
  BY <1>b DEF CounterInv
<1>4. PaceInv'
  BY DEF PaceInv, Paced
<1>5. PhaseInv'
  BY <1>b, TickFacts DEF PhaseInv, Measures, CounterInv, TypeOK, GptState
<1>6. CallbackInv'
  BY DEF CallbackInv, ResetStores
<1>7. SynchronizationInv'
  BY DEF SynchronizationInv, Owed, ResetStores
<1>8. ReceiveInv'
  BY DEF ReceiveInv, CallbackInv
<1>9. WaitInv'
  BY TimeAssumption DEF WaitInv, WaitingTimeout, CallbackInv
<1>10. SessionInv'
  BY DEF SessionInv
<1> QED
  BY <1>1, <1>2, <1>3, <1>4, <1>5,
     <1>6, <1>7, <1>8, <1>9, <1>10

\* The stores of a reset, in whatever order.
LEMMA TimerResetStoreStep ==
  ASSUME IInv, NEW s \in ResetStores, TimerResetStore(s)
  PROVE  IInv'
<1> USE DEF IInv, TimerResetStore, cpu, decoded, counted, pace, mode, TimerFrame, Context
<1>1. TypeOK'
  BY DEF TypeOK, TimerSteps, States, SyncStates, RepeatStates
<1>2. BitIndexInBounds'
  BY FrameAssumption DEF BitIndexInBounds
<1>3. CounterInv'
  BY DEF CounterInv
<1>4. PaceInv'
  BY DEF PaceInv, Paced, TypeOK, States, WaitInv
<1>5. PhaseInv'
  BY DEF PhaseInv, Measures, TypeOK, States, ReceiveInv, WaitInv
<1>6. CallbackInv'
  BY DEF CallbackInv
<1>7. SynchronizationInv'
  BY DEF SynchronizationInv, Owed
<1>8. ReceiveInv'
  BY DEF ReceiveInv, CallbackInv
<1>9. WaitInv'
  BY DEF WaitInv, CallbackInv
<1>10. SessionInv'
  BY DEF SessionInv
<1> QED
  BY <1>1, <1>2, <1>3, <1>4, <1>5,
     <1>6, <1>7, <1>8, <1>9, <1>10
-----------------------------------------------------------------------------
(* The edge handler. *)

\* What the edge handler leaves alone in every case.
PadFrame ==
  /\ pad' \in BOOLEAN /\ exti_pending' \in BOOLEAN
  /\ UNCHANGED <<lag, cpu, callback>>

\* The heart of the argument: a counter above one of the minima is seen only
\* when no timer callback is in progress, so acceptance never preempts it.
LEMMA AcceptedOutsideCallback ==
  ASSUME IInv, NEW min \in Nat, MaxLag <= min, gpt.cnt > min
  PROVE  tpc = "idle" /\ ~gpt.uif
BY TickFacts DEF IInv, CounterInv, TypeOK, GptState

\* An edge that is ignored.
LEMMA PadIgnoredStep ==
  ASSUME IInv, PadFrame, PadIgnored
  PROVE  IInv'
<1> USE DEF IInv, PadIgnored, cpu, decoded, counted, pace, mode, PadFrame
<1>1. TypeOK'
  BY DEF TypeOK
<1>2. BitIndexInBounds'
  BY DEF BitIndexInBounds
<1>3. CounterInv'
  BY DEF CounterInv
<1>4. PaceInv'
  BY DEF PaceInv, Paced
<1>5. PhaseInv'
  BY DEF PhaseInv, Measures
<1>6. CallbackInv'
  BY DEF CallbackInv
<1>7. SynchronizationInv'
  BY DEF SynchronizationInv, Owed
<1>8. ReceiveInv'
  BY DEF ReceiveInv
<1>9. WaitInv'
  BY DEF WaitInv
<1>10. SessionInv'
  BY DEF SessionInv
<1> QED
  BY <1>1, <1>2, <1>3, <1>4, <1>5,
     <1>6, <1>7, <1>8, <1>9, <1>10

\* A reset by the edge handler, in the synchronization or preempting a timeout.
LEMMA PadResetStep ==
  ASSUME IInv, PadFrame, NEW timer \in GptState, NEW repeat \in {"rise", "fall"},
         timer.mode # "stop" => timer.cnt < timer.interval,
         timer.cnt <= gpt.cnt, ~timer.uif,
         \/ state = "synchronization"
         \/ /\ state = "wait_repeat"
            /\ WaitingTimeout(time_since_last_command_msec),
         PadReset(timer, repeat)
  PROVE  IInv'
<1> USE DEF IInv, PadReset, cpu, decoded, counted, pace, mode, PadFrame
<1>1. TypeOK'
  BY DEF TypeOK, States, SyncStates, RepeatStates
<1>2. BitIndexInBounds'
  BY FrameAssumption DEF BitIndexInBounds
<1>3. CounterInv'
  BY DEF CounterInv, TypeOK, GptState
<1>4. PaceInv'
  BY DEF PaceInv, Paced
<1>5. PhaseInv'
  BY DEF PhaseInv
<1>6. CallbackInv'
  BY TimeAssumption DEF CallbackInv, WaitingTimeout
<1>7. SynchronizationInv'
  BY DEF SynchronizationInv
<1>8. ReceiveInv'
  BY DEF ReceiveInv
<1>9. WaitInv'
  BY DEF WaitInv
<1>10. SessionInv'
  BY DEF SessionInv
<1> QED
  BY <1>1, <1>2, <1>3, <1>4, <1>5,
     <1>6, <1>7, <1>8, <1>9, <1>10

\* The leading pulse begins, timed by a one-shot.
LEMMA SyncRiseStep ==
  ASSUME IInv, PadFrame, state = "synchronization", SyncRise
  PROVE  IInv'
<1> USE DEF IInv, SyncRise, cpu, decoded, counted, pace, mode, PadFrame
<1>b. /\ gpt' \in GptState
      /\ gpt'.mode = "one_shot" /\ gpt'.interval = LeadPulseMax
      /\ gpt'.cnt = 0 /\ gpt'.uif = FALSE
  BY TickFacts, GptStartFacts
<1>1. TypeOK'
  BY <1>b DEF TypeOK, SyncStates
<1>2. BitIndexInBounds'
  BY DEF BitIndexInBounds
<1>3. CounterInv'
  BY <1>b, TickFacts DEF CounterInv, TypeOK
<1>4. PaceInv'
  BY DEF PaceInv, Paced
<1>5. PhaseInv'
  BY <1>b DEF PhaseInv, Measures
<1>6. CallbackInv'
  BY DEF CallbackInv
<1>7. SynchronizationInv'
  BY DEF SynchronizationInv, Owed
<1>8. ReceiveInv'
  BY DEF ReceiveInv
<1>9. WaitInv'
  BY DEF WaitInv
<1>10. SessionInv'
  BY DEF SessionInv
<1> QED
  BY <1>1, <1>2, <1>3, <1>4, <1>5,
     <1>6, <1>7, <1>8, <1>9, <1>10

\* The leading pulse is accepted: it was shorter than its one-shot.
LEMMA SyncPulseAcceptedStep ==
  ASSUME IInv, PadFrame, state = "synchronization", sync_state = "fall",
         gpt.cnt > LeadPulseMin, SyncPulseAccepted
  PROVE  IInv'
<1> USE DEF IInv, SyncPulseAccepted, cpu, decoded, counted, pace, mode, PadFrame
<1>a. tpc = "idle" /\ ~gpt.uif
  BY TickFacts, AcceptedOutsideCallback
<1>b. /\ gpt' \in GptState
      /\ gpt'.mode = "one_shot" /\ gpt'.interval = SyncSpaceMax
      /\ gpt'.cnt = 0 /\ gpt'.uif = FALSE
  BY TickFacts, GptStartFacts
<1>c. gpt.cnt \in Nat /\ gpt.cnt < LeadPulseMax
  BY TickFacts DEF TypeOK, GptState, GptModes, PhaseInv, Measures, CounterInv
<1>d. /\ ticks_per_measurement' \in Nat /\ ticks_measurement_shift' \in Nat
      /\ Paced'
  BY <1>c, PeriodFacts DEF Paced
<1>1. TypeOK'
  BY <1>b, <1>d DEF TypeOK, SyncStates
<1>2. BitIndexInBounds'
  BY DEF BitIndexInBounds
<1>3. CounterInv'
  BY <1>a, <1>b, TickFacts DEF CounterInv
<1>4. PaceInv'
  BY <1>d DEF PaceInv
<1>5. PhaseInv'
  BY <1>b DEF PhaseInv, Measures
<1>6. CallbackInv'
  BY DEF CallbackInv
<1>7. SynchronizationInv'
  BY DEF SynchronizationInv, Owed
<1>8. ReceiveInv'
  BY DEF ReceiveInv
<1>9. WaitInv'
  BY DEF WaitInv
<1>10. SessionInv'
  BY DEF SessionInv
<1> QED
  BY <1>1, <1>2, <1>3, <1>4, <1>5,
     <1>6, <1>7, <1>8, <1>9, <1>10

\* The leading space is accepted: a frame begins on a reset receiver.
LEMMA SyncSpaceAcceptedStep ==
  ASSUME IInv, PadFrame, state = "synchronization", sync_state = "rise_end",
         gpt.cnt > SyncSpaceMin, SyncSpaceAccepted
  PROVE  IInv'
<1> USE DEF IInv, SyncSpaceAccepted, cpu, decoded, counted, pace, mode,
   SynchronizeReceiving, PadFrame
<1>a. tpc = "idle" /\ ~gpt.uif
  BY TickFacts, AcceptedOutsideCallback
<1>c. Paced /\ ticks_measurement_shift \in Nat /\ ticks_per_measurement \in Nat
  BY DEF PaceInv, TypeOK
<1>b. /\ gpt' \in GptState
      /\ gpt'.mode = "one_shot" /\ gpt'.interval = ticks_measurement_shift
      /\ gpt'.cnt = 0 /\ gpt'.uif = FALSE
  BY <1>c, GptStartFacts
<1>1. TypeOK'
  BY <1>b DEF TypeOK, SyncStates, States
<1>2. BitIndexInBounds'
  BY DEF BitIndexInBounds
<1>3. CounterInv'
  BY <1>a, <1>b, <1>c DEF CounterInv, Paced
<1>4. PaceInv'
  BY DEF PaceInv, Paced
<1>5. PhaseInv'
  BY DEF PhaseInv
<1>6. CallbackInv'
  BY <1>a DEF CallbackInv
<1>7. SynchronizationInv'
  BY <1>a DEF SynchronizationInv
<1>8. ReceiveInv'
  BY <1>a, <1>b DEF ReceiveInv, SynchronizationInv, Owed
<1>9. WaitInv'
  BY DEF WaitInv
<1>10. SessionInv'
  BY DEF SessionInv
<1> QED
  BY <1>1, <1>2, <1>3, <1>4, <1>5,
     <1>6, <1>7, <1>8, <1>9, <1>10

\* A rise in a frame restarts the phase of its samples.
LEMMA ResynchronizeStep ==
  ASSUME IInv, PadFrame, state = "receive_command",
         UNCHANGED <<last_call, decoded, pace, counted,
                     time_since_last_command_msec, mode>>, SynchronizeReceiving
  PROVE  IInv'
<1> USE DEF IInv, SynchronizeReceiving, cpu, decoded, counted, pace, mode, PadFrame
<1>c. Paced /\ ticks_measurement_shift \in Nat /\ ticks_per_measurement \in Nat
  BY DEF PaceInv, TypeOK
<1>b. /\ gpt' \in GptState
      /\ gpt'.mode = "one_shot" /\ gpt'.interval = ticks_measurement_shift
      /\ gpt'.cnt = 0 /\ gpt'.uif = FALSE
  BY <1>c, GptStartFacts
<1>1. TypeOK'
  BY <1>b DEF TypeOK
<1>2. BitIndexInBounds'
  BY DEF BitIndexInBounds
<1>3. CounterInv'
  BY <1>b, <1>c DEF CounterInv, TypeOK, Paced
<1>4. PaceInv'
  BY DEF PaceInv, Paced
<1>5. PhaseInv'
  BY DEF PhaseInv
<1>6. CallbackInv'
  BY DEF CallbackInv
<1>7. SynchronizationInv'
  BY DEF SynchronizationInv, Owed
<1>8. ReceiveInv'
  BY <1>b DEF ReceiveInv
<1>9. WaitInv'
  BY DEF WaitInv
<1>10. SessionInv'
  BY DEF SessionInv
<1> QED
  BY <1>1, <1>2, <1>3, <1>4, <1>5,
     <1>6, <1>7, <1>8, <1>9, <1>10

\* The pulse of a repeat begins.
LEMMA RepeatRiseStep ==
  ASSUME IInv, PadFrame, state = "wait_repeat",
         ~WaitingTimeout(time_since_last_command_msec), repeat_state = "rise", RepeatRise
  PROVE  IInv'
<1> USE DEF IInv, RepeatRise, cpu, decoded, counted, pace, mode, PadFrame
<1>b. /\ gpt' \in GptState
      /\ gpt'.mode = "one_shot" /\ gpt'.interval = LeadPulseMax
      /\ gpt'.cnt = 0 /\ gpt'.uif = FALSE
  BY TickFacts, GptStartFacts
<1>1. TypeOK'
  BY <1>b DEF TypeOK, RepeatStates
<1>2. BitIndexInBounds'
  BY DEF BitIndexInBounds
<1>3. CounterInv'
  BY <1>b, TickFacts DEF CounterInv, TypeOK
<1>4. PaceInv'
  BY DEF PaceInv, Paced
<1>5. PhaseInv'
  BY DEF PhaseInv
<1>6. CallbackInv'
  BY DEF CallbackInv
<1>7. SynchronizationInv'
  BY DEF SynchronizationInv, Owed
<1>8. ReceiveInv'
  BY DEF ReceiveInv
<1>9. WaitInv'
  BY DEF WaitInv
<1>10. SessionInv'
  BY DEF SessionInv
<1> QED
  BY <1>1, <1>2, <1>3, <1>4, <1>5,
     <1>6, <1>7, <1>8, <1>9, <1>10

\* A fault keeps the 10 ms timer running.
LEMMA RepeatFaultStep ==
  ASSUME IInv, PadFrame, state = "wait_repeat",
         ~WaitingTimeout(time_since_last_command_msec), RepeatFault
  PROVE  IInv'
<1> USE DEF IInv, RepeatFault, cpu, decoded, counted, pace, mode, PadFrame
<1>b. /\ gpt' \in GptState
      /\ gpt'.mode = "continuous" /\ gpt'.interval = Timer10Msec
      /\ gpt'.cnt = 0 /\ gpt'.uif = FALSE
  BY TickFacts, GptStartFacts
<1>1. TypeOK'
  BY <1>b DEF TypeOK, RepeatStates
<1>2. BitIndexInBounds'
  BY DEF BitIndexInBounds
<1>3. CounterInv'
  BY <1>b, TickFacts DEF CounterInv, TypeOK
<1>4. PaceInv'
  BY DEF PaceInv, Paced
<1>5. PhaseInv'
  BY DEF PhaseInv
<1>6. CallbackInv'
  BY DEF CallbackInv
<1>7. SynchronizationInv'
  BY DEF SynchronizationInv, Owed
<1>8. ReceiveInv'
  BY DEF ReceiveInv
<1>9. WaitInv'
  BY <1>b DEF WaitInv
<1>10. SessionInv'
  BY DEF SessionInv
<1> QED
  BY <1>1, <1>2, <1>3, <1>4, <1>5,
     <1>6, <1>7, <1>8, <1>9, <1>10

\* The pulse of a repeat is accepted.
LEMMA RepeatPulseAcceptedStep ==
  ASSUME IInv, PadFrame, state = "wait_repeat",
         ~WaitingTimeout(time_since_last_command_msec), 
         repeat_state = "fall", gpt.cnt > LeadPulseMin, RepeatPulseAccepted
  PROVE  IInv'
<1> USE DEF IInv, RepeatPulseAccepted, cpu, decoded, counted, pace, mode, PadFrame
<1>a. tpc = "idle" /\ ~gpt.uif
  BY TickFacts, AcceptedOutsideCallback
<1>b. /\ gpt' \in GptState
      /\ gpt'.mode = "one_shot" /\ gpt'.interval = RepeatSpaceMax
      /\ gpt'.cnt = 0 /\ gpt'.uif = FALSE
  BY TickFacts, GptStartFacts
<1>1. TypeOK'
  BY <1>b DEF TypeOK, RepeatStates
<1>2. BitIndexInBounds'
  BY DEF BitIndexInBounds
<1>3. CounterInv'
  BY <1>a, <1>b, TickFacts DEF CounterInv
<1>4. PaceInv'
  BY DEF PaceInv, Paced
<1>5. PhaseInv'
  BY <1>b DEF PhaseInv, Measures
<1>6. CallbackInv'
  BY <1>a DEF CallbackInv
<1>7. SynchronizationInv'
  BY <1>a DEF SynchronizationInv
<1>8. ReceiveInv'
  BY DEF ReceiveInv
<1>9. WaitInv'
  BY DEF WaitInv
<1>10. SessionInv'
  BY DEF SessionInv
<1> QED
  BY <1>1, <1>2, <1>3, <1>4, <1>5,
     <1>6, <1>7, <1>8, <1>9, <1>10

\* The space of a repeat is accepted: the session's command is reported.
LEMMA RepeatSpaceAcceptedStep ==
  ASSUME IInv, PadFrame, state = "wait_repeat",
         ~WaitingTimeout(time_since_last_command_msec), 
         repeat_state = "rise_end", gpt.cnt > RepeatSpaceMin, RepeatSpaceAccepted
  PROVE  IInv'
<1> USE DEF IInv, RepeatSpaceAccepted, cpu, decoded, counted, pace, mode, Calls, PadFrame
<1>a. tpc = "idle" /\ ~gpt.uif
  BY TickFacts, AcceptedOutsideCallback
<1>b. /\ gpt' \in GptState
      /\ gpt'.mode = "continuous" /\ gpt'.interval = Timer10Msec
      /\ gpt'.cnt = 0 /\ gpt'.uif = FALSE
  BY TickFacts, GptStartFacts
<1>c. last_call' \in Call
  BY DEF TypeOK, Call
<1>1. TypeOK'
  BY <1>b, <1>c DEF TypeOK, RepeatStates
<1>2. BitIndexInBounds'
  BY DEF BitIndexInBounds
<1>3. CounterInv'
  BY <1>a, <1>b, TickFacts DEF CounterInv
<1>4. PaceInv'
  BY DEF PaceInv, Paced
<1>5. PhaseInv'
  BY DEF PhaseInv
<1>6. CallbackInv'
  BY <1>a DEF CallbackInv
<1>7. SynchronizationInv'
  BY <1>a DEF SynchronizationInv
<1>8. ReceiveInv'
  BY DEF ReceiveInv
<1>9. WaitInv'
  BY TimeAssumption DEF WaitInv, WaitingTimeout
<1>10. SessionInv'
  BY DEF SessionInv
<1> QED
  BY <1>1, <1>2, <1>3, <1>4, <1>5,
     <1>6, <1>7, <1>8, <1>9, <1>10

\* The edge handler, branch by branch.
LEMMA PadInterruptStep ==
  ASSUME IInv, PadInterrupt
  PROVE  IInv'
<1>1. PICK level \in BOOLEAN, again \in BOOLEAN :
        /\ pad' = level
        /\ exti_pending' = again
        /\ \/ state = "synchronization" /\ Synchronization(level)
           \/ state = "receive_command" /\ Resynchronize(level)
           \/ state = "wait_repeat" /\ Receiving(level)
  BY DEF PadInterrupt
<1>2. PadFrame
  BY <1>1 DEF PadInterrupt, PadFrame, cpu
<1>3. gpt \in GptState /\ gpt.cnt \in Nat
  BY DEF IInv, TypeOK, GptState
<1>4. /\ GptStop(gpt) \in GptState /\ GptStop(gpt).mode = "stop"
      /\ GptStop(gpt).cnt <= gpt.cnt /\ ~GptStop(gpt).uif
  <2>1. /\ GptStop(gpt) \in GptState /\ GptStop(gpt).mode = "stop"
        /\ GptStop(gpt).cnt = gpt.cnt /\ GptStop(gpt).uif = FALSE
    BY <1>3, GptStopFacts
  <2>2. QED
    BY <1>3, <2>1
<1>5. CASE state = "synchronization"
  <2>1. CASE PadReset(GptStop(gpt), "rise")
    BY <1>2, <1>4, <1>5, <2>1, PadResetStep
  <2>2. CASE SyncRise
    BY <1>2, <1>5, <2>2, SyncRiseStep
  <2>3. CASE sync_state = "fall" /\ gpt.cnt > LeadPulseMin /\ SyncPulseAccepted
    BY <1>2, <1>5, <2>3, SyncPulseAcceptedStep
  <2>4. CASE sync_state = "rise_end" /\ gpt.cnt > SyncSpaceMin /\ SyncSpaceAccepted
    BY <1>2, <1>5, <2>4, SyncSpaceAcceptedStep
  <2>5. CASE PadIgnored
    BY <1>2, <2>5, PadIgnoredStep
  <2>6. Synchronization(level)
    BY <1>1, <1>5
  <2>7. QED
    BY <2>1, <2>2, <2>3, <2>4, <2>5, <2>6 DEF Synchronization, SyncPulseEnd, SyncSpaceEnd
<1>6. CASE state = "receive_command"
  <2>1. Resynchronize(level)
    BY <1>1, <1>6
  <2>2. QED
    BY <1>2, <1>6, <2>1, ResynchronizeStep, PadIgnoredStep DEF Resynchronize
<1>7. CASE state = "wait_repeat" /\ WaitingTimeout(time_since_last_command_msec)
  <2>1. PadReset(GptOneShot(LeadPulseMax), "fall") \/ PadReset(GptStop(gpt), "rise")
    BY <1>1, <1>7 DEF Receiving
  <2>2. /\ GptOneShot(LeadPulseMax) \in GptState
        /\ GptOneShot(LeadPulseMax).cnt < GptOneShot(LeadPulseMax).interval
        /\ GptOneShot(LeadPulseMax).cnt <= gpt.cnt
        /\ ~GptOneShot(LeadPulseMax).uif
    <3>1. /\ GptOneShot(LeadPulseMax) \in GptState
          /\ GptOneShot(LeadPulseMax).interval = LeadPulseMax
          /\ GptOneShot(LeadPulseMax).cnt = 0
          /\ GptOneShot(LeadPulseMax).uif = FALSE
      BY TickFacts, GptStartFacts
    <3>2. QED
      BY <1>3, <3>1, TickFacts
  <2>3. CASE PadReset(GptOneShot(LeadPulseMax), "fall")
    BY <1>2, <1>7, <2>2, <2>3, PadResetStep
  <2>4. CASE PadReset(GptStop(gpt), "rise")
    BY <1>2, <1>4, <1>7, <2>4, PadResetStep
  <2>5. QED
    BY <2>1, <2>3, <2>4
<1>8. CASE state = "wait_repeat" /\ ~WaitingTimeout(time_since_last_command_msec)
  <2>1. CASE repeat_state = "rise" /\ RepeatRise
    BY <1>2, <1>8, <2>1, RepeatRiseStep
  <2>2. CASE RepeatFault
    BY <1>2, <1>8, <2>2, RepeatFaultStep
  <2>3. CASE repeat_state = "fall" /\ gpt.cnt > LeadPulseMin /\ RepeatPulseAccepted
    BY <1>2, <1>8, <2>3, RepeatPulseAcceptedStep
  <2>4. CASE repeat_state = "rise_end" /\ gpt.cnt > RepeatSpaceMin /\ RepeatSpaceAccepted
    BY <1>2, <1>8, <2>4, RepeatSpaceAcceptedStep
  <2>5. CASE PadIgnored
    BY <1>2, <2>5, PadIgnoredStep
  <2>6. Receiving(level)
    BY <1>1, <1>8
  <2>7. QED
    BY <1>8, <2>1, <2>2, <2>3, <2>4, <2>5, <2>6 DEF Receiving, RepeatPulseEnd, RepeatSpaceEnd
<1>9. QED
  BY <1>1, <1>5, <1>6, <1>7, <1>8

-----------------------------------------------------------------------------
(* The theorems. *)

\* A zeroed context satisfies the invariant.
LEMMA InitInv == Init => IInv
<1> SUFFICES ASSUME Init PROVE IInv
  OBVIOUS
<1> USE DEF Init
<1>1. gpt \in GptState /\ gpt.mode = "stop" /\ gpt.uif = FALSE /\ gpt.cnt = 0
  BY DEF GptInit, GptState, GptModes
<1>2. TypeOK
  <2>1. last_call \in Call
    BY DEF Call
  <2>2. lag \in 0..MaxLag /\ todo \in SUBSET ResetStores
    BY TickFacts
  <2>3. QED
    BY <1>1, <2>1, <2>2 DEF TypeOK, TimerSteps, States, SyncStates, RepeatStates
<1>3. BitIndexInBounds
  BY FrameAssumption DEF BitIndexInBounds
<1>4. CounterInv /\ PaceInv /\ PhaseInv
  BY <1>1 DEF CounterInv, PaceInv, PhaseInv
<1>5. CallbackInv /\ SynchronizationInv /\ ReceiveInv /\ WaitInv /\ SessionInv
  BY <1>1 DEF CallbackInv, SynchronizationInv, ReceiveInv, WaitInv, SessionInv
<1>6. QED
  BY <1>2, <1>3, <1>4, <1>5 DEF IInv

\* A step of the timer's service routine or callback.
LEMMA TimerInterruptStep ==
  ASSUME IInv, TimerInterrupt
  PROVE  IInv'
BY TimerAcknowledgeStep, TimerEnterStep, TimerRearmStep, TimerRestartStep,
   TimerIgnoredStep, TimerNoCommandStep, TimerWaitRepeatStep, TimerWaitStartStep,
   TimerWaitTimeStep, TimerSampleStep, TimerLoadTimeStep, TimerStoreTimeStep,
   TimerCheckTimeStep, TimerResetStoreStep DEF TimerInterrupt

\* A stuttering step.
LEMMA StutteringStep ==
  ASSUME IInv, UNCHANGED vars
  PROVE  IInv'
<1>1. PadFrame /\ PadIgnored
  BY DEF vars, PadFrame, PadIgnored, IInv, TypeOK
<1>2. QED
  BY <1>1, PadIgnoredStep

\* Every step of the system preserves the invariant.
LEMMA NextInv == IInv /\ [Next]_vars => IInv'
BY ToggleStep, TickStep, SetCallbackStep, PadInterruptStep, TimerInterruptStep,
   StutteringStep DEF Next

\* The inductive invariant holds of every execution.
THEOREM Invariance == Spec => []IInv
<1>1. QED
  BY InitInv, NextInv, PTL DEF Spec

\* Every variable of the receiver keeps its type; the state machines of ir.c
\* have no state but the declared ones.
THEOREM TypeCorrect == Spec => []TypeOK
<1>1. IInv => TypeOK
  BY DEF IInv
<1>2. QED
  BY <1>1, Invariance, PTL

\* The index into received_bits (ir.c:83-102, 431) stays within the frame.
THEOREM BitIndexSafe == Spec => []BitIndexInBounds
<1>1. IInv => BitIndexInBounds
  BY DEF IInv
<1>2. QED
  BY <1>1, Invariance, PTL

\* A frame starts from a reset receiver with a usable sampling period, although
\* the reset of the one before may be preempted between any two stores.
THEOREM FrameStartsCleanSafe == Spec => []FrameStartsClean
<1>1. ASSUME IInv PROVE FrameStartsClean
  <2> SUFFICES ASSUME state = "receive_command", bits_received < NumberOfBits
               PROVE  /\ ~command_received /\ last_command = NoCommand
                      /\ time_since_last_command_msec = 0
                      /\ ticks_measurement_shift > 0
                      /\ ticks_per_measurement > ticks_measurement_shift
    BY DEF FrameStartsClean
  <2>1. ~command_received /\ time_since_last_command_msec = 0
    BY <1>1 DEF IInv, ReceiveInv
  <2>2. last_command = NoCommand
    BY <1>1, <2>1 DEF IInv, SessionInv
  <2>3. Paced
    BY <1>1 DEF IInv, PaceInv
  <2>4. QED
    BY <2>1, <2>2, <2>3 DEF Paced
<1>2. QED
  BY <1>1, Invariance, PTL

\* The sampling of a frame never loses its timer (ir.c:399-404, 462-466).
THEOREM ReceiveNeverStallsSafe == Spec => []ReceiveNeverStalls
<1>1. ASSUME IInv PROVE ReceiveNeverStalls
  <2> SUFFICES ASSUME state = "receive_command", tpc = "idle"
               PROVE  /\ GptWillFire(gpt) \/ gpt.uif
                      /\ gpt.mode # "continuous" => rearm_timer
                      /\ rearm_timer \/ gpt.interval = ticks_per_measurement
    BY DEF ReceiveNeverStalls
  <2>1. gpt.mode # "stop" /\ gpt.cnt < gpt.interval
    BY <1>1 DEF IInv, ReceiveInv, CounterInv
  <2>2. rearm_timer \/ (gpt.mode = "continuous" /\ gpt.interval = ticks_per_measurement)
    BY <1>1 DEF IInv, ReceiveInv
  <2>3. gpt.cnt \in Nat /\ gpt.interval \in Nat
    BY <1>1 DEF IInv, TypeOK, GptState
  <2>4. QED
    BY <2>1, <2>2, <2>3 DEF GptWillFire
<1>2. QED
  BY <1>1, Invariance, PTL

\* After a faulty repeat a continuous timer runs, whatever its period, so there
\* is a timeout to wait for (ir.c:377-381).
THEOREM FaultKeepsTickingSafe == Spec => []FaultKeepsTicking
<1>1. ASSUME IInv PROVE FaultKeepsTicking
  BY <1>1 DEF IInv, WaitInv, FaultKeepsTicking
<1>2. QED
  BY <1>1, Invariance, PTL

\* The leading pulse of a frame, the leading space of a frame and the space of a
\* repeat, when accepted, were measured by the one-shot of their own phase: the
\* argument of PhaseInv and CounterInv.  The leading pulse of a repeat
\* (ir.c:338-339) is not among them.
THEOREM MeasuredByOneShotSafe == Spec => []MeasuredByOneShot
<1>1. ASSUME IInv PROVE MeasuredByOneShot
  <2>1. /\ gpt.cnt \in Nat /\ gpt.interval \in Nat
        /\ gpt.mode \in {"stop", "one_shot", "continuous"}
        /\ gpt.mode # "stop" => gpt.cnt < gpt.interval
    BY <1>1 DEF IInv, TypeOK, GptState, GptModes, CounterInv
  <2>2. ASSUME NEW max \in Nat, NEW min \in Nat, MaxLag <= min,
               Measures(max, min), gpt.cnt > min
        PROVE  gpt.mode = "one_shot" /\ gpt.interval = max /\ ~gpt.uif
    <3>1. ~gpt.uif
      BY <1>1, <2>2, AcceptedOutsideCallback
    <3>2. QED
      BY <2>1, <2>2, <3>1, TickFacts DEF Measures
  <2>3. QED
    BY <1>1, <2>2, TickFacts DEF MeasuredByOneShot, IInv, PhaseInv
<1>2. QED
  BY <1>1, Invariance, PTL

\* The edge handler meets an expired wait only by preempting the callback that
\* is about to reset the receiver (ir.c:314-317).
THEOREM TimeoutSeenOnlyInCallbackSafe == Spec => []TimeoutSeenOnlyInCallback
<1>1. ASSUME IInv PROVE TimeoutSeenOnlyInCallback
  BY <1>1 DEF IInv, WaitInv, TimeoutSeenOnlyInCallback
<1>2. QED
  BY <1>1, Invariance, PTL

-----------------------------------------------------------------------------
(* The receiver implements the abstract channel. *)

\* A step that leaves the last call alone and at most forgets the command is a
\* Close or a stutter of the channel.
LEMMA ForgettingStep ==
  ASSUME UNCHANGED last_call, last_command' \in {last_command, NoCommand}
  PROVE  [Channel!Next]_(Channel!vars)
BY DEF Channel!Next, Channel!Close, Channel!vars

\* The last sample of a frame delivers a command to a closed channel only.
LEMMA DecodeDelivers ==
  ASSUME IInv, TimerSample
  PROVE  [Channel!Next]_(Channel!vars)
<1>1. CASE UNCHANGED <<decoded, last_call>>
  BY <1>1, ForgettingStep DEF decoded
<1>2. CASE bits_received = NumberOfBits - 1 /\ ~UNCHANGED <<decoded, last_call>>
  <2>1. PICK c \in Commands : last_command' = c /\ Calls(c, FALSE)
    BY <1>2 DEF TimerSample, DecodeCommand
  <2>2. bits_received < NumberOfBits
    BY <1>2, FrameAssumption
  <2>3. last_command = NoCommand
    BY <2>2 DEF IInv, ReceiveInv, SessionInv, TimerSample
  <2>4. Channel!Deliver(c)
    BY <2>1, <2>3 DEF Calls, Channel!Deliver, Channel!Calls
  <2>5. QED
    BY <2>1, <2>4 DEF Channel!Next
<1>3. QED
  BY <1>1, <1>2 DEF TimerSample

\* A repeat is reported to an open channel only.
LEMMA RepeatRepeats ==
  ASSUME IInv, state = "wait_repeat", gpt.cnt > RepeatSpaceMin, RepeatSpaceAccepted
  PROVE  [Channel!Next]_(Channel!vars)
<1>1. tpc = "idle"
  BY TickFacts, AcceptedOutsideCallback
<1>2. last_command # NoCommand
  BY <1>1 DEF IInv, WaitInv, SessionInv
<1>3. Channel!Repeat
  BY <1>2 DEF RepeatSpaceAccepted, decoded, Calls, Channel!Repeat, Channel!Calls
<1>4. QED
  BY <1>3 DEF Channel!Next

\* Every branch of the edge handler.
LEMMA PadInterruptChannel ==
  ASSUME IInv, PadInterrupt
  PROVE  [Channel!Next]_(Channel!vars)
<1>1. PICK level \in BOOLEAN :
        \/ state = "synchronization" /\ Synchronization(level)
        \/ state = "receive_command" /\ Resynchronize(level)
        \/ state = "wait_repeat" /\ Receiving(level)
  BY DEF PadInterrupt
<1>2. ASSUME NEW timer, NEW repeat, PadReset(timer, repeat)
      PROVE  [Channel!Next]_(Channel!vars)
  BY <1>2, ForgettingStep DEF PadReset
<1>3. CASE UNCHANGED <<last_call, decoded>>
  BY <1>3, ForgettingStep DEF decoded
<1>4. CASE state = "synchronization" /\ Synchronization(level)
  <2>1. UNCHANGED <<last_call, decoded>> \/ PadReset(GptStop(gpt), "rise")
    BY <1>4 DEF Synchronization, SyncRise, SyncPulseEnd, SyncPulseAccepted,
                SyncSpaceEnd, SyncSpaceAccepted, PadIgnored
  <2>2. QED
    BY <1>2, <1>3, <2>1
<1>5. CASE state = "receive_command" /\ Resynchronize(level)
  BY <1>3, <1>5 DEF Resynchronize, PadIgnored
<1>6. CASE state = "wait_repeat" /\ Receiving(level)
  <2>1. \/ UNCHANGED <<last_call, decoded>>
        \/ PadReset(GptOneShot(LeadPulseMax), "fall")
        \/ PadReset(GptStop(gpt), "rise")
        \/ gpt.cnt > RepeatSpaceMin /\ RepeatSpaceAccepted
    BY <1>6 DEF Receiving, RepeatRise, RepeatPulseEnd, RepeatPulseAccepted,
                RepeatFault, RepeatSpaceEnd, PadIgnored
  <2>2. QED
    BY <1>2, <1>3, <1>6, <2>1, RepeatRepeats
<1>7. QED
  BY <1>1, <1>4, <1>5, <1>6

\* Every step of the timer's service routine and callback.
LEMMA TimerInterruptChannel ==
  ASSUME IInv, TimerInterrupt
  PROVE  [Channel!Next]_(Channel!vars)
<1>1. CASE TimerSample
  BY <1>1, DecodeDelivers
<1>2. CASE \E s \in ResetStores : TimerResetStore(s)
  BY <1>2, ForgettingStep DEF TimerResetStore
<1>3. CASE UNCHANGED <<last_call, decoded>>
  BY <1>3, ForgettingStep DEF decoded
<1>4. CASE TimerAcknowledge \/ TimerEnter \/ TimerRearm \/ TimerRestart
  BY <1>3, <1>4 DEF TimerAcknowledge, TimerEnter, TimerRearm, TimerRestart, Context
<1>5. CASE TimerIgnored \/ TimerNoCommand \/ TimerWaitRepeat \/ TimerWaitStart
  BY <1>3, <1>5 DEF TimerIgnored, TimerNoCommand, TimerWaitRepeat, TimerWaitStart, Context
<1>6. CASE TimerWaitTime \/ TimerLoadTime \/ TimerStoreTime \/ TimerCheckTime
  BY <1>3, <1>6 DEF TimerWaitTime, TimerLoadTime, TimerStoreTime, TimerCheckTime, Context
<1>7. QED
  BY <1>1, <1>2, <1>4, <1>5, <1>6 DEF TimerInterrupt

\* The owner of the callback sees one report of a decoded command, then repeats
\* of that very command, until the session closes: a repeat of a command that
\* the interleaved reset has already forgotten is impossible.
THEOREM ImplementsChannel == Spec => ChannelSpec
<1>1. Init => Channel!Init
  BY DEF Init, Channel!Init
<1>2. IInv /\ [Next]_vars => [Channel!Next]_(Channel!vars)
  <2> SUFFICES ASSUME IInv, [Next]_vars PROVE [Channel!Next]_(Channel!vars)
    OBVIOUS
  <2>1. CASE Toggle \/ Tick \/ SetCallback \/ UNCHANGED vars
    <3>1. UNCHANGED <<last_call, decoded>>
      BY <2>1 DEF Toggle, Tick, SetCallback, vars
    <3>2. QED
      BY <3>1, ForgettingStep DEF decoded
  <2>2. QED
    BY <2>1, PadInterruptChannel, TimerInterruptChannel DEF Next
<1>3. QED
  BY <1>1, <1>2, Invariance, PTL DEF Spec, ChannelSpec, Channel!Spec
=============================================================================
