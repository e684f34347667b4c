----------------------------- MODULE IrReceiver -----------------------------
(***************************************************************************)
(* The infrared receiver of main/src/ir.c: the handler of edges on the     *)
(* receiver pad, and the callback of the timer that measures pulses and    *)
(* paces the sampling of a frame.                                          *)
(*                                                                         *)
(* The pad interrupt has the higher priority (mcuconf.h: EXTI0 6, TIM1 7), *)
(* so the edge handler preempts the timer callback between any two of its  *)
(* steps and is itself one atomic step.  The timer callback is a sequence  *)
(* of steps, cut at every access it shares with the edge handler.  Calls   *)
(* into the timer driver keep their place (an assumption on the compiler); *)
(* plain stores between two of them are executed in any order.             *)
(*                                                                         *)
(* The 96 measured bits are abstracted to what their decoding delivers: a  *)
(* command or nothing (IrDecoder.tla has the decoding itself).             *)
(***************************************************************************)
EXTENDS GptTimer

CONSTANTS
  Commands,           \* what a decoded frame can deliver (address and command)
  NoCommand,          \* the zeroed last_address and last_command
  NumberOfBits,       \* IR_NUMBER_OF_BITS_PER_COMMAND
  MeasuresPerBit,     \* IR_MEASURES_PER_BIT
  MeasuresPerPulse,   \* samples in the leading pulse: the 16 * 3 of ir.c:278
  RepeatTimeout,      \* IR_REPEAT_TIMEOUT, in the unit of the time counter
  StartTime,          \* time counted for the command itself: the 50 of ir.c:466
  TimeStep,           \* added by every tick of the 10 ms timer: the 10 of ir.c:473
  Timer10Msec,        \* IR_TIMER_10_MSEC
  LeadPulseMin,       \* IR_SYNC_LEADING_PULSE_MIN_TICKS, IR_REPEAT_...
  LeadPulseMax,       \* IR_SYNC_LEADING_PULSE_MAX_TICKS, IR_REPEAT_...
  SyncSpaceMin,       \* IR_SYNC_SPACE_LEADING_SPACE_MIN_TICKS
  SyncSpaceMax,       \* IR_SYNC_SPACE_LEADING_SPACE_MAX_TICKS
  RepeatPauseMin,     \* IR_REPEAT_PAUSE_MIN_TIME
  RepeatSpaceMin,     \* IR_REPEAT_SPACE_LEADING_SPACE_MIN_TICKS
  RepeatSpaceMax,     \* IR_REPEAT_SPACE_LEADING_SPACE_MAX_TICKS
  MaxLag              \* timer ticks that may pass while interrupts are served

\* The timer ticks between two samples, for a leading pulse of p ticks.
TicksPerMeasurement(p) == p \div MeasuresPerPulse

\* The pair of address 0 and command 0, which is also what is zeroed, is not
\* among the commands delivered: a session of it could not be told from none.
ASSUME CommandAssumption == NoCommand \notin Commands

ASSUME FrameAssumption == /\ NumberOfBits \in Nat \ {0}
                          /\ MeasuresPerBit \in Nat \ {0}
                          /\ MeasuresPerPulse \in Nat \ {0}

ASSUME TimeAssumption == /\ RepeatTimeout \in Nat
                         /\ StartTime \in 0..RepeatTimeout
                         /\ TimeStep \in Nat \ {0}
                         /\ RepeatPauseMin \in 0..RepeatTimeout

\* The windows are not empty, every one of them can tell a late handler from
\* a measured pulse, and the sampling of an accepted pulse has a period that
\* can be halved.
ASSUME TickAssumption ==
  /\ MaxLag \in Nat
  /\ LeadPulseMin \in Nat /\ LeadPulseMax \in Nat /\ LeadPulseMin < LeadPulseMax
  /\ SyncSpaceMin \in Nat /\ SyncSpaceMax \in Nat /\ SyncSpaceMin < SyncSpaceMax
  /\ RepeatSpaceMin \in Nat /\ RepeatSpaceMax \in Nat
  /\ RepeatSpaceMin < RepeatSpaceMax
  /\ Timer10Msec \in Nat \ {0}
  /\ MaxLag <= LeadPulseMin /\ MaxLag <= SyncSpaceMin /\ MaxLag <= RepeatSpaceMin
  /\ \A p \in (LeadPulseMin + 1)..(LeadPulseMax - 1) :
       /\ TicksPerMeasurement(p) >= 2
       /\ TicksPerMeasurement(p) <= LeadPulseMin
       /\ TicksPerMeasurement(p) <= SyncSpaceMin
       /\ TicksPerMeasurement(p) <= RepeatSpaceMin

VARIABLES
  pad,              \* the demodulated signal: TRUE during a pulse (ir_pad_value)
  exti_pending,     \* an edge waits for its interrupt
  gpt,              \* the timer
  lag,              \* ticks since the interrupts being served were raised
  tpc,              \* the timer callback's next step, "idle" outside of it
  todo,             \* stores of ir_reset_state the timer callback still owes
  treg,             \* time_since_last_command_msec as the callback holds it
  callback,         \* decoder.callback is set
  last_call,        \* history: the last invocation of the callback
  command_received,
  last_command,     \* last_address and last_command
  ticks_per_measurement,
  ticks_measurement_shift,
  rearm_timer,
  bits_received,
  bit_measure_num,
  time_since_last_command_msec,
  sync_state,
  repeat_state,
  state

cpu     == <<tpc, todo, treg>>
decoded == <<command_received, last_command>>
counted == <<bits_received, bit_measure_num>>
pace    == <<ticks_per_measurement, ticks_measurement_shift>>
mode    == <<state, sync_state, repeat_state>>

vars == <<pad, exti_pending, gpt, lag, cpu, callback, last_call, decoded, pace,
          rearm_timer, counted, time_since_last_command_msec, mode>>

TimerSteps   == {"idle", "acknowledged", "rearm", "restart", "dispatch",
                 "wait_timer", "wait_time", "store_time", "check_time", "reset"}
\* Mutant: the reset forgets the command.
ResetStores_KeepCommand == {"bits", "time", "state", "sync_state", "repeat_state"}

ResetStores  == {"command", "bits", "time", "state", "sync_state", "repeat_state"}
States       == {"synchronization", "receive_command", "wait_repeat"}
SyncStates   == {"rise", "fall", "rise_end", "done"}
RepeatStates == {"rise", "fall", "rise_end", "fault"}
Call         == [command : Commands \cup {NoCommand}, repeat : BOOLEAN, odd : BOOLEAN]

TypeOK ==
  /\ pad \in BOOLEAN
  /\ exti_pending \in BOOLEAN
  /\ gpt \in GptState
  /\ lag \in 0..MaxLag
  /\ tpc \in TimerSteps
  /\ todo \in SUBSET ResetStores
  /\ treg \in Nat
  /\ callback \in BOOLEAN
  /\ last_call \in Call
  /\ command_received \in BOOLEAN
  /\ last_command \in Commands \cup {NoCommand}
  /\ ticks_per_measurement \in Nat
  /\ ticks_measurement_shift \in Nat
  /\ rearm_timer \in BOOLEAN
  /\ bits_received \in Nat
  /\ bit_measure_num \in Nat
  /\ time_since_last_command_msec \in Nat
  /\ sync_state \in SyncStates
  /\ repeat_state \in RepeatStates
  /\ state \in States

\* The state ir_initialize leaves: a zeroed context, a started driver and an
\* enabled pad event.
Init ==
  /\ pad \in BOOLEAN
  /\ exti_pending = FALSE
  /\ gpt = GptInit
  /\ lag = 0
  /\ tpc = "idle" /\ todo = {} /\ treg = 0
  /\ callback = FALSE
  /\ last_call = [command |-> NoCommand, repeat |-> FALSE, odd |-> FALSE]
  /\ command_received = FALSE /\ last_command = NoCommand
  /\ ticks_per_measurement = 0 /\ ticks_measurement_shift = 0
  /\ rearm_timer = FALSE
  /\ bits_received = 0 /\ bit_measure_num = 0
  /\ time_since_last_command_msec = 0
  /\ sync_state = "rise" /\ repeat_state = "rise" /\ state = "synchronization"

-----------------------------------------------------------------------------
(* The world around the handlers. *)

\* Some interrupt is raised or being served.
Busy == exti_pending \/ gpt.uif \/ tpc # "idle"

\* The signal changes: the edge raises the pad interrupt.
Toggle ==
  /\ pad' = ~pad
  /\ exti_pending' = TRUE
  /\ lag' = IF Busy THEN lag ELSE 0
  /\ UNCHANGED <<gpt, cpu, callback, last_call, decoded, pace, rearm_timer,
                 counted, time_since_last_command_msec, mode>>

\* One tick of the timer clock.  Interrupts are served within MaxLag ticks.
Tick ==
  /\ Busy => lag < MaxLag
  /\ lag' = IF Busy THEN lag + 1 ELSE 0
  /\ gpt' = GptTick(gpt)
  /\ UNCHANGED <<pad, exti_pending, cpu, callback, last_call, decoded, pace,
                 rearm_timer, counted, time_since_last_command_msec, mode>>

\* ir_set_callback, called by main while the interrupts already run.
SetCallback ==
  /\ callback' = TRUE
  /\ UNCHANGED <<pad, exti_pending, gpt, lag, cpu, last_call, decoded, pace,
                 rearm_timer, counted, time_since_last_command_msec, mode>>

\* decoder.callback(context, address, command, repeat)
Calls(c, repeat) ==
  last_call' = [command |-> c, repeat |-> repeat, odd |-> ~last_call.odd]

-----------------------------------------------------------------------------
(* The edge handler: ir_pad_interrupt.  Its operators leave the variables  *)
(* listed in PadInterrupt alone and say what happens to all the others.    *)

\* ir_reset_state in the edge handler, where nothing can interrupt it; timer
\* and repeat state are parameters because ir_receiving goes on after it.
PadReset(timer, repeat) ==
  /\ gpt' = timer
  /\ command_received' = FALSE
  /\ last_command' = NoCommand
  /\ bit_measure_num' = 0
  /\ bits_received' = 0
  /\ time_since_last_command_msec' = 0
  /\ state' = "synchronization"
  /\ sync_state' = "rise"
  /\ repeat_state' = repeat
  /\ UNCHANGED <<pace, rearm_timer, last_call>>

\* No store at all.
PadIgnored == UNCHANGED <<gpt, last_call, decoded, pace, rearm_timer, counted,
                          time_since_last_command_msec, mode>>

\* Mutant: the flag that asks for the sampling period is forgotten.
SynchronizeReceiving_NoRearm == /\ gpt' = GptOneShot(ticks_measurement_shift)
                                /\ UNCHANGED rearm_timer

\* ir_synchronize_receiving with the given shift.
SynchronizeReceiving == /\ gpt' = GptOneShot(ticks_measurement_shift)
                        /\ rearm_timer' = TRUE

SyncRise ==
  /\ gpt' = GptOneShot(LeadPulseMax)
  /\ sync_state' = "fall"
  /\ UNCHANGED <<last_call, decoded, pace, rearm_timer, counted,
                 time_since_last_command_msec, state, repeat_state>>

\* Mutant: the space is measured by the timer of the pulse, not restarted.
SyncPulseAccepted_NoRestart ==
  /\ ticks_per_measurement' = TicksPerMeasurement(gpt.cnt)
  /\ ticks_measurement_shift' = TicksPerMeasurement(gpt.cnt) \div 2
  /\ sync_state' = "rise_end"
  /\ UNCHANGED <<gpt, last_call, decoded, rearm_timer, counted,
                 time_since_last_command_msec, state, repeat_state>>

\* The length of the leading pulse gives the period of the samples.
SyncPulseAccepted ==
  /\ ticks_per_measurement' = TicksPerMeasurement(gpt.cnt)
  /\ ticks_measurement_shift' = TicksPerMeasurement(gpt.cnt) \div 2
  /\ sync_state' = "rise_end"
  /\ gpt' = GptOneShot(SyncSpaceMax)
  /\ UNCHANGED <<last_call, decoded, rearm_timer, counted,
                 time_since_last_command_msec, state, repeat_state>>

SyncPulseEnd ==
  IF gpt.cnt > LeadPulseMin THEN SyncPulseAccepted ELSE PadReset(GptStop(gpt), "rise")

SyncSpaceAccepted ==
  /\ sync_state' = "done"
  /\ state' = "receive_command"
  /\ SynchronizeReceiving
  /\ UNCHANGED <<last_call, decoded, pace, counted,
                 time_since_last_command_msec, repeat_state>>

SyncSpaceEnd ==
  IF gpt.cnt > SyncSpaceMin THEN SyncSpaceAccepted ELSE PadReset(GptStop(gpt), "rise")

\* ir_synchronization
Synchronization(level) ==
  \/ sync_state = "rise" /\ level /\ SyncRise
  \/ sync_state = "fall" /\ ~level /\ SyncPulseEnd
  \/ sync_state = "rise_end" /\ level /\ SyncSpaceEnd
  \/ /\ \/ sync_state \in {"rise", "rise_end"} /\ ~level
        \/ sync_state = "fall" /\ level
        \/ sync_state = "done"
     /\ PadIgnored

\* The edge handler in IR_STATE_RECEIVE_COMMAND.
Resynchronize(level) ==
  \/ /\ level
     /\ SynchronizeReceiving
     /\ UNCHANGED <<last_call, decoded, pace, counted,
                    time_since_last_command_msec, mode>>
  \/ ~level /\ PadIgnored

\* The rise that opens a repeat.  What the code does before RepeatPauseMin
\* has passed is overwritten by what it does next (ir.c:324-332).
RepeatRise ==
  /\ gpt' = GptOneShot(LeadPulseMax)
  /\ repeat_state' = "fall"
  /\ UNCHANGED <<last_call, decoded, pace, rearm_timer, counted,
                 time_since_last_command_msec, state, sync_state>>

\* Mutant: a fault stops the timer that measured it and starts no other.
RepeatFault_StopsTimer ==
  /\ gpt' = GptStop(gpt)
  /\ repeat_state' = "fault"
  /\ UNCHANGED <<last_call, decoded, pace, rearm_timer, counted,
                 time_since_last_command_msec, state, sync_state>>

RepeatFault ==
  /\ gpt' = GptContinuous(Timer10Msec)
  /\ repeat_state' = "fault"
  /\ UNCHANGED <<last_call, decoded, pace, rearm_timer, counted,
                 time_since_last_command_msec, state, sync_state>>

RepeatPulseAccepted ==
  /\ repeat_state' = "rise_end"
  /\ gpt' = GptOneShot(RepeatSpaceMax)
  /\ UNCHANGED <<last_call, decoded, pace, rearm_timer, counted,
                 time_since_last_command_msec, state, sync_state>>

RepeatPulseEnd ==
  IF gpt.cnt > LeadPulseMin THEN RepeatPulseAccepted ELSE RepeatFault

\* The repeat is reported, and the wait for the next one starts.
RepeatSpaceAccepted ==
  /\ Calls(last_command, TRUE)
  /\ time_since_last_command_msec' = 0
  /\ repeat_state' = "rise"
  /\ gpt' = GptContinuous(Timer10Msec)
  /\ UNCHANGED <<decoded, pace, rearm_timer, counted, state, sync_state>>

RepeatSpaceEnd ==
  IF gpt.cnt > RepeatSpaceMin
  THEN IF callback THEN RepeatSpaceAccepted ELSE PadIgnored
  ELSE RepeatFault

WaitingTimeout(t) == t > RepeatTimeout

\* ir_receiving.  After a timeout the code resets and falls through to the
\* switch, which then sees the reset repeat state.
Receiving(level) ==
  IF WaitingTimeout(time_since_last_command_msec)
  THEN IF level THEN PadReset(GptOneShot(LeadPulseMax), "fall")
                ELSE PadReset(GptStop(gpt), "rise")
  ELSE \/ repeat_state = "rise" /\ level /\ RepeatRise
       \/ repeat_state = "fall" /\ ~level /\ RepeatPulseEnd
       \/ repeat_state = "rise_end" /\ level /\ RepeatSpaceEnd
       \/ /\ \/ repeat_state \in {"rise", "rise_end"} /\ ~level
             \/ repeat_state = "fall" /\ level
             \/ repeat_state = "fault"
          /\ PadIgnored

\* ir_pad_interrupt.  The service routine acknowledges the edge before the
\* handler reads the pad: edges in between leave another interrupt pending,
\* and may have changed the level the handler reads.
PadInterrupt ==
  /\ exti_pending
  /\ \E level \in BOOLEAN, again \in BOOLEAN :
       /\ level # pad => again
       /\ pad' = level
       /\ exti_pending' = again
       /\ \/ state = "synchronization" /\ Synchronization(level)
          \/ state = "receive_command" /\ Resynchronize(level)
          \/ state = "wait_repeat" /\ Receiving(level)
  /\ UNCHANGED <<lag, cpu, callback>>

-----------------------------------------------------------------------------
(* The timer's service routine and ir_timer_callback. *)

\* Everything but gpt, tpc and last_call that the callback's steps may touch.
TimerFrame == <<pad, exti_pending, lag, callback, pace>>
Context    == <<decoded, counted, time_since_last_command_msec, mode>>

TimerAcknowledge ==
  /\ tpc = "idle" /\ gpt.uif
  /\ gpt' = GptAcknowledge(gpt)
  /\ tpc' = "acknowledged"
  /\ UNCHANGED <<TimerFrame, Context, rearm_timer, last_call, todo, treg>>

TimerEnter ==
  /\ tpc = "acknowledged"
  /\ gpt' = GptBeforeCallback(gpt)
  /\ tpc' = "rearm"
  /\ UNCHANGED <<TimerFrame, Context, rearm_timer, last_call, todo, treg>>

TimerRearm ==
  /\ tpc = "rearm"
  /\ rearm_timer' = FALSE
  /\ tpc' = IF rearm_timer THEN "restart" ELSE "dispatch"
  /\ UNCHANGED <<TimerFrame, Context, gpt, last_call, todo, treg>>

TimerRestart ==
  /\ tpc = "restart"
  /\ gpt' = GptContinuous(ticks_per_measurement)
  /\ tpc' = "dispatch"
  /\ UNCHANGED <<TimerFrame, Context, rearm_timer, last_call, todo, treg>>

\* The callback begins ir_reset_state: the timer is stopped, the stores follow.
BeginReset ==
  /\ gpt' = GptStop(gpt)
  /\ tpc' = "reset"
  /\ todo' = ResetStores

\* switch (ir_context.state), IR_STATE_SYNCHRONIZATION
TimerIgnored ==
  /\ tpc = "dispatch" /\ state = "synchronization"
  /\ tpc' = "idle"
  /\ UNCHANGED <<TimerFrame, Context, gpt, rearm_timer, last_call, todo, treg>>

\* IR_STATE_RECEIVE_COMMAND with all bits received and no command in them.
TimerNoCommand ==
  /\ tpc = "dispatch" /\ state = "receive_command"
  /\ bits_received = NumberOfBits
  /\ ~command_received
  /\ BeginReset
  /\ UNCHANGED <<TimerFrame, Context, rearm_timer, last_call, treg>>

\* Mutant: repeats are waited for after any frame.
TimerWaitRepeat_AnyFrame ==
  /\ tpc = "dispatch" /\ state = "receive_command"
  /\ bits_received = NumberOfBits
  /\ state' = "wait_repeat"
  /\ tpc' = "wait_timer"
  /\ UNCHANGED <<TimerFrame, decoded, counted, time_since_last_command_msec,
                 sync_state, repeat_state, gpt, rearm_timer, last_call, todo, treg>>

\* IR_STATE_RECEIVE_COMMAND with all bits and a command: wait for repeats.
TimerWaitRepeat ==
  /\ tpc = "dispatch" /\ state = "receive_command"
  /\ bits_received = NumberOfBits
  /\ command_received
  /\ state' = "wait_repeat"
  /\ tpc' = "wait_timer"
  /\ UNCHANGED <<TimerFrame, decoded, counted, time_since_last_command_msec,
                 sync_state, repeat_state, gpt, rearm_timer, last_call, todo, treg>>

TimerWaitStart ==
  /\ tpc = "wait_timer"
  /\ gpt' = GptContinuous(Timer10Msec)
  /\ tpc' = "wait_time"
  /\ UNCHANGED <<TimerFrame, Context, rearm_timer, last_call, todo, treg>>

TimerWaitTime ==
  /\ tpc = "wait_time"
  /\ time_since_last_command_msec' = StartTime
  /\ tpc' = "idle"
  /\ UNCHANGED <<TimerFrame, decoded, counted, mode, gpt, rearm_timer,
                 last_call, todo, treg>>

\* ir_decode_command on the bits of the frame: a command, or nothing at all.
DecodeCommand ==
  \/ UNCHANGED <<decoded, last_call>>
  \/ /\ callback
     /\ \E c \in Commands :
          /\ command_received' = TRUE
          /\ last_command' = c
          /\ Calls(c, FALSE)

\* Mutant: samples are taken past the last bit.
TimerSample_NoLimit ==
  /\ tpc = "dispatch" /\ state = "receive_command"
  /\ IF bit_measure_num + 1 = MeasuresPerBit
     THEN bit_measure_num' = 0 /\ bits_received' = bits_received + 1
     ELSE bit_measure_num' = bit_measure_num + 1 /\ UNCHANGED bits_received
  /\ tpc' = "idle"
  /\ UNCHANGED <<TimerFrame, decoded, last_call, time_since_last_command_msec, mode,
                 gpt, rearm_timer, todo, treg>>

\* ir_receive_command: one sample; the last of a bit completes the bit, the
\* last bit (ir_push_signal_value) completes the frame.
TimerSample ==
  /\ tpc = "dispatch" /\ state = "receive_command"
  /\ bits_received # NumberOfBits
  /\ IF bit_measure_num + 1 = MeasuresPerBit
     THEN /\ bit_measure_num' = 0
          /\ bits_received' = bits_received + 1
          /\ IF bits_received = NumberOfBits - 1 THEN DecodeCommand
                                                 ELSE UNCHANGED <<decoded, last_call>>
     ELSE /\ bit_measure_num' = bit_measure_num + 1
          /\ UNCHANGED <<bits_received, decoded, last_call>>
  /\ tpc' = "idle"
  /\ UNCHANGED <<TimerFrame, time_since_last_command_msec, mode, gpt,
                 rearm_timer, todo, treg>>

\* IR_STATE_WAIT_REPEAT: the read, the write and the check of the counter.
TimerLoadTime ==
  /\ tpc = "dispatch" /\ state = "wait_repeat"
  /\ treg' = time_since_last_command_msec
  /\ tpc' = "store_time"
  /\ UNCHANGED <<TimerFrame, Context, gpt, rearm_timer, last_call, todo>>

\* Mutant: the counter runs down instead of up.
TimerStoreTime_Down ==
  /\ tpc = "store_time"
  /\ time_since_last_command_msec' = treg - TimeStep
  /\ treg' = treg - TimeStep
  /\ tpc' = "check_time"
  /\ UNCHANGED <<TimerFrame, decoded, counted, mode, gpt, rearm_timer,
                 last_call, todo>>

TimerStoreTime ==
  /\ tpc = "store_time"
  /\ time_since_last_command_msec' = treg + TimeStep
  /\ treg' = treg + TimeStep
  /\ tpc' = "check_time"
  /\ UNCHANGED <<TimerFrame, decoded, counted, mode, gpt, rearm_timer,
                 last_call, todo>>

\* Mutant: the timeout is tested on the value before the step.
TimerCheckTime_Late ==
  /\ tpc = "check_time"
  /\ treg' = 0
  /\ \E t \in {treg, time_since_last_command_msec} :
       IF WaitingTimeout(t - TimeStep) THEN BeginReset
                                       ELSE tpc' = "idle" /\ UNCHANGED <<gpt, todo>>
  /\ UNCHANGED <<TimerFrame, Context, rearm_timer, last_call>>

\* ir_waiting_timeout reads the counter again, or is compiled to test the
\* value still in the register: they differ when an edge came in between.
TimerCheckTime ==
  /\ tpc = "check_time"
  /\ treg' = 0
  /\ \E t \in {treg, time_since_last_command_msec} :
       IF WaitingTimeout(t) THEN BeginReset
                            ELSE tpc' = "idle" /\ UNCHANGED <<gpt, todo>>
  /\ UNCHANGED <<TimerFrame, Context, rearm_timer, last_call>>

\* One store of ir_reset_state in the timer callback, in any order.
TimerResetStore(s) ==
  /\ tpc = "reset" /\ s \in todo
  /\ todo' = todo \ {s}
  /\ tpc' = IF todo = {s} THEN "idle" ELSE "reset"
  /\ command_received' = IF s = "command" THEN FALSE ELSE command_received
  /\ last_command' = IF s = "command" THEN NoCommand ELSE last_command
  /\ bits_received' = IF s = "bits" THEN 0 ELSE bits_received
  /\ bit_measure_num' = IF s = "bits" THEN 0 ELSE bit_measure_num
  /\ time_since_last_command_msec' = IF s = "time" THEN 0
                                     ELSE time_since_last_command_msec
  /\ state' = IF s = "state" THEN "synchronization" ELSE state
  /\ sync_state' = IF s = "sync_state" THEN "rise" ELSE sync_state
  /\ repeat_state' = IF s = "repeat_state" THEN "rise" ELSE repeat_state
  /\ UNCHANGED <<TimerFrame, gpt, rearm_timer, last_call, treg>>

\* ir_timer_callback, and the driver's service routine around it.
TimerInterrupt ==
  \/ TimerAcknowledge
  \/ TimerEnter
  \/ TimerRearm
  \/ TimerRestart
  \/ TimerIgnored
  \/ TimerNoCommand
  \/ TimerWaitRepeat
  \/ TimerWaitStart
  \/ TimerWaitTime
  \/ TimerSample
  \/ TimerLoadTime
  \/ TimerStoreTime
  \/ TimerCheckTime
  \/ \E s \in ResetStores : TimerResetStore(s)

-----------------------------------------------------------------------------
Next == Toggle \/ Tick \/ SetCallback \/ PadInterrupt \/ TimerInterrupt

Spec == Init /\ [][Next]_vars

\* The clock runs and raised interrupts are served.  Nothing is assumed of
\* the signal, nor of main ever setting the callback.
Fairness == WF_vars(Tick) /\ WF_vars(PadInterrupt) /\ WF_vars(TimerInterrupt)

FairSpec == Spec /\ Fairness
-----------------------------------------------------------------------------
(* Safety. *)

\* received_bits is indexed by bits_received (ir.c:83-102, 431): the samples
\* of a frame never run past its last bit, nor past a bit's last sample,
\* whatever resets and resynchronizations interleave with them.
BitIndexInBounds ==
  /\ bits_received <= NumberOfBits
  /\ bit_measure_num < MeasuresPerBit
  /\ bits_received = NumberOfBits => bit_measure_num = 0

\* A frame starts from a reset receiver: until its last bit no command of an
\* earlier frame is left that ir.c:456 would take for this frame's, no time is
\* counted, and the sampling period is one the timer can be armed with.
FrameStartsClean ==
  state = "receive_command" /\ bits_received < NumberOfBits =>
    /\ ~command_received /\ last_command = NoCommand
    /\ time_since_last_command_msec = 0
    /\ ticks_measurement_shift > 0
    /\ ticks_per_measurement > ticks_measurement_shift

\* The sampling of a frame cannot lose its timer: outside of the callback the
\* timer will fire again or has fired, and a one-shot (the phase shift after a
\* rise) is always followed by the rearming to the sampling period, although
\* edges preempt the callback that tests and clears rearm_timer.
ReceiveNeverStalls ==
  state = "receive_command" /\ tpc = "idle" =>
    /\ GptWillFire(gpt) \/ gpt.uif
    /\ gpt.mode # "continuous" => rearm_timer
    /\ rearm_timer \/ gpt.interval = ticks_per_measurement

\* "Do not do anything, just waiting for timeout" (ir.c:380): after a fault the
\* time counter keeps being driven by a continuous timer, of whatever period
\* (CountsMilliseconds), so there is a timeout to wait for.
FaultKeepsTicking ==
  state = "wait_repeat" /\ repeat_state = "fault" =>
    tpc # "idle" \/ gpt.mode = "continuous"

\* The counter is shared by four measurements and by the pacing of samples and
\* of the time counter.  A value long enough to be accepted as the leading
\* pulse, the leading space or the space of a repeat was counted by the
\* one-shot armed for that very phase, so it is a time since the phase began
\* that is below the phase's maximum.  The pulse of a repeat is not among them:
\* its one-shot may be replaced by the 10 ms timer (ir.c:338-339).
MeasuredByOneShot ==
  /\ (state = "synchronization" /\ sync_state = "fall" /\ gpt.cnt > LeadPulseMin) =>
       gpt.mode = "one_shot" /\ gpt.interval = LeadPulseMax /\ ~gpt.uif
  /\ (state = "synchronization" /\ sync_state = "rise_end" /\ gpt.cnt > SyncSpaceMin) =>
       gpt.mode = "one_shot" /\ gpt.interval = SyncSpaceMax /\ ~gpt.uif
  /\ (state = "wait_repeat" /\ repeat_state = "rise_end" /\ gpt.cnt > RepeatSpaceMin) =>
       gpt.mode = "one_shot" /\ gpt.interval = RepeatSpaceMax /\ ~gpt.uif

\* ir_reset_state at ir.c:314-317 does not return, so the edge handler goes on
\* to act on a receiver it has just reset.  It gets there only by preempting
\* the timer callback that is about to reset the receiver itself.
TimeoutSeenOnlyInCallback ==
  state = "wait_repeat" /\ WaitingTimeout(time_since_last_command_msec) =>
    tpc \in {"check_time", "reset"}

\* The calls of the callback are those of the abstract channel: one report of
\* a decoded command, then repeats of that command only, until the session
\* ends.  The session is the last_command of the decoder.
Channel == INSTANCE RemoteChannel WITH session <- last_command

ChannelSpec == Channel!Spec

-----------------------------------------------------------------------------
(* Liveness, under FairSpec. *)

SignalSettles == <>[]pad \/ <>[]~pad

\* Once the signal stays still, a frame being received comes to its end.
FrameEnds == SignalSettles => (state = "receive_command" ~> state # "receive_command")

\* Once the signal stays still, a faulty repeat is given up.
FaultEnds ==
  SignalSettles =>
    (state = "wait_repeat" /\ repeat_state = "fault" ~> state = "synchronization")

\* What IR_REPEAT_TIMEOUT is for, "How long we will waiting for repeat"
\* (ir.c:21): once the signal stays still, waiting for a repeat is given up.
WaitEnds == SignalSettles => (state = "wait_repeat" ~> state = "synchronization")

-----------------------------------------------------------------------------
(* What comments of ir.c say and the code does not do. *)

\* IR_REPEAT_PAUSE_MIN_TIME is the "Time between repeat codes" (ir.c:28): no
\* pulse is taken for a repeat's before that time.
RepeatsKeepPause ==
  [][ repeat_state = "rise" /\ repeat_state' = "fall" /\ state' = "wait_repeat"
        => time_since_last_command_msec >= RepeatPauseMin ]_vars

\* time_since_last_command_msec is in "milliseconds" (ir.c:56): while repeats
\* are waited for, the timer that counts it has the period of 10 ms.
CountsMilliseconds ==
  state = "wait_repeat" /\ tpc = "idle" /\ gpt.mode = "continuous" =>
    gpt.interval = Timer10Msec
=============================================================================
