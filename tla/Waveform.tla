------------------------------ MODULE Waveform ------------------------------
(***************************************************************************)
(* The sampling of a frame against time, in timer ticks of 0.25 us.  A     *)
(* remote sends bits of two or four units, one unit of light and one or    *)
(* three of darkness; the receiver takes three samples per unit with a     *)
(* period it has derived from the leading pulse, and starts over with half *)
(* a period at every rise (ir.c:223-228, 277-279, 394-438, 443-448).       *)
(*                                                                         *)
(* A rise moves the next sample but not the count of the samples: one too  *)
(* many or too few between two rises would shift the rest of the frame.    *)
(*                                                                         *)
(* All times are since the last rise.  The edges of the signal have no     *)
(* common clock with the samples: they are early or late, the receiving    *)
(* part holds the light on for longer, interrupts are served late.         *)
(***************************************************************************)
EXTENDS Integers

CONSTANTS
  NumberOfUnits,  \* IR_NUMBER_OF_BITS_PER_COMMAND
  Unit,           \* the unit of the remote
  Jitter,         \* an edge may be early or late by this
  Stretch,        \* the receiving part may hold the light on for this
  Lag,            \* from an edge, or the end of a timer, to its handler
  RiseErrors, FallErrors, Lags   \* those that happen

ASSUME ErrorAssumption ==
  /\ Unit \in Nat /\ Jitter \in Nat /\ Stretch \in Nat /\ Lag \in Nat
  /\ RiseErrors \subseteq (-Jitter)..Jitter
  /\ FallErrors \subseteq (-Jitter)..Stretch
  /\ Lags \subseteq 0..Lag

ASSUME UnitsAssumption == NumberOfUnits \in Nat \ {0}

\* The errors are small against the sixth of a unit a sample is away from the
\* edges: neither too late, when the leading pulse was stretched and the period
\* is too long, nor too early, when it was short and is truncated twice.  The
\* light may be held on for most of a unit, as long as the last measure of the
\* next unit is dark.
ASSUME ToleranceAssumption ==
  /\ 16 * Unit > 23 * (Stretch + Jitter + Lag) + 192 * Jitter + 288 * Lag
  /\ 16 * Unit > 25 * (2 * Jitter + Lag + 47) + 192 * Jitter + 48
  /\ 80 * Unit > 11 * (2 * Jitter + Lag + 47) + 96 * (Stretch + Jitter) + 48

VARIABLES
  ticks_per_measurement, ticks_measurement_shift, rearm_timer,
  bits_received, bit_measure_num,
  ones,           \* of bit_measures
  pushed,         \* the last value given to ir_push_signal_value
  expiry, sample, \* when the timer ends, and when its callback reads the pad
  start, length,  \* the units sent before this bit, and its own
  light, edge,    \* the signal, and when it changes
  phase           \* the error of the last rise

timing   == <<ticks_per_measurement, ticks_measurement_shift>>
measured == <<bits_received, bit_measure_num, ones, pushed>>
timer    == <<rearm_timer, expiry, sample>>
signal   == <<start, length, light, edge, phase>>
waveform == <<timing, measured, timer, signal>>

\* ir.c:19-24
IR_MEASURES_PER_BIT              == 3
IR_SYNC_LEADING_PULSE_MIN_TICKS  == 32000
IR_SYNC_LEADING_PULSE_MAX_TICKS  == 40000

\* A zero, a one, or the pulse after the last bit, which no light follows.
Last    == 0
Lengths == {2, 4, Last}

\* Mutant: four measures fit into a unit.
Period_Short(pulse) == (pulse \div 16) \div 4

Period(pulse) == (pulse \div 16) \div IR_MEASURES_PER_BIT

\* Mutant: the shift is a whole period.
Shift_Whole(period) == period

Shift(period) == period \div 2

\* What the counter holds when the leading pulse of 16 units falls.
LeadingPulses ==
  {16 * Unit + f - r + after - before : f \in FallErrors, r \in RiseErrors,
                                        before \in Lags, after \in Lags}

\* The rise that ends the space after the leading pulse: ir_synchronization has
\* accepted the pulse and now starts the samples.
WaveInit ==
  /\ \E pulse \in LeadingPulses :
       /\ pulse > IR_SYNC_LEADING_PULSE_MIN_TICKS /\ pulse <= IR_SYNC_LEADING_PULSE_MAX_TICKS
       /\ ticks_per_measurement = Period(pulse)
  /\ ticks_measurement_shift = Shift(ticks_per_measurement)
  /\ rearm_timer = TRUE
  /\ \E before, after \in Lags :
       expiry = before + ticks_measurement_shift /\ sample = expiry + after
  /\ bits_received = 0 /\ bit_measure_num = 0 /\ ones = 0 /\ pushed = FALSE
  /\ start = 0 /\ length \in Lengths /\ light = TRUE /\ phase \in RiseErrors
  /\ \E error \in FallErrors : edge = Unit + error - phase

Receiving == bits_received < NumberOfUnits

-----------------------------------------------------------------------------
\* ir_synchronize_receiving
SynchronizeReceiving ==
  /\ \E before, after \in Lags :
       expiry' = before + ticks_measurement_shift /\ sample' = expiry' + after
  /\ rearm_timer' = TRUE

\* ir_pad_interrupt with the light on: the next bit begins.
Rise ==
  /\ Receiving /\ ~light /\ length # Last /\ edge <= sample
  /\ light' = TRUE
  /\ start' = start + length
  /\ length' \in Lengths
  /\ phase' = phase + edge - length * Unit
  /\ \E error \in FallErrors : edge' = Unit + error - phase'
  /\ SynchronizeReceiving
  /\ UNCHANGED <<timing, measured>>

\* With the light off it does nothing.
Fall ==
  /\ Receiving /\ light /\ edge <= sample
  /\ light' = FALSE
  /\ \E error \in RiseErrors :
       edge' = IF length = Last THEN edge ELSE length * Unit + error - phase
  /\ UNCHANGED <<timing, measured, timer, start, length, phase>>

\* Mutant: one measure suffices.
EffectiveValue_Any(count) == count > 0

\* ir.c:429
EffectiveValue(count) == count = IR_MEASURES_PER_BIT

\* Mutant: the count of the measures is not reset.
ReceiveCommand_NoReset(count) ==
  /\ bit_measure_num' = bit_measure_num + 1
  /\ IF bit_measure_num' = IR_MEASURES_PER_BIT
     THEN /\ pushed' = EffectiveValue(count)
          /\ bits_received' = bits_received + 1
          /\ ones' = 0
     ELSE ones' = count /\ UNCHANGED <<pushed, bits_received>>

\* ir_receive_command, with one more measure taken
ReceiveCommand(count) ==
  IF bit_measure_num + 1 = IR_MEASURES_PER_BIT
  THEN /\ pushed' = EffectiveValue(count)
       /\ bits_received' = bits_received + 1
       /\ bit_measure_num' = 0 /\ ones' = 0
  ELSE /\ bit_measure_num' = bit_measure_num + 1 /\ ones' = count
       /\ UNCHANGED <<pushed, bits_received>>

\* ir_timer_callback in IR_STATE_RECEIVE_COMMAND.  After a shift it starts the
\* timer anew, with the period.
TimerCallback ==
  /\ Receiving /\ (sample <= edge \/ (~light /\ length = Last))
  /\ ReceiveCommand(IF light THEN ones + 1 ELSE ones)
  /\ rearm_timer' = FALSE
  /\ expiry' = (IF rearm_timer THEN sample ELSE expiry) + ticks_per_measurement
  /\ \E after \in Lags : sample' = expiry' + after
  /\ UNCHANGED <<timing, signal>>

\* The frame is complete.
Complete == ~Receiving /\ UNCHANGED waveform

WaveNext == Rise \/ Fall \/ TimerCallback \/ Complete

WaveSpec == WaveInit /\ [][WaveNext]_waveform

-----------------------------------------------------------------------------
WaveTypeOK ==
  /\ ticks_per_measurement \in Nat /\ ticks_measurement_shift \in Nat
  /\ rearm_timer \in BOOLEAN
  /\ bits_received \in 0..NumberOfUnits
  /\ bit_measure_num \in 0..(IR_MEASURES_PER_BIT - 1)
  /\ ones \in 0..bit_measure_num
  /\ pushed \in BOOLEAN
  /\ expiry \in Nat /\ sample \in Nat
  /\ start \in Nat /\ length \in Lengths
  /\ light \in BOOLEAN /\ edge \in Nat /\ phase \in RiseErrors

\* The rise of a bit finds as many units received as were sent before it, and
\* no measure of a further one: errors of a bit, the truncated period among
\* them, are not carried into the next.
Aligned ==
  light /\ rearm_timer => bits_received = start /\ bit_measure_num = 0

\* Every unit is received as it was sent: a one for the light a bit begins
\* with, zeros after it, however long the light was stretched.
UnitsAsSent ==
  bits_received > start /\ bit_measure_num = 0 =>
    (pushed <=> bits_received = start + 1)
=============================================================================
