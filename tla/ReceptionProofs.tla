-------------------------- MODULE ReceptionProofs --------------------------
(***************************************************************************)
(* Every unit of a frame is received as it was sent, for every remote and  *)
(* every leading pulse, as long as the errors are tolerable; therefore a   *)
(* frame of the remote fills the bitmap with what module NecRemote says is *)
(* measured of it, and what is proved of its frames holds of the signal.   *)
(*                                                                         *)
(* Taken counts the measures since the last rise.  The measure to come is  *)
(* the shift and Taken periods away from the rise, up to the lags; what the*)
(* tolerance says of these times places it before or behind the edges.     *)
(***************************************************************************)
EXTENDS Reception, NecRemoteProofs

Taken == 3 * (bits_received - start) + bit_measure_num

-----------------------------------------------------------------------------
(* Times. *)

\* What a period and its shift are to the units of the remote.
PeriodFits(p, h) ==
  /\ p \in Int /\ 666 <= p /\ p <= 833
  /\ h \in Int /\ 333 <= h /\ h <= 416
  /\ h + 2 * p + 3 * Lag < Unit - 2 * Jitter
  /\ h + 5 * p > Unit + Stretch + Jitter
  /\ h + 5 * p + 3 * Lag < 2 * Unit - 2 * Jitter
  /\ h + 6 * p > 2 * Unit + 2 * Jitter
  /\ h + 11 * p + 3 * Lag < 4 * Unit - 2 * Jitter
  /\ h + 12 * p > 4 * Unit + 2 * Jitter

\* The period is a third of a sixteenth of the pulse, truncated twice.
LEMMA PeriodBounds ==
  ASSUME NEW pulse \in Int, pulse > 32000, pulse <= 40000
  PROVE  /\ Period(pulse) \in Int /\ 666 <= Period(pulse) /\ Period(pulse) <= 833
         /\ 48 * Period(pulse) <= pulse /\ pulse <= 48 * Period(pulse) + 47
<1> DEFINE q == pulse \div 16
           p == q \div 3
<1>1. q \in Int /\ 16 * q <= pulse /\ pulse <= 16 * q + 15
  OBVIOUS
<1>2. p \in Int /\ 3 * p <= q /\ q <= 3 * p + 2
  <2> HIDE DEF q
  <2> QED BY <1>1
<1>3. Period(pulse) = p
  BY DEF Period, IR_MEASURES_PER_BIT
<1> HIDE DEF q, p
<1> QED BY <1>1, <1>2, <1>3

\* The shift is half of a period, truncated.
LEMMA ShiftBounds ==
  ASSUME NEW p \in Int, 666 <= p, p <= 833
  PROVE  /\ Shift(p) \in Int /\ 333 <= Shift(p) /\ Shift(p) <= 416
         /\ 2 * Shift(p) <= p /\ p <= 2 * Shift(p) + 1
BY DEF Shift

\* The leading pulse is that of 16 units, up to the errors.
LEMMA PulseBounds ==
  ASSUME NEW pulse \in LeadingPulses
  PROVE  /\ pulse \in Int
         /\ 16 * Unit - 2 * Jitter - Lag <= pulse
         /\ pulse <= 16 * Unit + Stretch + Jitter + Lag
<1>1. PICK f \in FallErrors, r \in RiseErrors, before \in Lags, after \in Lags :
        pulse = 16 * Unit + f - r + after - before
  BY DEF LeadingPulses
<1>2. /\ f \in (-Jitter)..Stretch /\ r \in (-Jitter)..Jitter
      /\ before \in 0..Lag /\ after \in 0..Lag
  BY ErrorAssumption
<1> QED BY <1>1, <1>2, ErrorAssumption

\* The period of every accepted pulse puts the samples where they belong.
LEMMA PulsesFit ==
  ASSUME NEW pulse \in LeadingPulses, pulse > 32000, pulse <= 40000
  PROVE  PeriodFits(Period(pulse), Shift(Period(pulse)))
<1> DEFINE p == Period(pulse)
           h == Shift(p)
<1>1. /\ pulse \in Int
      /\ 16 * Unit - 2 * Jitter - Lag <= pulse
      /\ pulse <= 16 * Unit + Stretch + Jitter + Lag
  BY PulseBounds
<1>2. p \in Int /\ 666 <= p /\ p <= 833 /\ 48 * p <= pulse /\ pulse <= 48 * p + 47
  BY <1>1, PeriodBounds
<1>3. h \in Int /\ 333 <= h /\ h <= 416 /\ 2 * h <= p /\ p <= 2 * h + 1
  <2> HIDE DEF p
  <2> QED BY <1>2, ShiftBounds
<1> HIDE DEF p, h
<1>4. /\ Unit \in Nat /\ Jitter \in Nat /\ Stretch \in Nat /\ Lag \in Nat
      /\ 16 * Unit > 23 * (Stretch + Jitter + Lag) + 192 * Jitter + 288 * Lag
      /\ 16 * Unit > 25 * (2 * Jitter + Lag + 47) + 192 * Jitter + 48
      /\ 80 * Unit > 11 * (2 * Jitter + Lag + 47) + 96 * (Stretch + Jitter) + 48
  BY ErrorAssumption, ToleranceAssumption
<1>5. h + 2 * p + 3 * Lag < Unit - 2 * Jitter
  BY <1>1, <1>2, <1>3, <1>4
<1>6. h + 5 * p > Unit + Stretch + Jitter
  BY <1>1, <1>2, <1>3, <1>4
<1>7. h + 5 * p + 3 * Lag < 2 * Unit - 2 * Jitter
  BY <1>1, <1>2, <1>3, <1>4
<1>8. h + 6 * p > 2 * Unit + 2 * Jitter
  BY <1>1, <1>2, <1>3, <1>4
<1>9. h + 11 * p + 3 * Lag < 4 * Unit - 2 * Jitter
  BY <1>1, <1>2, <1>3, <1>4
<1>10. h + 12 * p > 4 * Unit + 2 * Jitter
  BY <1>1, <1>2, <1>3, <1>4
<1>11. PeriodFits(p, h)
  BY <1>2, <1>3, <1>5, <1>6, <1>7, <1>8, <1>9, <1>10 DEF PeriodFits
<1> QED BY <1>11 DEF p, h

-----------------------------------------------------------------------------
(* The inductive invariant. *)

\* The next measure: the shift away from the rise, and a period for each one
\* taken since.
SampleInv ==
  /\ rearm_timer <=> Taken = 0
  /\ sample \in Int /\ expiry \in Int
  /\ expiry <= sample /\ sample <= expiry + Lag
  /\ ticks_measurement_shift + Taken * ticks_per_measurement <= expiry
  /\ expiry <= ticks_measurement_shift + Taken * ticks_per_measurement
                + (IF rearm_timer THEN Lag ELSE 2 * Lag)

\* While there is light, its end is to come; three measures belong to it.
LightInv ==
  light => /\ Unit - 2 * Jitter <= edge /\ edge <= Unit + Stretch + Jitter
           /\ Taken <= 5
           /\ (Taken <= 2 => ones = bit_measure_num)

\* In the dark at least three have been taken, and no more than fit in the bit.
DarkInv ==
  ~light => /\ Taken >= 3
            /\ length # Last =>
                 /\ edge - length * Unit + phase \in RiseErrors
                 /\ Taken <= 3 * length

GridInv ==
  /\ WaveTypeOK
  /\ PeriodFits(ticks_per_measurement, ticks_measurement_shift)
  /\ start <= bits_received
  /\ SampleInv /\ LightInv /\ DarkInv
  /\ UnitsAsSent

\* Taken is a number.
LEMMA TakenInt == ASSUME WaveTypeOK PROVE Taken \in Int
BY UnitsAssumption DEF WaveTypeOK, Taken, IR_MEASURES_PER_BIT

\* Errors of edges are integers within the bounds.
LEMMA RiseErrorBounds ==
  ASSUME NEW e \in RiseErrors PROVE e \in Int /\ -Jitter <= e /\ e <= Jitter
BY ErrorAssumption

\* The light may also be held on.
LEMMA FallErrorBounds ==
  ASSUME NEW e \in FallErrors PROVE e \in Int /\ -Jitter <= e /\ e <= Stretch
BY ErrorAssumption

\* Handlers run late, and not too late.
LEMMA LagBounds ==
  ASSUME NEW d \in Lags PROVE d \in Int /\ 0 <= d /\ d <= Lag
BY ErrorAssumption

\* A measure is taken when its timer has ended, and not much later.
LEMMA LagApart ==
  ASSUME NEW x \in Int, NEW d \in Int, 0 <= d, d <= Lag, Lag \in Int
  PROVE  x <= x + d /\ x + d <= x + Lag
OBVIOUS

\* More measures take more time.
LEMMA LaterMeasure ==
  ASSUME NEW s \in Int, NEW t \in Int, s <= t, NEW p \in Int, p >= 0
  PROVE  s * p <= t * p
OBVIOUS

\* The invariant holds at the rise that begins the frame.
LEMMA GridInit == WaveInit => GridInv
<1> SUFFICES ASSUME WaveInit PROVE GridInv
  OBVIOUS
<1> DEFINE p == ticks_per_measurement
           h == ticks_measurement_shift
<1>0. Unit \in Nat /\ Jitter \in Nat /\ Stretch \in Nat /\ Lag \in Nat
  BY ErrorAssumption
<1>1. PeriodFits(p, h)
  BY PulsesFit DEF WaveInit, IR_SYNC_LEADING_PULSE_MIN_TICKS, IR_SYNC_LEADING_PULSE_MAX_TICKS
<1>2. p \in Int /\ 0 < p /\ h \in Int /\ 0 < h
  BY <1>1 DEF PeriodFits
<1>3. PICK before \in Lags, after \in Lags : expiry = before + h /\ sample = expiry + after
  BY DEF WaveInit
<1>4. /\ before \in Int /\ 0 <= before /\ before <= Lag
      /\ after \in Int /\ 0 <= after /\ after <= Lag
  BY LagBounds
<1>5. bits_received = 0 /\ bit_measure_num = 0 /\ ones = 0 /\ start = 0 /\ Taken = 0
  BY DEF WaveInit, Taken
<1>6. PICK error \in FallErrors : edge = Unit + error - phase
  BY DEF WaveInit
<1>7. /\ error \in Int /\ -Jitter <= error /\ error <= Stretch
      /\ phase \in RiseErrors /\ phase \in Int /\ -Jitter <= phase /\ phase <= Jitter
  BY RiseErrorBounds, FallErrorBounds DEF WaveInit
<1>8. Unit - 2 * Jitter <= edge /\ edge <= Unit + Stretch + Jitter /\ edge \in Nat
  BY <1>0, <1>1, <1>2, <1>6, <1>7 DEF PeriodFits
<1>9. WaveTypeOK
  <2>1. expiry \in Nat /\ sample \in Nat /\ p \in Nat /\ h \in Nat
    BY <1>2, <1>3, <1>4
  <2>2. /\ bits_received \in 0..NumberOfUnits
        /\ bit_measure_num \in 0..2 /\ ones \in 0..bit_measure_num
    BY <1>5, UnitsAssumption
  <2>3. rearm_timer \in BOOLEAN /\ pushed \in BOOLEAN /\ light \in BOOLEAN /\ length \in Lengths
    BY DEF WaveInit
  <2> QED BY <2>1, <2>2, <2>3, <1>5, <1>7, <1>8 DEF WaveTypeOK, IR_MEASURES_PER_BIT
<1>10. SampleInv
  BY <1>0, <1>2, <1>3, <1>4, <1>5 DEF SampleInv, WaveInit
<1>11. LightInv /\ DarkInv
  BY <1>5, <1>8 DEF LightInv, DarkInv, WaveInit
<1> QED BY <1>1, <1>5, <1>9, <1>10, <1>11 DEF GridInv, UnitsAsSent

\* What every step starts from.
LEMMA Basics ==
  ASSUME GridInv
  PROVE  /\ Unit \in Nat /\ Jitter \in Nat /\ Stretch \in Nat /\ Lag \in Nat
         /\ ticks_per_measurement \in Int /\ ticks_per_measurement > 0
         /\ ticks_measurement_shift \in Int /\ ticks_measurement_shift > 0
         /\ Taken \in Int /\ Taken >= 0
         /\ bits_received \in Nat /\ start \in Nat /\ start <= bits_received
         /\ bit_measure_num \in 0..2 /\ ones \in 0..bit_measure_num
         /\ expiry \in Int /\ sample \in Int /\ edge \in Int
         /\ phase \in Int /\ -Jitter <= phase /\ phase <= Jitter
BY ErrorAssumption, RiseErrorBounds, TakenInt
   DEF GridInv, WaveTypeOK, PeriodFits, Taken, IR_MEASURES_PER_BIT

\* An edge preempts no measure that is not its own: the light ends after the
\* third, the dark after the last.
LEMMA FallAfterThird ==
  ASSUME GridInv, light, edge <= sample
  PROVE  Taken >= 3
<1> DEFINE p == ticks_per_measurement
           h == ticks_measurement_shift
<1>1. SUFFICES ASSUME Taken <= 2 PROVE FALSE
  BY Basics
<1>2. Taken * p <= 2 * p
  BY <1>1, Basics, LaterMeasure
<1>3. Taken * p \in Int
  BY Basics
<1>4. sample <= h + Taken * p + 3 * Lag
  BY <1>3, Basics DEF GridInv, SampleInv
<1>5. sample < Unit - 2 * Jitter
  BY <1>2, <1>3, <1>4, Basics DEF GridInv, PeriodFits
<1> QED BY <1>5, Basics DEF GridInv, LightInv

\* The next light begins when all the measures of the bit have been taken.
LEMMA RiseAfterLast ==
  ASSUME GridInv, ~light, length # Last, edge <= sample
  PROVE  Taken = 3 * length
<1> DEFINE p == ticks_per_measurement
           h == ticks_measurement_shift
<1>1. Taken <= 3 * length /\ length \in {2, 4}
  BY DEF GridInv, DarkInv, WaveTypeOK, Lengths
<1>2. edge >= length * Unit - 2 * Jitter
  <2>1. edge - length * Unit + phase >= -Jitter
    BY RiseErrorBounds DEF GridInv, DarkInv
  <2> QED BY <2>1, <1>1, Basics
<1>3. SUFFICES ASSUME Taken <= 3 * length - 1 PROVE FALSE
  BY <1>1, Basics
<1>4. Taken * p \in Int
  BY Basics
<1>5. sample <= h + Taken * p + 3 * Lag
  BY <1>4, Basics DEF GridInv, SampleInv
<1>6. CASE length = 2
  <2>1. Taken * p <= 5 * p
    BY <1>3, <1>6, Basics, LaterMeasure
  <2>2. sample < 2 * Unit - 2 * Jitter
    BY <2>1, <1>4, <1>5, Basics DEF GridInv, PeriodFits
  <2> QED BY <2>2, <1>2, <1>6, Basics
<1>7. CASE length = 4
  <2>1. Taken * p <= 11 * p
    BY <1>3, <1>7, Basics, LaterMeasure
  <2>2. sample < 4 * Unit - 2 * Jitter
    BY <2>1, <1>4, <1>5, Basics DEF GridInv, PeriodFits
  <2> QED BY <2>2, <1>2, <1>7, Basics
<1> QED BY <1>1, <1>6, <1>7

\* And a measure that comes before an edge is none of those after it.
LEMMA MeasureInLight ==
  ASSUME GridInv, light, sample <= edge
  PROVE  Taken <= 4
<1> DEFINE p == ticks_per_measurement
           h == ticks_measurement_shift
<1>1. SUFFICES ASSUME Taken = 5 PROVE FALSE
  BY Basics DEF GridInv, LightInv
<1>2. sample >= h + 5 * p
  BY <1>1, Basics DEF GridInv, SampleInv
<1> QED BY <1>2, Basics DEF GridInv, LightInv, PeriodFits

\* A measure before the next light is one of the bit.
LEMMA MeasureInDark ==
  ASSUME GridInv, ~light, length # Last, sample <= edge
  PROVE  Taken < 3 * length
<1> DEFINE p == ticks_per_measurement
           h == ticks_measurement_shift
<1>1. Taken <= 3 * length /\ length \in {2, 4}
  BY DEF GridInv, DarkInv, WaveTypeOK, Lengths
<1>2. edge <= length * Unit + 2 * Jitter
  <2>1. edge - length * Unit + phase <= Jitter
    BY RiseErrorBounds DEF GridInv, DarkInv
  <2> QED BY <2>1, <1>1, Basics
<1>3. SUFFICES ASSUME Taken = 3 * length PROVE FALSE
  BY <1>1, Basics
<1>4. CASE length = 2
  <2>1. sample >= h + 6 * p
    BY <1>3, <1>4, Basics DEF GridInv, SampleInv
  <2> QED BY <2>1, <1>2, <1>4, Basics DEF GridInv, PeriodFits
<1>5. CASE length = 4
  <2>1. sample >= h + 12 * p
    BY <1>3, <1>5, Basics DEF GridInv, SampleInv
  <2> QED BY <2>1, <1>2, <1>5, Basics DEF GridInv, PeriodFits
<1> QED BY <1>1, <1>4, <1>5

-----------------------------------------------------------------------------
(* The steps. *)

\* A rise starts the next bit, with no measure too many or too few of the one before.
LEMMA RiseStep == GridInv /\ Rise => GridInv'
<1> SUFFICES ASSUME GridInv, Rise PROVE GridInv'
  OBVIOUS
<1> DEFINE h == ticks_measurement_shift
<1>1. UNCHANGED <<timing, measured>>
  BY DEF Rise
<1>2. /\ ticks_per_measurement' = ticks_per_measurement
      /\ ticks_measurement_shift' = ticks_measurement_shift
      /\ bits_received' = bits_received /\ bit_measure_num' = bit_measure_num
      /\ ones' = ones /\ pushed' = pushed
  BY <1>1 DEF timing, measured
<1>3. /\ light' /\ length' \in Lengths /\ start' = start + length
      /\ phase' = phase + edge - length * Unit /\ rearm_timer'
      /\ light' = TRUE /\ rearm_timer' = TRUE
  BY DEF Rise, SynchronizeReceiving
<1>4. Taken = 3 * length /\ length \in {2, 4}
  BY RiseAfterLast DEF Rise, GridInv, WaveTypeOK, Lengths
\* The count is that of a new bit, whatever was in the way.
<1>5. bit_measure_num = 0 /\ bits_received = start + length
  BY <1>4, Basics DEF Taken
<1>6. Taken' = 0 /\ start' = bits_received /\ ones = 0
  BY <1>2, <1>3, <1>5, Basics DEF Taken
<1>7. phase' \in RiseErrors /\ phase' \in Int /\ -Jitter <= phase' /\ phase' <= Jitter
  <2>1. phase' = edge - length * Unit + phase
    BY <1>3, <1>4, Basics
  <2>2. edge - length * Unit + phase \in RiseErrors
    BY <1>4 DEF GridInv, DarkInv, Rise
  <2> QED BY <2>1, <2>2, RiseErrorBounds
<1>8. PICK error \in FallErrors : edge' = Unit + error - phase'
  BY DEF Rise
<1>9. Unit - 2 * Jitter <= edge' /\ edge' <= Unit + Stretch + Jitter /\ edge' \in Nat
  <2>1. error \in Int /\ -Jitter <= error /\ error <= Stretch
    BY FallErrorBounds
  <2>2. Unit - 2 * Jitter > 0
    BY Basics DEF GridInv, PeriodFits
  <2> QED BY <2>1, <2>2, <1>7, <1>8, Basics
<1>10. PICK before \in Lags, after \in Lags : expiry' = before + h /\ sample' = expiry' + after
  BY DEF Rise, SynchronizeReceiving
<1>11. /\ before \in Int /\ 0 <= before /\ before <= Lag
       /\ after \in Int /\ 0 <= after /\ after <= Lag
  BY LagBounds
<1>12. expiry' \in Nat /\ sample' \in Nat
  BY <1>10, <1>11, Basics
<1>13. WaveTypeOK'
  <2>1. start' \in Nat
    BY <1>6, Basics
  <2> QED BY <1>2, <1>3, <1>7, <1>9, <1>12, <2>1 DEF GridInv, WaveTypeOK
<1>14. SampleInv'
  BY <1>2, <1>3, <1>6, <1>10, <1>11, Basics DEF SampleInv
<1>15. LightInv' /\ DarkInv'
  BY <1>2, <1>3, <1>5, <1>6, <1>9 DEF LightInv, DarkInv
<1>16. UnitsAsSent'
  BY <1>2, <1>6, Basics DEF UnitsAsSent
<1>17. PeriodFits(ticks_per_measurement, ticks_measurement_shift)' /\ (start <= bits_received)'
  BY <1>2, <1>6, Basics DEF GridInv, PeriodFits
<1> QED BY <1>13, <1>14, <1>15, <1>16, <1>17 DEF GridInv

\* The light ends: the measures of the bit's first unit have been taken.
LEMMA FallStep == GridInv /\ Fall => GridInv'
<1> SUFFICES ASSUME GridInv, Fall PROVE GridInv'
  OBVIOUS
<1>1. UNCHANGED <<timing, measured, timer, start, length, phase>> /\ light' = FALSE
  BY DEF Fall
<1>2. /\ ticks_per_measurement' = ticks_per_measurement
      /\ ticks_measurement_shift' = ticks_measurement_shift
      /\ bits_received' = bits_received /\ bit_measure_num' = bit_measure_num
      /\ ones' = ones /\ pushed' = pushed
      /\ rearm_timer' = rearm_timer /\ expiry' = expiry /\ sample' = sample
      /\ start' = start /\ length' = length /\ phase' = phase
  BY <1>1 DEF timing, measured, timer
<1>3. Taken' = Taken /\ Taken >= 3 /\ Taken <= 5
  BY <1>2, FallAfterThird DEF Fall, GridInv, LightInv, Taken
<1>4. PICK error \in RiseErrors :
        edge' = IF length = Last THEN edge ELSE length * Unit + error - phase
  BY DEF Fall
<1>5. error \in Int /\ -Jitter <= error /\ error <= Jitter
  BY RiseErrorBounds
<1>6. length # Last => length \in {2, 4}
  BY DEF GridInv, WaveTypeOK, Lengths
<1>7. edge' \in Nat
  <2>1. Unit - 2 * Jitter > 0
    BY Basics DEF GridInv, PeriodFits
  <2> QED BY <2>1, <1>4, <1>5, <1>6, Basics DEF GridInv, WaveTypeOK
<1>8. length # Last => edge' - length' * Unit + phase' = error
  BY <1>2, <1>4, <1>5, <1>6, Basics
<1>9. DarkInv'
  <2>1. length # Last => Taken' <= 3 * length
    BY <1>3, <1>6, Basics
  <2> QED BY <1>2, <1>3, <1>8, <2>1 DEF DarkInv
<1>10. LightInv'
  BY <1>1 DEF LightInv
<1>11. SampleInv'
  BY <1>2, <1>3 DEF GridInv, SampleInv
<1>12. WaveTypeOK'
  BY <1>1, <1>2, <1>7 DEF GridInv, WaveTypeOK
<1>13. UnitsAsSent'
  BY <1>2 DEF GridInv, UnitsAsSent
<1>14. PeriodFits(ticks_per_measurement, ticks_measurement_shift)' /\ (start <= bits_received)'
  BY <1>2 DEF GridInv, PeriodFits
<1> QED BY <1>9, <1>10, <1>11, <1>12, <1>13, <1>14 DEF GridInv

\* A measure is taken, and perhaps completes a unit.
LEMMA CallbackStep == GridInv /\ TimerCallback => GridInv'
<1> SUFFICES ASSUME GridInv, TimerCallback PROVE GridInv'
  OBVIOUS
<1> DEFINE p == ticks_per_measurement
           h == ticks_measurement_shift
           count == IF light THEN ones + 1 ELSE ones
<1>1. UNCHANGED <<timing, signal>> /\ rearm_timer' = FALSE
  BY DEF TimerCallback
<1>2. /\ ticks_per_measurement' = ticks_per_measurement
      /\ ticks_measurement_shift' = ticks_measurement_shift
      /\ start' = start /\ length' = length /\ light' = light /\ edge' = edge
      /\ phase' = phase
  BY <1>1 DEF timing, signal
<1>3. count \in Int /\ 0 <= count /\ count <= bit_measure_num + 1
  BY Basics DEF GridInv, WaveTypeOK
<1>4. ReceiveCommand(count) /\ bits_received < NumberOfUnits
  BY DEF TimerCallback, Receiving
\* The measure is counted, and may complete a unit.
<1>7. /\ Taken' = Taken + 1 /\ UnitsAsSent'
      /\ bits_received' \in 0..NumberOfUnits /\ start <= bits_received'
      /\ bit_measure_num' \in 0..2 /\ ones' \in 0..bit_measure_num' /\ pushed' \in BOOLEAN
      /\ light /\ Taken' <= 2 => ones' = bit_measure_num'
  <2>1. CASE bit_measure_num = 2
    <3>1. /\ pushed' = (count = 3) /\ bits_received' = bits_received + 1
          /\ bit_measure_num' = 0 /\ ones' = 0
      BY <1>4, <2>1 DEF ReceiveCommand, IR_MEASURES_PER_BIT, EffectiveValue
    <3>2. pushed' \in BOOLEAN /\ (pushed' <=> count = 3)
      BY <3>1, Zenon
    <3>3. /\ Taken' = Taken + 1
          /\ bits_received' \in 0..NumberOfUnits /\ start <= bits_received'
      BY <3>1, <1>2, <1>4, <2>1, Basics, UnitsAssumption DEF Taken
    <3>4. count = 3 <=> bits_received = start
      <4>1. CASE bits_received = start
        <5>1. Taken = 2
          BY <4>1, <2>1, Basics DEF Taken
        <5> QED BY <5>1, <4>1, <2>1 DEF GridInv, DarkInv, LightInv
      <4>2. CASE bits_received # start
        <5>1. Taken >= 5
          BY <4>2, <2>1, Basics DEF Taken
        <5>2. ~light
          BY <5>1, MeasureInLight, Basics DEF TimerCallback
        <5> QED BY <5>2, <4>2, <2>1, Basics
      <4> QED BY <4>1, <4>2
    <3>5. UnitsAsSent'
      <4>1. bits_received = start <=> bits_received' = start' + 1
        BY <3>1, <1>2, Basics
      <4>2. pushed' <=> bits_received' = start' + 1
        BY <4>1, <3>2, <3>4
      <4> QED BY <4>2 DEF UnitsAsSent
    <3>6. light /\ Taken' <= 2 => ones' = bit_measure_num'
      BY <3>1
    <3> QED BY <3>1, <3>2, <3>3, <3>5, <3>6
  <2>2. CASE bit_measure_num # 2
    <3>1. /\ bit_measure_num' = bit_measure_num + 1 /\ ones' = count
          /\ pushed' = pushed /\ bits_received' = bits_received
      BY <1>4, <2>2, Basics DEF ReceiveCommand, IR_MEASURES_PER_BIT
    <3>2. UnitsAsSent'
      BY <3>1, Basics DEF UnitsAsSent
    <3>3. Taken' = Taken + 1 /\ bit_measure_num' \in 0..2 /\ ones' \in 0..bit_measure_num'
      BY <3>1, <1>2, <1>3, <2>2, Basics DEF Taken
    <3>4. light /\ Taken' <= 2 => ones' = bit_measure_num'
      <4>1. light /\ Taken' <= 2 => ones = bit_measure_num
        BY <3>3, Basics DEF GridInv, LightInv
      <4> QED BY <4>1, <3>1, Basics
    <3>5. bits_received' \in 0..NumberOfUnits /\ start <= bits_received' /\ pushed' \in BOOLEAN
      BY <3>1 DEF GridInv, WaveTypeOK
    <3> QED BY <3>2, <3>3, <3>4, <3>5
  <2> QED BY <2>1, <2>2
<1>8. PICK after \in Lags : sample' = expiry' + after
  BY DEF TimerCallback
<1>9. after \in Int /\ 0 <= after /\ after <= Lag
  BY LagBounds
<1>10. expiry' = (IF rearm_timer THEN sample ELSE expiry) + p
  BY DEF TimerCallback
<1>11. Taken * p \in Int /\ (Taken + 1) * p = Taken * p + p
  BY Basics
<1>12. /\ expiry' \in Int /\ sample' \in Int
       /\ h + (Taken + 1) * p <= expiry' /\ expiry' <= h + (Taken + 1) * p + 2 * Lag
  <2>1. CASE rearm_timer
    BY <2>1, <1>8, <1>9, <1>10, <1>11, Basics DEF GridInv, SampleInv
  <2>2. CASE ~rearm_timer
    BY <2>2, <1>8, <1>9, <1>10, <1>11, Basics DEF GridInv, SampleInv
  <2> QED BY <2>1, <2>2
<1>13. SampleInv'
  <2>1. Taken' # 0
    BY <1>7, Basics
  <2>2. /\ expiry' <= sample' /\ sample' <= expiry' + Lag
    <3>1. expiry' \in Int /\ sample' \in Int /\ Lag \in Int
      BY <1>12, Basics
    <3>2. sample' = expiry' + after
      BY <1>8
    <3> QED BY <3>1, <3>2, <1>9, LagApart
  <2>3. /\ h' + Taken' * p' <= expiry'
        /\ expiry' <= h' + Taken' * p' + 2 * Lag
    BY <1>2, <1>7, <1>12
  <2> QED BY <1>1, <1>12, <2>1, <2>2, <2>3 DEF SampleInv
<1>14. LightInv'
  <2>1. light => Taken' <= 5
    BY <1>7, MeasureInLight, Basics DEF TimerCallback
  <2> QED BY <2>1, <1>2, <1>7 DEF GridInv, LightInv
<1>15. DarkInv'
  <2>1. ~light /\ length # Last => Taken' <= 3 * length
    <3>1. SUFFICES ASSUME ~light, length # Last PROVE Taken + 1 <= 3 * length
      BY <1>7
    <3>2. Taken < 3 * length /\ length \in {2, 4}
      BY <3>1, MeasureInDark DEF TimerCallback, GridInv, WaveTypeOK, Lengths
    <3> QED BY <3>2, Basics
  <2>2. ~light => Taken' >= 3
    BY <1>7, Basics DEF GridInv, DarkInv
  <2> QED BY <2>1, <2>2, <1>2 DEF GridInv, DarkInv
<1>16. WaveTypeOK'
  <2>1. expiry' \in Nat /\ sample' \in Nat
    BY <1>8, <1>9, <1>10, Basics DEF GridInv, WaveTypeOK
  <2>2. WaveTypeOK
    BY DEF GridInv
  <2>3. rearm_timer' \in BOOLEAN
    BY <1>1
  <2>4. bit_measure_num' \in 0..(IR_MEASURES_PER_BIT - 1)
    BY <1>7 DEF IR_MEASURES_PER_BIT
  <2> QED BY <2>1, <2>2, <2>3, <2>4, <1>2, <1>7 DEF WaveTypeOK
<1>17. PeriodFits(ticks_per_measurement, ticks_measurement_shift)' /\ (start <= bits_received)'
  BY <1>2, <1>7 DEF GridInv, PeriodFits
<1> QED BY <1>7, <1>13, <1>14, <1>15, <1>16, <1>17 DEF GridInv

\* What leaves the signal and the samples alone.
LEMMA GridStutter == GridInv /\ UNCHANGED waveform => GridInv'
BY DEF waveform, timing, measured, timer, signal, GridInv, WaveTypeOK, PeriodFits, SampleInv,
       LightInv, DarkInv, UnitsAsSent, Taken

\* GridInv holds throughout every frame.
THEOREM GridInvariance == WaveSpec => []GridInv
<1>1. GridInv /\ [WaveNext]_waveform => GridInv'
  BY GridStutter, RiseStep, FallStep, CallbackStep DEF WaveNext, Complete
<1> QED BY <1>1, GridInit, PTL DEF WaveSpec

\* Every variable keeps its type, whatever the remote and the errors are.
THEOREM WaveTypeCorrect == WaveSpec => []WaveTypeOK
<1>1. GridInv => WaveTypeOK
  BY DEF GridInv
<1> QED BY <1>1, GridInvariance, PTL

\* Between the rise of a bit and its first measure, the count of the units
\* received is that of the units sent, for every tolerable error.
THEOREM AlignedSafe == WaveSpec => []Aligned
<1>1. GridInv => Aligned
  <2> SUFFICES ASSUME GridInv, light, rearm_timer PROVE bits_received = start /\ bit_measure_num = 0
    BY DEF Aligned
  <2>1. Taken = 0
    BY DEF GridInv, SampleInv
  <2> QED BY <2>1, Basics DEF Taken
<1> QED BY <1>1, GridInvariance, PTL

\* Every unit is received as it was sent, for every tolerable error.
THEOREM UnitsReceived == WaveSpec => []UnitsAsSent
<1>1. GridInv => UnitsAsSent
  BY DEF GridInv
<1> QED BY <1>1, GridInvariance, PTL

-----------------------------------------------------------------------------
(* The frame in the bitmap. *)

\* The pulses of what is sent.
At == PulseAt(tx.address, tx.command)

\* The units stored so far are light where one of the pulses so far is.
StoredInv ==
  /\ bitmap \in Bitmaps
  /\ \A i \in 0..(bits_received - 1) : bitmap[i] <=> \E k \in 0..bit : At[k] = i

\* The signal is at one of the pulses, and the decoder waits for the last unit.
FrameInv ==
  /\ tx \in [address : Addresses, command : SentCommands, corrupt : {Intact}]
  /\ bit \in 0..LastPulse
  /\ start = At[bit] /\ length = LengthOf(tx, bit)
  /\ Receiving => step = "idle"
  /\ step # "idle" => sent = tx

RecInv == GridInv /\ NecInv /\ FrameInv /\ StoredInv

\* The pulses of a frame, and the distances between them.
LEMMA PulsesSent ==
  ASSUME NEW t \in [address : Addresses, command : SentCommands, corrupt : {Intact}]
  PROVE  /\ t \in Transmissions
         /\ FrameBits(t.address, t.command) \in [0..31 -> Bit]
         /\ Spaced(PulseAt(t.address, t.command), FrameBits(t.address, t.command))
         /\ \A k \in 0..31 :
              /\ LengthOf(t, k) \in {2, 4}
              /\ PulseAt(t.address, t.command)[k + 1] =
                   PulseAt(t.address, t.command)[k] + LengthOf(t, k)
         /\ LengthOf(t, 32) = Last
<1> DEFINE f == FrameBits(t.address, t.command)
           p == PulseAt(t.address, t.command)
<1>1. t \in Transmissions
  BY DEF Transmissions
<1>2. t.address \in Words /\ t.command \in Bytes
  BY <1>1, TransmissionType
<1>3. f \in [0..31 -> Bit] /\ Spaced(p, f)
  BY <1>2, FrameBitsOfFrame, PulsesSpaced
<1>4. \A k \in 0..31 : f[k] = FrameBit(t.address, t.command, k)
  BY DEF FrameBits
<1> HIDE DEF f, p
<1>5. ASSUME NEW k \in 0..31
      PROVE  LengthOf(t, k) \in {2, 4} /\ p[k + 1] = p[k] + LengthOf(t, k)
  <2>1. f[k] \in {0, 1} /\ p[k + 1] = p[k] + 2 + 2 * f[k] /\ p[k] \in Nat
    BY <1>3 DEF Spaced, Bit
  <2>2. LengthOf(t, k) = IF f[k] = 1 THEN 4 ELSE 2
    BY <1>4 DEF LengthOf, LastPulse
  <2> QED BY <2>1, <2>2
<1>6. LengthOf(t, 32) = Last
  BY DEF LengthOf, LastPulse
<1> QED BY <1>1, <1>3, <1>5, <1>6 DEF f, p

\* Pulses before the last one so far are at smaller units, those behind it are not
\* before the next one.
LEMMA PulseOrder ==
  ASSUME NEW f \in [0..31 -> Bit], NEW p, Spaced(p, f),
         NEW b \in Nat, b <= 32, NEW k \in Nat, k <= 32
  PROVE  /\ p[k] \in Nat /\ p[b] \in Nat
         /\ k < b => p[k] < p[b]
         /\ k > b => p[b + 1] <= p[k]
<1>1. p[k] \in Nat /\ p[b] \in Nat
  <2>1. k \in 0..32 /\ b \in 0..32
    OBVIOUS
  <2> QED BY <2>1, SpacedOrder
<1>2. ASSUME k < b PROVE p[k] < p[b]
  <2>1. k \in 0..31 /\ k < b
    BY <1>2
  <2>2. p[k + 1] = p[k] + 2 + 2 * f[k] /\ f[k] \in 0..1
    BY <2>1 DEF Spaced, Bit
  <2>3. p[k + 1] <= p[b]
    BY <2>1, PulseBefore
  <2> QED BY <1>1, <2>2, <2>3
<1>3. ASSUME k > b PROVE p[b + 1] <= p[k]
  <2>1. b < k
    BY <1>3
  <2> QED BY <2>1, PulseBefore
<1> QED BY <1>1, <1>2, <1>3

\* The unit behind those received is light when the pulse of the bit is there.
LEMMA PulseHere ==
  ASSUME NEW f \in [0..31 -> Bit], NEW p, Spaced(p, f), NEW b \in Nat, b <= 32,
         NEW n \in Nat, p[b] <= n
  PROVE  (\E k \in 0..b : p[k] = n) <=> n = p[b]
<1>1. ASSUME NEW k \in 0..b, p[k] = n PROVE n = p[b]
  <2>1. k \in Nat /\ k <= 32 /\ (k < b \/ k = b)
    OBVIOUS
  <2>2. p[k] \in Nat /\ p[b] \in Nat /\ (k < b => p[k] < p[b])
    BY <2>1, PulseOrder
  <2> QED BY <1>1, <2>1, <2>2
<1>2. b \in 0..b
  OBVIOUS
<1> QED BY <1>1, <1>2

\* Bitmaps are equal when their bits are.
LEMMA SameBitmaps ==
  ASSUME NEW b \in Bitmaps, NEW c \in Bitmaps,
         \A i \in 0..(NumberOfBits - 1) : b[i] = c[i]
  PROVE  b = c
<1> DEFINE D == 0..(NumberOfBits - 1)
<1>1. ASSUME NEW E, NEW V, NEW f \in [E -> V], NEW g \in [E -> V],
             \A i \in E : f[i] = g[i]
      PROVE  f = g
  BY <1>1
<1>2. b \in [D -> BOOLEAN] /\ c \in [D -> BOOLEAN] /\ \A i \in D : b[i] = c[i]
  BY DEF Bitmaps
<1> HIDE DEF D
<1> QED BY <1>1, <1>2

\* Once the next pulse is not in the bitmap, or there is none, what is stored is
\* what is measured of the frame.
LEMMA FrameStored ==
  ASSUME NEW t \in [address : Addresses, command : SentCommands, corrupt : {Intact}],
         NEW b \in Nat, b <= 32,
         b = 32 \/ PulseAt(t.address, t.command)[b + 1] >= NumberOfBits,
         NEW bits \in Bitmaps,
         \A i \in 0..(NumberOfBits - 1) :
           bits[i] <=> \E k \in 0..b : PulseAt(t.address, t.command)[k] = i
  PROVE  bits = Measured(t)
<1> DEFINE p == PulseAt(t.address, t.command)
           f == FrameBits(t.address, t.command)
<1>1. f \in [0..31 -> Bit] /\ Spaced(p, f)
  BY PulsesSent
<1>2. /\ Measured(t) \in Bitmaps
      /\ \A x \in Nat : BitmapValue(Measured(t), x) <=>
           x < NumberOfBits /\ (IsPulse(p, x) <=> x # t.corrupt)
  BY MeasuredUnits
<1> HIDE DEF p, f
<1>3. ASSUME NEW i \in 0..(NumberOfBits - 1) PROVE bits[i] = Measured(t)[i]
  <2>1. i \in Nat /\ i < NumberOfBits /\ i # t.corrupt
    BY DEF NumberOfBits, Intact
  <2>2. Measured(t)[i] <=> IsPulse(p, i)
    BY <1>2, <2>1 DEF BitmapValue
  <2>3. IsPulse(p, i) <=> \E k \in 0..b : p[k] = i
    <3>1. ASSUME NEW k \in 0..32, p[k] = i PROVE k \in 0..b
      <4>1. SUFFICES ASSUME k > b PROVE FALSE
        OBVIOUS
      <4>2. k \in Nat /\ k <= 32 /\ b < k /\ b # 32
        BY <4>1
      <4>3. p[b + 1] >= NumberOfBits
        BY <4>2 DEF p
      <4>4. p[b + 1] <= p[k] /\ p[k] \in Nat /\ p[b + 1] \in Nat
        BY <1>1, <4>2, PulseBefore
      <4>5. i < NumberOfBits /\ NumberOfBits \in Nat /\ p[k] = i
        BY <2>1, <3>1 DEF NumberOfBits
      <4> QED BY <4>3, <4>4, <4>5
    <3>2. \A k \in 0..b : k \in 0..32
      OBVIOUS
    <3> QED BY <3>1, <3>2 DEF IsPulse
  <2>4. bits[i] <=> \E k \in 0..b : p[k] = i
    BY DEF p
  <2>5. bits[i] \in BOOLEAN /\ Measured(t)[i] \in BOOLEAN
    BY <1>2 DEF Bitmaps
  <2> QED BY <2>2, <2>3, <2>4, <2>5
<1> DEFINE m == Measured(t)
<1>4. m \in Bitmaps /\ \A i \in 0..(NumberOfBits - 1) : bits[i] = m[i]
  BY <1>2, <1>3
<1> HIDE DEF m
<1>5. bits = m
  BY <1>4, SameBitmaps
<1> QED BY <1>5 DEF m

\* The invariant holds at the first pulse of the frame.
LEMMA RecInitInv == RecInit => RecInv
<1> SUFFICES ASSUME RecInit PROVE RecInv
  OBVIOUS
<1>1. GridInv /\ NecInv
  BY GridInit, NecInitInv DEF RecInit
<1>2. /\ tx \in [address : Addresses, command : SentCommands, corrupt : {Intact}]
      /\ bit = 0 /\ start = 0 /\ bits_received = 0 /\ step = "idle"
      /\ length = LengthOf(tx, bit) /\ bitmap \in Bitmaps
  BY ReceptionAssumption DEF RecInit, WaveInit, NecInit, Init
<1>3. At[0] = 0
  BY <1>2, PulsesSent DEF Spaced, At
<1>4. FrameInv
  BY <1>2, <1>3 DEF FrameInv, LastPulse
<1>5. StoredInv
  BY <1>2 DEF StoredInv
<1> QED BY <1>1, <1>4, <1>5 DEF RecInv

\* A pulse of the signal: the decoder and the bitmap do not change.
LEMMA NextPulseStep == RecInv /\ NextPulse => RecInv'
<1> SUFFICES ASSUME RecInv, NextPulse PROVE RecInv'
  OBVIOUS
<1>0. GridInv /\ NecInv /\ FrameInv /\ StoredInv
  BY DEF RecInv
<1>1. Rise /\ bit' = bit + 1 /\ length' = LengthOf(tx, bit') /\ bitmap' = bitmap /\ tx' = tx
  BY DEF NextPulse
<1>2. GridInv'
  BY <1>0, <1>1, RiseStep
<1>3. NecInv' /\ step' = step /\ sent' = sent
  <2>1. UNCHANGED <<vars, sent>>
    BY DEF NextPulse, decoder
  <2> QED BY <1>0, <2>1, NecNextInv DEF vars
<1>4. /\ length # Last /\ start' = start + length
      /\ bits_received' = bits_received /\ Receiving
  BY <1>1 DEF Rise, measured
<1>5. bits_received = start + length
  <2>1. Taken = 3 * length
    BY <1>0, <1>1, RiseAfterLast DEF Rise
  <2>2. length \in {2, 4}
    BY <1>0, <1>4 DEF GridInv, WaveTypeOK, Lengths
  <2>3. bits_received \in Nat /\ start \in Nat /\ bit_measure_num \in 0..2
    BY <1>0, Basics
  <2> QED BY <2>1, <2>2, <2>3 DEF Taken
<1>6. /\ tx \in [address : Addresses, command : SentCommands, corrupt : {Intact}]
      /\ bit \in 0..32 /\ start = At[bit] /\ length = LengthOf(tx, bit) /\ step = "idle"
  BY <1>0, <1>4 DEF FrameInv, LastPulse
<1>7. bit \in 0..31 /\ bit + 1 \in 0..32
  <2>1. bit # 32
    BY <1>4, <1>6, PulsesSent
  <2> QED BY <1>6, <2>1
<1>8. At[bit + 1] = start + length
  BY <1>6, <1>7, PulsesSent DEF At
<1>9. At' = At
  BY <1>1 DEF At
<1>10. FrameInv'
  <2>1. start' = At'[bit']
    BY <1>1, <1>4, <1>8, <1>9
  <2>2. bit' \in 0..LastPulse
    BY <1>1, <1>7 DEF LastPulse
  <2>3. step' = "idle"
    BY <1>3, <1>6
  <2> QED BY <1>1, <1>6, <2>1, <2>2, <2>3 DEF FrameInv
\* The new pulse is not in the units received.
<1>11. StoredInv'
  <2>1. ASSUME NEW i \in 0..(bits_received - 1)
        PROVE  (\E k \in 0..bit : At[k] = i) <=> (\E k \in 0..(bit + 1) : At[k] = i)
    <3>1. i # At[bit + 1]
      <4>1. bits_received \in Nat
        BY <1>0, Basics
      <4> QED BY <1>5, <1>8, <4>1
    <3>2. \A k : k \in 0..(bit + 1) <=> k \in 0..bit \/ k = bit + 1
      BY <1>7
    <3> QED BY <3>1, <3>2
  <2>2. bits_received' = bits_received
    BY <1>4
  <2> QED BY <1>0, <1>1, <1>9, <2>1, <2>2 DEF StoredInv
<1> QED BY <1>2, <1>3, <1>10, <1>11 DEF RecInv

\* The light ends: nothing is stored.
LEMMA LightEndsStep == RecInv /\ LightEnds => RecInv'
<1> SUFFICES ASSUME RecInv, LightEnds PROVE RecInv'
  OBVIOUS
<1>0. GridInv /\ NecInv /\ FrameInv /\ StoredInv
  BY DEF RecInv
<1>1. Fall /\ bitmap' = bitmap /\ tx' = tx /\ bit' = bit
  BY DEF LightEnds
<1>2. GridInv'
  BY <1>0, <1>1, FallStep
<1>3. NecInv' /\ step' = step /\ sent' = sent
  <2>1. UNCHANGED <<vars, sent>>
    BY DEF LightEnds, decoder
  <2> QED BY <1>0, <2>1, NecNextInv DEF vars
<1>4. start' = start /\ length' = length /\ bits_received' = bits_received
  BY <1>1 DEF Fall, measured
<1> QED BY <1>0, <1>1, <1>2, <1>3, <1>4 DEF RecInv, FrameInv, StoredInv, At, Receiving

\* A measure that completes a unit stores it behind those before it.
LEMMA UnitStored ==
  ASSUME RecInv, GridInv', Measure, bits_received' # bits_received
  PROVE  /\ bits_received' = bits_received + 1 /\ bits_received \in 0..(NumberOfBits - 1)
         /\ PushSignalValue(pushed', bits_received)
         /\ StoredInv'
<1>0. GridInv /\ FrameInv /\ StoredInv /\ TimerCallback /\ tx' = tx /\ bit' = bit
  BY DEF RecInv, Measure
<1>1. /\ bits_received' = bits_received + 1 /\ bit_measure_num' = 0
      /\ bits_received < NumberOfUnits
  BY <1>0 DEF TimerCallback, ReceiveCommand, Receiving
<1>2. bits_received \in Nat /\ start \in Nat /\ start <= bits_received /\ start' = start
  BY <1>0, Basics DEF TimerCallback, signal
<1>3. bits_received \in 0..(NumberOfBits - 1)
  BY <1>1, <1>2, ReceptionAssumption DEF NumberOfBits
<1>4. PushSignalValue(pushed', bits_received)
  BY DEF Measure
<1>5. pushed' \in BOOLEAN /\ (pushed' <=> bits_received = start)
  <2>1. UnitsAsSent' /\ pushed' \in BOOLEAN
    BY DEF GridInv, WaveTypeOK
  <2>2. bits_received' > start' /\ (bits_received' = start' + 1 <=> bits_received = start)
    BY <1>1, <1>2
  <2> QED BY <2>1, <2>2, <1>1 DEF UnitsAsSent
<1>6. bitmap' = [bitmap EXCEPT ![bits_received] = pushed'] /\ bitmap \in Bitmaps
  BY <1>0, <1>4 DEF PushSignalValue, BitmapValueSet, StoredInv
<1>7. /\ bitmap' \in Bitmaps /\ bitmap'[bits_received] = pushed'
      /\ \A i \in 0..(bits_received - 1) : bitmap'[i] = bitmap[i]
  <2> DEFINE n == bits_received
             v == pushed'
  <2>1. \A i \in 0..(n - 1) : i \in 0..(NumberOfBits - 1) /\ i # n
    BY <1>3 DEF NumberOfBits
  <2>2. v \in BOOLEAN
    BY <1>5, Zenon
  <2>3. n \in 0..(NumberOfBits - 1)
    BY <1>3, Zenon
  <2>4. bitmap' = [bitmap EXCEPT ![n] = v]
    BY <1>6
  <2> HIDE DEF n, v
  <2>5. bitmap' \in Bitmaps /\ bitmap'[n] = v /\ \A i \in 0..(n - 1) : bitmap'[i] = bitmap[i]
    BY <1>6, <2>1, <2>2, <2>3, <2>4 DEF Bitmaps
  <2> QED BY <2>5 DEF n, v
<1>8. bits_received = start <=> \E k \in 0..bit : At[k] = bits_received
  <2>1. /\ tx \in [address : Addresses, command : SentCommands, corrupt : {Intact}]
        /\ bit \in Nat /\ bit <= 32 /\ start = At[bit]
    BY <1>0 DEF FrameInv, LastPulse
  <2>2. /\ FrameBits(tx.address, tx.command) \in [0..31 -> Bit]
        /\ Spaced(At, FrameBits(tx.address, tx.command))
    BY <2>1, PulsesSent DEF At
  <2> QED BY <1>2, <2>1, <2>2, PulseHere
<1>9. At' = At
  BY <1>0 DEF At
<1>10. ASSUME NEW i \in 0..(bits_received' - 1)
       PROVE  bitmap'[i] <=> \E k \in 0..bit' : At'[k] = i
  <2>1. CASE i = bits_received
    BY <1>0, <1>5, <1>7, <1>8, <1>9, <2>1
  <2>2. CASE i # bits_received
    <3>1. i \in 0..(bits_received - 1)
      BY <1>1, <1>2, <2>2
    <3> QED BY <1>0, <1>7, <1>9, <3>1 DEF StoredInv
  <2> QED BY <2>1, <2>2
<1> QED BY <1>1, <1>3, <1>4, <1>7, <1>10 DEF StoredInv

Full == bits_received = NumberOfBits

PulsesOver == bit = 32 \/ At[bit + 1] >= NumberOfBits

\* When the bitmap is full, the next pulse is not in it.
LEMMA NoMorePulses == GridInv /\ FrameInv /\ Full => PulsesOver
<1> SUFFICES ASSUME GridInv, FrameInv, bits_received = NumberOfBits
             PROVE  bit = 32 \/ At[bit + 1] >= NumberOfBits
  BY DEF Full, PulsesOver
<1>1. SUFFICES ASSUME bit # 32 PROVE At[bit + 1] >= NumberOfBits
  OBVIOUS
<1>2. /\ tx \in [address : Addresses, command : SentCommands, corrupt : {Intact}]
      /\ bit \in 0..31 /\ start = At[bit] /\ length = LengthOf(tx, bit)
  BY <1>1 DEF FrameInv, LastPulse
<1>3. length \in {2, 4} /\ At[bit + 1] = start + length
  BY <1>2, PulsesSent DEF At
<1>4. start \in Nat /\ bits_received \in Nat /\ bit_measure_num \in 0..2
  BY Basics
<1>5. Taken <= 3 * length
  BY <1>3, <1>4 DEF GridInv, LightInv, DarkInv, Last, Taken
<1> QED BY <1>3, <1>4, <1>5 DEF Taken, NumberOfBits

\* A measure keeps the invariant; the last one sends the decoder what module
\* NecRemote says is measured of the frame.
LEMMA MeasureStep == RecInv /\ Measure => RecInv' /\ [NecNext]_<<vars, sent>>
<1> SUFFICES ASSUME RecInv, Measure PROVE RecInv' /\ [NecNext]_<<vars, sent>>
  OBVIOUS
<1>0. GridInv /\ NecInv /\ FrameInv /\ StoredInv /\ TimerCallback /\ tx' = tx /\ bit' = bit
  BY DEF RecInv, Measure
<1>1. GridInv'
  BY <1>0, CallbackStep
<1>2. start' = start /\ length' = length /\ Receiving /\ step = "idle"
  BY <1>0 DEF TimerCallback, signal, FrameInv
<1>3. ASSUME UNCHANGED decoder PROVE NecInv' /\ step' = step /\ sent' = sent
  <2>1. UNCHANGED <<vars, sent>>
    BY <1>3 DEF decoder
  <2> QED BY <1>0, <2>1, NecNextInv DEF vars
<1>4. At' = At
  BY <1>0 DEF At
<1>5. CASE bits_received' = bits_received
  <2>1. bitmap' = bitmap /\ UNCHANGED decoder
    BY <1>5 DEF Measure
  <2>2. StoredInv' /\ FrameInv'
    BY <1>0, <1>2, <1>3, <1>4, <1>5, <2>1 DEF StoredInv, FrameInv, Receiving
  <2> QED BY <1>1, <1>3, <2>1, <2>2 DEF RecInv, decoder
<1>6. CASE bits_received' # bits_received
  <2>1. /\ bits_received' = bits_received + 1 /\ bits_received \in 0..(NumberOfBits - 1)
        /\ PushSignalValue(pushed', bits_received)
        /\ StoredInv'
    BY <1>1, <1>6, UnitStored
  <2>2. CASE bits_received # NumberOfBits - 1
    <3>1. UNCHANGED decoder
      BY <2>1, <2>2 DEF PushSignalValue
    <3>2. FrameInv'
      BY <1>0, <1>2, <1>3, <1>4, <3>1 DEF FrameInv
    <3> QED BY <1>1, <1>3, <2>1, <3>1, <3>2 DEF RecInv, decoder
  <2>3. CASE bits_received = NumberOfBits - 1
    <3>1. FrameReceived(bitmap') /\ sent' = tx
      BY <2>1, <2>3 DEF PushSignalValue
    <3>2. bits_received' = NumberOfBits /\ step' = "word"
      BY <2>1, <2>3, <3>1 DEF FrameReceived, NumberOfBits
    <3>3. FrameInv'
      <4>1. ~Receiving'
        BY <3>2, ReceptionAssumption DEF Receiving, NumberOfBits
      <4> QED BY <1>0, <1>2, <1>4, <3>1, <4>1 DEF FrameInv
    <3>4. bitmap' = Measured(tx)
      <4>1. bit' = 32 \/ At'[bit' + 1] >= NumberOfBits
        <5>1. Full'
          BY <3>2 DEF Full
        <5>2. PulsesOver'
          BY <1>1, <3>3, <5>1, NoMorePulses, PTL
        <5> QED BY <5>2 DEF PulsesOver
      <4>2. /\ tx \in [address : Addresses, command : SentCommands, corrupt : {Intact}]
            /\ bit \in Nat /\ bit <= 32 /\ bit' = bit
        BY <1>0 DEF FrameInv, LastPulse
      <4>3. /\ bitmap' \in Bitmaps
            /\ \A i \in 0..(NumberOfBits - 1) : bitmap'[i] <=> \E k \in 0..bit : At[k] = i
        BY <1>0, <1>4, <2>1, <3>2 DEF StoredInv
      <4> QED BY <1>0, <1>4, <4>1, <4>2, <4>3, FrameStored DEF At
    <3>5. Send
      <4>1. tx \in Transmissions
        BY <1>0, PulsesSent DEF FrameInv
      <4> QED BY <3>1, <3>4, <4>1 DEF Send
    <3>6. NecInv'
      BY <1>0, <3>5, NecNextInv DEF NecNext
    <3> QED BY <1>1, <2>1, <3>3, <3>5, <3>6 DEF RecInv, NecNext
  <2> QED BY <2>2, <2>3
<1> QED BY <1>5, <1>6

\* The decoder runs: the bitmap and the signal do not change.
LEMMA DecodeStep == RecInv /\ Decode => RecInv' /\ [NecNext]_<<vars, sent>>
<1> SUFFICES ASSUME RecInv, Decode PROVE RecInv' /\ [NecNext]_<<vars, sent>>
  OBVIOUS
<1>0. GridInv /\ NecInv /\ FrameInv /\ StoredInv
  BY DEF RecInv
<1>1. NecNext
  BY DEF Decode, NecNext
<1>2. NecInv'
  BY <1>0, <1>1, NecNextInv
<1>3. UNCHANGED <<waveform, bitmap, tx, bit>>
  BY DEF Decode
<1>4. GridInv'
  BY <1>0, <1>3, GridStutter
<1>5. /\ bits_received' = bits_received /\ start' = start /\ length' = length
      /\ bitmap' = bitmap /\ tx' = tx /\ bit' = bit /\ At' = At
  BY <1>3 DEF waveform, measured, signal, At
<1>6. step # "idle" /\ (step' # "idle" => sent' = sent)
  BY DEF Decode, DecodeCommand, DecodeWord, DecodeByteCommand, DecodeByteInverse, Check, Return
<1>7. FrameInv' /\ StoredInv'
  BY <1>0, <1>5, <1>6 DEF FrameInv, StoredInv, Receiving
<1> QED BY <1>1, <1>2, <1>4, <1>7 DEF RecInv

\* Every step keeps the invariant, and is one of the remote and the decoder, or
\* changes nothing of them.
LEMMA RecStep ==
  RecInv /\ [RecNext]_<<waveform, bitmap, tx, bit, decoder>> =>
    RecInv' /\ [NecNext]_<<vars, sent>>
<1> SUFFICES ASSUME RecInv, [RecNext]_<<waveform, bitmap, tx, bit, decoder>>
             PROVE  RecInv' /\ [NecNext]_<<vars, sent>>
  OBVIOUS
<1>1. CASE NextPulse
  BY <1>1, NextPulseStep DEF NextPulse, decoder
<1>2. CASE LightEnds
  BY <1>2, LightEndsStep DEF LightEnds, decoder
<1>3. CASE Measure
  BY <1>3, MeasureStep
<1>4. CASE Decode
  BY <1>4, DecodeStep
<1>5. CASE UNCHANGED <<waveform, bitmap, tx, bit, decoder>>
  <2>1. UNCHANGED <<vars, sent>>
    BY <1>5 DEF decoder
  <2>2. GridInv' /\ NecInv'
    BY <1>5, <2>1, GridStutter, NecNextInv DEF RecInv
  <2>3. FrameInv' /\ StoredInv'
    BY <1>5, <2>1 DEF RecInv, FrameInv, StoredInv, At, Receiving, waveform, measured, signal, vars
  <2> QED BY <2>1, <2>2, <2>3 DEF RecInv
<1>6. CASE Over
  BY <1>5, <1>6 DEF Over, Complete
<1> QED BY <1>1, <1>2, <1>3, <1>4, <1>5, <1>6 DEF RecNext

\* What the signal, the bitmap and the decoder have to do with each other at every
\* moment of a frame.
THEOREM ReceptionInvariance == RecSpec => []RecInv
<1> QED BY RecInitInv, RecStep, PTL DEF RecSpec

\* Every variable keeps its type.
THEOREM RecTypeCorrect == RecSpec => []RecTypeOK
<1>1. RecInv => RecTypeOK
  BY DEF RecInv, GridInv, NecInv, IInv, FrameInv, StoredInv, RecTypeOK
<1> QED BY <1>1, ReceptionInvariance, PTL

\* Its signal is one of module Waveform, so that what is proved of those holds here.
THEOREM ReceptionImplementsWave == RecSpec => WaveSpec
<1>1. RecInit => WaveInit
  BY DEF RecInit
<1>2. [RecNext]_<<waveform, bitmap, tx, bit, decoder>> => [WaveNext]_waveform
  BY DEF RecNext, NextPulse, LightEnds, Measure, Decode, Over, WaveNext
<1> QED BY <1>1, <1>2, PTL DEF RecSpec, WaveSpec

\* A frame that is sampled, stored unit by unit and decoded is a frame of the
\* undisturbed remote of module NecRemote: the errors of the edges, the late
\* interrupts, the truncated period and what a frame before has left in the bitmap
\* make no difference to the decoder.
THEOREM ReceptionImplementsNec == RecSpec => NecSpec
<1>1. RecInit => NecInit
  BY DEF RecInit
<1> QED BY <1>1, ReceptionInvariance, RecStep, PTL DEF RecSpec, NecSpec

\* A key that is pressed reaches the callback, for every tolerable signal.
THEOREM KeysReceivedSafe == RecSpec => []KeysReceived
<1>1. RecInv => KeysReceived
  <2> SUFFICES ASSUME RecInv, step = "done", KeyOf(tx.address, tx.command) # "none"
               PROVE  accepted /\ address = tx.address /\ command = tx.command
    BY DEF KeysReceived
  <2>1. NecInv /\ sent = tx /\ tx.corrupt = Intact
    BY DEF RecInv, FrameInv
  <2> QED BY <2>1, KeysStep DEF KeysDelivered, DeliveredAsSent
<1> QED BY <1>1, ReceptionInvariance, PTL

=============================================================================
