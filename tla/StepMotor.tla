----------------------------- MODULE StepMotor -----------------------------
(***************************************************************************)
(* The firmware of the step motor (src/STM32MotorControl).  main only      *)
(* starts the timer and waits: everything happens in two interrupt         *)
(* handlers of one priority, so each runs from start to end:               *)
(*                                                                         *)
(*   RxCplt          a byte has arrived on the serial line; the end of a   *)
(*                   line executes it;                                     *)
(*   PulseFinished   the PWM output has fallen: one pulse is over.         *)
(*                                                                         *)
(* The shaft turns when the output RISES, in the direction of the pin; the *)
(* handler counts when it has FALLEN, in the direction of the variable.    *)
(*                                                                         *)
(* An angle is a number of half steps: an even one is a multiple of        *)
(* DEG_PER_STEP, an odd one any angle between two multiples.  The number   *)
(* of steps being even, sums, comparisons and the cut to whole steps come  *)
(* out as in the code.                                                     *)
(***************************************************************************)
EXTENDS MotorLines

CONSTANTS Steps,    \* STEP_PER_REV
          RxSize,   \* RX_BUFFER_SIZE
          Inputs    \* streams the serial line may carry

ASSUME BoardAssumption ==
    /\ Steps \in Nat /\ Steps >= 4 /\ Steps % 2 = 0
    /\ \A d \in Digits : d <= 2 * Steps
    /\ \A d, e \in Digits : d * Base + e <= 2 * Steps
    /\ RxSize \in Nat /\ RxSize >= 5     \* room for a word and a number
    /\ Inputs \subseteq Seq(Bytes)

VARIABLES
    rotation,   \* rotation_mode = 1
    direction,  \* direction: 1 clockwise, -1 counter-clockwise
    pin,        \* DIR_Pin, as a direction
    target,     \* target_angle
    count,      \* current_pulse_count
    remaining,  \* remaining_pulse
    pwm,        \* the timer is running
    pulse,      \* direction of the pulse under way, 0 when the output is low
    rx,         \* rx_buffer
    lag,        \* steps the shaft has turned beyond count
    obeyed,     \* the orders carried out, by their angles
    heard       \* the bytes received

board == <<rotation, direction, pin, target, count, remaining, pwm, pulse, rx,
           lag, obeyed>>
vars  == <<board, heard>>

Init ==
    /\ rotation = FALSE /\ direction = 1
    /\ pin = -1                     \* MX_GPIO_Init resets the pin
    /\ target = 0 /\ count = 0 /\ remaining = 0
    /\ pwm = TRUE /\ pulse = 0      \* main starts the PWM
    /\ rx = <<>> /\ lag = 0 /\ obeyed = <<>> /\ heard = <<>>

\* (c + STEP_PER_REV) % STEP_PER_REV, for a step beyond either end
Wrap(c) == IF c < 0 THEN c + Steps ELSE IF c >= Steps THEN c - Steps ELSE c

\* fmodf(a + 360, 360)
Turn(a) == IF a < 0 THEN a + 2 * Steps
           ELSE IF a >= 2 * Steps THEN a - 2 * Steps ELSE a

\* (uint32_t)(target_angle / DEG_PER_STEP) % STEP_PER_REV
TargetCount == Wrap(target \div 2)

\* (uint32_t)(diff / DEG_PER_STEP): in single precision the quotient of a
\* multiple may fall just below it.  No other is rounded past a whole number
\* as long as an angle has the two decimals rotateToAngle prints.
Pulses(diff) ==
    {diff \div 2} \cup
    (IF diff % 2 = 0 /\ diff > 0 THEN {diff \div 2 - 1} ELSE {})

\* Steps from count c to count t, the short way round.
Near(c, t) == IF 2 * (t - c) > Steps THEN t - c - Steps
              ELSE IF 2 * (t - c) < -Steps THEN t - c + Steps ELSE t - c

-----------------------------------------------------------------------------
(* The timer: a rising edge moves the shaft by one step. *)
PulseRise ==
    /\ pwm /\ pulse = 0
    /\ pulse' = pin
    /\ lag' = lag + pin
    /\ UNCHANGED <<rotation, direction, pin, target, count, remaining, pwm, rx,
                   obeyed>>

(* HAL_TIM_PWM_PulseFinishedCallback: rotating, every pulse counts up. *)
CountRotation ==
    /\ pulse # 0 /\ rotation
    /\ count' = Wrap(count + 1)
    /\ lag' = lag - 1
    /\ pulse' = 0
    /\ UNCHANGED <<rotation, direction, pin, target, remaining, pwm, rx, obeyed>>

(* Mutated CountTurn: without the remainder. *)
CountTurnUnwrapped ==
    /\ pulse # 0 /\ ~rotation /\ remaining > 0
    /\ count' = count + direction
    /\ lag' = lag - direction
    /\ remaining' = remaining - 1
    /\ pulse' = 0
    /\ UNCHANGED <<rotation, direction, pin, target, pwm, rx, obeyed>>

(* Mutated CountTurn: counts up whatever the direction. *)
CountTurnUp ==
    /\ pulse # 0 /\ ~rotation /\ remaining > 0
    /\ count' = Wrap(count + 1)
    /\ lag' = lag - 1
    /\ remaining' = remaining - 1
    /\ pulse' = 0
    /\ UNCHANGED <<rotation, direction, pin, target, pwm, rx, obeyed>>

(* Mutated CountTurn: the pulse is not taken off. *)
CountTurnForever ==
    /\ pulse # 0 /\ ~rotation /\ remaining > 0
    /\ count' = Wrap(count + direction)
    /\ lag' = lag - direction
    /\ pulse' = 0
    /\ UNCHANGED <<rotation, direction, pin, target, remaining, pwm, rx, obeyed>>

(* Stopping: count in the direction of the order while pulses remain. *)
CountTurn ==
    /\ pulse # 0 /\ ~rotation /\ remaining > 0
    /\ count' = Wrap(count + direction)
    /\ lag' = lag - direction
    /\ remaining' = remaining - 1
    /\ pulse' = 0
    /\ UNCHANGED <<rotation, direction, pin, target, pwm, rx, obeyed>>

(* The pulse after the last one: stop the timer, take the target for the   *)
(* position.                                                               *)
Halt ==
    /\ pulse # 0 /\ ~rotation /\ remaining = 0
    /\ pwm' = FALSE
    /\ count' = TargetCount
    /\ lag' = lag - Near(count, TargetCount)
    /\ pulse' = 0
    /\ UNCHANGED <<rotation, direction, pin, target, remaining, rx, obeyed>>

PulseFinished == CountRotation \/ CountTurn \/ Halt

-----------------------------------------------------------------------------
(* HAL_UART_RxCpltCallback. *)

StoreByte(b) ==
    /\ b # EOL
    /\ rx' = IF Len(rx) < RxSize - 1 THEN Append(rx, b) ELSE rx
    /\ UNCHANGED <<rotation, direction, pin, target, count, remaining, pwm,
                   pulse, lag, obeyed>>

(* Mutated StartRotation: the pin keeps the direction of the last turn. *)
StartRotationAsIs(b) ==
    /\ b = EOL /\ IsRotation(rx)
    /\ rotation' = TRUE /\ pwm' = TRUE
    /\ rx' = <<>>
    /\ obeyed' = Append(obeyed, -1)
    /\ UNCHANGED <<direction, pin, target, count, remaining, pulse, lag>>

StartRotation(b) ==
    /\ b = EOL /\ IsRotation(rx)
    /\ rotation' = TRUE /\ pin' = 1 /\ pwm' = TRUE
    /\ rx' = <<>>
    /\ obeyed' = Append(obeyed, -1)
    /\ UNCHANGED <<direction, target, count, remaining, pulse, lag>>

\* The shorter way to the target, in whole steps.
StartTurn(b) ==
    LET angle   == AngleOf(rx)
        cwDiff  == Turn(angle - 2 * count)
        ccwDiff == Turn(2 * count - angle)
    IN
    /\ b = EOL /\ IsStop(rx)
    /\ rotation' = FALSE /\ target' = angle /\ pwm' = TRUE
    /\ \/ /\ cwDiff <= ccwDiff
          /\ direction' = 1 /\ pin' = 1
          /\ remaining' \in Pulses(cwDiff)
       \/ /\ cwDiff > 0 /\ cwDiff >= ccwDiff    \* a tie may be rounded
          /\ direction' = -1 /\ pin' = -1
          /\ remaining' \in Pulses(ccwDiff)
    /\ rx' = <<>>
    /\ obeyed' = Append(obeyed, angle)
    /\ UNCHANGED <<count, pulse, lag>>

(* Mutated IgnoreLine: only a known line clears the buffer. *)
IgnoreLineKept(b) ==
    /\ b = EOL /\ ~IsRotation(rx) /\ ~IsStop(rx)
    /\ UNCHANGED board

IgnoreLine(b) ==
    /\ b = EOL /\ ~IsRotation(rx) /\ ~IsStop(rx)
    /\ rx' = <<>>
    /\ UNCHANGED <<rotation, direction, pin, target, count, remaining, pwm,
                   pulse, lag, obeyed>>

RxCplt(b) == StoreByte(b) \/ StartRotation(b) \/ StartTurn(b) \/ IgnoreLine(b)

Receive ==
    \E input \in Inputs :
        LET n == Len(heard) + 1 IN
        /\ n <= Len(input) /\ heard = SubSeq(input, 1, n - 1)
        /\ RxCplt(input[n])
        /\ heard' = Append(heard, input[n])

Pulse == (PulseRise \/ PulseFinished) /\ UNCHANGED heard

Next == Pulse \/ Receive

Spec == Init /\ [][Next]_vars

(* The timer runs by itself and its interrupt is served before the next    *)
(* pulse.                                                                  *)
FairSpec == Spec /\ WF_vars(Pulse)

-----------------------------------------------------------------------------
TypeOK ==
    /\ rotation \in BOOLEAN /\ pwm \in BOOLEAN
    /\ direction \in {-1, 1} /\ pin \in {-1, 1} /\ pulse \in {-1, 0, 1}
    /\ target \in 0..2 * Steps /\ count \in 0..Steps - 1
    /\ remaining \in 0..Steps \div 2
    /\ rx \in Seq(Text)
    /\ lag \in Int
    /\ obeyed \in Seq(-1..2 * Steps)
    /\ heard \in Seq(Bytes)

(* After an order to stop, the pulses left always lead from the position   *)
(* counted to the target or, when the division was cut, to the step before *)
(* it, however pulses and orders of the two handlers follow on each other. *)
HeadsForTarget ==
    ~rotation =>
        Wrap(IF direction = 1 THEN count + remaining ELSE count - remaining)
            \in {TargetCount, Wrap(TargetCount - direction)}

(* The two handlers may meet an order between the edge that moves the      *)
(* shaft and the edge that counts it, and the last pulse is never counted: *)
(* the position counted still strays from the shaft by no more than three  *)
(* steps for every order, and never while the motor rotates.               *)
DriftPerOrder ==
    pulse = 0 => /\ lag <= 1 + 3 * Len(obeyed)
                 /\ -lag <= 1 + 3 * Len(obeyed)

(* The firmware carries out exactly the orders of the lines it has heard,  *)
(* in their order: an unknown, cut or overlong line costs no other.        *)
LinesObeyed ==
    /\ Len(obeyed) = Cardinality(OrderEnds(heard))
    /\ \A n \in OrderEnds(heard) :
          obeyed[Cardinality({m \in OrderEnds(heard) : m <= n})]
              = Value(LineAt(heard, n))

(* Unless ordered to rotate, the motor comes to rest, the position counted *)
(* being the target of the last order.                                     *)
RestsAtTarget ==
    ~rotation ~> (rotation \/ (~pwm /\ count = TargetCount))
=============================================================================
