--------------------------------- MODULE Pwm ---------------------------------
(***************************************************************************)
(* Pulse width modulation (extras/pwm/pwm.c) on the timer FRC1             *)
(* (core/esp_timer.c): a one-shot timer whose interrupt turns the pins     *)
(* over and loads the other half of the period.  The task that calls the   *)
(* interface is interrupted between any two steps of a call.               *)
(*                                                                         *)
(* All pins carry one level.  Of the duty cycle it matters whether it is   *)
(* 0, UINT16_MAX or between; loads are not modelled.                       *)
(***************************************************************************)
EXTENDS Interrupts, Sequences

CONSTANTS
    PwmTask,        \* the task that calls pwm_...
    MaxCalls        \* bound on its calls

ASSUME PwmAssumption == PwmTask \in Tasks /\ MaxCalls \in Nat

VARIABLES
    running, duty, step,    \* pwmInfo
    pins,                   \* the level of the pins
    counting,               \* FRC1 runs
    loaded,                 \* ... and has not come to its end
    dport,                  \* DPORT.INT_ENABLE has the timer's bit
    edge,                   \* its interrupt is pending at the CPU
    todo,                   \* the steps left of the call in progress
    frozen,                 \* history: the last call left constant output
    calls                   \* calls so far

pwmVars == <<running, duty, step, pins, counting, loaded, dport, edge, todo, frozen, calls>>

Duties == {"zero", "mid", "max"}
Steps == {"dportOff", "rsr", "mask", "halt", "pinsOn", "load", "dportOn", "unmask", "run", "const"}

-----------------------------------------------------------------------------
(* The timer (external), and its interrupt.                                *)

TimerEnds ==
    /\ counting /\ loaded
    /\ loaded' = FALSE
    /\ edge' = (edge \/ dport)
    /\ UNCHANGED <<running, duty, step, pins, counting, dport, todo, frozen, calls, intVars>>

TimerRaised == edge /\ FRC1 \in intenable

\* Mutant: the timer is not loaded again.
frc1_interrupt_handler_NoLoad ==
    /\ TimerRaised
    /\ edge' = FALSE
    /\ pins' = (step = "off")
    /\ step' = IF step = "on" THEN "off" ELSE "on"
    /\ UNCHANGED <<running, duty, counting, loaded, dport, todo, frozen, calls, intVars>>

frc1_interrupt_handler ==
    /\ TimerRaised
    /\ edge' = FALSE
    /\ pins' = (step = "off")
    /\ step' = IF step = "on" THEN "off" ELSE "on"
    /\ loaded' = TRUE
    /\ UNCHANGED <<running, duty, counting, dport, todo, frozen, calls, intVars>>

-----------------------------------------------------------------------------
(* The interface: a call is a sequence of steps.                           *)

\* Mutant: the CPU's mask is cleared before the timer's own.
StopSteps_MaskFirst == <<"rsr", "mask", "dportOff", "halt">>

StopSteps == <<"dportOff", "rsr", "mask", "halt">>
StartSteps == <<"pinsOn", "load", "dportOn", "rsr", "unmask", "run">>

Begin(steps, d, freeze) ==
    /\ todo = <<>> /\ calls < MaxCalls
    /\ calls' = calls + 1
    /\ todo' = steps
    /\ duty' = d
    /\ frozen' = freeze
    /\ UNCHANGED <<running, step, pins, counting, loaded, dport, edge, intVars>>

pwm_stop == Begin(StopSteps, duty, TRUE)
pwm_start == Begin(StartSteps, duty, FALSE)
pwm_restart == running /\ Begin(StopSteps \o StartSteps, duty, FALSE)

\* timer_set_frequency loads the timer.
pwm_set_freq ==
    \/ running /\ Begin(StopSteps \o <<"load">> \o StartSteps, duty, FALSE)
    \/ ~running /\ Begin(<<"load">>, duty, frozen)

pwm_set_duty(d) ==
    \/ d = "mid" /\ running /\ Begin(StopSteps \o StartSteps, d, FALSE)
    \/ d = "mid" /\ ~running /\ Begin(<<>>, d, frozen)
    \/ d # "mid" /\ Begin(StopSteps \o <<"const">>, d, TRUE)

PwmCall ==
    \/ pwm_stop \/ pwm_start \/ pwm_restart \/ pwm_set_freq
    \/ \E d \in Duties : pwm_set_duty(d)

Doing(s) == todo # <<>> /\ Head(todo) = s /\ todo' = Tail(todo) /\ UNCHANGED <<duty, frozen, calls, edge>>

\* timer_set_interrupts(FRC1, false), timer_set_run(FRC1, false).
DportOff ==
    /\ Doing("dportOff")
    /\ dport' = FALSE
    /\ UNCHANGED <<running, step, pins, counting, loaded, intVars>>
PwmRsr ==
    /\ Doing("rsr")
    /\ Rsr(PwmTask)
    /\ UNCHANGED <<running, step, pins, counting, loaded, dport>>
PwmMask ==
    /\ Doing("mask")
    /\ WsrMask(PwmTask, FRC1)
    /\ UNCHANGED <<running, step, pins, counting, loaded, dport>>
Halt ==
    /\ Doing("halt")
    /\ counting' = FALSE /\ running' = FALSE
    /\ UNCHANGED <<step, pins, loaded, dport, intVars>>

\* pwm_start: the first half of a period, then the timer.
PinsOn ==
    /\ Doing("pinsOn")
    /\ step' = "on" /\ pins' = TRUE
    /\ UNCHANGED <<running, counting, loaded, dport, intVars>>
Load ==
    /\ Doing("load")
    /\ loaded' = TRUE
    /\ UNCHANGED <<running, step, pins, counting, dport, intVars>>
DportOn ==
    /\ Doing("dportOn")
    /\ dport' = TRUE
    /\ UNCHANGED <<running, step, pins, counting, loaded, intVars>>
PwmUnmask ==
    /\ Doing("unmask")
    /\ WsrUnmask(PwmTask, FRC1)
    /\ UNCHANGED <<running, step, pins, counting, loaded, dport>>
Run ==
    /\ Doing("run")
    /\ counting' = TRUE /\ running' = TRUE
    /\ UNCHANGED <<step, pins, loaded, dport, intVars>>

\* pwm_set_duty(0) and pwm_set_duty(UINT16_MAX), after the stop.
Constant ==
    /\ Doing("const")
    /\ running' = TRUE /\ pins' = (duty = "max")
    /\ UNCHANGED <<step, counting, loaded, dport, intVars>>

PwmStep ==
    \/ DportOff \/ PwmRsr \/ PwmMask \/ Halt \/ PinsOn \/ Load \/ DportOn \/ PwmUnmask \/ Run \/ Constant

\* After pwm_init.
PwmInit ==
    /\ running = FALSE /\ duty = "zero" /\ step = "on" /\ pins = FALSE
    /\ counting = FALSE /\ loaded = FALSE /\ dport = FALSE /\ edge = FALSE
    /\ todo = <<>> /\ frozen = TRUE /\ calls = 0

PwmTypeOK ==
    /\ running \in BOOLEAN /\ duty \in Duties /\ step \in {"on", "off"} /\ pins \in BOOLEAN
    /\ counting \in BOOLEAN /\ loaded \in BOOLEAN /\ dport \in BOOLEAN /\ edge \in BOOLEAN
    /\ todo \in Seq(Steps)
    /\ frozen \in BOOLEAN /\ calls \in Nat
=============================================================================
