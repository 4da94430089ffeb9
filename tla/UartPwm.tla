------------------------------- MODULE UartPwm -------------------------------
(***************************************************************************)
(* A program that reads standard input in one task and drives pins by PWM  *)
(* in another.  The two share nothing but the interrupt mask.  Tasks take  *)
(* turns at any step; an interrupt that is raised and enabled is served    *)
(* before a task goes on.                                                  *)
(***************************************************************************)
EXTENDS StdinUart, Pwm

ASSUME TwoTasksAssumption == Reader # PwmTask

vars == <<intVars, uartVars, pwmVars>>

\* _xt_isr_handler: handlers do not raise or mask each other, so serving the
\* raised ones one by one is serving them as a set.
UartInterrupt == uart0_rx_handler /\ UNCHANGED pwmVars
TimerInterrupt == frc1_interrupt_handler /\ UNCHANGED uartVars

NoInterrupt == ~UartRaised /\ ~TimerRaised

BytesCome == (Receive \/ Reassert) /\ UNCHANGED pwmVars
TimeOut == TimerEnds /\ UNCHANGED uartVars
ReaderCalls == NoInterrupt /\ Call /\ UNCHANGED pwmVars
ReaderRuns == NoInterrupt /\ ReaderStep /\ UNCHANGED pwmVars
PwmCalls == NoInterrupt /\ PwmCall /\ UNCHANGED uartVars
PwmRuns == NoInterrupt /\ PwmStep /\ UNCHANGED uartVars

Init == IntInit /\ UartInit /\ PwmInit
Next ==
    \/ UartInterrupt \/ TimerInterrupt \/ BytesCome \/ TimeOut
    \/ ReaderCalls \/ ReaderRuns \/ PwmCalls \/ PwmRuns
Spec == Init /\ [][Next]_vars

\* The CPU serves interrupts and a timer that counts comes to its end.  Between
\* interrupts there is time for tasks, and the scheduler shares it: a task that
\* can run again and again does.  Nobody need send a byte or make a call.
Fairness ==
    /\ WF_vars(UartInterrupt) /\ WF_vars(TimerInterrupt) /\ WF_vars(TimeOut)
    /\ SF_vars(ReaderRuns) /\ SF_vars(PwmRuns)
FairSpec == Spec /\ Fairness

-----------------------------------------------------------------------------
(* Properties.                                                             *)

\* The types of the variables.  In particular the FIFO and the semaphore keep
\* within their sizes, and _read_r stores no byte beyond the len it was given.
TypeOK == IntTypeOK /\ UartTypeOK /\ PwmTypeOK

\* A reader that waits while there is a byte will be told: the signal has been
\* given, or the interrupt is raised and enabled.  (Unless a task has undone
\* another's change of the mask.)
NoLostWakeup ==
    ~torn /\ rpc = "take" /\ fifo > 0 => sem > 0 \/ UartRaised

\* Signals do not pile up: the semaphore never holds more than two, so that it
\* cannot reach its limit, and no more than two ghosts are read for want of a
\* byte before the reader really waits.
GhostsBounded == ~torn => ghosts + sem <= 2

\* Once pwm_stop, or pwm_set_duty with 0% or 100%, is done, the pins keep
\* their level until a call that starts them again, even if the mask of the
\* timer's interrupt has been undone by the other task.
OutputFrozen == [][frozen /\ todo = <<>> /\ todo' = <<>> => pins' = pins]_vars

\* With a byte in the FIFO, a read in progress gets on to its next byte.
ReaderServed ==
    \A n \in 1 .. MaxLen :
        (inited /\ rpc # "idle" /\ left = n /\ fifo > 0) ~> (left # n \/ torn)

\* A started output keeps turning over.
PwmTurnsOver ==
    \A level \in BOOLEAN :
        (running /\ ~frozen /\ todo = <<>> /\ pins = level) ~> (pins # level \/ torn \/ todo # <<>>)

\* What NoLostWakeup and GhostsBounded rest on, in three parts.  How far the
\* initialisation is; ghosts end with a byte.
Waiting == {"rsr", "unmask", "take"}
StagesOK ==
    /\ rpc \in {"create", "irsr", "iunmask", "ireset", "iconf"} => ~inited
    /\ rpc \in {"check", "fifo"} \cup Waiting => inited /\ left > 0
    /\ inited => inten
    /\ ~inited => ~inten /\ sem = 0 /\ ghosts = 0
    /\ fifo > 0 => ghosts = 0

\* Between two unmasks there is one wait, so an enabled interrupt that may
\* still signal finds at most one signal there.
SignalsOK ==
    /\ rpc = "take" => sem <= (IF UART \in intenable THEN 1 ELSE 2)
    /\ rpc # "take" => sem <= (IF UART \in intenable THEN 0 ELSE 1)
    /\ ghosts + sem <= 2
    /\ rpc = "fifo" /\ fifo = 0 => ghosts + sem <= 1

\* A byte that comes after the reader has looked is on its way to it.
WakeupOK ==
    /\ rpc \in Waiting /\ fifo > 0 => raw \/ sem > 0
    /\ rpc = "take" => UART \in intenable \/ sem > 0

UartInv == TypeOK /\ StagesOK /\ (~torn => SignalsOK /\ WakeupOK)
=============================================================================
