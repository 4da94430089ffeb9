----------------------------- MODULE UartProofs -----------------------------
(***************************************************************************)
(* For a FIFO of any size and any use of the mask by the PWM task: as long *)
(* as no task undoes another's change of the interrupt mask, a byte is     *)
(* never overlooked by a reader that waits, and signals do not pile up     *)
(* (inductive invariant UartInv); and, whatever is undone, an output that  *)
(* was stopped keeps its level (inductive invariant PwmInv).               *)
(***************************************************************************)
EXTENDS UartPwm, TLAPS

USE InterruptsAssumption, UartAssumption, PwmAssumption

-----------------------------------------------------------------------------
(* The mask.                                                               *)

\* An access of task t to the mask leaves its type, and, unless it undoes a
\* change, concerns no interrupt but the one it is about.
MaskAccess(t, i) == Rsr(t) \/ WsrUnmask(t, i) \/ WsrMask(t, i)

LEMMA MaskFacts ==
    ASSUME IntTypeOK, NEW t \in Tasks, NEW i \in {UART, FRC1}, MaskAccess(t, i)
    PROVE  /\ IntTypeOK'
           /\ torn => torn'
           /\ ~torn' => \A j : j # i => (j \in intenable' <=> j \in intenable)
           /\ WsrUnmask(t, i) => i \in intenable'
<1>1. CASE Rsr(t)
  <2>1. UNCHANGED <<intenable, torn>> /\ reg' = [reg EXCEPT ![t] = intenable]
    BY <1>1 DEF Rsr
  <2>2. IntTypeOK'
    BY <2>1 DEF IntTypeOK
  <2> QED
    BY <2>1, <2>2 DEF WsrUnmask, WriteBack
<1>2. CASE WsrUnmask(t, i)
  BY <1>2 DEF WsrUnmask, WriteBack, IntTypeOK
<1>3. CASE WsrMask(t, i)
  <2>1. IntTypeOK' /\ (torn => torn')
    BY <1>3 DEF WsrMask, WriteBack, IntTypeOK
  <2>2. ~torn' => \A j : j # i => (j \in intenable' <=> j \in intenable)
    BY <1>3 DEF WsrMask, WriteBack
  <2>3. WsrUnmask(t, i) => i \in intenable'
    BY DEF WsrUnmask, WriteBack
  <2> QED
    BY <2>1, <2>2, <2>3
<1> QED
  BY <1>1, <1>2, <1>3 DEF MaskAccess

-----------------------------------------------------------------------------
(* The PWM task and the timer.                                             *)

LEMMA StepsType ==
    /\ StopSteps \in Seq(Steps) /\ StartSteps \in Seq(Steps)
    /\ <<"load">> \in Seq(Steps) /\ <<"const">> \in Seq(Steps) /\ <<>> \in Seq(Steps)
BY DEF StopSteps, StartSteps, Steps

LEMMA PwmCallType ==
    ASSUME PwmTypeOK, PwmCall
    PROVE  PwmTypeOK' /\ UNCHANGED intVars
<1> DEFINE Plans == {StopSteps, StartSteps, StopSteps \o StartSteps, <<"load">>, <<>>,
                     StopSteps \o <<"load">> \o StartSteps, StopSteps \o <<"const">>}
<1>1. Plans \subseteq Seq(Steps)
  BY StepsType
<1>2. PICK p \in Plans, d \in Duties, f \in BOOLEAN : Begin(p, d, f)
  <2> HIDE DEF Plans
  <2>1. StopSteps \in Plans /\ StartSteps \in Plans /\ StopSteps \o StartSteps \in Plans
        /\ <<"load">> \in Plans /\ <<>> \in Plans
        /\ StopSteps \o <<"load">> \o StartSteps \in Plans /\ StopSteps \o <<"const">> \in Plans
    BY DEF Plans
  <2>2. duty \in Duties /\ frozen \in BOOLEAN
    BY DEF PwmTypeOK
  <2> QED
    BY <2>1, <2>2 DEF PwmCall, pwm_stop, pwm_start, pwm_restart, pwm_set_freq, pwm_set_duty
<1>3. p \in Seq(Steps)
  BY <1>1
<1> HIDE DEF Plans
<1> QED
  BY <1>2, <1>3 DEF Begin, PwmTypeOK

LEMMA PwmStepType ==
    ASSUME PwmTypeOK, PwmStep
    PROVE  PwmTypeOK' /\ (UNCHANGED intVars \/ MaskAccess(PwmTask, FRC1))
<1>1. UNCHANGED intVars \/ MaskAccess(PwmTask, FRC1)
  BY DEF PwmStep, DportOff, PwmRsr, PwmMask, Halt, PinsOn, Load, DportOn, PwmUnmask, Run, Constant,
         MaskAccess
<1>2. todo # <<>> /\ todo' = Tail(todo) /\ UNCHANGED <<duty, frozen, calls, edge>>
  BY DEF PwmStep, DportOff, PwmRsr, PwmMask, Halt, PinsOn, Load, DportOn, PwmUnmask, Run, Constant,
         Doing
<1>3. todo' \in Seq(Steps)
  BY <1>2 DEF PwmTypeOK
<1>4. /\ running' \in BOOLEAN /\ step' \in {"on", "off"} /\ pins' \in BOOLEAN
      /\ counting' \in BOOLEAN /\ loaded' \in BOOLEAN /\ dport' \in BOOLEAN
  BY DEF PwmTypeOK, PwmStep, DportOff, PwmRsr, PwmMask, Halt, PinsOn, Load, DportOn, PwmUnmask, Run,
         Constant
<1> QED
  BY <1>1, <1>2, <1>3, <1>4 DEF PwmTypeOK

LEMMA TimerType ==
    ASSUME PwmTypeOK, TimerEnds \/ frc1_interrupt_handler
    PROVE  PwmTypeOK' /\ UNCHANGED intVars
BY DEF PwmTypeOK, TimerEnds, frc1_interrupt_handler

\* A step that leaves standard input alone and no bit but the timer's.
LEMMA OthersPreserve ==
    ASSUME UartInv, UNCHANGED uartVars, PwmTypeOK',
           UNCHANGED intVars \/ MaskAccess(PwmTask, FRC1)
    PROVE  UartInv'
<1>1. /\ IntTypeOK' /\ (torn => torn')
      /\ ~torn' => (UART \in intenable' <=> UART \in intenable)
  <2>1. CASE UNCHANGED intVars
    BY <2>1 DEF UartInv, TypeOK, IntTypeOK, intVars
  <2>2. CASE MaskAccess(PwmTask, FRC1)
    BY <2>2, MaskFacts DEF UartInv, TypeOK
  <2> QED
    BY <2>1, <2>2
<1>2. TypeOK'
  BY <1>1 DEF UartInv, TypeOK, UartTypeOK, uartVars
<1>3. StagesOK'
  BY DEF UartInv, StagesOK, uartVars, Waiting
<1>4. ~torn' => SignalsOK' /\ WakeupOK'
  BY <1>1 DEF UartInv, SignalsOK, WakeupOK, uartVars, Waiting
<1> QED
  BY <1>2, <1>3, <1>4 DEF UartInv

-----------------------------------------------------------------------------
(* Standard input.                                                         *)

LEMMA KeptTypes ==
    ASSUME UartInv
    PROVE  /\ UNCHANGED pwmVars => PwmTypeOK'
           /\ UNCHANGED intVars => IntTypeOK'
           /\ IsrMask(UART) => IntTypeOK'
<1>1. ASSUME UNCHANGED pwmVars PROVE PwmTypeOK'
  BY <1>1 DEF UartInv, TypeOK, PwmTypeOK, pwmVars
<1>2. ASSUME UNCHANGED intVars PROVE IntTypeOK'
  BY <1>2 DEF UartInv, TypeOK, IntTypeOK, intVars
<1>3. ASSUME IsrMask(UART) PROVE IntTypeOK'
  BY <1>3 DEF UartInv, TypeOK, IntTypeOK, IsrMask
<1> QED
  BY <1>1, <1>2, <1>3

LEMMA HardwarePreserves ==
    ASSUME UartInv, Receive \/ Reassert, UNCHANGED pwmVars
    PROVE  UartInv'
<1>1. TypeOK'
  <2>1. UartTypeOK'
    <3>1. raw' = TRUE /\ UNCHANGED <<inten, inited, rpc>>
      BY DEF Receive, Reassert
    <3>2. /\ fifo' \in 0 .. FifoSize /\ sem' \in 0 .. SemMax /\ left' \in 0 .. MaxLen
          /\ received' \in 0 .. MaxBytes /\ ghosts' \in Nat
      BY UartAssumption DEF UartInv, TypeOK, UartTypeOK, Receive, Reassert
    <3> QED
      BY <3>1, <3>2 DEF UartInv, TypeOK, UartTypeOK
  <2>2. UNCHANGED intVars
    BY DEF Receive, Reassert
  <2> QED
    BY <2>1, <2>2, KeptTypes DEF TypeOK
<1>2. StagesOK' /\ (~torn' => SignalsOK' /\ WakeupOK')
  BY DEF UartInv, TypeOK, UartTypeOK, StagesOK, SignalsOK, WakeupOK, Waiting, Receive, Reassert,
         intVars
<1> QED
  BY <1>1, <1>2 DEF UartInv

LEMMA HandlerPreserves ==
    ASSUME UartInv, uart0_rx_handler, UNCHANGED pwmVars
    PROVE  UartInv'
<1>1. TypeOK'
  <2>1. UartTypeOK'
    <3>1. raw' = FALSE /\ UNCHANGED <<fifo, inten, inited, rpc, left, received, ghosts>>
      BY DEF uart0_rx_handler
    <3>2. sem' \in 0 .. SemMax
      BY UartAssumption DEF UartInv, TypeOK, UartTypeOK, uart0_rx_handler
    <3> QED
      BY <3>1, <3>2 DEF UartInv, TypeOK, UartTypeOK
  <2>2. UNCHANGED intVars \/ IsrMask(UART)
    BY DEF uart0_rx_handler
  <2> QED
    BY <2>1, <2>2, KeptTypes DEF TypeOK
<1>2. StagesOK'
  BY DEF UartInv, TypeOK, UartTypeOK, StagesOK, Waiting, uart0_rx_handler, UartRaised
<1>3. ~torn' => SignalsOK' /\ WakeupOK'
  BY DEF UartInv, TypeOK, UartTypeOK, StagesOK, SignalsOK, WakeupOK, Waiting, uart0_rx_handler,
         UartRaised, IsrMask, intVars
<1> QED
  BY <1>1, <1>2, <1>3 DEF UartInv

LEMMA CallPreserves ==
    ASSUME UartInv, Call, UNCHANGED pwmVars
    PROVE  UartInv'
<1>1. TypeOK'
  BY DEF UartInv, TypeOK, IntTypeOK, UartTypeOK, PwmTypeOK, Call, Goto, KeepCounts, hwVars, intVars,
         pwmVars, ReaderPcs
<1>2. StagesOK' /\ (~torn' => SignalsOK' /\ WakeupOK')
  BY DEF UartInv, TypeOK, UartTypeOK, StagesOK, SignalsOK, WakeupOK, Waiting, Call, Goto, KeepCounts,
         hwVars, intVars
<1> QED
  BY <1>1, <1>2 DEF UartInv

\* The steps of the reader that do not touch the mask.
LEMMA PlainStepsPreserve ==
    ASSUME UartInv, CreateSem \/ ResetFifo \/ Configure \/ Check \/ Take \/ ReadFifo,
           UNCHANGED pwmVars
    PROVE  UartInv'
<1>1. UNCHANGED <<intenable, reg, torn>>
  BY DEF CreateSem, ResetFifo, Configure, Check, Take, ReadFifo, intVars
<1>2. UartTypeOK'
  <2> USE DEF UartInv, TypeOK, UartTypeOK, StagesOK, Goto, KeepCounts, hwVars, ReaderPcs
  <2>1. CASE CreateSem \/ ResetFifo
    BY <2>1 DEF CreateSem, ResetFifo
  <2>2. CASE Configure \/ Check
    BY <2>2 DEF Configure, Check
  <2>3. CASE Take
    BY <2>3 DEF Take
  <2>4. CASE ReadFifo
    BY <2>4 DEF ReadFifo
  <2> QED
    BY <2>1, <2>2, <2>3, <2>4
<1>3. TypeOK'
  BY <1>1, <1>2, KeptTypes DEF TypeOK, intVars
<1>4. StagesOK'
  BY DEF UartInv, TypeOK, UartTypeOK, StagesOK, Waiting, CreateSem, ResetFifo, Configure, Check, Take,
         ReadFifo, Goto, KeepCounts, hwVars
<1>5. ~torn' => SignalsOK' /\ WakeupOK'
  BY <1>1 DEF UartInv, TypeOK, UartTypeOK, StagesOK, SignalsOK, WakeupOK, Waiting, CreateSem,
         ResetFifo, Configure, Check, Take, ReadFifo, Goto, KeepCounts, hwVars
<1> QED
  BY <1>3, <1>4, <1>5 DEF UartInv

LEMMA MaskStepsPreserve ==
    ASSUME UartInv, ReadMask \/ Unmask, UNCHANGED pwmVars
    PROVE  UartInv'
<1>1. MaskAccess(Reader, UART) /\ IntTypeOK
  BY DEF ReadMask, Unmask, MaskAccess, UartInv, TypeOK
<1>2. IntTypeOK' /\ (torn => torn') /\ (WsrUnmask(Reader, UART) => UART \in intenable')
  BY <1>1, MaskFacts
<1>3. UNCHANGED <<fifo, raw, inten, inited, sem, left, received, ghosts>>
      /\ rpc \in {"irsr", "rsr", "iunmask", "unmask"}
      /\ rpc' \in {"iunmask", "unmask", "ireset", "take"}
  BY DEF ReadMask, Unmask, Goto, KeepCounts, hwVars
<1>4. TypeOK'
  BY <1>2, <1>3 DEF UartInv, TypeOK, UartTypeOK, PwmTypeOK, pwmVars, ReaderPcs
<1>5. CASE ReadMask
  <2>1. UNCHANGED <<intenable, torn>>
    BY <1>5 DEF ReadMask, Rsr
  <2> QED
    BY <1>3, <1>4, <1>5, <2>1 DEF UartInv, StagesOK, SignalsOK, WakeupOK, Waiting, ReadMask, Goto
<1>6. CASE Unmask
  <2>1. UART \in intenable'
    BY <1>2, <1>6 DEF Unmask
  <2>2. StagesOK'
    BY <1>3, <1>6 DEF UartInv, StagesOK, Waiting, Unmask, Goto
  <2>3. ~torn' => SignalsOK' /\ WakeupOK'
    BY <1>2, <1>3, <1>6, <2>1 DEF UartInv, TypeOK, UartTypeOK, StagesOK, SignalsOK, WakeupOK, Waiting, Unmask, Goto
  <2> QED
    BY <1>4, <2>2, <2>3 DEF UartInv
<1> QED
  BY <1>5, <1>6

-----------------------------------------------------------------------------
(* The theorems.                                                           *)

LEMMA InitHolds == Init => UartInv
<1> SUFFICES ASSUME Init PROVE UartInv
  OBVIOUS
<1>1. IntTypeOK
  BY DEF Init, IntInit, IntTypeOK
<1>2. UartTypeOK
  <2>1. fifo \in 0 .. FifoSize /\ sem \in 0 .. SemMax /\ left \in 0 .. MaxLen
        /\ received \in 0 .. MaxBytes /\ ghosts \in Nat
    BY UartAssumption DEF Init, UartInit
  <2> QED
    BY <2>1 DEF Init, UartInit, UartTypeOK, ReaderPcs
<1>3. PwmTypeOK
  BY StepsType DEF Init, PwmInit, PwmTypeOK, Duties
<1>4. StagesOK /\ SignalsOK /\ WakeupOK
  BY DEF Init, IntInit, UartInit, StagesOK, SignalsOK, WakeupOK, Waiting
<1> QED
  BY <1>1, <1>2, <1>3, <1>4 DEF UartInv, TypeOK

LEMMA StepPreserves == UartInv /\ [Next]_vars => UartInv'
<1> SUFFICES ASSUME UartInv, [Next]_vars PROVE UartInv'
  OBVIOUS
<1>1. PwmTypeOK
  BY DEF UartInv, TypeOK
<1>2. CASE UartInterrupt
  BY <1>2, HandlerPreserves DEF UartInterrupt
<1>3. CASE BytesCome
  BY <1>3, HardwarePreserves DEF BytesCome
<1>4. CASE ReaderCalls
  BY <1>4, CallPreserves DEF ReaderCalls
<1>5. CASE ReaderRuns
  BY <1>5, PlainStepsPreserve, MaskStepsPreserve DEF ReaderRuns, ReaderStep
<1>6. CASE TimerInterrupt \/ TimeOut
  BY <1>1, <1>6, TimerType, OthersPreserve DEF TimerInterrupt, TimeOut
<1>7. CASE PwmCalls
  BY <1>1, <1>7, PwmCallType, OthersPreserve DEF PwmCalls
<1>8. CASE PwmRuns
  BY <1>1, <1>8, PwmStepType, OthersPreserve DEF PwmRuns
<1>9. CASE UNCHANGED vars
  <2>1. UNCHANGED uartVars /\ UNCHANGED intVars /\ UNCHANGED pwmVars
    BY <1>9 DEF vars
  <2> QED
    BY <2>1, KeptTypes, OthersPreserve
<1> QED
  BY <1>2, <1>3, <1>4, <1>5, <1>6, <1>7, <1>8, <1>9 DEF Next

\* The inductive invariant of the handshake between the interrupt and the
\* reader, beside a task that changes the mask, too.
THEOREM UartInvariant == Spec => []UartInv
<1>1. Init => UartInv
  BY InitHolds
<1>2. UartInv /\ [Next]_vars => UartInv'
  BY StepPreserves
<1> QED
  BY <1>1, <1>2, PTL DEF Spec

\* Every variable keeps its type: the FIFO and uart0_sem stay within their sizes,
\* _read_r stores no more bytes than it was asked for, and the steps of a PWM
\* call are steps.
THEOREM UartTypeCorrect == Spec => []TypeOK
<1>1. UartInv => TypeOK
  BY DEF UartInv
<1> QED
  BY <1>1, UartInvariant, PTL

\* A reader that waits while there is a byte has a signal or gets one.
THEOREM NoLostWakeupHolds == Spec => []NoLostWakeup
<1>1. UartInv => NoLostWakeup
  BY DEF UartInv, StagesOK, WakeupOK, Waiting, NoLostWakeup, UartRaised
<1> QED
  BY <1>1, UartInvariant, PTL

\* Signals and ghosts are at most two.
THEOREM GhostsBoundedHolds == Spec => []GhostsBounded
<1>1. UartInv => GhostsBounded
  BY DEF UartInv, SignalsOK, GhostsBounded
<1> QED
  BY <1>1, UartInvariant, PTL

-----------------------------------------------------------------------------
(* The frozen output: what pwm_stop leaves behind.                         *)

\* What may follow the stop in a call, and where the call is: before the stop,
\* in it after the timer's interrupt is disabled, or behind it.
StopTails == {<<"rsr", "mask", "halt">>, <<"mask", "halt">>, <<"halt">>}
Run1 == <<"run">>
Run2 == <<"unmask", "run">>
Run3 == <<"rsr", "unmask", "run">>
Start4 == <<"dportOn", "rsr", "unmask", "run">>
Start5 == <<"load", "dportOn", "rsr", "unmask", "run">>
Load1 == <<"load">>
Const1 == <<"const">>
LoadStart == <<"load">> \o StartSteps
RunTails == {Run3, Run2, Run1}
StartTails == {Start5, Start4}
Rests == {<<>>, Const1, StartSteps, LoadStart}
ConstRests == {<<>>, Const1}
Before(R) == {StopSteps \o r : r \in R}
Inside(R) == {s \in Seq(Steps) : \E t \in StopTails, r \in R : s = t \o r}
Behind == Rests \cup {Load1} \cup StartTails \cup RunTails

\* The steps of a call in order; the timer counts with its interrupt disabled
\* only inside a stop.
PlanOK ==
    /\ todo \in Before(Rests) \cup Inside(Rests) \cup Behind
    /\ todo \in Inside(Rests) => ~dport
    /\ counting /\ ~dport => todo \in Inside(Rests)
    /\ todo \in RunTails => dport

\* The reader cannot bring back a mask bit that has gone: while an interrupt of
\* the timer is pending behind the mask, or may become so, the reader has not
\* read the bit.
BitGone == FRC1 \notin intenable => FRC1 \notin reg[Reader]
MaskOK == edge \/ (dport /\ counting) \/ todo = Run1 => BitGone

\* A call that leaves constant output has not yet begun its stop, or the timer
\* has nothing more to say.
FrozenOK ==
    frozen => \/ todo \in Before(ConstRests)
              \/ /\ todo \in Inside(ConstRests) \cup ConstRests \cup {Load1}
                 /\ ~dport /\ ~TimerRaised

PwmInv == TypeOK /\ PlanOK /\ MaskOK /\ FrozenOK

\* What is left of a call is a sequence of steps, and a stop is done in order.
LEMMA StopPlan ==
    ASSUME NEW R \in {Rests, ConstRests}
    PROVE  /\ R \subseteq Seq(Steps)
           /\ \A r \in R : /\ StopSteps \o r # <<>> /\ Head(StopSteps \o r) = "dportOff"
                           /\ Tail(StopSteps \o r) = <<"rsr", "mask", "halt">> \o r
                           /\ <<"rsr", "mask", "halt">> \o r # <<>>
                           /\ Head(<<"rsr", "mask", "halt">> \o r) = "rsr"
                           /\ Tail(<<"rsr", "mask", "halt">> \o r) = <<"mask", "halt">> \o r
                           /\ <<"mask", "halt">> \o r # <<>>
                           /\ Head(<<"mask", "halt">> \o r) = "mask"
                           /\ Tail(<<"mask", "halt">> \o r) = <<"halt">> \o r
                           /\ <<"halt">> \o r # <<>>
                           /\ Head(<<"halt">> \o r) = "halt"
                           /\ Tail(<<"halt">> \o r) = r
<1>1. R \subseteq Seq(Steps)
  <2>1. StartSteps \in Seq(Steps) /\ Load1 \in Seq(Steps)
    BY StepsType DEF Load1
  <2>2. LoadStart \in Seq(Steps)
    BY <2>1 DEF LoadStart, Load1
  <2>3. Const1 \in Seq(Steps) /\ <<>> \in Seq(Steps)
    BY DEF Const1, Steps
  <2> QED
    BY <2>1, <2>2, <2>3 DEF Rests, ConstRests
<1> SUFFICES ASSUME NEW r \in Seq(Steps)
             PROVE  /\ StopSteps \o r # <<>> /\ Head(StopSteps \o r) = "dportOff"
                    /\ Tail(StopSteps \o r) = <<"rsr", "mask", "halt">> \o r
                    /\ <<"rsr", "mask", "halt">> \o r # <<>>
                    /\ Head(<<"rsr", "mask", "halt">> \o r) = "rsr"
                    /\ Tail(<<"rsr", "mask", "halt">> \o r) = <<"mask", "halt">> \o r
                    /\ <<"mask", "halt">> \o r # <<>>
                    /\ Head(<<"mask", "halt">> \o r) = "mask"
                    /\ Tail(<<"mask", "halt">> \o r) = <<"halt">> \o r
                    /\ <<"halt">> \o r # <<>>
                    /\ Head(<<"halt">> \o r) = "halt"
                    /\ Tail(<<"halt">> \o r) = r
  BY <1>1
<1>2. StopSteps \o r # <<>> /\ Head(StopSteps \o r) = "dportOff"
      /\ Tail(StopSteps \o r) = <<"rsr", "mask", "halt">> \o r
  BY DEF StopSteps, Steps
<1>3. <<"rsr", "mask", "halt">> \o r # <<>> /\ Head(<<"rsr", "mask", "halt">> \o r) = "rsr"
      /\ Tail(<<"rsr", "mask", "halt">> \o r) = <<"mask", "halt">> \o r
  BY DEF Steps
<1>4. <<"mask", "halt">> \o r # <<>> /\ Head(<<"mask", "halt">> \o r) = "mask"
      /\ Tail(<<"mask", "halt">> \o r) = <<"halt">> \o r
  BY DEF Steps
<1>5. <<"halt">> \o r # <<>> /\ Head(<<"halt">> \o r) = "halt" /\ Tail(<<"halt">> \o r) = r
  BY DEF Steps
<1> QED
  BY <1>2, <1>3, <1>4, <1>5

LEMMA StopTailsType == StopTails \subseteq Seq(Steps)
<1>1. /\ <<"rsr", "mask", "halt">> \in Seq(Steps) /\ <<"mask", "halt">> \in Seq(Steps)
      /\ <<"halt">> \in Seq(Steps)
  BY DEF Steps
<1> QED
  BY <1>1 DEF StopTails

LEMMA InsideHas ==
    ASSUME NEW R \in {Rests, ConstRests}, NEW x \in StopTails, NEW y \in R
    PROVE  x \o y \in Inside(R)
<1>1. y \in Seq(Steps)
  BY StopPlan
<1>2. x \in Seq(Steps)
  BY StopTailsType
<1> DEFINE z == x \o y
<1>3. z \in Seq(Steps) /\ z = x \o y
  BY <1>1, <1>2
<1> HIDE DEF z
<1>4. z \in Inside(R)
  BY <1>3 DEF Inside
<1> QED
  BY <1>3, <1>4

\* How a call goes on from each place.
LEMMA BeforeStep ==
    ASSUME NEW R \in {Rests, ConstRests}, NEW s \in Before(R)
    PROVE  s # <<>> /\ Head(s) = "dportOff" /\ Tail(s) \in Inside(R)
<1>1. PICK r \in R : s = StopSteps \o r
  BY DEF Before
<1>2. s # <<>> /\ Head(s) = "dportOff" /\ Tail(s) = <<"rsr", "mask", "halt">> \o r
  BY <1>1, StopPlan
<1>3. <<"rsr", "mask", "halt">> \o r \in Inside(R)
  <2>1. r \in Seq(Steps) /\ <<"rsr", "mask", "halt">> \in StopTails
    BY <1>1, StopPlan DEF StopTails
  <2> QED
    BY <1>1, <2>1, InsideHas
<1> QED
  BY <1>2, <1>3

LEMMA InsideStep ==
    ASSUME NEW R \in {Rests, ConstRests}, NEW s \in Inside(R)
    PROVE  /\ Head(s) \in {"rsr", "mask", "halt"} /\ s # <<>>
           /\ Head(s) # "halt" => Tail(s) \in Inside(R)
           /\ Head(s) = "halt" => Tail(s) \in R
           /\ Head(s) = "rsr" => Head(Tail(s)) = "mask"
<1>0. /\ \A x \in StopTails, y \in R : x \o y \in Inside(R)
      /\ <<"mask", "halt">> \in StopTails /\ <<"halt">> \in StopTails
  <2>1. \A x \in StopTails, y \in R : x \o y \in Inside(R)
    BY InsideHas
  <2>2. <<"mask", "halt">> \in StopTails /\ <<"halt">> \in StopTails
    BY DEF StopTails
  <2> QED
    BY <2>1, <2>2
<1>1. PICK t \in StopTails, r \in R : s = t \o r
  BY DEF Inside
<1>2. CASE t = <<"rsr", "mask", "halt">>
  <2>1. /\ Head(s) = "rsr" /\ Tail(s) = <<"mask", "halt">> \o r /\ s # <<>>
        /\ Head(<<"mask", "halt">> \o r) = "mask"
    BY <1>1, <1>2, StopPlan
  <2>2. Tail(s) \in Inside(R)
    BY <1>0, <1>1, <2>1
  <2> QED
    BY <2>1, <2>2
<1>3. CASE t = <<"mask", "halt">>
  <2>1. Head(s) = "mask" /\ Tail(s) = <<"halt">> \o r /\ s # <<>>
    BY <1>1, <1>3, StopPlan
  <2>2. Tail(s) \in Inside(R)
    BY <1>0, <1>1, <2>1
  <2> QED
    BY <2>1, <2>2
<1>4. CASE t = <<"halt">>
  <2>1. Head(s) = "halt" /\ Tail(s) = r /\ s # <<>>
    BY <1>1, <1>4, StopPlan
  <2> QED
    BY <1>1, <2>1
<1> QED
  BY <1>1, <1>2, <1>3, <1>4 DEF StopTails

\* The pieces a call is made of: their first step and what follows it.
LEMMA Shapes ==
    /\ Run1 # <<>> /\ Len(Run1) = 1 /\ Head(Run1) = "run" /\ Tail(Run1) = <<>>
    /\ Run2 # <<>> /\ Len(Run2) = 2 /\ Head(Run2) = "unmask" /\ Tail(Run2) = Run1
    /\ Run3 # <<>> /\ Len(Run3) = 3 /\ Head(Run3) = "rsr" /\ Tail(Run3) = Run2
    /\ Len(Start4) = 4 /\ Head(Start4) = "dportOn" /\ Tail(Start4) = Run3
    /\ Len(Start5) = 5 /\ Head(Start5) = "load" /\ Tail(Start5) = Start4
    /\ Len(StartSteps) = 6 /\ Head(StartSteps) = "pinsOn" /\ Tail(StartSteps) = Start5
    /\ Len(LoadStart) = 7 /\ Head(LoadStart) = "load" /\ Tail(LoadStart) = StartSteps
    /\ Len(Load1) = 1 /\ Head(Load1) = "load" /\ Tail(Load1) = <<>>
    /\ Len(Const1) = 1 /\ Head(Const1) = "const" /\ Tail(Const1) = <<>>
<1>1. Run1 # <<>> /\ Len(Run1) = 1 /\ Head(Run1) = "run" /\ Tail(Run1) = <<>>
  BY DEF Run1
<1>2. Run2 # <<>> /\ Len(Run2) = 2 /\ Head(Run2) = "unmask" /\ Tail(Run2) = Run1
  BY DEF Run1, Run2
<1>3. Run3 # <<>> /\ Len(Run3) = 3 /\ Head(Run3) = "rsr" /\ Tail(Run3) = Run2
  BY DEF Run2, Run3
<1>4. Len(Start4) = 4 /\ Head(Start4) = "dportOn" /\ Tail(Start4) = Run3
  BY DEF Run3, Start4
<1>5. Len(Start5) = 5 /\ Head(Start5) = "load" /\ Tail(Start5) = Start4
  BY DEF Start4, Start5
<1>6. Len(StartSteps) = 6 /\ Head(StartSteps) = "pinsOn" /\ Tail(StartSteps) = Start5
  BY DEF Start5, StartSteps
<1>7. \A r \in Seq(Steps) : /\ Head(<<"load">> \o r) = "load" /\ Tail(<<"load">> \o r) = r
                             /\ Len(<<"load">> \o r) = 1 + Len(r)
  OBVIOUS
<1>8. Len(LoadStart) = 7 /\ Head(LoadStart) = "load" /\ Tail(LoadStart) = StartSteps
  <2>1. StartSteps \in Seq(Steps)
    BY StepsType
  <2>2. Len(<<"load">> \o StartSteps) = 1 + Len(StartSteps)
    BY <1>7, <2>1
  <2>3. Len(LoadStart) = 7
    BY <1>6, <2>2 DEF LoadStart
  <2> QED
    BY <1>7, <2>1, <2>3 DEF LoadStart
<1>9. Len(Load1) = 1 /\ Head(Load1) = "load" /\ Tail(Load1) = <<>>
  BY DEF Load1
<1>10. Len(Const1) = 1 /\ Head(Const1) = "const" /\ Tail(Const1) = <<>>
  BY DEF Const1
<1> QED
  BY <1>1, <1>2, <1>3, <1>4, <1>5, <1>6, <1>8, <1>9, <1>10

LEMMA BehindStep ==
    ASSUME NEW s \in Behind, s # <<>>
    PROVE  /\ Head(s) \in {"const", "load", "pinsOn", "dportOn", "rsr", "unmask", "run"}
           /\ Tail(s) \in Behind
           /\ Head(s) # "dportOn" /\ s \notin RunTails => Tail(s) \notin RunTails
           /\ s \in RunTails <=> Head(s) \in {"rsr", "unmask", "run"}
           /\ Tail(s) = Run1 => Head(s) = "unmask"
           /\ Head(s) = "run" => s = Run1
           /\ Head(s) = "rsr" => Head(Tail(s)) = "unmask"
           /\ s \in ConstRests \cup {Load1} => Head(s) \in {"const", "load"} /\ Tail(s) = <<>>
<1>1. CASE s \in {Const1, Load1}
  <2>1. Head(s) \in {"const", "load"} /\ Tail(s) = <<>> /\ s \notin RunTails
    BY <1>1, Shapes DEF RunTails
  <2>2. Tail(s) \notin RunTails
    BY <2>1, Shapes DEF RunTails
  <2>3. Tail(s) \in Behind
    BY <2>1 DEF Behind, Rests
  <2> QED
    BY <2>1, <2>2, <2>3 DEF RunTails
<1>2. CASE s \in {StartSteps, LoadStart}
  <2>1. Head(s) \in {"pinsOn", "load"} /\ Tail(s) \in {Start5, StartSteps}
    BY <1>2, Shapes
  <2>2. Tail(s) \in Behind
    BY <2>1 DEF Behind, Rests, StartTails
  <2>3. Tail(s) \notin RunTails /\ s \notin RunTails
    BY <1>2, <2>1, Shapes DEF RunTails
  <2>4. Tail(s) # Run1
    BY <2>3 DEF RunTails
  <2>5. s # Const1 /\ s # Load1
    <3>1. Len(s) \in {6, 7}
      BY <1>2, Shapes
    <3>2. Len(Const1) = 1 /\ Len(Load1) = 1
      BY Shapes
    <3> QED
      BY <3>1, <3>2
  <2>6. s \notin ConstRests \cup {Load1}
    BY <2>5 DEF ConstRests
  <2> QED
    BY <2>1, <2>2, <2>3, <2>4, <2>6
<1>3. CASE s \in StartTails
  BY <1>3, Shapes DEF Behind, Rests, RunTails, StartTails, ConstRests
<1>4. CASE s \in RunTails
  BY <1>4, Shapes DEF Behind, Rests, RunTails, StartTails, ConstRests
<1> QED
  BY <1>1, <1>2, <1>3, <1>4 DEF Behind, Rests

\* A call is in one place at a time.
LEMMA Apart ==
    /\ \A s \in Before(Rests) : s \notin Inside(Rests) /\ s \notin Behind
    /\ \A s \in Inside(Rests) : s \notin Behind
    /\ Before(ConstRests) \subseteq Before(Rests)
    /\ Inside(ConstRests) \subseteq Inside(Rests)
    /\ ConstRests \subseteq Behind /\ Rests \subseteq Behind
    /\ \A s \in Rests \cup {Load1} : s \notin RunTails
<1>1. \A s \in Before(Rests) : s \notin Inside(Rests) /\ s \notin Behind
  BY BeforeStep, InsideStep, BehindStep
<1>2. ASSUME NEW s \in Inside(Rests), s \in Behind
      PROVE  FALSE
  <2>1. s # <<>> /\ Head(s) = "rsr"
    BY <1>2, InsideStep, BehindStep
  <2> QED
    BY <1>2, <2>1, InsideStep, BehindStep
<1>3. Before(ConstRests) \subseteq Before(Rests) /\ Inside(ConstRests) \subseteq Inside(Rests)
  <2>1. ConstRests \subseteq Rests
    BY DEF ConstRests, Rests
  <2>2. Before(ConstRests) \subseteq Before(Rests)
    BY <2>1 DEF Before
  <2>3. Inside(ConstRests) \subseteq Inside(Rests)
    BY <2>1 DEF Inside
  <2> QED
    BY <2>2, <2>3
<1>4. ConstRests \subseteq Behind /\ Rests \subseteq Behind
  BY DEF Behind, ConstRests, Rests
<1>5. ASSUME NEW s \in Rests \cup {Load1}, s \in RunTails
      PROVE  FALSE
  <2>1. s # <<>> /\ Head(s) \in {"rsr", "unmask", "run"}
    BY <1>5, Shapes DEF RunTails
  <2> QED
    BY <2>1, Shapes DEF Rests
<1> QED
  BY <1>1, <1>2, <1>3, <1>4, <1>5

\* The step of a call tells where it is.
LEMMA PlanStep ==
    ASSUME PlanOK, NEW st, Doing(st)
    PROVE  /\ st = "dportOff" => todo \in Before(Rests) /\ todo' \in Inside(Rests)
           /\ st = "mask" => todo \in Inside(Rests) /\ todo' \in Inside(Rests)
           /\ st = "halt" => todo \in Inside(Rests) /\ todo' \in Rests
           /\ st = "rsr" => \/ todo \in Inside(Rests) /\ todo' \in Inside(Rests)
                            \/ todo \in RunTails /\ todo' \in Behind /\ todo' # Run1
           /\ st \in {"const", "load", "pinsOn", "dportOn", "unmask", "run"} =>
                 /\ todo \in Behind /\ todo' \in Behind
                 /\ st \in {"unmask", "run"} => todo \in RunTails
                 /\ st # "unmask" => todo' # Run1
                 /\ st = "run" => todo = Run1
                 /\ st \in {"const", "load", "pinsOn"} => todo' \notin RunTails
<1>1. todo # <<>> /\ Head(todo) = st /\ todo' = Tail(todo)
  BY DEF Doing
<1>2. CASE todo \in Before(Rests)
  BY <1>1, <1>2, BeforeStep
<1>3. CASE todo \in Inside(Rests)
  BY <1>1, <1>3, InsideStep
<1>4. CASE todo \in Behind
  BY <1>1, <1>4, BehindStep
<1> QED
  BY <1>2, <1>3, <1>4 DEF PlanOK

\* The same for the call that freezes the output.
LEMMA FrozenStep ==
    ASSUME PlanOK, FrozenOK, frozen, NEW st, Doing(st), st # "dportOff"
    PROVE  /\ st \in {"rsr", "mask", "halt", "load", "const"}
           /\ todo' \in Inside(ConstRests) \cup ConstRests \cup {Load1}
           /\ ~dport /\ ~TimerRaised
<1>1. todo # <<>> /\ Head(todo) = st /\ todo' = Tail(todo)
  BY DEF Doing
<1>2. todo \notin Before(ConstRests)
  BY <1>1, BeforeStep
<1>3. CASE todo \in Inside(ConstRests)
  BY <1>1, <1>2, <1>3, InsideStep DEF FrozenOK
<1>4. CASE todo \in ConstRests \cup {Load1}
  <2>1. todo \in Behind
    BY <1>4, Apart DEF Behind
  <2>2. st \in {"const", "load"} /\ todo' = <<>>
    BY <1>1, <1>4, <2>1, BehindStep
  <2> QED
    BY <1>2, <2>2 DEF FrozenOK, ConstRests
<1> QED
  BY <1>2, <1>3, <1>4 DEF FrozenOK

LEMMA PwmCallFreezes ==
    ASSUME PwmInv, PwmCall
    PROVE  PlanOK' /\ MaskOK' /\ FrozenOK'
<1>1. /\ todo = <<>> /\ UNCHANGED <<counting, dport, edge, intenable, reg>>
      /\ \/ todo' \in Before(ConstRests)
         \/ todo' \in Before(Rests) /\ ~frozen'
         \/ todo' = StartSteps /\ ~frozen'
         \/ todo' \in {Load1, <<>>} /\ frozen' = frozen
  <2> DEFINE Shape == \/ todo' \in Before(ConstRests)
                      \/ todo' \in Before(Rests) /\ ~frozen'
                      \/ todo' = StartSteps /\ ~frozen'
                      \/ todo' \in {Load1, <<>>} /\ frozen' = frozen
  <2>1. /\ StopSteps \in Before(ConstRests)
        /\ StopSteps \o <<"const">> \in Before(ConstRests)
        /\ StopSteps \o StartSteps \in Before(Rests)
        /\ StopSteps \o <<"load">> \o StartSteps \in Before(Rests)
    <3>1. StopSteps = StopSteps \o <<>>
      BY StepsType
    <3>2. StopSteps \o <<"load">> \o StartSteps = StopSteps \o LoadStart
      BY StepsType DEF LoadStart
    <3>3. <<>> \in ConstRests /\ <<"const">> \in ConstRests /\ StartSteps \in Rests /\ LoadStart \in Rests
      BY DEF ConstRests, Rests, Const1
    <3> QED
      BY <3>1, <3>2, <3>3 DEF Before
  <2>2. CASE pwm_stop \/ pwm_start \/ pwm_restart
    BY <2>1, <2>2 DEF pwm_stop, pwm_start, pwm_restart, Begin, intVars
  <2>3. CASE pwm_set_freq
    BY <2>1, <2>3 DEF pwm_set_freq, Begin, intVars, Load1
  <2>4. CASE \E d \in Duties : pwm_set_duty(d)
    BY <2>1, <2>4 DEF pwm_set_duty, Begin, intVars
  <2> QED
    BY <2>2, <2>3, <2>4 DEF PwmCall
<1>2. /\ todo \notin Inside(Rests) /\ todo \notin Before(ConstRests)
      /\ ~(counting /\ ~dport)
  BY <1>1, InsideStep, BeforeStep DEF PwmInv, PlanOK
<1>3. /\ todo' \in Before(Rests) \cup Behind /\ todo' \notin RunTails
  BY <1>1, Apart, Shapes DEF Behind, Rests, RunTails
<1>4. todo' \notin Inside(Rests)
  BY <1>3, Apart
<1>5. PlanOK'
  BY <1>1, <1>2, <1>3, <1>4 DEF PlanOK
<1>6. MaskOK'
  BY <1>1, <1>3 DEF MaskOK, BitGone, RunTails, PwmInv
<1>7. FrozenOK'
  BY <1>1, <1>2 DEF FrozenOK, TimerRaised, PwmInv, ConstRests
<1> QED
  BY <1>5, <1>6, <1>7

\* A step of the call that leaves the mask alone.
LEMMA PwmPlainFreezes ==
    ASSUME PwmInv, NoInterrupt,
           DportOff \/ Halt \/ PinsOn \/ Load \/ DportOn \/ Run \/ Constant
    PROVE  PlanOK' /\ MaskOK' /\ FrozenOK'
<1>1. PlanOK /\ MaskOK /\ FrozenOK /\ ~TimerRaised
  BY DEF PwmInv, NoInterrupt
<1>2. CASE DportOff
  <2>1. /\ Doing("dportOff") /\ dport' = FALSE
        /\ UNCHANGED <<counting, edge, intenable, reg, frozen>>
    BY <1>2 DEF DportOff, Doing, intVars
  <2>2. todo \in Before(Rests) /\ todo' \in Inside(Rests) /\ todo' \notin Behind
    BY <1>1, <2>1, PlanStep, Apart
  <2>3. todo' \notin RunTails
    BY <2>2 DEF Behind
  <2>4. frozen => todo' \in Inside(ConstRests)
    <3>1. todo \notin Inside(ConstRests) \cup ConstRests \cup {Load1}
      BY <2>2, Apart DEF Behind
    <3> QED
      BY <1>1, <2>1, <3>1, BeforeStep DEF FrozenOK, Doing
  <2> QED
    BY <1>1, <2>1, <2>2, <2>3, <2>4 DEF PlanOK, MaskOK, FrozenOK, BitGone, RunTails, TimerRaised
<1>3. CASE Halt
  <2>1. Doing("halt") /\ counting' = FALSE /\ UNCHANGED <<dport, edge, intenable, reg, frozen>>
    BY <1>3 DEF Halt, Doing, intVars
  <2>2. /\ todo \in Inside(Rests) /\ todo' \in Rests /\ todo' \in Behind
        /\ todo' \notin RunTails /\ todo' \notin Inside(Rests)
    BY <1>1, <2>1, PlanStep, Apart
  <2>3. PlanOK' /\ MaskOK'
    BY <1>1, <2>1, <2>2 DEF PlanOK, MaskOK, BitGone, RunTails
  <2>4. FrozenOK'
    BY <1>1, <2>1, FrozenStep DEF FrozenOK, TimerRaised
  <2> QED
    BY <2>3, <2>4
<1>4. CASE DportOn
  <2>1. Doing("dportOn") /\ dport' = TRUE /\ UNCHANGED <<counting, edge, intenable, reg, frozen>>
    BY <1>4 DEF DportOn, Doing, intVars
  <2>2. /\ todo \in Behind /\ todo' \in Behind /\ todo' # Run1
        /\ todo \notin Inside(Rests) /\ todo' \notin Inside(Rests)
    BY <1>1, <2>1, PlanStep, Apart
  <2>3. PlanOK' /\ MaskOK'
    BY <1>1, <2>1, <2>2 DEF PlanOK, MaskOK, BitGone, PwmInv, TypeOK, PwmTypeOK
  <2>4. ~frozen
    BY <1>1, <2>1, FrozenStep
  <2> QED
    BY <2>1, <2>3, <2>4 DEF FrozenOK
<1>5. CASE Run
  <2>1. Doing("run") /\ counting' = TRUE /\ UNCHANGED <<dport, edge, intenable, reg, frozen>>
    BY <1>5 DEF Run, Doing, intVars
  <2>2. /\ todo = Run1 /\ todo \in RunTails /\ todo' \in Behind /\ todo' # Run1
        /\ todo' \notin Inside(Rests)
    BY <1>1, <2>1, PlanStep, Apart
  <2>3. PlanOK' /\ MaskOK'
    BY <1>1, <2>1, <2>2 DEF PlanOK, MaskOK, BitGone
  <2>4. ~frozen
    BY <1>1, <2>1, FrozenStep
  <2> QED
    BY <2>1, <2>3, <2>4 DEF FrozenOK
<1>6. CASE PinsOn \/ Load \/ Constant
  <2>1. PICK st \in {"pinsOn", "load", "const"} : Doing(st)
    BY <1>6 DEF PinsOn, Load, Constant
  <2>2. UNCHANGED <<counting, dport, edge, intenable, reg, frozen>>
    BY <1>6 DEF PinsOn, Load, Constant, Doing, intVars
  <2>3. /\ todo \in Behind /\ todo' \in Behind /\ todo' \notin RunTails
        /\ todo \notin Inside(Rests) /\ todo' \notin Inside(Rests)
    BY <1>1, <2>1, PlanStep, Apart
  <2>4. PlanOK' /\ MaskOK'
    BY <1>1, <2>2, <2>3 DEF PlanOK, MaskOK, BitGone, RunTails
  <2>5. FrozenOK'
    BY <1>1, <2>1, <2>2, FrozenStep DEF FrozenOK, TimerRaised
  <2> QED
    BY <2>4, <2>5
<1> QED
  BY <1>2, <1>3, <1>4, <1>5, <1>6

\* A step of the call on the mask.
LEMMA PwmMaskFreezes ==
    ASSUME PwmInv, NoInterrupt, PwmRsr \/ PwmMask \/ PwmUnmask
    PROVE  PlanOK' /\ MaskOK' /\ FrozenOK'
<1>1. PlanOK /\ MaskOK /\ FrozenOK /\ ~TimerRaised /\ IntTypeOK
  BY DEF PwmInv, NoInterrupt, TypeOK
<1>2. CASE PwmRsr
  <2>1. Doing("rsr") /\ UNCHANGED <<counting, dport, edge, intenable, frozen>>
    BY <1>2 DEF PwmRsr, Doing, Rsr
  <2>2. reg'[Reader] = reg[Reader]
    BY <1>1, <1>2, TwoTasksAssumption DEF PwmRsr, Rsr, IntTypeOK
  <2>3. \/ todo \in Inside(Rests) /\ todo' \in Inside(Rests) /\ todo' \notin RunTails
        \/ /\ todo \in RunTails /\ todo' \in Behind /\ todo' # Run1
           /\ todo \notin Inside(Rests) /\ todo' \notin Inside(Rests)
    BY <1>1, <2>1, PlanStep, Apart DEF Behind
  <2>4. PlanOK' /\ MaskOK'
    BY <1>1, <2>1, <2>2, <2>3 DEF PlanOK, MaskOK, BitGone, RunTails
  <2>5. FrozenOK'
    BY <1>1, <2>1, FrozenStep DEF FrozenOK, TimerRaised
  <2> QED
    BY <2>4, <2>5
<1>3. CASE PwmMask
  <2>1. /\ Doing("mask") /\ UNCHANGED <<counting, dport, edge, frozen>>
        /\ FRC1 \notin intenable'
    BY <1>3 DEF PwmMask, Doing, WsrMask, WriteBack
  <2>2. reg'[Reader] = reg[Reader]
    BY <1>1, <1>3, TwoTasksAssumption DEF PwmMask, WsrMask, WriteBack, IntTypeOK
  <2>3. /\ todo \in Inside(Rests) /\ todo' \in Inside(Rests) /\ todo' \notin RunTails
    BY <1>1, <2>1, PlanStep, Apart DEF Behind
  <2>4. PlanOK' /\ MaskOK'
    BY <1>1, <2>1, <2>2, <2>3 DEF PlanOK, MaskOK, BitGone, RunTails, TimerRaised
  <2>5. FrozenOK'
    BY <1>1, <2>1, FrozenStep DEF FrozenOK, TimerRaised
  <2> QED
    BY <2>4, <2>5
<1>4. CASE PwmUnmask
  <2>1. /\ Doing("unmask") /\ UNCHANGED <<counting, dport, edge, frozen>>
        /\ FRC1 \in intenable'
    BY <1>4 DEF PwmUnmask, Doing, WsrUnmask, WriteBack
  <2>2. /\ todo \in RunTails /\ todo' \in Behind
        /\ todo \notin Inside(Rests) /\ todo' \notin Inside(Rests)
    BY <1>1, <2>1, PlanStep, Apart
  <2>3. PlanOK' /\ MaskOK'
    BY <1>1, <2>1, <2>2 DEF PlanOK, MaskOK, BitGone
  <2>4. ~frozen
    BY <1>1, <2>1, FrozenStep
  <2> QED
    BY <2>1, <2>3, <2>4 DEF FrozenOK
<1> QED
  BY <1>2, <1>3, <1>4

\* The timer, its interrupt, and everything on the reader's side.
LEMMA OtherStepsFreeze ==
    ASSUME PwmInv,
           TimerInterrupt \/ TimeOut \/ UartInterrupt \/ BytesCome
             \/ ReaderCalls \/ ReaderRuns \/ UNCHANGED vars
    PROVE  PlanOK' /\ MaskOK' /\ FrozenOK'
<1>1. PlanOK /\ MaskOK /\ FrozenOK /\ IntTypeOK /\ PwmTypeOK
  BY DEF PwmInv, TypeOK
<1>2. CASE TimeOut
  <2>1. /\ UNCHANGED <<todo, counting, dport, intenable, reg, frozen>>
        /\ counting /\ edge' = (edge \/ dport)
    BY <1>2 DEF TimeOut, TimerEnds, intVars
  <2> QED
    BY <1>1, <2>1 DEF PlanOK, MaskOK, FrozenOK, BitGone, TimerRaised
<1>3. CASE TimerInterrupt
  <2>1. UNCHANGED <<todo, counting, dport, intenable, reg, frozen>> /\ edge' = FALSE
    BY <1>3 DEF TimerInterrupt, frc1_interrupt_handler, intVars
  <2> QED
    BY <1>1, <2>1 DEF PlanOK, MaskOK, FrozenOK, BitGone, TimerRaised
<1>4. CASE UartInterrupt \/ BytesCome \/ ReaderCalls \/ ReaderRuns \/ UNCHANGED vars
  <2>1. UNCHANGED <<todo, counting, dport, edge, frozen>>
    BY <1>4 DEF UartInterrupt, BytesCome, ReaderCalls, ReaderRuns, vars, pwmVars
  <2>2. /\ BitGone => (FRC1 \in intenable' => FRC1 \in intenable)
        /\ BitGone => BitGone'
    <3>1. CASE UNCHANGED intVars \/ IsrMask(UART)
      BY <3>1 DEF BitGone, intVars, IsrMask
    <3>2. CASE Rsr(Reader)
      BY <1>1, <3>2 DEF BitGone, Rsr, IntTypeOK
    <3>3. CASE WsrUnmask(Reader, UART)
      BY <1>1, <3>3 DEF BitGone, WsrUnmask, WriteBack, IntTypeOK
    <3> QED
      BY <1>4, <3>1, <3>2, <3>3
      DEF UartInterrupt, uart0_rx_handler, BytesCome, Receive, Reassert, ReaderCalls, Call, ReaderRuns,
          ReaderStep, CreateSem, ReadMask, Unmask, ResetFifo, Configure, Check, Take, ReadFifo, vars, intVars
  <2>3. PlanOK' /\ MaskOK'
    BY <1>1, <2>1, <2>2 DEF PlanOK, MaskOK
  <2>4. FrozenOK'
    BY <1>1, <2>1, <2>2 DEF FrozenOK, TimerRaised, MaskOK
  <2> QED
    BY <2>3, <2>4
<1> QED
  BY <1>2, <1>3, <1>4

\* The inductive invariant of the frozen output.
THEOREM PwmInvariant == Spec => []PwmInv
<1>1. Init => PwmInv
  <2>1. Init => TypeOK
    BY InitHolds DEF UartInv
  <2>2. Init => PlanOK /\ MaskOK /\ FrozenOK
    <3> SUFFICES ASSUME Init PROVE PlanOK /\ MaskOK /\ FrozenOK
      OBVIOUS
    <3>1. todo = <<>> /\ ~counting /\ ~dport /\ ~edge
      BY DEF Init, PwmInit
    <3>2. todo \notin Inside(Rests) /\ todo \in Behind /\ todo \notin RunTails /\ todo \in ConstRests
      BY <3>1, InsideStep, Shapes DEF Behind, Rests, ConstRests, RunTails
    <3> QED
      BY <3>1, <3>2 DEF PlanOK, MaskOK, FrozenOK, TimerRaised, RunTails
  <2> QED
    BY <2>1, <2>2 DEF PwmInv
<1>2. UartInv /\ UartInv' /\ PwmInv /\ [Next]_vars => PwmInv'
  <2>1. UartInv' => TypeOK'
    BY DEF UartInv
  <2> QED
    BY <2>1, PwmCallFreezes, PwmPlainFreezes, PwmMaskFreezes, OtherStepsFreeze
    DEF Next, PwmInv, PwmCalls, PwmRuns, PwmStep
<1> QED
  BY <1>1, <1>2, UartInvariant, PTL DEF Spec

\* Once pwm_stop, or pwm_set_duty with 0% or 100%, is done, the pins keep their
\* level until the next call, even when the reader has undone the change of the
\* timer's bit in the interrupt mask.
THEOREM OutputFrozenHolds == Spec => OutputFrozen
<1>1. PwmInv /\ [Next]_vars => [frozen /\ todo = <<>> /\ todo' = <<>> => pins' = pins]_vars
  <2> SUFFICES ASSUME PwmInv, Next, frozen, todo = <<>>
               PROVE  pins' = pins
    BY DEF vars, pwmVars
  <2>1. ~TimerRaised
    BY BeforeStep DEF PwmInv, FrozenOK
  <2>2. ~TimerInterrupt
    BY <2>1 DEF TimerInterrupt, frc1_interrupt_handler
  <2>3. CASE UartInterrupt \/ BytesCome \/ ReaderCalls \/ ReaderRuns
    BY <2>3 DEF UartInterrupt, BytesCome, ReaderCalls, ReaderRuns, pwmVars
  <2>4. CASE TimeOut \/ PwmCalls
    BY <2>4 DEF TimeOut, TimerEnds, PwmCalls, PwmCall, pwm_stop, pwm_start, pwm_restart, pwm_set_freq,
                pwm_set_duty, Begin
  <2>5. ~PwmRuns
    BY DEF PwmRuns, PwmStep, DportOff, PwmRsr, PwmMask, Halt, PinsOn, Load, DportOn, PwmUnmask, Run,
           Constant, Doing
  <2> QED
    BY <2>2, <2>3, <2>4, <2>5 DEF Next
<1> QED
  BY <1>1, PwmInvariant, PTL DEF Spec, OutputFrozen

=============================================================================
