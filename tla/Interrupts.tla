----------------------------- MODULE Interrupts -----------------------------
(***************************************************************************)
(* The interrupt mask of the CPU (core/include/esp/interrupts.h,           *)
(* core/esp_interrupts.c).  _xt_isr_mask and _xt_isr_unmask read the       *)
(* register and write it back in two instructions: between them an         *)
(* interrupt may be served and another task may run.                       *)
(***************************************************************************)
EXTENDS Integers

CONSTANTS
    UART, FRC1,     \* INUM_UART, INUM_TIMER_FRC1
    Tasks           \* the tasks that mask and unmask

ASSUME InterruptsAssumption == UART # FRC1

VARIABLES
    intenable,      \* the special register
    reg,            \* reg[t]: what task t has read from it
    torn            \* history: a task has undone a change made since it read

intVars == <<intenable, reg, torn>>

Rsr(t) ==
    /\ reg' = [reg EXCEPT ![t] = intenable]
    /\ UNCHANGED <<intenable, torn>>

\* Task t writes back what it has read, changed by its mask; now is what it
\* would have written had nobody else been there.
WriteBack(t, stale, now) ==
    /\ intenable' = stale
    /\ torn' = (torn \/ stale # now)
    /\ reg' = [reg EXCEPT ![t] = {}]

WsrUnmask(t, i) == WriteBack(t, reg[t] \cup {i}, intenable \cup {i})
WsrMask(t, i) == WriteBack(t, reg[t] \ {i}, intenable \ {i})

\* An interrupt handler is not interrupted by a task.
IsrMask(i) ==
    /\ intenable' = intenable \ {i}
    /\ UNCHANGED <<reg, torn>>

IntInit ==
    /\ intenable = {}
    /\ reg = [t \in Tasks |-> {}]
    /\ torn = FALSE
IntTypeOK ==
    /\ intenable \subseteq {UART, FRC1}
    /\ reg \in [Tasks -> SUBSET {UART, FRC1}]
    /\ torn \in BOOLEAN
=============================================================================
