------------------------------ MODULE StdinUart ------------------------------
(***************************************************************************)
(* Standard input over the UART (extras/stdin_uart_interrupt): the receive *)
(* FIFO fills by itself, its interrupt masks itself and gives a counting   *)
(* semaphore, and the one task that reads waits for the semaphore when it  *)
(* finds the FIFO empty.                                                   *)
(*                                                                         *)
(* Bytes are counted, not told apart: they leave the FIFO in the order in  *)
(* which they came.  A read of an empty FIFO yields a ghost, a byte that   *)
(* was never received.                                                     *)
(***************************************************************************)
EXTENDS Interrupts

CONSTANTS
    Reader,         \* the task that calls _read_r and uart0_num_char
    FifoSize,       \* bytes the hardware holds (128)
    SemMax,         \* UART0_RX_SIZE, the semaphore's limit
    MaxLen,         \* bytes one _read_r asks for
    MaxBytes        \* bound on the bytes received

ASSUME UartAssumption ==
    /\ Reader \in Tasks
    /\ FifoSize \in Nat \ {0} /\ SemMax \in Nat \ {0} /\ MaxLen \in Nat /\ MaxBytes \in Nat

VARIABLES
    fifo,       \* bytes in the FIFO
    raw,        \* RXFIFO_FULL is raised
    inten,      \* ... and enabled (INT_ENABLE)
    inited,
    sem,        \* uart0_sem
    rpc,        \* where the reader is
    left,       \* bytes its _read_r still has to read
    received,   \* history: bytes that entered the FIFO,
    ghosts      \* history: bytes read since then that never did

uartVars == <<fifo, raw, inten, inited, sem, rpc, left, received, ghosts>>
hwVars == <<fifo, raw, inten>>

ReaderPcs == {"idle", "create", "irsr", "iunmask", "ireset", "iconf",
              "check", "rsr", "unmask", "take", "fifo"}

-----------------------------------------------------------------------------
(* The hardware (external).                                                *)

Receive ==
    /\ received < MaxBytes /\ fifo < FifoSize
    /\ fifo' = fifo + 1 /\ raw' = TRUE
    /\ received' = received + 1 /\ ghosts' = 0
    /\ UNCHANGED <<inten, inited, sem, rpc, left, intVars>>

\* Cleared, the status may come again as long as there are bytes.
Reassert ==
    /\ fifo > 0 /\ ~raw
    /\ raw' = TRUE
    /\ UNCHANGED <<fifo, inten, inited, sem, rpc, left, received, ghosts, intVars>>

UartRaised == raw /\ inten /\ UART \in intenable

-----------------------------------------------------------------------------
(* The interrupt.                                                          *)

\* Mutant: the handler does not mask its interrupt.
uart0_rx_handler_NoMask ==
    /\ UartRaised
    /\ raw' = FALSE
    /\ \/ fifo = 0 /\ UNCHANGED sem
       \/ fifo > 0 /\ sem' = IF sem < SemMax THEN sem + 1 ELSE sem
    /\ UNCHANGED <<fifo, inten, inited, rpc, left, received, ghosts, intVars>>

uart0_rx_handler ==
    /\ UartRaised
    /\ raw' = FALSE
    /\ \/ fifo = 0 /\ UNCHANGED <<sem, intVars>>
       \/ /\ fifo > 0
          /\ IsrMask(UART)
          /\ sem' = IF sem < SemMax THEN sem + 1 ELSE sem
    /\ UNCHANGED <<fifo, inten, inited, rpc, left, received, ghosts>>

-----------------------------------------------------------------------------
(* The reader.                                                             *)

Goto(pc) == rpc' = pc
KeepCounts == UNCHANGED <<received, ghosts>>

\* uart0_num_char (len = 0) and _read_r (len > 0) initialise on first use.
Call ==
    /\ rpc = "idle"
    /\ \E len \in 0 .. MaxLen : left' = len /\ (inited => len > 0)
    /\ Goto(IF inited THEN "check" ELSE "create")
    /\ UNCHANGED <<hwVars, inited, sem, intVars>> /\ KeepCounts

\* uart0_rx_init: the semaphore and the handler, the mask, the FIFO reset,
\* then the interrupts of the UART itself.
CreateSem ==
    /\ rpc = "create"
    /\ sem' = 0
    /\ Goto("irsr")
    /\ UNCHANGED <<hwVars, inited, left, intVars>> /\ KeepCounts
ReadMask ==
    /\ \/ rpc = "irsr" /\ Goto("iunmask")
       \/ rpc = "rsr" /\ Goto("unmask")
    /\ Rsr(Reader)
    /\ UNCHANGED <<hwVars, inited, sem, left>> /\ KeepCounts

\* Mutant: an old interrupt is cleared before it is unmasked.
Unmask_Clears ==
    /\ \/ rpc = "iunmask" /\ Goto("ireset")
       \/ rpc = "unmask" /\ Goto("take")
    /\ WsrUnmask(Reader, UART)
    /\ raw' = FALSE
    /\ UNCHANGED <<fifo, inten, inited, sem, left>> /\ KeepCounts

Unmask ==
    /\ \/ rpc = "iunmask" /\ Goto("ireset")
       \/ rpc = "unmask" /\ Goto("take")
    /\ WsrUnmask(Reader, UART)
    /\ UNCHANGED <<hwVars, inited, sem, left>> /\ KeepCounts
ResetFifo ==
    /\ rpc = "ireset"
    /\ fifo' = 0
    /\ Goto("iconf")
    /\ UNCHANGED <<raw, inten, inited, sem, left, intVars>> /\ KeepCounts
Configure ==
    /\ rpc = "iconf"
    /\ raw' = FALSE /\ inten' = TRUE /\ inited' = TRUE
    /\ Goto(IF left > 0 THEN "check" ELSE "idle")
    /\ UNCHANGED <<fifo, sem, left, intVars>> /\ KeepCounts

\* Mutant: the interrupt is not unmasked again.
Check_NoUnmask ==
    /\ rpc = "check"
    /\ Goto(IF fifo > 0 THEN "fifo" ELSE "take")
    /\ UNCHANGED <<hwVars, inited, sem, left, intVars>> /\ KeepCounts

\* Is there a byte?  If not, unmask the interrupt and wait for its signal.
Check ==
    /\ rpc = "check"
    /\ Goto(IF fifo > 0 THEN "fifo" ELSE "rsr")
    /\ UNCHANGED <<hwVars, inited, sem, left, intVars>> /\ KeepCounts

Take ==
    /\ rpc = "take" /\ sem > 0
    /\ sem' = sem - 1
    /\ Goto("fifo")
    /\ UNCHANGED <<hwVars, inited, left, intVars>> /\ KeepCounts

\* Mutant: the loop of _read_r runs once more than it was asked to.
ReadFifo_OneMore ==
    /\ rpc = "fifo"
    /\ \/ fifo > 0 /\ fifo' = fifo - 1 /\ UNCHANGED ghosts
       \/ fifo = 0 /\ UNCHANGED fifo /\ ghosts' = ghosts + 1
    /\ left' = left - 1
    /\ Goto(IF left > 0 THEN "check" ELSE "idle")
    /\ UNCHANGED <<raw, inten, inited, sem, received, intVars>>

ReadFifo ==
    /\ rpc = "fifo"
    /\ \/ fifo > 0 /\ fifo' = fifo - 1 /\ UNCHANGED ghosts
       \/ fifo = 0 /\ UNCHANGED fifo /\ ghosts' = ghosts + 1
    /\ left' = left - 1
    /\ Goto(IF left > 1 THEN "check" ELSE "idle")
    /\ UNCHANGED <<raw, inten, inited, sem, received, intVars>>

ReaderStep ==
    \/ CreateSem \/ ReadMask \/ Unmask \/ ResetFifo \/ Configure \/ Check \/ Take \/ ReadFifo

-----------------------------------------------------------------------------
UartInit ==
    /\ fifo = 0 /\ raw = FALSE /\ inten = FALSE /\ inited = FALSE
    /\ sem = 0 /\ rpc = "idle" /\ left = 0 /\ received = 0 /\ ghosts = 0

UartTypeOK ==
    /\ fifo \in 0 .. FifoSize /\ sem \in 0 .. SemMax /\ left \in 0 .. MaxLen
    /\ received \in 0 .. MaxBytes /\ ghosts \in Nat
    /\ raw \in BOOLEAN /\ inten \in BOOLEAN /\ inited \in BOOLEAN
    /\ rpc \in ReaderPcs
=============================================================================
