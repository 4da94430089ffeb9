------------------------------- MODULE Rboot -------------------------------
(***************************************************************************)
(* The boot loader (bootloader/rboot/rboot.c) with the configuration       *)
(* sector it shares with the application (extras/rboot-ota/rboot-api.c).   *)
(* The loader takes the ROM slot the configuration names, falls back to    *)
(* the slots before it if that image is bad, and honours a one-time choice *)
(* left in the memory of the real-time clock.  A rewrite of the            *)
(* configuration erases the sector first.                                  *)
(*                                                                         *)
(* The configuration lies in one page of the flash, whose programming is   *)
(* one step; a power failure between the erase and this step leaves no     *)
(* configuration.  An image is written block by block.                     *)
(***************************************************************************)
EXTENDS Integers

CONSTANTS
    NumSlots,       \* ROM slots on the flash
    NumBlocks,      \* blocks of a firmware image
    IromBlocks,     \* the image's first blocks: its header and the code in flash
    SlotBlocks,     \* blocks of a slot
    MaxCrashes      \* how often the power fails in a behaviour

ASSUME SlotsAssumption == NumSlots \in Nat /\ NumSlots >= 2
ASSUME BlocksAssumption ==
    /\ IromBlocks \in Nat \ {0} /\ NumBlocks \in Nat /\ SlotBlocks \in Nat
    /\ IromBlocks < NumBlocks /\ NumBlocks < SlotBlocks
ASSUME CrashAssumption == MaxCrashes \in Nat

VARIABLES
    image,      \* image[s][k]: what block k of slot s holds (see Cells)
    conf,       \* the configuration sector
    rtc,        \* the one-time boot choice in RTC memory
    running,    \* the slot that was booted
    pc,         \* "boot", "select", "rewrite", "rewriteWrite", "running", "halted"
    choice,     \* the configuration held in RAM while the sector is rewritten
    crashes     \* power failures so far

bootVars == <<image, conf, rtc, running, pc, choice, crashes>>

Slots == 0 .. NumSlots - 1
Blocks == 1 .. SlotBlocks

\* A block of a slot is erased, holds block k of the new firmware (k) or of
\* the one before (OldBlock(k)), something else, or the remains of programming
\* flash that was not erased.
Erased == 0
OldBlock(k) == SlotBlocks + k
Damaged == -1
Overprinted == -2
Cells == -2 .. 2 * SlotBlocks

\* What check_image of the boot loader and rboot_verify_image of the application
\* look at: the header, which leads past the code in flash, and the checksum over
\* the sections behind it.  The code in flash itself (irom) is not read, so that
\* the remains of two images of one layout may pass.
Good(s) ==
    /\ image[s][1] \in {1, OldBlock(1)}
    /\ \/ \A k \in IromBlocks + 1 .. NumBlocks : image[s][k] = k
       \/ \A k \in IromBlocks + 1 .. NumBlocks : image[s][k] = OldBlock(k)

\* The slot holds all of one firmware.
Complete(s) == \/ \A k \in 1 .. NumBlocks : image[s][k] = k
               \/ \A k \in 1 .. NumBlocks : image[s][k] = OldBlock(k)

Conf(rom, count) == [valid |-> TRUE, rom |-> rom, count |-> count]
NoConf == [valid |-> FALSE, rom |-> 0, count |-> 0]

\* The default configuration, for a standard set-up with two ROMs.  The code sets
\* their addresses anew, too; a slot is named by its number here, and slots 0 and 1
\* are taken to lie at the default addresses, as in a set-up that never moved them.
DefaultConf == Conf(0, 2)

Temp(s) == [temp |-> TRUE, rom |-> s]
NoTemp == [temp |-> FALSE, rom |-> 0]

-----------------------------------------------------------------------------
(* find_image.                                                             *)

\* A missing configuration is replaced by the default one.
ReadConfig ==
    /\ pc = "boot"
    /\ \/ conf.valid /\ UNCHANGED conf
       \/ ~conf.valid /\ conf' = DefaultConf
    /\ pc' = "select"
    /\ UNCHANGED <<image, rtc, running, choice, crashes>>

InvalidRom == conf.rom >= conf.count

\* The ROM to try first.
FirstRom == IF InvalidRom THEN 0 ELSE IF rtc.temp THEN rtc.rom ELSE conf.rom

\* The ROM that is booted: the first good one, counting down from FirstRom and
\* around.
GoodRoms == {s \in 0 .. conf.count - 1 : Good(s)}
Distance(s) == IF s <= FirstRom THEN FirstRom - s ELSE FirstRom - s + conf.count
FoundRom == CHOOSE s \in GoodRoms : \A t \in GoodRoms : Distance(s) <= Distance(t)

Run(s) ==
    /\ running' = s
    /\ rtc' = NoTemp
    /\ pc' = "running"

\* Boot slot s, after writing it to the configuration if that named another.
Start(s, update) ==
    \/ ~update /\ Run(s) /\ UNCHANGED choice
    \/ /\ update
       /\ choice' = [rom |-> s, count |-> conf.count]
       /\ pc' = "rewrite"
       /\ UNCHANGED <<rtc, running>>

Halt == pc' = "halted" /\ UNCHANGED <<running, choice>>

\* Mutant: a fallback is not recorded in the configuration.
Select_NotRecorded ==
    /\ pc = "select"
    /\ \/ rtc.temp /\ rtc.rom >= conf.count /\ Halt /\ UNCHANGED rtc
       \/ rtc.temp /\ rtc.rom < conf.count /\ ~Good(FirstRom) /\ Halt /\ rtc' = NoTemp
       \/ rtc.temp /\ rtc.rom < conf.count /\ Good(FirstRom) /\ Start(FirstRom, InvalidRom)
       \/ ~rtc.temp /\ GoodRoms = {} /\ Halt /\ UNCHANGED rtc
       \/ ~rtc.temp /\ GoodRoms # {} /\ Start(FoundRom, InvalidRom)
    /\ UNCHANGED <<image, conf, crashes>>

\* There is no fallback from a temporary choice, and one that is out of range
\* stays in the RTC memory.
Select ==
    /\ pc = "select"
    /\ \/ rtc.temp /\ rtc.rom >= conf.count /\ Halt /\ UNCHANGED rtc
       \/ rtc.temp /\ rtc.rom < conf.count /\ ~Good(FirstRom) /\ Halt /\ rtc' = NoTemp
       \/ rtc.temp /\ rtc.rom < conf.count /\ Good(FirstRom) /\ Start(FirstRom, InvalidRom)
       \/ ~rtc.temp /\ GoodRoms = {} /\ Halt /\ UNCHANGED rtc
       \/ ~rtc.temp /\ GoodRoms # {} /\ Start(FoundRom, InvalidRom \/ ~Good(FirstRom))
    /\ UNCHANGED <<image, conf, crashes>>

\* The configuration is rewritten in two steps, then the ROM is started.
RewriteErase ==
    /\ pc = "rewrite"
    /\ conf' = NoConf
    /\ pc' = "rewriteWrite"
    /\ UNCHANGED <<image, rtc, running, choice, crashes>>

RewriteWrite ==
    /\ pc = "rewriteWrite"
    /\ conf' = Conf(choice.rom, choice.count)
    /\ Run(choice.rom)
    /\ UNCHANGED <<image, choice, crashes>>

FindImage == ReadConfig \/ Select \/ RewriteErase \/ RewriteWrite

-----------------------------------------------------------------------------
(* The application's side.                                                 *)

\* rboot_set_temp_rom does not look at the number it is given.
SetTempRom(s) ==
    /\ pc = "running"
    /\ rtc' = Temp(s)
    /\ UNCHANGED <<image, conf, running, pc, choice, crashes>>

\* A restart keeps the RTC memory, a power failure does not.  What a power
\* failure does to the image is up to the writer of the image.
Restart == pc' = "boot" /\ UNCHANGED rtc
PowerFail ==
    /\ crashes < MaxCrashes /\ crashes' = crashes + 1
    /\ pc' = "boot"
    /\ rtc' = NoTemp
    /\ UNCHANGED <<conf, running, choice>>

-----------------------------------------------------------------------------
\* The flash as a user leaves it: with or without a configuration, with the
\* old firmware in some of the slots, one of which the default configuration
\* reaches too.
BootInit ==
    /\ conf \in {NoConf} \cup {Conf(rom, count) : rom \in Slots, count \in 1 .. NumSlots}
    /\ image \in [Slots -> {[k \in Blocks |-> Erased],
                            [k \in Blocks |-> IF k <= NumBlocks THEN OldBlock(k) ELSE Erased]}]
    /\ \E s \in {0, 1} : Good(s) /\ (conf.valid => s < conf.count)
    /\ rtc = NoTemp /\ running = 0 /\ pc = "boot"
    /\ choice = [rom |-> 0, count |-> 1]
    /\ crashes = 0

BootTypeOK ==
    /\ image \in [Slots -> [Blocks -> Cells]]
    /\ conf \in [valid : BOOLEAN, rom : Slots, count : 0 .. NumSlots]
    /\ rtc \in [temp : BOOLEAN, rom : 0 .. NumSlots]
    /\ running \in Slots
    /\ pc \in {"boot", "select", "rewrite", "rewriteWrite", "running", "halted"}
    /\ choice \in [rom : Slots, count : 1 .. NumSlots]
    /\ crashes \in 0 .. MaxCrashes

=============================================================================
