------------------------------- MODULE OneWire -------------------------------
(***************************************************************************)
(* The search for the devices of a 1-Wire bus (extras/onewire/onewire.c),  *)
(* as ds18b20_scan_devices drives it: onewire_search_next is called until  *)
(* it answers ONEWIRE_NONE.  A call walks down the tree of addresses, one  *)
(* bit at a time; devices whose bit was not chosen drop out.               *)
(*                                                                         *)
(* An address has a family code, a serial number and a check bit (the CRC, *)
(* here the parity).  While a search runs devices may be plugged in and    *)
(* out, and the bus may be shorted: it then reads -1, which the code keeps *)
(* in a uint8_t.                                                           *)
(***************************************************************************)
EXTENDS Integers, FiniteSets, SequencesExt

CONSTANTS
    Bits,           \* bits of an address (64)
    FamilyBits,     \* bits of its family code (8)
    AddrCount,      \* addr_count, the length of the caller's addr_list
    MaxFaults,      \* bound on plugging, unplugging and short circuits
    MaxScans        \* bound on the scans

ASSUME OneWireAssumption ==
    /\ Bits \in Nat /\ FamilyBits \in 1 .. Bits - 1
    /\ AddrCount \in Nat /\ MaxFaults \in Nat /\ MaxScans \in Nat

VARIABLES
    bus,            \* the devices that are plugged in
    shorted,        \* the bus is held low
    search,         \* onewire_search_t
    pc,             \* "idle", "next", "bits" or "done"
    n,              \* id_bit_number
    last_zero,
    active,         \* devices that still take part in this call
    addr_list,      \* the first AddrCount addresses of this scan
    first,          \* the devices at its start
    want,           \* its family code, or None
    harmed,         \* history: a device left or the bus was shorted in this scan
    unsure,         \* ... in this call
    faults, scans

vars == <<bus, shorted, search, pc, n, last_zero, active, addr_list, first, want, harmed, unsure,
          faults, scans>>
scanVars == <<first, want, scans>>

-----------------------------------------------------------------------------
(* Addresses.                                                              *)

Addresses == [1 .. Bits -> {0, 1}]
Ones(a) == {i \in 1 .. Bits : a[i] = 1}
Family(a) == [i \in 1 .. FamilyBits |-> a[i]]
NoFamily == [i \in 1 .. FamilyBits |-> 0]
None == <<>>

\* What is sold: a family code that is not 0, a CRC that is right.
Devices == {a \in Addresses : Family(a) # NoFamily /\ Cardinality(Ones(a)) % 2 = 0}
Families == {Family(a) : a \in Devices}

\* a comes before b: the first bit that tells them apart is 0 in a.
Before(a, b) == \E i \in 1 .. Bits : a[i] < b[i] /\ \A j \in 1 .. i - 1 : a[j] = b[j]

-----------------------------------------------------------------------------
(* The bus (external): a low bit of any device wins.                       *)

ReadBit(v) ==
    IF shorted THEN 255
    ELSE IF \A a \in active : a[n] = v THEN 1 ELSE 0

-----------------------------------------------------------------------------
(* onewire_search_next.                                                    *)

onewire_search_start ==
    [rom_no |-> [i \in 1 .. Bits |-> 0], last_discrepancy |-> 0, last_device_found |-> FALSE]

\* Mutant: the last discrepancy is not set.
onewire_search_prefix_NotSet(f) ==
    [rom_no |-> [i \in 1 .. Bits |-> IF i <= FamilyBits THEN f[i] ELSE 0],
     last_discrepancy |-> 0, last_device_found |-> FALSE]

onewire_search_prefix(f) ==
    [rom_no |-> [i \in 1 .. Bits |-> IF i <= FamilyBits THEN f[i] ELSE 0],
     last_discrepancy |-> Bits, last_device_found |-> FALSE]

Restarted(s) == [s EXCEPT !.last_discrepancy = 0, !.last_device_found = FALSE]

\* The call returns an address, or ONEWIRE_NONE, which ends the scan.
ReturnAddr(a) ==
    /\ addr_list' = IF Len(addr_list) < AddrCount THEN Append(addr_list, a) ELSE addr_list
    /\ pc' = "next"
ReturnNone == addr_list' = addr_list /\ pc' = "done"

\* After the last device, or if nobody answers the reset pulse: none.
NextNone ==
    /\ pc = "next"
    /\ search.last_device_found \/ shorted \/ bus = {}
    /\ search' = Restarted(search)
    /\ ReturnNone
    /\ UNCHANGED <<bus, shorted, n, last_zero, active, harmed, unsure, faults, scanVars>>
NextBegin ==
    /\ pc = "next"
    /\ ~search.last_device_found /\ ~shorted /\ bus # {}
    /\ active' = bus /\ n' = 1 /\ last_zero' = 0 /\ pc' = "bits" /\ unsure' = FALSE
    /\ UNCHANGED <<bus, shorted, search, addr_list, harmed, faults, scanVars>>

\* Mutant: after the last discrepancy, too, 1 is taken.
Direction_OneAfter(id, cmp) ==
    IF id # cmp THEN IF id # 0 THEN 1 ELSE 0
    ELSE IF n < search.last_discrepancy THEN search.rom_no[n]
    ELSE 1

\* Mutant: the old bit is taken at the last discrepancy, too.
Direction_Again(id, cmp) ==
    IF id # cmp THEN IF id # 0 THEN 1 ELSE 0
    ELSE IF n <= search.last_discrepancy THEN search.rom_no[n] ELSE 0

\* Mutant: the bit and its complement are swapped.
Direction_Swapped(id, cmp) ==
    IF id # cmp THEN IF cmp # 0 THEN 1 ELSE 0
    ELSE IF n < search.last_discrepancy THEN search.rom_no[n]
    ELSE IF n = search.last_discrepancy THEN 1 ELSE 0

\* Which way to go: where all agree; else as the last time, 1 at the last
\* discrepancy, and 0 after it.
Direction(id, cmp) ==
    IF id # cmp THEN IF id # 0 THEN 1 ELSE 0
    ELSE IF n < search.last_discrepancy THEN search.rom_no[n]
    ELSE IF n = search.last_discrepancy THEN 1 ELSE 0

\* The bus answers 1 and 1: nobody is there any more.  The bit and its complement
\* are read in one step here and in BitChosen: a device that leaves between the two
\* reads might as well have left before or after them.
BitNobody ==
    /\ pc = "bits" /\ n <= Bits
    /\ ReadBit(1) = 1 /\ ReadBit(0) = 1
    /\ search' = Restarted(search)
    /\ ReturnNone
    /\ UNCHANGED <<bus, shorted, n, last_zero, active, harmed, unsure, faults, scanVars>>
BitChosen ==
    /\ pc = "bits" /\ n <= Bits
    /\ LET id == ReadBit(1)
           cmp == ReadBit(0)
           dir == Direction(id, cmp)
       IN  /\ ~ (id = 1 /\ cmp = 1)
           /\ search' = [search EXCEPT !.rom_no[n] = dir]
           /\ last_zero' = IF id = cmp /\ dir = 0 THEN n ELSE last_zero
           /\ active' = IF shorted THEN {} ELSE {a \in active : a[n] = dir}
    /\ n' = n + 1
    /\ UNCHANGED <<bus, shorted, pc, addr_list, harmed, unsure, faults, scanVars>>

\* A short begins, or ends, between the two reads.  After one nobody answers.
BitShorted ==
    /\ pc = "bits" /\ n <= Bits
    /\ faults < MaxFaults /\ faults' = faults + 1
    /\ shorted' = ~shorted
    /\ search' = [search EXCEPT !.rom_no[n] = Direction(ReadBit(1), IF shorted THEN 1 ELSE 255)]
    /\ active' = {} /\ n' = n + 1
    /\ harmed' = TRUE /\ unsure' = TRUE
    /\ UNCHANGED <<bus, pc, last_zero, addr_list, scanVars>>

Found(s) == [s EXCEPT !.last_discrepancy = last_zero, !.last_device_found = @ \/ last_zero = 0]

\* All bits are known.  An address without a family code is none.
NextEnd ==
    /\ pc = "bits" /\ n = Bits + 1
    /\ \/ /\ Family(search.rom_no) = NoFamily
          /\ search' = Restarted(search)
          /\ ReturnNone
       \/ /\ Family(search.rom_no) # NoFamily
          /\ search' = Found(search)
          /\ ReturnAddr(search.rom_no)
    /\ UNCHANGED <<bus, shorted, n, last_zero, active, harmed, unsure, faults, scanVars>>

-----------------------------------------------------------------------------
(* The caller, and what happens to the bus.                                *)

\* ds18b20_scan_devices, or a scan for a family.
Scan ==
    /\ pc \in {"idle", "done"} /\ scans < MaxScans
    /\ scans' = scans + 1
    /\ \E f \in Families \cup {None} :
          /\ want' = f
          /\ search' = IF f = None THEN onewire_search_start ELSE onewire_search_prefix(f)
    /\ pc' = "next" /\ addr_list' = <<>> /\ first' = bus /\ harmed' = shorted /\ unsure' = FALSE
    /\ n' = 1 /\ last_zero' = 0 /\ active' = {}
    /\ UNCHANGED <<bus, shorted, faults>>

Fault ==
    /\ faults < MaxFaults /\ faults' = faults + 1
    /\ UNCHANGED <<search, pc, n, last_zero, addr_list, scanVars>>
PlugIn ==
    /\ Fault
    /\ \E a \in Devices \ bus : bus' = bus \cup {a}
    /\ UNCHANGED <<shorted, active, harmed, unsure>>
PlugOut ==
    /\ Fault
    /\ \E a \in bus : bus' = bus \ {a} /\ active' = active \ {a}
    /\ harmed' = TRUE /\ unsure' = TRUE
    /\ UNCHANGED shorted
\* A long low level is a reset pulse to the devices: they wait for a command.
Short ==
    /\ Fault
    /\ shorted' = ~shorted
    /\ active' = {}
    /\ harmed' = TRUE /\ unsure' = TRUE
    /\ UNCHANGED bus

Init ==
    /\ bus \in SUBSET Devices /\ shorted = FALSE
    /\ search = onewire_search_start
    /\ pc = "idle" /\ n = 1 /\ last_zero = 0 /\ active = {}
    /\ addr_list = <<>> /\ first = {} /\ want = None
    /\ harmed = FALSE /\ unsure = FALSE /\ faults = 0 /\ scans = 0

Searching == NextNone \/ NextBegin \/ BitNobody \/ BitChosen \/ NextEnd
Next == Searching \/ Scan \/ PlugIn \/ PlugOut \/ Short \/ BitShorted
Spec == Init /\ [][Next]_vars
FairSpec == Spec /\ WF_vars(Searching)

-----------------------------------------------------------------------------
(* Properties.                                                             *)

\* The devices a scan has to find, however many are plugged in meanwhile: all,
\* or those of the family asked for.
Wanted == {a \in first : want \in {None, Family(a)}}

\* A scan during which no device is unplugged and the bus is not shorted (~harmed)
\* finds every device once, in the order of the addresses; what is missing comes
\* after a list that is full.
ScanIsComplete ==
    pc = "done" /\ ~harmed =>
        /\ \A i, j \in DOMAIN addr_list : i < j => Before(addr_list[i], addr_list[j])
        /\ \A a \in Wanted \ Range(addr_list) :
              Len(addr_list) = AddrCount /\ \A b \in Range(addr_list) : Before(b, a)

\* A search for a family that nothing harms, as above, begins with that family, if
\* it has a device.
FamilyComesFirst ==
    ~harmed /\ want # None /\ Wanted # {} =>
        \A i \in DOMAIN addr_list :
            Family(addr_list[i]) # want => Wanted \subseteq {addr_list[j] : j \in 1 .. i - 1}

\* Whatever happened before, shorts included, a call during which no device leaves
\* and the bus is not shorted (~unsure) returns the address of a device.
NoPhantom ==
    [][pc = "bits" /\ pc' = "next" /\ ~unsure => search'.rom_no \in bus]_vars

\* A scan comes to an end, whatever is plugged in and out and however long the bus is
\* shorted.
ScanEnds == pc \in {"next", "bits"} ~> pc = "done"
=============================================================================
