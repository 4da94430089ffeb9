# Verification of esp-open-rtos

TLA+ models of the parts of esp-open-rtos whose correctness depends on the order of
flash writes, packets, interrupts and power failures, TLC runs that check them on small instances,
and TLAPS proofs of the results that matter most.

esp-open-rtos is an SDK for the ESP8266: FreeRTOS and lwIP (both third-party) with a
port to the chip, replacements for the vendor's libraries, a boot loader, a store for
system parameters and a number of drivers and network services. There is one CPU. What
runs concurrently are FreeRTOS tasks, lwIP's thread and interrupt handlers; what
survives a reset is the flash, and over a restart without power loss the memory of the
real-time clock.

Two of the subsystems modelled keep their state in flash, where a write can only clear
bits, an erase takes a whole sector and the power may fail between any two operations: the
parameter store and the firmware update. Both must find a usable state at the next boot
whatever happened. The others are a network service (DHCP), two drivers that share the
CPU's interrupt mask (UART input and PWM), and a search on a bus whose devices come and go
(1-Wire).

## Inventory

| Component | State | Operations | Interaction | Hard because | Correct when |
|---|---|---|---|---|---|
| System parameters, `core/sysparam.c` | two flash regions (header, log of entries), `_sysparam_info` | init, create area, get, set, delete, iterate, compact | set and compact hold a mutex; get and iterate do not; start-up mounts or creates the area | power loss between two writes, failing flash operations, region full, ids exhausted, readers beside a compaction | a value whose set answered OK is what a get returns, also after a reset; other parameters never change; every reset mounts the store |
| System start, `core/app_main.c` | none of its own | `sdk_user_start` mounts the parameters, reads the flash settings, starts tasks | calls sysparam, vendor libraries | order of initialisation | the parameter area is mounted, or created if it is empty |
| Boot loader, `bootloader/rboot` | configuration sector, RTC data | `find_image`: read or default the configuration, choose, verify, fall back, rewrite | shares the sector and the RTC data with the application | power loss while the configuration is rewritten; bad images; temporary boots | a standard boot finds a good image; a temporary boot happens once |
| Boot configuration API, `extras/rboot-ota/rboot-api.c` | the same sector | get and set configuration, set current ROM, set temporary ROM, write flash, verify image | called by the update server and applications | read, erase and write back of a sector | as for the loader |
| Over-the-air update, `extras/rboot-ota/ota-tftp.c` | the transfer: block, retries, slot, lwIP queue | server task, `ota_tftp_download` | UDP peer, lwIP, boot configuration | loss, duplication, reordering, stale packets, timeouts, power loss | an acknowledged block is stored; only a complete image is configured |
| DHCP server, `extras/dhcpserver` | lease table with expiry times | discover, request, release, expiry, start, stop | UDP peers | table full, expiry as an absolute tick, repeated and late requests, clients that leave and come back | no address has two users |
| FreeRTOS port, `FreeRTOS/Source/portable/esp8266` | critical nesting, soft-interrupt flags | yield, enter and exit critical, interrupt dispatch | every task and interrupt handler | vendor code disables interrupts as well; flags are set and cleared by both sides | nesting is balanced, no requested switch is lost |
| lwIP system layer, `lwip/sys_arch.c` | mailboxes, semaphores over FreeRTOS queues | post, try-post, fetch with timeout | tasks, lwIP's thread | full mailbox, timeout against a late post | no message is lost or delivered twice |
| UART input, `extras/stdin_uart_interrupt` | receive FIFO, counting semaphore | interrupt handler, read, count | interrupt against reader; interrupt mask | FIFO checked, then the semaphore awaited; signals left over | a reader does not sleep on available input |
| PWM, `extras/pwm` | duty, period, phase | start, stop, restart, set, timer interrupt | interrupt against the setters; interrupt mask | an interrupt between any two steps of a call | a stopped output stays, a started one turns over |
| Interrupts and timers, `core/esp_interrupts.c`, `interrupts.h`, `core/esp_timer.c` | CPU interrupt mask, handler table, timer registers | mask, unmask, attach, dispatch | all drivers | the mask is read and written back without protection | a change of the mask is not undone |
| 1-Wire search, `extras/onewire`, `extras/ds18b20` | `onewire_search_t`: address, last discrepancy | start, prefix, next, scan | the bus | devices come and go between two calls, bus errors | each device is found once; the scan ends |
| Peripheral drivers, `core/esp_gpio.c` and others | registers | set, read | - | hardware | - |
| C library glue and debug dumps, `core/newlib_syscalls.c`, `core/debug_dumps.c` | - | write, read, sbrk, dump | - | input and output | - |
| Vendor library replacements, `open_esplibs` | undocumented hardware | - | - | disassembly | - |
| Sensor and display drivers, `extras/*` | a device each | bit-level protocols | - | timing | - |
| Third-party code: kernel, lwIP, mbedTLS, SPIFFS, paho MQTT, newlib | - | - | - | vendored | - |

`PROJECT.json` lists the components with the modules that model them, and the hazards,
each at the line where it bites with the properties that would catch it.

## Modules

| Module | What it is |
|---|---|
| `Sysparam` | the parameter store: boot, set, delete, compaction, failures, power loss, and its properties |
| `SysparamStore` | abstract specification: a map, changed by one call at a time |
| `MCSysparam` | instances of `Sysparam` for TLC |
| `SysparamProofs`, `SysparamDataProofs` | theorems about `Sysparam`: recovery and the layout of the log; what the parameters read as and the refinement of `SysparamStore` |
| `Rboot` | the boot loader and the configuration sector |
| `OtaUpdate` | the TFTP update server composed with `Rboot`, lwIP's queue, the network and a client |
| `MCOta` | instances of `OtaUpdate` for TLC |
| `OtaProofs` | theorems about `OtaUpdate` and `Rboot` |
| `LeastElements` | two lemmas about least and greatest elements, used where the code takes the first match |
| `SysparamReaders` | `Sysparam` composed with a task that gets or iterates without the lock |
| `MCReaders` | instances of `SysparamReaders` for TLC |
| `SysparamReadersProofs` | theorems about `SysparamReaders` |
| `DhcpServer`, `MCDhcp`, `DhcpProofs` | the DHCP server with its clients, instances, theorems |
| `Interrupts` | the CPU's interrupt mask |
| `StdinUart` | UART input, on `Interrupts` |
| `Pwm` | PWM and the timer FRC1, on `Interrupts` |
| `UartPwm`, `MCUartPwm` | both drivers in one program, with the properties; instances |
| `UartProofs` | theorems about `UartPwm` |
| `OneWire`, `MCOneWire`, `OneWireProofs` | the 1-Wire search; instances; theorems |

### Sysparam

`hdr[r]` is the header of region r: `"blank"` (erased), `"bad"` (no magic number: zeroed,
or cut off while written), `"active"` or `"stale"`. `log[r]` is the sequence of its
entries in address order. An entry is `"new"` from the write of its header until its
INVALID flag is cleared, then `"live"`, and `"dead"` once its ALIVE flag is cleared; a
`"pad"` is a header zeroed after a failed write, a `"torn"` entry a header whose write was
cut off. `info` is `_sysparam_info`. `pc` names what the code does next; `"return"` means
that the status is decided and the mutex still held. `keyId` is `key_id` (0 for -1),
`old` is `old_value_addr`, `copy` the progress of `_compact_params`.

Each flash write that a later reader can tell from the next is a step:

| Code | Actions |
|---|---|
| `sysparam_init` | `SysparamInit`, `RecreateFormat`, `RecreateHeader` |
| `sysparam_create_area` | `CreateScan`, `CreateFormat`, `CreateHeader`, `Reformat` |
| `sysparam_set_data` | `SetData`, `SetNoInit`, `CheckSpace`, `CheckFull`, `CheckIds`, `CheckForce`, `WriteKey`, `WriteValue`, `DeleteOld`, `Return` |
| `_write_entry` | `WriteKey` or `WriteValue`, then `ValidateKey` or `ValidateValue`; `WriteOverLeft` |
| `_compact_params` | `CompactFormat`, `CompactCopy`, `CompactActivate`, `CompactRetire` |
| error paths | `SetFails`, `WriteHeaderFails`, `ValidateFails`, `DeleteFails`, `CompactFails`, `CompactHeaderFails`, `BootFails` |
| power loss | `Crash`, `CrashInEntryHeader`, `CrashInRegionHeader` |

Abstractions. Sizes and addresses are words from the base of a region; payloads are
model values with a length. Reads made under the mutex belong to the step that uses
them. While a region has no header nothing in it can be found, so that erasing several
sectors is one step and so is copying a pair into it. A deleted entry's id and payload
are dropped from the model, because the code reads only its length again. `op.prev` and
`op.clean` are history fields that only properties read. The lookups of `Sysparam` are
those of the writer.

A header that cannot be written is zeroed, and `end_addr` skips it (`SkipHeader`). If the zeroing
fails as well (the fault `"zero"`), `_write_entry` returns at once: `end_addr` stays in front of
what is on flash, which is nothing, zeros, or the header of an entry that never became valid.
`info.left` is the length that it claims, 0 for nothing. The next entry header is then written over
it. It either takes, because all its bits are still there, or it does not (`WriteOverLeft`) and the word is
zeroed at last. A boot, or a compaction that leaves the region, turns what is left into an entry
without content (`Sealed`), which is how `_find_entry` reads it.

### SysparamReaders

`rd` is the call of a second task: where it reads, what it has found, and as history what
the key was worth during the call (`seen`), which keys had a value all the time (`steady`),
whether the store has moved (`moved`) and whether the sets of its key began with one value of
it at most (`clean`). A set that has failed with ERR_IO may have written its value all the
same, so that a reader may see either (`Written`). A step is one turn of the loop of `_find_entry`;
the steps of `Sysparam` go on in between.

| Code | Actions |
|---|---|
| `sysparam_get_data`, `sysparam_get_data_static` | `StartGet`, then the steps below, `ReadReturn` |
| `sysparam_iter_start`, `sysparam_iter_next` | `StartIteration`, then the steps below, `ReadReturn` |
| `_find_entry`, `_find_key`, `_find_value` | `ReadEntry`, `ReadEnd`, `ReadBeyond` |
| flash erased under the reader | `ReadAstray`: it may return anything and set `force_compact` |

`_find_entry` compares the reader's address with the region in use *now*. If that is the
lower one, the entry seems too long, which sets `force_compact` (`ReadBeyond`). If it is the
upper one, the reader goes on in the old region, and at its exact end into the new one: the
magic number and, for a reader that has not begun, the second word of a region header read
as dead entries and are skipped, as the header is in the model. What a reader makes of a header that
could not be zeroed (`info.left`) is not modelled; the run has no such fault and the two theorems
about readers exclude it.

### Rboot and OtaUpdate

`image[s][k]` is what block k of slot s holds: erased, a block of the new or of the old
firmware, damage, or the remains of programming flash that was not erased. `Good(s)` is
what `check_image` and `rboot_verify_image` look at: the header and the checksum over the
sections behind the code in flash, which itself is not read; `Complete(s)` says that the
slot holds all of one firmware. `conf` is the configuration sector, `rtc` the one-time
choice in the RTC memory, `choice` the copy in RAM while the sector is rewritten. `rx` is
the server task, `mbox` the packets lwIP holds for it, `net` the packets under way, `cl`
the client.

| Code | Actions |
|---|---|
| `find_image` | `ReadConfig`, `Select`, `RewriteErase`, `RewriteWrite` |
| `rboot_set_temp_rom`, `sdk_system_restart` | `AppTempRom`, `AppRestart` |
| `tftp_task` | `Ignore`, `WriteRequest`, `SwitchErase`, `SwitchWrite`, `SwitchFails` |
| `tftp_receive_data` | `ReceiveTimeout`, `ReceiveFails`, `ReceiveDuplicate`, `ReceiveUnexpected`, `ReceiveData`, `RefuseLarge`, `StoreBlock`, `StoreLast` |
| `rboot_set_current_rom`, `rboot_set_config` | `SwitchErase`, `SwitchWrite`, `SwitchFails` |
| lwIP (external) | `Deliver`: a connected server only gets packets of its session, a full queue drops |
| client and network (external) | `ClientStart`, `ClientAck`, `ClientError`, `ClientTimeout` |
| power loss | `Crash`, which may damage the block that is being programmed |

A session is the client's UDP port, and each session sends a file of its own (`cl.file`): the new
firmware, the one before, a corrupt one or one as long as the slot. Packets that were queued before
the server connected stay in its queue, as in lwIP, and `tftp_receive_data` compares their block
number only, so that a late block of another session's file is stored in this one's place
(`rx.from` is the session whose block was taken). `mixed` is history: the slots whose last transfer
has taken a block of another file than its own.

Abstractions. A lost packet is one that is never taken. A whole block does not fit into the last
block of a slot (`TooLarge`); the last block of a file is shorter, and the model lets it fit or not. The default configuration sets
the addresses of ROMs 0 and 1 anew (`rboot.c:368`); slots are numbers here, and slots 0 and 1 are
taken to lie at these addresses. The configuration lies in one flash page that is programmed in
one step. Erasing a sector is one step. Requests that the server refuses because of file
name or mode are among the packets it ignores. Where the slot that runs is overwritten
(see the findings) the model lets the code carry on. The application's verify callback
may refuse a good image. The application does not change the configuration while the
server does.

### DhcpServer

`leases[i]` is a slot of the table, whose address is the first address plus i in the last
octet; `mbox` is what lwIP holds for the socket, `client[c]` and `inbox[c]` belong to the
clients. `HandleDiscover`, `HandleRequest`, `HandleRelease` and `HandleOther` are the turns
of the loop of `dhcpserver_task`, each with the expiry that comes first; `Stop` and `Start`
are `dhcpserver_stop` and `dhcpserver_start`. The requested address of a packet without
option 50 is an uninitialised variable compared with 0.0.0.0, a free choice in the model
(`RequestedIp`). The clients are external: they follow RFC 2131, lose packets, send again,
renew with `ciaddr`, release, leave and reboot with the address they had. The lease a
client counts starts when it sends its request. Only the last octet of an address is
modelled; `OctetMod` is 256 in the code.

### Interrupts, StdinUart, Pwm, UartPwm

`intenable` is the CPU's mask. `_xt_isr_mask` and `_xt_isr_unmask` are two steps of a task
(`Rsr`, then `WsrMask` or `WsrUnmask`) and one of a handler. `torn` records that a write-back
has undone a change of somebody else.

| Code | Actions |
|---|---|
| `uart0_rx_init` | `CreateSem`, `ReadMask`, `Unmask`, `ResetFifo`, `Configure` |
| `_read_r`, `uart0_num_char` | `Call`, `Check`, `ReadMask`, `Unmask`, `Take`, `ReadFifo` |
| `uart0_rx_handler`, `frc1_interrupt_handler` | the actions of the same names |
| `pwm_start`, `pwm_stop`, `pwm_restart`, `pwm_set_freq`, `pwm_set_duty` | the actions of the same names choose the steps (`todo`), `DportOff` to `Constant` execute them |
| `timer_set_interrupts`, `timer_set_run`, `timer_set_frequency` | `DportOff`, `DportOn`, `PwmRsr`, `PwmMask`, `PwmUnmask`, `Halt`, `Run`, `Load` |
| `_xt_isr_handler` | `UartInterrupt`, `TimerInterrupt`, served before a task goes on |
| hardware (external) | `Receive`, `Reassert`, `TimerEnds` |

Bytes are counted; the pins carry one level; loads are not modelled. One task reads, one
task calls PWM. `Reassert` says that RXFIFO_FULL, once cleared, may or may not be raised
again while there are bytes. `UartTypeOK` bounds the FIFO, the semaphore and the room that is left
in the caller's buffer, which a read that does not stop in time would make negative.

### OneWire

`search` is `onewire_search_t`, `n` and `last_zero` the locals of `onewire_search_next`,
`active` the devices that still take part. `NextNone` and `NextBegin` are the entry of the
function, `BitNobody`, `BitChosen` and `BitShorted` a turn of its loop, `NextEnd` its end, `Scan` and
`ReturnAddr` the loop of `ds18b20_scan_devices`. An address has four bits instead of 64, of
which two are the family code and one makes the parity even in place of the CRC. A read
from a shorted bus is -1, 255 in the `uint8_t` that takes it. The bit and its complement are read
in one step; `BitShorted` is the turn in which a short begins or ends between the two reads. (A device
that leaves between them gives the same answers as one that leaves before or after.)

## Runs

| Run | Instance | Shows |
|---|---|---|
| `SysparamPower` | two keys, two values, three ids, a region of ten words, sets and deletes, one power failure | the log is well formed, writes hit erased flash, key ids are in order, an OK is durable, each reset mounts the region in use, no other parameter changes |
| `SysparamFaults` | the same without deletes, with one failing allocation, write, verify or erase, or a failing header write and zeroing, one power failure, and reformatting | `end_addr` tracks the flash after an error, an OK is durable, other parameters are untouched |
| `SysparamStore` | three keys, values of two lengths, two ids, twelve words, no failures | the log implements `SysparamStore` (refinement mapping `CallerView`), and ERR_FULL is only answered when compacting cannot help |
| `SysparamLive` | one id, a value that only fits alone, one failing region-header write, two power failures, fairness | calls and boots end, a mountable region is mounted, ids stay in range |
| `OtaPower` | three slots, two sessions that send the new or the old firmware each, one power failure, one failing send, receive or allocation, a temporary boot | a standard boot always finds an image, the configured slot is complete or its transfer took a block of another file, flash in use is not programmed, acknowledged blocks are stored |
| `OtaTransfer` | two slots, one session, new, old, corrupt and oversized files, one duplicate, one client retry, one server retry, fairness | the last ACK means a complete image, transfers end, a switch takes effect |
| `SysparamReaders` | two keys, two values, fourteen words, a writer that sets and deletes, a reader that gets and iterates | a get is right at some moment of the call and an iteration is complete while the store does not move; even if it does, a key that has a value all the time returns none of another |
| `Dhcp` | two clients, three slots of which one lies behind the wrap of the octet, a queue of two, one lease time and one tick more, three releases, restarts or renewals, a stop and a start | no two owners of an address, and the server knows each owner, during the first lease time |
| `Uart` | FIFO of two, two bytes, reads of up to two bytes, two PWM calls, fairness | FIFO, semaphore and buffer in their bounds, no lost wake-up, at most two signals left over, a stopped output stays, reads and periods go on |
| `OneWire` | every set of devices with four-bit addresses, a list of three, two faults, fairness | a scan that no unplugging or short harms finds every device once and in order, a family first; no phantoms in such a call; every scan ends |
| `SysparamRace`, `OtaTemp` | small | the findings below, as counterexamples |

Bounds. Ten words hold a header and two pairs of key and value, so that the third write
finds the region full, in the middle or exactly at its end; two keys are enough for a
compaction to treat one as the key being set and one as another. The readers' instance has values
of three words in a region that two pairs fill exactly: every further value needs a compaction, and a
reader that is left behind reaches the end of the old region and the region behind it. One power failure
reaches every state of the flash an interrupted call can leave; a second one, within the
recovery from the first, happens in `SysparamLive`, and the recovery theorems hold for any
number. One fault is one error path, taken at any place, before or after the crash. Power and Faults use
symmetry on keys and on values, which are of one length there, and check no liveness.
The OTA instance has images of three blocks in slots of four with two blocks per sector:
header and code in flash, a checksummed section in a sector of its own, and the block
that the server refuses. Three slots are the smallest number at which a configuration is
not a neighbour of every slot; with two the default configuration reaches all. Two sessions and two
firmwares of one layout are enough for a block of one to be taken for a block of the other
(checked: without the exception for `mixed` slots both `AckedBlocksStored` and
`ConfiguredRomIsComplete` fail). `OtaTransfer`, which checks liveness with retries and duplicates, has one
session, so that it is the proof of `LastAckMeansStored` and not the run that speaks of several. The
invariants proved below do not depend on any of these bounds. `MaxCrashes`, `MaxFaults`,
`MaxSessions`, `MaxTries`, `MaxDups`, `MaxTime`, `MaxChurn`, `MaxBytes`, `MaxLen`, `MaxCalls`
and `MaxScans` only bound the environment; the code's own bounds
are `RegionSize`, `MaxKeyId`, `MaxRetries`, `MboxSize`, `MaxLeases`, `FifoSize`, `SemMax` and
`AddrCount`. Two clients are enough for a conflict, three slots for one client to be found
in a slot behind the first empty one, and three changes for a client to release, come back
and meet another in its place. Two bytes and reads of two bytes make one read wait and the
next one find a byte that its signal outlives; four bytes and four calls were checked once
for the safety properties. With four address bits a search meets discrepancies at up to
three levels, one of them in the family code.

Deadlock is checked for the parameter store and for DHCP. It is not for the update, where
the loader may halt for good and a client that is done asks for nothing, nor where nothing
may be left to do: no byte comes, no call is made, no scan is wanted.

Fairness. `Sysparam`'s `FairSpec` is weak fairness of boot code, checks, compaction and
writes together: one thread runs them in sequence and waits for nothing in between. There
is none on calls, failures and power loss. `OtaUpdate`'s `FairSpec` is weak fairness of the
boot loader, which runs alone, and of the server task, which waits for packets only, with
a timeout. Client, network, application and failures owe nothing, so that a transfer ends
even if nobody answers. `UartPwm`'s `FairSpec` says that raised interrupts are served and a
running timer comes to its end (weak fairness), and that a task which can run again and
again, between interrupts, does (strong fairness: interrupts disable it for a moment, and
the scheduler shares the CPU among tasks of one priority). Nobody need send a byte or make a
call. `OneWire`'s is weak fairness of the searching task, which waits for nobody.

Limits of what the runs say. `OkIsDurable` is about keys that have one value or no entry
when the call begins (`op.clean`): a key whose value was deleted is described under the
findings, and a power failure between the validation of a new value and the
deletion of the old one leaves two values, of which the old one is found. It is not
claimed when a region-header write fails, nor is `FullMeansFull` with such duplicates.
`SysparamReaders` has no failures; once a region was erased under a reader
(the second compaction of one call of the reader) nothing is claimed about its answer.
`NoForeignValue` is about keys that had one value when they were set (`rd.clean`), because the race
described under the findings leaves a value under another key's id, and that key returns it
once its own is replaced; and about keys that have a value during the whole call: a delete is what
lets a compaction number the keys anew, and a get of the deleted key may return the value of
the key that has its number then (see the findings). `ConfiguredRomIsComplete`, `LastAckMeansStored` and
`AckedBlocksStored` except the slots whose transfer took a block of another session's file
(`mixed`). The
two properties of `Dhcp` end with the first lease time, because the code's expiry does.
`NoLostWakeup`, `GhostsBounded`, `ReaderServed` and `PwmTurnsOver` hold as long as no task has
undone another's change of the mask; `OutputFrozen` holds in spite of it, since the timer's
own enable bit is cleared first. `ScanIsComplete` and `FamilyComesFirst` are about scans
during which no device left and the bus was not shorted (`~harmed`), `NoPhantom` about such calls
(`~unsure`); `ScanEnds` has no such condition.

## Proofs

For every value of the constants, with the assumptions named in the modules:

- `SysparamProofs!TypeCorrect`: `Spec => []TypeOK`. `TypeOK` is not inductive. `CallOK`
  adds what a call in progress relies on: from the first check to the last write there is
  a mounted region, a key and a value, a compaction knows where to continue, and the last
  entry of the log is the one that is about to be validated. With it everything appended
  or validated is an entry.
- `SysparamProofs!MountedRegionRecovered`: if region-header writes do not fail,
  `Spec => []MountedIsRecovered`. The inductive invariant `RecoveryInv` adds `HeaderInv`,
  which says for each `pc` which headers are on the flash: outside the two header writes
  of a compaction the mounted region is active, and an active region before it in address
  order there is none; in between both are active and either will do; two stale headers
  never meet. The order "activate the copy, then retire the original"
  is what the proof rests on.
- `SysparamProofs!ParametersStayRecoverable`: under the same assumption,
  `Spec => []StaysRecoverable`, an action property, from the same invariant.
- `SysparamProofs!LogStaysWellFormed`, `WritesHitBlank`, `KeyIdsStayInOrder`,
  `IdsStayInRange`: `LogWellFormed`, `WritesHitBlankFlash`, `KeyIdsInOrder` and `IdsInRange`
  are invariants of `Spec` whatever fails, region headers included. None of them is
  inductive: each write relies on a check made many steps before, and the log of the other
  region matters as soon as a compaction is retired. `LogInv` therefore says of *both*
  regions that they are a good log (`Chained`: end to end; `Sized`: an entry is as long as
  its payload; `Numbered`; `Distinct`), and adds `EndInv` (where the next write goes, and that what a
  failed zeroing has left there lies inside the region),
  `CallInv` (what the checks have found lasts to the write it is for: there is room, there
  is an id, the key has no entry, the old value is still there), `LastInv` (which entry is
  about to be validated) and `CopyInv`. The last one is the heart: nothing in
  `_compact_params` checks that the copy fits. It does, because every copied key and its
  value occupy words of their own in the old region: the copy is no longer than the header
  and the *set of words* of the pairs copied so far (`WordsOf`), which is a subset of the
  old region's; and the ids that it assigns are counted by the same pairs, so they stay
  below `MaxKeyId`. Counting uses the cardinality theorems of the library instead of sums.
- `SysparamDataProofs!DataInvariant`, `OkIsDurableHolds`, `OthersUntouchedHolds`: what a
  get returns and a reboot preserves. A call decides by ids, not by names: it writes a value
  with an id, a compaction leaves behind the value of the key that has the call's id, a
  delete goes to an address found many steps before. `DataInv` adds to `LogInv` that these are
  never another parameter's. `OwnInv`: an id that a compaction compares with `key_id` belongs
  to the key that is being set; the id that a value is written with belongs, if to another
  key at all, to one that has a value already, so that the new one is never its first; and
  no other key has the id of the old value. `PairsInv`: each pair that the compaction
  has passed is a pair of the new region, and when its header is written none is left.
  `CleanInv`: a call that began with one value of its key, or without an entry, knows its
  values at each step, and an OK that it is about to return is true. `DataInvariant` holds
  whatever fails. The two properties speak of the region that a reboot mounts, and so rest on
  `MountedIsRecovered`, which is false when writes of region headers fail; they have that
  assumption and no other. The reading lemmas are `LookupSame` (an entry list that differs in
  nothing that the lookup of `k` reads) and `LookupCopied`.
- `SysparamDataProofs!RefinesStore`, `FullMeansFullHolds`, from `StoreInvariant`: if the
  power stays on, nothing fails, the flash is blank at first and the application neither
  deletes nor reformats (`Plain`, the instance of the run `SysparamStore`, but for every size
  of keys, values and regions, any number of them and any `MaxKeyId`), then
  `Spec => ImplementsStore` and `Spec => []FullMeansFull`. The refinement needs the
  conditions: a deleted value leaves a key without one, and a crash may leave a key with
  two, of which a get finds the old one after a set has returned OK. `StoreInv` adds to `DataInv` that between calls every key has one value and every
  value a key (`OneInv`; inside a call the key that is being set is excepted), that the key
  reads as before until the call is decided (`StatusInv`), and `RoomInv`. That one follows
  the argument of the space check across the compaction: every word of the log belongs to
  an entry that the compaction keeps, to one that it drops, or to the old value
  (`WordsOfAll`), and the copy takes no more words than what is kept. Hence the space that
  `CheckSpace` promises is there when the compaction is done (`CheckFull` never refuses), and
  when it does not promise it, compacting would not help. The refinement is a
  case for each action: the lookup is the request, the validation of the new value or the
  deletion of the old one is the acceptance, ERR_FULL the refusal; boot, checks, compaction
  and the writes before are not seen. The model counts the words of dead entries as a set
  (`Words`) where the code adds up sizes: entries share no word and lie inside the region
  (`LogWellFormed`), so the two agree, and cardinalities need no induction.
- `SysparamReadersProofs!ReaderInvariant`, `GetIsLinearizableHolds`, `IterationCompleteHolds`:
  for every choice of the constants, with deletes, reformatting, power failures and every
  fault but the failing zeroing of a header (`"zero" \notin Faults`): as long as the region in use stays (`~rd.moved`), a get without the lock returns what
  the key had at some moment of the call, and an iteration delivers each parameter that was
  there all the time once. What the writer knows of its own call is less than in `DataInv`,
  because a reader may set `force_compact` at any moment, and the code then compacts where
  `OwnInv` says that it does not (the finding `SysparamRace`). `LogInv` does survive
  (`LogForced`), and `OpInv` keeps what else is needed: a key that had no value has none until
  the call is decided, and the old value, if it is still in the region in use, is the one that
  a lookup finds. On top of it `ReaderInv` follows the reader. It stands at the end of the
  header or of an entry (`PosInv`), so that whatever is appended is still ahead of it. `Ahead`
  are the values of its key that it has not passed and `Answer` the one it would return if the
  writer stood still; the answer is always one the key had during the call (`GetInv`). No step
  of a set breaks this, because the new value is appended and validated before the old one is
  deleted, and because the writer knows of the value that a reader may have passed
  (`Informed`): it is deleted only when the new one is ahead of every reader. An iterator has
  each parameter that stayed either delivered or ahead, and if it is looking for the value of
  such a key it has passed no value of it (`IterInv`). The changes of the region are reduced to four kinds (`BaseChange`:
  nothing readable, a key comes, a value comes at the end, the first value of a key goes),
  and each part of the invariant is shown for these instead of for each action.
- `OtaProofs!OtaTypeCorrect`: `Spec => []TypeOK`, which needs that the slot received into
  exists (`NextSlotIsSuccessor`), and therefore that the configured one does.
- `OtaProofs!StandardBootAlwaysWorks`: `Spec => []StandardBootWorks` for any number of
  slots, blocks, sessions, packets, failures and power losses. `StandardBootWorks` alone
  is not inductive: while the configuration is erased the loader falls back to a default
  one that reaches slots 0 and 1 only. `FallbackInv` says that slot 0 or 1 is good, except
  while slot 0 is rewritten by the firmware in the last slot, when the configuration is
  there; `LoaderInv` that the loader starts the application only with a good configured
  slot and what it is about to write is good; `ServerInv` that the server writes to the
  slot after the configured one and switches to a good one. Each action preserves their
  conjunction `BootInv` (`NextInv`); the loader's choice among the good slots is a least
  element (`LeastElement`).
- `OtaProofs!AckedBlocksAreStored`, `NeverOverprintedHolds`: for every size of sectors,
  slots and files, and for any sessions with files of their own. `BlocksInv` adds to the two that the rest of the sector that the server
  writes to is erased (`ErasedFrom`), which is why the first block of the next sector needs
  the erase and the others do not, whatever an earlier transfer has left there. A stored block is
  that of its number of some session's file, and the session's own until the slot is in `mixed`
  (`OwnContent`).
- `OtaProofs!ConfiguredRomComplete`, `LastAckMeansStoredHolds`: neither the loader nor
  the server reads the code in flash when it checks an image. `SoundInv` says where an
  image that passes the checks may nevertheless be a mixture: only in the slot after a
  configured one that can be booted, and then the loader has no reason to fall back to it; and in the
  slots of `mixed`.
- `DhcpProofs!DhcpTypeCorrect`: `DhcpSpec => []DhcpTypeOK`.
- `DhcpProofs!DhcpInvariant`, `NoTwoOwnersHolds`, `ServerKnowsHolderHolds`: for any number
  of clients, slots, packets, restarts and any lease time. The inductive invariant
  `DhcpInv` is stronger in two ways. The table must also agree with the ACKs that are on
  their way (`Claims`, `TableAgrees`), because a client takes an address from an ACK long
  after the server has gone on. And a RELEASE in the queue must be the last thing of its
  sender that counts (`ReleasesAreFinal`): otherwise an old RELEASE would free the slot of
  a lease granted since. `ClaimsDiffer` is what remains when the server has stopped and the
  table is gone. The client steps share `ClientStepPreserves`, the server's
  `ServerPreserves`.
- `UartProofs!UartInvariant`, `NoLostWakeupHolds`, `GhostsBoundedHolds`: for every size of
  the FIFO, every limit of the semaphore and every sequence of reads and PWM calls.
  `UartInv` says how far the initialisation is (`StagesOK`); that between two unmasks there
  is one wait, so that the semaphore holds at most one signal while the interrupt may give
  another (`SignalsOK`); and that a byte that came after the reader has looked is announced
  by the raised status or by a signal (`WakeupOK`). The two last parts are conditional on
  `~torn`; the PWM task enters through the mask only.
- `UartProofs!UartTypeCorrect` and `OutputFrozenHolds`: `Spec => []TypeOK`, which bounds FIFO,
  semaphore and the room in the reader's buffer, and
  `Spec => OutputFrozen`, the second without the condition `~torn`. A stop masks the timer's
  interrupt, and the reader, between its read and its write of the mask, may bring the
  bit back. `PwmInv` shows why the pins keep their level all the same: a stop disables the
  timer's interrupt at its source before it masks it (`PlanOK`), an interrupt that is
  pending behind a cleared mask bit stays there, because the reader then holds no copy of
  the mask with the bit set (`MaskOK`), so nothing is left to raise when the plan is done
  (`FrozenOK`). It uses `TwoTasksAssumption`: the reader and
  the caller of PWM are different tasks, as the model composes them.

- `OneWireProofs!OneWireTypes`, `OneWireNoPhantom`: for addresses of any length, any family
  length below it, any devices and faults. `CallOK` says of a call during which no device
  leaves and the bus is not shorted that somebody takes part, is on the bus and has the bits chosen so far, so that the
  address at the end is his.
- `OneWireProofs!OneWireInvariant`, `OneWireScanIsComplete`, `OneWireFamilyComesFirst`: the
  search keeps one address and one position and never sees the tree that it walks. The argument
  needs no induction over the tree, only the first bit at which two addresses differ
  (`Splits`). Between calls the search is at a device (`AtDevice`): each wanted device up to it is
  passed (`Passed`: listed, or behind a full list), and each one behind it leaves its path
  at the last discrepancy at the latest. During a call (`PathOK`) the bits are still those of the
  last address (`OnOldPath`), or have left it at the last discrepancy, where the next device
  in order is (`OnNewPath`), or those of the wanted family (`OnFamilyPath`); a device of the bus
  that agrees with them takes part, and `last_zero` is the last place where one went the
  other way. The search for a family depends on the check byte: it begins with
  `last_discrepancy` at the last bit, where it would turn to 1 instead of taking the 0 if both
  were there; no two devices differ in that bit alone (in the model because of the parity,
  on the bus because of the CRC).

TLC checked each of the inductive invariants (`RecoveryInv`, `LogInv`, `DataInv`, `StoreInv`, `BootInv`,
`ReaderInv`, `BlocksInv`, `SoundInv`, `DhcpInv`, `UartInv`, `PwmInv`, `OneWireInv`) as an invariant of the
instances of the runs before it was proved; `ReaderInv` also beside deletes, reformatting, faults and
power failures, up to a bound on the number of states.

Only model-checked: liveness (`Settles`, `RecoveryMounts`, `TransferEnds`,
`SwitchTakesEffect`, `ReaderServed`, `PwmTurnsOver`, `ScanEnds`), which is out of the prover's
reach together with ENABLED, induction over data and recursive operators; and one invariant,
`NoForeignValue`. A reader that is left behind in a region and walks over its end into the other
one still has an id of the first. That it never does so while it looks for a value depends on
the room that every set finds, which `RoomInv` derives from `OneInv`: each value has a key. The
race that `SysparamRace` shows breaks `OneInv`, so that the count needs another foundation.

## Findings

Each of these is a run that TLC ends with a counterexample.

- `SysparamRace`: a get, which takes no lock, stands in the second region while a set
  compacts into the first. It takes its entry for one of impossible length and sets
  `force_compact` (`core/sysparam.c:242`) after the compaction has cleared it. The set
  compacts again, now without its key, and stores the value under a stale id: it answers OK
  and the value is lost. If the id belongs to another key by then, that key has two values, and
  the next set of it brings the foreign one to light. (`core/sysparam.c:16`: "TODO: make this properly threadsafe".)
- `OtaTemp`: after a temporary boot the update server may receive into the slot that runs.

Noted without a run.

- A set of a parameter that was deleted before, when it needs a compaction, answers OK and
  stores the value under an id that has no key: `_compact_params` skips keys without a value
  and `key_id` keeps the id of the old region. It needs no reader.
- When unused keys are present, `sysparam_set_data` compacts to see whether that gains enough
  space. If it does not, the call ends with ERR_FULL and the previous value is gone, although
  `core/sysparam.c:412` leaves it out "because it is assumed it will be overwritten".
- The scan of `sysparam_create_area` advances by eight bytes and reads eight words, so that an
  erased area is refused with NOTFOUND if the sector above is in use
  (`sysparam.h:109`: "the area at `base_addr` appears to have other data").
- A get during a compaction may answer NOTFOUND for a key that has a value. A get of a key that is
  deleted meanwhile, left behind in an exactly full region, walks into the other one and may return the
  value of the key that has its id there.
- When a bad entry header can neither be written nor zeroed (`sysparam.c:361`), `end_addr` stays in
  front of it and the next entry header is written over it. `WritesHitBlank` shows that nothing worse
  follows: no payload goes there unless the header reads back as intended.
- The update server takes DATA packets that were queued before it connected, from any sender
  (`ota-tftp.c:174`, `316`). A late block of an earlier session with another file of the same layout
  ends up in the image, and if it lies in the code in flash the verification does not see it.
- `sysparam.h` speaks of "up to 126 key/value pairs", the code has `MAX_KEY_ID` 0x0ffe.
- A temporary boot of a slot that does not exist is not cleared (`rboot.c:386`) and halts every
  later reset until the power is cut; for the other refusal `rboot.c:441` says "make sure rtc
  temp boot mode doesn't persist".
- The configuration sector has no checksum in this build (`BOOT_CONFIG_CHKSUM` is not defined),
  so that a configuration torn within its page would be used.
- `dhcpserver.c:268` stores the lease time itself as the expiry tick. After one lease time of
  uptime each lease expires with the next packet, and two clients may use one address.
- After `dhcpserver_stop` and `dhcpserver_start` the server answers nobody: the old socket is not
  deleted and the failing `netconn_bind` is not noticed.
- A DHCP client may own two slots; slots behind the wrap of the last octet are offered and
  never granted; whether a renewal without option 50 is refused depends on an uninitialised
  variable (`dhcpserver.c:230`).
- `_read_r` may return a byte that never came, up to twice in a row: a signal outlives its byte
  when the byte was read without waiting. `extras/stdin_uart_interrupt/README.txt` says that
  read "will block in an RTOS expected manner until data arrives".
- `_xt_isr_mask` and `_xt_isr_unmask` (`interrupts.h:70`: "aren't thread safe") may undo each
  other: UART input or PWM then stays off.
- After `pwm_set_duty(0)`, which leaves the output constant, `pwm_set_freq` and `pwm_restart`
  start the timer and switch the pins on.
- The product in `pwm_start` overflows 32 bits for frequencies of 4 Hz and below.
- `onewire_search_next` keeps the result of a read in a `uint8_t` and tests it for being negative
  (`onewire.c:251`): a bus error becomes an address nobody has. A search with a family code
  goes on to other families when that one is exhausted. A device that is unplugged between
  two calls may take others out of the scan.

## Not modelled

The text conversions of sysparam, which change no state; bits of a region header torn behind
its magic number; `ota_tftp_download`, which would be a second writer of slots beside the
server; the loader's second stage and GPIO boot; `rboot_write_flash` and the digest check;
the arithmetic of PWM loads and timer conversions; the pulses of the 1-Wire bus. The
FreeRTOS port, because what decides (when interrupts are enabled again, when a switch
happens) is in assembler and in the vendor's binary library; the lwIP system layer, because
it wraps queues of a third-party kernel. Register-level drivers, vendor replacements and
third-party code hold no protocol of their own or are not this project's.

## Plan

Done: the parameter store with its abstract specification, its unlocked readers, and proofs
of recovery, layout, contents, refinement and of what the readers see; boot loader and update server with proofs of boot and
contents; DHCP server with proofs; UART
input and PWM with proofs; 1-Wire search with proofs. What is left, the most important first:

1. A proof of `NoForeignValue`, from a `RoomInv` that admits values without a key.
2. `ota_tftp_download` beside the server in `OtaUpdate`, with two writers of one slot.
3. Region headers torn behind their magic number, and a torn configuration page.
