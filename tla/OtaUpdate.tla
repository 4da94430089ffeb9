----------------------------- MODULE OtaUpdate -----------------------------
(***************************************************************************)
(* A firmware update over TFTP (extras/rboot-ota/ota-tftp.c) on top of the *)
(* boot loader: the server task receives an image block by block into the  *)
(* slot after the configured one, verifies it, makes it the configured one *)
(* and restarts.  The client is external, and so is the network, which     *)
(* loses, delays, reorders and duplicates packets.                         *)
(*                                                                         *)
(* A session is a client's UDP port, and each session sends a file of its  *)
(* own.  While the server's connection is established lwIP only queues     *)
(* packets of that session, otherwise any.  A packet that was queued       *)
(* before the connection stays in the queue, and tftp_receive_data does    *)
(* not look at a packet's sender: a late block of another session's file   *)
(* may be taken for a block of this one.  A lost packet is one that is     *)
(* never taken from the network.                                           *)
(***************************************************************************)
EXTENDS Rboot, Sequences

CONSTANTS
    BlocksPerSector,    \* blocks in a sector, the unit of erasing
    MaxRetries,         \* TFTP_TIMEOUT_RETRANSMITS
    MboxSize,           \* packets lwIP queues for the server task
    TempRoms,           \* what the application passes to rboot_set_temp_rom
    Files,              \* what a session's file may be: "good", the new firmware,
                        \* "old", the one before, "corrupt", "long"
    MaxSessions,        \* sessions the client starts
    MaxTries,           \* packets the client sends again in a session
    MaxDups,            \* packets the network duplicates
    MaxFaults           \* failing sends, receives and allocations

ASSUME OtaAssumption ==
    /\ BlocksPerSector \in Nat \ {0} /\ SlotBlocks % BlocksPerSector = 0
    /\ {MaxRetries, MboxSize, MaxSessions, MaxTries, MaxDups, MaxFaults} \subseteq Nat
    /\ Files \subseteq {"good", "old", "corrupt", "long"}
    /\ TempRoms \subseteq 0 .. NumSlots

VARIABLES
    rx,         \* the server task
    mbox,       \* the packets lwIP has queued for it
    net,        \* the packets on the network
    cl,         \* the client
    faults,     \* failures so far
    dups,       \* duplicates so far
    mixed       \* history: the slots whose last transfer has taken a block of
                \* another file than its own session's

vars == <<bootVars, rx, mbox, net, cl, faults, dups, mixed>>

\* The file of session s: its length and its blocks.
FileBlocks(s) == IF cl.file[s] = "long" THEN SlotBlocks ELSE NumBlocks
IsLast(s, k) == k = FileBlocks(s)
Content(s, k) ==
    IF cl.file[s] = "old" THEN OldBlock(k)
    ELSE IF cl.file[s] = "corrupt" /\ k = NumBlocks THEN Damaged ELSE k

Packet(to, type, sess, blk) == [to |-> to, type |-> type, sess |-> sess, blk |-> blk]
ToServer(type, sess, blk) == Packet("rx", type, sess, blk)
Ack(blk) == Packet("cl", "ACK", rx.sess, blk)
Error == Packet("cl", "ERR", rx.sess, 0)
Packets == [to : {"rx", "cl"}, type : {"WRQ", "DATA", "ACK", "ERR"},
            sess : 1 .. MaxSessions, blk : 0 .. SlotBlocks]

\* The task waits for a write request, connected to nobody.
Listening == [pc |-> "listen", sess |-> 0, block |-> 0, got |-> 0, from |-> 0,
              retries |-> 0, slot |-> 0]

Fault == faults < MaxFaults /\ faults' = faults + 1

-----------------------------------------------------------------------------
(* tftp_task: the write request.                                           *)

OnTask(p) == pc = "running" /\ rx.pc = p
TakePacket(m) == mbox # <<>> /\ m = Head(mbox) /\ mbox' = Tail(mbox)

Ignore ==
    /\ OnTask("listen")
    /\ \E m \in Packets : TakePacket(m) /\ m.type # "WRQ"
    /\ UNCHANGED <<bootVars, rx, net, cl, faults, dups, mixed>>

\* Mutant: the slot after the last one is not wrapped around.
NextSlot_NoWrap == conf.rom + 1
\* The slot to receive into.
NextSlot == (conf.rom + 1) % conf.count

Transfer(sess) ==
    [pc |-> "recv", sess |-> sess, block |-> 1, got |-> 0, from |-> 0,
     retries |-> MaxRetries, slot |-> NextSlot]

\* A write request connects the task to its sender.  With one slot only there
\* is nothing to receive into.
WriteRequest ==
    /\ OnTask("listen")
    /\ \E m \in Packets :
          /\ TakePacket(m) /\ m.type = "WRQ"
          /\ \/ /\ NextSlot = conf.rom
                /\ net' = net \cup {[Error EXCEPT !.sess = m.sess]}
                /\ UNCHANGED <<rx, faults, mixed>>
             \/ /\ NextSlot # conf.rom
                /\ rx' = Transfer(m.sess)
                /\ net' = net \cup {[Ack(0) EXCEPT !.sess = m.sess]}
                /\ mixed' = mixed \ {NextSlot}
                /\ UNCHANGED faults
             \/ /\ NextSlot # conf.rom
                /\ Fault
                /\ UNCHANGED <<rx, net, mixed>>
    /\ UNCHANGED <<bootVars, cl, dups>>

-----------------------------------------------------------------------------
(* tftp_receive_data.                                                      *)

\* The transfer ends with an error, sent to the client if a send is possible.
Abort ==
    /\ rx' = Listening
    /\ \/ net' = net \cup {Error} /\ UNCHANGED faults
       \/ Fault /\ UNCHANGED net

\* Mutant: retransmissions are not counted.
ReceiveTimeout_NotCounted ==
    /\ OnTask("recv")
    /\ mbox = <<>>
    /\ \/ /\ rx.retries > 0 /\ rx.block > 1
          /\ rx' = rx
          /\ net' = net \cup {Ack(rx.block - 1)}
          /\ UNCHANGED faults
       \/ ~(rx.retries > 0 /\ rx.block > 1) /\ Abort
    /\ UNCHANGED <<bootVars, mbox, cl, dups, mixed>>

\* Nothing arrived in time: the last ACK is sent again a number of times, but
\* not the one of the write request.
ReceiveTimeout ==
    /\ OnTask("recv")
    /\ mbox = <<>>
    /\ \/ /\ rx.retries > 0 /\ rx.block > 1
          /\ rx' = [rx EXCEPT !.retries = @ - 1]
          /\ net' = net \cup {Ack(rx.block - 1)}
          /\ UNCHANGED faults
       \/ ~(rx.retries > 0 /\ rx.block > 1) /\ Abort
    /\ UNCHANGED <<bootVars, mbox, cl, dups, mixed>>

\* netconn_recv fails for another reason.
ReceiveFails ==
    /\ OnTask("recv")
    /\ Fault
    /\ rx' = Listening
    /\ net' = net \cup {Error}
    /\ UNCHANGED <<bootVars, mbox, cl, dups, mixed>>

\* The block before the expected one: the ACK was lost.
Duplicate(m) == m.type = "DATA" /\ m.blk = rx.block - 1

\* Mutant: the number of a block is not compared.
Expected_Any(m) == m.type = "DATA" /\ ~Duplicate(m)
Expected(m) == m.type = "DATA" /\ m.blk = rx.block

ReceiveDuplicate ==
    /\ OnTask("recv")
    /\ \E m \in Packets : TakePacket(m) /\ Duplicate(m)
    /\ net' = net \cup {Ack(rx.block - 1)}
    /\ UNCHANGED <<bootVars, rx, cl, faults, dups, mixed>>

ReceiveUnexpected ==
    /\ OnTask("recv")
    /\ \E m \in Packets : TakePacket(m) /\ ~Duplicate(m) /\ ~Expected(m)
    /\ Abort
    /\ UNCHANGED <<bootVars, cl, dups, mixed>>

\* Mutant: only the first sector of the slot is erased.
SectorStart_FirstOnly == rx.block = 1
SectorStart == (rx.block - 1) % BlocksPerSector = 0
InSector(k) == k \in rx.block .. rx.block + BlocksPerSector - 1

\* The slots that hold blocks of two files once block m has been taken.
Mixing(m) == IF cl.file[m.sess] = cl.file[rx.sess] THEN mixed ELSE mixed \cup {rx.slot}

\* The expected block, whoever sent it.  The first one of a sector erases the
\* sector.
ReceiveData ==
    /\ OnTask("recv")
    /\ \E m \in Packets :
          /\ TakePacket(m) /\ Expected(m)
          /\ rx' = [rx EXCEPT !.pc = "store", !.got = m.blk, !.from = m.sess,
                              !.retries = MaxRetries]
          /\ mixed' = Mixing(m)
          /\ \/ /\ SectorStart
                /\ image' = [image EXCEPT ![rx.slot] =
                       [k \in Blocks |-> IF InSector(k) THEN Erased ELSE image[rx.slot][k]]]
             \/ ~SectorStart /\ UNCHANGED image
    /\ UNCHANGED <<conf, rtc, running, pc, choice, crashes, net, cl, faults, dups>>

\* Programming clears bits: only erased flash takes the content.
Programmed(cell, content) ==
    IF cell \in {Erased, content} THEN content ELSE Overprinted
StoreContent ==
    image' = [image EXCEPT ![rx.slot] =
        [@ EXCEPT ![rx.block] = Programmed(image[rx.slot][rx.block], Content(rx.from, rx.got))]]

\* There is no room for a whole block.  The last block of a file is shorter and
\* may still fit.
TooLarge == rx.block >= SlotBlocks
ReceivedLast == IsLast(rx.from, rx.got)

RefuseLarge ==
    /\ OnTask("store")
    /\ TooLarge
    /\ Abort
    /\ UNCHANGED <<bootVars, mbox, cl, dups, mixed>>

\* The block goes to the flash and is acknowledged.
StoreBlock ==
    /\ OnTask("store")
    /\ ~TooLarge /\ ~ReceivedLast
    /\ StoreContent
    /\ \/ /\ rx' = [rx EXCEPT !.pc = "recv", !.block = @ + 1, !.got = 0, !.from = 0]
          /\ net' = net \cup {Ack(rx.block)}
          /\ UNCHANGED faults
       \/ Fault /\ rx' = Listening /\ UNCHANGED net
    /\ UNCHANGED <<conf, rtc, running, pc, choice, crashes, mbox, cl, dups, mixed>>

\* The image in slot s is accepted, and is as long as what was received.
Verified(s) == Good(s)' /\ rx.block = NumBlocks

\* The application's verify callback may keep the new image from being used.
ReceivedAll ==
    \/ rx' = Listening
    \/ rx' = [Listening EXCEPT !.pc = "switch", !.slot = rx.slot]

\* Mutant: the last block is acknowledged before the image is verified.
StoreLast_AckFirst ==
    /\ OnTask("store")
    /\ ReceivedLast
    /\ StoreContent
    /\ \E s \in {rx.slot} :
          \/ ~Verified(s) /\ rx' = Listening /\ net' = net \cup {Ack(rx.block)} /\ UNCHANGED faults
          \/ Verified(s) /\ ReceivedAll /\ net' = net \cup {Ack(rx.block)} /\ UNCHANGED faults
          \/ Verified(s) /\ Fault /\ rx' = Listening /\ UNCHANGED net
    /\ UNCHANGED <<conf, rtc, running, pc, choice, crashes, mbox, cl, dups, mixed>>

\* The last block is acknowledged if the image passes the verification.
StoreLast ==
    /\ OnTask("store")
    /\ ReceivedLast
    /\ StoreContent
    /\ \E s \in {rx.slot} :
          \/ ~Verified(s) /\ Abort
          \/ Verified(s) /\ ReceivedAll /\ net' = net \cup {Ack(rx.block)} /\ UNCHANGED faults
          \/ Verified(s) /\ Fault /\ rx' = Listening /\ UNCHANGED net
    /\ UNCHANGED <<conf, rtc, running, pc, choice, crashes, mbox, cl, dups, mixed>>

-----------------------------------------------------------------------------
(* rboot_set_current_rom and the restart, in a critical section.           *)

LoseMemory == rx' = Listening /\ mbox' = <<>>

SwitchErase ==
    /\ OnTask("switch")
    /\ choice' = [rom |-> rx.slot, count |-> conf.count]
    /\ conf' = NoConf
    /\ rx' = [rx EXCEPT !.pc = "switchWrite"]
    /\ UNCHANGED <<image, rtc, running, pc, crashes, mbox, net, cl, faults, dups, mixed>>

\* Mutant: the configuration is written back as it was.
SwitchWrite_OldRom ==
    /\ OnTask("switchWrite")
    /\ conf' = Conf(running, choice.count)
    /\ Restart /\ LoseMemory
    /\ UNCHANGED <<image, running, choice, crashes, net, cl, faults, dups, mixed>>

SwitchWrite ==
    /\ OnTask("switchWrite")
    /\ conf' = Conf(choice.rom, choice.count)
    /\ Restart /\ LoseMemory
    /\ UNCHANGED <<image, running, choice, crashes, net, cl, faults, dups, mixed>>

\* No memory for the copy of the sector: a restart, but no switch.
SwitchFails ==
    /\ OnTask("switch")
    /\ Fault
    /\ Restart /\ LoseMemory
    /\ UNCHANGED <<image, conf, running, choice, crashes, net, cl, dups, mixed>>

Server ==
    \/ Ignore \/ WriteRequest
    \/ ReceiveTimeout \/ ReceiveDuplicate \/ ReceiveUnexpected \/ ReceiveData
    \/ RefuseLarge \/ StoreBlock \/ StoreLast
    \/ SwitchErase \/ SwitchWrite

-----------------------------------------------------------------------------
(* lwIP, the network and the client.                                       *)

\* A packet the server is not connected for, or has no room for, is lost.
Accepts(m) == pc = "running" /\ rx.sess \in {0, m.sess} /\ Len(mbox) < MboxSize

Deliver ==
    \E m \in net :
        /\ m.to = "rx" /\ Accepts(m)
        /\ mbox' = Append(mbox, m)
        /\ \/ net' = net \ {m} /\ UNCHANGED dups
           \/ dups < MaxDups /\ dups' = dups + 1 /\ UNCHANGED net
        /\ UNCHANGED <<bootVars, rx, cl, faults, mixed>>

Request(sess, blk) == ToServer(IF blk = 0 THEN "WRQ" ELSE "DATA", sess, blk)

ClientStart ==
    /\ cl.pc \in {"idle", "failed"} /\ cl.sess < MaxSessions
    /\ cl' = [cl EXCEPT !.sess = @ + 1, !.pc = "wait", !.blk = 0, !.tries = 0]
    /\ net' = net \cup {Request(cl.sess + 1, 0)}
    /\ UNCHANGED <<bootVars, rx, mbox, faults, dups, mixed>>

ClientAck ==
    /\ cl.pc = "wait"
    /\ \E m \in net :
          /\ m.to = "cl" /\ m.type = "ACK" /\ m.sess = cl.sess /\ m.blk = cl.blk
          /\ \/ /\ IsLast(cl.sess, cl.blk)
                /\ cl' = [cl EXCEPT !.pc = "done"]
                /\ net' = net \ {m}
             \/ /\ ~IsLast(cl.sess, cl.blk)
                /\ cl' = [cl EXCEPT !.blk = @ + 1]
                /\ net' = (net \ {m}) \cup {Request(cl.sess, cl.blk + 1)}
    /\ UNCHANGED <<bootVars, rx, mbox, faults, dups, mixed>>

ClientError ==
    /\ cl.pc = "wait"
    /\ \E m \in net :
          /\ m.to = "cl" /\ m.type = "ERR" /\ m.sess = cl.sess
          /\ net' = net \ {m}
    /\ cl' = [cl EXCEPT !.pc = "failed"]
    /\ UNCHANGED <<bootVars, rx, mbox, faults, dups, mixed>>

ClientTimeout ==
    /\ cl.pc = "wait"
    /\ \/ /\ cl.tries < MaxTries
          /\ cl' = [cl EXCEPT !.tries = @ + 1]
          /\ net' = net \cup {Request(cl.sess, cl.blk)}
       \/ cl' = [cl EXCEPT !.pc = "failed"] /\ UNCHANGED net
    /\ UNCHANGED <<bootVars, rx, mbox, faults, dups, mixed>>

Client == ClientStart \/ ClientAck \/ ClientError \/ ClientTimeout

-----------------------------------------------------------------------------
(* The device as a whole.                                                  *)

Boot == FindImage /\ UNCHANGED <<rx, mbox, net, cl, faults, dups, mixed>>

\* Outside the critical section the application may ask for a temporary boot
\* or restart.
Interruptible == rx.pc \notin {"switch", "switchWrite"}

AppTempRom ==
    /\ Interruptible
    /\ \E s \in TempRoms : SetTempRom(s)
    /\ UNCHANGED <<rx, mbox, net, cl, faults, dups, mixed>>

AppRestart ==
    /\ pc = "running" /\ Interruptible
    /\ Restart /\ LoseMemory
    /\ UNCHANGED <<image, conf, running, choice, crashes, net, cl, faults, dups, mixed>>

\* A block that is being programmed may be left damaged.
Crash ==
    /\ PowerFail /\ LoseMemory
    /\ \/ UNCHANGED image
       \/ /\ OnTask("store") /\ (~TooLarge \/ ReceivedLast)
          /\ image' = [image EXCEPT ![rx.slot] = [@ EXCEPT ![rx.block] = Damaged]]
    /\ UNCHANGED <<net, cl, faults, dups, mixed>>

OtaInit ==
    /\ rx = Listening /\ mbox = <<>> /\ net = {}
    /\ cl \in [sess : {0}, pc : {"idle"}, blk : {0}, tries : {0},
               file : [1 .. MaxSessions -> Files]]
    /\ faults = 0 /\ dups = 0 /\ mixed = {}

Init == BootInit /\ OtaInit

Next ==
    \/ Boot \/ Server \/ ReceiveFails \/ SwitchFails
    \/ Deliver \/ Client
    \/ AppTempRom \/ AppRestart \/ Crash

Spec == Init /\ [][Next]_vars

\* The boot loader runs on its own, and the server task is scheduled: it is
\* the only one at its priority and waits for nothing but packets, with a
\* timeout.  Client, network, application and failures owe nothing.
FairSpec == Spec /\ WF_vars(Boot) /\ WF_vars(Server)

-----------------------------------------------------------------------------
(* Properties.                                                             *)

\* The types of the variables.  In particular the server receives into a slot
\* that exists: current_rom + 1 wraps around at the number of slots.
TypeOK ==
    /\ BootTypeOK
    /\ rx \in [pc : {"listen", "recv", "store", "switch", "switchWrite"},
               sess : 0 .. MaxSessions, block : 0 .. SlotBlocks, got : 0 .. SlotBlocks,
               from : 0 .. MaxSessions, retries : 0 .. MaxRetries, slot : Slots]
    /\ mbox \in Seq(Packets) /\ Len(mbox) <= MboxSize
    /\ net \subseteq Packets
    /\ cl \in [sess : 0 .. MaxSessions, pc : {"idle", "wait", "done", "failed"},
               blk : 0 .. SlotBlocks, tries : 0 .. MaxTries,
               file : [1 .. MaxSessions -> Files]]
    /\ faults \in 0 .. MaxFaults /\ dups \in 0 .. MaxDups /\ mixed \subseteq Slots

\* Whatever is interrupted, a power failure included, a standard boot finds an
\* image find_image accepts: among the configured slots, or, while the
\* configuration is erased, among the two of the default configuration.
StandardBootWorks ==
    \E s \in Slots : Good(s) /\ s < (IF conf.valid THEN conf.count ELSE DefaultConf.count)

\* While the application runs, the configured slot exists, holds an image that
\* find_image accepts, and all of one firmware, although neither check_image nor
\* rboot_verify_image reads the code in flash: find_image has recorded its
\* fallbacks, and an interrupted transfer only ever touches another slot.  The
\* one way to a configured slot with parts of two firmwares is a transfer that
\* took a late block of another session's file.
ConfiguredRomIsComplete ==
    pc = "running" /\ conf.valid =>
        /\ conf.rom < conf.count /\ Good(conf.rom)
        /\ Complete(conf.rom) \/ conf.rom \in mixed

\* A sector is erased before its first block is programmed: tftp_receive_data
\* never programs flash that is in use, in whatever order packets come and
\* wherever earlier transfers stopped.
NeverOverprinted == \A s \in Slots, k \in Blocks : image[s][k] # Overprinted

\* The ACK of a file's last block is only sent when the whole file is in the
\* slot and is a firmware: tftp_receive_data verifies before it acknowledges,
\* what it does not verify has arrived in order, and no retransmission of an
\* earlier ACK can be taken for the last one.  This is so although packets of
\* an earlier session may be taken, as long as none of them was a block of
\* another file.
LastAckMeansStored ==
    [][\A m \in net' \ net :
          m.type = "ACK" /\ IsLast(m.sess, m.blk) /\ rx.slot \notin mixed =>
              /\ cl.file[m.sess] \in {"good", "old"}
              /\ \A k \in 1 .. NumBlocks : image'[rx.slot][k] = Content(m.sess, k)]_vars

\* During a transfer the slot holds, for every block that the server has
\* acknowledged, the block of this number of some session's file, and of the
\* session's own file unless a late block of another file was taken: a packet
\* that was queued before the server connected is not told apart by its sender,
\* only by its number.
AckedBlocksStored ==
    pc = "running" /\ rx.pc \in {"recv", "store"} =>
        \A k \in 1 .. rx.block - 1 :
            /\ \E s \in 1 .. MaxSessions : image[rx.slot][k] = Content(s, k)
            /\ rx.slot \in mixed \/ image[rx.slot][k] = Content(rx.sess, k)

\* Every transfer ends: the timeouts of tftp_receive_data are counted, so the
\* server does not wait for a client that is gone.
TransferEnds == rx.pc = "recv" ~> rx.pc \notin {"recv", "store"}

\* When the server has decided to switch, the next boot runs the new image,
\* unless the power fails, memory runs out or a temporary boot was asked for.
SwitchTakesEffect ==
    \A s \in Slots :
        (/\ OnTask("switch") /\ rx.slot = s /\ ~rtc.temp
         /\ crashes = MaxCrashes /\ faults = MaxFaults)
            ~> pc = "running" /\ running = s

\* The slot that is received into is a free one, not the one that runs.
NeverOverwritesRunning ==
    pc = "running" /\ rx.pc \in {"recv", "store"} => rx.slot # running
=============================================================================
