----------------------------- MODULE OtaProofs -----------------------------
(***************************************************************************)
(* Theorems about OtaUpdate and the boot loader, for every choice of the   *)
(* constants.                                                              *)
(***************************************************************************)
EXTENDS OtaUpdate, LeastElements, TLAPS

-----------------------------------------------------------------------------
(* The inductive invariant.                                                *)

\* The client has not got beyond the end of its file, and sends in a session.
ClientInv == cl.blk <= FileBlocks(cl.sess) /\ (cl.pc = "wait" => cl.sess # 0)

\* A transfer has a peer and counts its blocks from 1.
SessionInv == rx.pc \in {"recv", "store"} => rx.sess # 0 /\ rx.block > 0

TypeInv == TypeOK /\ ClientInv /\ SessionInv

\* One of the slots of the default configuration is good, and one of the first
\* c slots.
LowGood(c) == \E s \in {0, 1} : s < c /\ Good(s)

\* The configured slot can be booted.
ConfGood == conf.valid /\ conf.rom < conf.count /\ Good(conf.rom)

\* The configuration in RAM that is about to be written.
ChoiceGood == choice.rom < choice.count /\ Good(choice.rom) /\ LowGood(choice.count)

\* Slot 0 or 1 is good, except while slot 0 is rewritten by the firmware in the
\* last slot.
FallbackInv ==
    IF conf.valid
      THEN conf.count > 0 /\ (LowGood(conf.count) \/ (ConfGood /\ conf.rom = conf.count - 1))
      ELSE LowGood(2)

Switching == pc = "running" /\ rx.pc = "switchWrite"

\* The boot loader: after the first boot the configured slot is good.
LoaderInv ==
    /\ rtc.temp \/ pc = "running" => ConfGood \/ Switching
    /\ pc = "select" => conf.valid
    /\ pc \in {"rewrite", "rewriteWrite"} => ~rtc.temp
    /\ pc = "rewrite" => conf.valid /\ choice.count = conf.count /\ ChoiceGood
    /\ pc = "rewriteWrite" \/ Switching => ~conf.valid /\ ChoiceGood

\* The slot after r of c slots.
Successor(r, c) == IF r + 1 = c THEN 0 ELSE r + 1

\* The server: it writes to the slot after the configured one.
ServerInv ==
    /\ rx.pc # "listen" => pc = "running"
    /\ rx.pc \in {"recv", "store", "switch"} =>
          rx.slot = Successor(conf.rom, conf.count) /\ rx.slot # conf.rom
    /\ rx.pc = "switch" => Good(rx.slot)

BootInv == TypeInv /\ FallbackInv /\ LoaderInv /\ ServerInv

-----------------------------------------------------------------------------
(* The operators of the model.                                             *)

\* The slot tftp_task receives into, current_rom + 1 modulo the number of slots.
LEMMA NextSlotIsSuccessor ==
    ASSUME conf.rom \in Nat, conf.count \in Nat, conf.rom < conf.count
    PROVE  NextSlot = Successor(conf.rom, conf.count)
<1> DEFINE r == conf.rom
           c == conf.count
<1>1. CASE r + 1 = c
  BY <1>1 DEF NextSlot, Successor
<1>2. CASE r + 1 < c
  BY <1>2 DEF NextSlot, Successor
<1> QED
  BY <1>1, <1>2

\* The loop of find_image over the previous ROMs ends at a good one if there is
\* one.
LEMMA FoundRomIsGood ==
    ASSUME BootTypeOK, conf.count > 0, ~rtc.temp, GoodRoms # {}
    PROVE  FoundRom \in GoodRoms
<1>1. FirstRom \in 0 .. conf.count - 1
  BY DEF BootTypeOK, FirstRom, InvalidRom, Slots
<1>2. \A s \in GoodRoms : Distance(s) \in Nat
  BY <1>1 DEF GoodRoms, Distance, BootTypeOK
<1> DEFINE D == {Distance(s) : s \in GoodRoms}
<1>3. PICK d \in D : \A e \in D : d <= e
  BY <1>2, LeastElement
<1>4. PICK s \in GoodRoms : d = Distance(s)
  BY <1>3
<1>5. \A t \in GoodRoms : Distance(s) <= Distance(t)
  BY <1>3, <1>4
<1> HIDE DEF D
<1> QED
  BY <1>4, <1>5 DEF FoundRom

\* A slot that is not written to stays as good as it was.
LEMMA GoodKept ==
    ASSUME NEW s, image'[s] = image[s]
    PROVE  Good(s)' <=> Good(s)
BY DEF Good

-----------------------------------------------------------------------------
(* The boot loader's part of the invariant.                                *)

\* Steps that leave flash and loader alone preserve its invariants.
LEMMA BootUntouched ==
    ASSUME FallbackInv, LoaderInv, UNCHANGED <<image, conf, rtc, pc, choice>>,
           Switching' <=> Switching
    PROVE  FallbackInv' /\ LoaderInv'
<1>1. \A s : Good(s)' <=> Good(s)
  BY DEF Good
<1> QED
  BY <1>1 DEF FallbackInv, LoaderInv, LowGood, ConfGood, ChoiceGood

\* Steps that write to the slot after the configured one, too: the configured
\* slot is another one, and slot 0 is the slot after the last.
LEMMA OtherSlotWritten ==
    ASSUME BootTypeOK, FallbackInv, LoaderInv, ServerInv,
           rx.pc \in {"recv", "store"},
           \A s \in Slots \ {rx.slot} : image'[s] = image[s],
           UNCHANGED <<conf, choice>>, rtc' = rtc \/ ~rtc'.temp,
           pc' = pc \/ (pc' = "boot" /\ ~rtc'.temp),
           ~Switching'
    PROVE  FallbackInv' /\ LoaderInv'
<1>1. ConfGood /\ pc = "running"
  BY DEF LoaderInv, ServerInv, Switching
<1>2. \A s \in Slots \ {rx.slot} : Good(s)' <=> Good(s)
  BY GoodKept
<1>3. rx.slot = Successor(conf.rom, conf.count) /\ rx.slot # conf.rom
  BY DEF ServerInv
<1>4. conf.rom \in Slots /\ conf.count \in 0 .. NumSlots
  BY DEF BootTypeOK
<1>5. ConfGood'
  BY <1>1, <1>2, <1>3, <1>4 DEF ConfGood
<1>6. FallbackInv'
  <2>1. CASE conf.rom = conf.count - 1
    BY <1>1, <1>4, <1>5, <2>1 DEF FallbackInv, ConfGood, Slots
  <2>2. CASE conf.rom # conf.count - 1
    <3>1. PICK s \in {0, 1} : s < conf.count /\ Good(s)
      BY <1>1, <2>2 DEF FallbackInv, ConfGood, LowGood
    <3>2. rx.slot = conf.rom + 1
      BY <1>3, <1>4, <2>2 DEF Successor, Slots
    <3>3. CASE s = rx.slot
      <4>1. conf.rom = 0
        BY <1>4, <3>1, <3>2, <3>3 DEF Slots
      <4> QED
        BY <1>1, <1>5, <4>1 DEF FallbackInv, ConfGood, LowGood
    <3>4. CASE s # rx.slot
      <4>1. s \in Slots
        BY <1>4, <3>1, SlotsAssumption DEF Slots
      <4> QED
        BY <1>1, <1>2, <1>5, <3>1, <3>4, <4>1 DEF FallbackInv, ConfGood, LowGood
    <3> QED
      BY <3>3, <3>4
  <2> QED
    BY <2>1, <2>2
<1> QED
  BY <1>1, <1>5, <1>6 DEF LoaderInv

\* find_image keeps the invariant: it only rewrites the configuration when the
\* configured slot is bad, and then slot 0 or 1 is good.
LEMMA LoaderStep ==
    ASSUME BootInv, Boot
    PROVE  BootInv'
<1>0. TypeInv /\ BootTypeOK /\ FallbackInv /\ LoaderInv /\ ServerInv
  BY DEF BootInv, TypeInv, TypeOK
<1>1. pc # "running" /\ rx.pc = "listen" /\ ~Switching
  BY <1>0 DEF Boot, FindImage, ReadConfig, Select, RewriteErase, RewriteWrite, ServerInv, Switching
<1>2. UNCHANGED <<image, rx, mbox, net, cl, faults, dups, mixed>>
  BY DEF Boot, FindImage, ReadConfig, Select, RewriteErase, RewriteWrite
<1>3. \A s : Good(s)' <=> Good(s)
  BY <1>2 DEF Good
<1>4. ServerInv' /\ ~Switching'
  BY <1>0, <1>1, <1>2 DEF ServerInv, Switching
<1>5. ASSUME BootTypeOK' PROVE TypeInv'
  BY <1>0, <1>2, <1>5 DEF TypeInv, TypeOK, ClientInv, SessionInv, FileBlocks
<1>6. NumSlots \in Nat /\ NumSlots >= 2
  BY SlotsAssumption
<1>7. CASE ReadConfig
  <2>1. BootTypeOK'
    <3>1. conf' \in [valid : BOOLEAN, rom : Slots, count : 0 .. NumSlots]
      <4>1. CASE conf' = conf
        BY <1>0, <4>1 DEF BootTypeOK
      <4>2. CASE conf' = DefaultConf
        BY <1>6, <4>2 DEF DefaultConf, Conf, Slots
      <4> QED
        BY <1>7, <4>1, <4>2 DEF ReadConfig
    <3> QED
      BY <1>0, <1>7, <3>1 DEF ReadConfig, BootTypeOK
  <2>2. FallbackInv' /\ LoaderInv'
    BY <1>0, <1>1, <1>3, <1>4, <1>7 DEF ReadConfig, FallbackInv, LoaderInv, LowGood, ConfGood,
        ChoiceGood, DefaultConf, Conf
  <2> QED
    BY <1>0, <1>4, <1>5, <2>1, <2>2 DEF BootInv
<1>8. CASE Select
  <2>1. conf.valid /\ conf.count > 0 /\ conf.count \in Nat /\ conf.rom \in Nat /\ conf' = conf
    BY <1>0, <1>8 DEF Select, LoaderInv, FallbackInv, BootTypeOK, Slots
  <2>2. rtc.temp => ConfGood
    BY <1>0, <1>1 DEF LoaderInv
  <2>3. FallbackInv'
    BY <1>0, <1>3, <2>1 DEF FallbackInv, LowGood, ConfGood
  <2>4. CASE Halt
    <3>1. rtc' \in {rtc, NoTemp} /\ pc' = "halted" /\ UNCHANGED <<running, choice, crashes>>
      BY <1>8, <2>4 DEF Select, Halt, Start, Run
    <3>2. BootTypeOK'
      <4>1. NoTemp \in [temp : BOOLEAN, rom : 0 .. NumSlots]
        BY <1>6 DEF NoTemp
      <4>2. rtc' \in [temp : BOOLEAN, rom : 0 .. NumSlots]
        BY <1>0, <3>1, <4>1 DEF BootTypeOK
      <4> QED
        BY <1>0, <1>2, <2>1, <3>1, <4>2 DEF BootTypeOK
    <3>3. LoaderInv'
      BY <1>0, <1>3, <1>4, <2>1, <2>2, <3>1 DEF LoaderInv, ConfGood, NoTemp
    <3> QED
      BY <1>0, <1>4, <1>5, <2>3, <3>2, <3>3 DEF BootInv
  <2>5. CASE rtc.temp /\ rtc.rom < conf.count /\ Good(FirstRom) /\ Start(FirstRom, InvalidRom)
    <3>1. ~InvalidRom /\ FirstRom = rtc.rom /\ FirstRom \in Slots
      BY <1>0, <1>6, <2>1, <2>2, <2>5 DEF InvalidRom, ConfGood, FirstRom, BootTypeOK, Slots
    <3>2. Run(FirstRom) /\ UNCHANGED <<choice, crashes>>
      BY <1>8, <2>5, <3>1 DEF Start, Select
    <3>3. BootTypeOK'
      BY <1>0, <1>2, <1>6, <2>1, <3>1, <3>2 DEF BootTypeOK, NoTemp, Run, Slots
    <3>4. LoaderInv'
      BY <1>0, <1>3, <1>4, <2>1, <2>2, <2>5, <3>2 DEF LoaderInv, ConfGood, NoTemp, Run
    <3> QED
      BY <1>0, <1>4, <1>5, <2>3, <3>3, <3>4 DEF BootInv
  <2>6. CASE ~rtc.temp /\ GoodRoms # {} /\ Start(FoundRom, InvalidRom \/ ~Good(FirstRom))
    <3>1. FoundRom \in Slots /\ Good(FoundRom) /\ FoundRom < conf.count
      BY <1>0, <1>6, <2>1, <2>6, FoundRomIsGood DEF GoodRoms, BootTypeOK, Slots
    <3>2. CASE InvalidRom \/ ~Good(FirstRom)
      <4>1. LowGood(conf.count)
        BY <1>0, <2>1, <2>6, <3>2 DEF FallbackInv, ConfGood, InvalidRom, FirstRom
      <4>2. choice' = [rom |-> FoundRom, count |-> conf.count] /\ pc' = "rewrite"
            /\ UNCHANGED <<rtc, running, crashes>>
        BY <1>8, <2>6, <3>2 DEF Start, Select
      <4>3. BootTypeOK'
        BY <1>0, <1>2, <2>1, <3>1, <4>2 DEF BootTypeOK, Slots
      <4>4. LoaderInv'
        BY <1>0, <1>3, <1>4, <2>1, <2>6, <3>1, <4>1, <4>2 DEF LoaderInv, ChoiceGood, LowGood
      <4> QED
        BY <1>0, <1>4, <1>5, <2>3, <4>3, <4>4 DEF BootInv
    <3>3. CASE ~InvalidRom /\ Good(FirstRom)
      <4>1. ConfGood
        BY <2>1, <2>6, <3>3 DEF ConfGood, InvalidRom, FirstRom
      <4>2. Run(FoundRom) /\ UNCHANGED <<choice, crashes>>
        BY <1>8, <2>6, <3>3 DEF Start, Select
      <4>3. BootTypeOK'
        BY <1>0, <1>2, <1>6, <2>1, <3>1, <4>2 DEF BootTypeOK, NoTemp, Run, Slots
      <4>4. LoaderInv'
        BY <1>0, <1>3, <1>4, <2>1, <4>1, <4>2 DEF LoaderInv, ConfGood, Run, NoTemp
      <4> QED
        BY <1>0, <1>4, <1>5, <2>3, <4>3, <4>4 DEF BootInv
    <3> QED
      BY <3>2, <3>3
  <2> QED
    BY <1>8, <2>4, <2>5, <2>6 DEF Select
<1>9. CASE RewriteErase
  <2>1. BootTypeOK'
    BY <1>0, <1>6, <1>9 DEF RewriteErase, BootTypeOK, NoConf, Slots
  <2>2. ChoiceGood /\ LowGood(2) /\ ~rtc.temp
    BY <1>0, <1>9 DEF RewriteErase, LoaderInv, ChoiceGood, LowGood
  <2>3. FallbackInv' /\ LoaderInv'
    BY <1>0, <1>3, <1>4, <1>9, <2>2 DEF RewriteErase, FallbackInv, LoaderInv, LowGood, ChoiceGood, NoConf
  <2> QED
    BY <1>0, <1>4, <1>5, <2>1, <2>3 DEF BootInv
<1>10. CASE RewriteWrite
  <2>1. BootTypeOK'
    BY <1>0, <1>6, <1>10 DEF RewriteWrite, Run, BootTypeOK, Conf, NoTemp, Slots
  <2>2. ChoiceGood
    BY <1>0, <1>10 DEF RewriteWrite, LoaderInv
  <2>3. FallbackInv' /\ LoaderInv'
    BY <1>0, <1>3, <1>4, <1>10, <2>2 DEF RewriteWrite, Run, FallbackInv, LoaderInv, LowGood,
        ChoiceGood, ConfGood, Conf, NoTemp, BootTypeOK
  <2> QED
    BY <1>0, <1>4, <1>5, <2>1, <2>3 DEF BootInv
<1> QED
  BY <1>7, <1>8, <1>9, <1>10 DEF Boot, FindImage

-----------------------------------------------------------------------------
(* The server's part of the invariant.                                     *)

\* What the server sends has a place in the protocol.
LEMMA SentPackets ==
    ASSUME TypeInv, rx.pc \in {"recv", "store"}
    PROVE  /\ Error \in Packets
           /\ \A b \in 0 .. SlotBlocks : Ack(b) \in Packets
           /\ rx.block \in 1 .. SlotBlocks /\ rx.block - 1 \in 0 .. SlotBlocks
           /\ rx.slot \in Slots
<1>1. SlotBlocks \in Nat /\ MaxSessions \in Nat
  BY BlocksAssumption, OtaAssumption
<1>2. /\ rx.sess \in 0 .. MaxSessions /\ rx.sess # 0
      /\ rx.block \in 0 .. SlotBlocks /\ rx.block > 0
      /\ rx.slot \in Slots
  BY DEF TypeInv, TypeOK, SessionInv
<1>3. rx.sess \in 1 .. MaxSessions /\ rx.block \in 1 .. SlotBlocks
      /\ rx.block - 1 \in 0 .. SlotBlocks /\ 0 \in 0 .. SlotBlocks
  BY <1>1, <1>2
<1>4. Error \in Packets
  BY <1>3 DEF Packets, Error, Packet
<1>5. \A b \in 0 .. SlotBlocks : Ack(b) \in Packets
  BY <1>3 DEF Packets, Ack, Packet
<1> QED
  BY <1>2, <1>3, <1>4, <1>5

\* The bounds of the model are natural numbers.
LEMMA Bounds ==
    {MaxRetries, MboxSize, MaxSessions, MaxTries, MaxDups, MaxFaults, MaxCrashes, SlotBlocks}
        \subseteq Nat
BY BlocksAssumption, OtaAssumption, CrashAssumption

\* Listening is a state of the server task.
LEMMA ListeningType ==
    Listening \in [pc : {"listen", "recv", "store", "switch", "switchWrite"},
                   sess : 0 .. MaxSessions, block : 0 .. SlotBlocks, got : 0 .. SlotBlocks,
                   from : 0 .. MaxSessions, retries : 0 .. MaxRetries, slot : Slots]
BY Bounds, SlotsAssumption DEF Listening, Slots

\* A transfer that ends with an error leaves the boot loader alone.
LEMMA AbortStep ==
    ASSUME BootInv, Abort, UNCHANGED <<bootVars, cl, dups, mixed>>,
           rx.pc \in {"recv", "store"},
           mbox' \in Seq(Packets) /\ Len(mbox') <= MboxSize
    PROVE  BootInv'
<1>1. net' \subseteq Packets /\ faults' \in 0 .. MaxFaults
  <2>1. Error \in Packets
    BY SentPackets DEF BootInv
  <2>2. net \subseteq Packets /\ faults \in 0 .. MaxFaults /\ MaxFaults \in Nat
    BY Bounds DEF BootInv, TypeInv, TypeOK
  <2>3. net' \subseteq net \cup {Error} /\ (faults' = faults \/ Fault)
    BY DEF Abort
  <2> QED
    BY <2>1, <2>2, <2>3 DEF Fault
<1>2. rx' = Listening
  BY DEF Abort
<1>3. BootTypeOK'
  BY DEF BootInv, TypeInv, TypeOK, BootTypeOK, bootVars
<1>4. TypeInv'
  BY <1>1, <1>2, <1>3, ListeningType
     DEF BootInv, TypeInv, TypeOK, ClientInv, SessionInv, FileBlocks, Listening
<1>5. FallbackInv' /\ LoaderInv'
  BY <1>2, BootUntouched DEF BootInv, Switching, bootVars, Listening
<1> QED
  BY <1>2, <1>4, <1>5 DEF BootInv, ServerInv, Listening

\* Taking a packet leaves a queue of packets.
LEMMA TakePacketType ==
    ASSUME TypeInv, NEW m \in Packets, TakePacket(m)
    PROVE  mbox' \in Seq(Packets) /\ Len(mbox') <= MboxSize
<1>1. mbox \in Seq(Packets) /\ mbox # <<>> /\ mbox' = Tail(mbox) /\ Len(mbox) <= MboxSize
  BY DEF TypeInv, TypeOK, TakePacket
<1>2. Len(mbox) \in Nat /\ Len(mbox') = Len(mbox) - 1 /\ mbox' \in Seq(Packets)
  BY <1>1
<1> QED
  BY <1>1, <1>2, Bounds

\* Steps of the server before the switch that leave the flash and the slot alone,
\* or start to listen, keep the invariant if they keep the types.
LEMMA QuietStep ==
    ASSUME BootInv, UNCHANGED bootVars, UNCHANGED cl,
           rx.pc \notin {"switch", "switchWrite"},
           rx' = rx \/ rx' = Listening \/
               \E r \in 0 .. MaxRetries : rx' = [rx EXCEPT !.retries = r],
           mbox' \in Seq(Packets) /\ Len(mbox') <= MboxSize,
           net' \subseteq Packets, faults' \in 0 .. MaxFaults, dups' \in 0 .. MaxDups,
           mixed' \subseteq Slots
    PROVE  BootInv'
<1>1. BootTypeOK'
  BY DEF BootInv, TypeInv, TypeOK, BootTypeOK, bootVars
<1>2. rx \in [pc : {"listen", "recv", "store", "switch", "switchWrite"},
              sess : 0 .. MaxSessions, block : 0 .. SlotBlocks, got : 0 .. SlotBlocks,
              from : 0 .. MaxSessions, retries : 0 .. MaxRetries, slot : Slots]
  BY DEF BootInv, TypeInv, TypeOK
<1>3. /\ rx' \in [pc : {"listen", "recv", "store", "switch", "switchWrite"},
                  sess : 0 .. MaxSessions, block : 0 .. SlotBlocks, got : 0 .. SlotBlocks,
                  from : 0 .. MaxSessions, retries : 0 .. MaxRetries, slot : Slots]
      /\ \/ rx' = Listening
         \/ rx'.pc = rx.pc /\ rx'.sess = rx.sess /\ rx'.block = rx.block /\ rx'.slot = rx.slot
  BY <1>2, ListeningType
<1>4. TypeInv'
  <2>1. TypeOK' /\ ClientInv'
    BY <1>1, <1>3 DEF BootInv, TypeInv, TypeOK, ClientInv, FileBlocks
  <2>2. SessionInv'
    BY <1>3 DEF BootInv, TypeInv, SessionInv, Listening
  <2> QED
    BY <2>1, <2>2 DEF TypeInv
<1>5. FallbackInv' /\ LoaderInv'
  BY <1>3, BootUntouched DEF BootInv, Switching, bootVars, Listening
<1>6. ServerInv'
  <2>1. \A s : Good(s)' <=> Good(s)
    BY DEF Good, bootVars
  <2>2. ServerInv
    BY DEF BootInv
  <2> QED
    BY <1>3, <2>1, <2>2 DEF ServerInv, Listening, bootVars, Successor
<1> QED
  BY <1>4, <1>5, <1>6 DEF BootInv

\* The packets that change nothing but the queue, the retries and the network.
LEMMA ReceiveQuietly ==
    ASSUME BootInv, Ignore \/ ReceiveTimeout \/ ReceiveFails \/ ReceiveDuplicate
                       \/ ReceiveUnexpected \/ RefuseLarge
    PROVE  BootInv'
<1>0. TypeInv /\ ServerInv
  BY DEF BootInv
<1>1. net \subseteq Packets /\ faults \in 0 .. MaxFaults /\ dups \in 0 .. MaxDups
      /\ mbox \in Seq(Packets) /\ Len(mbox) <= MboxSize
      /\ rx.retries \in 0 .. MaxRetries /\ mixed \subseteq Slots
  BY <1>0 DEF TypeInv, TypeOK
<1>2. CASE Ignore
  BY <1>0, <1>1, <1>2, TakePacketType, QuietStep DEF Ignore, OnTask
<1>3. CASE ReceiveTimeout
  <2>1. CASE Abort
    BY <1>1, <1>3, <2>1, AbortStep DEF ReceiveTimeout, OnTask
  <2>2. CASE ~Abort
    <3>1. rx' = [rx EXCEPT !.retries = rx.retries - 1] /\ rx.retries > 0
          /\ net' = net \cup {Ack(rx.block - 1)}
      BY <1>3, <2>2 DEF ReceiveTimeout
    <3>2. rx.retries - 1 \in 0 .. MaxRetries
      BY <1>1, <3>1, Bounds
    <3>3. net' \subseteq Packets
      BY <1>0, <1>1, <1>3, <3>1, SentPackets DEF ReceiveTimeout, OnTask
    <3> QED
      BY <1>1, <1>3, <2>2, <3>1, <3>2, <3>3, QuietStep DEF ReceiveTimeout, OnTask
  <2> QED
    BY <2>1, <2>2
<1>4. CASE ReceiveFails
  <2>1. net' \subseteq Packets /\ faults' \in 0 .. MaxFaults
    BY <1>0, <1>1, <1>4, SentPackets, Bounds DEF ReceiveFails, OnTask, Fault
  <2> QED
    BY <1>1, <1>4, <2>1, QuietStep DEF ReceiveFails, OnTask
<1>5. CASE ReceiveDuplicate
  <2>1. net' \subseteq Packets
    BY <1>0, <1>1, <1>5, SentPackets DEF ReceiveDuplicate, OnTask
  <2> QED
    BY <1>0, <1>1, <1>5, <2>1, TakePacketType, QuietStep DEF ReceiveDuplicate, OnTask
<1>6. CASE ReceiveUnexpected
  BY <1>0, <1>6, TakePacketType, AbortStep DEF ReceiveUnexpected, OnTask
<1>7. CASE RefuseLarge
  BY <1>1, <1>7, AbortStep DEF RefuseLarge, OnTask
<1> QED
  BY <1>2, <1>3, <1>4, <1>5, <1>6, <1>7

\* A write request starts a transfer into the slot after the configured one.
LEMMA WriteRequestStep ==
    ASSUME BootInv, WriteRequest
    PROVE  BootInv'
<1>0. TypeInv /\ ServerInv /\ BootTypeOK /\ LoaderInv
  BY DEF BootInv, TypeInv, TypeOK
<1>1. net \subseteq Packets /\ faults \in 0 .. MaxFaults /\ dups \in 0 .. MaxDups
      /\ mixed \subseteq Slots
  BY <1>0 DEF TypeInv, TypeOK
<1>2. pc = "running" /\ rx.pc = "listen" /\ UNCHANGED <<bootVars, cl, dups>>
  BY DEF WriteRequest, OnTask
<1>3. PICK m \in Packets :
          /\ TakePacket(m) /\ m.type = "WRQ"
          /\ \/ /\ NextSlot = conf.rom
                /\ net' = net \cup {[Error EXCEPT !.sess = m.sess]}
                /\ UNCHANGED <<rx, faults, mixed>>
             \/ /\ NextSlot # conf.rom
                /\ rx' = Transfer(m.sess)
                /\ net' = net \cup {[Ack(0) EXCEPT !.sess = m.sess]}
                /\ mixed' = mixed \ {NextSlot}
                /\ UNCHANGED faults
             \/ /\ NextSlot # conf.rom
                /\ Fault
                /\ UNCHANGED <<rx, net, mixed>>
  BY DEF WriteRequest
<1>4. mbox' \in Seq(Packets) /\ Len(mbox') <= MboxSize
  BY <1>0, <1>3, TakePacketType
<1>5. m.sess \in 1 .. MaxSessions
  BY <1>3 DEF Packets
<1>6. net' \subseteq Packets
  <2>1. [Error EXCEPT !.sess = m.sess] \in Packets /\ [Ack(0) EXCEPT !.sess = m.sess] \in Packets
    BY <1>5, Bounds DEF Packets, Error, Ack, Packet
  <2> QED
    BY <1>1, <1>3, <2>1
<1>7. faults' \in 0 .. MaxFaults /\ mixed' \subseteq Slots
  BY <1>1, <1>3, Bounds DEF Fault
<1>8. CASE rx' = rx
  BY <1>1, <1>2, <1>4, <1>6, <1>7, <1>8, QuietStep
<1>9. CASE rx' = Transfer(m.sess) /\ NextSlot # conf.rom
  <2>1. ConfGood /\ conf.rom \in Nat /\ conf.count \in Nat /\ conf.rom < conf.count
    BY <1>0, <1>2, SlotsAssumption DEF LoaderInv, Switching, ConfGood, BootTypeOK, Slots
  <2>2. NextSlot = Successor(conf.rom, conf.count)
    BY <2>1, NextSlotIsSuccessor
  <2>3. NextSlot \in Slots
    BY <1>0, <2>1, <2>2, SlotsAssumption DEF Successor, BootTypeOK, Slots
  <2>4. rx' = [pc |-> "recv", sess |-> m.sess, block |-> 1, got |-> 0, from |-> 0,
               retries |-> MaxRetries, slot |-> NextSlot]
    BY <1>9 DEF Transfer
  <2>5. BootTypeOK'
    BY <1>0, <1>2 DEF BootTypeOK, bootVars
  <2>6. rx' \in [pc : {"listen", "recv", "store", "switch", "switchWrite"},
                 sess : 0 .. MaxSessions, block : 0 .. SlotBlocks, got : 0 .. SlotBlocks,
                 from : 0 .. MaxSessions, retries : 0 .. MaxRetries, slot : Slots]
    BY <1>5, <2>3, <2>4, Bounds, BlocksAssumption
  <2>7. TypeInv'
    BY <1>0, <1>1, <1>2, <1>4, <1>5, <1>6, <1>7, <2>4, <2>5, <2>6
       DEF TypeInv, TypeOK, ClientInv, SessionInv, FileBlocks
  <2>8. FallbackInv' /\ LoaderInv'
    BY <1>2, <2>4, BootUntouched DEF BootInv, bootVars, Switching
  <2>9. ServerInv'
    BY <1>2, <1>9, <2>2, <2>4 DEF ServerInv, bootVars, Successor
  <2> QED
    BY <2>7, <2>8, <2>9 DEF BootInv
<1> QED
  BY <1>3, <1>8, <1>9

\* The slot that is written to is the one after the configured one.
LEMMA ImageWritten ==
    ASSUME BootInv, rx.pc \in {"recv", "store"},
           NEW f \in [Blocks -> Cells], image' = [image EXCEPT ![rx.slot] = f]
    PROVE  /\ image' \in [Slots -> [Blocks -> Cells]]
           /\ \A s \in Slots \ {rx.slot} : image'[s] = image[s]
           /\ image'[rx.slot] = f
BY SentPackets DEF BootInv, TypeInv, TypeOK, BootTypeOK

\* The contents a server writes are contents of a block.
LEMMA ContentType ==
    ASSUME TypeInv, NEW cell \in Cells
    PROVE  Programmed(cell, Content(rx.from, rx.got)) \in Cells
<1>1. rx.got \in 0 .. SlotBlocks
  BY DEF TypeInv, TypeOK
<1>2. Content(rx.from, rx.got) \in Cells
  BY <1>1, BlocksAssumption DEF Content, Cells, Damaged, OldBlock
<1> QED
  BY <1>2, BlocksAssumption DEF Programmed, Cells, Overprinted

\* The expected block is taken, and its sector erased if it is the first.
LEMMA ReceiveDataStep ==
    ASSUME BootInv, ReceiveData
    PROVE  BootInv'
<1>0. TypeInv /\ ServerInv /\ BootTypeOK /\ LoaderInv /\ FallbackInv
  BY DEF BootInv, TypeInv, TypeOK
<1>1. rx.pc = "recv" /\ pc = "running"
      /\ UNCHANGED <<conf, rtc, running, pc, choice, crashes, net, cl, faults, dups>>
  BY DEF ReceiveData, OnTask
<1>2. PICK m \in Packets : TakePacket(m) /\ mixed' = Mixing(m)
                           /\ rx' = [rx EXCEPT !.pc = "store", !.got = m.blk, !.from = m.sess,
                                               !.retries = MaxRetries]
  BY DEF ReceiveData
<1>3. mbox' \in Seq(Packets) /\ Len(mbox') <= MboxSize
  BY <1>0, <1>2, TakePacketType
<1>4. /\ rx' \in [pc : {"listen", "recv", "store", "switch", "switchWrite"},
                  sess : 0 .. MaxSessions, block : 0 .. SlotBlocks, got : 0 .. SlotBlocks,
                  from : 0 .. MaxSessions, retries : 0 .. MaxRetries, slot : Slots]
      /\ rx'.pc = "store" /\ rx'.sess = rx.sess /\ rx'.block = rx.block /\ rx'.slot = rx.slot
  <2>1. m.blk \in 0 .. SlotBlocks /\ m.sess \in 0 .. MaxSessions
    BY <1>2, Bounds DEF Packets
  <2>2. MaxRetries \in 0 .. MaxRetries
    BY Bounds
  <2>3. rx \in [pc : {"listen", "recv", "store", "switch", "switchWrite"},
                sess : 0 .. MaxSessions, block : 0 .. SlotBlocks, got : 0 .. SlotBlocks,
                from : 0 .. MaxSessions, retries : 0 .. MaxRetries, slot : Slots]
    BY <1>0 DEF TypeInv, TypeOK
  <2> QED
    BY <1>2, <2>1, <2>2, <2>3
<1>5. image' \in [Slots -> [Blocks -> Cells]] /\ \A s \in Slots \ {rx.slot} : image'[s] = image[s]
  <2>1. CASE UNCHANGED image
    BY <1>0, <2>1 DEF BootTypeOK
  <2>2. CASE ~UNCHANGED image
    <3> DEFINE f == [k \in Blocks |-> IF InSector(k) THEN Erased ELSE image[rx.slot][k]]
    <3>1. image' = [image EXCEPT ![rx.slot] = f]
      BY <2>2 DEF ReceiveData
    <3>2. f \in [Blocks -> Cells]
      BY <1>0, <1>1, SentPackets, BlocksAssumption DEF BootTypeOK, Erased, Cells
    <3> HIDE DEF f
    <3> QED
      BY <1>1, <3>1, <3>2, ImageWritten
  <2> QED
    BY <2>1, <2>2
<1>6. BootTypeOK'
  BY <1>0, <1>1, <1>5 DEF BootTypeOK
<1>7. TypeInv'
  <2>1. mixed' \subseteq Slots
    BY <1>0, <1>1, <1>2, SentPackets DEF TypeInv, TypeOK, Mixing
  <2> QED
    BY <1>0, <1>1, <1>3, <1>4, <1>6, <2>1 DEF TypeInv, TypeOK, ClientInv, SessionInv, FileBlocks
<1>8. FallbackInv' /\ LoaderInv'
  BY <1>0, <1>1, <1>4, <1>5, OtherSlotWritten DEF Switching
<1>9. ServerInv'
  BY <1>0, <1>1, <1>4 DEF ServerInv, Successor
<1> QED
  BY <1>7, <1>8, <1>9 DEF BootInv

\* Programming a block changes the slot that is written to and nothing else.
LEMMA StoreContentWrites ==
    ASSUME BootInv, rx.pc = "store", StoreContent
    PROVE  /\ image' \in [Slots -> [Blocks -> Cells]]
           /\ \A s \in Slots \ {rx.slot} : image'[s] = image[s]
<1> DEFINE f == [image[rx.slot] EXCEPT
                    ![rx.block] = Programmed(image[rx.slot][rx.block], Content(rx.from, rx.got))]
<1>1. rx.slot \in Slots /\ rx.block \in Blocks /\ image \in [Slots -> [Blocks -> Cells]]
  BY SentPackets DEF BootInv, TypeInv, TypeOK, BootTypeOK, Blocks
<1>2. Programmed(image[rx.slot][rx.block], Content(rx.from, rx.got)) \in Cells
  BY <1>1, ContentType DEF BootInv
<1>3. f \in [Blocks -> Cells]
  BY <1>1, <1>2
<1>4. image' = [image EXCEPT ![rx.slot] = f]
  BY <1>1 DEF StoreContent
<1> HIDE DEF f
<1> QED
  BY <1>3, <1>4, ImageWritten

\* Steps that store a block and go on with the same transfer, stop, or have an
\* image that was verified keep the invariant.
LEMMA StoreStep ==
    ASSUME BootInv, rx.pc = "store", StoreContent,
           UNCHANGED <<conf, rtc, running, pc, choice, crashes, mbox, cl, dups, mixed>>,
           net' \subseteq Packets, faults' \in 0 .. MaxFaults,
           \/ rx' = Listening
           \/ rx' = [rx EXCEPT !.pc = "recv", !.block = rx.block + 1, !.got = 0, !.from = 0] /\ ~TooLarge
           \/ rx' = [Listening EXCEPT !.pc = "switch", !.slot = rx.slot] /\ Good(rx.slot)'
    PROVE  BootInv'
<1>0. TypeInv /\ ServerInv /\ BootTypeOK /\ LoaderInv /\ FallbackInv /\ pc = "running"
  BY DEF BootInv, TypeInv, TypeOK, ServerInv
<1>1. image' \in [Slots -> [Blocks -> Cells]] /\ \A s \in Slots \ {rx.slot} : image'[s] = image[s]
  BY StoreContentWrites
<1>2. rx \in [pc : {"listen", "recv", "store", "switch", "switchWrite"},
              sess : 0 .. MaxSessions, block : 0 .. SlotBlocks, got : 0 .. SlotBlocks,
              from : 0 .. MaxSessions, retries : 0 .. MaxRetries, slot : Slots]
      /\ rx.sess # 0 /\ rx.block > 0
  BY <1>0 DEF TypeInv, TypeOK, SessionInv
<1>3. BootTypeOK'
  BY <1>0, <1>1 DEF BootTypeOK
<1>4. rx'.pc # "switchWrite"
  BY <1>2, ListeningType DEF Listening
<1>5. FallbackInv' /\ LoaderInv'
  BY <1>0, <1>1, <1>4, OtherSlotWritten DEF Switching
<1>6. CASE rx' = Listening
  <2>1. TypeInv'
    BY <1>0, <1>3, <1>6, ListeningType
       DEF TypeInv, TypeOK, ClientInv, SessionInv, FileBlocks, Listening
  <2> QED
    BY <1>5, <1>6, <2>1 DEF BootInv, ServerInv, Listening
<1>7. CASE rx' = [rx EXCEPT !.pc = "recv", !.block = rx.block + 1, !.got = 0, !.from = 0] /\ ~TooLarge
  <2>1. rx.block + 1 \in 0 .. SlotBlocks /\ 0 \in 0 .. SlotBlocks /\ 0 \in 0 .. MaxSessions
    BY <1>2, <1>7, Bounds DEF TooLarge
  <2>2. /\ rx' \in [pc : {"listen", "recv", "store", "switch", "switchWrite"},
                    sess : 0 .. MaxSessions, block : 0 .. SlotBlocks, got : 0 .. SlotBlocks,
                    from : 0 .. MaxSessions, retries : 0 .. MaxRetries, slot : Slots]
        /\ rx'.pc = "recv" /\ rx'.sess = rx.sess /\ rx'.block = rx.block + 1 /\ rx'.slot = rx.slot
    BY <1>2, <1>7, <2>1
  <2>3. TypeInv'
    BY <1>0, <1>2, <1>3, <2>2 DEF TypeInv, TypeOK, ClientInv, SessionInv, FileBlocks
  <2> QED
    BY <1>0, <1>5, <2>2, <2>3 DEF BootInv, ServerInv, Successor
<1>8. CASE rx' = [Listening EXCEPT !.pc = "switch", !.slot = rx.slot] /\ Good(rx.slot)'
  <2>1. /\ rx' \in [pc : {"listen", "recv", "store", "switch", "switchWrite"},
                    sess : 0 .. MaxSessions, block : 0 .. SlotBlocks, got : 0 .. SlotBlocks,
                    from : 0 .. MaxSessions, retries : 0 .. MaxRetries, slot : Slots]
        /\ rx'.pc = "switch" /\ rx'.slot = rx.slot
    BY <1>2, <1>8, ListeningType DEF Listening
  <2>2. TypeInv'
    BY <1>0, <1>3, <2>1 DEF TypeInv, TypeOK, ClientInv, SessionInv, FileBlocks
  <2>3. ServerInv'
    BY <1>0, <1>8, <2>1 DEF ServerInv, Successor, Good
  <2> QED
    BY <1>5, <2>2, <2>3 DEF BootInv
<1> QED
  BY <1>6, <1>7, <1>8

\* Storing a block, the last one included.
LEMMA StoreSteps ==
    ASSUME BootInv, StoreBlock \/ StoreLast
    PROVE  BootInv'
<1>0. TypeInv /\ rx.pc = "store" /\ StoreContent
      /\ UNCHANGED <<conf, rtc, running, pc, choice, crashes, mbox, cl, dups, mixed>>
  BY DEF BootInv, StoreBlock, StoreLast, OnTask
<1>1. net \subseteq Packets /\ faults \in 0 .. MaxFaults
  BY <1>0 DEF TypeInv, TypeOK
<1>2. Error \in Packets /\ Ack(rx.block) \in Packets
  BY <1>0, SentPackets, Bounds
<1>3. net' \subseteq net \cup {Error, Ack(rx.block)} /\ (faults' = faults \/ Fault)
  BY DEF StoreBlock, StoreLast, Abort
<1>4. net' \subseteq Packets /\ faults' \in 0 .. MaxFaults
  BY <1>1, <1>2, <1>3, Bounds DEF Fault
<1>5. CASE StoreBlock
  BY <1>0, <1>4, <1>5, StoreStep DEF StoreBlock
<1>6. CASE StoreLast
  <2>1. PICK s \in {rx.slot} :
          \/ ~Verified(s) /\ Abort
          \/ Verified(s) /\ ReceivedAll /\ net' = net \cup {Ack(rx.block)} /\ UNCHANGED faults
          \/ Verified(s) /\ Fault /\ rx' = Listening /\ UNCHANGED net
    BY <1>6 DEF StoreLast
  <2>2. CASE rx' = Listening
    BY <1>0, <1>4, <2>2, StoreStep
  <2>3. CASE rx' # Listening
    <3>1. Good(s)' /\ rx' = [Listening EXCEPT !.pc = "switch", !.slot = rx.slot]
      BY <2>1, <2>3 DEF Verified, ReceivedAll, Abort
    <3>2. rx'.slot = s
      BY <2>1, <3>1 DEF Listening
    <3>3. Good(rx.slot)'
      BY <3>1, <3>2 DEF Good
    <3> QED
      BY <1>0, <1>4, <3>1, <3>3, StoreStep
  <2> QED
    BY <2>2, <2>3
<1> QED
  BY <1>5, <1>6

\* Leaving the server's memory behind keeps the invariant if the configuration
\* does: after a restart, a failure of the switch or of the power.
LEMMA RestartStep ==
    ASSUME BootInv, LoseMemory, BootTypeOK', FallbackInv', rtc.temp' => ConfGood',
           pc' = "boot", UNCHANGED <<net, cl, dups, mixed>>, faults' \in 0 .. MaxFaults
    PROVE  BootInv'
<1>1. TypeInv'
  <2>1. <<>> \in Seq(Packets) /\ Len(<<>>) = 0
    OBVIOUS
  <2>2. rx' = Listening /\ mbox' = <<>>
    BY DEF LoseMemory
  <2>3. mbox' \in Seq(Packets) /\ Len(mbox') <= MboxSize
    BY <2>1, <2>2, Bounds
  <2>4. TypeOK' /\ ClientInv'
    BY <2>2, <2>3, ListeningType DEF BootInv, TypeInv, TypeOK, ClientInv, FileBlocks
  <2>5. SessionInv'
    BY <2>2 DEF SessionInv, Listening
  <2> QED
    BY <2>4, <2>5 DEF TypeInv
<1>2. LoaderInv'
  BY DEF LoaderInv, Switching
<1>3. ServerInv'
  BY DEF ServerInv, LoseMemory, Listening
<1> QED
  BY <1>1, <1>2, <1>3 DEF BootInv

\* The switch erases the configuration while two slots are good, the configured
\* one and the one after it: one of them, or the slot in reserve, is slot 0 or 1.
LEMMA SwitchSteps ==
    ASSUME BootInv, SwitchErase \/ SwitchWrite \/ SwitchFails
    PROVE  BootInv'
<1>0. TypeInv /\ ServerInv /\ BootTypeOK /\ LoaderInv /\ FallbackInv /\ pc = "running"
      /\ faults \in 0 .. MaxFaults
  BY DEF BootInv, TypeInv, TypeOK, SwitchErase, SwitchWrite, SwitchFails, OnTask
<1>1. \A s : Good(s)' <=> Good(s)
  BY DEF Good, SwitchErase, SwitchWrite, SwitchFails
<1>2. CASE SwitchErase
  <2>1. /\ rx.pc = "switch" /\ ConfGood /\ Good(rx.slot)
        /\ rx.slot = Successor(conf.rom, conf.count) /\ rx.slot # conf.rom
    BY <1>0, <1>2 DEF SwitchErase, OnTask, LoaderInv, ServerInv, Switching
  <2>2. conf.rom \in Nat /\ conf.count \in 1 .. NumSlots /\ conf.rom < conf.count
        /\ rx.slot \in Slots /\ rx.slot < conf.count
    <3>1. /\ conf.rom \in 0 .. NumSlots - 1 /\ conf.count \in 0 .. NumSlots
          /\ rx.slot \in 0 .. NumSlots - 1
      BY <1>0 DEF BootTypeOK, Slots, TypeInv, TypeOK
    <3>2. conf.rom < conf.count
      BY <2>1 DEF ConfGood
    <3> QED
      BY <2>1, <3>1, <3>2, SlotsAssumption DEF Slots, Successor
  <2>3. LowGood(conf.count)
    <3>1. CASE conf.rom = conf.count - 1
      BY <2>1, <2>2, <3>1 DEF Successor, LowGood
    <3>2. CASE conf.rom # conf.count - 1
      BY <1>0, <2>1, <3>2 DEF FallbackInv, ConfGood
    <3> QED
      BY <3>1, <3>2
  <2>4. /\ choice' = [rom |-> rx.slot, count |-> conf.count] /\ conf' = NoConf
        /\ UNCHANGED <<image, rtc, running, pc, crashes, mbox, net, cl, faults, dups, mixed>>
    BY <1>2 DEF SwitchErase
  <2>5. rx \in [pc : {"listen", "recv", "store", "switch", "switchWrite"},
              sess : 0 .. MaxSessions, block : 0 .. SlotBlocks, got : 0 .. SlotBlocks,
              from : 0 .. MaxSessions, retries : 0 .. MaxRetries, slot : Slots]
    BY <1>0 DEF TypeInv, TypeOK
  <2>6. /\ rx' \in [pc : {"listen", "recv", "store", "switch", "switchWrite"},
              sess : 0 .. MaxSessions, block : 0 .. SlotBlocks, got : 0 .. SlotBlocks,
              from : 0 .. MaxSessions, retries : 0 .. MaxRetries, slot : Slots]
        /\ rx'.pc = "switchWrite"
    BY <1>2, <2>5 DEF SwitchErase
  <2>7. BootTypeOK'
    BY <1>0, <2>2, <2>4, SlotsAssumption DEF BootTypeOK, NoConf, Slots
  <2>8. TypeInv'
    BY <1>0, <2>4, <2>6, <2>7 DEF TypeInv, TypeOK, ClientInv, SessionInv, FileBlocks
  <2>9. FallbackInv'
    BY <1>1, <2>3, <2>4 DEF FallbackInv, LowGood, NoConf
  <2>10. LoaderInv' /\ ServerInv'
    BY <1>0, <1>1, <2>1, <2>2, <2>3, <2>4, <2>6
       DEF LoaderInv, ServerInv, ChoiceGood, LowGood, Switching, NoConf
  <2> QED
    BY <2>8, <2>9, <2>10 DEF BootInv
<1>3. CASE SwitchWrite
  <2>1. ChoiceGood /\ choice \in [rom : Slots, count : 1 .. NumSlots]
    BY <1>0, <1>3 DEF SwitchWrite, OnTask, LoaderInv, Switching, BootTypeOK
  <2>2. conf' = Conf(choice.rom, choice.count) /\ pc' = "boot" /\ LoseMemory
        /\ UNCHANGED <<image, rtc, running, choice, crashes, net, cl, faults, dups, mixed>>
    BY <1>3 DEF SwitchWrite, Restart
  <2>3. BootTypeOK'
    BY <1>0, <2>1, <2>2, SlotsAssumption DEF BootTypeOK, Conf
  <2>4. FallbackInv' /\ ConfGood'
    BY <1>1, <2>1, <2>2, SlotsAssumption DEF FallbackInv, ConfGood, ChoiceGood, LowGood, Conf
  <2> QED
    BY <1>0, <2>2, <2>3, <2>4, RestartStep
<1>4. CASE SwitchFails
  <2>1. pc' = "boot" /\ LoseMemory /\ Fault /\ rx.pc = "switch"
        /\ UNCHANGED <<image, conf, rtc, running, choice, crashes, net, cl, dups, mixed>>
    BY <1>4 DEF SwitchFails, Restart, OnTask
  <2>2. BootTypeOK'
    BY <1>0, <2>1 DEF BootTypeOK
  <2>3. FallbackInv' /\ ConfGood'
    BY <1>0, <1>1, <2>1 DEF FallbackInv, ConfGood, LowGood, LoaderInv, Switching
  <2>4. faults' \in 0 .. MaxFaults
    BY <1>0, <2>1, Bounds DEF Fault
  <2> QED
    BY <2>1, <2>2, <2>3, <2>4, RestartStep
<1> QED
  BY <1>2, <1>3, <1>4

-----------------------------------------------------------------------------
(* Everything around the server.                                           *)

\* Steps of the network and of the client leave the device alone.
LEMMA OutsideStep ==
    ASSUME BootInv, Deliver \/ Client
    PROVE  BootInv'
<1>0. TypeInv /\ ServerInv /\ BootTypeOK /\ UNCHANGED <<bootVars, rx, faults, mixed>>
  BY DEF BootInv, TypeInv, TypeOK, Deliver, Client, ClientStart, ClientAck, ClientError,
         ClientTimeout
<1>1. BootTypeOK'
  BY <1>0 DEF BootTypeOK, bootVars
<1>2. FallbackInv' /\ LoaderInv'
  BY <1>0, BootUntouched DEF BootInv, bootVars, Switching
<1>3. ServerInv'
  <2>1. \A s : Good(s)' <=> Good(s)
    BY <1>0 DEF Good, bootVars
  <2> QED
    BY <1>0, <2>1 DEF ServerInv, bootVars, Successor
<1>4. net \subseteq Packets /\ mbox \in Seq(Packets) /\ Len(mbox) <= MboxSize /\ ClientInv
      /\ dups \in 0 .. MaxDups
      /\ cl \in [sess : 0 .. MaxSessions, pc : {"idle", "wait", "done", "failed"},
                 blk : 0 .. SlotBlocks, tries : 0 .. MaxTries,
                 file : [1 .. MaxSessions -> Files]]
  BY <1>0 DEF TypeInv, TypeOK
<1>5. \A c : FileBlocks(c) \in 1 .. SlotBlocks
  BY BlocksAssumption DEF FileBlocks
<1>6. ASSUME net' \subseteq Packets, mbox' \in Seq(Packets), Len(mbox') <= MboxSize,
             dups' \in 0 .. MaxDups, ClientInv',
             cl' \in [sess : 0 .. MaxSessions, pc : {"idle", "wait", "done", "failed"},
                      blk : 0 .. SlotBlocks, tries : 0 .. MaxTries,
                      file : [1 .. MaxSessions -> Files]]
      PROVE  BootInv'
  BY <1>0, <1>1, <1>2, <1>3, <1>6 DEF BootInv, TypeInv, TypeOK, SessionInv
<1>7. CASE Deliver
  <2>1. PICK m \in net : /\ Len(mbox) < MboxSize /\ mbox' = Append(mbox, m)
                         /\ net' \subseteq net /\ UNCHANGED cl
                         /\ dups' = dups \/ (dups < MaxDups /\ dups' = dups + 1)
    BY <1>7 DEF Deliver, Accepts
  <2>2. mbox' \in Seq(Packets) /\ Len(mbox') = Len(mbox) + 1 /\ Len(mbox) \in Nat
    BY <1>4, <2>1
  <2>3. Len(mbox') <= MboxSize /\ dups' \in 0 .. MaxDups
    BY <1>4, <2>1, <2>2, Bounds
  <2> QED
    BY <1>4, <1>6, <2>1, <2>2, <2>3 DEF ClientInv, FileBlocks
<1>8. CASE Client
  <2>1. UNCHANGED <<mbox, dups, mixed>>
    BY <1>8 DEF Client, ClientStart, ClientAck, ClientError, ClientTimeout
  <2>2. \A c \in 1 .. MaxSessions, b \in 0 .. SlotBlocks : Request(c, b) \in Packets
    BY DEF Request, ToServer, Packet, Packets
  <2>3. CASE ClientStart
    <3>1. cl.sess + 1 \in 1 .. MaxSessions /\ cl.sess + 1 \in 0 .. MaxSessions
          /\ 0 \in 0 .. SlotBlocks /\ 0 \in 0 .. MaxTries
      BY <1>4, <2>3, Bounds DEF ClientStart
    <3>2. cl' = [cl EXCEPT !.sess = cl.sess + 1, !.pc = "wait", !.blk = 0, !.tries = 0]
          /\ net' = net \cup {Request(cl.sess + 1, 0)}
      BY <2>3 DEF ClientStart
    <3>3. cl' \in [sess : 0 .. MaxSessions, pc : {"idle", "wait", "done", "failed"},
                   blk : 0 .. SlotBlocks, tries : 0 .. MaxTries,
                   file : [1 .. MaxSessions -> Files]]
          /\ cl'.blk = 0 /\ cl'.file = cl.file /\ cl'.sess = cl.sess + 1
      BY <1>4, <3>1, <3>2
    <3>4. ClientInv'
      BY <1>5, <3>1, <3>3 DEF ClientInv, FileBlocks
    <3>5. net' \subseteq Packets
      BY <1>4, <2>2, <3>1, <3>2
    <3> QED
      BY <1>4, <1>6, <2>1, <3>3, <3>4, <3>5
  <2>4. CASE ClientAck
    <3>1. PICK m \in net :
            /\ m.sess = cl.sess
            /\ \/ cl' = [cl EXCEPT !.pc = "done"] /\ net' = net \ {m}
               \/ /\ ~IsLast(cl.sess, cl.blk)
                  /\ cl' = [cl EXCEPT !.blk = cl.blk + 1]
                  /\ net' = (net \ {m}) \cup {Request(cl.sess, cl.blk + 1)}
      BY <2>4 DEF ClientAck
    <3>2. m.sess \in 1 .. MaxSessions
      BY <1>4 DEF Packets
    <3>3. CASE cl' = [cl EXCEPT !.pc = "done"] /\ net' = net \ {m}
      <4>1. ClientInv' /\ net' \subseteq Packets
        BY <1>4, <3>3 DEF ClientInv, FileBlocks
      <4>2. cl' \in [sess : 0 .. MaxSessions, pc : {"idle", "wait", "done", "failed"},
                     blk : 0 .. SlotBlocks, tries : 0 .. MaxTries,
                     file : [1 .. MaxSessions -> Files]]
        BY <1>4, <3>3
      <4> QED
        BY <1>4, <1>6, <2>1, <4>1, <4>2
    <3>4. CASE /\ ~IsLast(cl.sess, cl.blk)
               /\ cl' = [cl EXCEPT !.blk = cl.blk + 1]
               /\ net' = (net \ {m}) \cup {Request(cl.sess, cl.blk + 1)}
      <4>1. cl.blk + 1 <= FileBlocks(cl.sess) /\ cl.blk + 1 \in 0 .. SlotBlocks
        BY <1>4, <1>5, <3>4, Bounds DEF ClientInv, IsLast
      <4>2. cl' \in [sess : 0 .. MaxSessions, pc : {"idle", "wait", "done", "failed"},
                     blk : 0 .. SlotBlocks, tries : 0 .. MaxTries,
                     file : [1 .. MaxSessions -> Files]]
            /\ cl'.blk = cl.blk + 1 /\ cl'.file = cl.file /\ cl'.sess = cl.sess
        BY <1>4, <3>4, <4>1
      <4>3. ClientInv'
        BY <3>1, <3>2, <4>1, <4>2 DEF ClientInv, FileBlocks
      <4>4. net' \subseteq Packets
        BY <1>4, <2>2, <3>1, <3>2, <3>4, <4>1
      <4> QED
        BY <1>4, <1>6, <2>1, <4>2, <4>3, <4>4
    <3> QED
      BY <3>1, <3>3, <3>4
  <2>5. CASE ClientError
    <3>1. net' \subseteq net /\ cl' = [cl EXCEPT !.pc = "failed"]
      BY <2>5 DEF ClientError
    <3>2. cl' \in [sess : 0 .. MaxSessions, pc : {"idle", "wait", "done", "failed"},
                   blk : 0 .. SlotBlocks, tries : 0 .. MaxTries,
                   file : [1 .. MaxSessions -> Files]]
          /\ cl'.blk = cl.blk /\ cl'.file = cl.file /\ cl'.pc = "failed"
      BY <1>4, <3>1
    <3> QED
      BY <1>4, <1>6, <2>1, <3>1, <3>2 DEF ClientInv, FileBlocks
  <2>6. CASE ClientTimeout
    <3>1. /\ cl' \in [sess : 0 .. MaxSessions, pc : {"idle", "wait", "done", "failed"},
                      blk : 0 .. SlotBlocks, tries : 0 .. MaxTries,
                      file : [1 .. MaxSessions -> Files]]
          /\ cl'.blk = cl.blk /\ cl'.file = cl.file /\ cl'.sess = cl.sess
      <4>1. CASE cl' = [cl EXCEPT !.pc = "failed"]
        BY <1>4, <4>1
      <4>2. CASE cl.tries < MaxTries /\ cl' = [cl EXCEPT !.tries = cl.tries + 1]
        <5>1. cl.tries + 1 \in 0 .. MaxTries
          BY <1>4, <4>2, Bounds
        <5> QED
          BY <1>4, <4>2, <5>1
      <4> QED
        BY <2>6, <4>1, <4>2 DEF ClientTimeout
    <3>2. net' \subseteq net \cup {Request(cl.sess, cl.blk)}
      BY <2>6 DEF ClientTimeout
    <3>3. CASE cl.sess # 0
      <4>1. cl.sess \in 1 .. MaxSessions /\ cl.blk \in 0 .. SlotBlocks
        BY <1>4, <3>3, Bounds
      <4> QED
        BY <1>4, <1>6, <2>1, <2>2, <3>1, <3>2, <4>1 DEF ClientInv, FileBlocks
    <3>4. cl.sess # 0
      BY <1>0, <2>6 DEF ClientTimeout, TypeInv, ClientInv
    <3> QED
      BY <3>3, <3>4
  <2> QED
    BY <1>8, <2>3, <2>4, <2>5, <2>6 DEF Client
<1> QED
  BY <1>7, <1>8

\* What the application does: ask for a temporary boot, or restart.
LEMMA AppStep ==
    ASSUME BootInv, AppTempRom \/ AppRestart
    PROVE  BootInv'
<1>0. TypeInv /\ ServerInv /\ BootTypeOK /\ LoaderInv /\ FallbackInv
      /\ pc = "running" /\ rx.pc # "switchWrite" /\ faults \in 0 .. MaxFaults
  BY DEF BootInv, TypeInv, TypeOK, AppTempRom, AppRestart, SetTempRom, Interruptible
<1>1. ConfGood /\ UNCHANGED <<image, conf, choice>>
  BY <1>0 DEF LoaderInv, Switching, AppTempRom, AppRestart, SetTempRom
<1>2. \A s : Good(s)' <=> Good(s)
  BY <1>1 DEF Good
<1>3. FallbackInv' /\ ConfGood'
  BY <1>0, <1>1, <1>2 DEF FallbackInv, ConfGood, LowGood
<1>4. CASE AppTempRom
  <2>1. PICK s \in TempRoms : rtc' = Temp(s) /\ UNCHANGED <<running, pc, crashes>>
        /\ UNCHANGED <<rx, mbox, net, cl, faults, dups, mixed>>
    BY <1>4 DEF AppTempRom, SetTempRom
  <2>2. rtc' \in [temp : BOOLEAN, rom : 0 .. NumSlots]
    BY <2>1, OtaAssumption DEF Temp
  <2>3. BootTypeOK'
    BY <1>0, <1>1, <2>1, <2>2 DEF BootTypeOK
  <2>4. TypeInv'
    BY <1>0, <2>1, <2>3 DEF TypeInv, TypeOK, ClientInv, SessionInv, FileBlocks
  <2>5. LoaderInv' /\ ServerInv'
    BY <1>0, <1>1, <1>2, <1>3, <2>1 DEF LoaderInv, ServerInv, Switching, Successor
  <2> QED
    BY <1>3, <2>4, <2>5 DEF BootInv
<1>5. CASE AppRestart
  <2>1. pc' = "boot" /\ LoseMemory /\ UNCHANGED <<rtc, running, crashes, net, cl, faults, dups, mixed>>
    BY <1>5 DEF AppRestart, Restart
  <2>2. BootTypeOK'
    BY <1>0, <1>1, <2>1 DEF BootTypeOK
  <2> QED
    BY <1>0, <1>3, <2>1, <2>2, RestartStep
<1> QED
  BY <1>4, <1>5

\* A power failure, which may damage the block that is being written.
LEMMA CrashStep ==
    ASSUME BootInv, Crash
    PROVE  BootInv'
<1>0. TypeInv /\ ServerInv /\ BootTypeOK /\ LoaderInv /\ FallbackInv
      /\ faults \in 0 .. MaxFaults
  BY DEF BootInv, TypeInv, TypeOK
<1>1. /\ pc' = "boot" /\ rtc' = NoTemp /\ LoseMemory /\ crashes' \in 0 .. MaxCrashes
      /\ UNCHANGED <<conf, running, choice, net, cl, faults, dups, mixed>>
  BY <1>0, CrashAssumption DEF Crash, PowerFail, BootTypeOK
<1>2. NoTemp \in [temp : BOOLEAN, rom : 0 .. NumSlots] /\ ~NoTemp.temp
  BY SlotsAssumption DEF NoTemp
<1>3. image' \in [Slots -> [Blocks -> Cells]] /\ FallbackInv'
  <2>1. CASE UNCHANGED image
    <3>1. \A s : Good(s)' <=> Good(s)
      BY <2>1 DEF Good
    <3> QED
      BY <1>0, <1>1, <2>1, <3>1 DEF BootTypeOK, FallbackInv, ConfGood, LowGood
  <2>2. CASE ~UNCHANGED image
    <3> DEFINE f == [image[rx.slot] EXCEPT ![rx.block] = Damaged]
    <3>1. rx.pc = "store" /\ image' = [image EXCEPT ![rx.slot] = f]
      BY <2>2 DEF Crash, OnTask
    <3>2. f \in [Blocks -> Cells]
      <4>1. image[rx.slot] \in [Blocks -> Cells]
        BY <1>0, <3>1, SentPackets DEF BootTypeOK
      <4>2. Damaged \in Cells
        BY BlocksAssumption DEF Damaged, Cells
      <4> QED
        BY <4>1, <4>2
    <3> HIDE DEF f
    <3>3. /\ image' \in [Slots -> [Blocks -> Cells]]
          /\ \A s \in Slots \ {rx.slot} : image'[s] = image[s]
      BY <3>1, <3>2, ImageWritten
    <3> QED
      BY <1>0, <1>1, <1>2, <3>1, <3>3, OtherSlotWritten DEF Switching
  <2> QED
    BY <2>1, <2>2
<1>4. BootTypeOK'
  BY <1>0, <1>1, <1>2, <1>3 DEF BootTypeOK
<1> QED
  BY <1>0, <1>1, <1>2, <1>3, <1>4, RestartStep

-----------------------------------------------------------------------------
(* The theorems.                                                           *)

\* The invariant holds in the states a device starts in.
LEMMA InitInv == Init => BootInv
<1> SUFFICES ASSUME Init PROVE BootInv
  OBVIOUS
<1>0. NumSlots \in Nat /\ NumSlots >= 2
  BY SlotsAssumption
<1>1. conf \in [valid : BOOLEAN, rom : Slots, count : 0 .. NumSlots]
  <2>1. CASE conf = NoConf
    BY <1>0, <2>1 DEF NoConf, Slots
  <2>2. CASE conf # NoConf
    <3>1. PICK r \in Slots, c \in 1 .. NumSlots : conf = Conf(r, c)
      BY <2>2 DEF Init, BootInit
    <3>2. c \in 0 .. NumSlots
      BY <1>0, <3>1
    <3> QED
      BY <3>1, <3>2 DEF Conf
  <2> QED
    BY <2>1, <2>2
<1>2. image \in [Slots -> [Blocks -> Cells]]
  <2>1. \A k \in Blocks : Erased \in Cells /\ OldBlock(k) \in Cells
    BY BlocksAssumption DEF Blocks, Cells, Erased, OldBlock
  <2> QED
    BY <2>1 DEF Init, BootInit
<1>3. /\ rtc = NoTemp /\ running = 0 /\ pc = "boot"
      /\ choice = [rom |-> 0, count |-> 1] /\ crashes = 0
  BY DEF Init, BootInit
<1>4. BootTypeOK
  BY <1>0, <1>1, <1>2, <1>3, CrashAssumption DEF BootTypeOK, NoTemp, Slots
<1>5. /\ rx = Listening /\ mbox = <<>> /\ net = {} /\ faults = 0 /\ dups = 0 /\ mixed = {}
      /\ cl \in [sess : {0}, pc : {"idle"}, blk : {0}, tries : {0},
                 file : [1 .. MaxSessions -> Files]]
  BY DEF Init, OtaInit
<1>6. TypeInv
  <2>1. mbox \in Seq(Packets) /\ Len(mbox) = 0
    BY <1>5
  <2> QED
    BY <1>4, <1>5, <2>1, ListeningType, Bounds, BlocksAssumption
       DEF TypeInv, TypeOK, ClientInv, SessionInv, FileBlocks, Listening
<1>7. FallbackInv
  <2>1. PICK s \in {0, 1} : Good(s) /\ (conf.valid => s < conf.count)
    BY DEF Init, BootInit
  <2> QED
    BY <1>1, <2>1 DEF FallbackInv, LowGood
<1>8. LoaderInv /\ ServerInv
  BY <1>3, <1>5 DEF LoaderInv, ServerInv, NoTemp, Listening, Switching
<1> QED
  BY <1>6, <1>7, <1>8 DEF BootInv

\* Every step of the device, the network and the client keeps the invariant.
LEMMA NextInv == BootInv /\ [Next]_vars => BootInv'
<1> SUFFICES ASSUME BootInv, [Next]_vars PROVE BootInv'
  OBVIOUS
<1>1. CASE Boot
  BY <1>1, LoaderStep
<1>2. CASE Server
  BY <1>2, ReceiveQuietly, WriteRequestStep, ReceiveDataStep, StoreSteps, SwitchSteps DEF Server
<1>3. CASE ReceiveFails
  BY <1>3, ReceiveQuietly
<1>4. CASE SwitchFails
  BY <1>4, SwitchSteps
<1>5. CASE Deliver \/ Client
  BY <1>5, OutsideStep
<1>6. CASE AppTempRom \/ AppRestart
  BY <1>6, AppStep
<1>7. CASE Crash
  BY <1>7, CrashStep
<1>8. CASE UNCHANGED vars
  <2>1. UNCHANGED <<bootVars, rx, mbox, net, cl, faults, dups, mixed>>
    BY <1>8 DEF vars
  <2>2. BootTypeOK' /\ \A s : Good(s)' <=> Good(s)
    BY <2>1 DEF BootInv, TypeInv, TypeOK, BootTypeOK, bootVars, Good
  <2>3. TypeInv' /\ ServerInv'
    BY <2>1, <2>2 DEF BootInv, TypeInv, TypeOK, ClientInv, SessionInv, FileBlocks,
        ServerInv, Successor, bootVars
  <2>4. FallbackInv' /\ LoaderInv'
    BY <2>1, BootUntouched DEF BootInv, bootVars, Switching
  <2> QED
    BY <2>3, <2>4 DEF BootInv
<1> QED
  BY <1>1, <1>2, <1>3, <1>4, <1>5, <1>6, <1>7, <1>8 DEF Next

\* The invariant always holds.
THEOREM BootInvariant == Spec => []BootInv
BY InitInv, NextInv, PTL DEF Spec

\* Every variable keeps its type, for any number of slots, blocks, sessions and
\* failures; the server's slot is one that exists.
THEOREM OtaTypeCorrect == Spec => []TypeOK
<1>1. BootInv => TypeOK
  BY DEF BootInv, TypeInv
<1> QED
  BY <1>1, BootInvariant, PTL

\* Wherever an update or the boot loader is interrupted, find_image finds an
\* image it accepts at the next standard boot.
THEOREM StandardBootAlwaysWorks == Spec => []StandardBootWorks
<1>1. BootInv => StandardBootWorks
  <2> SUFFICES ASSUME BootInv PROVE StandardBootWorks
    OBVIOUS
  <2>1. {0, 1} \subseteq Slots /\ conf.rom \in Slots
    BY SlotsAssumption DEF BootInv, TypeInv, TypeOK, BootTypeOK, Slots
  <2> QED
    BY <2>1 DEF BootInv, FallbackInv, LowGood, ConfGood, StandardBootWorks, DefaultConf, Conf
<1> QED
  BY <1>1, BootInvariant, PTL

-----------------------------------------------------------------------------
(* The blocks of a transfer.                                               *)

\* A sector begins with block j.
SectorBegins(j) == (j - 1) % BlocksPerSector = 0

\* Behind block b the slot is erased, up to the next sector that begins at or
\* after block first.
ErasedFrom(b, first) ==
    \A k \in Blocks :
        k >= b /\ (\A j \in first .. k : ~SectorBegins(j)) => image[rx.slot][k] = Erased

\* The slot holds block k of some session's file, and of this session's own if
\* no block of another file was taken.
Stored(k) ==
    /\ \E s \in 1 .. MaxSessions : image[rx.slot][k] = Content(s, k)
    /\ rx.slot \in mixed \/ image[rx.slot][k] = Content(rx.sess, k)

\* The block that was taken is of this session's file, or the slot is marked.
OwnBlock == rx.slot \in mixed \/ cl.file[rx.from] = cl.file[rx.sess]

\* The server is within the file.  What it has acknowledged is stored.  The rest
\* of the sector that it writes to is erased, whatever the slot held before.
TransferInv ==
    /\ rx.pc \in {"recv", "store"} =>
          /\ rx.slot \in mixed \/ rx.block <= FileBlocks(rx.sess)
          /\ \A k \in 1 .. rx.block - 1 : Stored(k)
    /\ rx.pc = "recv" => ErasedFrom(rx.block, rx.block)
    /\ rx.pc = "store" =>
          /\ rx.got = rx.block /\ rx.from \in 1 .. MaxSessions /\ OwnBlock
          /\ ErasedFrom(rx.block, rx.block + 1)

BlocksInv == TransferInv /\ NeverOverprinted

\* The file of a session has a number of blocks that may fill a slot.
LEMMA FileFacts ==
    ASSUME NEW c
    PROVE  /\ FileBlocks(c) \in 1 .. SlotBlocks
           /\ \A k \in Nat : Content(c, k) \in Int /\ Content(c, k) # Overprinted
BY BlocksAssumption DEF FileBlocks, Content, Damaged, OldBlock, Overprinted

\* A sector that begins with a block ends before the next one begins.
LEMMA NextSector ==
    ASSUME NEW j \in Int, SectorBegins(j)
    PROVE  SectorBegins(j + BlocksPerSector)
<1> DEFINE n == j - 1
           d == BlocksPerSector
           q == n \div d
<1>0. d \in Nat \ {0} /\ n \in Int /\ n % d = 0
  BY OtaAssumption DEF SectorBegins
<1> HIDE DEF n, d
<1>1. n = q * d + (n % d) /\ q \in Int
  BY <1>0
<1>2. n = q * d
  BY <1>0, <1>1
<1> HIDE DEF q
<1>3. n + d = (q + 1) * d
  BY <1>0, <1>1, <1>2
<1>4. \A k \in Int : (k * d) % d = 0
  BY <1>0
<1>5. (n + d) % d = 0
  BY <1>1, <1>3, <1>4
<1>6. (j + BlocksPerSector) - 1 = n + d
  BY <1>0 DEF n, d
<1> QED
  BY <1>5, <1>6 DEF SectorBegins, d

\* The transfer goes on as it was.
SameTransfer ==
    /\ rx'.pc = rx.pc /\ rx'.sess = rx.sess /\ rx'.slot = rx.slot
    /\ rx'.block = rx.block /\ rx'.got = rx.got /\ rx'.from = rx.from

\* The files do not change, and steps that leave the image and the transfer
\* alone, or end it, preserve the invariant.
LEMMA BlocksKept ==
    ASSUME BlocksInv, UNCHANGED <<image, mixed>>, cl'.file = cl.file,
           \/ rx'.pc \notin {"recv", "store"}
           \/ SameTransfer
    PROVE  BlocksInv'
<1>1. CASE rx'.pc \notin {"recv", "store"}
  BY <1>1 DEF BlocksInv, TransferInv, NeverOverprinted
<1>2. CASE SameTransfer
  <2>1. \A c, k : FileBlocks(c)' = FileBlocks(c) /\ Content(c, k)' = Content(c, k)
    BY DEF FileBlocks, Content
  <2>2. \A k : Stored(k) => Stored(k)'
    BY <1>2, <2>1 DEF Stored, SameTransfer
  <2>3. FileBlocks(rx.sess)' = FileBlocks(rx.sess) /\ (OwnBlock => OwnBlock')
    BY <1>2 DEF FileBlocks, OwnBlock, SameTransfer
  <2>4. \A b, f : ErasedFrom(b, f) => ErasedFrom(b, f)'
    BY <1>2 DEF ErasedFrom, SameTransfer, SectorBegins
  <2>5. ErasedFrom(rx.block, rx.block)' <=> ErasedFrom(rx.block, rx.block)
    BY <1>2 DEF ErasedFrom, SameTransfer, SectorBegins
  <2>6. ErasedFrom(rx.block, rx.block + 1)' <=> ErasedFrom(rx.block, rx.block + 1)
    BY <1>2 DEF ErasedFrom, SameTransfer, SectorBegins
  <2>7. TransferInv'
    BY <1>2, <2>2, <2>3, <2>5, <2>6 DEF BlocksInv, TransferInv, SameTransfer
  <2> QED
    BY <2>7 DEF BlocksInv, NeverOverprinted
<1> QED
  BY <1>1, <1>2

\* Which steps those are.
Plain ==
    \/ Boot \/ Ignore \/ ReceiveTimeout \/ ReceiveDuplicate \/ ReceiveUnexpected \/ RefuseLarge
    \/ SwitchErase \/ SwitchWrite \/ ReceiveFails \/ SwitchFails
    \/ Deliver \/ Client \/ AppTempRom \/ AppRestart \/ UNCHANGED vars

LEMMA PlainKeepsFile ==
    ASSUME TypeInv, [Next]_vars
    PROVE  cl'.file = cl.file
<1>1. cl \in [sess : 0 .. MaxSessions, pc : {"idle", "wait", "done", "failed"},
              blk : 0 .. SlotBlocks, tries : 0 .. MaxTries,
              file : [1 .. MaxSessions -> Files]]
  BY DEF TypeInv, TypeOK
<1>2. CASE Client
  BY <1>1, <1>2 DEF Client, ClientStart, ClientAck, ClientError, ClientTimeout
<1>3. CASE ~Client
  <2>1. cl' = cl
    BY <1>3 DEF Next, vars, Boot, Server, Ignore, WriteRequest, ReceiveTimeout, ReceiveDuplicate,
        ReceiveUnexpected, ReceiveData, RefuseLarge, StoreBlock, StoreLast, SwitchErase, SwitchWrite,
        ReceiveFails, SwitchFails, Deliver, AppTempRom, AppRestart, Crash
  <2> QED
    BY <2>1
<1> QED
  BY <1>2, <1>3

LEMMA PlainSteps ==
    ASSUME TypeInv, Plain
    PROVE  /\ UNCHANGED <<image, mixed>>
           /\ rx'.pc \notin {"recv", "store"} \/ SameTransfer
<1>0. rx \in [pc : {"listen", "recv", "store", "switch", "switchWrite"},
              sess : 0 .. MaxSessions, block : 0 .. SlotBlocks, got : 0 .. SlotBlocks,
              from : 0 .. MaxSessions, retries : 0 .. MaxRetries, slot : Slots]
      /\ Listening.pc = "listen"
  BY DEF TypeInv, TypeOK, Listening
<1>1. CASE Boot
  BY <1>1 DEF Boot, FindImage, ReadConfig, Select, RewriteErase, RewriteWrite, SameTransfer
<1>2. CASE Ignore \/ ReceiveTimeout \/ ReceiveDuplicate \/ ReceiveUnexpected \/ RefuseLarge \/ ReceiveFails
  BY <1>0, <1>2 DEF Ignore, ReceiveTimeout, ReceiveDuplicate, ReceiveUnexpected, RefuseLarge, ReceiveFails,
        Abort, bootVars, SameTransfer
<1>3. CASE SwitchErase \/ SwitchWrite \/ SwitchFails \/ AppTempRom \/ AppRestart
  BY <1>0, <1>3 DEF SwitchErase, SwitchWrite, SwitchFails, AppTempRom, AppRestart, SetTempRom, LoseMemory, SameTransfer
<1>4. CASE Deliver \/ Client \/ UNCHANGED vars
  BY <1>4 DEF Deliver, Client, ClientStart, ClientAck, ClientError, ClientTimeout, vars, bootVars,
        SameTransfer
<1> QED
  BY <1>1, <1>2, <1>3, <1>4 DEF Plain

\* A transfer begins with the first block of a sector.
LEMMA WriteRequestBlocks ==
    ASSUME TypeInv, BlocksInv, WriteRequest
    PROVE  BlocksInv'
<1>1. UNCHANGED <<image, cl>>
  BY DEF WriteRequest, bootVars
<1>2. CASE UNCHANGED <<rx, mixed>>
  BY <1>1, <1>2, BlocksKept DEF SameTransfer
<1>3. CASE ~UNCHANGED <<rx, mixed>>
  <2>1. /\ rx'.pc = "recv" /\ rx'.block = 1
    BY <1>3 DEF WriteRequest, Transfer
  <2>2. 1 <= FileBlocks(rx.sess)'
    BY BlocksAssumption DEF FileBlocks
  <2>3. SectorBegins(1)
    BY OtaAssumption DEF SectorBegins
  <2>4. ErasedFrom(1, 1)'
    <3> SUFFICES ASSUME NEW k \in Blocks, k >= 1, \A j \in 1 .. k : ~SectorBegins(j)
                 PROVE  FALSE
      BY DEF ErasedFrom, SectorBegins
    <3> QED
      BY <2>3 DEF Blocks
  <2>5. TransferInv'
    BY <2>1, <2>2, <2>4, BlocksAssumption DEF TransferInv, ErasedFrom
  <2> QED
    BY <1>1, <2>5 DEF BlocksInv, NeverOverprinted
<1> QED
  BY <1>2, <1>3

\* The expected block, with or without an erase.
LEMMA ReceiveDataBlocks ==
    ASSUME BootInv, BlocksInv, ReceiveData
    PROVE  BlocksInv'
<1>0. /\ TypeInv /\ rx.pc = "recv" /\ UNCHANGED cl
      /\ image \in [Slots -> [Blocks -> Cells]] /\ rx.slot \in Slots /\ rx.block \in 1 .. SlotBlocks
  BY SentPackets DEF BootInv, TypeInv, TypeOK, BootTypeOK, ReceiveData, OnTask
<1>1. PICK m \in Packets :
        /\ rx'.pc = "store" /\ rx'.got = rx.block /\ rx'.block = rx.block /\ rx'.slot = rx.slot
        /\ rx'.sess = rx.sess /\ rx'.from = m.sess /\ mixed' = Mixing(m)
  <2>1. rx \in [pc : {"listen", "recv", "store", "switch", "switchWrite"},
                sess : 0 .. MaxSessions, block : 0 .. SlotBlocks, got : 0 .. SlotBlocks,
                from : 0 .. MaxSessions, retries : 0 .. MaxRetries, slot : Slots]
    BY <1>0 DEF TypeInv, TypeOK
  <2> QED
    BY <2>1 DEF ReceiveData, Expected
<1>2. rx'.from \in 1 .. MaxSessions /\ mixed \subseteq mixed' /\ OwnBlock'
  BY <1>0, <1>1 DEF Packets, Mixing, OwnBlock
<1>3. ASSUME \A k \in 1 .. rx.block - 1 : image'[rx.slot][k] = image[rx.slot][k],
             ErasedFrom(rx.block, rx.block + 1)'
      PROVE  TransferInv'
  <2>1. \A c, k : FileBlocks(c)' = FileBlocks(c) /\ Content(c, k)' = Content(c, k)
    BY <1>0 DEF FileBlocks, Content
  <2>2. \A k \in 1 .. rx.block - 1 : Stored(k)
    BY <1>0 DEF BlocksInv, TransferInv
  <2>3. \A k \in 1 .. rx.block - 1 : Stored(k)'
    BY <1>1, <1>2, <1>3, <2>1, <2>2 DEF Stored
  <2>4. (rx.slot \in mixed \/ rx.block <= FileBlocks(rx.sess))'
    BY <1>0, <1>1, <1>2 DEF BlocksInv, TransferInv, FileBlocks
  <2> QED
    BY <1>1, <1>2, <1>3, <2>3, <2>4 DEF TransferInv
<1>4. CASE UNCHANGED image /\ ~SectorStart
  <2>1. ErasedFrom(rx.block, rx.block + 1)'
    <3> SUFFICES ASSUME NEW k \in Blocks, k >= rx.block, \A j \in rx.block + 1 .. k : ~SectorBegins(j)
                 PROVE  image[rx.slot][k] = Erased
      BY <1>1, <1>4 DEF ErasedFrom, SectorBegins
    <3>1. \A j \in rx.block .. k : ~SectorBegins(j)
      BY <1>0, <1>4 DEF SectorStart, SectorBegins
    <3> QED
      BY <1>0, <3>1 DEF BlocksInv, TransferInv, ErasedFrom
  <2> QED
    BY <1>3, <1>4, <2>1 DEF BlocksInv, NeverOverprinted
<1>5. CASE SectorStart /\ image' = [image EXCEPT ![rx.slot] =
                 [k \in Blocks |-> IF InSector(k) THEN Erased ELSE image[rx.slot][k]]]
  <2>1. /\ \A k \in Blocks : image'[rx.slot][k] = IF InSector(k) THEN Erased ELSE image[rx.slot][k]
        /\ \A s \in Slots \ {rx.slot} : image'[s] = image[s]
    BY <1>0, <1>5
  <2>2. ErasedFrom(rx.block, rx.block + 1)'
    <3> SUFFICES ASSUME NEW k \in Blocks, k >= rx.block, \A j \in rx.block + 1 .. k : ~SectorBegins(j)
                 PROVE  InSector(k)
      BY <1>1, <2>1 DEF ErasedFrom, SectorBegins
    <3>1. SectorBegins(rx.block + BlocksPerSector)
      BY <1>0, <1>5, NextSector DEF SectorStart, SectorBegins
    <3> QED
      BY <1>0, <3>1, OtaAssumption DEF InSector, Blocks
  <2>3. \A k \in 1 .. rx.block - 1 : image'[rx.slot][k] = image[rx.slot][k]
    <3> SUFFICES ASSUME NEW k \in 1 .. rx.block - 1 PROVE k \in Blocks /\ ~InSector(k)
      BY <2>1
    <3> QED
      BY <1>0, BlocksAssumption, OtaAssumption DEF InSector, Blocks
  <2>4. NeverOverprinted'
    BY <2>1 DEF BlocksInv, NeverOverprinted, Erased, Overprinted
  <2> QED
    BY <1>3, <2>2, <2>3, <2>4 DEF BlocksInv
<1> QED
  BY <1>4, <1>5 DEF ReceiveData

\* Programming the block fills an erased place.
LEMMA StoredBlock ==
    ASSUME BootInv, BlocksInv, rx.pc = "store", StoreContent
    PROVE  /\ rx.block \in Blocks /\ rx.slot \in Slots
           /\ image'[rx.slot][rx.block] = Content(rx.from, rx.block)
           /\ \A k \in Blocks \ {rx.block} : image'[rx.slot][k] = image[rx.slot][k]
           /\ \A s \in Slots \ {rx.slot} : image'[s] = image[s]
<1>1. /\ TypeInv /\ image \in [Slots -> [Blocks -> Cells]] /\ rx.slot \in Slots
      /\ rx.block \in Blocks /\ rx.got = rx.block
  BY SentPackets DEF BootInv, TypeInv, TypeOK, BootTypeOK, BlocksInv, TransferInv, Blocks
<1>2. image[rx.slot][rx.block] = Erased
  <2>1. \A j \in rx.block + 1 .. rx.block : FALSE
    BY <1>1 DEF Blocks
  <2> QED
    BY <1>1, <2>1 DEF BlocksInv, TransferInv, ErasedFrom, Blocks
<1> QED
  BY <1>1, <1>2 DEF StoreContent, Programmed

\* The block that is stored is the one of this number in the file it came from.
LEMMA OwnContent ==
    ASSUME OwnBlock, rx.slot \notin mixed
    PROVE  FileBlocks(rx.from) = FileBlocks(rx.sess)
           /\ \A k : Content(rx.from, k) = Content(rx.sess, k)
BY DEF OwnBlock, FileBlocks, Content

LEMMA StoreBlocks ==
    ASSUME BootInv, BlocksInv, StoreBlock \/ StoreLast
    PROVE  BlocksInv'
<1>0. TypeInv /\ rx.pc = "store" /\ StoreContent /\ UNCHANGED <<cl, mixed>>
  BY DEF BootInv, StoreBlock, StoreLast, OnTask
<1>1. /\ rx.block \in Blocks /\ rx.slot \in Slots
      /\ image'[rx.slot][rx.block] = Content(rx.from, rx.block)
      /\ \A k \in Blocks \ {rx.block} : image'[rx.slot][k] = image[rx.slot][k]
      /\ \A s \in Slots \ {rx.slot} : image'[s] = image[s]
  BY <1>0, StoredBlock
<1>2. /\ \A c, k : FileBlocks(c)' = FileBlocks(c) /\ Content(c, k)' = Content(c, k)
      /\ rx.from \in 1 .. MaxSessions /\ OwnBlock /\ rx.got = rx.block
      /\ rx.slot \in mixed \/ rx.block <= FileBlocks(rx.sess)
  BY <1>0 DEF FileBlocks, Content, BlocksInv, TransferInv
<1>3. NeverOverprinted'
  <2>1. Content(rx.from, rx.block) # Overprinted
    BY <1>1, FileFacts, BlocksAssumption DEF Blocks
  <2> QED
    BY <1>1, <2>1 DEF BlocksInv, NeverOverprinted
<1>4. rx \in [pc : {"listen", "recv", "store", "switch", "switchWrite"},
              sess : 0 .. MaxSessions, block : 0 .. SlotBlocks, got : 0 .. SlotBlocks,
              from : 0 .. MaxSessions, retries : 0 .. MaxRetries, slot : Slots]
  BY <1>0 DEF TypeInv, TypeOK
<1>5. CASE rx'.pc \notin {"recv", "store"}
  BY <1>3, <1>5 DEF BlocksInv, TransferInv
<1>6. CASE rx' = [rx EXCEPT !.pc = "recv", !.block = @ + 1, !.got = 0, !.from = 0] /\ ~ReceivedLast
  <2>1. /\ rx'.pc = "recv" /\ rx'.block = rx.block + 1 /\ rx'.slot = rx.slot /\ rx'.sess = rx.sess
        /\ rx.block # FileBlocks(rx.from)
    BY <1>2, <1>4, <1>6 DEF ReceivedLast, IsLast
  <2>2. ASSUME NEW k \in 1 .. rx.block PROVE Stored(k)'
    <3>1. CASE k = rx.block
      BY <1>0, <1>1, <1>2, <2>1, <3>1, OwnContent DEF Stored
    <3>2. CASE k # rx.block
      <4>1. k \in 1 .. rx.block - 1 /\ k \in Blocks
        BY <1>1, <3>2, BlocksAssumption DEF Blocks
      <4>2. Stored(k) /\ image'[rx.slot][k] = image[rx.slot][k]
        BY <1>0, <1>1, <3>2, <4>1 DEF BlocksInv, TransferInv
      <4> QED
        BY <1>0, <1>2, <2>1, <4>2 DEF Stored
    <3> QED
      BY <3>1, <3>2
  <2>3. ErasedFrom(rx.block, rx.block)'
    <3> SUFFICES ASSUME NEW k \in Blocks, k >= rx.block + 1,
                        \A j \in rx.block + 1 .. k : ~SectorBegins(j)
                 PROVE  image'[rx.slot][k] = Erased
      BY <2>1 DEF ErasedFrom, SectorBegins
    <3>1. k # rx.block /\ k >= rx.block
      BY <1>1 DEF Blocks
    <3> QED
      BY <1>0, <1>1, <3>1 DEF BlocksInv, TransferInv, ErasedFrom
  <2>4. rx'.block - 1 = rx.block
    BY <1>1, <2>1 DEF Blocks
  <2>5. (rx.slot \in mixed \/ rx.block <= FileBlocks(rx.sess))'
    <3>1. rx.slot \in mixed \/ rx.block + 1 <= FileBlocks(rx.sess)
      BY <1>1, <1>2, <2>1, OwnContent, FileFacts DEF Blocks
    <3>2. FileBlocks(rx.sess)' = FileBlocks(rx.sess)
      BY <1>0, <2>1 DEF FileBlocks
    <3> QED
      BY <1>0, <2>1, <3>1, <3>2
  <2>6. TransferInv'
    BY <2>1, <2>2, <2>3, <2>4, <2>5 DEF TransferInv
  <2> QED
    BY <1>3, <2>6 DEF BlocksInv
<1>7. \/ rx'.pc \notin {"recv", "store"}
      \/ rx' = [rx EXCEPT !.pc = "recv", !.block = @ + 1, !.got = 0, !.from = 0] /\ ~ReceivedLast
  <2>1. Listening.pc = "listen" /\ [Listening EXCEPT !.pc = "switch", !.slot = rx.slot].pc = "switch"
    BY DEF Listening
  <2>2. CASE StoreBlock
    BY <2>1, <2>2 DEF StoreBlock
  <2>3. CASE StoreLast
    BY <2>1, <2>3 DEF StoreLast, ReceivedAll, Abort
  <2> QED
    BY <2>2, <2>3
<1> QED
  BY <1>5, <1>6, <1>7

\* The power fails, and the block that is being programmed may be damaged.
LEMMA CrashBlocks ==
    ASSUME BootInv, BlocksInv, Crash
    PROVE  BlocksInv'
<1>1. rx'.pc = "listen"
  BY DEF Crash, LoseMemory, Listening
<1>2. image \in [Slots -> [Blocks -> Cells]]
  BY DEF BootInv, TypeInv, TypeOK, BootTypeOK
<1>3. NeverOverprinted'
  <2>1. CASE UNCHANGED image
    BY <2>1 DEF BlocksInv, NeverOverprinted
  <2>2. CASE image' = [image EXCEPT ![rx.slot] = [@ EXCEPT ![rx.block] = Damaged]]
    BY <1>2, <2>2 DEF BlocksInv, NeverOverprinted, Damaged, Overprinted
  <2> QED
    BY <2>1, <2>2 DEF Crash
<1> QED
  BY <1>1, <1>3 DEF BlocksInv, TransferInv

LEMMA NextBlocks == BootInv /\ BlocksInv /\ [Next]_vars => BlocksInv'
<1> SUFFICES ASSUME BootInv, BlocksInv, [Next]_vars PROVE BlocksInv'
  OBVIOUS
<1>1. TypeInv /\ cl'.file = cl.file
  BY PlainKeepsFile DEF BootInv
<1>2. CASE Plain
  BY <1>1, <1>2, PlainSteps, BlocksKept
<1>3. CASE ~Plain
  BY <1>1, <1>3, WriteRequestBlocks, ReceiveDataBlocks, StoreBlocks, CrashBlocks DEF Next, Server, Plain
<1> QED
  BY <1>2, <1>3

LEMMA InitBlocks == Init => BlocksInv
<1> SUFFICES ASSUME Init PROVE BlocksInv
  OBVIOUS
<1>1. rx.pc = "listen"
  BY DEF Init, OtaInit, Listening
<1>2. ASSUME NEW s \in Slots, NEW k \in Blocks
      PROVE  image[s][k] \in {Erased, OldBlock(k)}
  <2>1. image[s] \in {[i \in Blocks |-> Erased],
                     [i \in Blocks |-> IF i <= NumBlocks THEN OldBlock(i) ELSE Erased]}
    BY DEF Init, BootInit
  <2> QED
    BY <2>1
<1>3. NeverOverprinted
  BY <1>2, BlocksAssumption DEF NeverOverprinted, Erased, OldBlock, Overprinted, Blocks
<1> QED
  BY <1>1, <1>3 DEF BlocksInv, TransferInv

THEOREM BlocksInvariant == Spec => []BlocksInv
BY InitBlocks, NextBlocks, BootInvariant, PTL DEF Spec

\* tftp_receive_data never programs flash that is in use: for every size of
\* sector and file, and whatever interrupts earlier transfers.
THEOREM NeverOverprintedHolds == Spec => []NeverOverprinted
<1>1. BlocksInv => NeverOverprinted
  BY DEF BlocksInv
<1> QED
  BY <1>1, BlocksInvariant, PTL

\* During a transfer, what the server has acknowledged is in the flash: for any
\* number of sessions with files of their own, the block of some session's file,
\* and of this session's unless the transfer took a block of another file that
\* was queued before it began.
THEOREM AckedBlocksAreStored == Spec => []AckedBlocksStored
<1>1. BlocksInv => AckedBlocksStored
  BY DEF BlocksInv, TransferInv, Stored, AckedBlocksStored
<1> QED
  BY <1>1, BlocksInvariant, PTL

-----------------------------------------------------------------------------
(* Images that pass the checks although they are not whole.                *)

\* What passes the checks of the boot loader is all of one firmware, or comes
\* from a transfer that took a block of another file.
Sound(s) == Good(s) => Complete(s) \/ s \in mixed
AllSound == \A s \in Slots : Sound(s)

\* An interrupted transfer may leave parts of two images that pass the checks,
\* but only in the slot after a configured one that can be booted; and then
\* the boot loader has no reason to rewrite the configuration.
SoundInv ==
    /\ \A s \in Slots : Sound(s) \/ (ConfGood /\ s = Successor(conf.rom, conf.count) /\ s # conf.rom)
    /\ pc \in {"rewrite", "rewriteWrite"} => AllSound
    /\ rx.pc = "switch" => Complete(rx.slot) \/ rx.slot \in mixed

\* The image that passes the verification of tftp_receive_data is the session's
\* file, all of it, if every block was of that file: the code in flash is not
\* verified but has been acknowledged, the last block is verified.
LEMMA VerifiedIsComplete ==
    ASSUME BootInv, BlocksInv, StoreLast, rx.slot \notin mixed,
           NEW CONSTANT s, s = rx.slot, Verified(s)
    PROVE  /\ cl.file[rx.sess] \in {"good", "old"}
           /\ \A k \in 1 .. NumBlocks : image'[s][k] = Content(rx.sess, k)
<1>0. /\ TypeInv /\ rx.pc = "store" /\ StoreContent /\ rx.got = FileBlocks(rx.from)
      /\ rx.got = rx.block /\ Good(s)' /\ rx.block = NumBlocks /\ OwnBlock
  BY DEF BootInv, StoreLast, OnTask, BlocksInv, TransferInv, Verified, ReceivedLast, IsLast
<1>1. /\ image'[s][NumBlocks] = Content(rx.sess, NumBlocks)
      /\ \A k \in Blocks \ {NumBlocks} : image'[s][k] = image[s][k]
  BY <1>0, StoredBlock, OwnContent
<1>2. cl.file[rx.sess] \in {"good", "old"}
  <2>1. FileBlocks(rx.sess) = NumBlocks
    BY <1>0, OwnContent
  <2>2. cl.file[rx.sess] # "long"
    BY <2>1, BlocksAssumption DEF FileBlocks
  <2>3. image'[s][NumBlocks] \in {NumBlocks, OldBlock(NumBlocks)}
    <3>1. NumBlocks \in IromBlocks + 1 .. NumBlocks
      BY BlocksAssumption
    <3> QED
      BY <1>0, <3>1 DEF Good
  <2>4. cl.file[rx.sess] # "corrupt"
    BY <1>1, <2>3, BlocksAssumption DEF Content, Damaged, OldBlock
  <2>5. rx.sess \in 1 .. MaxSessions /\ cl.file \in [1 .. MaxSessions -> Files]
    <3>1. /\ rx.sess \in 0 .. MaxSessions /\ rx.sess # 0
          /\ cl.file \in [1 .. MaxSessions -> Files]
      BY <1>0 DEF TypeInv, TypeOK, SessionInv
    <3> QED
      BY <3>1, Bounds
  <2>6. cl.file[rx.sess] \in {"good", "old", "corrupt", "long"}
    BY <2>5, OtaAssumption
  <2> QED
    BY <2>2, <2>4, <2>6
<1>3. ASSUME NEW k \in 1 .. NumBlocks
      PROVE  image'[s][k] = Content(rx.sess, k)
  <2>1. CASE k = NumBlocks
    BY <1>1, <2>1
  <2>2. CASE k # NumBlocks
    <3>1. k \in Blocks /\ k \in 1 .. rx.block - 1
      BY <1>0, <2>2, BlocksAssumption DEF Blocks
    <3>2. Stored(k)
      BY <1>0, <3>1 DEF BlocksInv, TransferInv
    <3> QED
      BY <1>1, <2>2, <3>1, <3>2 DEF Stored
  <2> QED
    BY <2>1, <2>2
<1> QED
  BY <1>2, <1>3

\* Steps that leave image and configuration alone, and start neither a rewrite
\* nor a switch, keep the invariant.
LEMMA SoundKept ==
    ASSUME SoundInv, UNCHANGED <<image, conf, mixed>>,
           pc' = pc \/ pc' \notin {"rewrite", "rewriteWrite"},
           rx'.pc # "switch" \/ (rx'.pc = rx.pc /\ rx'.slot = rx.slot)
    PROVE  SoundInv'
<1>1. \A s : (Good(s)' <=> Good(s)) /\ (Complete(s)' <=> Complete(s))
  BY DEF Good, Complete
<1> QED
  BY <1>1 DEF SoundInv, AllSound, Sound, ConfGood, Successor, Complete

\* Steps that write to the slot after the configured one, too.
LEMMA SoundWritten ==
    ASSUME BootInv, BootInv', SoundInv, rx.pc \in {"recv", "store"}, UNCHANGED conf,
           \A s \in Slots \ {rx.slot} : image'[s] = image[s], mixed \subseteq mixed',
           pc' \in {"running", "boot"}, rtc' = rtc \/ pc' = "running" \/ ~rtc'.temp,
           rx'.pc = "switch" => (Complete(rx.slot) \/ rx.slot \in mixed)'
    PROVE  SoundInv'
<1>1. ConfGood /\ rx.slot = Successor(conf.rom, conf.count) /\ rx.slot # conf.rom
  BY DEF BootInv, LoaderInv, ServerInv, Switching
<1>2. conf.rom \in Slots
  BY DEF BootInv, TypeInv, TypeOK, BootTypeOK
<1>3. ConfGood' /\ Successor(conf.rom, conf.count)' = Successor(conf.rom, conf.count)
  BY <1>1, <1>2, GoodKept DEF ConfGood, Successor
<1>4. \A s \in Slots \ {rx.slot} : Sound(s) => Sound(s)'
  BY DEF Sound, Good, Complete
<1>5. \A s \in Slots \ {rx.slot} : Sound(s)'
  BY <1>1, <1>4 DEF SoundInv
<1> QED
  BY <1>1, <1>3, <1>5 DEF SoundInv

\* The boot loader rewrites the configuration only if the configured slot cannot
\* be booted.
LEMMA LoaderSound ==
    ASSUME BootInv, SoundInv, Boot
    PROVE  SoundInv'
<1>0. /\ BootTypeOK /\ LoaderInv /\ UNCHANGED <<image, rx, mixed>>
      /\ rx.pc = "listen"
  BY DEF BootInv, TypeInv, TypeOK, Boot, FindImage, ReadConfig, Select, RewriteErase, RewriteWrite,
         ServerInv
<1>1. \A s : (Good(s)' <=> Good(s)) /\ (Sound(s)' <=> Sound(s))
  BY <1>0 DEF Good, Sound, Complete
<1>2. ASSUME AllSound PROVE SoundInv'
  BY <1>0, <1>1, <1>2 DEF SoundInv, AllSound
<1>3. CASE ~conf.valid \/ pc \in {"rewrite", "rewriteWrite"}
  BY <1>2, <1>3 DEF SoundInv, ConfGood, AllSound
<1>4. CASE conf.valid /\ pc \notin {"rewrite", "rewriteWrite"}
  <2>1. CASE ReadConfig
    <3>1. UNCHANGED conf /\ pc' = "select"
      BY <1>4, <2>1 DEF ReadConfig
    <3> QED
      BY <1>0, <3>1, SoundKept
  <2>2. CASE Select
    <3>1. CASE ConfGood
      <4>1. ~InvalidRom /\ Good(conf.rom) /\ (~rtc.temp => FirstRom = conf.rom)
        BY <1>0, <3>1 DEF ConfGood, InvalidRom, FirstRom, BootTypeOK, Slots
      <4>2. UNCHANGED conf /\ pc' \in {"halted", "running"}
        BY <2>2, <4>1 DEF Select, Start, Run, Halt
      <4> QED
        BY <1>0, <4>2, SoundKept
    <3>2. CASE ~ConfGood
      BY <1>2, <3>2 DEF SoundInv, AllSound
    <3> QED
      BY <3>1, <3>2
  <2> QED
    BY <1>4, <2>1, <2>2 DEF Boot, FindImage, RewriteErase, RewriteWrite
<1> QED
  BY <1>3, <1>4

\* The configuration is switched when every slot is sound: the one that was not
\* has been received again, completely.
LEMMA SwitchSound ==
    ASSUME BootInv, SoundInv, SwitchErase \/ SwitchWrite
    PROVE  SoundInv'
<1>0. LoaderInv /\ ServerInv /\ pc = "running" /\ UNCHANGED <<image, mixed>>
  BY DEF BootInv, SwitchErase, SwitchWrite, OnTask
<1>1. \A s : Sound(s)' <=> Sound(s)
  BY <1>0 DEF Good, Sound, Complete
<1>2. AllSound
  <2>1. CASE rx.pc = "switch"
    BY <1>0, <2>1 DEF SoundInv, ServerInv, AllSound, Sound
  <2>2. CASE rx.pc = "switchWrite"
    BY <1>0, <2>2 DEF SoundInv, LoaderInv, Switching, AllSound, ConfGood
  <2> QED
    BY <2>1, <2>2 DEF SwitchErase, SwitchWrite, OnTask
<1>3. rx'.pc # "switch"
  <2>1. rx \in [pc : {"listen", "recv", "store", "switch", "switchWrite"},
                sess : 0 .. MaxSessions, block : 0 .. SlotBlocks, got : 0 .. SlotBlocks,
                from : 0 .. MaxSessions, retries : 0 .. MaxRetries, slot : Slots]
    BY DEF BootInv, TypeInv, TypeOK
  <2> QED
    BY <2>1 DEF SwitchErase, SwitchWrite, LoseMemory, Listening
<1> QED
  BY <1>1, <1>2, <1>3 DEF SoundInv, AllSound

\* Receiving, storing, and the power that fails in between.
LEMMA TransferSound ==
    ASSUME BootInv, BootInv', BlocksInv, SoundInv, ReceiveData \/ StoreBlock \/ StoreLast \/ Crash
    PROVE  SoundInv'
<1>0. /\ image \in [Slots -> [Blocks -> Cells]] /\ UNCHANGED conf
      /\ rx \in [pc : {"listen", "recv", "store", "switch", "switchWrite"},
              sess : 0 .. MaxSessions, block : 0 .. SlotBlocks, got : 0 .. SlotBlocks,
              from : 0 .. MaxSessions, retries : 0 .. MaxRetries, slot : Slots]
  BY DEF BootInv, TypeInv, TypeOK, BootTypeOK, ReceiveData, StoreBlock, StoreLast, Crash, PowerFail
<1>1. CASE UNCHANGED image /\ Crash
  <2>1. rx'.pc # "switch" /\ pc' = "boot" /\ UNCHANGED mixed
    BY <1>1 DEF Crash, PowerFail, LoseMemory, Listening
  <2> QED
    BY <1>0, <1>1, <2>1, SoundKept
<1>2. CASE ReceiveData \/ (~UNCHANGED image /\ Crash)
  <2>1. /\ rx.pc \in {"recv", "store"} /\ rx'.pc # "switch"
        /\ pc' \in {"running", "boot"} /\ (rtc' = rtc \/ ~rtc'.temp)
        /\ \A s \in Slots \ {rx.slot} : image'[s] = image[s]
        /\ mixed \subseteq mixed'
    <3>1. CASE ReceiveData
      BY <1>0, <3>1 DEF ReceiveData, OnTask, Mixing
    <3>2. CASE ~UNCHANGED image /\ Crash
      BY <1>0, <3>2 DEF Crash, PowerFail, LoseMemory, Listening, OnTask, NoTemp
    <3> QED
      BY <1>2, <3>1, <3>2
  <2> QED
    BY <1>0, <2>1, SoundWritten
<1>3. CASE StoreBlock \/ StoreLast
  <2>1. /\ rx.pc = "store" /\ StoreContent /\ pc' = "running" /\ UNCHANGED <<rtc, mixed>>
    BY <1>3 DEF StoreBlock, StoreLast, OnTask
  <2>2. \A s \in Slots \ {rx.slot} : image'[s] = image[s]
    BY <2>1, StoredBlock
  <2>3. ASSUME rx'.pc = "switch" PROVE (Complete(rx.slot) \/ rx.slot \in mixed)'
    <3>1. StoreLast
      <4>1. StoreBlock => \/ rx' = [rx EXCEPT !.pc = "recv", !.block = @ + 1, !.got = 0, !.from = 0]
                          \/ rx' = Listening
        BY DEF StoreBlock
      <4>2. rx' # [rx EXCEPT !.pc = "recv", !.block = @ + 1, !.got = 0, !.from = 0]
        BY <1>0, <2>3
      <4>3. rx' # Listening
        BY <2>3 DEF Listening
      <4> QED
        BY <1>3, <4>1, <4>2, <4>3
    <3>2. PICK s \in {rx.slot} : Verified(s) /\ rx' = [Listening EXCEPT !.pc = "switch", !.slot = rx.slot]
      BY <2>3, <3>1 DEF StoreLast, Abort, ReceivedAll, Listening
    <3>3. rx'.slot = s
      BY <3>2 DEF Listening
    <3>4. CASE rx.slot \in mixed
      BY <2>1, <3>2, <3>3, <3>4
    <3>5. CASE rx.slot \notin mixed
      <4>1. /\ cl.file[rx.sess] \in {"good", "old"}
            /\ \A k \in 1 .. NumBlocks : image'[s][k] = Content(rx.sess, k)
        BY <3>1, <3>2, <3>5, VerifiedIsComplete
      <4>2. \/ \A k \in 1 .. NumBlocks : image'[s][k] = k
            \/ \A k \in 1 .. NumBlocks : image'[s][k] = OldBlock(k)
        BY <4>1 DEF Content
      <4> QED
        BY <3>3, <4>2 DEF Complete
    <3> QED
      BY <3>4, <3>5
  <2> QED
    BY <1>0, <2>1, <2>2, <2>3, SoundWritten
<1> QED
  BY <1>1, <1>2, <1>3

LEMMA NextSound == BootInv /\ BootInv' /\ BlocksInv /\ SoundInv /\ [Next]_vars => SoundInv'
<1> SUFFICES ASSUME BootInv, BootInv', BlocksInv, SoundInv, [Next]_vars PROVE SoundInv'
  OBVIOUS
<1>1. CASE Boot
  BY <1>1, LoaderSound
<1>2. CASE SwitchErase \/ SwitchWrite
  BY <1>2, SwitchSound
<1>3. CASE ReceiveData \/ StoreBlock \/ StoreLast \/ Crash
  BY <1>3, TransferSound
<1>4. CASE Plain /\ ~Boot /\ ~SwitchErase /\ ~SwitchWrite
  <2>1. UNCHANGED <<image, conf, mixed>> /\ (pc' = pc \/ pc' = "boot")
    BY <1>4 DEF Plain, Ignore, ReceiveTimeout, ReceiveDuplicate, ReceiveUnexpected, RefuseLarge,
        ReceiveFails, SwitchFails, Deliver, Client, ClientStart, ClientAck, ClientError, ClientTimeout,
        AppTempRom, SetTempRom, AppRestart, Restart, vars, bootVars
  <2>2. rx'.pc # "switch" \/ (rx'.pc = rx.pc /\ rx'.slot = rx.slot)
    <3>1. rx \in [pc : {"listen", "recv", "store", "switch", "switchWrite"},
                  sess : 0 .. MaxSessions, block : 0 .. SlotBlocks, got : 0 .. SlotBlocks,
                  from : 0 .. MaxSessions, retries : 0 .. MaxRetries, slot : Slots]
      BY DEF BootInv, TypeInv, TypeOK
    <3> QED
      BY <1>4, <3>1 DEF Plain, Ignore, ReceiveTimeout, ReceiveDuplicate, ReceiveUnexpected, RefuseLarge,
        ReceiveFails, SwitchFails, Deliver, Client, ClientStart, ClientAck, ClientError, ClientTimeout,
        AppTempRom, AppRestart, LoseMemory, Abort, Listening, vars
  <2> QED
    BY <2>1, <2>2, SoundKept
<1>5. CASE WriteRequest
  <2>1. UNCHANGED <<image, conf, pc>> /\ (rx' = rx \/ rx'.pc = "recv")
    BY <1>5 DEF WriteRequest, Transfer, bootVars
  <2>2. CASE UNCHANGED mixed
    BY <2>1, <2>2, SoundKept
  <2>3. CASE ~UNCHANGED mixed
    <3>1. rx'.pc = "recv" /\ mixed' = mixed \ {NextSlot} /\ NextSlot # conf.rom
      BY <1>5, <2>3 DEF WriteRequest, Transfer
    <3>2. pc = "running" /\ ConfGood /\ conf.rom \in Nat /\ conf.count \in Nat
      BY <1>5 DEF WriteRequest, OnTask, BootInv, LoaderInv, Switching, TypeInv, TypeOK, BootTypeOK, Slots
    <3>3. NextSlot = Successor(conf.rom, conf.count)
      BY <3>2, NextSlotIsSuccessor DEF ConfGood
    <3>4. \A s : (Good(s)' <=> Good(s)) /\ (Complete(s)' <=> Complete(s))
      BY <2>1 DEF Good, Complete
    <3>5. \A s \in Slots \ {NextSlot} : Sound(s) => Sound(s)'
      BY <3>1, <3>4 DEF Sound
    <3>6. ConfGood' /\ Successor(conf.rom, conf.count)' = Successor(conf.rom, conf.count)
      BY <2>1, <3>2, <3>4 DEF ConfGood, Successor
    <3> QED
      BY <2>1, <3>1, <3>2, <3>3, <3>5, <3>6 DEF SoundInv
  <2> QED
    BY <2>2, <2>3
<1> QED
  BY <1>1, <1>2, <1>3, <1>4, <1>5 DEF Next, Server, Plain

LEMMA InitSound == Init => SoundInv
<1> SUFFICES ASSUME Init PROVE SoundInv
  OBVIOUS
<1>1. pc = "boot" /\ rx.pc = "listen"
  BY DEF Init, BootInit, OtaInit, Listening
<1>2. ASSUME NEW s \in Slots PROVE Sound(s)
  <2>1. CASE image[s] = [k \in Blocks |-> Erased]
    <3>1. image[s][1] = Erased
      BY <2>1, BlocksAssumption DEF Blocks
    <3> QED
      BY <3>1, BlocksAssumption DEF Sound, Good, Erased, OldBlock
  <2>2. CASE image[s] = [k \in Blocks |-> IF k <= NumBlocks THEN OldBlock(k) ELSE Erased]
    BY <2>2, BlocksAssumption DEF Sound, Complete, Blocks
  <2> QED
    BY <2>1, <2>2 DEF Init, BootInit
<1> QED
  BY <1>1, <1>2 DEF SoundInv

THEOREM SoundInvariant == Spec => []SoundInv
BY InitSound, NextSound, BootInvariant, BlocksInvariant, PTL DEF Spec

\* While the application runs, the configured slot can be booted and holds all
\* of one firmware, although nobody verifies the code in flash, unless a late
\* block of another file was taken when it was received.
THEOREM ConfiguredRomComplete == Spec => []ConfiguredRomIsComplete
<1>1. BootInv /\ SoundInv => ConfiguredRomIsComplete
  <2> SUFFICES ASSUME BootInv, SoundInv, pc = "running", conf.valid
               PROVE  /\ conf.rom < conf.count /\ Good(conf.rom)
                      /\ Complete(conf.rom) \/ conf.rom \in mixed
    BY DEF ConfiguredRomIsComplete
  <2>1. ConfGood /\ conf.rom \in Slots
    BY DEF BootInv, LoaderInv, Switching, TypeInv, TypeOK, BootTypeOK
  <2> QED
    BY <2>1 DEF ConfGood, SoundInv, Sound
<1> QED
  BY <1>1, BootInvariant, SoundInvariant, PTL

\* The ACK of a file's last block is only sent when all of the file is in the
\* flash, whatever is lost, repeated or left over from earlier sessions, if the
\* transfer took no block of another file than its own.
THEOREM LastAckMeansStoredHolds == Spec => LastAckMeansStored
<1>1. BootInv /\ BlocksInv /\ [Next]_vars =>
        [\A m \in net' \ net :
            m.type = "ACK" /\ IsLast(m.sess, m.blk) /\ rx.slot \notin mixed =>
                /\ cl.file[m.sess] \in {"good", "old"}
                /\ \A k \in 1 .. NumBlocks : image'[rx.slot][k] = Content(m.sess, k)]_vars
  <2> SUFFICES ASSUME BootInv, BlocksInv, Next, NEW m \in net' \ net, m.type = "ACK",
                      m.blk = FileBlocks(m.sess), rx.slot \notin mixed
               PROVE  /\ cl.file[m.sess] \in {"good", "old"}
                      /\ \A k \in 1 .. NumBlocks : image'[rx.slot][k] = Content(m.sess, k)
    BY DEF IsLast
  <2>1. TypeInv /\ \A c : FileBlocks(c) \in 1 .. SlotBlocks
    BY FileFacts DEF BootInv
  <2>2. Error.type = "ERR" /\ \A b : Ack(b).blk = b /\ Ack(b).sess = rx.sess
    BY DEF Error, Ack, Packet
  <2>3. \A c, b : Request(c, b).type # "ACK"
    BY DEF Request, ToServer, Packet
  <2>4. rx.pc \in {"recv", "store"} => rx.block \in 1 .. SlotBlocks /\ rx.block <= FileBlocks(rx.sess)
    BY <2>1, SentPackets DEF BlocksInv, TransferInv
  <2>5. CASE Boot \/ Ignore \/ ReceiveData \/ SwitchErase \/ SwitchWrite \/ SwitchFails \/ AppTempRom
             \/ AppRestart \/ Crash \/ Deliver
    BY <2>5 DEF Boot, Ignore, ReceiveData, SwitchErase, SwitchWrite, SwitchFails, AppTempRom, AppRestart,
        Crash, Deliver
  <2>6. CASE ReceiveTimeout \/ ReceiveDuplicate \/ ReceiveUnexpected \/ RefuseLarge \/ ReceiveFails
    <3>1. rx.pc \in {"recv", "store"} /\ m \in {Error, Ack(rx.block - 1)}
      BY <2>6 DEF ReceiveTimeout, ReceiveDuplicate, ReceiveUnexpected, RefuseLarge, ReceiveFails, Abort, OnTask
    <3> QED
      BY <2>1, <2>2, <2>4, <3>1
  <2>7. CASE WriteRequest
    <3>1. PICK c : m \in {[Error EXCEPT !.sess = c], [Ack(0) EXCEPT !.sess = c]}
      BY <2>7 DEF WriteRequest
    <3> QED
      BY <2>1, <3>1 DEF Error, Ack, Packet
  <2>8. CASE StoreBlock
    <3>1. m = Ack(rx.block) /\ rx.got # FileBlocks(rx.from) /\ rx.got = rx.block /\ OwnBlock
      BY <2>8 DEF StoreBlock, OnTask, BlocksInv, TransferInv, ReceivedLast, IsLast
    <3> QED
      BY <2>2, <3>1, OwnContent
  <2>9. CASE StoreLast
    <3>1. PICK s \in {rx.slot} : Verified(s) /\ m = Ack(rx.block)
      BY <2>2, <2>9 DEF StoreLast, Abort
    <3> QED
      BY <2>2, <2>9, <3>1, VerifiedIsComplete
  <2>10. CASE Client
    BY <2>3, <2>10 DEF Client, ClientStart, ClientAck, ClientError, ClientTimeout
  <2> QED
    BY <2>5, <2>6, <2>7, <2>8, <2>9, <2>10 DEF Next, Server
<1> QED
  BY <1>1, BootInvariant, BlocksInvariant, PTL DEF Spec, LastAckMeansStored

=============================================================================
