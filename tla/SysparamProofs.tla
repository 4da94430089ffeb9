--------------------------- MODULE SysparamProofs ---------------------------
(***************************************************************************)
(* Theorems about Sysparam, for every choice of its constants: the region  *)
(* that a reboot mounts, how the entries of a region lie in the flash and  *)
(* how its keys are numbered, whatever fails.                              *)
(***************************************************************************)
EXTENDS Sysparam, LeastElements, FiniteSetTheorems, TLAPS

-----------------------------------------------------------------------------
(* The operators that read a region.                                       *)

\* FirstOf answers the least element of a set of positions, or 0 if it is empty.
LEMMA FirstOfType ==
    ASSUME NEW S \in SUBSET (Nat \ {0})
    PROVE  /\ FirstOf(S) \in Nat
           /\ FirstOf(S) # 0 => FirstOf(S) \in S
           /\ \A i \in S : FirstOf(S) \in S /\ FirstOf(S) <= i
BY LeastElement DEF FirstOf

\* The entries of a region are typed.
LEMMA EntryType ==
    ASSUME TypeOK, NEW r \in Regions
    PROVE  /\ log[r] \in Seq(Entry)
           /\ DOMAIN log[r] = 1 .. Len(log[r])
           /\ Len(log[r]) \in Nat
           /\ \A i \in DOMAIN log[r] : log[r][i] \in Entry /\ log[r][i] \in EntryRecord
<1>1. log \in [Regions -> Seq(Entry)]
  BY DEF TypeOK
<1>2. Entry \subseteq EntryRecord
  BY DEF Entry
<1> QED
  BY <1>1, <1>2

\* What the scans of a region answer.
LEMMA ScanType ==
    ASSUME TypeOK, NEW r \in Regions
    PROVE  /\ ScanEnd(r) \in Nat
           /\ LiveKeys(r) \in SUBSET (1 .. Len(log[r]))
           /\ LiveValues(r) \in SUBSET (1 .. Len(log[r]))
           /\ \A i \in LiveKeys(r) : log[r][i].data \in Keys /\ log[r][i].id \in Nat
           /\ \A i \in LiveValues(r) : log[r][i].data \in Values /\ log[r][i].id \in Nat
           /\ TornTail(r) \in BOOLEAN
<1> USE EntryType
<1>1. ScanEnd(r) \in Nat
  <2>1. CASE log[r] = <<>>
    BY <2>1 DEF ScanEnd, HdrSize
  <2>2. CASE log[r] # <<>>
    <3>1. Len(log[r]) \in 1 .. Len(log[r])
      BY <2>2
    <3>2. LastOf(log[r]) \in EntryRecord
      BY <3>1 DEF LastOf
    <3> QED
      BY <2>2, <3>2 DEF ScanEnd, EntryRecord
  <2> QED
    BY <2>1, <2>2
<1>2. \A i \in LiveKeys(r) : log[r][i].data \in Keys /\ log[r][i].id \in Nat
  BY DEF LiveKeys, Entry, EntryRecord
<1>3. \A i \in LiveValues(r) : log[r][i].data \in Values /\ log[r][i].id \in Nat
  BY DEF LiveValues, Entry, EntryRecord
<1> QED
  BY <1>1, <1>2, <1>3 DEF LiveKeys, LiveValues, TornTail

\* A key or a value that is found has a position in the log.
LEMMA FindType ==
    ASSUME TypeOK, NEW r \in Regions
    PROVE  /\ \A k \in Keys : FindKey(r, k) \in {0} \cup LiveKeys(r)
           /\ \A i \in LiveKeys(r) : FindValue(r, i) \in {0} \cup LiveValues(r)
<1>1. ASSUME NEW k \in Keys PROVE FindKey(r, k) \in {0} \cup LiveKeys(r)
  <2> DEFINE S == {i \in LiveKeys(r) : log[r][i].data = k}
  <2>1. S \in SUBSET (Nat \ {0}) /\ S \subseteq LiveKeys(r)
    BY ScanType, EntryType
  <2>2. FirstOf(S) # 0 => FirstOf(S) \in S
    BY <2>1, FirstOfType
  <2> QED
    BY <2>1, <2>2 DEF FindKey
<1>2. ASSUME NEW i \in LiveKeys(r) PROVE FindValue(r, i) \in {0} \cup LiveValues(r)
  <2> DEFINE S == {j \in LiveValues(r) : j > i /\ log[r][j].id = log[r][i].id}
  <2>1. S \in SUBSET (Nat \ {0}) /\ S \subseteq LiveValues(r)
    BY ScanType, EntryType
  <2>2. FirstOf(S) # 0 => FirstOf(S) \in S
    BY <2>1, FirstOfType
  <2> QED
    BY <2>1, <2>2 DEF FindValue
<1> QED
  BY <1>1, <1>2

\* A lookup answers a value, or Nil; the largest id is a natural number.
LEMMA LookupType ==
    ASSUME TypeOK, NEW r \in Regions
    PROVE  /\ \A k \in Keys : Lookup(r, k) \in Values \cup {Nil}
           /\ MaxIdOf(r) \in Nat
<1>1. ASSUME NEW k \in Keys PROVE Lookup(r, k) \in Values \cup {Nil}
  <2>1. CASE FindKey(r, k) = 0
    BY <2>1 DEF Lookup
  <2>2. CASE FindKey(r, k) \in LiveKeys(r)
    <3> DEFINE j == FindValue(r, FindKey(r, k))
    <3>1. j \in {0} \cup LiveValues(r)
      BY <2>2, FindType
    <3>2. FindKey(r, k) # 0
      BY <2>2, ScanType
    <3>3. Lookup(r, k) = IF j = 0 THEN Nil ELSE log[r][j].data
      BY <3>2 DEF Lookup
    <3> QED
      BY <3>1, <3>3, ScanType
  <2> QED
    BY <2>1, <2>2, FindType
<1>2. MaxIdOf(r) \in Nat
  <2>1. CASE LiveKeys(r) # {}
    <3>1. \E i \in LiveKeys(r) : \A j \in LiveKeys(r) : i >= j
      BY <2>1, ScanType, EntryType, GreatestElement
    <3> QED
      BY <2>1, <3>1, ScanType DEF MaxIdOf
  <2> QED
    BY <2>1 DEF MaxIdOf
<1> QED
  BY <1>1, <1>2

-----------------------------------------------------------------------------
(* Type correctness.                                                       *)

\* The states in which a set with a value is under way.
Setting == {"space", "full", "ids", "force", "write", "validateKey", "validateValue",
            "format", "copy", "retire"}

\* In those states the call has a key and a value, and a region is mounted;
\* the entry that is about to be validated is the one just written.
CallOK ==
    /\ pc \in Setting => op.key \in Keys /\ op.val \in Values
    /\ pc \in Setting \cup {"idle", "delete"} => info.base \in Regions
    /\ pc \in {"format", "copy", "retire"} => copy.then \in {"full", "force", "write"}
    /\ pc \in {"validateKey", "validateValue"} =>
          log[info.base] # <<>> /\ LastOf(log[info.base]).st = "new"

TypeInv == TypeOK /\ CallOK

\* The flash writes keep the log typed.
LEMMA WriteType ==
    ASSUME TypeOK, NEW r \in Regions
    PROVE  /\ \A e \in Entry : [log EXCEPT ![r] = Append(@, e)] \in [Regions -> Seq(Entry)]
           /\ \A e, f \in Entry : [log EXCEPT ![r] = @ \o <<e, f>>] \in [Regions -> Seq(Entry)]
           /\ [log EXCEPT ![r] = <<>>] \in [Regions -> Seq(Entry)]
BY DEF TypeOK

\* Clearing the INVALID flag of the last entry keeps the log typed.
LEMMA ValidateType ==
    ASSUME TypeOK, NEW r \in Regions, log[r] # <<>>, LastOf(log[r]).st = "new"
    PROVE  [log EXCEPT ![r][Len(log[r])].st = "live"] \in [Regions -> Seq(Entry)]
<1> DEFINE s == log[r]
           e == [s[Len(s)] EXCEPT !.st = "live"]
<1>1. s \in Seq(Entry) /\ Len(s) \in 1 .. Len(s) /\ s[Len(s)] \in Entry /\ s[Len(s)].st = "new"
  BY EntryType DEF LastOf
<1>2. e \in Entry
  BY <1>1 DEF Entry, EntryRecord
<1>3. [s EXCEPT ![Len(s)] = e] \in Seq(Entry)
  BY <1>1, <1>2
<1> HIDE DEF s
<1> QED
  BY <1>3 DEF TypeOK, s

\* Clearing the ALIVE flag of an entry keeps the log typed.
LEMMA DeleteType ==
    ASSUME TypeOK, NEW r \in Regions, NEW p \in Nat
    PROVE  [log EXCEPT ![r][p] = Deleted(log[r][p])] \in [Regions -> Seq(Entry)]
<1>1. ASSUME NEW e \in Entry PROVE Deleted(e) \in Entry
  <2>1. Deleted(e) \in EntryRecord /\ Deleted(e).st = "dead"
    BY DEF Deleted, Entry, EntryRecord
  <2> QED
    BY <2>1 DEF Entry
<1> DEFINE s == log[r]
           u == [s EXCEPT ![p] = Deleted(s[p])]
<1>2. s \in Seq(Entry) /\ DOMAIN s = 1 .. Len(s) /\ Len(s) \in Nat
  BY EntryType
<1>3. \A i \in 1 .. Len(s) : u[i] \in Entry
  BY <1>1, <1>2, EntryType
<1>4. u \in [1 .. Len(s) -> Entry]
  BY <1>2, <1>3
<1>5. u \in Seq(Entry)
  <2> HIDE DEF u
  <2> QED
    BY <1>2, <1>4
<1>6. ASSUME NEW t \in Seq(Entry) PROVE [log EXCEPT ![r] = t] \in [Regions -> Seq(Entry)]
  BY DEF TypeOK
<1>7. [log EXCEPT ![r] = u] \in [Regions -> Seq(Entry)]
  <2> HIDE DEF u
  <2> QED
    BY <1>5, <1>6
<1> QED
  BY <1>7

\* The entries the code writes are entries.
LEMMA NewEntryType ==
    ASSUME NEW addr \in Nat, NEW id \in Nat, NEW st \in {"new", "live"}
    PROVE  /\ \A k \in Keys : KeyEntry(addr, id, k, st) \in Entry
           /\ \A v \in Values : ValueEntry(addr, id, v, st) \in Entry
           /\ PadEntry(addr) \in Entry
           /\ TornEntry(addr) \in Entry
           /\ \A k \in Keys : EntrySize(KeyLen[k]) \in Nat
           /\ \A v \in Values : EntrySize(ValLen[v]) \in Nat
BY LenAssumption, RegionAssumption
   DEF KeyEntry, ValueEntry, PadEntry, TornEntry, Entry, EntryRecord, EntrySize

\* end_addr moves on by the size of an entry.
LEMMA AdvanceType ==
    ASSUME NEW i \in [base : Regions \cup {NoRegion}, end : Nat, force : BOOLEAN, left : Nat],
           NEW n \in Nat
    PROVE  LET j == [i EXCEPT !.end = @ + n, !.left = 0]
           IN  /\ j \in [base : Regions \cup {NoRegion}, end : Nat, force : BOOLEAN, left : Nat]
               /\ j.base = i.base /\ j.end = i.end + n /\ j.left = 0
<1> DEFINE k == [i EXCEPT !.end = @ + n]
           j == [k EXCEPT !.left = 0]
<1>1. /\ k \in [base : Regions \cup {NoRegion}, end : Nat, force : BOOLEAN, left : Nat]
      /\ k.base = i.base /\ k.end = i.end + n
  OBVIOUS
<1>2. j = [i EXCEPT !.end = @ + n, !.left = 0]
  OBVIOUS
<1> HIDE DEF k
<1>3. /\ j \in [base : Regions \cup {NoRegion}, end : Nat, force : BOOLEAN, left : Nat]
      /\ j.base = i.base /\ j.end = i.end + n /\ j.left = 0
  BY <1>1
<1> HIDE DEF j
<1> QED
  BY <1>2, <1>3

\* A left-over header becomes an entry of the log.
LEMMA SealedType ==
    ASSUME TypeOK, NEW s \in Nat
    PROVE  /\ LeftEntry(info.end, s) \in Entry
           /\ Sealed(s) \in [Regions -> Seq(Entry)]
<1>1. LeftEntry(info.end, s) \in Entry
  BY DEF LeftEntry, PadEntry, Entry, EntryRecord, EntrySize, TypeOK
<1>2. CASE info.base \in Regions
  BY <1>1, <1>2, WriteType DEF Sealed, TypeOK
<1>3. CASE info.base \notin Regions
  <2>1. log \in [Regions -> Seq(Entry)]
    BY DEF TypeOK
  <2> DEFINE t == Append(log[info.base], LeftEntry(info.end, s))
  <2>2. [log EXCEPT ![info.base] = t] = log
    <3> HIDE DEF t
    <3> QED
      BY <1>3, <2>1
  <2>3. Sealed(s) = IF info.left = 0 THEN log ELSE [log EXCEPT ![info.base] = t]
    BY DEF Sealed
  <2>4. Sealed(s) = log
    <3> HIDE DEF t
    <3> QED
      BY <2>2, <2>3
  <2> QED
    BY <1>1, <2>1, <2>4
<1> QED
  BY <1>1, <1>2, <1>3

\* The types hold of a blank flash before the first boot.
LEMMA TypeInit == Init => TypeInv
BY FaultAssumption
   DEF Init, TypeInv, TypeOK, CallOK, Setting, Headers, Regions, NoRegion, PcStates, BootStates,
       NoInfo, NoOp, NoOld, NoCopy

\* The boot code keeps the types.
LEMMA TypeBoot == TypeInv /\ Boot => TypeInv'
<1> SUFFICES ASSUME TypeInv, Boot PROVE TypeInv'
  OBVIOUS
<1> USE DEF TypeInv, CallOK, Setting, PcStates, BootStates, Headers, Regions, NoRegion
<1>1. Header0 \in Regions /\ Other(Header0) \in Regions
  BY DEF Header0, Other
<1>2. \A r \in Regions : /\ [hdr EXCEPT ![r] = "blank"] \in [Regions -> Headers]
                          /\ [hdr EXCEPT ![r] = "active"] \in [Regions -> Headers]
                          /\ [hdr EXCEPT ![r] = "stale"] \in [Regions -> Headers]
  BY DEF TypeOK
<1>3. ASSUME NEW r \in Regions, Mount(r), UNCHANGED <<log, call, bounds>>,
             hdr' \in [Regions -> Headers]
      PROVE  TypeInv'
  BY <1>3, ScanType DEF Mount, TypeOK, call, bounds
<1>4. CASE SysparamInit
  <2>1. CASE UNCHANGED info /\ pc' \in {"scan", "recreate", "failed"}
    BY <1>4, <2>1 DEF SysparamInit, TypeOK, flash, call, bounds
  <2>2. CASE Mount(IF hdr[Header0] = "active" THEN Header0 ELSE Other(Header0))
    BY <1>1, <1>3, <1>4, <2>2 DEF SysparamInit, TypeOK, flash
  <2> QED
    BY <1>4, <2>1, <2>2 DEF SysparamInit
<1>5. CASE RecreateFormat
  BY <1>1, <1>2, <1>5, WriteType DEF RecreateFormat, Format, TypeOK, call, bounds
<1>6. CASE RecreateHeader
  BY <1>1, <1>2, <1>3, <1>6 DEF RecreateHeader
<1>7. CASE CreateScan
  BY <1>7 DEF CreateScan, TypeOK, flash, call, bounds
<1>8. CASE CreateFormat
  <2>1. PICK r \in Regions : Format(r) /\ pc' \in {"create1", "createHeader0"}
    BY <1>8 DEF CreateFormat
  <2> QED
    BY <1>2, <1>8, <2>1, WriteType DEF CreateFormat, Format, TypeOK, call, bounds
<1>9. CASE CreateHeader
  BY <1>2, <1>9 DEF CreateHeader, TypeOK, call, bounds
<1> QED
  BY <1>4, <1>5, <1>6, <1>7, <1>8, <1>9 DEF Boot

\* The call and its checks, which write nothing, keep the types.
LEMMA TypeCall == TypeInv /\ (Call \/ Check \/ Reformat) => TypeInv'
<1> USE DEF TypeInv, CallOK, Setting, PcStates, BootStates, Finish, StartCompaction
<1>1. ASSUME TypeInv, NEW k \in Keys, NEW v \in Values \cup {Nil}, SetData(k, v)
      PROVE  TypeInv'
  <2> DEFINE r == info.base
             i == FindKey(r, k)
             j == IF i = 0 THEN 0 ELSE FindValue(r, i)
  <2>1. r \in Regions
    BY <1>1 DEF SetData
  <2>2. i \in {0} \cup LiveKeys(r) /\ j \in {0} \cup LiveValues(r) /\ j \in Nat
    BY <1>1, <2>1, FindType, ScanType, EntryType
  <2>3. op' \in [key : Keys \cup {Nil}, val : Values \cup {Nil},
                 prev : Values \cup {Nil}, clean : BOOLEAN]
    <3>1. Lookup(r, k) \in Values \cup {Nil} /\ CleanKey(r, k) \in BOOLEAN
      BY <1>1, <2>1, LookupType DEF CleanKey
    <3> QED
      BY <1>1, <3>1 DEF SetData
  <2>4. keyId' \in Nat /\ old' \in [region : Regions, pos : Nat]
    BY <1>1, <2>1, <2>2, ScanType DEF SetData
  <2>5. /\ pc' \in {"return", "delete", "space"}
        /\ pc' = "space" => op'.key \in Keys /\ op'.val \in Values
        /\ ret' \in {ret, "NOTFOUND", "OK"}
        /\ UNCHANGED <<hdr, log, info, copy, crashes, faults>>
    BY <1>1 DEF SetData, flash, bounds
  <2> QED
    BY <1>1, <2>1, <2>3, <2>4, <2>5 DEF TypeOK
<1>2. ASSUME TypeInv, NEW k \in Keys, NEW v \in Values \cup {Nil},
             SetNoInit(k, v) \/ SetFails(k, v)
      PROVE  TypeInv'
  <2>1. op' \in [key : Keys \cup {Nil}, val : Values \cup {Nil},
                 prev : Values \cup {Nil}, clean : BOOLEAN]
    BY <1>2 DEF SetNoInit, SetFails, NoOp
  <2>2. crashes' \in 0 .. MaxCrashes /\ faults' \in 0 .. MaxFaults
    BY <1>2, FaultAssumption DEF SetNoInit, SetFails, Fault, TypeOK, bounds
  <2>3. pc' = "return" /\ ret' \in {"ERR_NOINIT", "ERR_NOMEM"}
        /\ UNCHANGED <<hdr, log, info, keyId, old, copy>>
    BY <1>2 DEF SetNoInit, SetFails, flash
  <2> QED
    BY <1>2, <2>1, <2>2, <2>3 DEF TypeOK
<1>3. ASSUME TypeInv, CheckSpace PROVE TypeInv'
  <2>1. info' \in [base : Regions \cup {NoRegion}, end : Nat, force : BOOLEAN, left : Nat]
        /\ info'.base = info.base
    BY <1>3 DEF CheckSpace, TypeOK
  <2>2. /\ pc' \in {"ids", "format", "return"}
        /\ pc' # "format" => UNCHANGED copy
        /\ pc' = "format" => copy' = [pos |-> 0, id |-> 0, then |-> "full"]
        /\ ret' \in {ret, "ERR_FULL"}
        /\ UNCHANGED <<hdr, log, op, keyId, old, crashes, faults>>
    BY <1>3 DEF CheckSpace, flash, bounds
  <2>3. pc = "space"
    BY <1>3 DEF CheckSpace
  <2> QED
    BY <1>3, <2>1, <2>2, <2>3 DEF TypeOK
<1>4. ASSUME TypeInv, CheckFull \/ CheckIds \/ CheckForce PROVE TypeInv'
  BY <1>4 DEF CheckFull, CheckIds, CheckForce, TypeOK, flash, bounds
<1>5. ASSUME TypeInv, Reformat PROVE TypeInv'
  <2>1. log' \in [Regions -> Seq(Entry)]
    BY <1>5, SealedType DEF Reformat, TypeOK
  <2> QED
    BY <1>5, <2>1 DEF Reformat, NoInfo, NoRegion, TypeOK, call, bounds
<1> QED
  BY <1>1, <1>2, <1>3, <1>4, <1>5 DEF Call, Check

\* A compaction keeps the types.
LEMMA TypeCompact == TypeInv /\ Compact => TypeInv'
<1> USE DEF TypeInv, CallOK, Setting, PcStates, BootStates
<1>1. ASSUME TypeInv, Compact PROVE info.base \in Regions /\ Other(info.base) \in Regions
  <2>1. pc \in {"format", "copy", "retire"}
    BY <1>1 DEF Compact, CompactFormat, CompactCopy, CompactActivate, CompactRetire
  <2> QED
    BY <1>1, <2>1 DEF Regions, Other
<1>2. ASSUME TypeInv, CompactFormat PROVE TypeInv'
  <2>1. Other(info.base) \in Regions
    BY <1>1, <1>2 DEF Compact
  <2>2. /\ hdr' \in [Regions -> Headers]
        /\ log' \in [Regions -> Seq(Entry)]
    BY <1>2, <2>1, WriteType DEF CompactFormat, Format, TypeOK, Headers
  <2>3. pc = "format" /\ pc' = "copy" /\ UNCHANGED <<info, op, keyId, old, copy, ret, crashes, faults>>
    BY <1>2 DEF CompactFormat, call, bounds
  <2> QED
    BY <1>2, <2>2, <2>3 DEF TypeOK
<1>3. ASSUME TypeInv, CompactCopy PROVE TypeInv'
  <2> DEFINE r == info.base
             new == Other(r)
             i == FirstOf(RemainingPairs)
             id == copy.id + 1
             key == KeyEntry(ScanEnd(new), id, log[r][i].data, "live")
             val == ValueEntry(key.addr + key.size, id, log[r][FindValue(r, i)].data, "live")
  <2>1. r \in Regions /\ new \in Regions /\ pc = "copy"
    BY <1>1, <1>3 DEF Compact, CompactCopy
  <2>2. i \in RemainingPairs
    <3>1. RemainingPairs \subseteq LiveKeys(r) /\ RemainingPairs # {}
      BY <1>3 DEF RemainingPairs, CompactCopy
    <3>2. LiveKeys(r) \in SUBSET (1 .. Len(log[r])) /\ Len(log[r]) \in Nat
      BY <1>3, <2>1, ScanType, EntryType
    <3>3. RemainingPairs \in SUBSET (Nat \ {0}) /\ RemainingPairs # {}
      BY <3>1, <3>2
    <3> QED
      BY <3>3, FirstOfType
  <2>3. /\ i \in LiveKeys(r) /\ i \in Nat /\ log[r][i].data \in Keys
        /\ FindValue(r, i) \in LiveValues(r)
        /\ log[r][FindValue(r, i)].data \in Values
    <3>1. i \in LiveKeys(r) /\ FindValue(r, i) # 0
      BY <2>2 DEF RemainingPairs
    <3> HIDE DEF i, r
    <3>2. FindValue(r, i) \in LiveValues(r)
      BY <1>3, <2>1, <3>1, FindType
    <3> QED
      BY <1>3, <2>1, <3>1, <3>2, ScanType, EntryType
  <2>4. id \in Nat /\ ScanEnd(new) \in Nat
    BY <1>3, <2>1, ScanType DEF TypeOK
  <2>5. key \in Entry /\ key.addr + key.size \in Nat
    <3>1. key \in Entry
      BY <2>3, <2>4, NewEntryType
    <3> HIDE DEF key
    <3> QED
      BY <3>1 DEF Entry, EntryRecord
  <2>6. val \in Entry
    BY <2>3, <2>4, <2>5, NewEntryType
  <2>7. copy' = [copy EXCEPT !.pos = i, !.id = id]
        /\ UNCHANGED <<hdr, info, pc, op, old, ret, crashes, faults>>
    BY <1>3 DEF CompactCopy, bounds
  <2>8. /\ keyId' \in {keyId, id}
        /\ \/ log' = [log EXCEPT ![new] = Append(@, key)]
           \/ log' = [log EXCEPT ![new] = @ \o <<key, val>>]
    BY <1>3 DEF CompactCopy
  <2> HIDE DEF i, id, key, val, new, r
  <2>9. log' \in [Regions -> Seq(Entry)]
    <3>1. [log EXCEPT ![new] = Append(@, key)] \in [Regions -> Seq(Entry)]
      BY <1>3, <2>1, <2>5, WriteType
    <3>2. [log EXCEPT ![new] = @ \o <<key, val>>] \in [Regions -> Seq(Entry)]
      BY <1>3, <2>1, <2>5, <2>6, WriteType
    <3> QED
      BY <2>8, <3>1, <3>2
  <2>10. keyId' \in Nat
    BY <1>3, <2>4, <2>8 DEF TypeOK
  <2> QED
    BY <1>3, <2>1, <2>3, <2>4, <2>7, <2>9, <2>10 DEF TypeOK, r
<1>4. ASSUME TypeInv, CompactActivate PROVE TypeInv'
  BY <1>1, <1>4 DEF Compact, CompactActivate, TypeOK, Headers, call, bounds
<1>5. ASSUME TypeInv, CompactRetire PROVE TypeInv'
  <2>1. Other(info.base) \in Regions /\ ScanEnd(Other(info.base)) \in Nat
    BY <1>1, <1>5, ScanType DEF Compact
  <2>2. hdr' \in [Regions -> Headers]
    BY <1>5 DEF CompactRetire, TypeOK, Headers
  <2>3. /\ info'.base \in Regions
        /\ info' \in [base : Regions \cup {NoRegion}, end : Nat, force : BOOLEAN, left : Nat]
    BY <1>5, <2>1 DEF CompactRetire
  <2>4. pc' \in {"full", "force", "write"} /\ pc = "retire"
    BY <1>5 DEF CompactRetire
  <2>5. old' \in {old, NoOld} /\ copy' = NoCopy
        /\ UNCHANGED <<op, keyId, ret, crashes, faults>>
    BY <1>5 DEF CompactRetire, bounds
  <2>6. log' \in [Regions -> Seq(Entry)]
    BY <1>5, SealedType DEF CompactRetire, TypeOK
  <2> QED
    BY <1>5, <2>2, <2>3, <2>4, <2>5, <2>6 DEF TypeOK, NoOld, NoCopy, Regions
<1> QED
  BY <1>2, <1>3, <1>4, <1>5 DEF Compact

\* Zeroing a header keeps the types of the log and of the end address.
LEMMA SkipType ==
    ASSUME TypeInv, pc = "write", SkipHeader
    PROVE  /\ log' \in [Regions -> Seq(Entry)] /\ info'.base = info.base
           /\ info' \in [base : Regions \cup {NoRegion}, end : Nat, force : BOOLEAN, left : Nat]
<1>1. PadEntry(info.end) \in Entry /\ info.base \in Regions /\ TypeOK
  BY NewEntryType DEF TypeInv, TypeOK, CallOK, Setting
<1>2. log' \in [Regions -> Seq(Entry)]
  BY <1>1, WriteType DEF SkipHeader, AppendEntry
<1>3. /\ info' \in [base : Regions \cup {NoRegion}, end : Nat, force : BOOLEAN, left : Nat]
      /\ info'.base = info.base
  <2>1. Advance(1) /\ 1 \in Nat
        /\ info \in [base : Regions \cup {NoRegion}, end : Nat, force : BOOLEAN, left : Nat]
    BY <1>1 DEF SkipHeader, EntrySize, TypeOK
  <2> QED
    BY <2>1, AdvanceType DEF Advance
<1> QED
  BY <1>2, <1>3

\* What may be left over of a header has a size.
LEMMA LeftSizesType ==
    ASSUME TypeInv, pc = "write", NEW s \in LeftSizes
    PROVE  /\ s \in Nat
           /\ [info EXCEPT !.left = s] \in [base : Regions \cup {NoRegion}, end : Nat,
                                            force : BOOLEAN, left : Nat]
           /\ [info EXCEPT !.left = s].base = info.base
           /\ [info EXCEPT !.left = s].end = info.end /\ [info EXCEPT !.left = s].left = s
           /\ [info EXCEPT !.left = s].force = info.force
<1>1. op.key \in Keys /\ op.val \in Values
      /\ info \in [base : Regions \cup {NoRegion}, end : Nat, force : BOOLEAN, left : Nat]
  BY DEF TypeInv, TypeOK, CallOK, Setting
<1>2. s \in Nat
  BY <1>1, LenAssumption DEF LeftSizes, NewSize, EntrySize
<1> QED
  BY <1>1, <1>2

\* Writing, validating and deleting entries keeps the types.
LEMMA TypeWrite == TypeInv /\ Write => TypeInv'
<1> USE DEF TypeInv, CallOK, Setting, PcStates, BootStates, Finish
<1>1. ASSUME TypeInv, NEW e \in Entry, e.st = "new", info.base \in Regions, AppendEntry(e)
      PROVE  /\ log' \in [Regions -> Seq(Entry)]
             /\ log'[info.base] # <<>> /\ LastOf(log'[info.base]).st = "new"
  <2>1. log'[info.base] = Append(log[info.base], e) /\ log[info.base] \in Seq(Entry)
    BY <1>1 DEF AppendEntry, TypeOK
  <2>2. Len(log'[info.base]) = Len(log[info.base]) + 1 /\ Len(log[info.base]) \in Nat
        /\ log'[info.base][Len(log[info.base]) + 1] = e
    BY <2>1
  <2>3. log' \in [Regions -> Seq(Entry)]
    BY <1>1, WriteType DEF AppendEntry
  <2> QED
    BY <1>1, <2>2, <2>3 DEF LastOf
<1>2. ASSUME TypeInv, WriteKey PROVE TypeInv'
  <2> DEFINE id == MaxIdOf(info.base) + 1
             e == KeyEntry(info.end, id, op.key, "new")
  <2>1. pc = "write" /\ info.base \in Regions /\ op.key \in Keys /\ op.val \in Values
    BY <1>2 DEF WriteKey
  <2>2. id \in Nat /\ info.end \in Nat
    BY <1>2, <2>1, LookupType DEF TypeOK
  <2>3. e \in Entry /\ e.st = "new" /\ EntrySize(KeyLen[op.key]) \in Nat
    BY <2>1, <2>2, NewEntryType DEF KeyEntry
  <2>4. AppendEntry(e) /\ keyId' = id /\ Advance(EntrySize(KeyLen[op.key]))
        /\ pc' = "validateKey" /\ UNCHANGED <<hdr, op, old, copy, ret, crashes, faults>>
    BY <1>2 DEF WriteKey, bounds
  <2> HIDE DEF e, id
  <2>5. /\ log' \in [Regions -> Seq(Entry)]
        /\ log'[info.base] # <<>> /\ LastOf(log'[info.base]).st = "new"
    BY <1>1, <1>2, <2>1, <2>3, <2>4
  <2>6. info' \in [base : Regions \cup {NoRegion}, end : Nat, force : BOOLEAN, left : Nat]
        /\ info'.base = info.base
    BY <1>2, <2>3, <2>4, AdvanceType DEF TypeOK, Advance
  <2> QED
    BY <1>2, <2>1, <2>2, <2>4, <2>5, <2>6 DEF TypeOK
<1>3. ASSUME TypeInv, WriteValue PROVE TypeInv'
  <2> DEFINE e == ValueEntry(info.end, keyId, op.val, "new")
  <2>1. pc = "write" /\ info.base \in Regions /\ op.key \in Keys /\ op.val \in Values
    BY <1>3 DEF WriteValue
  <2>2. e \in Entry /\ e.st = "new" /\ EntrySize(ValLen[op.val]) \in Nat
    BY <1>3, <2>1, NewEntryType DEF ValueEntry, TypeOK
  <2>3. AppendEntry(e) /\ Advance(EntrySize(ValLen[op.val]))
        /\ pc' = "validateValue" /\ UNCHANGED <<hdr, op, keyId, old, copy, ret, crashes, faults>>
    BY <1>3 DEF WriteValue, call, bounds
  <2> HIDE DEF e
  <2>4. /\ log' \in [Regions -> Seq(Entry)]
        /\ log'[info.base] # <<>> /\ LastOf(log'[info.base]).st = "new"
    BY <1>1, <1>3, <2>1, <2>2, <2>3
  <2>5. info' \in [base : Regions \cup {NoRegion}, end : Nat, force : BOOLEAN, left : Nat]
        /\ info'.base = info.base
    BY <1>3, <2>2, <2>3, AdvanceType DEF TypeOK, Advance
  <2> QED
    BY <1>3, <2>1, <2>3, <2>4, <2>5 DEF TypeOK
<1>4. ASSUME TypeInv, ValidateKey \/ ValidateValue PROVE TypeInv'
  <2>1. pc \in {"validateKey", "validateValue"} /\ info.base \in Regions /\ Validate
    BY <1>4 DEF ValidateKey, ValidateValue
  <2>2. log' \in [Regions -> Seq(Entry)]
    BY <1>4, <2>1, ValidateType DEF Validate
  <2>3. pc' \in {"write", "return", "delete"} /\ ret' \in {ret, "OK"}
        /\ UNCHANGED <<hdr, info, op, keyId, old, copy, crashes, faults>>
    BY <1>4 DEF ValidateKey, ValidateValue, call, bounds
  <2> QED
    BY <1>4, <2>1, <2>2, <2>3 DEF TypeOK
<1>5. ASSUME TypeInv, DeleteOld PROVE TypeInv'
  <2>1. log' \in [Regions -> Seq(Entry)]
    BY <1>5, DeleteType DEF DeleteOld, MarkDeleted, TypeOK
  <2> QED
    BY <1>5, <2>1 DEF DeleteOld, TypeOK, bounds
<1>6. ASSUME TypeInv, Return PROVE TypeInv'
  BY <1>6 DEF Return, TypeOK, NoOp, NoOld, NoCopy, NoRegion, Regions, flash, bounds
<1>7. ASSUME TypeInv, WriteOverLeft PROVE TypeInv'
  <2>1. log' \in [Regions -> Seq(Entry)] /\ info'.base = info.base
        /\ info' \in [base : Regions \cup {NoRegion}, end : Nat, force : BOOLEAN, left : Nat]
    BY <1>7, SkipType DEF WriteOverLeft
  <2> QED
    BY <1>7, <2>1 DEF WriteOverLeft, SkipHeader, TypeOK, bounds
<1> QED
  BY <1>2, <1>3, <1>4, <1>5, <1>6, <1>7 DEF Write

\* Failed flash operations and power failures keep the types.
LEMMA TypeFail == TypeInv /\ (Fail \/ PowerLoss) => TypeInv'
<1> USE DEF TypeInv, CallOK, Setting, PcStates, BootStates, Finish
<1>1. ASSUME TypeInv, NEW kind, Fault(kind)
      PROVE  crashes' \in 0 .. MaxCrashes /\ faults' \in 0 .. MaxFaults
  BY <1>1, FaultAssumption DEF Fault, TypeOK
<1>2. ASSUME TypeInv, Reset, hdr' \in [Regions -> Headers], log' \in [Regions -> Seq(Entry)]
      PROVE  TypeInv'
  <2>1. crashes' \in 0 .. MaxCrashes /\ faults' \in 0 .. MaxFaults
    BY <1>2, FaultAssumption DEF Reset, TypeOK
  <2> QED
    BY <1>2, <2>1 DEF Reset, TypeOK, NoInfo, NoOp, NoOld, NoCopy, NoRegion, Regions
<1>3. ASSUME TypeInv, NEW e \in Entry, pc = "write", AppendEntry(e)
      PROVE  log' \in [Regions -> Seq(Entry)]
  BY <1>3, WriteType DEF AppendEntry
<1>4. ASSUME TypeInv, pc = "write" PROVE PadEntry(info.end) \in Entry /\ TornEntry(info.end) \in Entry
  BY <1>4, NewEntryType DEF TypeOK
<1>5. ASSUME TypeInv, pc \in {"recreateHeader", "createHeader0", "createHeader1", "copy"}
      PROVE  [hdr EXCEPT ![HeaderTarget] = "bad"] \in [Regions -> Headers]
  BY <1>5 DEF TypeOK, Headers
<1>6. ASSUME TypeInv, WriteHeaderFails PROVE TypeInv'
  <2>1. log' \in [Regions -> Seq(Entry)] /\ info'.base = info.base
        /\ info' \in [base : Regions \cup {NoRegion}, end : Nat, force : BOOLEAN, left : Nat]
    <3>1. CASE UNCHANGED <<log, info>>
      BY <1>6, <3>1 DEF TypeOK
    <3>2. CASE SkipHeader
      BY <1>6, <3>2, SkipType DEF WriteHeaderFails
    <3>3. CASE UNCHANGED log /\ \E s \in LeftSizes : info' = [info EXCEPT !.left = s]
      BY <1>6, <3>3, LeftSizesType DEF WriteHeaderFails, TypeOK
    <3> QED
      BY <1>6, <3>1, <3>2, <3>3 DEF WriteHeaderFails
  <2>2. crashes' \in 0 .. MaxCrashes /\ faults' \in 0 .. MaxFaults
    BY <1>1, <1>6 DEF WriteHeaderFails
  <2>3. pc = "write" /\ pc' = "return" /\ ret' \in {"ERR_IO", "ERR_NOMEM"}
        /\ UNCHANGED <<hdr, op, keyId, old, copy>>
    BY <1>6 DEF WriteHeaderFails, SkipHeader
  <2> QED
    BY <1>6, <2>1, <2>2, <2>3 DEF TypeOK
<1>7. ASSUME TypeInv, ValidateFails PROVE TypeInv'
  <2>1. log' \in [Regions -> Seq(Entry)]
    <3>1. CASE UNCHANGED log
      BY <1>7, <3>1 DEF TypeOK
    <3>2. CASE Validate
      BY <1>7, <3>2, ValidateType DEF ValidateFails, Validate
    <3> QED
      BY <1>7, <3>1, <3>2 DEF ValidateFails
  <2> QED
    BY <1>1, <1>7, <2>1 DEF ValidateFails, TypeOK
<1>8. ASSUME TypeInv, DeleteFails PROVE TypeInv'
  <2>1. log' \in [Regions -> Seq(Entry)]
    BY <1>8, DeleteType DEF DeleteFails, MarkDeleted, TypeOK
  <2> QED
    BY <1>1, <1>8, <2>1 DEF DeleteFails, TypeOK
<1>9. ASSUME TypeInv, CompactFails PROVE TypeInv'
  <2>1. Other(info.base) \in Regions
    BY <1>9 DEF CompactFails, Other, Regions
  <2>2. hdr' \in [Regions -> Headers] /\ log' \in [Regions -> Seq(Entry)]
    <3>1. CASE UNCHANGED flash
      BY <1>9, <3>1 DEF TypeOK, flash
    <3>2. CASE Format(Other(info.base))
      BY <1>9, <2>1, <3>2, WriteType DEF Format, TypeOK, Headers
    <3> QED
      BY <1>9, <3>1, <3>2 DEF CompactFails
  <2> QED
    BY <1>1, <1>9, <2>2 DEF CompactFails, TypeOK
<1>10. ASSUME TypeInv, CompactHeaderFails PROVE TypeInv'
  <2>1. hdr' \in [Regions -> Headers]
    BY <1>10 DEF CompactHeaderFails, TypeOK, Headers
  <2> QED
    BY <1>1, <1>10, <2>1 DEF CompactHeaderFails, TypeOK
<1>11. ASSUME TypeInv, BootFails PROVE TypeInv'
  <2>1. hdr' \in [Regions -> Headers] /\ log' \in [Regions -> Seq(Entry)]
    <3>1. CASE UNCHANGED flash
      BY <1>11, <3>1 DEF TypeOK, flash
    <3>2. CASE Format(HeaderTarget)
      <4>1. HeaderTarget \in Regions
        BY <1>11 DEF BootFails, HeaderTarget, Header0, Other, Regions
      <4> QED
        BY <1>11, <3>2, <4>1, WriteType DEF Format, TypeOK, Headers
    <3>3. CASE hdr' = [hdr EXCEPT ![HeaderTarget] = "bad"] /\ UNCHANGED log
               /\ pc \in {"recreateHeader", "createHeader0", "createHeader1"}
      BY <1>5, <1>11, <3>3 DEF TypeOK
    <3> QED
      BY <1>11, <3>1, <3>2, <3>3 DEF BootFails
  <2> QED
    BY <1>1, <1>11, <2>1 DEF BootFails, TypeOK, call
<1>12. ASSUME TypeInv, Crash PROVE TypeInv'
  BY <1>2, <1>12, SealedType DEF Crash, TypeOK
<1>13. ASSUME TypeInv, CrashInEntryHeader PROVE TypeInv'
  <2>1. log' \in [Regions -> Seq(Entry)]
    <3>1. CASE AppendEntry(TornEntry(info.end))
      <4>1. pc = "write" /\ TornEntry(info.end) \in Entry
        BY <1>4, <1>13 DEF CrashInEntryHeader
      <4> QED
        BY <1>3, <1>13, <3>1, <4>1
    <3>2. CASE \E n \in LeftSizes : log' = Sealed(n)
      <4>1. PICK n \in LeftSizes : log' = Sealed(n)
        BY <3>2
      <4>2. n \in Nat /\ TypeOK
        BY <1>13, LeftSizesType DEF CrashInEntryHeader
      <4> QED
        BY <4>1, <4>2, SealedType
    <3> QED
      BY <1>13, <3>1, <3>2 DEF CrashInEntryHeader
  <2> QED
    BY <1>2, <1>13, <2>1 DEF CrashInEntryHeader, TypeOK
<1>14. ASSUME TypeInv, CrashInRegionHeader PROVE TypeInv'
  <2>1. log' \in [Regions -> Seq(Entry)]
    BY <1>14, SealedType DEF CrashInRegionHeader, TypeOK
  <2> QED
    BY <1>2, <1>5, <1>14, <2>1 DEF CrashInRegionHeader, TypeOK
<1> QED
  BY <1>6, <1>7, <1>8, <1>9, <1>10, <1>11, <1>12, <1>13, <1>14 DEF Fail, PowerLoss

\* The state of the store is well typed in every reachable state, whatever the
\* keys, the values, the sizes and the failures.
THEOREM TypeCorrect == Spec => []TypeOK
<1>1. TypeInv /\ UNCHANGED vars => TypeInv'
  BY DEF TypeInv, TypeOK, CallOK, vars, flash, call, bounds
<1>2. TypeInv /\ [Next]_vars => TypeInv'
  BY <1>1, TypeBoot, TypeCall, TypeCompact, TypeWrite, TypeFail DEF Next
<1>3. TypeInv => TypeOK
  BY DEF TypeInv
<1> QED
  BY TypeInit, <1>2, <1>3, PTL DEF Spec

-----------------------------------------------------------------------------
(* The region headers.                                                     *)

\* What the code knows of the headers at each point.  A header that is no
\* longer needed is retired only after its successor is active, the region
\* that is erased is never the one in use, and two stale headers never meet.
HeaderInv ==
    /\ pc \in {"init", "scan", "failed"} \cup BootStates => ~Mounted
    /\ Mounted => hdr[info.base] = "active"
    /\ Mounted /\ pc # "retire" /\ info.base = 1 => hdr[0] # "active"
    /\ pc = "retire" => hdr[Other(info.base)] = "active"
    /\ pc \in {"recreate", "recreateHeader"} =>
          hdr[Header0] = "active" /\ ~HasMagic(Other(Header0))
    /\ pc = "create1" => hdr[0] = "blank"
    /\ pc = "createHeader0" => hdr[0] = "blank" /\ hdr[1] = "blank"
    /\ pc = "createHeader1" => hdr[0] = "active" /\ hdr[1] = "blank"
    /\ hdr[0] # "stale" \/ hdr[1] # "stale"

RecoveryInv == TypeInv /\ HeaderInv

\* A region can be mounted if and only if some header is active.
LEMMA RecoveredIff ==
    ASSUME hdr \in [Regions -> Headers], hdr[0] # "stale" \/ hdr[1] # "stale"
    PROVE  Recovered # NoRegion <=> hdr[0] = "active" \/ hdr[1] = "active"
BY DEF Recovered, Header0, HasMagic, Other, Regions, NoRegion, Headers

\* The headers of a blank flash before the first boot.
LEMMA HeaderInit == Init => HeaderInv
BY DEF Init, HeaderInv, Mounted, NoInfo, NoRegion, Regions, BootStates

\* Steps that touch neither the headers nor the mounted region.
LEMMA HeaderSame ==
    ASSUME RecoveryInv, hdr' = hdr, info'.base = info.base,
           pc' \in PcStates \ ({"init", "scan", "failed", "retire"} \cup BootStates),
           pc # "retire"
    PROVE  HeaderInv'
BY DEF RecoveryInv, HeaderInv, Mounted, BootStates, PcStates

\* sysparam_init and sysparam_create_area keep what is known of the headers.
LEMMA HeaderBoot == RecoveryInv /\ Boot => HeaderInv'
<1> SUFFICES ASSUME RecoveryInv, Boot PROVE HeaderInv'
  OBVIOUS
<1> USE DEF RecoveryInv, HeaderInv, TypeInv, Mounted, HasMagic, Header0, Other, Regions, NoRegion,
            BootStates, Headers
<1>1. hdr \in [Regions -> Headers]
  BY DEF TypeOK
<1>2. CASE SysparamInit
  BY <1>1, <1>2 DEF SysparamInit, Mount, flash
<1>3. CASE RecreateFormat
  BY <1>1, <1>3 DEF RecreateFormat, Format
<1>4. CASE RecreateHeader
  BY <1>1, <1>4 DEF RecreateHeader, Mount
<1>5. CASE CreateScan
  BY <1>1, <1>5 DEF CreateScan, LooksEmpty, flash
<1>6. CASE CreateFormat
  BY <1>1, <1>6 DEF CreateFormat, Format
<1>7. CASE CreateHeader
  BY <1>1, <1>7 DEF CreateHeader
<1> QED
  BY <1>2, <1>3, <1>4, <1>5, <1>6, <1>7 DEF Boot

\* The checks and the entry writes of sysparam_set_data touch no region header.
LEMMA HeaderCall == RecoveryInv /\ (Call \/ Check \/ Write \/ Reformat) => HeaderInv'
<1> USE DEF Finish, StartCompaction, PcStates, BootStates
<1>1. ASSUME RecoveryInv, NEW k \in Keys, NEW v \in Values \cup {Nil},
             SetData(k, v) \/ SetNoInit(k, v) \/ SetFails(k, v)
      PROVE  HeaderInv'
  BY <1>1, HeaderSame DEF SetData, SetNoInit, SetFails, flash
<1>2. ASSUME RecoveryInv, CheckSpace PROVE HeaderInv'
  <2>1. info'.base = info.base
    BY <1>2 DEF CheckSpace, RecoveryInv, TypeInv, TypeOK
  <2>2. hdr' = hdr /\ pc = "space" /\ pc' \in {"ids", "format", "return"}
    BY <1>2 DEF CheckSpace, flash
  <2> QED
    BY <1>2, <2>1, <2>2, HeaderSame
<1>3. ASSUME RecoveryInv, CheckFull \/ CheckIds \/ CheckForce PROVE HeaderInv'
  BY <1>3, HeaderSame DEF CheckFull, CheckIds, CheckForce, flash
<1>4. ASSUME RecoveryInv, WriteKey \/ WriteValue \/ WriteOverLeft PROVE HeaderInv'
  <2>1. info'.base = info.base
    BY <1>4 DEF WriteKey, WriteValue, WriteOverLeft, SkipHeader, Advance, RecoveryInv, TypeInv,
                TypeOK
  <2> QED
    BY <1>4, <2>1, HeaderSame DEF WriteKey, WriteValue, WriteOverLeft, SkipHeader
<1>5. ASSUME RecoveryInv, ValidateKey \/ ValidateValue \/ DeleteOld PROVE HeaderInv'
  BY <1>5, HeaderSame DEF ValidateKey, ValidateValue, DeleteOld
<1>6. ASSUME RecoveryInv, Return PROVE HeaderInv'
  BY <1>6 DEF Return, RecoveryInv, HeaderInv, Mounted, flash
<1>7. ASSUME RecoveryInv, Reformat PROVE HeaderInv'
  BY <1>7 DEF Reformat, RecoveryInv, HeaderInv, Mounted, NoInfo, flash
<1> QED
  BY <1>1, <1>2, <1>3, <1>4, <1>5, <1>6, <1>7 DEF Call, Check, Write

\* _compact_params erases the other region and swaps the headers in safe order.
LEMMA HeaderCompact == RecoveryInv /\ Compact => HeaderInv'
<1> SUFFICES ASSUME RecoveryInv, Compact PROVE HeaderInv'
  OBVIOUS
<1>1. /\ hdr \in [Regions -> Headers]
      /\ info.base \in Regions
      /\ pc \in {"format", "copy", "retire"}
      /\ copy.then \in {"full", "force", "write"}
  BY DEF RecoveryInv, TypeInv, TypeOK, CallOK, Setting, Compact, CompactFormat, CompactCopy,
         CompactActivate, CompactRetire
<1> USE DEF RecoveryInv, HeaderInv, Mounted, Other, Regions, NoRegion, BootStates, Headers
<1>2. CASE CompactFormat
  BY <1>1, <1>2 DEF CompactFormat, Format
<1>3. CASE CompactCopy
  BY <1>3, HeaderSame DEF CompactCopy, PcStates
<1>4. CASE CompactActivate
  BY <1>1, <1>4 DEF CompactActivate
<1>5. CASE CompactRetire
  BY <1>1, <1>5 DEF CompactRetire
<1> QED
  BY <1>2, <1>3, <1>4, <1>5 DEF Compact

\* Failed entry writes and power failures keep what is known of the headers.
LEMMA HeaderFail ==
    ASSUME "header" \notin Faults
    PROVE  RecoveryInv /\ (Fail \/ PowerLoss) => HeaderInv'
<1> SUFFICES ASSUME RecoveryInv, Fail \/ PowerLoss PROVE HeaderInv'
  OBVIOUS
<1>1. hdr \in [Regions -> Headers]
  BY DEF RecoveryInv, TypeInv, TypeOK
<1>2. CASE WriteHeaderFails
  <2>1. info'.base = info.base
    BY <1>2 DEF WriteHeaderFails, SkipHeader, Advance, RecoveryInv, TypeInv, TypeOK
  <2> QED
    BY <1>2, <2>1, HeaderSame DEF WriteHeaderFails, SkipHeader, Finish, PcStates, BootStates
<1>3. CASE ValidateFails \/ DeleteFails
  BY <1>3, HeaderSame DEF ValidateFails, DeleteFails, Finish, PcStates, BootStates
<1>4. CASE CompactFails
  <2>1. info.base \in Regions /\ pc \in {"format", "copy"}
    BY <1>4 DEF CompactFails, RecoveryInv, TypeInv, CallOK, Setting
  <2> QED
    BY <1>1, <1>4, <2>1 DEF CompactFails, Format, Finish, RecoveryInv, HeaderInv, Mounted, Other,
         Regions, NoRegion, BootStates, flash
<1>5. CASE CompactHeaderFails
  BY <1>5 DEF CompactHeaderFails, Fault
<1>6. CASE BootFails
  BY <1>1, <1>6 DEF BootFails, HeaderTarget, Format, flash, RecoveryInv, HeaderInv, Mounted,
       Header0, HasMagic,
       Other, Regions, NoRegion, BootStates, call
<1>7. ASSUME Reset, hdr'[0] # "stale" \/ hdr'[1] # "stale" PROVE HeaderInv'
  BY <1>7 DEF Reset, HeaderInv, Mounted, NoInfo, BootStates
<1>8. CASE Crash \/ CrashInEntryHeader
  BY <1>7, <1>8 DEF Crash, CrashInEntryHeader, RecoveryInv, HeaderInv, flash
<1>9. CASE CrashInRegionHeader
  BY <1>1, <1>7, <1>9 DEF CrashInRegionHeader, RecoveryInv, HeaderInv, Regions
<1> QED
  BY <1>2, <1>3, <1>4, <1>5, <1>6, <1>8, <1>9 DEF Fail, PowerLoss

\* If the writes of region headers do not fail, then every reachable state
\* satisfies the invariant, whatever else fails and wherever the power does.
LEMMA Recovery ==
    ASSUME "header" \notin Faults
    PROVE  Spec => []RecoveryInv
<1>1. Init => RecoveryInv
  BY TypeInit, HeaderInit DEF RecoveryInv
<1>2. RecoveryInv /\ UNCHANGED vars => RecoveryInv'
  BY DEF RecoveryInv, HeaderInv, TypeInv, TypeOK, CallOK, Mounted, Header0, HasMagic,
         vars, flash, call, bounds
<1>3. RecoveryInv /\ Next => TypeInv'
  BY TypeBoot, TypeCall, TypeCompact, TypeWrite, TypeFail DEF Next, RecoveryInv
<1>4. RecoveryInv /\ Next => HeaderInv'
  BY HeaderBoot, HeaderCall, HeaderCompact, HeaderFail DEF Next
<1>5. RecoveryInv /\ [Next]_vars => RecoveryInv'
  BY <1>2, <1>3, <1>4 DEF RecoveryInv
<1> QED
  BY <1>1, <1>5, PTL DEF Spec

\* A reboot mounts the region that the running code uses; only between the two
\* header writes at the end of a compaction may it be the other one.
THEOREM MountedRegionRecovered ==
    ASSUME "header" \notin Faults
    PROVE  Spec => []MountedIsRecovered
<1>1. RecoveryInv => MountedIsRecovered
  <2> SUFFICES ASSUME RecoveryInv, Mounted PROVE MountedIsRecovered
    BY DEF MountedIsRecovered
  <2>1. hdr \in [Regions -> Headers] /\ info.base \in Regions
    BY DEF RecoveryInv, TypeInv, TypeOK, Mounted
  <2> QED
    BY <2>1 DEF MountedIsRecovered, Recovered, RecoveryInv, HeaderInv, Mounted, Header0, HasMagic,
         Other, Regions, NoRegion, Headers
<1> QED
  BY <1>1, Recovery, PTL

\* Only sysparam_create_area ever takes the stored parameters out of reach:
\* neither a compaction, nor a failed write of an entry, nor a power failure
\* at any point, nor the recovery after it leaves the flash without a region
\* that sysparam_init mounts.
THEOREM ParametersStayRecoverable ==
    ASSUME "header" \notin Faults
    PROVE  Spec => StaysRecoverable
<1> DEFINE Active == hdr[0] = "active" \/ hdr[1] = "active"
           Step == Recovered # NoRegion /\ ~Creating => Recovered' # NoRegion
<1>1. RecoveryInv /\ RecoveryInv' /\ [Next]_vars => [Step]_vars
  <2> SUFFICES ASSUME RecoveryInv, RecoveryInv', Next, Recovered # NoRegion, ~Creating
               PROVE  Recovered' # NoRegion
    OBVIOUS
  <2>1. hdr \in [Regions -> Headers] /\ hdr' \in [Regions -> Headers]
    BY DEF RecoveryInv, TypeInv, TypeOK
  <2>2. Active
    BY <2>1, RecoveredIff DEF RecoveryInv, HeaderInv
  <2>3. Active'
    <3> USE DEF RecoveryInv, HeaderInv, Mounted, Creating, Regions, NoRegion, Other
    <3>1. pc \in {"format", "copy", "retire"} => info.base \in Regions
      BY DEF TypeInv, CallOK, Setting
    <3>2. CASE hdr' = hdr
      BY <2>2, <3>2
    <3>3. CASE RecreateFormat \/ RecreateHeader
      BY <2>1, <3>3 DEF RecreateFormat, RecreateHeader, Format, Header0, HasMagic
    <3>4. CASE CreateFormat \/ CreateHeader
      BY <3>4 DEF CreateFormat, CreateHeader
    <3>5. CASE CompactFormat \/ CompactFails
      BY <2>1, <3>1, <3>5 DEF CompactFormat, CompactFails, Format, flash
    <3>6. CASE CompactActivate \/ CompactRetire
      BY <2>1, <3>1, <3>6 DEF CompactActivate, CompactRetire
    <3>7. CASE CompactHeaderFails
      BY <3>7 DEF CompactHeaderFails, Fault
    <3>8. CASE BootFails
      BY <2>1, <2>2, <3>8 DEF BootFails, HeaderTarget, Format, flash, Header0, HasMagic
    <3>9. CASE CrashInRegionHeader
      BY <2>1, <3>1, <3>9 DEF CrashInRegionHeader, HeaderTarget, Header0, HasMagic
    <3> QED
      BY <3>2, <3>3, <3>4, <3>5, <3>6, <3>7, <3>8, <3>9
         DEF Next, Boot, Call, Check, Compact, Write, Fail, PowerLoss, flash,
             SysparamInit, CreateScan, SetData, SetNoInit, SetFails, CheckSpace, CheckFull,
             CheckIds, CheckForce, CompactCopy, WriteKey, WriteOverLeft, ValidateKey, WriteValue, ValidateValue,
             DeleteOld, Return, Reformat, WriteHeaderFails, ValidateFails, DeleteFails,
             Crash, CrashInEntryHeader
  <2>4. Recovered' # NoRegion
    BY <2>1, <2>3 DEF Recovered, Header0, HasMagic, Other, Regions, NoRegion, Headers
  <2> QED
    BY <2>4
<1> QED
  BY <1>1, Recovery, PTL DEF Spec, StaysRecoverable

-----------------------------------------------------------------------------
(* One region, as a sequence of entries.                                   *)

KeysOf(s) == {i \in DOMAIN s : s[i].kind = "key" /\ s[i].st = "live"}
ValuesOf(s) == {i \in DOMAIN s : s[i].kind = "value" /\ s[i].st = "live"}
TornAt(s) == s # <<>> /\ LastOf(s).kind = "torn"
EndOf(s) == IF s = <<>> THEN HdrSize
            ELSE IF TornAt(s) THEN LastOf(s).addr
            ELSE LastOf(s).addr + LastOf(s).size

\* The entries lie end to end; no two of them share a word.
Chained(s) ==
    /\ \A i \in DOMAIN s :
          /\ s[i].addr = IF i = 1 THEN HdrSize ELSE s[i-1].addr + s[i-1].size
          /\ s[i].kind = "torn" => i = Len(s)
          /\ s[i].kind # "torn" => s[i].addr + s[i].size <= RegionSize
    /\ \A i, j \in DOMAIN s : i < j => s[i].addr + s[i].size <= s[j].addr

\* An entry that is not deleted is as long as its payload, and its id is no
\* larger than MAX_KEY_ID.
Sized(s) ==
    \A i \in DOMAIN s :
        /\ s[i].id <= MaxKeyId
        /\ s[i].kind = "key" /\ s[i].st # "dead" => s[i].size = EntrySize(KeyLen[s[i].data])
        /\ s[i].kind = "value" /\ s[i].st # "dead" => s[i].size = EntrySize(ValLen[s[i].data])

\* The live keys are numbered in address order.
Numbered(s) == \A i \in KeysOf(s) : s[i].id = Cardinality({j \in KeysOf(s) : j <= i})

\* The live keys have different names.
Distinct(s) == \A i, j \in KeysOf(s) : i # j => s[i].data # s[j].data

GoodLog(s) == Chained(s) /\ Sized(s) /\ Numbered(s) /\ Distinct(s)

\* No live key of the region is named k.
Fresh(s, k) == \A i \in KeysOf(s) : s[i].data # k

-----------------------------------------------------------------------------
(* The inductive invariant.                                                *)

Compacting == pc \in {"format", "copy", "retire"}

\* The check for space has succeeded; the check for ids has succeeded.
HasRoom == \/ pc \in {"ids", "force", "write", "validateKey"}
           \/ Compacting /\ copy.then \in {"force", "write"}
HasId == pc \in {"force", "write"} \/ (Compacting /\ copy.then = "write")

\* No region is in use before sysparam_init has chosen one; then end_addr is
\* where a scan ends, a left-over header aside, which would fit; behind a torn
\* header nothing is written.
EndInv ==
    /\ pc \in {"init", "scan", "failed"} \cup BootStates => ~Mounted
    /\ Mounted => info.end = EndOf(log[info.base])
    /\ Mounted /\ TornAt(log[info.base]) => info.force
    /\ pc \in {"write", "validateKey", "validateValue"} => ~TornAt(log[info.base])
    /\ info.left # 0 => /\ Mounted /\ ~TornAt(log[info.base])
                        /\ info.end + info.left <= RegionSize
                        /\ pc \notin {"validateKey", "validateValue"}

\* What the checks at the beginning of a set establish lasts to its writes:
\* the key has no entry if it is to get one, there is room for the entries,
\* there is an id, and the old value is still there.
CallInv ==
    /\ pc \in Setting => keyId <= MaxKeyId
    /\ pc \in Setting /\ keyId = 0 => Fresh(log[info.base], op.key)
    /\ pc \in Setting \cup {"delete"} /\ old.pos # 0 => old.pos \in ValuesOf(log[old.region])
    /\ pc \in Setting \ {"write", "validateKey", "validateValue"} /\ old.pos # 0 =>
          old.region = info.base
    /\ HasRoom => info.end + Needed <= RegionSize
    /\ HasId /\ keyId = 0 => Cardinality(KeysOf(log[info.base])) < MaxKeyId
    /\ Compacting /\ copy.then = "force" /\ keyId = 0 =>
          Cardinality(ValuesOf(log[info.base])) < MaxKeyId

\* The entry that is about to be validated.
LastInv ==
    /\ pc = "validateKey" =>
          LET s == log[info.base]
          IN  /\ LastOf(s).kind = "key"
              /\ LastOf(s).id = Cardinality(KeysOf(s)) + 1
              /\ LastOf(s).id = keyId
              /\ Fresh(s, LastOf(s).data)
    /\ pc = "validateValue" => LastOf(log[info.base]).kind = "value"

\* The keys of s that compacting has copied when it is at position p, their
\* values, and the words that those pairs take in s.
FindValueOf(s, i) == FirstOf({j \in ValuesOf(s) : j > i /\ s[j].id = s[i].id})
CopiedKeys(s, p) == {i \in KeysOf(s) : i <= p /\ FindValueOf(s, i) # 0}
CopiedValues(s, p) == {FindValueOf(s, i) : i \in CopiedKeys(s, p)}
WordsOf(s, T) == {x \in 0 .. RegionSize : \E i \in T : s[i].addr <= x /\ x < s[i].addr + s[i].size}

\* Between two steps of _compact_params the new region holds a key for every
\* pair delivered so far, and no more words than those pairs.
CopyInv ==
    /\ pc = "format" => copy.pos = 0 /\ copy.id = 0
    /\ pc \in {"copy", "retire"} =>
          LET s == log[info.base]
              t == log[Other(info.base)]
          IN  /\ ~TornAt(t)
              /\ Cardinality(KeysOf(t)) = copy.id
              /\ Cardinality(CopiedKeys(s, copy.pos)) = copy.id
              /\ Cardinality(CopiedValues(s, copy.pos)) = copy.id
              /\ \A j \in KeysOf(t) : \E i \in KeysOf(s) : i <= copy.pos /\ t[j].data = s[i].data
              /\ EndOf(t) <= HdrSize + Cardinality(WordsOf(s, CopiedKeys(s, copy.pos)))
                                     + Cardinality(WordsOf(s, CopiedValues(s, copy.pos)))

LogInv ==
    /\ TypeInv
    /\ \A r \in Regions : GoodLog(log[r])
    /\ EndInv
    /\ CallInv
    /\ LastInv
    /\ CopyInv

-----------------------------------------------------------------------------
(* Lemmas about one region.                                                *)

\* The reads of a region, as functions of its entries.
LEMMA ReadsOf ==
    ASSUME NEW r
    PROVE  /\ LiveKeys(r) = KeysOf(log[r])
           /\ LiveValues(r) = ValuesOf(log[r])
           /\ TornTail(r) = TornAt(log[r])
           /\ ScanEnd(r) = EndOf(log[r])
           /\ \A i : FindValue(r, i) = FindValueOf(log[r], i)
BY DEF LiveKeys, KeysOf, LiveValues, ValuesOf, TornTail, TornAt, ScanEnd, EndOf, FindValue,
       FindValueOf

\* Positions and fields of entries.
LEMMA SeqFacts ==
    ASSUME NEW s \in Seq(Entry)
    PROVE  /\ Len(s) \in Nat /\ DOMAIN s = 1 .. Len(s)
           /\ s # <<>> <=> Len(s) >= 1
           /\ \A i \in DOMAIN s : /\ s[i] \in Entry /\ s[i] \in EntryRecord
                                  /\ s[i].addr \in Nat /\ s[i].size \in Nat /\ s[i].id \in Nat
           /\ KeysOf(s) \subseteq 1 .. Len(s)
           /\ ValuesOf(s) \subseteq 1 .. Len(s)
<1>1. \A e \in Entry : e \in EntryRecord /\ e.addr \in Nat /\ e.size \in Nat /\ e.id \in Nat
  BY DEF Entry, EntryRecord
<1>2. Len(s) \in Nat /\ DOMAIN s = 1 .. Len(s) /\ \A i \in DOMAIN s : s[i] \in Entry
  OBVIOUS
<1>3. s # <<>> <=> Len(s) >= 1
  OBVIOUS
<1> QED
  BY <1>1, <1>2, <1>3 DEF KeysOf, ValuesOf

\* The live keys and the live values are finite sets.
LEMMA CountKeys ==
    ASSUME NEW s \in Seq(Entry)
    PROVE  /\ IsFiniteSet(KeysOf(s)) /\ Cardinality(KeysOf(s)) \in Nat
           /\ IsFiniteSet(ValuesOf(s)) /\ Cardinality(ValuesOf(s)) \in Nat
<1>1. IsFiniteSet(1 .. Len(s))
  <2>1. 1 \in Int /\ Len(s) \in Int
    BY SeqFacts
  <2> QED
    BY <2>1, FS_Interval
<1>2. KeysOf(s) \in SUBSET (1 .. Len(s)) /\ ValuesOf(s) \in SUBSET (1 .. Len(s))
  BY SeqFacts
<1>3. IsFiniteSet(KeysOf(s)) /\ IsFiniteSet(ValuesOf(s))
  BY <1>1, <1>2, FS_Subset
<1> QED
  BY <1>3, FS_CardinalityType

\* The end of the log lies in the region and behind every whole entry.
LEMMA EndBound ==
    ASSUME NEW s \in Seq(Entry), Chained(s)
    PROVE  /\ EndOf(s) \in Nat /\ HdrSize <= EndOf(s) /\ EndOf(s) <= RegionSize
           /\ \A i \in DOMAIN s : /\ HdrSize <= s[i].addr
                                  /\ s[i].kind # "torn" => s[i].addr + s[i].size <= EndOf(s)
                                  /\ i # Len(s) => s[i].addr + s[i].size <= s[Len(s)].addr
<1> DEFINE n == Len(s)
<1>1. CASE s = <<>>
  BY <1>1, RegionAssumption DEF EndOf, HdrSize
<1>2. CASE s # <<>>
  <2>1. n \in Nat /\ n >= 1 /\ DOMAIN s = 1 .. n /\ n \in DOMAIN s /\ 1 \in DOMAIN s
    BY <1>2, SeqFacts
  <2>2. \A i \in DOMAIN s : s[i].addr \in Nat /\ s[i].size \in Nat
    BY SeqFacts
  <2>3. \A i \in DOMAIN s : i # n => i < n
    BY <2>1
  <2>4. \A i \in DOMAIN s : i # n => s[i].addr + s[i].size <= s[n].addr
    BY <2>1, <2>3 DEF Chained
  <2>5. s[1].addr = HdrSize
    BY <2>1 DEF Chained
  <2>6. \A i \in DOMAIN s : i # 1 => s[1].addr + s[1].size <= s[i].addr
    BY <2>1 DEF Chained
  <2>7. \A i \in DOMAIN s : HdrSize <= s[i].addr
    BY <2>1, <2>2, <2>5, <2>6 DEF HdrSize
  <2>8. EndOf(s) = IF s[n].kind = "torn" THEN s[n].addr ELSE s[n].addr + s[n].size
    BY <1>2 DEF EndOf, TornAt, LastOf
  <2>9. s[n].addr <= RegionSize
    <3>1. CASE n = 1
      BY <2>5, <3>1, RegionAssumption DEF HdrSize
    <3>2. CASE n # 1
      <4>1. n - 1 \in DOMAIN s /\ s[n].addr = s[n-1].addr + s[n-1].size
        BY <2>1, <3>2 DEF Chained
      <4>2. s[n-1].kind # "torn"
        BY <2>1, <4>1 DEF Chained
      <4> QED
        BY <4>1, <4>2 DEF Chained
    <3> QED
      BY <3>1, <3>2
  <2>10. EndOf(s) <= RegionSize
    BY <2>1, <2>8, <2>9 DEF Chained
  <2>11. EndOf(s) \in Nat /\ s[n].addr <= EndOf(s)
    BY <2>1, <2>2, <2>8
  <2>12. HdrSize <= EndOf(s)
    BY <2>1, <2>2, <2>7, <2>11 DEF HdrSize
  <2>13. \A i \in DOMAIN s : s[i].kind # "torn" => s[i].addr + s[i].size <= EndOf(s)
    BY <2>1, <2>2, <2>4, <2>8, <2>11
  <2> QED
    BY <2>4, <2>7, <2>10, <2>11, <2>12, <2>13
<1> QED
  BY <1>1, <1>2

\* An entry appended at the end of an intact log continues the chain.
LEMMA AppendChain ==
    ASSUME NEW s \in Seq(Entry), Chained(s), ~TornAt(s), NEW e \in Entry, e.addr = EndOf(s),
           e.kind = "torn" \/ e.addr + e.size <= RegionSize
    PROVE  /\ Chained(Append(s, e))
           /\ TornAt(Append(s, e)) <=> e.kind = "torn"
           /\ EndOf(Append(s, e)) = IF e.kind = "torn" THEN e.addr ELSE e.addr + e.size
<1> DEFINE n == Len(s)
           t == Append(s, e)
<1>1. /\ n \in Nat /\ DOMAIN s = 1 .. n
      /\ t \in Seq(Entry) /\ Len(t) = n + 1 /\ DOMAIN t = 1 .. n + 1
      /\ t[n+1] = e /\ \A i \in 1 .. n : t[i] = s[i]
      /\ t # <<>>
  OBVIOUS
<1>2. e.addr \in Nat /\ e.size \in Nat
      /\ \A i \in 1 .. n : s[i].addr \in Nat /\ s[i].size \in Nat
  BY <1>1, SeqFacts DEF Entry, EntryRecord
<1>3. LastOf(t) = e
  BY <1>1 DEF LastOf
<1>4. \A i \in 1 .. n : s[i].kind # "torn"
  BY <1>1 DEF TornAt, LastOf, Chained
<1>5. \A i \in 1 .. n : s[i].addr + s[i].size <= e.addr
  BY <1>1, <1>4, EndBound
<1>6. e.addr = IF n = 0 THEN HdrSize ELSE s[n].addr + s[n].size
  BY <1>1, SeqFacts DEF EndOf, LastOf
<1> HIDE DEF t
<1>7. \A i \in DOMAIN t : t[i].addr = IF i = 1 THEN HdrSize ELSE t[i-1].addr + t[i-1].size
  <2> SUFFICES ASSUME NEW i \in DOMAIN t
               PROVE  t[i].addr = IF i = 1 THEN HdrSize ELSE t[i-1].addr + t[i-1].size
    OBVIOUS
  <2>1. CASE i = n + 1
    <3>1. CASE n = 0
      BY <1>1, <1>6, <2>1, <3>1
    <3>2. CASE n # 0
      BY <1>1, <1>6, <2>1, <3>2
    <3> QED
      BY <3>1, <3>2
  <2>2. CASE i # n + 1
    <3>1. i \in 1 .. n /\ (i # 1 => i - 1 \in 1 .. n)
      BY <1>1, <2>2
    <3>2. s[i].addr = IF i = 1 THEN HdrSize ELSE s[i-1].addr + s[i-1].size
      BY <1>1, <3>1 DEF Chained
    <3> QED
      BY <1>1, <3>1, <3>2
  <2> QED
    BY <2>1, <2>2
<1>8. \A i \in DOMAIN t : /\ t[i].kind = "torn" => i = Len(t)
                          /\ t[i].kind # "torn" => t[i].addr + t[i].size <= RegionSize
  <2> SUFFICES ASSUME NEW i \in DOMAIN t
               PROVE  /\ t[i].kind = "torn" => i = Len(t)
                      /\ t[i].kind # "torn" => t[i].addr + t[i].size <= RegionSize
    OBVIOUS
  <2>1. CASE i = n + 1
    BY <1>1, <2>1
  <2>2. CASE i \in 1 .. n
    <3>1. s[i].addr + s[i].size <= RegionSize
      BY <1>1, <1>4, <2>2 DEF Chained
    <3> QED
      BY <1>1, <1>4, <2>2, <3>1
  <2> QED
    BY <1>1, <2>1, <2>2
<1>9. \A i, j \in DOMAIN t : i < j => t[i].addr + t[i].size <= t[j].addr
  <2> SUFFICES ASSUME NEW i \in DOMAIN t, NEW j \in DOMAIN t, i < j
               PROVE  t[i].addr + t[i].size <= t[j].addr
    OBVIOUS
  <2>1. CASE j = n + 1
    BY <1>1, <1>5, <2>1
  <2>2. CASE j # n + 1
    <3>1. i \in 1 .. n /\ j \in 1 .. n
      BY <1>1, <2>2
    <3>2. s[i].addr + s[i].size <= s[j].addr
      BY <1>1, <3>1 DEF Chained
    <3> QED
      BY <1>1, <3>1, <3>2
  <2> QED
    BY <2>1, <2>2
<1>10. Chained(t)
  BY <1>7, <1>8, <1>9 DEF Chained
<1>11. TornAt(t) <=> e.kind = "torn"
  BY <1>1, <1>3 DEF TornAt
<1>12. EndOf(t) = IF e.kind = "torn" THEN e.addr ELSE e.addr + e.size
  BY <1>1, <1>3, <1>11 DEF EndOf
<1> QED
  BY <1>10, <1>11, <1>12 DEF t

\* Entries whose place and size do not change keep the chain.
LEMMA SameChain ==
    ASSUME NEW s \in Seq(Entry), NEW t \in Seq(Entry), Len(t) = Len(s),
           \A i \in DOMAIN s : t[i].addr = s[i].addr /\ t[i].size = s[i].size
                               /\ t[i].kind = s[i].kind
    PROVE  /\ Chained(s) => Chained(t)
           /\ TornAt(t) <=> TornAt(s)
           /\ EndOf(t) = EndOf(s)
<1>1. /\ Len(s) \in Nat /\ DOMAIN s = 1 .. Len(s) /\ DOMAIN t = DOMAIN s
      /\ s = <<>> <=> t = <<>>
      /\ s # <<>> => Len(s) \in DOMAIN s
  OBVIOUS
<1>2. \A i \in DOMAIN s : i # 1 => i - 1 \in DOMAIN s
  BY <1>1
<1>3. Chained(s) => Chained(t)
  BY <1>1, <1>2 DEF Chained
<1>4. TornAt(t) <=> TornAt(s)
  BY <1>1 DEF TornAt, LastOf
<1>5. EndOf(t) = EndOf(s)
  BY <1>1, <1>4 DEF EndOf, LastOf
<1> QED
  BY <1>3, <1>4, <1>5

\* Keys that do not change keep their numbers.
LEMMA SameKeys ==
    ASSUME NEW s, NEW t, KeysOf(t) = KeysOf(s),
           \A i \in KeysOf(s) : t[i].id = s[i].id /\ t[i].data = s[i].data
    PROVE  /\ Numbered(s) => Numbered(t)
           /\ Distinct(s) => Distinct(t)
           /\ \A k : Fresh(s, k) => Fresh(t, k)
BY DEF Numbered, Distinct, Fresh

\* A key behind all others, with the next number and a name of its own.
LEMMA OneMoreKey ==
    ASSUME NEW s \in Seq(Entry), Numbered(s), Distinct(s), NEW t, NEW n \in Nat,
           KeysOf(t) = KeysOf(s) \cup {n},
           \A i \in KeysOf(s) : i < n /\ t[i].id = s[i].id /\ t[i].data = s[i].data,
           t[n].id = Cardinality(KeysOf(s)) + 1,
           Fresh(s, t[n].data)
    PROVE  /\ Numbered(t) /\ Distinct(t)
           /\ Cardinality(KeysOf(t)) = Cardinality(KeysOf(s)) + 1
<1> DEFINE K == KeysOf(s)
<1>1. K \subseteq Nat /\ IsFiniteSet(K) /\ n \notin K
  BY SeqFacts, CountKeys
<1>2. Cardinality(KeysOf(t)) = Cardinality(K) + 1
  BY <1>1, FS_AddElement
<1>3. Numbered(t)
  <2> SUFFICES ASSUME NEW i \in KeysOf(t)
               PROVE  t[i].id = Cardinality({j \in KeysOf(t) : j <= i})
    BY DEF Numbered
  <2>1. CASE i = n
    <3>1. {j \in KeysOf(t) : j <= i} = KeysOf(t)
      BY <1>1, <2>1
    <3> QED
      BY <1>2, <2>1, <3>1
  <2>2. CASE i # n
    <3>1. i \in K
      BY <2>2
    <3>2. {j \in KeysOf(t) : j <= i} = {j \in K : j <= i}
      BY <1>1, <3>1
    <3> QED
      BY <3>1, <3>2 DEF Numbered
  <2> QED
    BY <2>1, <2>2
<1>4. Distinct(t)
  BY <1>1 DEF Distinct, Fresh
<1> QED
  BY <1>2, <1>3, <1>4

\* The numbers never exceed the number of keys, and the largest is that number.
LEMMA LastNumber ==
    ASSUME NEW s \in Seq(Entry), Numbered(s)
    PROVE  /\ \A i \in KeysOf(s) : s[i].id \in 1 .. Cardinality(KeysOf(s))
           /\ \A i, j \in KeysOf(s) : i < j => s[i].id < s[j].id
           /\ \A i \in KeysOf(s) : (\A j \in KeysOf(s) : i >= j) => s[i].id = Cardinality(KeysOf(s))
<1> DEFINE K == KeysOf(s)
           Upto(i) == {j \in K : j <= i}
<1>1. IsFiniteSet(K) /\ Cardinality(K) \in Nat /\ K \subseteq Nat
  BY CountKeys, SeqFacts
<1>2. ASSUME NEW i \in K
      PROVE  /\ IsFiniteSet(Upto(i)) /\ Cardinality(Upto(i)) \in Nat
             /\ Cardinality(Upto(i)) >= 1 /\ Cardinality(Upto(i)) <= Cardinality(K)
             /\ s[i].id = Cardinality(Upto(i))
  <2>1. Upto(i) \in SUBSET K /\ i \in Upto(i)
    BY <1>1
  <2>2. IsFiniteSet(Upto(i)) /\ Cardinality(Upto(i)) <= Cardinality(K)
    BY <1>1, <2>1, FS_Subset
  <2>3. Cardinality(Upto(i)) \in Nat /\ Cardinality(Upto(i)) # 0
    BY <2>1, <2>2, FS_CardinalityType, FS_EmptySet
  <2>4. s[i].id = Cardinality(Upto(i))
    BY DEF Numbered
  <2> HIDE DEF Upto, K
  <2> QED
    BY <2>2, <2>3, <2>4
<1>3. ASSUME NEW i \in K, NEW j \in K, i < j PROVE s[i].id < s[j].id
  <2>1. Upto(i) \in SUBSET Upto(j) /\ j \in Upto(j) /\ j \notin Upto(i)
    BY <1>1, <1>3
  <2>2. Cardinality(Upto(i)) <= Cardinality(Upto(j)) /\ Cardinality(Upto(i)) # Cardinality(Upto(j))
    BY <1>2, <2>1, FS_Subset
  <2>3. /\ s[i].id = Cardinality(Upto(i)) /\ Cardinality(Upto(i)) \in Nat
        /\ s[j].id = Cardinality(Upto(j)) /\ Cardinality(Upto(j)) \in Nat
    BY <1>2
  <2> HIDE DEF Upto, K
  <2> QED
    BY <2>2, <2>3
<1>4. ASSUME NEW i \in K, \A j \in K : i >= j PROVE s[i].id = Cardinality(K)
  <2>1. Upto(i) = K
    BY <1>1, <1>4
  <2> QED
    BY <1>2, <2>1
<1>5. ASSUME NEW i \in K PROVE s[i].id \in 1 .. Cardinality(K)
  <2>1. /\ s[i].id = Cardinality(Upto(i)) /\ Cardinality(Upto(i)) \in Nat
        /\ Cardinality(Upto(i)) >= 1 /\ Cardinality(Upto(i)) <= Cardinality(K)
    BY <1>2
  <2> HIDE DEF Upto, K
  <2> QED
    BY <1>1, <2>1
<1> QED
  BY <1>3, <1>4, <1>5

\* An erased region.
LEMMA GoodEmpty ==
    /\ GoodLog(<<>>) /\ KeysOf(<<>>) = {} /\ ValuesOf(<<>>) = {}
    /\ ~TornAt(<<>>) /\ EndOf(<<>>) = HdrSize
BY DEF GoodLog, Chained, Sized, Numbered, Distinct, KeysOf, ValuesOf, TornAt, EndOf

\* What an appended entry adds to the reads of a region.
LEMMA AppendReads ==
    ASSUME NEW s \in Seq(Entry), NEW e \in Entry
    PROVE  LET t == Append(s, e)
               n == Len(s) + 1
           IN  /\ t \in Seq(Entry) /\ Len(t) = n /\ DOMAIN t = 1 .. n
               /\ t[n] = e /\ \A i \in DOMAIN s : i \in DOMAIN t /\ i # n /\ t[i] = s[i]
               /\ KeysOf(t) = IF e.kind = "key" /\ e.st = "live" THEN KeysOf(s) \cup {n}
                              ELSE KeysOf(s)
               /\ ValuesOf(t) = IF e.kind = "value" /\ e.st = "live" THEN ValuesOf(s) \cup {n}
                                ELSE ValuesOf(s)
               /\ LastOf(t) = e /\ t # <<>>
<1> DEFINE t == Append(s, e)
           n == Len(s) + 1
<1>1. /\ t \in Seq(Entry) /\ Len(t) = n /\ DOMAIN t = 1 .. n /\ n \in Nat
      /\ t[n] = e /\ \A i \in 1 .. Len(s) : i # n /\ t[i] = s[i]
      /\ t # <<>> /\ DOMAIN s = 1 .. Len(s) /\ Len(s) \in Nat
  OBVIOUS
<1> HIDE DEF t
<1>2. \A i \in DOMAIN t : i = n \/ i \in DOMAIN s
  BY <1>1
<1>3. \A i \in DOMAIN s : i \in DOMAIN t /\ i # n /\ t[i] = s[i]
  BY <1>1
<1>4. n \in DOMAIN t /\ n \notin DOMAIN s
  BY <1>1
<1> HIDE DEF n
<1>5. KeysOf(t) = IF e.kind = "key" /\ e.st = "live" THEN KeysOf(s) \cup {n} ELSE KeysOf(s)
  BY <1>1, <1>2, <1>3, <1>4 DEF KeysOf
<1>6. ValuesOf(t) = IF e.kind = "value" /\ e.st = "live" THEN ValuesOf(s) \cup {n} ELSE ValuesOf(s)
  BY <1>1, <1>2, <1>3, <1>4 DEF ValuesOf
<1>7. LastOf(t) = e
  BY <1>1 DEF LastOf
<1> QED
  BY <1>1, <1>3, <1>5, <1>6, <1>7 DEF t, n

\* An entry as the code writes it.
SizedEntry(e) ==
    /\ e.id <= MaxKeyId
    /\ e.kind = "key" /\ e.st # "dead" => e.size = EntrySize(KeyLen[e.data])
    /\ e.kind = "value" /\ e.st # "dead" => e.size = EntrySize(ValLen[e.data])

\* The entry e may be written behind the log s.
MayAppend(s, e) ==
    /\ GoodLog(s) /\ ~TornAt(s)
    /\ e.addr = EndOf(s)
    /\ e.kind = "torn" \/ e.addr + e.size <= RegionSize
    /\ SizedEntry(e)

\* Any entry but a live key.
LEMMA AppendOther ==
    ASSUME NEW s \in Seq(Entry), NEW e \in Entry, MayAppend(s, e), e.kind # "key" \/ e.st # "live"
    PROVE  LET t == Append(s, e)
           IN  /\ GoodLog(t)
               /\ KeysOf(t) = KeysOf(s) /\ \A i \in KeysOf(s) : t[i] = s[i]
               /\ \A k : Fresh(s, k) => Fresh(t, k)
<1> DEFINE t == Append(s, e)
           n == Len(s) + 1
<1>1. Chained(t)
  BY AppendChain DEF MayAppend, GoodLog
<1>2. /\ DOMAIN t = 1 .. n /\ DOMAIN s = 1 .. Len(s) /\ Len(s) \in Nat
      /\ t[n] = e /\ \A i \in DOMAIN s : t[i] = s[i]
      /\ KeysOf(t) = KeysOf(s)
  BY AppendReads, SeqFacts
<1> HIDE DEF t
<1>3. \A i \in DOMAIN t : i = n \/ i \in DOMAIN s
  BY <1>2
<1>4. Sized(t)
  BY <1>2, <1>3 DEF MayAppend, GoodLog, Sized, SizedEntry
<1>5. \A i \in KeysOf(s) : t[i] = s[i]
  BY <1>2 DEF KeysOf
<1>6. Numbered(t) /\ Distinct(t) /\ \A k : Fresh(s, k) => Fresh(t, k)
  BY <1>2, <1>5, SameKeys DEF MayAppend, GoodLog
<1> QED
  BY <1>1, <1>2, <1>4, <1>5, <1>6 DEF GoodLog, t

\* A live key with the next number.
LEMMA AppendKey ==
    ASSUME NEW s \in Seq(Entry), NEW e \in Entry, MayAppend(s, e), e.kind = "key", e.st = "live",
           e.id = Cardinality(KeysOf(s)) + 1, Fresh(s, e.data)
    PROVE  LET t == Append(s, e)
           IN  /\ GoodLog(t)
               /\ Cardinality(KeysOf(t)) = Cardinality(KeysOf(s)) + 1
<1> DEFINE t == Append(s, e)
           n == Len(s) + 1
<1>1. Chained(t)
  BY AppendChain DEF MayAppend, GoodLog
<1>2. /\ DOMAIN t = 1 .. n /\ DOMAIN s = 1 .. Len(s) /\ Len(s) \in Nat /\ n \in Nat
      /\ t[n] = e /\ \A i \in DOMAIN s : t[i] = s[i]
      /\ KeysOf(t) = KeysOf(s) \cup {n}
  BY AppendReads, SeqFacts
<1> HIDE DEF t
<1>3. \A i \in DOMAIN t : i = n \/ i \in DOMAIN s
  BY <1>2
<1>4. Sized(t)
  BY <1>2, <1>3 DEF MayAppend, GoodLog, Sized, SizedEntry
<1>5. \A i \in KeysOf(s) : i < n /\ t[i] = s[i]
  BY <1>2 DEF KeysOf
<1>6. Numbered(s) /\ Distinct(s)
  BY DEF MayAppend, GoodLog
<1> HIDE DEF n
<1>7. /\ Numbered(t) /\ Distinct(t)
      /\ Cardinality(KeysOf(t)) = Cardinality(KeysOf(s)) + 1
  BY <1>2, <1>5, <1>6, OneMoreKey
<1> QED
  BY <1>1, <1>4, <1>7 DEF GoodLog, t

\* Clearing the INVALID flag of the last entry.
LEMMA ValidateLog ==
    ASSUME NEW s \in Seq(Entry), GoodLog(s), s # <<>>, LastOf(s).st = "new",
           \/ LastOf(s).kind = "value"
           \/ /\ LastOf(s).kind = "key"
              /\ LastOf(s).id = Cardinality(KeysOf(s)) + 1
              /\ Fresh(s, LastOf(s).data),
           NEW t \in Seq(Entry), Len(t) = Len(s),
           \A i \in DOMAIN s : i # Len(s) => t[i] = s[i],
           t[Len(s)] = [s[Len(s)] EXCEPT !.st = "live"]
    PROVE  /\ GoodLog(t) /\ EndOf(t) = EndOf(s) /\ ~TornAt(t)
           /\ LastOf(s).kind = "value" => KeysOf(t) = KeysOf(s)
           /\ ValuesOf(s) \subseteq ValuesOf(t)
           /\ Len(t) = Len(s)
<1> DEFINE n == Len(s)
           e == s[n]
<1>1. n \in Nat /\ n \in DOMAIN s /\ DOMAIN s = 1 .. n /\ e = LastOf(s) /\ e \in EntryRecord
  BY SeqFacts DEF LastOf
<1>2. DOMAIN t = DOMAIN s /\ Len(t) = n /\ \A i \in DOMAIN s : i # n => t[i] = s[i]
  BY <1>1
<1>3. t[n] = [e EXCEPT !.st = "live"]
  BY <1>1
<1>4. /\ t[n].addr = e.addr /\ t[n].size = e.size /\ t[n].kind = e.kind
      /\ t[n].id = e.id /\ t[n].data = e.data /\ t[n].st = "live"
  BY <1>1, <1>3 DEF EntryRecord
<1>5. e.st = "new"
  BY <1>1
<1> HIDE DEF e, n
<1>6. \A i \in DOMAIN s : t[i].addr = s[i].addr /\ t[i].size = s[i].size /\ t[i].kind = s[i].kind
                          /\ t[i].id = s[i].id /\ t[i].data = s[i].data
  BY <1>2, <1>4 DEF e
<1>7. Chained(t) /\ EndOf(t) = EndOf(s) /\ (TornAt(t) <=> TornAt(s))
  BY <1>2, <1>6, SameChain DEF GoodLog, n
<1>8. Sized(t)
  BY <1>2, <1>4, <1>5 DEF GoodLog, Sized, e
<1>9. ~TornAt(s)
  BY DEF TornAt
<1>10. ValuesOf(s) \subseteq ValuesOf(t)
  BY <1>2, <1>4, <1>5 DEF ValuesOf, e
<1>11. n \notin KeysOf(s)
  BY <1>5 DEF KeysOf, e
<1>12. CASE e.kind = "value"
  <2>1. KeysOf(t) = KeysOf(s)
    BY <1>2, <1>4, <1>11, <1>12 DEF KeysOf
  <2>2. Numbered(t) /\ Distinct(t)
    <3>1. \A i \in KeysOf(s) : t[i].id = s[i].id /\ t[i].data = s[i].data
      BY <1>6 DEF KeysOf
    <3>2. Numbered(s) /\ Distinct(s)
      BY DEF GoodLog
    <3> QED
      BY <2>1, <3>1, <3>2, SameKeys
  <2> QED
    BY <1>2, <1>7, <1>8, <1>9, <1>10, <2>1, <2>2 DEF GoodLog, n
<1>13. CASE e.kind = "key"
  <2>1. KeysOf(t) = KeysOf(s) \cup {n}
    BY <1>1, <1>2, <1>4, <1>11, <1>13 DEF KeysOf
  <2>2. Numbered(t) /\ Distinct(t)
    <3>1. \A i \in KeysOf(s) : i < n /\ t[i].id = s[i].id /\ t[i].data = s[i].data
      <4>1. \A i \in KeysOf(s) : i \in DOMAIN s /\ i # n
        BY <1>11 DEF KeysOf
      <4>2. \A i \in DOMAIN s : i # n => i < n
        BY <1>1
      <4> QED
        BY <1>6, <4>1, <4>2
    <3>2. t[n].id = Cardinality(KeysOf(s)) + 1 /\ Fresh(s, t[n].data)
      BY <1>1, <1>4, <1>13
    <3>3. Numbered(s) /\ Distinct(s)
      BY DEF GoodLog
    <3> QED
      BY <1>1, <2>1, <3>1, <3>2, <3>3, OneMoreKey
  <2> QED
    BY <1>1, <1>2, <1>7, <1>8, <1>9, <1>10, <1>13, <2>2 DEF GoodLog, n
<1> QED
  BY <1>1, <1>12, <1>13

\* Clearing the ALIVE flag of a value.
LEMMA DeleteLog ==
    ASSUME NEW s \in Seq(Entry), GoodLog(s), NEW p \in ValuesOf(s),
           NEW t \in Seq(Entry), t = [s EXCEPT ![p] = Deleted(s[p])]
    PROVE  /\ GoodLog(t) /\ EndOf(t) = EndOf(s) /\ (TornAt(t) <=> TornAt(s))
           /\ KeysOf(t) = KeysOf(s)
           /\ Len(t) = Len(s)
<1>1. p \in DOMAIN s /\ s[p].kind = "value" /\ DOMAIN t = DOMAIN s /\ Len(t) = Len(s)
      /\ s[p] \in EntryRecord
  BY SeqFacts DEF ValuesOf
<1>2. t[p] = [s[p] EXCEPT !.st = "dead", !.id = 0, !.data = Nil]
      /\ \A i \in DOMAIN s : i # p => t[i] = s[i]
  BY <1>1 DEF Deleted
<1>3. t[p].addr = s[p].addr /\ t[p].size = s[p].size /\ t[p].kind = s[p].kind
      /\ t[p].st = "dead" /\ t[p].id = 0
  BY <1>1, <1>2 DEF EntryRecord
<1>4. \A i \in DOMAIN s : t[i].addr = s[i].addr /\ t[i].size = s[i].size /\ t[i].kind = s[i].kind
  BY <1>2, <1>3
<1>5. Chained(t) /\ EndOf(t) = EndOf(s) /\ (TornAt(t) <=> TornAt(s))
  BY <1>1, <1>4, SameChain DEF GoodLog
<1>6. Sized(t)
  <2>1. 0 <= MaxKeyId
    BY IdAssumption
  <2> QED
    BY <1>1, <1>2, <1>3, <2>1 DEF GoodLog, Sized
<1>7. KeysOf(t) = KeysOf(s) /\ \A i \in KeysOf(s) : t[i] = s[i]
  BY <1>1, <1>2, <1>3 DEF KeysOf
<1>8. Numbered(t) /\ Distinct(t)
  BY <1>7, SameKeys DEF GoodLog
<1> QED
  BY <1>1, <1>5, <1>6, <1>7, <1>8 DEF GoodLog

-----------------------------------------------------------------------------
(* Lemmas about compacting.                                                *)

\* Sets without a common element add up.
LEMMA DisjointUnion ==
    ASSUME NEW S, NEW T, IsFiniteSet(S), IsFiniteSet(T), S \cap T = {}
    PROVE  Cardinality(S \cup T) = Cardinality(S) + Cardinality(T)
<1>1. Cardinality(S) \in Nat /\ Cardinality(T) \in Nat
  BY FS_CardinalityType
<1>2. Cardinality(S \cup T) = Cardinality(S) + Cardinality(T) - Cardinality(S \cap T)
  BY FS_Union
<1> QED
  BY <1>1, <1>2, FS_EmptySet

\* The size of an interval of words.
LEMMA IntervalSize ==
    ASSUME NEW a \in Nat, NEW n \in Nat
    PROVE  IsFiniteSet(a .. a + n - 1) /\ Cardinality(a .. a + n - 1) = n
<1>1. a \in Int /\ a + n - 1 \in Int
  OBVIOUS
<1>2. /\ IsFiniteSet(a .. a + n - 1)
      /\ Cardinality(a .. a + n - 1) = IF a > a + n - 1 THEN 0 ELSE (a + n - 1) - a + 1
  BY <1>1, FS_Interval
<1>3. (IF a > a + n - 1 THEN 0 ELSE (a + n - 1) - a + 1) = n
  OBVIOUS
<1> QED
  BY <1>2, <1>3

\* The words of entries are finite sets inside the used part of the region.
LEMMA WordsType ==
    ASSUME NEW s \in Seq(Entry), Chained(s), NEW T \in SUBSET (DOMAIN s),
           \A i \in T : s[i].kind # "torn"
    PROVE  /\ WordsOf(s, T) \in SUBSET (HdrSize .. EndOf(s) - 1)
           /\ IsFiniteSet(WordsOf(s, T)) /\ Cardinality(WordsOf(s, T)) \in Nat
<1>1. ASSUME NEW x \in WordsOf(s, T) PROVE x \in HdrSize .. EndOf(s) - 1
  <2>1. x \in 0 .. RegionSize
    BY DEF WordsOf
  <2>2. PICK i \in T : s[i].addr <= x /\ x < s[i].addr + s[i].size
    BY DEF WordsOf
  <2>3. HdrSize <= s[i].addr /\ s[i].addr + s[i].size <= EndOf(s) /\ EndOf(s) \in Nat
        /\ s[i].addr \in Nat /\ s[i].size \in Nat
    BY <2>2, EndBound, SeqFacts
  <2> QED
    BY <2>1, <2>2, <2>3, RegionAssumption DEF HdrSize
<1>2. IsFiniteSet(HdrSize .. EndOf(s) - 1)
  <2>1. HdrSize \in Int /\ EndOf(s) - 1 \in Int
    BY EndBound DEF HdrSize
  <2> QED
    BY <2>1, FS_Interval
<1>3. WordsOf(s, T) \in SUBSET (HdrSize .. EndOf(s) - 1)
  BY <1>1
<1>4. IsFiniteSet(WordsOf(s, T))
  BY <1>2, <1>3, FS_Subset
<1> QED
  BY <1>3, <1>4, FS_CardinalityType

\* Two entries at different places share no word.
LEMMA WordsDisjoint ==
    ASSUME NEW s \in Seq(Entry), Chained(s), NEW T \in SUBSET (DOMAIN s),
           NEW U \in SUBSET (DOMAIN s), T \cap U = {}
    PROVE  WordsOf(s, T) \cap WordsOf(s, U) = {}
<1> SUFFICES ASSUME NEW x \in WordsOf(s, T), x \in WordsOf(s, U) PROVE FALSE
  OBVIOUS
<1>1. PICK i \in T : s[i].addr <= x /\ x < s[i].addr + s[i].size
  BY DEF WordsOf
<1>2. PICK j \in U : s[j].addr <= x /\ x < s[j].addr + s[j].size
  BY DEF WordsOf
<1>3. i \in DOMAIN s /\ j \in DOMAIN s /\ i # j /\ i \in Nat /\ j \in Nat /\ x \in Int
  <2>1. x \in 0 .. RegionSize
    BY DEF WordsOf
  <2>2. x \in Int
    BY <2>1, RegionAssumption
  <2>3. i \in DOMAIN s /\ j \in DOMAIN s /\ i # j
    BY <1>1, <1>2
  <2> QED
    BY <2>2, <2>3, SeqFacts
<1>4. s[i].addr \in Nat /\ s[i].size \in Nat /\ s[j].addr \in Nat /\ s[j].size \in Nat
  BY <1>3, SeqFacts
<1>5. s[i].addr + s[i].size <= s[j].addr \/ s[j].addr + s[j].size <= s[i].addr
  BY <1>3 DEF Chained
<1> QED
  BY <1>1, <1>2, <1>3, <1>4, <1>5

\* One more entry takes as many more words as its size.
LEMMA WordsAdd ==
    ASSUME NEW s \in Seq(Entry), Chained(s), NEW T \in SUBSET (DOMAIN s), NEW i \in DOMAIN s,
           i \notin T, \A j \in T \cup {i} : s[j].kind # "torn"
    PROVE  Cardinality(WordsOf(s, T \cup {i})) = Cardinality(WordsOf(s, T)) + s[i].size
<1> DEFINE I == s[i].addr .. s[i].addr + s[i].size - 1
<1>1. s[i].addr \in Nat /\ s[i].size \in Nat /\ s[i].addr + s[i].size <= RegionSize
  BY SeqFacts DEF Chained
<1>2. WordsOf(s, {i}) = I
  BY <1>1, RegionAssumption DEF WordsOf
<1>3. IsFiniteSet(I) /\ Cardinality(I) = s[i].size
  BY <1>1, IntervalSize
<1>4. WordsOf(s, T \cup {i}) = WordsOf(s, T) \cup WordsOf(s, {i})
  BY DEF WordsOf
<1>5. WordsOf(s, T) \cap WordsOf(s, {i}) = {}
  BY WordsDisjoint
<1>6. IsFiniteSet(WordsOf(s, T)) /\ Cardinality(WordsOf(s, T)) \in Nat
  BY WordsType
<1> HIDE DEF I
<1>7. Cardinality(WordsOf(s, T) \cup WordsOf(s, {i})) =
         Cardinality(WordsOf(s, T)) + Cardinality(WordsOf(s, {i}))
  BY <1>2, <1>3, <1>5, <1>6, DisjointUnion
<1> QED
  BY <1>2, <1>3, <1>4, <1>7

\* Two disjoint sets of entries fit in the used part of the region.
LEMMA WordsBound ==
    ASSUME NEW s \in Seq(Entry), Chained(s), NEW T \in SUBSET (DOMAIN s),
           NEW U \in SUBSET (DOMAIN s), T \cap U = {}, \A i \in T \cup U : s[i].kind # "torn"
    PROVE  HdrSize + Cardinality(WordsOf(s, T)) + Cardinality(WordsOf(s, U)) <= EndOf(s)
<1> DEFINE V == WordsOf(s, T)
           W == WordsOf(s, U)
           I == HdrSize .. EndOf(s) - 1
<1>1. /\ IsFiniteSet(V) /\ IsFiniteSet(W) /\ V \in SUBSET I /\ W \in SUBSET I
      /\ Cardinality(V) \in Nat /\ Cardinality(W) \in Nat
  BY WordsType
<1>2. V \cap W = {}
  BY WordsDisjoint
<1>3. Cardinality(V \cup W) = Cardinality(V) + Cardinality(W)
  BY <1>1, <1>2, DisjointUnion
<1>4. EndOf(s) \in Nat /\ HdrSize <= EndOf(s) /\ HdrSize \in Nat
  BY EndBound DEF HdrSize
<1>5. IsFiniteSet(I) /\ Cardinality(I) = EndOf(s) - HdrSize
  <2>1. HdrSize \in Int /\ EndOf(s) - 1 \in Int
    BY <1>4
  <2>2. /\ IsFiniteSet(I)
        /\ Cardinality(I) = IF HdrSize > EndOf(s) - 1 THEN 0 ELSE EndOf(s) - 1 - HdrSize + 1
    BY <2>1, FS_Interval
  <2> HIDE DEF I
  <2> QED
    BY <1>4, <2>2
<1>6. Cardinality(V \cup W) <= Cardinality(I)
  <2>1. V \cup W \in SUBSET I
    BY <1>1
  <2> QED
    BY <1>5, <2>1, FS_Subset
<1> HIDE DEF V, W, I
<1>7. HdrSize + Cardinality(V) + Cardinality(W) <= EndOf(s)
  BY <1>1, <1>3, <1>4, <1>5, <1>6
<1> QED
  BY <1>7 DEF V, W

\* The value that a key has.
LEMMA FindFacts ==
    ASSUME NEW s \in Seq(Entry), NEW i \in KeysOf(s), FindValueOf(s, i) # 0
    PROVE  /\ FindValueOf(s, i) \in ValuesOf(s)
           /\ FindValueOf(s, i) > i
           /\ s[FindValueOf(s, i)].id = s[i].id
<1> DEFINE S == {j \in ValuesOf(s) : j > i /\ s[j].id = s[i].id}
<1>1. S \in SUBSET (Nat \ {0})
  BY SeqFacts
<1>2. FirstOf(S) \in S
  BY <1>1, FirstOfType DEF FindValueOf
<1> QED
  BY <1>2 DEF FindValueOf

\* Copied keys and values are live entries of the old region; no two keys
\* have the same value.
LEMMA CopiedType ==
    ASSUME NEW s \in Seq(Entry), GoodLog(s), NEW p \in Nat
    PROVE  /\ CopiedKeys(s, p) \in SUBSET KeysOf(s)
           /\ CopiedValues(s, p) \in SUBSET ValuesOf(s)
           /\ IsFiniteSet(CopiedKeys(s, p)) /\ IsFiniteSet(CopiedValues(s, p))
           /\ Cardinality(CopiedKeys(s, p)) \in Nat /\ Cardinality(CopiedValues(s, p)) \in Nat
           /\ Cardinality(CopiedKeys(s, p)) <= Cardinality(KeysOf(s))
           /\ Cardinality(CopiedValues(s, p)) <= Cardinality(ValuesOf(s))
           /\ HdrSize + Cardinality(WordsOf(s, CopiedKeys(s, p)))
                      + Cardinality(WordsOf(s, CopiedValues(s, p))) <= EndOf(s)
           /\ \A i, j \in KeysOf(s) : /\ FindValueOf(s, i) # 0 /\ FindValueOf(s, j) # 0
                                      /\ FindValueOf(s, i) = FindValueOf(s, j)
                                      => i = j
<1>1. CopiedKeys(s, p) \in SUBSET KeysOf(s)
  BY DEF CopiedKeys
<1>2. CopiedValues(s, p) \in SUBSET ValuesOf(s)
  BY FindFacts DEF CopiedKeys, CopiedValues
<1>3. /\ IsFiniteSet(CopiedKeys(s, p)) /\ Cardinality(CopiedKeys(s, p)) <= Cardinality(KeysOf(s))
      /\ IsFiniteSet(CopiedValues(s, p))
      /\ Cardinality(CopiedValues(s, p)) <= Cardinality(ValuesOf(s))
  BY <1>1, <1>2, CountKeys, FS_Subset
<1>4. Cardinality(CopiedKeys(s, p)) \in Nat /\ Cardinality(CopiedValues(s, p)) \in Nat
  BY <1>3, FS_CardinalityType
<1>5. HdrSize + Cardinality(WordsOf(s, CopiedKeys(s, p)))
              + Cardinality(WordsOf(s, CopiedValues(s, p))) <= EndOf(s)
  <2>1. /\ CopiedKeys(s, p) \in SUBSET (DOMAIN s) /\ CopiedValues(s, p) \in SUBSET (DOMAIN s)
        /\ CopiedKeys(s, p) \cap CopiedValues(s, p) = {}
        /\ \A i \in CopiedKeys(s, p) \cup CopiedValues(s, p) : s[i].kind # "torn"
    BY <1>1, <1>2 DEF KeysOf, ValuesOf
  <2> QED
    BY <2>1, WordsBound DEF GoodLog
<1>6. ASSUME NEW i \in KeysOf(s), NEW j \in KeysOf(s), FindValueOf(s, i) # 0,
             FindValueOf(s, j) # 0, FindValueOf(s, i) = FindValueOf(s, j)
      PROVE  i = j
  <2>1. s[i].id = s[j].id
    BY <1>6, FindFacts
  <2>2. i \in Nat /\ j \in Nat /\ s[i].id \in Nat /\ s[j].id \in Nat
    BY SeqFacts
  <2>3. (i < j => s[i].id < s[j].id) /\ (j < i => s[j].id < s[i].id)
    BY LastNumber DEF GoodLog
  <2> QED
    BY <2>1, <2>2, <2>3
<1> QED
  BY <1>1, <1>2, <1>3, <1>4, <1>5, <1>6

\* The next pair that sysparam_iter_next delivers, at position i.
LEMMA CopiedNext ==
    ASSUME NEW s \in Seq(Entry), GoodLog(s), NEW p \in Nat, NEW i \in KeysOf(s), i > p,
           FindValueOf(s, i) # 0,
           \A k \in KeysOf(s) : k > p /\ FindValueOf(s, k) # 0 => i <= k
    PROVE  LET j == FindValueOf(s, i)
           IN  /\ CopiedKeys(s, i) = CopiedKeys(s, p) \cup {i}
               /\ CopiedValues(s, i) = CopiedValues(s, p) \cup {j}
               /\ i \notin CopiedKeys(s, p)
               /\ Cardinality(CopiedKeys(s, i)) = Cardinality(CopiedKeys(s, p)) + 1
               /\ Cardinality(CopiedValues(s, i)) = Cardinality(CopiedValues(s, p)) + 1
               /\ Cardinality(WordsOf(s, CopiedKeys(s, i))) =
                     Cardinality(WordsOf(s, CopiedKeys(s, p))) + s[i].size
               /\ Cardinality(WordsOf(s, CopiedValues(s, i))) =
                     Cardinality(WordsOf(s, CopiedValues(s, p))) + s[j].size
<1> DEFINE j == FindValueOf(s, i)
<1>1. KeysOf(s) \subseteq Nat /\ i \in Nat
  BY SeqFacts
<1>2. CopiedKeys(s, i) = CopiedKeys(s, p) \cup {i}
  <2>1. \A k \in KeysOf(s) : FindValueOf(s, k) # 0 => (k <= i <=> k <= p \/ k = i)
    BY <1>1
  <2> QED
    BY <2>1 DEF CopiedKeys
<1>3. CopiedValues(s, i) = CopiedValues(s, p) \cup {j}
  BY <1>2 DEF CopiedValues
<1>4. i \notin CopiedKeys(s, p)
  BY <1>1 DEF CopiedKeys
<1>5. j \notin CopiedValues(s, p)
  BY <1>4, CopiedType DEF CopiedValues, CopiedKeys
<1>6. j \in ValuesOf(s)
  BY FindFacts
<1> HIDE DEF j
<1>7. /\ Cardinality(CopiedKeys(s, i)) = Cardinality(CopiedKeys(s, p)) + 1
      /\ Cardinality(CopiedValues(s, i)) = Cardinality(CopiedValues(s, p)) + 1
  BY <1>2, <1>3, <1>4, <1>5, CopiedType, FS_AddElement
<1>8. /\ CopiedKeys(s, p) \in SUBSET (DOMAIN s) /\ CopiedValues(s, p) \in SUBSET (DOMAIN s)
      /\ i \in DOMAIN s /\ j \in DOMAIN s
      /\ \A k \in CopiedKeys(s, p) \cup {i} : s[k].kind # "torn"
      /\ \A k \in CopiedValues(s, p) \cup {j} : s[k].kind # "torn"
  <2>1. CopiedKeys(s, p) \in SUBSET KeysOf(s) /\ CopiedValues(s, p) \in SUBSET ValuesOf(s)
    BY CopiedType
  <2> QED
    BY <1>6, <2>1 DEF KeysOf, ValuesOf
<1>9. Chained(s)
  BY DEF GoodLog
<1>10. /\ Cardinality(WordsOf(s, CopiedKeys(s, i))) =
             Cardinality(WordsOf(s, CopiedKeys(s, p))) + s[i].size
       /\ Cardinality(WordsOf(s, CopiedValues(s, i))) =
             Cardinality(WordsOf(s, CopiedValues(s, p))) + s[j].size
  BY <1>2, <1>3, <1>4, <1>5, <1>8, <1>9, WordsAdd
<1> QED
  BY <1>2, <1>3, <1>4, <1>7, <1>10 DEF j

\* Nothing is copied at first.
LEMMA CopiedNone ==
    ASSUME NEW s \in Seq(Entry)
    PROVE  /\ Cardinality(CopiedKeys(s, 0)) = 0 /\ Cardinality(CopiedValues(s, 0)) = 0
           /\ Cardinality(WordsOf(s, CopiedKeys(s, 0))) = 0
           /\ Cardinality(WordsOf(s, CopiedValues(s, 0))) = 0
<1>1. CopiedKeys(s, 0) = {}
  BY SeqFacts DEF CopiedKeys
<1>2. CopiedValues(s, 0) = {}
  BY <1>1 DEF CopiedValues
<1>3. WordsOf(s, {}) = {}
  BY DEF WordsOf
<1> QED
  BY <1>1, <1>2, <1>3, FS_EmptySet

-----------------------------------------------------------------------------
(* The invariant holds: the reads of a call.                               *)

\* The states in which no set is under way.
Quiet == {"init", "scan", "failed", "idle", "return"} \cup BootStates

\* Between calls nothing is to be kept of them.
LEMMA QuietStep ==
    ASSUME pc' \in Quiet
    PROVE  (CallInv /\ LastInv /\ CopyInv)'
BY DEF Quiet, CallInv, LastInv, CopyInv, HasRoom, HasId, Compacting, Setting, BootStates

\* Steps that leave the mounted region, its end and its last entry in place.
LEMMA EndSame ==
    ASSUME EndInv, info'.base = info.base, info'.end = info.end, info.force => info'.force,
           info'.left = info.left, pc' \notin {"validateKey", "validateValue"},
           Mounted => EndOf(log'[info.base]) = EndOf(log[info.base])
                      /\ (TornAt(log'[info.base]) <=> TornAt(log[info.base])),
           pc \in {"init", "scan", "failed"} \cup BootStates
           \/ pc' \notin {"init", "scan", "failed"} \cup BootStates,
           pc' \in {"write", "validateKey", "validateValue"} => ~TornAt(log'[info.base])
    PROVE  EndInv'
BY DEF EndInv, Mounted, BootStates

\* The region in use and the other one.
LEMMA BaseFacts ==
    ASSUME LogInv, info.base \in Regions
    PROVE  /\ log[info.base] \in Seq(Entry) /\ GoodLog(log[info.base])
           /\ Chained(log[info.base]) /\ Sized(log[info.base])
           /\ Numbered(log[info.base]) /\ Distinct(log[info.base])
           /\ Other(info.base) \in Regions /\ Other(info.base) # info.base
           /\ log[Other(info.base)] \in Seq(Entry) /\ GoodLog(log[Other(info.base)])
           /\ Mounted /\ info.end = EndOf(log[info.base])
           /\ info.end \in Nat /\ info.end <= RegionSize
<1>1. Other(info.base) \in Regions /\ Other(info.base) # info.base
  BY DEF Other, Regions
<1>2. \A r \in Regions : log[r] \in Seq(Entry) /\ GoodLog(log[r])
  BY DEF LogInv, TypeInv, TypeOK
<1>3. Mounted /\ info.end = EndOf(log[info.base])
  BY DEF LogInv, EndInv, Mounted, Regions, NoRegion
<1>4. Chained(log[info.base]) /\ Sized(log[info.base])
      /\ Numbered(log[info.base]) /\ Distinct(log[info.base])
  BY <1>2 DEF GoodLog
<1>5. info.end \in Nat /\ info.end <= RegionSize
  BY <1>2, <1>3, <1>4, EndBound
<1> QED
  BY <1>1, <1>2, <1>3, <1>4, <1>5

\* A lookup that finds no key means that there is none of that name.
LEMMA FindKeyFresh ==
    ASSUME TypeOK, NEW r \in Regions, NEW k \in Keys
    PROVE  FindKey(r, k) = 0 => Fresh(log[r], k)
<1> DEFINE S == {i \in LiveKeys(r) : log[r][i].data = k}
<1>1. S \in SUBSET (Nat \ {0})
  BY ScanType, EntryType
<1>2. \A i \in S : FirstOf(S) \in S
  BY <1>1, FirstOfType
<1>3. FirstOf(S) = 0 => S = {}
  BY <1>1, <1>2
<1> QED
  BY <1>3, ReadsOf DEF FindKey, Fresh

\* max_key_id is the number of live keys.
LEMMA MaxIdIsCount ==
    ASSUME TypeOK, NEW r \in Regions, Numbered(log[r])
    PROVE  MaxIdOf(r) = Cardinality(KeysOf(log[r]))
<1>1. LiveKeys(r) = KeysOf(log[r]) /\ log[r] \in Seq(Entry)
  BY ReadsOf, EntryType
<1>2. CASE LiveKeys(r) = {}
  BY <1>1, <1>2, FS_EmptySet DEF MaxIdOf
<1>3. CASE LiveKeys(r) # {}
  <2> DEFINE m == CHOOSE i \in LiveKeys(r) : \A j \in LiveKeys(r) : i >= j
  <2>1. \E i \in LiveKeys(r) : \A j \in LiveKeys(r) : i >= j
    BY <1>3, ScanType, EntryType, GreatestElement
  <2>2. m \in LiveKeys(r) /\ \A j \in LiveKeys(r) : m >= j
    BY <2>1
  <2>3. MaxIdOf(r) = log[r][m].id
    BY <1>3 DEF MaxIdOf
  <2> HIDE DEF m
  <2> QED
    BY <1>1, <2>2, <2>3, LastNumber
<1> QED
  BY <1>2, <1>3

\* There are never more live keys than ids.
LEMMA KeysBound ==
    ASSUME NEW s \in Seq(Entry), Numbered(s), Sized(s)
    PROVE  Cardinality(KeysOf(s)) <= MaxKeyId
<1>1. CASE KeysOf(s) = {}
  BY <1>1, FS_EmptySet, IdAssumption
<1>2. CASE KeysOf(s) # {}
  <2>1. KeysOf(s) \in SUBSET (1 .. Len(s)) /\ Len(s) \in Nat
    BY SeqFacts
  <2>2. PICK i \in KeysOf(s) : \A j \in KeysOf(s) : i >= j
    BY <1>2, <2>1, GreatestElement
  <2>3. s[i].id = Cardinality(KeysOf(s))
    BY <2>2, LastNumber
  <2>4. s[i].id <= MaxKeyId
    BY <2>2 DEF Sized, KeysOf
  <2> QED
    BY <2>3, <2>4
<1> QED
  BY <1>1, <1>2

\* The invariant holds before the first boot.
LEMMA LogInit == Init => LogInv
<1> SUFFICES ASSUME Init PROVE LogInv
  OBVIOUS
<1>1. TypeInv
  BY TypeInit
<1>2. \A r \in Regions : GoodLog(log[r])
  BY GoodEmpty DEF Init
<1>3. EndInv /\ CallInv /\ LastInv /\ CopyInv
  BY DEF Init, EndInv, CallInv, LastInv, CopyInv, Mounted, NoInfo, NoRegion, HasRoom, HasId,
         Compacting, Setting, BootStates
<1> QED
  BY <1>1, <1>2, <1>3 DEF LogInv

\* The boot code keeps the invariant.
LEMMA LogBoot == LogInv /\ Boot => LogInv'
<1> SUFFICES ASSUME LogInv, Boot PROVE LogInv'
  OBVIOUS
<1>1. TypeInv'
  BY TypeBoot DEF LogInv
<1>2. ~Mounted
  BY DEF LogInv, EndInv, Boot, SysparamInit, RecreateFormat, RecreateHeader, CreateScan,
         CreateFormat, CreateHeader, BootStates
<1>3. Header0 \in Regions /\ Other(Header0) \in Regions /\ log \in [Regions -> Seq(Entry)]
  BY DEF Header0, Other, Regions, LogInv, TypeInv, TypeOK
<1>4. ASSUME NEW r \in Regions, Mount(r), log' = log PROVE LogInv'
  <2>1. /\ info'.base = r /\ info'.end = EndOf(log'[r]) /\ info'.force = TornAt(log'[r])
        /\ pc' = "idle" /\ info'.left = 0
    BY <1>4, ReadsOf DEF Mount
  <2>2. EndInv'
    BY <2>1 DEF EndInv, Mounted, BootStates
  <2>3. (CallInv /\ LastInv /\ CopyInv)'
    BY <2>1, QuietStep DEF Quiet
  <2> QED
    BY <1>1, <1>4, <2>2, <2>3 DEF LogInv
<1>5. ASSUME UNCHANGED info, pc' \in {"init", "scan", "failed"} \cup BootStates,
             \A r \in Regions : log'[r] \in {log[r], <<>>}
      PROVE  LogInv'
  <2>1. \A r \in Regions : GoodLog(log'[r])
    BY <1>5, GoodEmpty DEF LogInv
  <2>2. EndInv'
    BY <1>2, <1>5 DEF LogInv, EndInv, Mounted, BootStates
  <2>3. (CallInv /\ LastInv /\ CopyInv)'
    BY <1>5, QuietStep DEF Quiet
  <2> QED
    BY <1>1, <2>1, <2>2, <2>3 DEF LogInv
<1>6. CASE SysparamInit
  <2>1. CASE UNCHANGED info /\ pc' \in {"scan", "recreate", "failed"}
    BY <1>5, <1>6, <2>1 DEF SysparamInit, flash, BootStates
  <2>2. CASE Mount(IF hdr[Header0] = "active" THEN Header0 ELSE Other(Header0))
    BY <1>3, <1>4, <1>6, <2>2 DEF SysparamInit, flash
  <2> QED
    BY <1>6, <2>1, <2>2 DEF SysparamInit
<1>7. CASE RecreateFormat
  BY <1>3, <1>5, <1>7 DEF RecreateFormat, Format, BootStates
<1>8. CASE RecreateHeader
  BY <1>3, <1>4, <1>8 DEF RecreateHeader
<1>9. CASE CreateScan
  BY <1>5, <1>9 DEF CreateScan, flash, BootStates
<1>10. CASE CreateFormat
  BY <1>3, <1>5, <1>10 DEF CreateFormat, Format, BootStates
<1>11. CASE CreateHeader
  BY <1>5, <1>11 DEF CreateHeader, BootStates
<1> QED
  BY <1>6, <1>7, <1>8, <1>9, <1>10, <1>11 DEF Boot

\* The lookup at the beginning of a call.
LEMMA LogSetData ==
    ASSUME LogInv, NEW k \in Keys, NEW v \in Values \cup {Nil}, SetData(k, v), TypeInv'
    PROVE  LogInv'
<1> DEFINE r == info.base
           i == FindKey(r, k)
           j == IF i = 0 THEN 0 ELSE FindValue(r, i)
<1>1. r \in Regions /\ pc = "idle" /\ TypeOK
  BY DEF SetData, LogInv, TypeInv, CallOK
<1>2. i \in {0} \cup KeysOf(log[r]) /\ j \in {0} \cup ValuesOf(log[r])
  BY <1>1, FindType, ReadsOf
<1>3. /\ pc' \in {"return", "delete", "space"} /\ UNCHANGED <<log, info>>
      /\ keyId' = (IF i = 0 THEN 0 ELSE log[r][i].id)
      /\ old'.region = r /\ old'.pos = j
      /\ pc' = "space" => op'.key = k
  BY DEF SetData, Finish, flash
<1>4. log[r] \in Seq(Entry) /\ Numbered(log[r]) /\ Sized(log[r]) /\ MaxKeyId \in Nat
  BY <1>1, BaseFacts, IdAssumption
<1>5. i = 0 => Fresh(log[r], k)
  BY <1>1, FindKeyFresh
<1>6. i # 0 => i \in KeysOf(log[r]) /\ i \in DOMAIN log[r]
  BY <1>2 DEF KeysOf
<1>7. i # 0 => keyId' # 0 /\ keyId' <= MaxKeyId
  <2>1. i # 0 => log[r][i].id \in 1 .. Cardinality(KeysOf(log[r]))
    BY <1>4, <1>6, LastNumber
  <2>2. i # 0 => log[r][i].id <= MaxKeyId
    BY <1>4, <1>6 DEF Sized
  <2> QED
    BY <1>3, <2>1, <2>2, CountKeys, <1>4
<1> HIDE DEF i, j, r
<1>8. keyId' <= MaxKeyId /\ (keyId' = 0 => Fresh(log[r], k))
  BY <1>3, <1>4, <1>5, <1>7
<1>9. EndInv'
  BY <1>1, <1>3, EndSame DEF LogInv, BootStates, r
<1>10. CASE pc' = "return"
  BY <1>3, <1>9, <1>10, QuietStep DEF LogInv, Quiet
<1>11. CASE pc' = "delete"
  <2>1. CallInv'
    BY <1>2, <1>3, <1>11 DEF CallInv, HasRoom, HasId, Compacting, Setting, r
  <2>2. (LastInv /\ CopyInv)'
    BY <1>11 DEF LastInv, CopyInv
  <2> QED
    BY <1>3, <1>9, <2>1, <2>2 DEF LogInv
<1>12. CASE pc' = "space"
  <2>1. CallInv'
    BY <1>2, <1>3, <1>8, <1>12 DEF CallInv, HasRoom, HasId, Compacting, Setting, r
  <2>2. (LastInv /\ CopyInv)'
    BY <1>12 DEF LastInv, CopyInv
  <2> QED
    BY <1>3, <1>9, <2>1, <2>2 DEF LogInv
<1> QED
  BY <1>3, <1>10, <1>11, <1>12

\* A call that returns at once, or a step to the end of a call, that leaves
\* the flash and the mounted region alone.
LEMMA LogReturn ==
    ASSUME LogInv, TypeInv', UNCHANGED <<log, info>>, pc' = "return"
    PROVE  LogInv'
<1>1. EndInv'
  BY EndSame DEF LogInv, BootStates
<1> QED
  BY <1>1, QuietStep DEF LogInv, Quiet

\* The checks between the lookup and the first write.
LEMMA LogCheck ==
    ASSUME LogInv, Check, TypeInv'
    PROVE  LogInv'
<1>1. /\ pc \in {"space", "full", "ids", "force"} /\ info.base \in Regions /\ TypeOK
      /\ op.key \in Keys /\ op.val \in Values /\ pc \in Setting
  BY DEF Check, CheckSpace, CheckFull, CheckIds, CheckForce, LogInv, TypeInv, CallOK, Setting
<1>2. UNCHANGED <<log, op, keyId, old>>
  BY DEF Check, CheckSpace, CheckFull, CheckIds, CheckForce, flash
<1>3. /\ info'.base = info.base /\ info'.end = info.end /\ info'.left = info.left
      /\ info.force => info'.force
  <2>1. \/ info' = info
        \/ info' = [info EXCEPT !.force = @ \/ (old.pos = 0 /\ info.end + info.left = RegionSize)]
    BY DEF Check, CheckSpace, CheckFull, CheckIds, CheckForce
  <2> QED
    BY <1>1, <2>1 DEF TypeOK
<1> DEFINE s == log[info.base]
<1>4. /\ s \in Seq(Entry) /\ Numbered(s) /\ Sized(s)
      /\ info.end = EndOf(s) /\ info.end \in Nat
  BY <1>1, BaseFacts
<1>5. /\ MaxIdOf(info.base) = Cardinality(KeysOf(s))
      /\ UnusedKeys(info.base) = Cardinality(KeysOf(s)) - Cardinality(ValuesOf(s))
      /\ Cardinality(KeysOf(s)) \in Nat /\ Cardinality(ValuesOf(s)) \in Nat
      /\ Cardinality(KeysOf(s)) <= MaxKeyId
      /\ MaxKeyId \in Nat /\ RegionSize \in Nat
  BY <1>1, <1>4, MaxIdIsCount, ReadsOf, CountKeys, KeysBound, IdAssumption, RegionAssumption
     DEF UnusedKeys
<1>6. Needed \in Nat /\ Needed' = Needed
  <2>1. EntrySize(ValLen[op.val]) \in Nat /\ EntrySize(KeyLen[op.key]) \in Nat
    BY <1>1, LenAssumption DEF EntrySize
  <2> QED
    BY <1>2, <2>1 DEF Needed
<1>7. pc' \in {"ids", "force", "write", "format"} => \* what is kept of the call
         /\ keyId' <= MaxKeyId
         /\ keyId' = 0 => Fresh(log'[info'.base], op'.key)
         /\ old'.pos # 0 => old'.pos \in ValuesOf(log'[old'.region]) /\ old'.region = info'.base
  BY <1>1, <1>2, <1>3 DEF LogInv, CallInv, Setting
<1>8. ASSUME pc' \in {"ids", "force", "format"} PROVE (EndInv /\ LastInv)'
  <2>1. EndInv'
    BY <1>1, <1>2, <1>3, <1>8, EndSame DEF LogInv, BootStates
  <2> QED
    BY <1>8, <2>1 DEF LastInv
<1>9. pc' = "format" => copy'.pos = 0 /\ copy'.id = 0
  BY DEF Check, CheckSpace, CheckFull, CheckIds, CheckForce, StartCompaction, Finish
<1>10. CopyInv'
  <2>1. pc' \notin {"copy", "retire"}
    BY DEF Check, CheckSpace, CheckFull, CheckIds, CheckForce, StartCompaction, Finish
  <2> QED
    BY <1>9, <2>1 DEF CopyInv
<1>11. pc \in {"ids", "force"} => info.end + Needed <= RegionSize
  BY DEF LogInv, CallInv, HasRoom
<1>12. CASE CheckSpace
  <2>1. CASE pc' = "ids" /\ Needed <= FreeSpace
    <3>1. info'.end + Needed' <= RegionSize
      BY <1>3, <1>4, <1>5, <1>6, <2>1 DEF FreeSpace
    <3>2. CallInv'
      BY <1>7, <2>1, <3>1 DEF CallInv, HasRoom, HasId, Compacting, Setting
    <3> QED
      BY <1>2, <1>8, <1>10, <2>1, <3>2 DEF LogInv
  <2>2. CASE pc' = "format" /\ copy'.then = "full"
    <3>1. CallInv'
      BY <1>7, <2>2 DEF CallInv, HasRoom, HasId, Compacting, Setting
    <3> QED
      BY <1>2, <1>8, <1>10, <2>2, <3>1 DEF LogInv
  <2>3. CASE pc' = "return"
    <3>1. EndInv'
      BY <1>1, <1>2, <1>3, <2>3, EndSame DEF LogInv, BootStates
    <3> QED
      BY <1>2, <2>3, <3>1, QuietStep DEF LogInv, Quiet
  <2> QED
    BY <1>12, <2>1, <2>2, <2>3 DEF CheckSpace, StartCompaction, Finish
<1>13. CASE CheckFull
  <2>1. CASE pc' = "ids" /\ Needed <= FreeSpace
    <3>1. info'.end + Needed' <= RegionSize
      BY <1>3, <1>4, <1>5, <1>6, <2>1 DEF FreeSpace
    <3>2. CallInv'
      BY <1>7, <2>1, <3>1 DEF CallInv, HasRoom, HasId, Compacting, Setting
    <3> QED
      BY <1>2, <1>8, <1>10, <2>1, <3>2 DEF LogInv
  <2>2. CASE pc' = "return"
    BY <1>2, <1>13, <2>2, LogReturn DEF CheckFull
  <2> QED
    BY <1>13, <2>1, <2>2 DEF CheckFull, Finish
<1>14. CASE CheckIds
  <2>1. info'.end + Needed' <= RegionSize
    BY <1>3, <1>6, <1>11, <1>14 DEF CheckIds
  <2>2. CASE pc' = "force" /\ ~(keyId = 0 /\ MaxIdOf(info.base) >= MaxKeyId)
    <3>1. keyId' = 0 => Cardinality(KeysOf(log'[info'.base])) < MaxKeyId
      BY <1>2, <1>3, <1>5, <2>2
    <3>2. CallInv'
      BY <1>7, <2>1, <2>2, <3>1 DEF CallInv, HasRoom, HasId, Compacting, Setting
    <3> QED
      BY <1>2, <1>8, <1>10, <2>2, <3>2 DEF LogInv
  <2>3. CASE pc' = "format" /\ copy'.then = "force" /\ UnusedKeys(info.base) > 0
    <3>1. Cardinality(ValuesOf(log'[info'.base])) < MaxKeyId
      <4> HIDE DEF s
      <4>1. Cardinality(ValuesOf(s)) < MaxKeyId
        BY <1>5, <2>3
      <4> QED
        BY <1>2, <1>3, <4>1 DEF s
    <3>2. CallInv'
      BY <1>7, <2>1, <2>3, <3>1 DEF CallInv, HasRoom, HasId, Compacting, Setting
    <3> QED
      BY <1>2, <1>8, <1>10, <2>3, <3>2 DEF LogInv
  <2>4. CASE pc' = "return"
    BY <1>2, <1>14, <2>4, LogReturn DEF CheckIds
  <2> QED
    BY <1>14, <2>2, <2>3, <2>4 DEF CheckIds, StartCompaction, Finish
<1>15. CASE CheckForce
  <2>1. info'.end + Needed' <= RegionSize
    BY <1>3, <1>6, <1>11, <1>15 DEF CheckForce
  <2>2. keyId' = 0 => Cardinality(KeysOf(log'[info'.base])) < MaxKeyId
    BY <1>2, <1>3, <1>15 DEF CheckForce, LogInv, CallInv, HasId
  <2>3. CASE pc' = "format" /\ copy'.then = "write"
    <3>1. CallInv'
      BY <1>7, <2>1, <2>2, <2>3 DEF CallInv, HasRoom, HasId, Compacting, Setting
    <3> QED
      BY <1>2, <1>8, <1>10, <2>3, <3>1 DEF LogInv
  <2>4. CASE pc' = "write" /\ ~info.force
    <3>1. EndInv'
      <4>1. ~TornAt(log'[info.base])
        BY <1>1, <1>2, <2>4, BaseFacts DEF LogInv, EndInv
      <4> QED
        BY <1>1, <1>2, <1>3, <2>4, <4>1, EndSame DEF LogInv, BootStates
    <3>2. CallInv'
      BY <1>7, <2>1, <2>2, <2>4 DEF CallInv, HasRoom, HasId, Compacting, Setting
    <3>3. LastInv'
      BY <2>4 DEF LastInv
    <3> QED
      BY <1>2, <1>10, <3>1, <3>2, <3>3 DEF LogInv
  <2> QED
    BY <1>15, <2>3, <2>4 DEF CheckForce, StartCompaction
<1> QED
  BY <1>12, <1>13, <1>14, <1>15 DEF Check

\* Appending an entry that is not yet live to the region in use.
LEMMA LogAppend ==
    ASSUME LogInv, info.base \in Regions, NEW e \in Entry, AppendEntry(e),
           MayAppend(log[info.base], e), e.kind # "key" \/ e.st # "live"
    PROVE  /\ \A q \in Regions : GoodLog(log'[q]) /\ ValuesOf(log[q]) \subseteq ValuesOf(log'[q])
           /\ KeysOf(log'[info.base]) = KeysOf(log[info.base])
           /\ \A k : Fresh(log[info.base], k) => Fresh(log'[info.base], k)
           /\ LastOf(log'[info.base]) = e
           /\ TornAt(log'[info.base]) <=> e.kind = "torn"
           /\ EndOf(log'[info.base]) = IF e.kind = "torn" THEN e.addr ELSE e.addr + e.size
<1> DEFINE s == log[info.base]
           t == Append(s, e)
<1>1. s \in Seq(Entry) /\ GoodLog(s) /\ Chained(s)
  BY BaseFacts
<1>2. log \in [Regions -> Seq(Entry)] /\ \A q \in Regions : GoodLog(log[q])
  BY DEF LogInv, TypeInv, TypeOK
<1>3. log'[info.base] = t /\ \A q \in Regions : q # info.base => log'[q] = log[q]
  BY <1>2 DEF AppendEntry
<1>4. GoodLog(t) /\ KeysOf(t) = KeysOf(s) /\ \A k : Fresh(s, k) => Fresh(t, k)
  BY <1>1, AppendOther
<1>5. ValuesOf(s) \subseteq ValuesOf(t) /\ LastOf(t) = e
  BY <1>1, AppendReads
<1>6. /\ TornAt(t) <=> e.kind = "torn"
      /\ EndOf(t) = IF e.kind = "torn" THEN e.addr ELSE e.addr + e.size
  BY <1>1, AppendChain DEF MayAppend
<1> HIDE DEF t
<1>7. \A q \in Regions : GoodLog(log'[q]) /\ ValuesOf(log[q]) \subseteq ValuesOf(log'[q])
  BY <1>2, <1>3, <1>4, <1>5
<1> QED
  BY <1>3, <1>4, <1>5, <1>6, <1>7

\* A left-over header that becomes an entry of the log, at its size or less.
LEMMA LogSeal ==
    ASSUME LogInv, NEW n \in Nat, n <= info.left, log' = Sealed(n)
    PROVE  /\ \A q \in Regions : GoodLog(log'[q]) /\ ValuesOf(log[q]) \subseteq ValuesOf(log'[q])
           /\ \A q \in Regions : q # info.base => log'[q] = log[q]
           /\ info.left # 0 =>
                 /\ info.base \in Regions /\ AppendEntry(LeftEntry(info.end, n))
                 /\ MayAppend(log[info.base], LeftEntry(info.end, n))
                 /\ LeftEntry(info.end, n) \in Entry /\ LeftEntry(info.end, n).kind = "pad"
           /\ info.left = 0 => log' = log
<1>1. CASE info.left = 0
  BY <1>1 DEF Sealed, LogInv
<1>2. CASE info.left # 0
  <2> DEFINE e == LeftEntry(info.end, n)
  <2>1. info.base \in Regions /\ TypeOK /\ ~TornAt(log[info.base])
        /\ info.end + info.left <= RegionSize /\ info.left \in Nat /\ info.end \in Nat
    BY <1>2 DEF LogInv, EndInv, TypeInv, TypeOK, Mounted
  <2>2. e \in Entry /\ e.kind = "pad" /\ e.addr = info.end /\ e.size = n /\ e.id = 0
    BY <2>1, SealedType DEF LeftEntry, PadEntry
  <2>3. AppendEntry(e)
    BY <1>2 DEF Sealed, AppendEntry
  <2> HIDE DEF e
  <2>4. MayAppend(log[info.base], e)
    <3>1. info.end + n <= RegionSize /\ 0 <= MaxKeyId /\ info.end = EndOf(log[info.base])
          /\ GoodLog(log[info.base])
      BY <2>1, BaseFacts, RegionAssumption, IdAssumption
    <3> QED
      BY <2>1, <2>2, <3>1 DEF MayAppend, SizedEntry
  <2>5. \A q \in Regions : GoodLog(log'[q]) /\ ValuesOf(log[q]) \subseteq ValuesOf(log'[q])
    BY <2>1, <2>2, <2>3, <2>4, LogAppend
  <2>6. \A q \in Regions : q # info.base => log'[q] = log[q]
    BY <2>1, <2>3 DEF AppendEntry, TypeOK
  <2> QED
    BY <1>2, <2>1, <2>2, <2>3, <2>4, <2>5, <2>6 DEF e
<1> QED
  BY <1>1, <1>2

\* The application reformats the area.
LEMMA LogReformat ==
    ASSUME LogInv, Reformat, TypeInv'
    PROVE  LogInv'
<1>1. ~Mounted' /\ pc' = "create0" /\ log' = Sealed(info.left) /\ info'.left = 0
  BY DEF Reformat, NoInfo, Mounted
<1>2. EndInv'
  BY <1>1 DEF EndInv
<1>3. \A q \in Regions : GoodLog(log'[q])
  <2>1. info.left \in Nat /\ info.left <= info.left
    BY DEF LogInv, TypeInv, TypeOK
  <2> QED
    BY <1>1, <2>1, LogSeal
<1> QED
  BY <1>1, <1>2, <1>3, QuietStep DEF LogInv, Quiet, BootStates

-----------------------------------------------------------------------------
(* The invariant holds: _compact_params.                                   *)

\* A pair is a key and then a value.
LEMMA PairAppend ==
    ASSUME NEW t \in Seq(Entry), NEW e \in Entry, NEW f \in Entry
    PROVE  t \o <<e, f>> = Append(Append(t, e), f)
<1> DEFINE u == t \o <<e, f>>
           w == Append(Append(t, e), f)
<1>1. u \in Seq(Entry) /\ w \in Seq(Entry) /\ Len(u) = Len(t) + 2 /\ Len(w) = Len(t) + 2
  OBVIOUS
<1>2. \A i \in 1 .. Len(t) + 2 : u[i] = w[i]
  OBVIOUS
<1>3. DOMAIN u = 1 .. Len(t) + 2 /\ DOMAIN w = 1 .. Len(t) + 2
  BY <1>1
<1> HIDE DEF u, w
<1>4. u = w
  BY <1>1, <1>2, <1>3
<1> QED
  BY <1>4 DEF u, w

\* Steps of a compaction keep what is known of the call, if they leave the
\* region in use alone and a key id that is given up is replaced by another.
LEMMA CompactCall ==
    ASSUME LogInv, Compacting, Compacting', UNCHANGED <<info, op, old>>, copy'.then = copy.then,
           log'[info.base] = log[info.base], info.base \in Regions,
           keyId' <= MaxKeyId, keyId' = 0 <=> keyId = 0
    PROVE  (EndInv /\ CallInv /\ LastInv)'
<1>1. pc \in {"format", "copy", "retire"} /\ pc' \in {"format", "copy", "retire"}
  BY DEF Compacting
<1>2. EndInv'
  BY <1>1, EndSame DEF LogInv, BootStates
<1>3. LastInv'
  BY <1>1 DEF LastInv
<1>4. Needed' = Needed
  BY DEF Needed
<1>5. HasRoom' => HasRoom
  BY <1>1 DEF HasRoom, Compacting
<1>6. HasId' => HasId
  BY <1>1 DEF HasId, Compacting
<1>7. /\ keyId = 0 => Fresh(log[info.base], op.key)
      /\ old.pos # 0 => old.pos \in ValuesOf(log[old.region]) /\ old.region = info.base
      /\ HasRoom => info.end + Needed <= RegionSize
      /\ HasId /\ keyId = 0 => Cardinality(KeysOf(log[info.base])) < MaxKeyId
      /\ copy.then = "force" /\ keyId = 0 => Cardinality(ValuesOf(log[info.base])) < MaxKeyId
  BY <1>1 DEF LogInv, CallInv, Setting, Compacting
<1>8. CallInv'
  BY <1>1, <1>4, <1>5, <1>6, <1>7 DEF CallInv
<1> QED
  BY <1>2, <1>3, <1>8

\* The pair that the iterator delivers next.
LEMMA NextPair ==
    ASSUME TypeOK, info.base \in Regions, RemainingPairs # {}
    PROVE  LET s == log[info.base]
               i == FirstOf(RemainingPairs)
           IN  /\ i \in KeysOf(s) /\ i > copy.pos /\ FindValueOf(s, i) # 0 /\ i \in Nat
               /\ \A k \in KeysOf(s) : k > copy.pos /\ FindValueOf(s, k) # 0 => i <= k
<1> DEFINE s == log[info.base]
           i == FirstOf(RemainingPairs)
<1>1. RemainingPairs = {k \in KeysOf(s) : k > copy.pos /\ FindValueOf(s, k) # 0}
  BY ReadsOf DEF RemainingPairs
<1>2. KeysOf(s) \subseteq Nat \ {0}
  BY SeqFacts, EntryType
<1>3. RemainingPairs \in SUBSET (Nat \ {0})
  BY <1>1, <1>2
<1>4. i \in RemainingPairs /\ \A k \in RemainingPairs : i <= k
  BY <1>3, FirstOfType
<1> HIDE DEF i
<1> QED
  BY <1>1, <1>2, <1>4 DEF i

\* The pair fits: the entries of the new region together are no longer than
\* the pairs of the old one that they are copies of.
LEMMA CopyRoom ==
    ASSUME LogInv, pc = "copy", RemainingPairs # {}, info.base \in Regions
    PROVE  LET s == log[info.base]
               t == log[Other(info.base)]
               i == FirstOf(RemainingPairs)
               j == FindValueOf(s, i)
           IN  /\ EndOf(t) \in Nat /\ s[i].size \in Nat /\ s[j].size \in Nat
               /\ EndOf(t) + s[i].size + s[j].size <=
                     HdrSize + Cardinality(WordsOf(s, CopiedKeys(s, i)))
                             + Cardinality(WordsOf(s, CopiedValues(s, i)))
               /\ EndOf(t) + s[i].size + s[j].size <= RegionSize
               /\ Cardinality(CopiedKeys(s, i)) = copy.id + 1
               /\ Cardinality(CopiedValues(s, i)) = copy.id + 1
               /\ copy.id + 1 <= MaxKeyId
<1> DEFINE s == log[info.base]
           t == log[Other(info.base)]
           i == FirstOf(RemainingPairs)
           j == FindValueOf(s, i)
           V(p) == Cardinality(WordsOf(s, CopiedKeys(s, p)))
           W(p) == Cardinality(WordsOf(s, CopiedValues(s, p)))
<1>1. /\ s \in Seq(Entry) /\ GoodLog(s) /\ Chained(s) /\ Numbered(s) /\ Sized(s)
      /\ t \in Seq(Entry) /\ Chained(t) /\ copy.pos \in Nat /\ copy.id \in Nat /\ TypeOK
  BY BaseFacts DEF LogInv, TypeInv, TypeOK, GoodLog
<1>2. /\ i \in KeysOf(s) /\ i > copy.pos /\ j # 0 /\ i \in Nat
      /\ \A k \in KeysOf(s) : k > copy.pos /\ FindValueOf(s, k) # 0 => i <= k
  BY <1>1, NextPair
<1>3. /\ EndOf(t) <= HdrSize + V(copy.pos) + W(copy.pos)
      /\ Cardinality(CopiedKeys(s, copy.pos)) = copy.id
      /\ Cardinality(CopiedValues(s, copy.pos)) = copy.id
  BY DEF LogInv, CopyInv
<1>4. j \in ValuesOf(s)
  BY <1>1, <1>2, FindFacts
<1>5. s[i].size \in Nat /\ s[j].size \in Nat
  BY <1>1, <1>2, <1>4, SeqFacts DEF KeysOf, ValuesOf
<1>6. EndOf(t) \in Nat
  BY <1>1, EndBound
<1>7. V(copy.pos) \in Nat /\ W(copy.pos) \in Nat
  <2>1. CopiedKeys(s, copy.pos) \in SUBSET KeysOf(s) /\ CopiedValues(s, copy.pos) \in SUBSET ValuesOf(s)
    BY <1>1, CopiedType
  <2>2. /\ CopiedKeys(s, copy.pos) \in SUBSET (DOMAIN s)
        /\ CopiedValues(s, copy.pos) \in SUBSET (DOMAIN s)
        /\ \A k \in CopiedKeys(s, copy.pos) : s[k].kind # "torn"
        /\ \A k \in CopiedValues(s, copy.pos) : s[k].kind # "torn"
    BY <2>1 DEF KeysOf, ValuesOf
  <2> QED
    BY <1>1, <2>2, WordsType
<1> HIDE DEF i, s, t
<1>8. /\ Cardinality(CopiedKeys(s, i)) = Cardinality(CopiedKeys(s, copy.pos)) + 1
      /\ Cardinality(CopiedValues(s, i)) = Cardinality(CopiedValues(s, copy.pos)) + 1
      /\ V(i) = V(copy.pos) + s[i].size
      /\ W(i) = W(copy.pos) + s[j].size
  BY <1>1, <1>2, CopiedNext
<1>9. /\ Cardinality(CopiedKeys(s, i)) <= Cardinality(KeysOf(s))
      /\ Cardinality(CopiedKeys(s, i)) \in Nat
      /\ HdrSize + V(i) + W(i) <= EndOf(s)
  BY <1>1, <1>2, CopiedType
<1>10. EndOf(s) <= RegionSize /\ EndOf(s) \in Nat /\ Cardinality(KeysOf(s)) <= MaxKeyId
       /\ Cardinality(KeysOf(s)) \in Nat /\ MaxKeyId \in Nat /\ RegionSize \in Nat
  BY <1>1, EndBound, KeysBound, CountKeys, IdAssumption, RegionAssumption
<1> HIDE DEF V, W, j
<1>11. EndOf(t) + s[i].size + s[j].size <= HdrSize + V(i) + W(i)
  BY <1>3, <1>5, <1>6, <1>7, <1>8 DEF HdrSize
<1>12. EndOf(t) + s[i].size + s[j].size <= RegionSize
  <2>1. V(i) \in Nat /\ W(i) \in Nat
    BY <1>5, <1>7, <1>8
  <2> QED
    BY <1>5, <1>6, <1>9, <1>10, <1>11, <2>1 DEF HdrSize
<1>13. copy.id + 1 <= MaxKeyId
  BY <1>1, <1>3, <1>8, <1>9, <1>10
<1> QED
  BY <1>3, <1>5, <1>6, <1>8, <1>11, <1>12, <1>13 DEF V, W, i, s, t, j

\* Copying a pair keeps the invariant.
LEMMA LogCopy ==
    ASSUME LogInv, CompactCopy, TypeInv'
    PROVE  LogInv'
<1> DEFINE r == info.base
           new == Other(r)
           s == log[r]
           t == log[new]
           i == FirstOf(RemainingPairs)
           j == FindValueOf(s, i)
           id == copy.id + 1
           key == KeyEntry(EndOf(t), id, s[i].data, "live")
           val == ValueEntry(key.addr + key.size, id, s[j].data, "live")
           t1 == Append(t, key)
           t2 == Append(t1, val)
<1>1. /\ pc = "copy" /\ RemainingPairs # {} /\ r \in Regions /\ TypeOK
  BY DEF CompactCopy, LogInv, TypeInv, CallOK, Setting
<1>2. /\ s \in Seq(Entry) /\ GoodLog(s) /\ Numbered(s) /\ Sized(s) /\ Distinct(s)
      /\ t \in Seq(Entry) /\ GoodLog(t) /\ new \in Regions /\ new # r
      /\ copy.pos \in Nat /\ copy.id \in Nat /\ keyId \in Nat
  BY <1>1, BaseFacts DEF TypeOK
<1>3. i \in KeysOf(s) /\ i > copy.pos /\ j # 0 /\ i \in Nat
  BY <1>1, NextPair
<1>4. j \in ValuesOf(s)
  BY <1>2, <1>3, FindFacts
<1>5. /\ EndOf(t) \in Nat /\ s[i].size \in Nat /\ s[j].size \in Nat
      /\ EndOf(t) + s[i].size + s[j].size <=
            HdrSize + Cardinality(WordsOf(s, CopiedKeys(s, i)))
                    + Cardinality(WordsOf(s, CopiedValues(s, i)))
      /\ EndOf(t) + s[i].size + s[j].size <= RegionSize
      /\ Cardinality(CopiedKeys(s, i)) = id
      /\ Cardinality(CopiedValues(s, i)) = id
      /\ id <= MaxKeyId
  BY <1>1, CopyRoom
<1>6. /\ ~TornAt(t)
      /\ Cardinality(KeysOf(t)) = copy.id
      /\ \A m \in KeysOf(t) : \E k \in KeysOf(s) : k <= copy.pos /\ t[m].data = s[k].data
  BY <1>1 DEF LogInv, CopyInv
<1>7. ScanEnd(new) = EndOf(t) /\ FindValue(r, i) = j
  BY ReadsOf
<1>8. /\ copy' = [copy EXCEPT !.pos = i, !.id = id]
      /\ \/ s[i].id = keyId /\ keyId' = id /\ log' = [log EXCEPT ![new] = Append(@, key)]
         \/ s[i].id # keyId /\ keyId' = keyId /\ log' = [log EXCEPT ![new] = @ \o <<key, val>>]
      /\ UNCHANGED <<info, pc, op, old>>
  BY <1>7 DEF CompactCopy
<1>9. s[i].data \in Keys /\ s[j].data \in Values /\ s[i].id \in Nat
  BY <1>1, <1>3, <1>4, ScanType, ReadsOf
<1>10. s[i].size = EntrySize(KeyLen[s[i].data]) /\ s[j].size = EntrySize(ValLen[s[j].data])
  BY <1>2, <1>3, <1>4 DEF Sized, KeysOf, ValuesOf
<1>11. /\ key \in Entry /\ key.addr = EndOf(t) /\ key.size = s[i].size /\ key.id = id
       /\ key.data = s[i].data /\ key.kind = "key" /\ key.st = "live"
  <2>1. key \in Entry
    BY <1>2, <1>5, <1>9, NewEntryType
  <2> QED
    BY <1>10, <2>1 DEF KeyEntry
<1>12. /\ val \in Entry /\ val.addr = EndOf(t) + s[i].size /\ val.size = s[j].size /\ val.id = id
       /\ val.data = s[j].data /\ val.kind = "value" /\ val.st = "live"
  <2>1. val \in Entry
    <3> HIDE DEF key
    <3> DEFINE addr == key.addr + key.size
    <3>1. id \in Nat
      BY <1>2
    <3> HIDE DEF id
    <3>2. addr \in Nat
      BY <1>5, <1>11
    <3> HIDE DEF addr
    <3>3. ValueEntry(addr, id, s[j].data, "live") \in Entry
      BY <1>9, <3>1, <3>2, NewEntryType
    <3> QED
      BY <3>3 DEF addr
  <2> QED
    BY <1>10, <1>11, <2>1 DEF ValueEntry
<1>13. Fresh(t, key.data)
  <2> SUFFICES ASSUME NEW m \in KeysOf(t) PROVE t[m].data # s[i].data
    BY <1>11 DEF Fresh
  <2>1. PICK k \in KeysOf(s) : k <= copy.pos /\ t[m].data = s[k].data
    BY <1>6
  <2>2. k # i
    BY <1>2, <1>3, <2>1, SeqFacts
  <2> QED
    BY <1>2, <1>3, <2>1, <2>2 DEF Distinct
<1> HIDE DEF key, val, t, s, i, j
<1>14. MayAppend(t, key)
  <2>1. key.addr + key.size <= RegionSize
    BY <1>5, <1>11, RegionAssumption
  <2> QED
    BY <1>2, <1>5, <1>6, <1>10, <1>11, <2>1 DEF MayAppend, SizedEntry
<1>15. /\ GoodLog(t1) /\ Cardinality(KeysOf(t1)) = id
       /\ ~TornAt(t1) /\ EndOf(t1) = EndOf(t) + s[i].size /\ t1 \in Seq(Entry)
  <2>1. GoodLog(t1) /\ Cardinality(KeysOf(t1)) = id
    BY <1>2, <1>6, <1>11, <1>13, <1>14, AppendKey
  <2>2. Chained(t)
    BY <1>2 DEF GoodLog
  <2>3. ~TornAt(t1) /\ EndOf(t1) = EndOf(t) + s[i].size
    BY <1>2, <1>11, <1>14, <2>2, AppendChain DEF MayAppend
  <2> QED
    BY <1>2, <1>11, <2>1, <2>3, AppendReads
<1>16. \A m \in KeysOf(t1) : \E k \in KeysOf(s) : k <= i /\ t1[m].data = s[k].data
  <2> SUFFICES ASSUME NEW m \in KeysOf(t1) PROVE \E k \in KeysOf(s) : k <= i /\ t1[m].data = s[k].data
    OBVIOUS
  <2>1. m \in KeysOf(t) \/ m = Len(t) + 1
    BY <1>2, <1>11, AppendReads
  <2>2. CASE m \in KeysOf(t)
    <3>1. m \in DOMAIN t
      BY <2>2 DEF KeysOf
    <3>2. t1[m] = t[m]
      BY <1>2, <1>11, <3>1, AppendReads
    <3>3. PICK k \in KeysOf(s) : k <= copy.pos /\ t[m].data = s[k].data
      BY <1>6, <2>2
    <3>4. k <= i
      BY <1>2, <1>3, <3>3, SeqFacts
    <3> QED
      BY <3>2, <3>3, <3>4
  <2>3. CASE m = Len(t) + 1
    <3>1. t1[m] = key
      BY <1>2, <1>11, <2>3, AppendReads
    <3> QED
      BY <1>3, <1>11, <3>1
  <2> QED
    BY <2>1, <2>2, <2>3
<1> HIDE DEF t1
<1>17. MayAppend(t1, val)
  <2>1. val.addr + val.size <= RegionSize
    BY <1>5, <1>12, RegionAssumption
  <2> QED
    BY <1>5, <1>10, <1>12, <1>15, <2>1 DEF MayAppend, SizedEntry
<1>18. /\ GoodLog(t2) /\ KeysOf(t2) = KeysOf(t1) /\ \A m \in KeysOf(t1) : t2[m] = t1[m]
       /\ ~TornAt(t2) /\ EndOf(t2) = EndOf(t) + s[i].size + s[j].size
  <2>1. GoodLog(t2) /\ KeysOf(t2) = KeysOf(t1) /\ \A m \in KeysOf(t1) : t2[m] = t1[m]
    BY <1>12, <1>15, <1>17, AppendOther
  <2>2. Chained(t1)
    BY <1>15 DEF GoodLog
  <2>3. ~TornAt(t2) /\ EndOf(t2) = EndOf(t) + s[i].size + s[j].size
    BY <1>12, <1>15, <1>17, <2>2, AppendChain DEF MayAppend
  <2> QED
    BY <2>1, <2>3
<1> HIDE DEF t2
<1>19. /\ log'[new] \in {t1, t2} /\ log'[r] = s
       /\ copy'.pos = i /\ copy'.id = id /\ copy'.then = copy.then
       /\ keyId' <= MaxKeyId /\ (keyId' = 0 <=> keyId = 0)
  <2>1. log \in [Regions -> Seq(Entry)] /\ copy \in [pos : Nat, id : Nat, then : {"idle", "full", "force", "write"}]
    BY <1>1 DEF TypeOK
  <2>2. t \o <<key, val>> = t2
    BY <1>2, <1>11, <1>12, PairAppend DEF t1, t2
  <2>3. log'[new] \in {t1, t2} /\ log'[r] = s
    BY <1>1, <1>2, <1>8, <2>1, <2>2 DEF t1, t, s
  <2>4. copy'.pos = i /\ copy'.id = id /\ copy'.then = copy.then
    BY <1>8, <2>1
  <2>5. s[i].id # 0
    BY <1>2, <1>3, LastNumber, CountKeys
  <2>6. keyId <= MaxKeyId
    BY <1>1 DEF LogInv, CallInv, Setting
  <2> QED
    BY <1>2, <1>5, <1>8, <2>3, <2>4, <2>5, <2>6
<1>20. /\ GoodLog(log'[new]) /\ ~TornAt(log'[new]) /\ Cardinality(KeysOf(log'[new])) = id
       /\ EndOf(log'[new]) <= EndOf(t) + s[i].size + s[j].size
       /\ \A m \in KeysOf(log'[new]) : \E k \in KeysOf(s) : k <= i /\ log'[new][m].data = s[k].data
  <2>1. CASE log'[new] = t1
    BY <1>5, <1>15, <1>16, <2>1
  <2>2. CASE log'[new] = t2
    BY <1>5, <1>15, <1>16, <1>18, <2>2
  <2> QED
    BY <1>19, <2>1, <2>2
<1>21. (EndInv /\ CallInv /\ LastInv)'
  BY <1>1, <1>8, <1>19, CompactCall DEF Compacting, s
<1>22. CopyInv'
  <2>1. EndOf(log'[new]) <= HdrSize + Cardinality(WordsOf(s, CopiedKeys(s, i)))
                                    + Cardinality(WordsOf(s, CopiedValues(s, i)))
    <3> DEFINE V == Cardinality(WordsOf(s, CopiedKeys(s, i)))
               W == Cardinality(WordsOf(s, CopiedValues(s, i)))
    <3>1. V \in Nat /\ W \in Nat /\ EndOf(log'[new]) \in Nat
      <4>1. /\ CopiedKeys(s, i) \in SUBSET KeysOf(s) /\ CopiedValues(s, i) \in SUBSET ValuesOf(s)
            /\ Chained(s)
        BY <1>2, <1>3, CopiedType DEF GoodLog
      <4>2. /\ CopiedKeys(s, i) \in SUBSET (DOMAIN s) /\ CopiedValues(s, i) \in SUBSET (DOMAIN s)
            /\ \A k \in CopiedKeys(s, i) : s[k].kind # "torn"
            /\ \A k \in CopiedValues(s, i) : s[k].kind # "torn"
        BY <4>1 DEF KeysOf, ValuesOf
      <4>3. V \in Nat /\ W \in Nat
        BY <1>2, <4>1, <4>2, WordsType
      <4>4. EndOf(log'[new]) \in Nat
        BY <1>5, <1>15, <1>18, <1>19
      <4> QED
        BY <4>3, <4>4
    <3> HIDE DEF V, W
    <3> QED
      BY <1>5, <1>20, <3>1 DEF HdrSize, V, W
  <2>2. pc' = "copy" /\ info' = info
    BY <1>1, <1>8
  <2>3. log'[info'.base] = s /\ log'[Other(info'.base)] = log'[new]
    BY <1>19, <2>2
  <2> QED
    BY <1>5, <1>19, <1>20, <2>1, <2>2, <2>3 DEF CopyInv
<1>23. \A q \in Regions : GoodLog(log'[q])
  <2>1. \A q \in Regions : q = r \/ q = new
    BY <1>1, <1>2 DEF Regions, Other
  <2> QED
    BY <1>2, <1>19, <1>20, <2>1
<1> QED
  BY <1>21, <1>22, <1>23 DEF LogInv

\* A compaction keeps the invariant.
LEMMA LogCompact ==
    ASSUME LogInv, Compact, TypeInv'
    PROVE  LogInv'
<1> DEFINE r == info.base
           new == Other(r)
           s == log[r]
           t == log[new]
<1>1. /\ pc \in {"format", "copy", "retire"} /\ r \in Regions /\ TypeOK
      /\ copy.then \in {"full", "force", "write"}
      /\ op.key \in Keys /\ op.val \in Values
  BY DEF Compact, CompactFormat, CompactCopy, CompactActivate, CompactRetire, LogInv, TypeInv,
         CallOK, Setting
<1>2. /\ s \in Seq(Entry) /\ GoodLog(s)
      /\ t \in Seq(Entry) /\ GoodLog(t) /\ new \in Regions /\ new # r
      /\ \A q \in Regions : q = r \/ q = new
      /\ log \in [Regions -> Seq(Entry)] /\ copy.pos \in Nat /\ copy.id \in Nat /\ keyId \in Nat
      /\ info.end = EndOf(s) /\ info.end \in Nat
  BY <1>1, BaseFacts DEF TypeOK, Regions, Other
<1>3. keyId <= MaxKeyId
  BY <1>1 DEF LogInv, CallInv, Setting
<1>4. CASE CompactFormat
  <2>1. /\ pc = "format" /\ pc' = "copy" /\ UNCHANGED <<info, op, keyId, old, copy>>
        /\ log' = [log EXCEPT ![new] = <<>>]
    BY <1>4 DEF CompactFormat, Format, call
  <2>2. log'[r] = s /\ log'[new] = <<>>
    BY <1>1, <1>2, <2>1
  <2>3. (EndInv /\ CallInv /\ LastInv)'
    BY <1>1, <1>3, <2>1, <2>2, CompactCall DEF Compacting
  <2>4. \A q \in Regions : GoodLog(log'[q])
    BY <1>2, <2>2, GoodEmpty
  <2>5. CopyInv'
    <3>1. copy'.pos = 0 /\ copy'.id = 0
      BY <2>1 DEF LogInv, CopyInv
    <3>2. /\ ~TornAt(<<>>) /\ Cardinality(KeysOf(<<>>)) = 0 /\ KeysOf(<<>>) = {}
          /\ EndOf(<<>>) = HdrSize
      BY GoodEmpty, FS_EmptySet
    <3>3. /\ Cardinality(CopiedKeys(s, 0)) = 0 /\ Cardinality(CopiedValues(s, 0)) = 0
          /\ HdrSize <= HdrSize + Cardinality(WordsOf(s, CopiedKeys(s, 0)))
                                + Cardinality(WordsOf(s, CopiedValues(s, 0)))
      BY <1>2, CopiedNone DEF HdrSize
    <3> HIDE DEF s, t
    <3>4. log'[info'.base] = s /\ log'[Other(info'.base)] = <<>> /\ pc' = "copy"
      BY <2>1, <2>2
    <3> QED
      BY <3>1, <3>2, <3>3, <3>4 DEF CopyInv
  <2> QED
    BY <2>3, <2>4, <2>5 DEF LogInv
<1>5. CASE CompactCopy
  BY <1>5, LogCopy
<1>6. CASE CompactActivate
  <2>1. pc = "copy" /\ pc' = "retire" /\ UNCHANGED <<log, info, op, keyId, old, copy>>
    BY <1>6 DEF CompactActivate, call
  <2>2. (EndInv /\ CallInv /\ LastInv)'
    BY <1>1, <1>3, <2>1, CompactCall DEF Compacting
  <2>3. CopyInv'
    BY <2>1 DEF LogInv, CopyInv
  <2> QED
    BY <2>1, <2>2, <2>3 DEF LogInv
<1>7. CASE CompactRetire
  <2>1. /\ pc = "retire" /\ pc' = copy.then /\ UNCHANGED <<op, keyId>>
        /\ info' = [base |-> new, end |-> EndOf(t), force |-> FALSE, left |-> 0]
        /\ log' = Sealed(info.left)
        /\ copy' = NoCopy
        /\ old' = IF copy.then = "write" THEN old ELSE NoOld
    BY <1>7, ReadsOf DEF CompactRetire
  <2>2. /\ ~TornAt(t) /\ Cardinality(KeysOf(t)) = copy.id
        /\ Cardinality(CopiedKeys(s, copy.pos)) = copy.id
        /\ Cardinality(CopiedValues(s, copy.pos)) = copy.id
        /\ \A m \in KeysOf(t) : \E k \in KeysOf(s) : k <= copy.pos /\ t[m].data = s[k].data
        /\ EndOf(t) <= HdrSize + Cardinality(WordsOf(s, CopiedKeys(s, copy.pos)))
                               + Cardinality(WordsOf(s, CopiedValues(s, copy.pos)))
    BY <2>1 DEF LogInv, CopyInv
  <2>3. /\ copy.id <= Cardinality(KeysOf(s)) /\ copy.id <= Cardinality(ValuesOf(s))
        /\ Cardinality(KeysOf(s)) \in Nat /\ Cardinality(ValuesOf(s)) \in Nat
    <3>1. /\ Cardinality(CopiedKeys(s, copy.pos)) <= Cardinality(KeysOf(s))
          /\ Cardinality(CopiedValues(s, copy.pos)) <= Cardinality(ValuesOf(s))
      BY <1>2, CopiedType
    <3>2. Cardinality(KeysOf(s)) \in Nat /\ Cardinality(ValuesOf(s)) \in Nat
      BY <1>2, CountKeys
    <3> QED
      BY <2>2, <3>1, <3>2
  <2>4. EndOf(t) <= EndOf(s)
    <3> DEFINE V == Cardinality(WordsOf(s, CopiedKeys(s, copy.pos)))
               W == Cardinality(WordsOf(s, CopiedValues(s, copy.pos)))
    <3>1. /\ CopiedKeys(s, copy.pos) \in SUBSET KeysOf(s)
          /\ CopiedValues(s, copy.pos) \in SUBSET ValuesOf(s)
          /\ HdrSize + V + W <= EndOf(s)
      BY <1>2, CopiedType
    <3>2. /\ CopiedKeys(s, copy.pos) \in SUBSET (DOMAIN s)
          /\ CopiedValues(s, copy.pos) \in SUBSET (DOMAIN s)
          /\ \A k \in CopiedKeys(s, copy.pos) : s[k].kind # "torn"
          /\ \A k \in CopiedValues(s, copy.pos) : s[k].kind # "torn"
      BY <3>1 DEF KeysOf, ValuesOf
    <3>3. Chained(s) /\ Chained(t)
      BY <1>2 DEF GoodLog
    <3>4. V \in Nat /\ W \in Nat
      BY <1>2, <3>2, <3>3, WordsType
    <3>5. EndOf(s) \in Nat /\ EndOf(t) \in Nat
      BY <1>2, <3>3, EndBound
    <3>6. EndOf(t) <= HdrSize + V + W
      BY <2>2
    <3> HIDE DEF V, W, s, t
    <3> QED
      BY <3>1, <3>4, <3>5, <3>6 DEF HdrSize
  <2>5. EndOf(t) \in Nat
    BY <1>2, EndBound DEF GoodLog
  <2>14. /\ \A q \in Regions : GoodLog(log'[q]) /\ ValuesOf(log[q]) \subseteq ValuesOf(log'[q])
         /\ log'[new] = t
    <3>1. info.left \in Nat /\ info.left <= info.left
      BY <1>1 DEF TypeOK
    <3> QED
      BY <1>2, <2>1, <3>1, LogSeal
  <2>6. /\ Mounted' /\ info'.base = new /\ info'.end = EndOf(t) /\ log'[info'.base] = t
        /\ pc' \in {"full", "force", "write"} /\ info'.left = 0
        /\ copy'.then = "idle"
    BY <1>1, <1>2, <2>1, <2>14 DEF Mounted, NoRegion, Regions, NoCopy
  <2> HIDE DEF s, t, new
  <2>7. EndInv'
    BY <2>2, <2>6 DEF EndInv, BootStates
  <2>8. (LastInv /\ CopyInv)'
    BY <2>6 DEF LastInv, CopyInv
  <2>9. keyId' = 0 => Fresh(t, op'.key)
    <3>1. keyId = 0 => Fresh(s, op.key)
      BY <2>1 DEF LogInv, CallInv, Setting, s
    <3> QED
      BY <2>1, <2>2, <3>1 DEF Fresh
  <2>10. old'.pos # 0 => /\ copy.then = "write" /\ old' = old
                         /\ old'.pos \in ValuesOf(log'[old'.region])
    BY <1>1, <2>1, <2>14 DEF LogInv, CallInv, Setting, NoOld, TypeOK
  <2>11. HasRoom' => info'.end + Needed' <= RegionSize
    <3>1. CASE copy.then \in {"force", "write"}
      <4>1. info.end + Needed <= RegionSize
        BY <2>1, <3>1 DEF LogInv, CallInv, HasRoom, Compacting
      <4>2. Needed' = Needed /\ Needed \in Nat
        <5>1. EntrySize(ValLen[op.val]) \in Nat /\ EntrySize(KeyLen[op.key]) \in Nat
          BY <1>1, LenAssumption DEF EntrySize
        <5> QED
          BY <2>1, <5>1 DEF Needed
      <4> QED
        BY <1>2, <2>4, <2>5, <2>6, <4>1, <4>2, RegionAssumption
    <3>2. CASE copy.then = "full"
      BY <2>1, <2>6, <3>2 DEF HasRoom, Compacting
    <3> QED
      BY <1>1, <3>1, <3>2
  <2>12. HasId' /\ keyId' = 0 => Cardinality(KeysOf(t)) < MaxKeyId
    <3>1. CASE copy.then = "write"
      <4>1. keyId = 0 => Cardinality(KeysOf(s)) < MaxKeyId
        BY <2>1, <3>1 DEF LogInv, CallInv, HasId, Compacting, s
      <4> QED
        BY <1>2, <2>1, <2>2, <2>3, <4>1, IdAssumption
    <3>2. CASE copy.then = "force"
      <4>1. keyId = 0 => Cardinality(ValuesOf(s)) < MaxKeyId
        BY <2>1, <3>2 DEF LogInv, CallInv, Compacting, s
      <4> QED
        BY <1>2, <2>1, <2>2, <2>3, <4>1, IdAssumption
    <3>3. CASE copy.then = "full"
      BY <2>1, <2>6, <3>3 DEF HasId, Compacting
    <3> QED
      BY <1>1, <3>1, <3>2, <3>3
  <2>13. CallInv'
    BY <1>3, <2>1, <2>6, <2>9, <2>10, <2>11, <2>12 DEF CallInv, Compacting
  <2> QED
    BY <2>1, <2>7, <2>8, <2>13, <2>14 DEF LogInv
<1> QED
  BY <1>4, <1>5, <1>6, <1>7 DEF Compact

-----------------------------------------------------------------------------
(* The invariant holds: the writes of entries.                             *)

\* Making the last entry of the region in use valid.
LEMMA LogValidate ==
    ASSUME LogInv, pc \in {"validateKey", "validateValue"}, Validate, TypeInv'
    PROVE  /\ \A q \in Regions : GoodLog(log'[q]) /\ ValuesOf(log[q]) \subseteq ValuesOf(log'[q])
           /\ EndOf(log'[info.base]) = EndOf(log[info.base])
           /\ ~TornAt(log'[info.base]) /\ ~TornAt(log[info.base])
<1> DEFINE s == log[info.base]
           t == log'[info.base]
<1>1. info.base \in Regions /\ s # <<>> /\ LastOf(s).st = "new"
  BY DEF LogInv, TypeInv, CallOK, Setting
<1>2. s \in Seq(Entry) /\ GoodLog(s) /\ log \in [Regions -> Seq(Entry)]
      /\ \A q \in Regions : GoodLog(log[q])
  BY <1>1, BaseFacts DEF LogInv, TypeInv, TypeOK
<1>3. t \in Seq(Entry)
  BY <1>1 DEF TypeInv, TypeOK
<1>4. t = [s EXCEPT ![Len(s)].st = "live"] /\ \A q \in Regions : q # info.base => log'[q] = log[q]
  BY <1>1, <1>2 DEF Validate
<1>5. /\ Len(t) = Len(s) /\ \A i \in DOMAIN s : i # Len(s) => t[i] = s[i]
      /\ t[Len(s)] = [s[Len(s)] EXCEPT !.st = "live"]
  <2>1. Len(s) \in DOMAIN s
    BY <1>1, <1>2, SeqFacts
  <2>2. DOMAIN t = DOMAIN s
    BY <1>4
  <2> QED
    BY <1>2, <1>3, <1>4, <2>1, <2>2, SeqFacts
<1>6. \/ LastOf(s).kind = "value"
      \/ /\ LastOf(s).kind = "key"
         /\ LastOf(s).id = Cardinality(KeysOf(s)) + 1
         /\ Fresh(s, LastOf(s).data)
  BY DEF LogInv, LastInv
<1> HIDE DEF s, t
<1>7. GoodLog(t) /\ EndOf(t) = EndOf(s) /\ ~TornAt(t) /\ ValuesOf(s) \subseteq ValuesOf(t)
  BY <1>1, <1>2, <1>3, <1>5, <1>6, ValidateLog DEF s
<1>8. ~TornAt(s)
  BY <1>6 DEF TornAt
<1> QED
  BY <1>2, <1>4, <1>7, <1>8 DEF s, t

\* Deleting the old value.
LEMMA LogDelete ==
    ASSUME LogInv, pc = "delete", MarkDeleted, TypeInv'
    PROVE  \A q \in Regions : /\ GoodLog(log'[q]) /\ EndOf(log'[q]) = EndOf(log[q])
                              /\ TornAt(log'[q]) <=> TornAt(log[q])
<1> DEFINE p == old.pos
           s == log[old.region]
           t == log'[old.region]
<1>1. /\ old.region \in Regions /\ p \in Nat /\ log \in [Regions -> Seq(Entry)]
      /\ \A q \in Regions : GoodLog(log[q]) /\ log[q] \in Seq(Entry) /\ log'[q] \in Seq(Entry)
  BY DEF LogInv, TypeInv, TypeOK
<1>2. p # 0 => p \in ValuesOf(s)
  BY DEF LogInv, CallInv
<1>3. t = [s EXCEPT ![p] = Deleted(s[p])] /\ \A q \in Regions : q # old.region => log'[q] = log[q]
  BY <1>1 DEF MarkDeleted
<1>4. CASE p = 0
  <2>1. 0 \notin DOMAIN s
    BY <1>1, SeqFacts
  <2>2. t = s
    BY <1>1, <1>3, <1>4, <2>1
  <2> QED
    BY <1>1, <1>3, <2>2
<1>5. CASE p # 0
  <2>1. s \in Seq(Entry) /\ t \in Seq(Entry) /\ GoodLog(s) /\ p \in ValuesOf(s)
    BY <1>1, <1>2, <1>5
  <2>2. GoodLog(t) /\ EndOf(t) = EndOf(s) /\ (TornAt(t) <=> TornAt(s))
    BY <1>3, <2>1, DeleteLog
  <2> QED
    BY <1>1, <1>3, <2>2
<1> QED
  BY <1>4, <1>5

\* What is known when an entry is about to be written.
LEMMA WriteFacts ==
    ASSUME LogInv, pc = "write"
    PROVE  /\ info.base \in Regions /\ op.key \in Keys /\ op.val \in Values /\ TypeOK
           /\ info.end = EndOf(log[info.base]) /\ info.end \in Nat
           /\ GoodLog(log[info.base]) /\ ~TornAt(log[info.base])
           /\ info.end + Needed <= RegionSize
           /\ EntrySize(ValLen[op.val]) \in Nat \ {0} /\ EntrySize(KeyLen[op.key]) \in Nat \ {0}
           /\ keyId \in Nat /\ keyId <= MaxKeyId
<1>1. info.base \in Regions /\ op.key \in Keys /\ op.val \in Values /\ TypeOK /\ keyId \in Nat
  BY DEF LogInv, TypeInv, TypeOK, CallOK, Setting
<1>2. /\ info.end + Needed <= RegionSize /\ ~TornAt(log[info.base]) /\ keyId <= MaxKeyId
  BY DEF LogInv, CallInv, EndInv, HasRoom, Setting
<1>3. EntrySize(ValLen[op.val]) \in Nat \ {0} /\ EntrySize(KeyLen[op.key]) \in Nat \ {0}
  BY <1>1, LenAssumption DEF EntrySize
<1> QED
  BY <1>1, <1>2, <1>3, BaseFacts

\* A header that is zeroed and skipped.
LEMMA LogSkip ==
    ASSUME LogInv, pc = "write", SkipHeader, TypeInv'
    PROVE  LogInv'
<1> DEFINE e == PadEntry(info.end)
<1>1. pc' = "return" /\ AppendEntry(e) /\ Advance(EntrySize(0))
  BY DEF SkipHeader, Finish
<1>2. /\ info.base \in Regions /\ TypeOK /\ info.end = EndOf(log[info.base])
      /\ info.end \in Nat /\ GoodLog(log[info.base]) /\ ~TornAt(log[info.base])
      /\ info.end + Needed <= RegionSize /\ Needed \in Nat \ {0}
  BY WriteFacts DEF Needed
<1>3. /\ e \in Entry /\ e.kind = "pad" /\ e.st = "dead" /\ e.addr = info.end /\ e.size = 1
      /\ e.id = 0
  <2>1. e \in Entry
    BY <1>2, NewEntryType
  <2> QED
    BY <2>1 DEF PadEntry, EntrySize
<1> HIDE DEF e
<1>4. MayAppend(log[info.base], e)
  <2>1. info.end + 1 <= RegionSize /\ 0 <= MaxKeyId
    BY <1>2, RegionAssumption, IdAssumption
  <2> QED
    BY <1>2, <1>3, <2>1 DEF MayAppend, SizedEntry
<1>5. /\ \A q \in Regions : GoodLog(log'[q])
      /\ ~TornAt(log'[info.base]) /\ EndOf(log'[info.base]) = info.end + 1
  BY <1>1, <1>2, <1>3, <1>4, LogAppend
<1>6. info'.base = info.base /\ info'.end = info.end + 1 /\ info'.left = 0
  <2>1. Advance(1) /\ 1 \in Nat
        /\ info \in [base : Regions \cup {NoRegion}, end : Nat, force : BOOLEAN, left : Nat]
    BY <1>1, <1>2 DEF EntrySize, TypeOK
  <2> QED
    BY <2>1, AdvanceType DEF Advance
<1>7. EndInv'
  BY <1>1, <1>5, <1>6 DEF EndInv, BootStates, Mounted
<1> QED
  BY <1>1, <1>5, <1>7, QuietStep DEF LogInv, Quiet

\* A new key.
LEMMA LogWriteKey ==
    ASSUME LogInv, WriteKey, TypeInv'
    PROVE  LogInv'
<1> DEFINE s == log[info.base]
           id == MaxIdOf(info.base) + 1
           e == KeyEntry(info.end, id, op.key, "new")
           K == EntrySize(KeyLen[op.key])
           V == EntrySize(ValLen[op.val])
<1>1. /\ pc = "write" /\ keyId = 0 /\ pc' = "validateKey" /\ AppendEntry(e) /\ keyId' = id
      /\ info' = [info EXCEPT !.end = @ + K, !.left = 0] /\ UNCHANGED <<op, old, copy>>
  BY DEF WriteKey, Advance
<1>2. /\ info.base \in Regions /\ op.key \in Keys /\ op.val \in Values /\ TypeOK
      /\ info.end = EndOf(s) /\ info.end \in Nat /\ GoodLog(s) /\ ~TornAt(s)
      /\ info.end + Needed <= RegionSize /\ V \in Nat \ {0} /\ K \in Nat \ {0}
  BY <1>1, WriteFacts
<1>3. Needed = V + K
  BY <1>1 DEF Needed
<1>4. id = Cardinality(KeysOf(s)) + 1 /\ Cardinality(KeysOf(s)) \in Nat
  BY <1>2, MaxIdIsCount, BaseFacts, CountKeys
<1>5. Cardinality(KeysOf(s)) < MaxKeyId /\ Fresh(s, op.key) /\ MaxKeyId \in Nat
  BY <1>1, IdAssumption DEF LogInv, CallInv, HasId, Setting
<1> HIDE DEF K, V
<1>6. id \in Nat /\ id # 0 /\ id <= MaxKeyId
  BY <1>4, <1>5
<1>7. /\ e \in Entry /\ e.kind = "key" /\ e.st = "new" /\ e.addr = info.end /\ e.size = K
      /\ e.id = id /\ e.data = op.key
  <2>1. e \in Entry
    BY <1>2, <1>6, NewEntryType
  <2> QED
    BY <2>1 DEF KeyEntry, K
<1> HIDE DEF e, id
<1>8. MayAppend(s, e)
  <2>1. e.addr + e.size <= RegionSize
    <3>1. info.end + (V + K) <= RegionSize /\ RegionSize \in Nat
      BY <1>2, <1>3, RegionAssumption
    <3> QED
      BY <1>2, <1>7, <3>1
  <2> QED
    BY <1>2, <1>6, <1>7, <2>1 DEF MayAppend, SizedEntry, K
<1>9. /\ \A q \in Regions : GoodLog(log'[q]) /\ ValuesOf(log[q]) \subseteq ValuesOf(log'[q])
      /\ KeysOf(log'[info.base]) = KeysOf(s) /\ Fresh(log'[info.base], op.key)
      /\ LastOf(log'[info.base]) = e
      /\ ~TornAt(log'[info.base]) /\ EndOf(log'[info.base]) = info.end + K
  BY <1>1, <1>2, <1>5, <1>7, <1>8, LogAppend
<1>10. info'.base = info.base /\ info'.end = info.end + K /\ info'.left = 0
  BY <1>1, <1>2 DEF TypeOK
<1>11. EndInv'
  BY <1>1, <1>2, <1>9, <1>10 DEF EndInv, BootStates, Mounted
<1>12. (LastInv /\ CopyInv)'
  BY <1>1, <1>4, <1>7, <1>9, <1>10 DEF LastInv, CopyInv
<1>13. CallInv'
  <2>1. Needed' = V
    BY <1>1, <1>2, <1>6 DEF Needed, V
  <2>2. info'.end + Needed' <= RegionSize
    <3>1. info.end + (V + K) <= RegionSize /\ RegionSize \in Nat
      BY <1>2, <1>3, RegionAssumption
    <3> QED
      BY <1>2, <1>10, <2>1, <3>1
  <2>3. old'.pos # 0 => old'.pos \in ValuesOf(log'[old'.region])
    BY <1>1, <1>2, <1>9 DEF LogInv, CallInv, Setting, TypeOK
  <2> QED
    BY <1>1, <1>6, <2>2, <2>3 DEF CallInv, HasRoom, HasId, Compacting, Setting
<1> QED
  BY <1>9, <1>11, <1>12, <1>13 DEF LogInv

\* A new value.
LEMMA LogWriteValue ==
    ASSUME LogInv, WriteValue, TypeInv'
    PROVE  LogInv'
<1> DEFINE s == log[info.base]
           e == ValueEntry(info.end, keyId, op.val, "new")
           V == EntrySize(ValLen[op.val])
<1>1. /\ pc = "write" /\ keyId # 0 /\ pc' = "validateValue" /\ AppendEntry(e)
      /\ info' = [info EXCEPT !.end = @ + V, !.left = 0] /\ UNCHANGED <<op, keyId, old, copy>>
  BY DEF WriteValue, Advance, call
<1>2. /\ info.base \in Regions /\ op.key \in Keys /\ op.val \in Values /\ TypeOK
      /\ info.end = EndOf(s) /\ info.end \in Nat /\ GoodLog(s) /\ ~TornAt(s)
      /\ info.end + Needed <= RegionSize /\ V \in Nat \ {0}
      /\ keyId \in Nat /\ keyId <= MaxKeyId
  BY <1>1, WriteFacts
<1>3. Needed = V
  BY <1>1, <1>2 DEF Needed
<1> HIDE DEF V
<1>4. /\ e \in Entry /\ e.kind = "value" /\ e.st = "new" /\ e.addr = info.end /\ e.size = V
      /\ e.id = keyId /\ e.data = op.val
  <2>1. e \in Entry
    BY <1>2, NewEntryType
  <2> QED
    BY <2>1 DEF ValueEntry, V
<1> HIDE DEF e
<1>5. MayAppend(s, e)
  BY <1>2, <1>3, <1>4 DEF MayAppend, SizedEntry, V
<1>6. /\ \A q \in Regions : GoodLog(log'[q]) /\ ValuesOf(log[q]) \subseteq ValuesOf(log'[q])
      /\ LastOf(log'[info.base]) = e
      /\ ~TornAt(log'[info.base]) /\ EndOf(log'[info.base]) = info.end + V
  BY <1>1, <1>2, <1>4, <1>5, LogAppend
<1>7. info'.base = info.base /\ info'.end = info.end + V /\ info'.left = 0
  BY <1>1, <1>2 DEF TypeOK
<1>8. EndInv'
  BY <1>1, <1>2, <1>6, <1>7 DEF EndInv, BootStates, Mounted
<1>9. (LastInv /\ CopyInv)'
  BY <1>1, <1>4, <1>6, <1>7 DEF LastInv, CopyInv
<1>10. CallInv'
  <2>1. old'.pos # 0 => old'.pos \in ValuesOf(log'[old'.region])
    BY <1>1, <1>2, <1>6 DEF LogInv, CallInv, Setting, TypeOK
  <2> QED
    BY <1>1, <1>2, <2>1 DEF CallInv, HasRoom, HasId, Compacting, Setting
<1> QED
  BY <1>6, <1>8, <1>9, <1>10 DEF LogInv

\* Writing, validating and deleting entries keeps the invariant.
LEMMA LogWrite ==
    ASSUME LogInv, Write, TypeInv'
    PROVE  LogInv'
<1>1. CASE WriteKey
  BY <1>1, LogWriteKey
<1>2. CASE WriteValue
  BY <1>2, LogWriteValue
<1>3. CASE ValidateKey
  <2>1. /\ pc = "validateKey" /\ pc' = "write" /\ Validate /\ UNCHANGED <<info, op, keyId, old, copy>>
    BY <1>3 DEF ValidateKey, call
  <2>2. /\ \A q \in Regions : GoodLog(log'[q]) /\ ValuesOf(log[q]) \subseteq ValuesOf(log'[q])
        /\ EndOf(log'[info.base]) = EndOf(log[info.base])
        /\ ~TornAt(log'[info.base]) /\ ~TornAt(log[info.base])
    BY <2>1, LogValidate
  <2>3. /\ info.base \in Regions /\ keyId = Cardinality(KeysOf(log[info.base])) + 1
        /\ keyId <= MaxKeyId /\ old.region \in Regions
    BY <2>1 DEF LogInv, TypeInv, TypeOK, CallOK, LastInv, CallInv, Setting
  <2>4. keyId # 0
    BY <2>3, BaseFacts, CountKeys
  <2>5. EndInv'
    BY <2>1, <2>2, EndSame DEF LogInv, BootStates
  <2>6. (LastInv /\ CopyInv)'
    BY <2>1 DEF LastInv, CopyInv
  <2>7. CallInv'
    <3>1. info'.end + Needed' <= RegionSize
      BY <2>1 DEF LogInv, CallInv, HasRoom, Needed
    <3>2. old'.pos # 0 => old'.pos \in ValuesOf(log'[old'.region])
      BY <2>1, <2>2, <2>3 DEF LogInv, CallInv, Setting
    <3> QED
      BY <2>1, <2>3, <2>4, <3>1, <3>2 DEF CallInv, HasRoom, HasId, Compacting, Setting
  <2> QED
    BY <2>2, <2>5, <2>6, <2>7 DEF LogInv
<1>4. CASE ValidateValue
  <2>1. /\ pc = "validateValue" /\ pc' \in {"return", "delete"} /\ Validate
        /\ UNCHANGED <<info, op, keyId, old, copy>>
    BY <1>4 DEF ValidateValue, Finish
  <2>2. /\ \A q \in Regions : GoodLog(log'[q]) /\ ValuesOf(log[q]) \subseteq ValuesOf(log'[q])
        /\ EndOf(log'[info.base]) = EndOf(log[info.base])
        /\ ~TornAt(log'[info.base]) /\ ~TornAt(log[info.base])
    BY <2>1, LogValidate
  <2>3. old.region \in Regions
    BY DEF LogInv, TypeInv, TypeOK
  <2>4. EndInv'
    BY <2>1, <2>2, EndSame DEF LogInv, BootStates
  <2>5. CASE pc' = "return"
    BY <2>2, <2>4, <2>5, QuietStep DEF LogInv, Quiet
  <2>6. CASE pc' = "delete"
    <3>1. (LastInv /\ CopyInv)'
      BY <2>6 DEF LastInv, CopyInv
    <3>2. old'.pos # 0 => old'.pos \in ValuesOf(log'[old'.region])
      BY <2>1, <2>2, <2>3 DEF LogInv, CallInv, Setting
    <3>3. CallInv'
      BY <2>6, <3>2 DEF CallInv, HasRoom, HasId, Compacting, Setting
    <3> QED
      BY <2>2, <2>4, <3>1, <3>3 DEF LogInv
  <2> QED
    BY <2>1, <2>5, <2>6
<1>5. CASE DeleteOld
  <2>1. pc = "delete" /\ pc' = "return" /\ MarkDeleted /\ UNCHANGED info
    BY <1>5 DEF DeleteOld, Finish
  <2>2. \A q \in Regions : /\ GoodLog(log'[q]) /\ EndOf(log'[q]) = EndOf(log[q])
                           /\ TornAt(log'[q]) <=> TornAt(log[q])
    BY <2>1, LogDelete
  <2>3. info.base \in Regions
    BY <2>1 DEF LogInv, TypeInv, CallOK
  <2>4. EndInv'
    BY <2>1, <2>2, <2>3, EndSame DEF LogInv, BootStates
  <2> QED
    BY <2>1, <2>2, <2>4, QuietStep DEF LogInv, Quiet
<1>6. CASE Return
  <2>1. /\ pc = "return" /\ UNCHANGED <<log, info>>
        /\ pc' = IF info.base = NoRegion THEN "failed" ELSE "idle"
    BY <1>6 DEF Return, flash
  <2>2. EndInv'
    BY <2>1 DEF LogInv, EndInv, Mounted, BootStates
  <2>3. (CallInv /\ LastInv /\ CopyInv)'
    BY <2>1, QuietStep DEF Quiet
  <2> QED
    BY <2>1, <2>2, <2>3 DEF LogInv
<1>7. CASE WriteOverLeft
  BY <1>7, LogSkip DEF WriteOverLeft
<1> QED
  BY <1>1, <1>2, <1>3, <1>4, <1>5, <1>6, <1>7 DEF Write

\* Failed operations keep the invariant.
LEMMA LogFail ==
    ASSUME LogInv, Fail, TypeInv'
    PROVE  LogInv'
<1>1. ASSUME pc' = "return", UNCHANGED info, pc \in Setting \cup {"delete"},
             \A q \in Regions : GoodLog(log'[q]),
             EndOf(log'[info.base]) = EndOf(log[info.base]),
             TornAt(log'[info.base]) <=> TornAt(log[info.base])
      PROVE  LogInv'
  <2>1. EndInv'
    BY <1>1, EndSame DEF LogInv, BootStates
  <2> QED
    BY <1>1, <2>1, QuietStep DEF LogInv, Quiet
<1>2. CASE WriteHeaderFails
  <2>1. CASE UNCHANGED <<log, info>>
    BY <1>2, <2>1, LogReturn DEF WriteHeaderFails, Finish, SkipHeader
  <2>2. CASE SkipHeader
    BY <1>2, <2>2, LogSkip DEF WriteHeaderFails
  <2>3. CASE UNCHANGED log /\ \E n \in LeftSizes : info' = [info EXCEPT !.left = n]
    <3>1. PICK n \in LeftSizes : info' = [info EXCEPT !.left = n]
      BY <2>3
    <3>2. pc = "write" /\ pc' = "return"
      BY <1>2 DEF WriteHeaderFails, Finish, SkipHeader
    <3>3. /\ n \in Nat /\ info'.base = info.base /\ info'.end = info.end /\ info'.left = n
          /\ info'.force = info.force
      BY <3>1, <3>2, LeftSizesType DEF LogInv
    <3>4. /\ info.base \in Regions /\ info.end \in Nat /\ ~TornAt(log[info.base])
          /\ info.end + Needed <= RegionSize /\ Needed \in Nat
          /\ NewSize \in Nat /\ EntrySize(0) <= NewSize /\ NewSize <= Needed /\ info.left \in Nat
      <4>1. /\ info.base \in Regions /\ info.end \in Nat /\ ~TornAt(log[info.base])
            /\ info.end + Needed <= RegionSize /\ info.left \in Nat
            /\ EntrySize(ValLen[op.val]) \in Nat \ {0} /\ EntrySize(KeyLen[op.key]) \in Nat \ {0}
        BY <3>2, WriteFacts DEF TypeOK
      <4> QED
        BY <4>1 DEF Needed, NewSize, EntrySize
    <3>5. info.end + n <= RegionSize
      <4>1. n <= Needed \/ (info.left # 0 /\ n <= info.left)
        BY <3>1, <3>3, <3>4 DEF LeftSizes
      <4>2. info.left # 0 => info.end + info.left <= RegionSize
        BY DEF LogInv, EndInv
      <4> QED
        BY <3>3, <3>4, <4>1, <4>2, RegionAssumption
    <3>6. EndInv'
      BY <2>3, <3>2, <3>3, <3>4, <3>5 DEF LogInv, EndInv, Mounted, BootStates, Regions, NoRegion
    <3> QED
      BY <2>3, <3>2, <3>6, QuietStep DEF LogInv, Quiet
  <2> QED
    BY <1>2, <2>1, <2>2, <2>3 DEF WriteHeaderFails
<1>3. CASE ValidateFails
  <2>1. /\ pc \in {"validateKey", "validateValue"} /\ pc' = "return" /\ UNCHANGED info
        /\ UNCHANGED log \/ Validate
    BY <1>3 DEF ValidateFails, Finish
  <2>2. CASE UNCHANGED log
    BY <2>1, <2>2, LogReturn
  <2>3. CASE Validate
    BY <1>1, <2>1, <2>3, LogValidate DEF Setting
  <2> QED
    BY <2>1, <2>2, <2>3
<1>4. CASE DeleteFails
  <2>1. pc = "delete" /\ pc' = "return" /\ UNCHANGED info /\ (UNCHANGED log \/ MarkDeleted)
    BY <1>4 DEF DeleteFails, Finish
  <2>2. CASE UNCHANGED log
    BY <2>1, <2>2, LogReturn
  <2>3. CASE MarkDeleted
    <3>1. info.base \in Regions
      BY <2>1 DEF LogInv, TypeInv, CallOK
    <3> QED
      BY <1>1, <2>1, <2>3, <3>1, LogDelete
  <2> QED
    BY <2>1, <2>2, <2>3
<1>5. CASE CompactFails
  <2>1. /\ pc \in {"format", "copy"} /\ pc' = "return" /\ UNCHANGED info
        /\ UNCHANGED log \/ Format(Other(info.base))
    BY <1>5 DEF CompactFails, Finish, flash
  <2>2. CASE UNCHANGED log
    BY <2>1, <2>2, LogReturn
  <2>3. CASE Format(Other(info.base))
    <3>1. info.base \in Regions
      BY <2>1 DEF LogInv, TypeInv, CallOK, Setting
    <3>2. Other(info.base) \in Regions /\ Other(info.base) # info.base
          /\ \A q \in Regions : q = info.base \/ q = Other(info.base)
      BY <3>1 DEF Other, Regions
    <3>3. log \in [Regions -> Seq(Entry)] /\ log' = [log EXCEPT ![Other(info.base)] = <<>>]
      BY <2>3 DEF Format, LogInv, TypeInv, TypeOK
    <3>4. log'[info.base] = log[info.base] /\ log'[Other(info.base)] = <<>>
      BY <3>1, <3>2, <3>3
    <3>5. \A q \in Regions : GoodLog(log'[q])
      BY <3>2, <3>4, GoodEmpty DEF LogInv
    <3> QED
      BY <1>1, <2>1, <3>4, <3>5 DEF Setting
  <2> QED
    BY <2>1, <2>2, <2>3
<1>6. CASE CompactHeaderFails
  BY <1>6, LogReturn DEF CompactHeaderFails, Finish
<1>7. CASE BootFails
  <2>1. pc \in BootStates /\ pc' = "failed" /\ UNCHANGED info
    BY <1>7 DEF BootFails
  <2>2. \A q \in Regions : GoodLog(log'[q])
    <3>1. \A q \in Regions : log'[q] \in {log[q], <<>>}
      BY <1>7 DEF BootFails, Format, flash, LogInv, TypeInv, TypeOK
    <3> QED
      BY <3>1, GoodEmpty DEF LogInv
  <2>3. EndInv'
    BY <2>1 DEF LogInv, EndInv, Mounted
  <2> QED
    BY <2>1, <2>2, <2>3, QuietStep DEF LogInv, Quiet
<1> QED
  BY <1>2, <1>3, <1>4, <1>5, <1>6, <1>7 DEF Fail

\* Power failures keep the invariant.
LEMMA LogPowerLoss ==
    ASSUME LogInv, PowerLoss, TypeInv'
    PROVE  LogInv'
<1>1. ASSUME Reset, \A q \in Regions : GoodLog(log'[q]) PROVE LogInv'
  <2>1. pc' = "init" /\ ~Mounted' /\ info'.left = 0
    BY <1>1 DEF Reset, NoInfo, Mounted
  <2>2. EndInv'
    BY <2>1 DEF EndInv
  <2> QED
    BY <1>1, <2>1, <2>2, QuietStep DEF LogInv, Quiet
<1>4. info.left \in Nat
  BY DEF LogInv, TypeInv, TypeOK
<1>2. CASE Crash \/ CrashInRegionHeader
  BY <1>1, <1>2, <1>4, LogSeal DEF Crash, CrashInRegionHeader
<1>5. CASE CrashInEntryHeader /\ info.left # 0
  <2>1. PICK n \in LeftSizes : log' = Sealed(n)
    BY <1>5 DEF CrashInEntryHeader
  <2>2. n \in Nat /\ n <= info.left
    BY <1>4, <1>5 DEF LeftSizes, EntrySize
  <2> QED
    BY <1>1, <1>5, <2>1, <2>2, LogSeal DEF CrashInEntryHeader
<1>3. CASE CrashInEntryHeader /\ info.left = 0
  <2> DEFINE e == TornEntry(info.end)
  <2>1. pc = "write" /\ AppendEntry(e) /\ Reset
    BY <1>3 DEF CrashInEntryHeader
  <2>2. /\ info.base \in Regions /\ info.end = EndOf(log[info.base]) /\ info.end \in Nat
        /\ GoodLog(log[info.base]) /\ ~TornAt(log[info.base])
    BY <2>1, WriteFacts
  <2>3. e \in Entry /\ e.kind = "torn" /\ e.addr = info.end /\ e.id = 0
    <3>1. e \in Entry
      BY <2>2, NewEntryType
    <3> QED
      BY <3>1 DEF TornEntry
  <2> HIDE DEF e
  <2>4. MayAppend(log[info.base], e)
    BY <2>2, <2>3, IdAssumption DEF MayAppend, SizedEntry
  <2> QED
    BY <1>1, <2>1, <2>2, <2>3, <2>4, LogAppend
<1> QED
  BY <1>2, <1>3, <1>5 DEF PowerLoss

-----------------------------------------------------------------------------
(* Theorems.                                                               *)

\* Every step keeps the invariant.
LEMMA LogNext == LogInv /\ [Next]_vars => LogInv'
<1>1. LogInv /\ UNCHANGED vars => LogInv'
  BY DEF LogInv, TypeInv, TypeOK, CallOK, EndInv, CallInv, LastInv, CopyInv, HasRoom, HasId,
         Compacting, Needed, Mounted, vars, flash, call, bounds
<1>2. LogInv /\ Next => TypeInv'
  BY TypeBoot, TypeCall, TypeCompact, TypeWrite, TypeFail DEF Next, LogInv
<1>3. LogInv /\ Call => LogInv'
  <2> SUFFICES ASSUME LogInv, NEW k \in Keys, NEW v \in Values \cup {Nil},
                      SetData(k, v) \/ SetNoInit(k, v) \/ SetFails(k, v), TypeInv'
               PROVE  LogInv'
    BY <1>2 DEF Call, Next
  <2>1. CASE SetData(k, v)
    BY <2>1, LogSetData
  <2>2. CASE SetNoInit(k, v) \/ SetFails(k, v)
    BY <2>2, LogReturn DEF SetNoInit, SetFails, Finish, flash
  <2> QED
    BY <2>1, <2>2
<1>4. LogInv /\ Next => LogInv'
  BY <1>2, <1>3, LogBoot, LogCheck, LogCompact, LogWrite, LogReformat, LogFail, LogPowerLoss DEF Next
<1> QED
  BY <1>1, <1>4

\* Every reachable state satisfies the invariant, whatever fails: also the write of
\* an entry header and then the zeroing of it, which leaves end_addr in front of a
\* header that is on flash (info.left).
THEOREM LogInvariant == Spec => []LogInv
BY LogInit, LogNext, PTL DEF Spec

\* The entries of a region always lie end to end inside it, in the mounted
\* region and in the other one, during a compaction and after any failure: the
\* room that the code finds before it writes is still there when it writes.
THEOREM LogStaysWellFormed == Spec => []LogWellFormed
<1>1. LogInv => LogWellFormed
  BY DEF LogInv, GoodLog, Chained, LogWellFormed
<1> QED
  BY <1>1, LogInvariant, PTL

\* Payloads are only ever written to erased flash, behind the last entry of an
\* intact log.  The one thing that an entry header may be written over is a header
\* that _write_entry could not zero: what is there then still fits in the region,
\* nothing follows it, and the entry is only accepted once end_addr is past it.
THEOREM WritesHitBlank == Spec => []WritesHitBlankFlash
<1>1. LogInv => WritesHitBlankFlash
  <2> SUFFICES ASSUME LogInv PROVE WritesHitBlankFlash
    OBVIOUS
  <2>1. ScanEnd(info.base) = EndOf(log[info.base]) /\ TornTail(info.base) = TornAt(log[info.base])
    BY ReadsOf
  <2>2. Mounted => info.end + info.left <= RegionSize
    <3> SUFFICES ASSUME Mounted PROVE info.end + info.left <= RegionSize
      OBVIOUS
    <3>1. info.base \in Regions /\ info.left \in Nat
      BY DEF LogInv, TypeInv, TypeOK, Mounted
    <3>2. info.end \in Nat /\ info.end <= RegionSize
      BY <3>1, BaseFacts
    <3>3. CASE info.left = 0
      BY <3>2, <3>3
    <3>4. CASE info.left # 0
      BY <3>4 DEF LogInv, EndInv
    <3> QED
      BY <3>3, <3>4
  <2> QED
    BY <2>1, <2>2 DEF LogInv, EndInv, WritesHitBlankFlash
<1> QED
  BY <1>1, LogInvariant, PTL

\* The keys of the mounted region are numbered without gaps in address order
\* and have different names, also after a compaction has renumbered them.
THEOREM KeyIdsStayInOrder == Spec => []KeyIdsInOrder
<1>1. LogInv => KeyIdsInOrder
  <2> SUFFICES ASSUME LogInv, Mounted PROVE KeyIdsInOrder
    BY DEF KeyIdsInOrder
  <2>1. info.base \in Regions
    BY DEF LogInv, TypeInv, TypeOK, Mounted
  <2>2. Numbered(log[info.base]) /\ Distinct(log[info.base])
    BY <2>1, BaseFacts
  <2>3. LiveKeys(info.base) = KeysOf(log[info.base])
    BY ReadsOf
  <2> QED
    BY <2>2, <2>3 DEF KeyIdsInOrder, Numbered, Distinct
<1> QED
  BY <1>1, LogInvariant, PTL

\* No entry ever gets an id above MAX_KEY_ID.
THEOREM IdsStayInRange == Spec => []IdsInRange
<1>1. LogInv => IdsInRange
  BY DEF LogInv, GoodLog, Sized, IdsInRange
<1> QED
  BY <1>1, LogInvariant, PTL
=============================================================================
