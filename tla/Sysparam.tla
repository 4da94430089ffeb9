------------------------------ MODULE Sysparam ------------------------------
(***************************************************************************)
(* The system-parameter store of esp-open-rtos (core/sysparam.c): a        *)
(* key/value log kept in two flash regions, of which one is active.  A set *)
(* appends entries to the active region and deletes the superseded value;  *)
(* when the region is full its live pairs are copied to the other region,  *)
(* whose header is then made active.  Power may fail between any two flash *)
(* writes and at boot sysparam_init picks up whatever is there.            *)
(*                                                                         *)
(* Sizes and addresses are in words relative to the base of a region.      *)
(* A region's entries are a sequence in address order.  Every flash write  *)
(* that a later reader can observe is a step of its own; reads, which the  *)
(* writer makes under the sysparam mutex, belong to the step that uses     *)
(* their result.                                                           *)
(***************************************************************************)
EXTENDS Integers, Sequences, FiniteSets

CONSTANTS
    Keys,           \* key names
    Values,         \* values (text or binary, never empty)
    Nil,            \* no value: a delete request, a lookup that found nothing
    KeyLen,         \* payload words of each key
    ValLen,         \* payload words of each value
    RegionSize,     \* words in one region, its header included
    MaxKeyId,       \* MAX_KEY_ID
    ConfigBlank,    \* is the flash sector above the area erased?
    AllowDelete,    \* may the application delete parameters?
    AllowReformat,  \* may the application call sysparam_create_area(force)?
    Faults,         \* which flash operations may fail
    MaxFaults,      \* how many of them fail in a behaviour
    MaxCrashes      \* how often the power fails in a behaviour

HdrSize == 2        \* REGION_HEADER_SIZE
EntrySize(len) == 1 + len
FaultKinds == {"heap", "entry", "zero", "header", "boot"}

ASSUME KeysAssumption == Nil \notin Keys /\ Nil \notin Values /\ Keys \cap Values = {}
ASSUME LenAssumption ==
    /\ KeyLen \in [Keys -> Nat \ {0}]
    /\ ValLen \in [Values -> Nat \ {0}]
ASSUME RegionAssumption == RegionSize \in Nat /\ RegionSize > HdrSize
ASSUME IdAssumption == MaxKeyId \in Nat \ {0}
ASSUME FlagAssumption == {ConfigBlank, AllowDelete, AllowReformat} \subseteq BOOLEAN
ASSUME FaultAssumption ==
    Faults \subseteq FaultKinds /\ MaxFaults \in Nat /\ MaxCrashes \in Nat

VARIABLES
    hdr,        \* hdr[r]: the header of region r (see Headers)
    log,        \* log[r]: the entries of region r, in address order
    info,       \* _sysparam_info: the region in use, its end_addr, force_compact;
                \* and left, see LeftEntry
    pc,         \* what the code does next
    op,         \* the call in progress: key, value, and two history fields
    keyId,      \* key_id of sysparam_set_data; 0 stands for -1
    old,        \* old_value_addr: region and position of the value to delete
    copy,       \* progress of _compact_params
    ret,        \* status about to be returned
    crashes,    \* power failures so far
    faults      \* failed flash operations so far

flash == <<hdr, log>>
call == <<op, keyId, old, copy, ret>>
bounds == <<crashes, faults>>
vars == <<flash, info, pc, call, bounds>>

Regions == {0, 1}
\* An erased header, one without the magic number (zeroed, or its write was
\* cut off), and the two kinds sysparam_init recognises.
Headers == {"blank", "bad", "active", "stale"}
HasMagic(r) == hdr[r] \in {"active", "stale"}
NoRegion == 2                       \* cur_base = 0: not initialised
Other(r) == 1 - r

(***************************************************************************)
(* An entry is "new" from the write of its header until its INVALID flag   *)
(* is cleared, then "live", and "dead" once its ALIVE flag is cleared.  A  *)
(* "pad" is a zeroed header; a "torn" entry is a header whose write was    *)
(* cut off, so that its length field points past the region.               *)
(***************************************************************************)
EntryRecord == [kind : {"key", "value", "pad", "torn"}, addr : Nat, size : Nat,
                id : Nat, data : Keys \cup Values \cup {Nil},
                st : {"new", "live", "dead"}]
Entry == {e \in EntryRecord : /\ e.kind = "key" /\ e.st # "dead" => e.data \in Keys
                              /\ e.kind = "value" /\ e.st # "dead" => e.data \in Values}

KeyEntry(a, i, k, s) == [kind |-> "key", addr |-> a, size |-> EntrySize(KeyLen[k]),
                         id |-> i, data |-> k, st |-> s]
ValueEntry(a, i, v, s) == [kind |-> "value", addr |-> a, size |-> EntrySize(ValLen[v]),
                           id |-> i, data |-> v, st |-> s]
PadEntry(a) == [kind |-> "pad", addr |-> a, size |-> EntrySize(0),
                id |-> 0, data |-> Nil, st |-> "dead"]
TornEntry(a) == [kind |-> "torn", addr |-> a, size |-> RegionSize,
                 id |-> 0, data |-> Nil, st |-> "new"]

(***************************************************************************)
(* A header that could neither be written properly nor be zeroed stays on  *)
(* flash, and end_addr stays in front of it.  Such a left-over header, of  *)
(* an entry of info.left words (0: there is none), is kept apart from the  *)
(* log until a scan takes it for an invalid entry: Sealed(s) is the log    *)
(* with it, s words long.                                                  *)
(***************************************************************************)
LeftEntry(a, s) == [PadEntry(a) EXCEPT !.size = s]
Sealed(s) == IF info.left = 0 THEN log
             ELSE [log EXCEPT ![info.base] = Append(@, LeftEntry(info.end, s))]

NoInfo == [base |-> NoRegion, end |-> 0, force |-> FALSE, left |-> 0]
NoOp == [key |-> Nil, val |-> Nil, prev |-> Nil, clean |-> TRUE]
NoOld == [region |-> 0, pos |-> 0]
NoCopy == [pos |-> 0, id |-> 0, then |-> "idle"]

-----------------------------------------------------------------------------
(* Reading a region: _find_entry, _find_key, _find_value.                  *)

LastOf(s) == s[Len(s)]
FirstOf(S) == IF S = {} THEN 0 ELSE CHOOSE i \in S : \A j \in S : i <= j

\* Does the scan of region r stop at an entry of impossible length?
TornTail(r) == log[r] # <<>> /\ LastOf(log[r]).kind = "torn"

\* The address at which a scan to the end of region r stops.
ScanEnd(r) ==
    IF log[r] = <<>> THEN HdrSize
    ELSE IF TornTail(r) THEN LastOf(log[r]).addr
    ELSE LastOf(log[r]).addr + LastOf(log[r]).size

LiveKeys(r) == {i \in DOMAIN log[r] : log[r][i].kind = "key" /\ log[r][i].st = "live"}
LiveValues(r) == {i \in DOMAIN log[r] : log[r][i].kind = "value" /\ log[r][i].st = "live"}

\* Position of the key entry named k, 0 if there is none.
FindKey(r, k) == FirstOf({i \in LiveKeys(r) : log[r][i].data = k})

\* Position of the value that belongs to the key entry at i: the first live
\* value behind it with the same id.
FindValue(r, i) == FirstOf({j \in LiveValues(r) : j > i /\ log[r][j].id = log[r][i].id})

\* What sysparam_get_data finds for k when region r is mounted.
Lookup(r, k) ==
    LET i == FindKey(r, k)
        j == IF i = 0 THEN 0 ELSE FindValue(r, i)
    IN  IF j = 0 THEN Nil ELSE log[r][j].data

\* The words that the entries at the positions T occupy.  The code adds up the
\* sizes of entries, which share no word (LogWellFormed).
Words(r, T) ==
    {x \in 0 .. RegionSize : \E i \in T : /\ log[r][i].addr <= x
                                        /\ x < log[r][i].addr + log[r][i].size}

\* The counters of a sysparam_context that has scanned all of region r.
MaxIdOf(r) == IF LiveKeys(r) = {} THEN 0
              ELSE log[r][CHOOSE i \in LiveKeys(r) : \A j \in LiveKeys(r) : i >= j].id
UnusedKeys(r) == Cardinality(LiveKeys(r)) - Cardinality(LiveValues(r))
\* Nothing is live in a torn entry, however long it claims to be, nor in a
\* left-over header.
Compactable(r) ==
    Cardinality(Words(r, {i \in DOMAIN log[r] : log[r][i].st # "live" /\ log[r][i].kind # "torn"}))
    + (IF TornTail(r) THEN RegionSize ELSE 0) + info.left

-----------------------------------------------------------------------------
(* Boot: sdk_user_start, sysparam_init, sysparam_create_area.              *)

\* The first region, in address order, whose header has the magic number.
Header0 == IF HasMagic(0) THEN 0 ELSE 1

Mount(r) ==
    /\ info' = [base |-> r, end |-> ScanEnd(r), force |-> TornTail(r), left |-> 0]
    /\ pc' = "idle"

\* Mutant: no attempt to recreate the missing region.
SysparamInit_NoRecreate ==
    /\ pc = "init"
    /\ \/ ~HasMagic(0) /\ ~HasMagic(1) /\ pc' = "scan" /\ UNCHANGED info
       \/ HasMagic(0) # HasMagic(1) /\ pc' = "failed" /\ UNCHANGED info
       \/ HasMagic(0) /\ HasMagic(1) /\ Mount(IF hdr[0] = "active" THEN 0 ELSE 1)
    /\ UNCHANGED <<flash, call, bounds>>

\* sysparam_init up to the choice of the region to use.
SysparamInit ==
    /\ pc = "init"
    /\ LET r0 == Header0
           r1 == Other(r0)
       IN  \/ /\ ~HasMagic(r0)                          \* SYSPARAM_NOTFOUND
              /\ pc' = "scan"
              /\ UNCHANGED info
           \/ /\ hdr[r0] = "active" /\ ~HasMagic(r1)
              /\ pc' = "recreate"
              /\ UNCHANGED info
           \/ /\ hdr[r0] = "stale" /\ ~HasMagic(r1)     \* SYSPARAM_ERR_CORRUPT
              /\ pc' = "failed"
              /\ UNCHANGED info
           \/ /\ HasMagic(r0) /\ HasMagic(r1)
              /\ Mount(IF hdr[r0] = "active" THEN r0 ELSE r1)
    /\ UNCHANGED <<flash, call, bounds>>

\* Erasing a region takes its header with the first sector.
Format(r) ==
    /\ hdr' = [hdr EXCEPT ![r] = "blank"]
    /\ log' = [log EXCEPT ![r] = <<>>]

\* Mutant: the region that was found is erased, not the missing one.
RecreateFormat_WrongRegion ==
    /\ pc = "recreate"
    /\ Format(Header0)
    /\ pc' = "recreateHeader"
    /\ UNCHANGED <<info, call, bounds>>

\* The missing stale region is erased and given a header again.
RecreateFormat ==
    /\ pc = "recreate"
    /\ Format(Other(Header0))
    /\ pc' = "recreateHeader"
    /\ UNCHANGED <<info, call, bounds>>

RecreateHeader ==
    /\ pc = "recreateHeader"
    /\ hdr' = [hdr EXCEPT ![Other(Header0)] = "stale"]
    /\ Mount(Header0)
    /\ UNCHANGED <<log, call, bounds>>

\* The scan steps by SCAN_BUFFER_SIZE bytes and reads as many words, so its
\* last reads reach into the sector above the area.
LooksEmpty == (\A r \in Regions : hdr[r] = "blank" /\ log[r] = <<>>) /\ ConfigBlank

CreateScan ==
    /\ pc = "scan"
    /\ pc' = IF LooksEmpty THEN "create0" ELSE "failed"
    /\ UNCHANGED <<flash, info, call, bounds>>

CreateFormat ==
    /\ \/ pc = "create0" /\ Format(0) /\ pc' = "create1"
       \/ pc = "create1" /\ Format(1) /\ pc' = "createHeader0"
    /\ UNCHANGED <<info, call, bounds>>

\* The first region becomes the active one; the caller then calls
\* sysparam_init again.
CreateHeader ==
    /\ \/ /\ pc = "createHeader0"
          /\ hdr' = [hdr EXCEPT ![0] = "active"]
          /\ pc' = "createHeader1"
       \/ /\ pc = "createHeader1"
          /\ hdr' = [hdr EXCEPT ![1] = "stale"]
          /\ pc' = "init"
    /\ UNCHANGED <<log, info, call, bounds>>

\* The application reformats the area: sysparam_create_area(..., force = true)
\* forgets the mounted region first.
Reformat ==
    /\ AllowReformat
    /\ pc \in {"idle", "failed"}
    /\ log' = Sealed(info.left)
    /\ info' = NoInfo
    /\ pc' = "create0"
    /\ UNCHANGED <<hdr, call, bounds>>

-----------------------------------------------------------------------------
(* sysparam_set_data: the checks before anything is written.               *)

Finish(status) == pc' = "return" /\ ret' = status

StartCompaction(then) ==
    /\ pc' = "format"
    /\ copy' = [pos |-> 0, id |-> 0, then |-> then]

\* Mutant: the space for a new key entry is forgotten.
Needed_NoKey == EntrySize(ValLen[op.val])

\* The words the call still has to append, and the words that are free.
Needed == EntrySize(ValLen[op.val]) + (IF keyId = 0 THEN EntrySize(KeyLen[op.key]) ELSE 0)
FreeSpace == RegionSize - info.end

\* History: the key of the call has a value, or no entry at all, and it has
\* one value at most.
CleanKey(r, k) ==
    LET i == FindKey(r, k)
    IN  i = 0 \/ Cardinality({j \in LiveValues(r) : j > i /\ log[r][j].id = log[r][i].id}) = 1

\* Take the mutex, look the key and its value up; v = Nil asks for a delete.
SetData(k, v) ==
    /\ pc = "idle"
    /\ v = Nil => AllowDelete
    /\ LET r == info.base
           i == FindKey(r, k)
           j == IF i = 0 THEN 0 ELSE FindValue(r, i)
       IN  /\ op' = [key |-> k, val |-> v, prev |-> Lookup(r, k), clean |-> CleanKey(r, k)]
           /\ keyId' = IF i = 0 THEN 0 ELSE log[r][i].id
           /\ old' = [region |-> r, pos |-> j]
           /\ \/ v = Nil /\ j = 0 /\ Finish("NOTFOUND")
              \/ v = Nil /\ j # 0 /\ pc' = "delete" /\ UNCHANGED ret
              \/ v # Nil /\ j # 0 /\ log[r][j].data = v /\ Finish("OK")
              \/ v # Nil /\ (j # 0 => log[r][j].data # v) /\ pc' = "space" /\ UNCHANGED ret
    /\ UNCHANGED <<flash, info, copy, bounds>>

\* No mounted region: SYSPARAM_ERR_NOINIT before the mutex is taken.
SetNoInit(k, v) ==
    /\ pc = "failed"
    /\ v = Nil => AllowDelete
    /\ op' = [NoOp EXCEPT !.key = k, !.val = v]
    /\ Finish("ERR_NOINIT")
    /\ UNCHANGED <<flash, info, keyId, old, copy, bounds>>

\* Mutant: the old value is not counted as space that compacting recovers.
CheckSpace_OldNotCounted ==
    /\ pc = "space"
    /\ LET compact == \/ Needed <= FreeSpace + Compactable(info.base)
                      \/ UnusedKeys(info.base) > 0
       IN  \/ Needed <= FreeSpace /\ pc' = "ids" /\ UNCHANGED <<copy, ret>>
           \/ Needed > FreeSpace /\ compact /\ StartCompaction("full") /\ UNCHANGED ret
           \/ Needed > FreeSpace /\ ~compact /\ Finish("ERR_FULL") /\ UNCHANGED copy
    /\ UNCHANGED <<flash, info, op, keyId, old, bounds>>

\* Is there room, or may compacting make room?  The scan for the compactable
\* count starts one word past the end when the lookup ran to the end, and so
\* takes a region that is exactly full for a damaged one.
CheckSpace ==
    /\ pc = "space"
    /\ LET gain == Compactable(info.base) +
                   (IF old.pos = 0 THEN 0 ELSE log[old.region][old.pos].size)
           compact == Needed <= FreeSpace + gain \/ UnusedKeys(info.base) > 0
       IN  \/ /\ Needed <= FreeSpace
              /\ pc' = "ids"
              /\ UNCHANGED <<info, copy, ret>>
           \/ /\ Needed > FreeSpace
              /\ info' = [info EXCEPT !.force = @ \/ (old.pos = 0 /\ info.end + info.left = RegionSize)]
              /\ \/ compact /\ StartCompaction("full") /\ UNCHANGED ret
                 \/ ~compact /\ Finish("ERR_FULL") /\ UNCHANGED copy
    /\ UNCHANGED <<flash, op, keyId, old, bounds>>

\* Mutant: while there is not enough room, compact again.
CheckFull_Retry ==
    /\ pc = "full"
    /\ \/ Needed <= FreeSpace /\ pc' = "ids" /\ UNCHANGED copy
       \/ Needed > FreeSpace /\ StartCompaction("full")
    /\ UNCHANGED <<flash, info, op, keyId, old, ret, bounds>>

\* The second look at the free space, after the compaction.
CheckFull ==
    /\ pc = "full"
    /\ \/ Needed <= FreeSpace /\ pc' = "ids" /\ UNCHANGED ret
       \/ Needed > FreeSpace /\ Finish("ERR_FULL")
    /\ UNCHANGED <<flash, info, op, keyId, old, copy, bounds>>

\* Mutant: the last id is not reserved.
CheckIds_OffByOne ==
    /\ pc = "ids"
    /\ LET exhausted == keyId = 0 /\ MaxIdOf(info.base) > MaxKeyId
       IN  \/ ~exhausted /\ pc' = "force" /\ UNCHANGED <<copy, ret>>
           \/ exhausted /\ UnusedKeys(info.base) > 0 /\ StartCompaction("force") /\ UNCHANGED ret
           \/ exhausted /\ UnusedKeys(info.base) <= 0 /\ Finish("ERR_FULL") /\ UNCHANGED copy
    /\ UNCHANGED <<flash, info, op, keyId, old, bounds>>

\* Is there an id left for a new key?
CheckIds ==
    /\ pc = "ids"
    /\ LET exhausted == keyId = 0 /\ MaxIdOf(info.base) >= MaxKeyId
       IN  \/ ~exhausted /\ pc' = "force" /\ UNCHANGED <<copy, ret>>
           \/ /\ exhausted /\ UnusedKeys(info.base) > 0
              /\ StartCompaction("force")
              /\ UNCHANGED ret
           \/ /\ exhausted /\ UnusedKeys(info.base) <= 0
              /\ Finish("ERR_FULL")
              /\ UNCHANGED copy
    /\ UNCHANGED <<flash, info, op, keyId, old, bounds>>

\* Mutant: the flag left by a damaged tail is ignored.
CheckForce_Ignored ==
    /\ pc = "force"
    /\ pc' = "write"
    /\ UNCHANGED <<flash, info, call, bounds>>

\* A damaged tail must not be written over: compact first.
CheckForce ==
    /\ pc = "force"
    /\ \/ info.force /\ StartCompaction("write")
       \/ ~info.force /\ pc' = "write" /\ UNCHANGED copy
    /\ UNCHANGED <<flash, info, op, keyId, old, ret, bounds>>

-----------------------------------------------------------------------------
(* _compact_params.                                                        *)

CompactFormat ==
    /\ pc = "format"
    /\ Format(Other(info.base))
    /\ pc' = "copy"
    /\ UNCHANGED <<info, call, bounds>>

\* The pairs sysparam_iter_next has yet to deliver: keys that have a value.
RemainingPairs == {i \in LiveKeys(info.base) : i > copy.pos /\ FindValue(info.base, i) # 0}

\* Mutant: the value of the key that is being set is copied as well.
CompactCopy_WithOld ==
    /\ pc = "copy" /\ RemainingPairs # {}
    /\ LET r == info.base
           new == Other(r)
           i == FirstOf(RemainingPairs)
           key == KeyEntry(ScanEnd(new), copy.id + 1, log[r][i].data, "live")
           val == ValueEntry(key.addr + key.size, copy.id + 1, log[r][FindValue(r, i)].data, "live")
       IN  /\ copy' = [copy EXCEPT !.pos = i, !.id = @ + 1]
           /\ keyId' = IF log[r][i].id = keyId THEN copy.id + 1 ELSE keyId
           /\ log' = [log EXCEPT ![new] = @ \o <<key, val>>]
    /\ UNCHANGED <<hdr, info, pc, op, old, ret, bounds>>

\* Copy the next pair.  Of the key that is being set only the key entry is
\* copied, and keyId becomes its new id.
CompactCopy ==
    /\ pc = "copy" /\ RemainingPairs # {}
    /\ LET r == info.base
           new == Other(r)
           i == FirstOf(RemainingPairs)
           id == copy.id + 1
           key == KeyEntry(ScanEnd(new), id, log[r][i].data, "live")
           val == ValueEntry(key.addr + key.size, id, log[r][FindValue(r, i)].data, "live")
       IN  /\ copy' = [copy EXCEPT !.pos = i, !.id = id]
           /\ \/ /\ log[r][i].id = keyId
                 /\ keyId' = id
                 /\ log' = [log EXCEPT ![new] = Append(@, key)]
              \/ /\ log[r][i].id # keyId
                 /\ log' = [log EXCEPT ![new] = @ \o <<key, val>>]
                 /\ UNCHANGED keyId
    /\ UNCHANGED <<hdr, info, pc, op, old, ret, bounds>>

\* Mutant: the old header is made stale before the new one is active.
CompactActivate_RetireFirst ==
    /\ pc = "copy" /\ RemainingPairs = {}
    /\ hdr' = [hdr EXCEPT ![info.base] = "stale"]
    /\ pc' = "retire"
    /\ UNCHANGED <<log, info, call, bounds>>

\* Mutant: the new header is written before the pairs are copied.
CompactActivate_Early ==
    /\ pc = "copy" /\ hdr[Other(info.base)] = "blank"
    /\ hdr' = [hdr EXCEPT ![Other(info.base)] = "active"]
    /\ pc' = IF RemainingPairs = {} THEN "retire" ELSE "copy"
    /\ UNCHANGED <<log, info, call, bounds>>

\* Every pair is copied: make the new region's header active.
CompactActivate ==
    /\ pc = "copy" /\ RemainingPairs = {}
    /\ hdr' = [hdr EXCEPT ![Other(info.base)] = "active"]
    /\ pc' = "retire"
    /\ UNCHANGED <<log, info, call, bounds>>

\* Mutant: the ACTIVE flag of the old region is not cleared.
CompactRetire_BothActive ==
    /\ pc = "retire"
    /\ LET new == Other(info.base)
       IN  info' = [base |-> new, end |-> ScanEnd(new), force |-> FALSE, left |-> 0]
    /\ old' = IF copy.then = "write" THEN old ELSE NoOld
    /\ pc' = copy.then
    /\ copy' = NoCopy
    /\ UNCHANGED <<flash, op, keyId, ret, bounds>>

\* Clear the ACTIVE flag of the old region and use the new one.  Only the
\* compactions for space and for ids forget the old value's address.
CompactRetire ==
    /\ pc = "retire"
    /\ LET new == Other(info.base)
       IN  /\ hdr' = [hdr EXCEPT ![info.base] = "stale"]
           /\ info' = [base |-> new, end |-> ScanEnd(new), force |-> FALSE, left |-> 0]
    /\ log' = Sealed(info.left)
    /\ old' = IF copy.then = "write" THEN old ELSE NoOld
    /\ pc' = copy.then
    /\ copy' = NoCopy
    /\ UNCHANGED <<op, keyId, ret, bounds>>

-----------------------------------------------------------------------------
(* Writing the entries: _write_entry, _delete_entry.                       *)

AppendEntry(e) == log' = [log EXCEPT ![info.base] = Append(@, e)]
Validate == log' = [log EXCEPT ![info.base][Len(log[info.base])].st = "live"]

\* The write of a header is read back.  Erased flash takes it; over a left-over
\* header it is what was meant only if that one has all the bits that are set,
\* and a zeroed one has none.
HeaderTakes == info.left # EntrySize(0)
Advance(n) == info' = [info EXCEPT !.end = @ + n, !.left = 0]

\* Mutants: the new key gets the id of the last one, or the id before it.
WriteKeyAs(id) ==
    /\ pc = "write" /\ keyId = 0 /\ HeaderTakes
    /\ AppendEntry(KeyEntry(info.end, id, op.key, "new"))
    /\ keyId' = id
    /\ Advance(EntrySize(KeyLen[op.key]))
    /\ pc' = "validateKey"
    /\ UNCHANGED <<hdr, op, old, copy, ret, bounds>>
WriteKey_SameId == WriteKeyAs(IF MaxIdOf(info.base) = 0 THEN 1 ELSE MaxIdOf(info.base))
WriteKey_IdBefore == WriteKeyAs(MaxIdOf(info.base) - 1)

\* The header of a new key goes to the end of the region.
WriteKey ==
    /\ pc = "write" /\ keyId = 0 /\ HeaderTakes
    /\ LET id == MaxIdOf(info.base) + 1
       IN  /\ AppendEntry(KeyEntry(info.end, id, op.key, "new"))
           /\ keyId' = id
    /\ Advance(EntrySize(KeyLen[op.key]))
    /\ pc' = "validateKey"
    /\ UNCHANGED <<hdr, op, old, copy, ret, bounds>>

ValidateKey ==
    /\ pc = "validateKey"
    /\ Validate
    /\ pc' = "write"
    /\ UNCHANGED <<hdr, info, call, bounds>>

\* Mutant: the superseded value is deleted before the new one is valid.
WriteValue_DeleteFirst ==
    /\ pc = "write" /\ keyId # 0 /\ HeaderTakes
    /\ LET e == ValueEntry(info.end, keyId, op.val, "new")
       IN  log' = [log EXCEPT ![info.base] =
                      Append([i \in DOMAIN @ |-> IF @[i].kind = "value" /\ @[i].id = keyId
                                                 THEN [@[i] EXCEPT !.st = "dead"] ELSE @[i]], e)]
    /\ Advance(EntrySize(ValLen[op.val]))
    /\ pc' = "validateValue"
    /\ UNCHANGED <<hdr, call, bounds>>

WriteValue ==
    /\ pc = "write" /\ keyId # 0 /\ HeaderTakes
    /\ AppendEntry(ValueEntry(info.end, keyId, op.val, "new"))
    /\ Advance(EntrySize(ValLen[op.val]))
    /\ pc' = "validateValue"
    /\ UNCHANGED <<hdr, call, bounds>>

\* A header that does not read back is zeroed, and end_addr skips the word.
SkipHeader ==
    /\ AppendEntry(PadEntry(info.end))
    /\ Advance(EntrySize(0))
    /\ Finish("ERR_IO")

\* Over a left-over header the new one does not take, and it is zeroed at last.
WriteOverLeft ==
    /\ pc = "write" /\ info.left # 0
    /\ SkipHeader
    /\ UNCHANGED <<hdr, op, keyId, old, copy, bounds>>

\* Mutant: the superseded value is not deleted.
ValidateValue_KeepOld ==
    /\ pc = "validateValue"
    /\ Validate
    /\ Finish("OK")
    /\ UNCHANGED <<hdr, info, op, keyId, old, copy, bounds>>

ValidateValue ==
    /\ pc = "validateValue"
    /\ Validate
    /\ \/ old.pos = 0 /\ Finish("OK")
       \/ old.pos # 0 /\ pc' = "delete" /\ UNCHANGED ret
    /\ UNCHANGED <<hdr, info, op, keyId, old, copy, bounds>>

\* Of a deleted entry only the length is ever read again, so its id and its
\* payload are dropped here, although the flash keeps them.
Deleted(e) == [e EXCEPT !.st = "dead", !.id = 0, !.data = Nil]
MarkDeleted ==
    log' = [log EXCEPT ![old.region][old.pos] = Deleted(log[old.region][old.pos])]

DeleteOld ==
    /\ pc = "delete"
    /\ MarkDeleted
    /\ Finish("OK")
    /\ UNCHANGED <<hdr, info, op, keyId, old, copy, bounds>>

\* The mutex is given back and the status is returned.
Return ==
    /\ pc = "return"
    /\ pc' = IF info.base = NoRegion THEN "failed" ELSE "idle"
    /\ op' = NoOp /\ keyId' = 0 /\ old' = NoOld /\ copy' = NoCopy /\ ret' = "none"
    /\ UNCHANGED <<flash, info, bounds>>

-----------------------------------------------------------------------------
(* Failures: power loss, a flash operation that fails, no heap.            *)

Fault(kind) == kind \in Faults /\ faults < MaxFaults /\ faults' = faults + 1 /\ UNCHANGED crashes

\* A working buffer cannot be allocated, or a read of the lookup fails.
SetFails(k, v) ==
    /\ pc = "idle" /\ Fault("heap")
    /\ v = Nil => AllowDelete
    /\ op' = [NoOp EXCEPT !.key = k, !.val = v]
    /\ Finish("ERR_NOMEM")
    /\ UNCHANGED <<flash, info, keyId, old, copy>>

\* What may stay at end_addr when the zeroing fails too: nothing, the header
\* of the new entry or zeros; over a left-over header some of its bits.
NewSize == IF keyId = 0 THEN EntrySize(KeyLen[op.key]) ELSE EntrySize(ValLen[op.val])
LeftSizes == IF info.left = 0 THEN {0, EntrySize(0), NewSize} ELSE EntrySize(0) .. info.left

\* Mutant: end_addr does not skip the zeroed header.
WriteHeaderFails_NoSkip ==
    /\ pc = "write" /\ Fault("entry")
    /\ AppendEntry(PadEntry(info.end))
    /\ Finish("ERR_IO")
    /\ UNCHANGED <<hdr, info, op, keyId, old, copy>>

\* _write_entry fails at the header: nothing is written for want of a verify
\* buffer, or the header is zeroed and skipped, or it cannot be zeroed either
\* (which counts as one fault) and end_addr is not advanced.
WriteHeaderFails ==
    /\ pc = "write"
    /\ \/ Fault("entry") /\ Finish("ERR_NOMEM") /\ UNCHANGED <<log, info>>
       \/ Fault("entry") /\ SkipHeader
       \/ /\ Fault("zero")
          /\ \E s \in LeftSizes : info' = [info EXCEPT !.left = s]
          /\ Finish("ERR_IO") \/ Finish("ERR_NOMEM")
          /\ UNCHANGED log
    /\ UNCHANGED <<hdr, op, keyId, old, copy>>

\* Mutant: the error of the payload write is not passed on.
ValidateFails_Swallowed ==
    /\ pc \in {"validateKey", "validateValue"} /\ Fault("entry")
    /\ Finish("OK")
    /\ UNCHANGED <<flash, info, op, keyId, old, copy>>

\* _write_entry fails after the header: the entry stays invalid, or the
\* write that validates it took effect and could not be verified.
ValidateFails ==
    /\ pc \in {"validateKey", "validateValue"} /\ Fault("entry")
    /\ \/ UNCHANGED log
       \/ Validate
    /\ Finish("ERR_IO")
    /\ UNCHANGED <<hdr, info, op, keyId, old, copy>>

\* _delete_entry reports an error, whether or not the flag was cleared.
DeleteFails ==
    /\ pc = "delete" /\ Fault("entry")
    /\ \/ UNCHANGED log
       \/ MarkDeleted
    /\ Finish("ERR_IO")
    /\ UNCHANGED <<hdr, info, op, keyId, old, copy>>

\* _compact_params gives up while the new region has no header.
CompactFails ==
    /\ Fault("entry")
    /\ \/ pc = "format" /\ UNCHANGED flash
       \/ pc = "format" /\ Format(Other(info.base))
       \/ pc = "copy" /\ UNCHANGED flash
    /\ Finish("ERR_IO")
    /\ UNCHANGED <<info, op, keyId, old, copy>>

\* _write_region_header fails and zeroes what it may have written; without a
\* verify buffer, or when the zeroing fails too, the header stays as it was.
CompactHeaderFails ==
    /\ Fault("header")
    /\ \/ /\ pc = "copy" /\ RemainingPairs = {}
          /\ \E h \in {"blank", "bad", "active"} :
                hdr' = [hdr EXCEPT ![Other(info.base)] = h]
       \/ /\ pc = "retire"
          /\ \E h \in {"active", "bad", "stale"} :
                hdr' = [hdr EXCEPT ![info.base] = h]
    /\ Finish("ERR_IO")
    /\ UNCHANGED <<log, info, op, keyId, old, copy>>

BootStates == {"recreate", "recreateHeader", "create0", "create1",
               "createHeader0", "createHeader1"}

\* The region that is erased, or whose header is written, in state pc.
HeaderTarget ==
    CASE pc \in {"create0", "createHeader0"} -> 0
      [] pc \in {"create1", "createHeader1"} -> 1
      [] pc \in {"recreate", "recreateHeader"} -> Other(Header0)
      [] OTHER -> Other(info.base)

\* sysparam_init or sysparam_create_area cannot erase or write the flash: it
\* is as before, or the first sector is erased, or the header is zeroed.
BootFails ==
    /\ pc \in BootStates /\ Fault("boot")
    /\ \/ UNCHANGED flash
       \/ pc \in {"recreate", "create0", "create1"} /\ Format(HeaderTarget)
       \/ /\ pc \in {"recreateHeader", "createHeader0", "createHeader1"}
          /\ hdr' = [hdr EXCEPT ![HeaderTarget] = "bad"]
          /\ UNCHANGED log
    /\ pc' = "failed"
    /\ UNCHANGED <<info, call>>

Reset ==
    /\ crashes < MaxCrashes /\ crashes' = crashes + 1
    /\ pc' = "init" /\ info' = NoInfo
    /\ op' = NoOp /\ keyId' = 0 /\ old' = NoOld /\ copy' = NoCopy /\ ret' = "none"
    /\ UNCHANGED faults

\* Power fails between two flash operations.
Crash ==
    /\ pc # "init"
    /\ log' = Sealed(info.left)
    /\ Reset
    /\ UNCHANGED hdr

\* Power fails in the middle of the write of an entry header.  Bits of a
\* left-over header can only be lost.
CrashInEntryHeader ==
    /\ pc = "write"
    /\ \/ info.left = 0 /\ AppendEntry(TornEntry(info.end))
       \/ info.left # 0 /\ \E s \in LeftSizes : log' = Sealed(s)
    /\ Reset
    /\ UNCHANGED hdr

\* Power fails in the middle of the write of a fresh region header, before
\* its magic number is complete.
CrashInRegionHeader ==
    /\ \/ pc \in {"recreateHeader", "createHeader0", "createHeader1"}
       \/ pc = "copy" /\ RemainingPairs = {}
    /\ hdr' = [hdr EXCEPT ![HeaderTarget] = "bad"]
    /\ log' = Sealed(info.left)
    /\ Reset

-----------------------------------------------------------------------------
Init ==
    /\ hdr = [r \in Regions |-> "blank"]
    /\ log = [r \in Regions |-> <<>>]
    /\ info = NoInfo
    /\ pc = "init"
    /\ op = NoOp /\ keyId = 0 /\ old = NoOld /\ copy = NoCopy /\ ret = "none"
    /\ crashes = 0 /\ faults = 0

Boot == SysparamInit \/ RecreateFormat \/ RecreateHeader
        \/ CreateScan \/ CreateFormat \/ CreateHeader
Call == \E k \in Keys, v \in Values \cup {Nil} : SetData(k, v) \/ SetNoInit(k, v) \/ SetFails(k, v)
Check == CheckSpace \/ CheckFull \/ CheckIds \/ CheckForce
Compact == CompactFormat \/ CompactCopy \/ CompactActivate \/ CompactRetire
Write == WriteKey \/ WriteOverLeft \/ ValidateKey \/ WriteValue \/ ValidateValue
         \/ DeleteOld \/ Return
Fail == WriteHeaderFails \/ ValidateFails \/ DeleteFails \/ CompactFails
        \/ CompactHeaderFails \/ BootFails
PowerLoss == Crash \/ CrashInEntryHeader \/ CrashInRegionHeader

Next == Boot \/ Call \/ Check \/ Compact \/ Write \/ Reformat \/ Fail \/ PowerLoss

Spec == Init /\ [][Next]_vars

\* Once powered, the boot code and a call in progress run to their end.
FairSpec == Spec /\ WF_vars(Boot \/ Check \/ Compact \/ Write)

-----------------------------------------------------------------------------
(* Properties.                                                             *)

PcStates == {"init", "scan", "idle", "failed", "return", "space", "full", "ids", "force",
             "write", "validateKey", "validateValue", "delete", "format", "copy", "retire"}
            \cup BootStates

\* Types; the ids of entries and the key id of a call never go negative.
TypeOK ==
    /\ hdr \in [Regions -> Headers]
    /\ log \in [Regions -> Seq(Entry)]
    /\ info \in [base : Regions \cup {NoRegion}, end : Nat, force : BOOLEAN, left : Nat]
    /\ pc \in PcStates
    /\ op \in [key : Keys \cup {Nil}, val : Values \cup {Nil},
               prev : Values \cup {Nil}, clean : BOOLEAN]
    /\ keyId \in Nat
    /\ old \in [region : Regions, pos : Nat]
    /\ copy \in [pos : Nat, id : Nat, then : {"idle", "full", "force", "write"}]
    /\ ret \in {"none", "OK", "NOTFOUND", "ERR_FULL", "ERR_IO", "ERR_NOMEM", "ERR_NOINIT"}
    /\ crashes \in 0 .. MaxCrashes /\ faults \in 0 .. MaxFaults

\* The region sysparam_init would mount if the power failed now.
Recovered ==
    LET r0 == Header0
        r1 == Other(r0)
    IN  IF hdr[r0] = "active" THEN r0
        ELSE IF HasMagic(r0) /\ HasMagic(r1) THEN r1 ELSE NoRegion

\* What the parameter k would read as after a reboot.
Durable(k) == IF Recovered = NoRegion THEN Nil ELSE Lookup(Recovered, k)

Mounted == info.base # NoRegion
Creating == pc \in {"create0", "create1", "createHeader0", "createHeader1"}

\* A reboot at any instant mounts the region that the running code uses; only
\* between the two header writes that end a compaction may it be either.
MountedIsRecovered ==
    Mounted => \/ Recovered = info.base
               \/ pc = "retire" /\ Recovered = Other(info.base)

\* Nothing but sysparam_create_area ever takes the stored parameters out of
\* reach: a region to mount stays a region to mount.
StaysRecoverable == [][Recovered # NoRegion /\ ~Creating => Recovered' # NoRegion]_vars

\* The entries of a region lie end to end inside it; only a torn header, as
\* the last entry, claims to reach beyond.
LogWellFormed ==
    \A r \in Regions : \A i \in DOMAIN log[r] :
        LET e == log[r][i]
        IN  /\ e.addr = IF i = 1 THEN HdrSize ELSE log[r][i-1].addr + log[r][i-1].size
            /\ e.kind = "torn" => i = Len(log[r])
            /\ e.kind # "torn" => e.addr + e.size <= RegionSize

\* Payloads are only ever written to erased flash.  end_addr is where a scan
\* ends, or in front of one left-over header, and never so far that this one
\* would reach out of the region; behind a torn header nothing is written; and
\* an entry whose header was accepted is not where another one was left over.
WritesHitBlankFlash ==
    /\ Mounted => /\ info.end = ScanEnd(info.base)
                  /\ info.end + info.left <= RegionSize
                  /\ TornTail(info.base) => info.force /\ info.left = 0
    /\ pc \in {"write", "validateKey", "validateValue"} => ~TornTail(info.base)
    /\ pc \in {"validateKey", "validateValue"} => info.left = 0

\* The keys of the mounted region are numbered 1, 2, ... in address order and
\* have different names, so max_key_id + 1 is never the id of another key.
KeyIdsInOrder ==
    Mounted =>
        \A i \in LiveKeys(info.base) :
            /\ log[info.base][i].id = Cardinality({j \in LiveKeys(info.base) : j <= i})
            /\ \A j \in LiveKeys(info.base) \ {i} : log[info.base][i].data # log[info.base][j].data

\* No id exceeds MAX_KEY_ID; the next one, 0xfff, would mark the end of the log.
IdsInRange == \A r \in Regions : \A i \in DOMAIN log[r] : log[r][i].id <= MaxKeyId

\* No step changes what another parameter than the one being set reads as
\* after a reboot: not a compaction, not a crash inside one, not a recovery.
OthersUntouched ==
    [][~Creating => \A k \in Keys : k # op.key => Durable(k)' = Durable(k)]_vars

\* A set or a delete that returns OK is what a get then returns, and what a
\* reboot preserves, if the key had one value (or no entry) when it began.
OkIsDurable ==
    pc = "return" /\ ret = "OK" /\ op.clean =>
        /\ Lookup(info.base, op.key) = op.val
        /\ Durable(op.key) = op.val

\* The words a compaction on behalf of the current call would keep.
Pairs(r) == {i \in LiveKeys(r) : FindValue(r, i) # 0}
KeptValues(r) == {FindValue(r, i) : i \in {j \in Pairs(r) : log[r][j].data # op.key}}
KeptWords(r) == HdrSize + Cardinality(Words(r, Pairs(r) \cup KeptValues(r)))

\* ERR_FULL means what its comment says, that compacting would not help: the
\* pairs to keep and the new entries do not fit, or every id is in use.
FullMeansFull ==
    pc = "return" /\ ret = "ERR_FULL" =>
        \/ KeptWords(info.base) + Needed > RegionSize
        \/ keyId = 0 /\ Cardinality(Pairs(info.base)) >= MaxKeyId

\* sysparam.h: OK is returned when the value was set.
OkMeansSet == pc = "return" /\ ret = "OK" => Lookup(info.base, op.key) = op.val

\* Refinement: the store as its callers know it.  Until the status of a call
\* is decided its key counts as unchanged, even where a compaction has left
\* its old value behind.
CallerView ==
    [k \in Keys |-> IF ~Mounted THEN Nil
                    ELSE IF k = op.key /\ pc # "return" THEN op.prev
                    ELSE Lookup(info.base, k)]
Store == INSTANCE SysparamStore WITH
            store <- CallerView,
            request <- [key |-> op.key, val |-> op.val],
            status <- ret

\* With the power on, without deletes and flash errors, the two-region log
\* implements the map that sysparam.h describes.
ImplementsStore == Store!Spec

\* Boot code and calls come to an end.
Settles == []<>(pc \in {"idle", "failed"})

\* If there is a region to mount then, crashes during recovery aside, the
\* boot mounts it.
RecoveryMounts == pc = "init" /\ Recovered # NoRegion ~> pc = "idle"

=============================================================================
