------------------------ MODULE SysparamReadersProofs -----------------------
(***************************************************************************)
(* Theorems about a task that reads parameters without the lock, for every *)
(* choice of the constants, wherever the power goes and whatever fails but *)
(* for the zeroing of a bad header: as long as the store does not move, a  *)
(* get is linearizable and an iteration complete.                          *)
(***************************************************************************)
EXTENDS SysparamReaders, SysparamDataProofs

-----------------------------------------------------------------------------
(* The inductive invariant.                                                *)

\* The reader's call.
ReaderType ==
    [pc : {"idle", "key", "value", "astray", "done"}, key : Keys \cup {Nil},
     reg : Regions, at : Nat, from : [reg : Regions, at : Nat],
     name : Keys \cup {Nil}, id : Nat, got : Values \cup {Nil}, names : Seq(Keys),
     seen : SUBSET (Values \cup {Nil}), steady : SUBSET Keys, moved : BOOLEAN, clean : BOOLEAN]
ReaderTypeOK ==
    /\ rd \in ReaderType
    /\ rd.pc = "value" => rd.name \in Keys
    /\ Reading => rd.got = Nil

\* What a call of the other task knows of its key, whatever the readers do to
\* force_compact: a key without a value stays without one until the call is
\* decided, and the old value, if it is in the region in use, is the one that
\* a lookup finds.
Underway == pc \in Setting \cup {"delete"}
HasOld(s) ==
    \E i \in KeysOf(s) : /\ s[i].data = op.key /\ s[old.pos].data = op.prev
                        /\ old.pos \in ValuesFor(s, i)
                        /\ \A j \in ValuesFor(s, i) : old.pos <= j
IdleInv == pc \notin Setting \cup {"delete", "return"} => op.key = Nil
OpInv ==
    Underway =>
        /\ op.key \in Keys
        /\ op.prev = Nil => old.pos = 0 /\ LookupOf(log[info.base], op.key) = Nil
        /\ op.prev = Nil /\ pc \in {"copy", "retire"} => Fresh(log[Other(info.base)], op.key)
        /\ old.pos # 0 /\ old.region = info.base => HasOld(log[info.base])
        /\ pc # "delete" /\ (keyId = 0 \/ pc = "validateKey") => op.prev = Nil
        /\ pc = "delete" => old.pos # 0
        /\ pc = "validateKey" => LastOf(log[info.base]).data = op.key
        /\ pc = "validateValue" => /\ LastOf(log[info.base]).data = op.val
                                   /\ LastOf(log[info.base]).id = keyId
                                   /\ keyId # 0

\* An address at which _find_entry may stand: behind the header or an entry.
Boundary(s, a) == a = HdrSize \/ \E i \in DOMAIN s : a = s[i].addr + s[i].size

\* As long as the store has not moved, the reader stands in the region in use
\* and the call of the other task has not left the old value behind.
PosInv ==
    Reading /\ ~rd.moved =>
        /\ info.base \in Regions
        /\ rd.reg = info.base /\ rd.from.reg = info.base
        /\ Boundary(log[info.base], rd.at) /\ Boundary(log[info.base], rd.from.at)
        /\ rd.from.at <= rd.at
        /\ \A k \in Keys : rd.key \in {k, Nil} => ~LeftBehind(k)

\* The history variables are up to date.
SeenInv ==
    Reading => /\ rd.key \in Keys => Visible(rd.key) \subseteq rd.seen
               /\ \A k \in rd.steady : Nil \notin Visible(k)

\* The values of the key at i that a reader at address a has before it, and
\* what it would return if the other task stood still.
Ahead(s, i, a) == {j \in ValuesFor(s, i) : s[j].addr >= a}
Answer(s, i, a) == IF Ahead(s, i, a) = {} THEN Nil ELSE s[FirstOf(Ahead(s, i, a))].data

\* The call knows the entry of its key and whether it has a value.
Informed ==
    /\ keyId # 0 /\ pc # "validateKey" =>
          \E i \in KeysOf(log[info.base]) : /\ log[info.base][i].data = op.key
                                            /\ log[info.base][i].id = keyId
    /\ \A i \in KeysOf(log[info.base]) :
          log[info.base][i].data = op.key /\ ValuesFor(log[info.base], i) # {} => old.pos # 0

\* What a get would return is right.
GetInv ==
    Reading /\ ~rd.moved /\ rd.key \in Keys =>
        LET s == log[info.base]
        IN  /\ rd.pc = "key" =>
                  \/ Nil \in rd.seen
                  \/ \A i \in KeysOf(s) : s[i].data = rd.key => s[i].addr >= rd.at
            /\ rd.pc = "value" =>
                  \E i \in KeysOf(s) :
                     /\ s[i].data = rd.key /\ s[i].id = rd.id /\ s[i].addr < rd.at
                     /\ Answer(s, i, rd.at) \in rd.seen
                     /\ Ahead(s, i, rd.at) # ValuesFor(s, i) /\ pc \in Setting /\ ~Compacting
                           => Informed

\* An iterator has delivered or has before it whatever it must deliver.
Delivered == {rd.names[n] : n \in DOMAIN rd.names}
IterInv ==
    Reading /\ ~rd.moved /\ rd.key = Nil =>
        LET s == log[info.base]
        IN  /\ \A k \in Delivered : \E i \in KeysOf(s) : s[i].data = k /\ s[i].addr < rd.from.at
            /\ \A m, n \in DOMAIN rd.names : rd.names[m] = rd.names[n] => m = n
            /\ rd.pc = "key" =>
                  \A k \in rd.steady \ Delivered : \E i \in KeysOf(s) : s[i].data = k /\ s[i].addr >= rd.at
            /\ rd.pc = "value" =>
                  /\ rd.name \notin Delivered
                  /\ \A k \in rd.steady \ (Delivered \cup {rd.name}) :
                        \E i \in KeysOf(s) : s[i].data = k /\ s[i].addr >= rd.from.at
                  /\ \E i \in KeysOf(s) :
                        /\ s[i].data = rd.name /\ s[i].id = rd.id /\ s[i].addr < rd.from.at
                        /\ rd.name \in rd.steady => Ahead(s, i, rd.at) = ValuesFor(s, i)

ReaderInv ==
    /\ LogInv /\ IdleInv /\ OpInv
    /\ ReaderTypeOK /\ PosInv /\ SeenInv /\ GetInv /\ IterInv
    /\ GetIsLinearizable /\ IterationComplete

-----------------------------------------------------------------------------
(* The writer beside a reader.                                             *)

\* A step that changes nothing of the writer's state but force_compact.
Forced ==
    /\ info' = info \/ info' = [info EXCEPT !.force = TRUE]
    /\ UNCHANGED <<flash, pc, call, bounds>>

\* A reader that sets force_compact does not disturb the log.
LEMMA LogForced == LogInv /\ Forced => LogInv'
<1> SUFFICES ASSUME LogInv, Forced PROVE LogInv'
  OBVIOUS
<1>1. info \in [base : Regions \cup {NoRegion}, end : Nat, force : BOOLEAN, left : Nat]
  BY DEF LogInv, TypeInv, TypeOK
<1>2. /\ hdr' = hdr /\ log' = log /\ pc' = pc /\ op' = op /\ keyId' = keyId /\ old' = old
      /\ copy' = copy /\ ret' = ret /\ crashes' = crashes /\ faults' = faults
      /\ info'.base = info.base /\ info'.end = info.end /\ (info.force => info'.force)
      /\ info'.left = info.left
      /\ info' \in [base : Regions \cup {NoRegion}, end : Nat, force : BOOLEAN, left : Nat]
  BY <1>1 DEF Forced, flash, call, bounds
<1>3. TypeInv'
  BY <1>2 DEF LogInv, TypeInv, TypeOK, CallOK, LastOf
<1>4. EndInv'
  BY <1>2, EndSame DEF LogInv, EndInv, Mounted
<1>5. CallInv' /\ LastInv' /\ CopyInv'
  BY <1>2 DEF LogInv, CallInv, LastInv, CopyInv, HasRoom, HasId, Compacting, Needed, LastOf
<1> QED
  BY <1>2, <1>3, <1>4, <1>5 DEF LogInv

\* What the readers do to the writer's state.
LEMMA ReaderStep ==
    ASSUME TypeOK, [ReaderNext]_readerVars
    PROVE  (Next /\ Observe) \/ Forced
BY DEF ReaderNext, StartGet, StartIteration, ReadStep, ReadBeyond, ReadEnd, ReadEntry, ReadAstray,
       ReadReturn, Forced, readerVars, vars
-----------------------------------------------------------------------------
(* What the writer's call knows.                                           *)

\* Outside a call nothing is to be known.
LEMMA OpQuiet ==
    ASSUME pc' \notin Setting \cup {"delete"}
    PROVE  OpInv'
BY DEF OpInv, Underway

\* Steps that leave the region in use, the request and the old value alone.
LEMMA OpSame ==
    ASSUME OpInv, Underway, UNCHANGED <<op, old, keyId>>, info'.base = info.base,
           log'[info.base] = log[info.base], pc # "delete",
           pc' \in Setting \ {"copy", "retire", "validateKey", "validateValue"}
    PROVE  OpInv'
<1>1. HasOld(log[info.base])' <=> HasOld(log[info.base])
  BY DEF HasOld
<1> QED
  BY <1>1 DEF OpInv, Underway, Setting

\* A key that is found, and its first value.
LEMMA FoundKey ==
    ASSUME LogInv, info.base \in Regions, NEW k \in Keys
    PROVE  LET s == log[info.base]
               i == FindKey(info.base, k)
           IN  /\ i # 0 => i \in KeysOf(s) /\ s[i].data = k
               /\ i = 0 => Fresh(s, k)
               /\ Lookup(info.base, k) = LookupOf(s, k)
<1> DEFINE s == log[info.base]
           i == FindKey(info.base, k)
           S == {m \in KeysOf(s) : s[m].data = k}
<1>1. i = FirstOf(S) /\ Lookup(info.base, k) = LookupOf(s, k)
  BY LookupIs
<1>2. S \in SUBSET (Nat \ {0})
  BY BaseFacts, SeqFacts
<1>3. i # 0 => i \in S
  BY <1>1, <1>2, FirstOfType
<1>4. i = 0 => Fresh(s, k)
  BY FindKeyFresh DEF LogInv, TypeInv
<1> QED
  BY <1>1, <1>3, <1>4

LEMMA OpSetData ==
    ASSUME LogInv, NEW k \in Keys, NEW v \in Values \cup {Nil}, SetData(k, v)
    PROVE  OpInv'
<1> DEFINE s == log[info.base]
           i == FindKey(info.base, k)
           j == IF i = 0 THEN 0 ELSE FindValueOf(s, i)
<1>1. info.base \in Regions /\ pc = "idle" /\ TypeOK
  BY DEF SetData, LogInv, TypeInv, CallOK
<1>2. s \in Seq(Entry) /\ Numbered(s) /\ Distinct(s)
  BY <1>1, BaseFacts
<1>3. /\ UNCHANGED <<log, info>> /\ op'.key = k /\ op'.prev = Lookup(info.base, k)
      /\ keyId' = IF i = 0 THEN 0 ELSE s[i].id
      /\ old'.region = info.base /\ old'.pos = j
      /\ pc' \in {"return", "delete", "space"} /\ (pc' = "delete" => j # 0)
  BY ReadsOf DEF SetData, Finish, flash
<1>4. /\ i # 0 => i \in KeysOf(s) /\ s[i].data = k
      /\ i = 0 => Fresh(s, k)
      /\ Lookup(info.base, k) = LookupOf(s, k)
  BY <1>1, FoundKey
<1>5. i # 0 => s[i].id # 0
  BY <1>2, <1>4, IdsDiffer
<1>6. /\ j # 0 => i # 0 /\ j \in ValuesFor(s, i) /\ \A m \in ValuesFor(s, i) : j <= m
      /\ i # 0 /\ j = 0 => ValuesFor(s, i) = {}
  BY <1>2, ValuesForType, FirstOfType
<1>7. LookupOf(s, k) = IF j = 0 THEN Nil ELSE s[j].data
  <2>1. i = FirstOf({m \in KeysOf(s) : s[m].data = k})
    BY LookupIs
  <2> QED
    BY <2>1 DEF LookupOf
<1>8. j # 0 => s[j].data \in Values
  BY <1>1, <1>2, <1>6, ValuesForType, ScanType, ReadsOf
<1> HIDE DEF s, i, j
<1>9. log'[info'.base] = s /\ info'.base = info.base
  BY <1>3 DEF s
<1>10. op'.prev = Nil => j = 0 /\ LookupOf(s, k) = Nil
  BY <1>3, <1>4, <1>7, <1>8, KeysAssumption
<1>11. j # 0 => HasOld(log[info.base])'
  BY <1>3, <1>4, <1>6, <1>7, <1>9 DEF HasOld
<1>12. keyId' = 0 => op'.prev = Nil
  BY <1>3, <1>4, <1>5, <1>6, <1>7
<1> QED
  BY <1>3, <1>9, <1>10, <1>11, <1>12 DEF OpInv, Underway, Setting

LEMMA OpCheck ==
    ASSUME LogInv, OpInv, Check
    PROVE  OpInv'
<1>1. /\ UNCHANGED <<log, op, keyId, old>> /\ info'.base = info.base
      /\ pc \in {"space", "full", "ids", "force"}
      /\ pc' \in {"return", "ids", "force", "write", "format"}
  BY DEF Check, CheckSpace, CheckFull, CheckIds, CheckForce, flash, Finish, StartCompaction, LogInv,
         TypeInv, TypeOK
<1>2. CASE pc' = "return"
  BY <1>2, OpQuiet DEF Setting
<1>3. CASE pc' # "return"
  BY <1>1, <1>3, OpSame DEF Underway, Setting
<1> QED
  BY <1>2, <1>3

\* The pair that is copied next has a value, the key that is set has none.
LEMMA OpCopy ==
    ASSUME LogInv, OpInv, CompactCopy, LogInv'
    PROVE  OpInv'
<1> DEFINE s == log[info.base]
           t == log[Other(info.base)]
           u == log'[Other(info.base)]
           i == FirstOf(RemainingPairs)
           id == copy.id + 1
           key == KeyEntry(ScanEnd(Other(info.base)), id, s[i].data, "live")
           val == ValueEntry(key.addr + key.size, id, s[FindValue(info.base, i)].data, "live")
<1>1. /\ pc = "copy" /\ pc' = "copy" /\ UNCHANGED <<info, op, old>> /\ info.base \in Regions
      /\ RemainingPairs # {} /\ log \in [Regions -> Seq(Entry)] /\ TypeOK
      /\ keyId \in Nat /\ copy.id \in Nat
  BY DEF CompactCopy, LogInv, TypeInv, TypeOK, CallOK, Setting
<1>2. /\ Other(info.base) \in Regions /\ Other(info.base) # info.base
      /\ s \in Seq(Entry) /\ t \in Seq(Entry) /\ Distinct(s)
  BY <1>1, BaseFacts
<1>3. i \in KeysOf(s) /\ FindValueOf(s, i) # 0
  BY <1>1, NextPair
<1>4. key \in Entry /\ val \in Entry /\ key.kind = "key" /\ key.st = "live" /\ key.data = s[i].data
  <2>1. s[i].data \in Keys
    BY <1>1, <1>3, ScanType, ReadsOf
  <2>2. FindValueOf(s, i) \in ValuesOf(s)
    BY <1>2, <1>3, FindFacts
  <2>3. s[FindValue(info.base, i)].data \in Values
    BY <1>1, <2>2, ScanType, ReadsOf
  <2>4. ScanEnd(Other(info.base)) \in Nat
    BY <1>1, <1>2, ScanType
  <2>5. key \in Entry /\ key.addr + key.size \in Nat
    BY <1>1, <2>1, <2>4, LenAssumption DEF KeyEntry, Entry, EntryRecord, EntrySize
  <2>6. val \in Entry
    BY <1>1, <2>3, <2>5, LenAssumption DEF ValueEntry, Entry, EntryRecord, EntrySize
  <2> QED
    BY <2>5, <2>6 DEF KeyEntry
<1> HIDE DEF s, t, u, i, id, key, val
<1>5. /\ log'[info.base] = s
      /\ u = Append(t, key) \/ u = t \o <<key, val>>
      /\ keyId' = keyId \/ keyId' = id
  BY <1>1, <1>2 DEF CompactCopy, s, t, u, i, id, key, val
<1>6. ASSUME op.prev = Nil PROVE Fresh(u, op.key)
  <2>1. Fresh(t, op.key) /\ LookupOf(s, op.key) = Nil
    BY <1>1, <1>6 DEF OpInv, Underway, Setting, s, t
  <2>2. s[i].data # op.key
    <3>1. ValuesFor(s, i) # {}
      BY <1>2, <1>3, ValuesForType
    <3>2. LookupOf(s, s[i].data) = s[FirstOf(ValuesFor(s, i))].data
      BY <1>2, <1>3, <3>1, LookupKey
    <3>3. FirstOf(ValuesFor(s, i)) \in ValuesOf(s)
      BY <1>2, <1>3, FindFacts, ValuesForType
    <3>4. s[FirstOf(ValuesFor(s, i))].data \in Values
      BY <1>1, <3>3, ScanType, ReadsOf DEF s
    <3> QED
      BY <2>1, <3>2, <3>4, KeysAssumption
  <2> DEFINE w == Append(t, key)
             n == Len(t) + 1
  <2>3. /\ w \in Seq(Entry) /\ KeysOf(w) = KeysOf(t) \cup {n} /\ w[n] = key
        /\ \A m \in DOMAIN t : w[m] = t[m]
    BY <1>2, <1>4, AppendReads
  <2>4. \A m \in KeysOf(t) : m \in DOMAIN t
    BY DEF KeysOf
  <2> HIDE DEF w, n
  <2>5. Fresh(w, op.key)
    BY <1>4, <2>1, <2>2, <2>3, <2>4 DEF Fresh
  <2>6. CASE u = t \o <<key, val>>
    <3>1. u = Append(w, val)
      BY <1>2, <1>4, <2>6, PairAppend DEF w
    <3>2. val.kind # "key"
      BY DEF val, ValueEntry
    <3>3. KeysOf(u) = KeysOf(w) /\ \A m \in DOMAIN w : u[m] = w[m]
      BY <1>4, <2>3, <3>1, <3>2, AppendReads
    <3>4. \A m \in KeysOf(w) : m \in DOMAIN w
      BY DEF KeysOf
    <3> QED
      BY <2>5, <3>3, <3>4 DEF Fresh
  <2> QED
    BY <1>5, <2>5, <2>6 DEF w
<1>7. HasOld(log[info.base])' <=> HasOld(log[info.base])
  BY <1>1, <1>5 DEF HasOld, s
<1>8. id # 0
  BY <1>1 DEF id
<1> QED
  BY <1>1, <1>5, <1>6, <1>7, <1>8 DEF OpInv, Underway, Setting, s, t, u

LEMMA OpCompact ==
    ASSUME LogInv, OpInv, Compact, LogInv'
    PROVE  OpInv'
<1>1. CASE CompactFormat
  <2>1. /\ pc = "format" /\ pc' = "copy" /\ UNCHANGED <<info, op, keyId, old>>
        /\ info.base \in Regions /\ log \in [Regions -> Seq(Entry)]
    BY <1>1 DEF CompactFormat, call, LogInv, TypeInv, TypeOK, CallOK, Setting
  <2>2. Other(info.base) \in Regions /\ Other(info.base) # info.base
    BY <2>1, BaseFacts
  <2>3. log'[info.base] = log[info.base] /\ log'[Other(info.base)] = <<>>
    BY <1>1, <2>1, <2>2 DEF CompactFormat, Format
  <2>4. \A k : Fresh(<<>>, k)
    BY GoodEmpty DEF Fresh
  <2>5. HasOld(log[info.base])' <=> HasOld(log[info.base])
    BY <2>1, <2>3 DEF HasOld
  <2> QED
    BY <2>1, <2>3, <2>4, <2>5 DEF OpInv, Underway, Setting
<1>2. CASE CompactActivate
  <2>1. /\ pc = "copy" /\ pc' = "retire" /\ UNCHANGED <<log, info, op, keyId, old>>
    BY <1>2 DEF CompactActivate, call
  <2>2. HasOld(log[info.base])' <=> HasOld(log[info.base])
    BY <2>1 DEF HasOld
  <2> QED
    BY <2>1, <2>2 DEF OpInv, Underway, Setting
<1>3. CASE CompactRetire
  <2>1. /\ pc = "retire" /\ pc' = copy.then /\ UNCHANGED <<op, keyId>>
        /\ info'.base = Other(info.base) /\ old' \in {old, NoOld}
        /\ info.base \in Regions /\ pc' \in {"full", "force", "write"}
        /\ log' = Sealed(info.left) /\ info.left \in Nat /\ info.left <= info.left
    BY <1>3 DEF CompactRetire, LogInv, TypeInv, TypeOK, CallOK, Setting
  <2>2. Other(info.base) # info.base /\ Other(info.base) \in Regions
    BY <2>1, BaseFacts
  <2>5. log'[info'.base] = log[Other(info.base)]
    BY <2>1, <2>2, LogSeal
  <2>3. old'.pos = 0 \/ old'.region # info'.base
    BY <2>1, <2>2 DEF NoOld, LogInv, CallInv, Setting
  <2>4. op.prev = Nil => old'.pos = 0 /\ LookupOf(log[Other(info.base)], op.key) = Nil
    BY <2>1, LookupFresh DEF OpInv, Underway, Setting, NoOld
  <2> QED
    BY <2>1, <2>3, <2>4, <2>5 DEF OpInv, Underway, Setting
<1> QED
  BY <1>1, <1>2, <1>3, OpCopy DEF Compact

\* A header that is written is not read.
LEMMA OpAppend ==
    ASSUME LogInv, OpInv, LogInv', pc = "write", NEW e \in Entry, e.st # "live", AppendEntry(e),
           UNCHANGED <<op, old>>, info'.base = info.base
    PROVE  /\ LookupOf(log'[info.base], op.key) = LookupOf(log[info.base], op.key)
           /\ HasOld(log[info.base]) => HasOld(log[info.base])'
           /\ LastOf(log'[info.base]) = e
<1> DEFINE s == log[info.base]
           t == log'[info.base]
<1>1. info.base \in Regions
  BY DEF LogInv, TypeInv, CallOK, Setting
<1>2. s \in Seq(Entry) /\ Distinct(s) /\ t \in Seq(Entry) /\ Distinct(t)
  <2>1. \A r \in Regions : log[r] \in Seq(Entry) /\ GoodLog(log[r])
    BY DEF LogInv, TypeInv, TypeOK
  <2>2. \A r \in Regions : log'[r] \in Seq(Entry) /\ GoodLog(log'[r])
    BY DEF LogInv, TypeInv, TypeOK
  <2> QED
    BY <1>1, <2>1, <2>2 DEF GoodLog
<1>3. /\ KeysOf(t) = KeysOf(s) /\ ValuesOf(t) = ValuesOf(s)
      /\ \A i \in KeysOf(s) \cup ValuesOf(s) : t[i] = s[i]
      /\ \A i \in KeysOf(s) : ValuesFor(t, i) = ValuesFor(s, i)
      /\ LastOf(t) = e
  BY <1>1, AppendInvalid
<1> HIDE DEF s, t
<1>4. \A i \in KeysOf(s) : ValuesFor(s, i) # {} => FirstOf(ValuesFor(s, i)) \in ValuesOf(s)
  BY <1>2, ValuesForType
<1>5. LookupOf(t, op.key) = LookupOf(s, op.key)
  <2> DEFINE k == op.key
  <2>1. \A i \in KeysOf(s) : s[i].data = k =>
           /\ i \in KeysOf(t) /\ t[i].data = k
           /\ ValuesFor(t, i) # {} <=> ValuesFor(s, i) # {}
           /\ ValuesFor(s, i) # {} =>
                 t[FirstOf(ValuesFor(t, i))].data = s[FirstOf(ValuesFor(s, i))].data
    BY <1>3, <1>4
  <2>2. \A i \in KeysOf(t) : t[i].data = k => i \in KeysOf(s) /\ s[i].data = k
    BY <1>3
  <2> HIDE DEF k
  <2>3. LookupOf(t, k) = LookupOf(s, k)
    BY <1>2, <2>1, <2>2, LookupSame
  <2> QED
    BY <2>3 DEF k
<1>6. ASSUME HasOld(s) PROVE HasOld(log[info.base])'
  <2>1. PICK i \in KeysOf(s) : /\ s[i].data = op.key /\ s[old.pos].data = op.prev
                               /\ old.pos \in ValuesFor(s, i)
                               /\ \A j \in ValuesFor(s, i) : old.pos <= j
    BY <1>6 DEF HasOld
  <2>2. old.pos \in ValuesOf(s)
    BY <2>1 DEF ValuesFor
  <2>3. i \in KeysOf(t) /\ t[i].data = op.key /\ t[old.pos].data = op.prev
        /\ ValuesFor(t, i) = ValuesFor(s, i)
    BY <1>3, <2>1, <2>2
  <2> QED
    BY <2>1, <2>3 DEF HasOld, t
<1> QED
  BY <1>3, <1>5, <1>6 DEF s, t

LEMMA OpWrite ==
    ASSUME LogInv, OpInv, LogInv', Write
    PROVE  OpInv'
<1> USE DEF Underway
<1>1. CASE WriteKey
  <2> DEFINE e == KeyEntry(info.end, MaxIdOf(info.base) + 1, op.key, "new")
  <2>1. /\ pc = "write" /\ pc' = "validateKey" /\ keyId = 0 /\ UNCHANGED <<op, old>>
        /\ AppendEntry(e) /\ info'.base = info.base /\ info.base \in Regions
    BY <1>1 DEF WriteKey, Advance, LogInv, TypeInv, TypeOK, CallOK, Setting
  <2>2. op.key \in Keys /\ op.prev = Nil
    BY <2>1 DEF OpInv, Setting
  <2>3. e \in Entry /\ e.st = "new" /\ e.data = op.key
    <3>1. info.end \in Nat /\ MaxIdOf(info.base) \in Nat
      BY <2>1, LookupType DEF LogInv, TypeInv, TypeOK
    <3> QED
      BY <2>2, <3>1, LenAssumption DEF KeyEntry, Entry, EntryRecord, EntrySize
  <2> HIDE DEF e
  <2>4. /\ LookupOf(log'[info.base], op.key) = LookupOf(log[info.base], op.key)
        /\ LastOf(log'[info.base]) = e
    BY <2>1, <2>3, OpAppend
  <2> QED
    BY <2>1, <2>2, <2>3, <2>4 DEF OpInv, Setting
<1>2. CASE ValidateKey
  <2> DEFINE s == log[info.base]
             t == log'[info.base]
             n == Len(s)
  <2>1. /\ pc = "validateKey" /\ pc' = "write" /\ UNCHANGED <<info, op, old, keyId>> /\ Validate
        /\ info.base \in Regions
    BY <1>2 DEF ValidateKey, call, LogInv, TypeInv, TypeOK, CallOK, Setting
  <2>2. op.key \in Keys /\ op.prev = Nil /\ old.pos = 0 /\ LastOf(s).data = op.key
    BY <2>1 DEF OpInv, Setting
  <2>3. /\ t \in Seq(Entry) /\ n \in Nat \ {0} /\ t[n].data = op.key
        /\ \A i \in ValuesOf(s) : i < n /\ i \in Nat
        /\ KeysOf(t) = KeysOf(s) \cup {n} /\ ValuesOf(t) = ValuesOf(s)
    BY <2>1, <2>2, ValidateReads DEF LogInv
  <2>4. Distinct(t)
    BY <2>1 DEF LogInv, GoodLog
  <2>5. ValuesFor(t, n) = {}
    BY <2>3 DEF ValuesFor
  <2> HIDE DEF s, t, n
  <2>6. LookupOf(t, op.key) = Nil
    BY <2>3, <2>4, <2>5, LookupKey
  <2> QED
    BY <2>1, <2>2, <2>6 DEF OpInv, Setting, t
<1>3. CASE WriteValue
  <2> DEFINE e == ValueEntry(info.end, keyId, op.val, "new")
  <2>1. /\ pc = "write" /\ pc' = "validateValue" /\ keyId # 0 /\ UNCHANGED <<op, old, keyId>>
        /\ AppendEntry(e) /\ info'.base = info.base /\ info.base \in Regions /\ op.val \in Values
    BY <1>3 DEF WriteValue, Advance, call, LogInv, TypeInv, TypeOK, CallOK, Setting
  <2>2. e \in Entry /\ e.st = "new" /\ e.data = op.val /\ e.id = keyId
    <3>1. info.end \in Nat /\ keyId \in Nat
      BY DEF LogInv, TypeInv, TypeOK
    <3> QED
      BY <2>1, <3>1, LenAssumption DEF ValueEntry, Entry, EntryRecord, EntrySize
  <2> HIDE DEF e
  <2>3. /\ LookupOf(log'[info.base], op.key) = LookupOf(log[info.base], op.key)
        /\ HasOld(log[info.base]) => HasOld(log[info.base])'
        /\ LastOf(log'[info.base]) = e
    BY <2>1, <2>2, OpAppend
  <2> QED
    BY <2>1, <2>2, <2>3 DEF OpInv, Setting
<1>4. CASE ValidateValue
  <2> DEFINE s == log[info.base]
             t == log'[info.base]
             n == Len(s)
  <2>1. /\ pc = "validateValue" /\ UNCHANGED <<info, op, old, keyId>> /\ Validate
        /\ pc' = "return" \/ (pc' = "delete" /\ old.pos # 0)
        /\ info.base \in Regions
    BY <1>4 DEF ValidateValue, Finish, LogInv, TypeInv, TypeOK, CallOK, Setting
  <2>2. CASE pc' = "return"
    BY <2>2, OpQuiet DEF Setting
  <2>3. CASE pc' = "delete"
    <3>1. op.key \in Keys /\ op.prev # Nil
      BY <2>1, <2>3 DEF OpInv, Setting
    <3>2. /\ t \in Seq(Entry) /\ n \in Nat \ {0}
          /\ \A i \in KeysOf(s) \cup ValuesOf(s) : i < n /\ i \in Nat /\ t[i] = s[i]
          /\ KeysOf(t) = KeysOf(s) /\ ValuesOf(t) = ValuesOf(s) \cup {n}
      BY <2>1, ValidateReads DEF LogInv
    <3>3. ASSUME old.region = info.base PROVE HasOld(log[info.base])'
      <4>1. PICK i \in KeysOf(s) : /\ s[i].data = op.key /\ s[old.pos].data = op.prev
                                   /\ old.pos \in ValuesFor(s, i)
                                   /\ \A j \in ValuesFor(s, i) : old.pos <= j
        BY <2>1, <2>3, <3>3 DEF OpInv, HasOld, Setting
      <4> HIDE DEF s, t, n
      <4>2. old.pos \in ValuesOf(s) /\ old.pos > i /\ s[old.pos].id = s[i].id
        BY <4>1 DEF ValuesFor
      <4>3. /\ i \in KeysOf(t) /\ t[i].data = op.key /\ t[old.pos].data = op.prev
            /\ old.pos \in ValuesFor(t, i) /\ old.pos < n /\ old.pos \in Nat
        BY <3>2, <4>1, <4>2 DEF ValuesFor
      <4>4. \A j \in ValuesFor(t, i) : j = n \/ j \in ValuesFor(s, i)
        BY <3>2, <4>1 DEF ValuesFor
      <4>5. \A j \in ValuesFor(t, i) : old.pos <= j
        BY <3>2, <4>1, <4>3, <4>4
      <4> QED
        BY <2>1, <4>3, <4>5 DEF HasOld, t
    <3> QED
      BY <2>1, <2>3, <3>1, <3>3 DEF OpInv
  <2> QED
    BY <2>1, <2>2, <2>3
<1>5. CASE DeleteOld \/ Return \/ WriteOverLeft
  BY <1>5, OpQuiet DEF DeleteOld, Return, WriteOverLeft, SkipHeader, Finish, Setting
<1> QED
  BY <1>1, <1>2, <1>3, <1>4, <1>5 DEF Write

LEMMA OpNext ==
    ASSUME LogInv, OpInv, LogInv', Next \/ Forced
    PROVE  OpInv'
<1>1. CASE Boot \/ Reformat \/ PowerLoss \/ Fail
  <2>1. pc' \notin Setting \cup {"delete"}
    BY <1>1 DEF Boot, SysparamInit, Mount, RecreateFormat, RecreateHeader, CreateScan, CreateFormat,
         CreateHeader, Reformat, PowerLoss, Crash, CrashInEntryHeader, CrashInRegionHeader, Reset,
         Fail, WriteHeaderFails, SkipHeader, ValidateFails, DeleteFails, CompactFails,
         CompactHeaderFails, BootFails, Finish, Setting
  <2> QED
    BY <2>1, OpQuiet
<1>2. CASE Call
  <2>1. PICK k \in Keys, v \in Values \cup {Nil} : SetData(k, v) \/ SetNoInit(k, v) \/ SetFails(k, v)
    BY <1>2 DEF Call
  <2>2. CASE SetNoInit(k, v) \/ SetFails(k, v)
    BY <2>2, OpQuiet DEF SetNoInit, SetFails, Finish, Setting
  <2> QED
    BY <2>1, <2>2, OpSetData
<1>3. CASE Forced
  <2>1. /\ UNCHANGED <<log, pc, op, keyId, old>> /\ info'.base = info.base
    BY <1>3 DEF Forced, flash, call, LogInv, TypeInv, TypeOK
  <2>2. HasOld(log[info.base])' <=> HasOld(log[info.base])
    BY <2>1 DEF HasOld
  <2> QED
    BY <2>1, <2>2 DEF OpInv, Underway
<1> QED
  BY <1>1, <1>2, <1>3, OpCheck, OpCompact, OpWrite DEF Next

\* Between calls there is no request.
LEMMA IdleNext ==
    ASSUME LogInv, IdleInv, Next \/ Forced
    PROVE  IdleInv'
<1> USE DEF IdleInv
<1>1. CASE Boot
  BY <1>1 DEF Boot, SysparamInit, Mount, RecreateFormat, RecreateHeader, CreateScan, CreateFormat,
              CreateHeader, Setting, call
<1>2. CASE Call
  BY <1>2 DEF Call, SetData, SetNoInit, SetFails, Finish, Setting
<1>3. CASE Check
  BY <1>3 DEF Check, CheckSpace, CheckFull, CheckIds, CheckForce, StartCompaction, Finish, Setting
<1>4. CASE Compact
  <2>1. pc \in {"format", "copy", "retire"} => copy.then \in {"full", "force", "write"}
    BY DEF LogInv, TypeInv, CallOK
  <2> QED
    BY <1>4, <2>1 DEF Compact, CompactFormat, CompactCopy, CompactActivate, CompactRetire, Setting
<1>5. CASE Write
  BY <1>5 DEF Write, WriteKey, WriteOverLeft, SkipHeader, ValidateKey, WriteValue, ValidateValue,
              DeleteOld, Return, Finish, NoOp, Setting
<1>6. CASE Reformat
  BY <1>6 DEF Reformat, call, Setting
<1>7. CASE Fail
  BY <1>7 DEF Fail, WriteHeaderFails, SkipHeader, ValidateFails, DeleteFails, CompactFails,
              CompactHeaderFails, BootFails, BootStates, Finish, call, Setting
<1>8. CASE PowerLoss
  BY <1>8 DEF PowerLoss, Crash, CrashInEntryHeader, CrashInRegionHeader, Reset, NoOp
<1>9. CASE Forced
  BY <1>9 DEF Forced, call
<1> QED
  BY <1>1, <1>2, <1>3, <1>4, <1>5, <1>6, <1>7, <1>8, <1>9 DEF Next

\* What a lookup in the region in use finds is visible, unless the call of the
\* key has left the old value behind.
LEMMA LookupVisible ==
    ASSUME LogInv, IdleInv, OpInv, info.base \in Regions, NEW k \in Keys, ~LeftBehind(k)
    PROVE  LookupOf(log[info.base], k) \in Visible(k)
<1> DEFINE s == log[info.base]
<1>1. Mounted /\ s \in Seq(Entry) /\ Distinct(s)
  BY BaseFacts
<1>2. CallerView[k] \in Visible(k)
  BY DEF Visible
<1>3. Lookup(info.base, k) = LookupOf(s, k)
  BY LookupIs
<1>4. CASE k # op.key \/ pc = "return"
  BY <1>1, <1>2, <1>3, <1>4 DEF CallerView
<1>5. CASE k = op.key /\ pc # "return"
  <2>1. Underway
    BY <1>5, KeysAssumption DEF Underway, IdleInv
  <2>2. CallerView[k] = op.prev
    BY <1>1, <1>5 DEF CallerView
  <2>3. CASE op.prev = Nil
    BY <1>2, <1>5, <2>1, <2>2, <2>3 DEF OpInv
  <2>4. CASE op.prev # Nil
    <3>1. old.pos # 0 /\ old.region = info.base
      BY <1>5, <2>4 DEF LeftBehind
    <3>2. PICK i \in KeysOf(s) : /\ s[i].data = op.key /\ s[old.pos].data = op.prev
                                 /\ old.pos \in ValuesFor(s, i)
                                 /\ \A j \in ValuesFor(s, i) : old.pos <= j
      BY <2>1, <3>1 DEF OpInv, HasOld
    <3>3. FirstOf(ValuesFor(s, i)) = old.pos
      <4>1. ValuesFor(s, i) \in SUBSET (Nat \ {0})
        BY <1>1, ValuesForType
      <4>2. FirstOf(ValuesFor(s, i)) \in ValuesFor(s, i) /\ FirstOf(ValuesFor(s, i)) <= old.pos
        BY <3>2, <4>1, FirstOfType
      <4> QED
        BY <3>2, <4>1, <4>2
    <3>4. LookupOf(s, s[i].data) = s[old.pos].data
      BY <1>1, <3>2, <3>3, LookupKey
    <3> QED
      BY <1>2, <1>5, <2>2, <3>2, <3>4
  <2> QED
    BY <2>3, <2>4
<1> QED
  BY <1>4, <1>5

\* The same before and after a step.
UnlessBehind == \A k \in Keys : ~LeftBehind(k) => LookupOf(log[info.base], k) \in Visible(k)
InUse == info.base \in Regions

LEMMA LookupNow == LogInv /\ IdleInv /\ OpInv /\ InUse => UnlessBehind
BY LookupVisible DEF UnlessBehind, InUse

LEMMA LookupNext == LogInv' /\ IdleInv' /\ OpInv' /\ InUse' => UnlessBehind'
BY LookupNow, PTL

-----------------------------------------------------------------------------
(* Positions in the log.                                                   *)

\* Entries in address order.
LEMMA AddressOrder ==
    ASSUME NEW s \in Seq(Entry), Chained(s)
    PROVE  /\ \A i \in DOMAIN s : i \in Nat \ {0} /\ s[i].addr \in Nat /\ s[i].size \in Nat
           /\ \A i, j \in DOMAIN s : i < j => /\ s[i].addr + s[i].size <= s[j].addr
                                              /\ s[i].addr <= s[j].addr
<1>1. \A i \in DOMAIN s : i \in Nat \ {0} /\ s[i].addr \in Nat /\ s[i].size \in Nat
  BY SeqFacts
<1>2. \A i, j \in DOMAIN s : i < j => s[i].addr + s[i].size <= s[j].addr
  BY DEF Chained
<1> QED
  BY <1>1, <1>2

\* A live entry is not empty and ends inside the region.
LEMMA LiveSize ==
    ASSUME NEW s \in Seq(Entry), Chained(s), Sized(s), NEW i \in KeysOf(s) \cup ValuesOf(s)
    PROVE  /\ i \in DOMAIN s
           /\ s[i].addr \in Nat /\ s[i].size \in Nat /\ s[i].size > 0
           /\ s[i].addr + s[i].size <= RegionSize
<1>1. /\ i \in DOMAIN s /\ s[i].kind \in {"key", "value"} /\ s[i].st = "live"
      /\ s[i].addr \in Nat /\ s[i].size \in Nat /\ s[i] \in Entry
  BY SeqFacts DEF KeysOf, ValuesOf
<1>2. CASE s[i].kind = "key"
  <2>1. s[i].data \in Keys /\ s[i].size = 1 + KeyLen[s[i].data]
    BY <1>1, <1>2 DEF Entry, Sized, EntrySize
  <2> QED
    BY <1>1, <1>2, <2>1, LenAssumption DEF Chained
<1>3. CASE s[i].kind = "value"
  <2>1. s[i].data \in Values /\ s[i].size = 1 + ValLen[s[i].data]
    BY <1>1, <1>3 DEF Entry, Sized, EntrySize
  <2> QED
    BY <1>1, <1>3, <2>1, LenAssumption DEF Chained
<1> QED
  BY <1>1, <1>2, <1>3

\* The entry that begins at an address, as a function of the region's entries.
EntryOf(s, a) == FirstOf({i \in DOMAIN s : s[i].addr = a})

\* A reader at the address of an entry: those before it begin before it, those
\* behind it at its end or later.
LEMMA EntryOfFacts ==
    ASSUME NEW s \in Seq(Entry), Chained(s), NEW a \in Nat, EntryOf(s, a) # 0
    PROVE  LET i == EntryOf(s, a)
           IN  /\ i \in DOMAIN s /\ s[i].addr = a
               /\ \A j \in DOMAIN s : j < i => s[j].addr < a
               /\ \A j \in DOMAIN s : j > i => s[j].addr >= s[i].addr + s[i].size
               /\ \A j \in DOMAIN s : s[j].addr >= a /\ j # i => j > i
<1> DEFINE S == {i \in DOMAIN s : s[i].addr = a}
           i == EntryOf(s, a)
<1>1. S \in SUBSET (Nat \ {0})
  BY SeqFacts
<1>2. i \in S /\ \A j \in S : i <= j
  BY <1>1, FirstOfType DEF EntryOf
<1> HIDE DEF i
<1>3. i \in DOMAIN s /\ s[i].addr = a /\ i \in Nat
  BY <1>1, <1>2
<1>4. \A j \in DOMAIN s : j < i => s[j].addr < a
  <2> SUFFICES ASSUME NEW j \in DOMAIN s, j < i PROVE s[j].addr < a
    OBVIOUS
  <2>1. s[j].addr <= a /\ s[j].addr \in Nat /\ j \in Nat
    BY <1>3, AddressOrder
  <2>2. s[j].addr # a
    BY <1>2, <1>3, <2>1
  <2> QED
    BY <2>1, <2>2
<1>5. \A j \in DOMAIN s : j > i => s[j].addr >= s[i].addr + s[i].size
  BY <1>3, AddressOrder
<1>6. \A j \in DOMAIN s : s[j].addr >= a /\ j # i => j > i
  BY <1>3, <1>4, AddressOrder
<1> QED
  BY <1>3, <1>4, <1>5, <1>6 DEF i

\* A reader at the end of the log has passed every key and every value.
LEMMA NothingAhead ==
    ASSUME NEW s \in Seq(Entry), Chained(s), Sized(s), NEW a \in Nat,
           a >= RegionSize \/ (Boundary(s, a) /\ EntryOf(s, a) = 0)
    PROVE  \A i \in KeysOf(s) \cup ValuesOf(s) : s[i].addr < a
<1> SUFFICES ASSUME NEW i \in KeysOf(s) \cup ValuesOf(s) PROVE s[i].addr < a
  OBVIOUS
<1>1. /\ i \in DOMAIN s /\ s[i].addr \in Nat /\ s[i].size \in Nat /\ s[i].size > 0
      /\ s[i].addr + s[i].size <= RegionSize
  BY LiveSize
<1>2. CASE a >= RegionSize
  BY <1>1, <1>2, RegionAssumption
<1>3. CASE Boundary(s, a) /\ EntryOf(s, a) = 0
  <2>1. \A j \in DOMAIN s : s[j].addr # a
    <3> DEFINE S == {j \in DOMAIN s : s[j].addr = a}
    <3>1. S \in SUBSET (Nat \ {0})
      BY SeqFacts
    <3>2. \A j \in S : FirstOf(S) \in S
      BY <3>1, FirstOfType
    <3> QED
      BY <1>3, <3>1, <3>2 DEF EntryOf
  <2>2. Len(s) \in Nat /\ DOMAIN s = 1 .. Len(s) /\ 1 \in DOMAIN s
    BY <1>1, SeqFacts
  <2>3. a # HdrSize
    BY <2>1, <2>2 DEF Chained
  <2>4. PICK j \in DOMAIN s : a = s[j].addr + s[j].size
    BY <1>3, <2>3 DEF Boundary
  <2>5. j = Len(s)
    <3> SUFFICES ASSUME j # Len(s) PROVE FALSE
      OBVIOUS
    <3>1. j + 1 \in DOMAIN s /\ j \in Nat /\ j + 1 # 1
      BY <2>2, <2>4
    <3>2. s[j+1].addr = s[j+1-1].addr + s[j+1-1].size
      BY <3>1 DEF Chained
    <3>3. j + 1 - 1 = j
      BY <3>1
    <3> QED
      BY <2>1, <2>4, <3>1, <3>2, <3>3
  <2>6. i <= j
    BY <1>1, <2>2, <2>5
  <2>7. s[i].addr <= a
    <3>1. CASE i = j
      BY <1>1, <2>4, <3>1
    <3>2. CASE i # j
      <4>1. /\ s[j].addr \in Nat /\ s[j].size \in Nat /\ s[i].addr \in Nat
            /\ i \in Nat /\ j \in Nat /\ i \in DOMAIN s
        BY <1>1, AddressOrder
      <4>2. i < j
        BY <2>6, <3>2, <4>1
      <4>3. s[i].addr <= s[j].addr
        BY <4>1, <4>2, AddressOrder
      <4> QED
        BY <2>4, <4>1, <4>3
    <3> QED
      BY <3>1, <3>2
  <2> QED
    BY <1>1, <2>1, <2>7
<1> QED
  BY <1>2, <1>3

-----------------------------------------------------------------------------
(* One step of the writer, as a reader of the region in use sees it.       *)

\* Entries stay where they are, and a key stays a key.
Keeps(s, t) ==
    /\ \A i \in DOMAIN s : i \in DOMAIN t /\ t[i].addr = s[i].addr /\ t[i].size = s[i].size
    /\ \A i \in KeysOf(s) : i \in KeysOf(t) /\ t[i] = s[i]

\* The four things that can happen to what is read.
SameReads(s, t) ==
    /\ KeysOf(t) = KeysOf(s) /\ ValuesOf(t) = ValuesOf(s)
    /\ \A i \in KeysOf(s) \cup ValuesOf(s) : t[i] = s[i]
KeyComes(s, t, n) ==
    /\ KeysOf(t) = KeysOf(s) \cup {n} /\ ValuesOf(t) = ValuesOf(s)
    /\ \A i \in KeysOf(s) \cup ValuesOf(s) : t[i] = s[i] /\ i < n /\ i \in Nat
ValueComes(s, t, n) ==
    /\ KeysOf(t) = KeysOf(s) /\ ValuesOf(t) = ValuesOf(s) \cup {n}
    /\ \A i \in KeysOf(s) \cup ValuesOf(s) : t[i] = s[i] /\ i < n /\ i \in Nat
ValueGoes(s, t) ==
    /\ KeysOf(t) = KeysOf(s) /\ ValuesOf(t) = ValuesOf(s) \ OldHere
    /\ \A i \in KeysOf(t) \cup ValuesOf(t) : t[i] = s[i]

BaseChange(s, t) ==
    \/ SameReads(s, t)
    \/ /\ pc = "validateKey" /\ UNCHANGED <<op, old, keyId>> /\ pc' \in {"write", "return"}
       /\ KeyComes(s, t, Len(s)) /\ t[Len(s)].data = op.key /\ t[Len(s)].id = keyId
    \/ /\ pc = "validateValue" /\ UNCHANGED <<op, old, keyId>>
       /\ pc' = "delete" \/ (pc' = "return" /\ (ret' = "ERR_IO" \/ old.pos = 0))
       /\ ValueComes(s, t, Len(s)) /\ t[Len(s)].data = op.val /\ t[Len(s)].id = keyId
    \/ pc = "delete" /\ pc' = "return" /\ UNCHANGED op /\ ValueGoes(s, t)

LEMMA BaseSame ==
    ASSUME NEW s, NEW t, BaseChange(s, t), pc # "validateKey", pc # "validateValue", pc # "delete"
    PROVE  SameReads(s, t)
<1>1. SameReads(s, t) \/ pc = "validateKey" \/ pc = "validateValue" \/ pc = "delete"
  BY Zenon DEF BaseChange
<1> QED
  BY <1>1

\* A header is appended.
LEMMA AppendStep ==
    ASSUME LogInv, info.base \in Regions, NEW e \in Entry, e.st # "live", AppendEntry(e)
    PROVE  Keeps(log[info.base], log'[info.base]) /\ SameReads(log[info.base], log'[info.base])
<1> DEFINE s == log[info.base]
           t == log'[info.base]
<1>1. s \in Seq(Entry) /\ log \in [Regions -> Seq(Entry)]
  BY BaseFacts DEF LogInv, TypeInv, TypeOK
<1>2. t = Append(s, e)
  BY <1>1 DEF AppendEntry
<1>3. \A i \in DOMAIN s : i \in DOMAIN t /\ t[i] = s[i]
  BY <1>1, <1>2, AppendReads
<1>4. SameReads(s, t)
  BY AppendInvalid DEF SameReads
<1> HIDE DEF s, t
<1>5. Keeps(s, t)
  BY <1>3, <1>4 DEF Keeps, SameReads
<1> QED
  BY <1>4, <1>5 DEF s, t

\* The last entry is validated.
LEMMA ValidateStep ==
    ASSUME LogInv, pc \in {"validateKey", "validateValue"}, Validate, TypeInv'
    PROVE  LET s == log[info.base]
               t == log'[info.base]
           IN  /\ Keeps(s, t)
               /\ pc = "validateKey" => KeyComes(s, t, Len(s))
               /\ pc = "validateValue" => ValueComes(s, t, Len(s))
               /\ t[Len(s)].id = LastOf(s).id /\ t[Len(s)].data = LastOf(s).data
<1> DEFINE s == log[info.base]
           t == log'[info.base]
           n == Len(s)
<1>1. info.base \in Regions /\ s # <<>>
  BY DEF LogInv, TypeInv, CallOK, Setting
<1>2. /\ s \in Seq(Entry) /\ log \in [Regions -> Seq(Entry)]
  BY <1>1, BaseFacts DEF LogInv, TypeInv, TypeOK
<1>3. t = [s EXCEPT ![n].st = "live"]
  BY <1>1, <1>2 DEF Validate
<1>4. /\ n \in DOMAIN s /\ DOMAIN t = DOMAIN s /\ s[n] \in EntryRecord
  BY <1>1, <1>2, <1>3, SeqFacts
<1>5. /\ \A i \in DOMAIN s : i # n => t[i] = s[i]
      /\ t[n] = [s[n] EXCEPT !.st = "live"]
  BY <1>3, <1>4
<1>6. t[n].addr = s[n].addr /\ t[n].size = s[n].size
  BY <1>4, <1>5 DEF EntryRecord
<1>7. /\ \A i \in KeysOf(s) \cup ValuesOf(s) : i < n /\ i \in Nat /\ t[i] = s[i]
      /\ t[n].id = LastOf(s).id /\ t[n].data = LastOf(s).data
      /\ pc = "validateKey" => KeysOf(t) = KeysOf(s) \cup {n} /\ ValuesOf(t) = ValuesOf(s)
      /\ pc = "validateValue" => KeysOf(t) = KeysOf(s) /\ ValuesOf(t) = ValuesOf(s) \cup {n}
  BY ValidateReads
<1> HIDE DEF s, t, n
<1>8. KeysOf(s) \subseteq KeysOf(t)
  BY <1>7
<1>9. Keeps(s, t)
  BY <1>4, <1>5, <1>6, <1>7, <1>8 DEF Keeps
<1> QED
  BY <1>7, <1>9 DEF KeyComes, ValueComes, s, t, n

\* The old value is deleted.
LEMMA DeleteStep ==
    ASSUME LogInv, pc = "delete", MarkDeleted, TypeInv'
    PROVE  Keeps(log[info.base], log'[info.base]) /\ ValueGoes(log[info.base], log'[info.base])
<1> DEFINE s == log[info.base]
           t == log'[info.base]
           p == old.pos
<1>1. /\ t \in Seq(Entry) /\ info.base \in Regions
      /\ KeysOf(t) = KeysOf(s) /\ ValuesOf(t) = ValuesOf(s) \ OldHere
      /\ \A i \in KeysOf(t) \cup ValuesOf(t) : t[i] = s[i]
  BY DeleteReads
<1>2. /\ old.region \in Regions /\ log \in [Regions -> Seq(Entry)] /\ s \in Seq(Entry)
  BY <1>1 DEF LogInv, TypeInv, TypeOK
<1>3. t = s \/ t = [s EXCEPT ![p] = Deleted(s[p])]
  BY <1>1, <1>2 DEF MarkDeleted
<1>4. \A i \in DOMAIN s : s[i] \in EntryRecord
  BY <1>2, SeqFacts
<1> HIDE DEF s, t, p
<1>5. \A i \in DOMAIN s : i \in DOMAIN t /\ t[i] \in {s[i], Deleted(s[i])}
  BY <1>3
<1>6. \A i \in DOMAIN s : i \in DOMAIN t /\ t[i].addr = s[i].addr /\ t[i].size = s[i].size
  BY <1>4, <1>5 DEF Deleted, EntryRecord
<1> QED
  BY <1>1, <1>6 DEF Keeps, ValueGoes, s, t

\* As long as the store does not move, entries come and go as BaseChange says.
LEMMA BaseStep ==
    ASSUME LogInv, LogInv', OpInv, Next, info.base \in Regions, crashes' = crashes
    PROVE  Keeps(log[info.base], log'[info.base]) /\ BaseChange(log[info.base], log'[info.base])
<1> DEFINE s == log[info.base]
           t == log'[info.base]
<1>1. CASE t = s
  BY <1>1 DEF Keeps, BaseChange, SameReads
<1>2. CASE \E e \in Entry : e.st # "live" /\ AppendEntry(e)
  BY <1>2, AppendStep DEF BaseChange
<1>3. CASE /\ pc = "validateKey" /\ Validate /\ UNCHANGED <<op, old, keyId>>
           /\ pc' \in {"write", "return"}
  <2>1. LastOf(s).data = op.key /\ LastOf(s).id = keyId
    BY <1>3 DEF LogInv, LastInv, OpInv, Underway, Setting
  <2>2. TypeInv'
    BY DEF LogInv
  <2>3. Keeps(s, t) /\ KeyComes(s, t, Len(s)) /\ t[Len(s)].id = keyId /\ t[Len(s)].data = op.key
    BY <1>3, <2>1, <2>2, ValidateStep
  <2> HIDE DEF s, t
  <2>4. BaseChange(s, t)
    BY <1>3, <2>3 DEF BaseChange
  <2> QED
    BY <2>3, <2>4 DEF s, t
<1>4. CASE /\ pc = "validateValue" /\ Validate /\ UNCHANGED <<op, old, keyId>>
           /\ pc' = "delete" \/ (pc' = "return" /\ (ret' = "ERR_IO" \/ old.pos = 0))
  <2>1. LastOf(s).data = op.val /\ LastOf(s).id = keyId
    BY <1>4 DEF OpInv, Underway, Setting
  <2>2. TypeInv'
    BY DEF LogInv
  <2>3. Keeps(s, t) /\ ValueComes(s, t, Len(s)) /\ t[Len(s)].id = keyId /\ t[Len(s)].data = op.val
    BY <1>4, <2>1, <2>2, ValidateStep
  <2> HIDE DEF s, t
  <2>4. BaseChange(s, t)
    BY <1>4, <2>3 DEF BaseChange
  <2> QED
    BY <2>3, <2>4 DEF s, t
<1>5. CASE pc = "delete" /\ pc' = "return" /\ UNCHANGED op /\ MarkDeleted
  <2>1. TypeInv'
    BY DEF LogInv
  <2>2. Keeps(s, t) /\ ValueGoes(s, t)
    BY <1>5, <2>1, DeleteStep
  <2> HIDE DEF s, t
  <2>3. BaseChange(s, t)
    BY <1>5, <2>2 DEF BaseChange
  <2> QED
    BY <2>2, <2>3 DEF s, t
<1>6. Mounted /\ Other(info.base) # info.base /\ log \in [Regions -> Seq(Entry)]
  BY BaseFacts DEF LogInv, TypeInv, TypeOK
<1>7. CASE Boot \/ BootFails
  <2>1. pc \in {"init", "scan", "failed"} \cup BootStates
    BY <1>7 DEF Boot, SysparamInit, RecreateFormat, RecreateHeader, CreateScan, CreateFormat,
                CreateHeader, BootFails, BootStates
  <2> QED
    BY <1>6, <2>1 DEF LogInv, EndInv
<1>16. CASE log' = Sealed(info.left)
  <2>1. info.left \in Nat /\ info.left <= info.left
    BY DEF LogInv, TypeInv, TypeOK
  <2>2. LeftEntry(info.end, info.left).st = "dead"
    BY DEF LeftEntry, PadEntry
  <2>3. \/ log' = log
        \/ AppendEntry(LeftEntry(info.end, info.left)) /\ LeftEntry(info.end, info.left) \in Entry
    BY <1>16, <2>1, LogSeal
  <2> QED
    BY <1>1, <1>2, <2>2, <2>3
<1>8. CASE Call \/ Check \/ Reformat \/ Return
  BY <1>1, <1>8, <1>16 DEF Call, SetData, SetNoInit, SetFails, Check, CheckSpace, CheckFull, CheckIds,
                           CheckForce, Reformat, Return, flash
<1>9. CASE Compact \/ CompactFails \/ CompactHeaderFails
  <2>1. CASE CompactRetire
    BY <1>16, <2>1 DEF CompactRetire
  <2>2. CASE CompactFormat \/ CompactCopy \/ CompactActivate \/ CompactFails \/ CompactHeaderFails
    <3>1. log' = log \/ \E x : log' = [log EXCEPT ![Other(info.base)] = x]
      BY <2>2 DEF CompactFormat, CompactCopy, CompactActivate, CompactFails, CompactHeaderFails,
                  Format, flash
    <3>2. t = s
      BY <1>6, <3>1
    <3> QED
      BY <1>1, <3>2
  <2> QED
    BY <1>9, <2>1, <2>2 DEF Compact
<1>10. CASE PowerLoss
  BY <1>10 DEF PowerLoss, Crash, CrashInEntryHeader, CrashInRegionHeader, Reset, LogInv, TypeInv,
               TypeOK
<1>11. CASE WriteKey \/ WriteValue \/ WriteOverLeft \/ WriteHeaderFails
  <2>1. /\ pc = "write" /\ op.key \in Keys /\ op.val \in Values
        /\ info.end \in Nat /\ keyId \in Nat /\ MaxIdOf(info.base) + 1 \in Nat
    <3>1. TypeOK /\ MaxIdOf(info.base) \in Nat
      BY LookupType DEF LogInv, TypeInv
    <3>2. pc = "write"
      BY <1>11 DEF WriteKey, WriteValue, WriteOverLeft, WriteHeaderFails
    <3>3. op.key \in Keys /\ op.val \in Values
      BY <3>2 DEF LogInv, TypeInv, CallOK, Setting
    <3>4. info.end \in Nat /\ keyId \in Nat
      BY <3>1 DEF TypeOK
    <3> QED
      BY <3>1, <3>2, <3>3, <3>4
  <2>2. /\ KeyEntry(info.end, MaxIdOf(info.base) + 1, op.key, "new") \in Entry
        /\ ValueEntry(info.end, keyId, op.val, "new") \in Entry
        /\ PadEntry(info.end) \in Entry
    BY <2>1, LenAssumption DEF KeyEntry, ValueEntry, PadEntry, Entry, EntryRecord, EntrySize
  <2>3. /\ KeyEntry(info.end, MaxIdOf(info.base) + 1, op.key, "new").st = "new"
        /\ ValueEntry(info.end, keyId, op.val, "new").st = "new"
        /\ PadEntry(info.end).st = "dead"
    BY DEF KeyEntry, ValueEntry, PadEntry
  <2>4. \/ AppendEntry(KeyEntry(info.end, MaxIdOf(info.base) + 1, op.key, "new"))
        \/ AppendEntry(ValueEntry(info.end, keyId, op.val, "new"))
        \/ AppendEntry(PadEntry(info.end))
        \/ log' = log
    BY <1>11 DEF WriteKey, WriteValue, WriteOverLeft, WriteHeaderFails, SkipHeader
  <2> QED
    BY <1>1, <1>2, <2>2, <2>3, <2>4
<1>12. CASE ValidateKey
  BY <1>3, <1>12 DEF ValidateKey, call
<1>13. CASE ValidateValue
  BY <1>4, <1>13 DEF ValidateValue, Finish
<1>14. CASE ValidateFails
  BY <1>1, <1>3, <1>4, <1>14 DEF ValidateFails, Finish
<1>15. CASE DeleteOld \/ DeleteFails
  BY <1>1, <1>5, <1>15 DEF DeleteOld, DeleteFails, Finish
<1> QED
  BY <1>7, <1>8, <1>9, <1>10, <1>11, <1>12, <1>13, <1>14, <1>15 DEF Next, Write, Fail

\* The call does not leave the old value behind while the store does not move.
LEMMA BehindStep ==
    ASSUME LogInv, Next, info.base \in Regions, info'.base = info.base, crashes' = crashes,
           NEW k \in Keys, ~LeftBehind(k)
    PROVE  ~LeftBehind(k)'
<1>1. CASE UNCHANGED <<op, old>> /\ pc # "return"
  BY <1>1 DEF LeftBehind
<1>2. CASE pc' = "return" \/ op'.key = Nil
  BY <1>2, KeysAssumption DEF LeftBehind
<1>3. CASE Call
  <2>1. PICK j \in Keys, v \in Values \cup {Nil} : SetData(j, v) \/ SetNoInit(j, v) \/ SetFails(j, v)
    BY <1>3 DEF Call
  <2>2. CASE SetNoInit(j, v) \/ SetFails(j, v)
    BY <1>2, <2>2 DEF SetNoInit, SetFails, Finish
  <2>3. CASE SetData(j, v)
    <3>1. op'.prev # Nil => old'.pos # 0 /\ old'.region = info.base
      BY <2>3 DEF SetData, Lookup
    <3> QED
      BY <3>1 DEF LeftBehind
  <2> QED
    BY <2>1, <2>2, <2>3
<1>4. CASE Boot
  BY <1>1, <1>4 DEF Boot, SysparamInit, RecreateFormat, RecreateHeader, CreateScan, CreateFormat,
                    CreateHeader, call
<1>5. CASE Check
  BY <1>1, <1>5 DEF Check, CheckSpace, CheckFull, CheckIds, CheckForce
<1>6. CASE Compact
  <2>1. Other(info.base) # info.base
    BY BaseFacts
  <2>2. ~CompactRetire
    BY <2>1 DEF CompactRetire
  <2>3. CASE CompactCopy
    BY <1>1, <2>3 DEF CompactCopy
  <2> QED
    BY <1>1, <1>6, <2>2, <2>3 DEF Compact, CompactFormat, CompactActivate, call
<1>7. CASE Write
  BY <1>1, <1>2, <1>7 DEF Write, WriteKey, WriteOverLeft, ValidateKey, WriteValue, ValidateValue,
                          DeleteOld, Return, NoOp, call
<1>8. CASE Reformat
  BY <1>1, <1>8 DEF Reformat, call
<1>9. CASE Fail
  BY <1>1, <1>9 DEF Fail, WriteHeaderFails, ValidateFails, DeleteFails, CompactFails,
                    CompactHeaderFails, BootFails, BootStates, call
<1>10. CASE PowerLoss
  BY <1>2, <1>10 DEF PowerLoss, Crash, CrashInEntryHeader, CrashInRegionHeader, Reset, NoOp
<1> QED
  BY <1>3, <1>4, <1>5, <1>6, <1>7, <1>8, <1>9, <1>10 DEF Next

\* The lookup that begins a set informs the call.
LEMMA InformedCall ==
    ASSUME LogInv, NEW k \in Keys, NEW v \in Values \cup {Nil}, SetData(k, v)
    PROVE  Informed'
<1> DEFINE s == log[info.base]
           i == FindKey(info.base, k)
           j == IF i = 0 THEN 0 ELSE FindValueOf(s, i)
<1>1. info.base \in Regions /\ pc = "idle"
  BY DEF SetData, LogInv, TypeInv, CallOK
<1>2. s \in Seq(Entry) /\ Distinct(s)
  BY <1>1, BaseFacts
<1>3. /\ UNCHANGED <<log, info>> /\ op'.key = k /\ old'.pos = j
      /\ keyId' = IF i = 0 THEN 0 ELSE s[i].id
  BY ReadsOf DEF SetData, flash
<1>4. /\ i # 0 => i \in KeysOf(s) /\ s[i].data = k
      /\ i = 0 => Fresh(s, k)
  BY <1>1, FoundKey
<1>5. i # 0 /\ j = 0 => ValuesFor(s, i) = {}
  BY <1>2, ValuesForType
<1> HIDE DEF s, i, j
<1>6. log'[info'.base] = s
  BY <1>3 DEF s
<1>7. keyId' # 0 => \E m \in KeysOf(s) : s[m].data = k /\ s[m].id = keyId'
  BY <1>3, <1>4
<1>8. \A m \in KeysOf(s) : s[m].data = k => m = i /\ i # 0
  BY <1>2, <1>4 DEF Distinct, Fresh
<1>9. \A m \in KeysOf(s) : s[m].data = k /\ ValuesFor(s, m) # {} => j # 0
  BY <1>5, <1>8
<1> QED
  BY <1>3, <1>6, <1>7, <1>9 DEF Informed

\* Informed, as a function of the region.
LEMMA InformedSame ==
    ASSUME NEW s, NEW t, NEW i \in KeysOf(s), SameReads(s, t)
    PROVE  /\ i \in KeysOf(t) /\ t[i] = s[i] /\ ValuesFor(t, i) = ValuesFor(s, i)
           /\ \A j \in ValuesFor(s, i) : t[j] = s[j]
<1>1. i \in KeysOf(t) /\ t[i] = s[i] /\ ValuesOf(t) = ValuesOf(s)
      /\ \A j \in ValuesOf(s) : t[j] = s[j]
  BY DEF SameReads
<1> QED
  BY <1>1 DEF ValuesFor

\* A call stays informed as long as the store does not move.
LEMMA InformedStep ==
    ASSUME LogInv, LogInv', OpInv, Next, info.base \in Regions, info'.base = info.base,
           crashes' = crashes, pc' \in Setting, ~Compacting',
           pc \in Setting /\ ~Compacting => Informed
    PROVE  Informed'
<1> DEFINE s == log[info.base]
           t == log'[info.base]
<1>1. CASE Call
  <2>1. PICK k \in Keys, v \in Values \cup {Nil} : SetData(k, v) \/ SetNoInit(k, v) \/ SetFails(k, v)
    BY <1>1 DEF Call
  <2>2. SetData(k, v)
    BY <2>1 DEF SetNoInit, SetFails, Finish, Setting
  <2> QED
    BY <2>2, InformedCall
<1>2. CASE Check \/ WriteKey \/ WriteValue
  <2>1. /\ UNCHANGED <<op, old>> /\ pc \in {"space", "full", "ids", "force", "write"}
        /\ keyId' = keyId \/ pc' = "validateKey"
    BY <1>2 DEF Check, CheckSpace, CheckFull, CheckIds, CheckForce, WriteKey, WriteValue, call
  <2>2. Informed
    BY <2>1 DEF Setting, Compacting
  <2>3. SameReads(s, t)
    <3>1. BaseChange(s, t)
      BY BaseStep
    <3>2. pc # "validateKey" /\ pc # "validateValue" /\ pc # "delete"
      BY <2>1
    <3> QED
      BY <3>1, <3>2, BaseSame
  <2>4. \A i \in KeysOf(s) : i \in KeysOf(t) /\ t[i] = s[i] /\ ValuesFor(t, i) = ValuesFor(s, i)
    <3> HIDE DEF s, t
    <3> QED
      BY <2>3, InformedSame
  <2>5. KeysOf(t) = KeysOf(s)
    BY <2>3 DEF SameReads
  <2>6. /\ keyId # 0 /\ pc # "validateKey" => \E i \in KeysOf(s) : s[i].data = op.key /\ s[i].id = keyId
        /\ \A i \in KeysOf(s) : s[i].data = op.key /\ ValuesFor(s, i) # {} => old.pos # 0
    BY <2>2 DEF Informed
  <2>7. log'[info'.base] = t
    OBVIOUS
  <2> HIDE DEF s, t
  <2> QED
    BY <2>1, <2>4, <2>5, <2>6, <2>7 DEF Informed
<1>3. CASE ValidateKey
  <2>1. /\ UNCHANGED <<op, old, keyId>> /\ pc = "validateKey" /\ pc' = "write"
    BY <1>3 DEF ValidateKey, call
  <2>2. Informed
    BY <2>1 DEF Setting, Compacting
  <2> DEFINE n == Len(s)
  <2>3. KeyComes(s, t, n) /\ t[n].data = op.key /\ t[n].id = keyId
    <3>1. TypeInv' /\ Validate
      BY <1>3 DEF LogInv, ValidateKey
    <3>2. LastOf(s).data = op.key /\ LastOf(s).id = keyId
      BY <2>1 DEF LogInv, LastInv, OpInv, Underway, Setting
    <3> QED
      BY <2>1, <3>1, <3>2, ValidateStep
  <2>4. \A i \in KeysOf(s) : s[i].data = op.key /\ ValuesFor(s, i) # {} => old.pos # 0
    BY <2>2 DEF Informed
  <2>5. log'[info'.base] = t /\ n \in Nat
    BY BaseFacts, SeqFacts
  <2> HIDE DEF s, t, n
  <2>6. ValuesFor(t, n) = {}
    BY <2>3, <2>5 DEF KeyComes, ValuesFor
  <2>7. \A i \in KeysOf(s) : t[i] = s[i] /\ ValuesFor(t, i) = ValuesFor(s, i)
    BY <2>3 DEF KeyComes, ValuesFor
  <2>8. KeysOf(t) = KeysOf(s) \cup {n}
    BY <2>3 DEF KeyComes
  <2> QED
    BY <2>1, <2>3, <2>4, <2>5, <2>6, <2>7, <2>8 DEF Informed
<1>4. CASE Compact
  <2>1. Other(info.base) # info.base
    BY BaseFacts
  <2>2. ~CompactRetire
    BY <2>1 DEF CompactRetire
  <2> QED
    BY <1>4, <2>2 DEF Compact, CompactFormat, CompactCopy, CompactActivate, Compacting
<1>5. CASE Boot \/ Reformat \/ PowerLoss \/ Fail \/ ValidateValue \/ DeleteOld \/ Return
      \/ WriteOverLeft
  BY <1>5 DEF Boot, SysparamInit, Mount, RecreateFormat, RecreateHeader, CreateScan, CreateFormat,
         CreateHeader, Reformat, PowerLoss, Crash, CrashInEntryHeader, CrashInRegionHeader, Reset,
         Fail, WriteHeaderFails, WriteOverLeft, SkipHeader, ValidateFails, DeleteFails, CompactFails,
         CompactHeaderFails, BootFails, ValidateValue, DeleteOld, Return, Finish, Setting
<1> QED
  BY <1>1, <1>2, <1>3, <1>4, <1>5 DEF Next, Write

-----------------------------------------------------------------------------
(* What the other task's steps do to the reader.                           *)

\* A reader that goes on keeps its place; what it has seen is brought up to
\* date.
LEMMA ObserveStep ==
    ASSUME ReaderTypeOK, Observe, Reading'
    PROVE  /\ Reading /\ crashes' = crashes
           /\ rd'.pc = rd.pc /\ rd'.key = rd.key /\ rd'.reg = rd.reg /\ rd'.at = rd.at
           /\ rd'.from = rd.from /\ rd'.name = rd.name /\ rd'.id = rd.id /\ rd'.names = rd.names
           /\ rd.seen \subseteq rd'.seen
           /\ \A k \in Keys : rd.key = k => Visible(k)' \subseteq rd'.seen
           /\ rd'.steady = rd.steady \cap Present'
           /\ ~rd'.moved => ~rd.moved /\ info'.base = info.base
<1>1. crashes' = crashes /\ Reading /\ ~Erased
  BY DEF Observe, Reading, NoReader
<1> DEFINE new == UNION {Visible(k)' : k \in Keys \cap {rd.key}}
<1>2. rd' = [rd EXCEPT !.seen = @ \cup new, !.steady = @ \cap Present',
                       !.moved = @ \/ info'.base # info.base,
                       !.clean = @ /\ (op'.key = rd.key => op'.clean)]
  BY <1>1 DEF Observe
<1>3. \A k \in Keys : rd.key = k => Visible(k)' \subseteq new
  OBVIOUS
<1> HIDE DEF new
<1>4. /\ rd'.pc = rd.pc /\ rd'.key = rd.key /\ rd'.reg = rd.reg /\ rd'.at = rd.at
      /\ rd'.from = rd.from /\ rd'.name = rd.name /\ rd'.id = rd.id /\ rd'.names = rd.names
      /\ rd'.seen = rd.seen \cup new /\ rd'.steady = rd.steady \cap Present'
      /\ rd'.moved = (rd.moved \/ info'.base # info.base)
  BY <1>2 DEF ReaderTypeOK, ReaderType
<1> QED
  BY <1>1, <1>3, <1>4

\* The values that a reader may find are values.
LEMMA VisibleType ==
    ASSUME TypeOK, NEW k \in Keys
    PROVE  Visible(k) \subseteq Values \cup {Nil} /\ CallerView[k] \in Visible(k)
<1>1. CallerView[k] \in Values \cup {Nil}
  <2>1. info.base \in Regions \cup {NoRegion} /\ op.prev \in Values \cup {Nil}
    BY DEF TypeOK
  <2>2. Mounted => Lookup(info.base, k) \in Values \cup {Nil}
    BY <2>1, LookupType DEF Mounted
  <2> QED
    BY <2>1, <2>2 DEF CallerView
<1>2. op.val \in Values \cup {Nil}
  BY DEF TypeOK
<1> QED
  BY <1>1, <1>2 DEF Visible

VisibleTyped == \A k \in Keys : Visible(k) \subseteq Values \cup {Nil}

LEMMA VisibleNow == TypeOK => VisibleTyped
BY VisibleType DEF VisibleTyped

LEMMA VisibleNext == TypeOK' => VisibleTyped'
BY VisibleNow, PTL

LEMMA ObserveType ==
    ASSUME ReaderTypeOK, Observe, TypeOK'
    PROVE  ReaderTypeOK'
<1>1. CASE rd' = NoReader \/ rd' = [NoReader EXCEPT !.pc = "astray"]
  <2>1. NoReader \in ReaderType
    BY DEF NoReader, ReaderType, Regions
  <2>2. [NoReader EXCEPT !.pc = "astray"] \in ReaderType
    BY <2>1 DEF ReaderType
  <2>3. rd' \in ReaderType
    BY <1>1, <2>1, <2>2
  <2>4. rd'.pc \in {"idle", "astray"}
    BY <1>1 DEF NoReader
  <2> QED
    BY <2>3, <2>4 DEF ReaderTypeOK, Reading
<1>2. CASE rd' = rd
  BY <1>2 DEF ReaderTypeOK, Reading
<1>3. CASE crashes' = crashes /\ Reading /\ ~Erased
  <2> DEFINE new == UNION {Visible(k)' : k \in Keys \cap {rd.key}}
             still == rd.clean /\ (op'.key = rd.key => op'.clean)
             gone == rd.moved \/ info'.base # info.base
             std == rd.steady \cap Present'
  <2>1. rd' = [rd EXCEPT !.seen = @ \cup new, !.steady = std, !.moved = gone, !.clean = still]
    BY <1>3 DEF Observe
  <2>2. \A k \in Keys : Visible(k)' \subseteq Values \cup {Nil}
    BY VisibleNext DEF VisibleTyped
  <2>3. new \subseteq Values \cup {Nil}
    BY <2>2
  <2>4. still \in BOOLEAN /\ gone \in BOOLEAN
    OBVIOUS
  <2>5. std \in SUBSET Keys
    BY DEF ReaderTypeOK, ReaderType
  <2> HIDE DEF new, still, gone, std
  <2>6. rd \in ReaderType
    BY DEF ReaderTypeOK
  <2>7. rd.seen \cup new \in SUBSET (Values \cup {Nil})
    BY <2>3, <2>6 DEF ReaderType
  <2>8. rd' \in ReaderType
    BY <2>1, <2>4, <2>5, <2>6, <2>7 DEF ReaderType
  <2>9. rd'.pc = rd.pc /\ rd'.name = rd.name /\ rd'.got = rd.got
    BY <2>1, <2>6 DEF ReaderType
  <2> QED
    BY <2>8, <2>9 DEF ReaderTypeOK, Reading
<1> QED
  BY <1>1, <1>2, <1>3 DEF Observe

LEMMA ObserveSeen ==
    ASSUME ReaderTypeOK, Observe
    PROVE  SeenInv'
<1> SUFFICES ASSUME Reading' PROVE SeenInv'
  BY DEF SeenInv
<1>1. /\ rd'.key = rd.key
      /\ \A k \in Keys : rd.key = k => Visible(k)' \subseteq rd'.seen
      /\ rd'.steady = rd.steady \cap Present'
  BY ObserveStep
<1>2. \A k \in Present' : Nil \notin Visible(k)'
  BY DEF Present
<1> QED
  BY <1>1, <1>2 DEF SeenInv

LEMMA ObserveDone ==
    ASSUME ReaderTypeOK, Observe, GetIsLinearizable, IterationComplete
    PROVE  GetIsLinearizable' /\ IterationComplete'
<1> SUFFICES ASSUME rd'.pc = "done" PROVE GetIsLinearizable' /\ IterationComplete'
  BY DEF GetIsLinearizable, IterationComplete
<1>1. rd' = rd
  <2>1. rd' # NoReader /\ rd' # [NoReader EXCEPT !.pc = "astray"]
    BY DEF NoReader
  <2>2. ~Reading
    BY <2>1 DEF Observe, Reading, ReaderTypeOK, ReaderType
  <2> QED
    BY <2>1, <2>2 DEF Observe
<1> QED
  BY <1>1 DEF GetIsLinearizable, IterationComplete

LEMMA BoundaryKept ==
    ASSUME NEW s, NEW t, Keeps(s, t), NEW a, Boundary(s, a)
    PROVE  Boundary(t, a)
BY DEF Keeps, Boundary

LEMMA ObservePos ==
    ASSUME LogInv, LogInv', OpInv, Next, ReaderTypeOK, Observe, PosInv
    PROVE  PosInv'
<1> SUFFICES ASSUME Reading', ~rd'.moved PROVE PosInv'
  BY DEF PosInv
<1>1. /\ Reading /\ ~rd.moved /\ crashes' = crashes /\ info'.base = info.base
      /\ rd'.key = rd.key /\ rd'.reg = rd.reg /\ rd'.at = rd.at /\ rd'.from = rd.from
  BY ObserveStep
<1>2. /\ info.base \in Regions /\ rd.reg = info.base /\ rd.from.reg = info.base
      /\ Boundary(log[info.base], rd.at) /\ Boundary(log[info.base], rd.from.at)
      /\ rd.from.at <= rd.at
      /\ \A k \in Keys : rd.key \in {k, Nil} => ~LeftBehind(k)
  BY <1>1 DEF PosInv
<1>3. Keeps(log[info.base], log'[info.base])
  BY <1>1, <1>2, BaseStep
<1>4. Boundary(log'[info.base], rd.at) /\ Boundary(log'[info.base], rd.from.at)
  BY <1>2, <1>3, BoundaryKept
<1>5. \A k \in Keys : rd.key \in {k, Nil} => ~LeftBehind(k)'
  BY <1>1, <1>2, BehindStep
<1> QED
  BY <1>1, <1>2, <1>4, <1>5 DEF PosInv

-----------------------------------------------------------------------------
(* A get beside the other task.                                            *)

\* The answer depends on the values ahead only.
LEMMA AnswerSame ==
    ASSUME NEW s \in Seq(Entry), NEW t, NEW i, NEW a,
           Ahead(t, i, a) = Ahead(s, i, a), \A j \in Ahead(s, i, a) : t[j] = s[j]
    PROVE  Answer(t, i, a) = Answer(s, i, a)
<1>1. Ahead(s, i, a) \in SUBSET (Nat \ {0})
  BY ValuesForType DEF Ahead
<1>2. Ahead(s, i, a) # {} => FirstOf(Ahead(s, i, a)) \in Ahead(s, i, a)
  BY <1>1, FirstOfType
<1> QED
  BY <1>2 DEF Answer

\* A reader that has all the values of its key before it will find the first.
LEMMA AnswerAll ==
    ASSUME NEW s \in Seq(Entry), Distinct(s), NEW i \in KeysOf(s), NEW a,
           Ahead(s, i, a) = ValuesFor(s, i)
    PROVE  Answer(s, i, a) = LookupOf(s, s[i].data)
BY LookupKey DEF Answer

\* A value that comes goes to the end: it is the answer only if nothing else
\* was ahead.
LEMMA AnswerComes ==
    ASSUME NEW s \in Seq(Entry), NEW t, NEW i \in KeysOf(s), NEW a, NEW n \in Nat,
           ValueComes(s, t, n), Keeps(s, t)
    PROVE  \/ Answer(t, i, a) = Answer(s, i, a)
           \/ /\ Ahead(s, i, a) = {} /\ Ahead(t, i, a) = {n} /\ Answer(t, i, a) = t[n].data
              /\ t[n].id = s[i].id
<1>1. /\ ValuesFor(s, i) \subseteq ValuesOf(s) /\ t[i] = s[i]
      /\ \A j \in ValuesOf(s) : t[j] = s[j] /\ j < n /\ j \in Nat
      /\ ValuesOf(t) = ValuesOf(s) \cup {n}
  BY DEF ValuesFor, ValueComes
<1>2. /\ \A j \in Ahead(s, i, a) : j \in Ahead(t, i, a) /\ t[j] = s[j] /\ j < n
      /\ \A j \in Ahead(t, i, a) : j \in Ahead(s, i, a) \/ j = n
      /\ n \in Ahead(t, i, a) => t[n].id = s[i].id
  BY <1>1 DEF Ahead, ValuesFor
<1>3. Ahead(s, i, a) \in SUBSET (Nat \ {0})
  BY ValuesForType DEF Ahead
<1>4. CASE n \notin Ahead(t, i, a)
  <2>1. Ahead(t, i, a) = Ahead(s, i, a)
    BY <1>2, <1>4
  <2> QED
    BY <1>2, <2>1, AnswerSame
<1>5. CASE n \in Ahead(t, i, a) /\ Ahead(s, i, a) = {}
  <2>1. Ahead(t, i, a) = {n}
    BY <1>2, <1>5
  <2>2. n \in Nat \ {0}
    <3>1. n > i /\ i \in Nat
      BY <1>5, SeqFacts DEF Ahead, ValuesFor
    <3> QED
      BY <3>1
  <2>3. FirstOf({n}) = n
    BY <2>2, FirstOfOne
  <2> QED
    BY <1>2, <1>5, <2>1, <2>3 DEF Answer
<1>6. CASE n \in Ahead(t, i, a) /\ Ahead(s, i, a) # {}
  <2> DEFINE f == FirstOf(Ahead(s, i, a))
             g == FirstOf(Ahead(t, i, a))
  <2>1. f \in Ahead(s, i, a) /\ \A j \in Ahead(s, i, a) : f <= j
    BY <1>3, <1>6, FirstOfType
  <2>2. n # 0
    BY <1>2, <1>3, <2>1
  <2>3. Ahead(t, i, a) \in SUBSET (Nat \ {0})
    BY <1>2, <1>3, <2>2
  <2>4. g \in Ahead(t, i, a) /\ \A j \in Ahead(t, i, a) : g <= j
    BY <1>6, <2>3, FirstOfType
  <2>5. f \in Ahead(t, i, a) /\ f < n /\ f \in Nat /\ g \in Nat /\ t[f] = s[f]
    BY <1>2, <1>3, <2>1, <2>3, <2>4
  <2>6. g <= f /\ g # n
    BY <2>4, <2>5
  <2>7. g \in Ahead(s, i, a)
    BY <1>2, <2>4, <2>6
  <2>8. g = f
    BY <2>1, <2>5, <2>6, <2>7
  <2> HIDE DEF f, g
  <2>9. Ahead(t, i, a) # {}
    BY <1>6
  <2>10. Answer(t, i, a) = t[g].data /\ Answer(s, i, a) = s[f].data
    BY <1>6, <2>9 DEF Answer, f, g
  <2> QED
    BY <2>5, <2>8, <2>10
<1> QED
  BY <1>4, <1>5, <1>6

\* What is deleted is the first value of its key.  A reader that has passed a
\* value that stays has passed it.
LEMMA AnswerGoes ==
    ASSUME LogInv, OpInv, pc = "delete", NEW t, ValueGoes(log[info.base], t),
           Keeps(log[info.base], t), NEW i \in KeysOf(log[info.base]), NEW a \in Nat,
           Ahead(t, i, a) # ValuesFor(t, i)
    PROVE  Answer(t, i, a) = Answer(log[info.base], i, a)
<1> DEFINE s == log[info.base]
<1>1. info.base \in Regions
  BY DEF LogInv, TypeInv, CallOK
<1>2. s \in Seq(Entry) /\ Chained(s) /\ Numbered(s)
  BY <1>1, BaseFacts
<1>3. OldHere = {} \/ (OldHere = {old.pos} /\ HasOld(s))
  BY DEF OldHere, OpInv, Underway
<1>4. /\ KeysOf(t) = KeysOf(s) /\ ValuesOf(t) = ValuesOf(s) \ OldHere
      /\ \A j \in KeysOf(t) \cup ValuesOf(t) : t[j] = s[j]
  BY DEF ValueGoes
<1> HIDE DEF s
<1>5. ValuesFor(t, i) = ValuesFor(s, i) \ OldHere /\ \A j \in ValuesFor(t, i) : t[j] = s[j]
  BY <1>4 DEF ValuesFor, s
<1>6. PICK j \in ValuesFor(t, i) : ~(t[j].addr >= a)
  BY DEF Ahead
<1>7. j \in ValuesFor(s, i) /\ ~(s[j].addr >= a)
  BY <1>5, <1>6
<1>8. ASSUME NEW m \in OldHere, m \in ValuesFor(s, i) PROVE ~(s[m].addr >= a)
  <2>1. m = old.pos
    BY <1>3, <1>8
  <2>2. PICK h \in KeysOf(s) : old.pos \in ValuesFor(s, h) /\ \A x \in ValuesFor(s, h) : old.pos <= x
    BY <1>3, <1>8 DEF HasOld
  <2>3. s[h].id = s[i].id
    BY <1>8, <2>1, <2>2 DEF ValuesFor
  <2>4. h = i
    BY <1>2, <2>3, IdsDiffer DEF s
  <2>5. m <= j
    BY <1>7, <2>1, <2>2, <2>4
  <2>6. /\ m \in DOMAIN s /\ j \in DOMAIN s /\ m \in Nat /\ j \in Nat
        /\ s[m].addr \in Nat /\ s[j].addr \in Nat
    BY <1>2, <1>7, <1>8, AddressOrder DEF ValuesFor, ValuesOf
  <2>7. s[m].addr <= s[j].addr
    BY <1>2, <2>5, <2>6, AddressOrder
  <2> QED
    BY <1>7, <2>6, <2>7
<1>9. Ahead(t, i, a) = Ahead(s, i, a)
  BY <1>5, <1>8 DEF Ahead
<1>10. \A m \in Ahead(s, i, a) : t[m] = s[m]
  BY <1>5, <1>9 DEF Ahead
<1> QED
  BY <1>2, <1>9, <1>10, AnswerSame DEF s

\* The value that is written while nothing was ahead of a reader that has
\* passed a value of the key is visible.
LEMMA WrittenVisible ==
    ASSUME LogInv, OpInv, Informed, pc = "validateValue", UNCHANGED <<op, old>>,
           pc' = "delete" \/ (pc' = "return" /\ (ret' = "ERR_IO" \/ old.pos = 0)),
           NEW i \in KeysOf(log[info.base]), log[info.base][i].id = keyId,
           ValuesFor(log[info.base], i) # {}, NEW k, log[info.base][i].data = k
    PROVE  op.val \in Visible(k)'
<1> DEFINE s == log[info.base]
<1>1. info.base \in Regions /\ op.val \in Values
  BY DEF LogInv, TypeInv, CallOK, Setting
<1>2. s \in Seq(Entry) /\ Numbered(s)
  BY <1>1, BaseFacts
<1>3. keyId # 0
  BY DEF OpInv, Underway, Setting
<1>4. PICK h \in KeysOf(s) : s[h].data = op.key /\ s[h].id = keyId
  BY <1>3 DEF Informed
<1>5. h = i
  BY <1>2, <1>4, IdsDiffer
<1>6. k = op.key
  BY <1>4, <1>5
<1>7. old.pos # 0
  BY <1>4, <1>5 DEF Informed
<1>8. Written'
  BY <1>7 DEF Written
<1> QED
  BY <1>1, <1>6, <1>8, KeysAssumption DEF Visible

LEMMA ObserveGet ==
    ASSUME LogInv, LogInv', OpInv, OpInv', IdleInv', Next, ReaderTypeOK, Observe, PosInv, PosInv',
           SeenInv, SeenInv', GetInv
    PROVE  GetInv'
<1> DEFINE s == log[info.base]
           t == log'[info.base]
           a == rd.at
<1> SUFFICES ASSUME Reading', ~rd'.moved, rd'.key \in Keys PROVE GetInv'
  BY DEF GetInv
<1>1. /\ Reading /\ ~rd.moved /\ crashes' = crashes /\ info'.base = info.base
      /\ rd'.pc = rd.pc /\ rd'.key = rd.key /\ rd'.at = rd.at /\ rd'.id = rd.id
      /\ rd.seen \subseteq rd'.seen
  BY ObserveStep
<1> DEFINE k == rd.key
<1>2. /\ info.base \in Regions /\ k \in Keys /\ a \in Nat
      /\ ~LeftBehind(k)'
  BY <1>1 DEF PosInv, ReaderTypeOK, ReaderType
<1>3. Keeps(s, t) /\ BaseChange(s, t)
  BY <1>1, <1>2, BaseStep
<1>4. s \in Seq(Entry) /\ Numbered(s) /\ Chained(s) /\ Mounted
  BY <1>2, BaseFacts
<1>5. t \in Seq(Entry) /\ Distinct(t) /\ Chained(t)
  <2>1. \A r \in Regions : log'[r] \in Seq(Entry) /\ GoodLog(log'[r])
    BY DEF LogInv, TypeInv, TypeOK
  <2> QED
    BY <1>2, <2>1 DEF GoodLog
<1>6. log'[info'.base] = t /\ Visible(k)' \subseteq rd'.seen
  BY <1>1 DEF SeenInv
<1>7. LookupOf(t, k) \in Visible(k)'
  <2>1. UnlessBehind'
    BY <1>1, <1>2, LookupNext DEF InUse
  <2> QED
    BY <1>1, <1>2, <1>6, <2>1 DEF UnlessBehind
<1>8. ASSUME rd.pc = "key"
      PROVE  Nil \in rd'.seen \/ \A i \in KeysOf(t) : t[i].data = k => t[i].addr >= a
  <2>1. Nil \in rd.seen \/ \A i \in KeysOf(s) : s[i].data = k => s[i].addr >= a
    BY <1>1, <1>2, <1>8 DEF GetInv
  <2>2. CASE pc = "validateKey" /\ op.key = k
    <3>1. op.prev = Nil
      BY <2>2 DEF OpInv, Underway, Setting
    <3>2. CallerView[k] = Nil
      BY <1>2, <1>4, <2>2, <3>1 DEF CallerView
    <3>3. Nil \in Visible(k)
      BY <3>2 DEF Visible
    <3> QED
      BY <1>1, <1>2, <3>3 DEF SeenInv
  <2>3. CASE ~(pc = "validateKey" /\ op.key = k)
    <3> HIDE DEF s, t, k, a
    <3>1. \A i \in KeysOf(t) : t[i].data = k => i \in KeysOf(s) /\ t[i] = s[i]
      BY <1>3, <2>3 DEF BaseChange, SameReads, KeyComes, ValueComes, ValueGoes
    <3> QED
      BY <1>1, <2>1, <3>1
  <2> QED
    BY <2>2, <2>3
<1>9. ASSUME rd.pc = "value"
      PROVE  \E i \in KeysOf(t) :
                /\ t[i].data = k /\ t[i].id = rd.id /\ t[i].addr < a
                /\ Answer(t, i, a) \in rd'.seen
                /\ Ahead(t, i, a) # ValuesFor(t, i) /\ pc' \in Setting /\ ~Compacting' => Informed'
  <2>1. PICK i \in KeysOf(s) :
           /\ s[i].data = k /\ s[i].id = rd.id /\ s[i].addr < a
           /\ Answer(s, i, a) \in rd.seen
           /\ Ahead(s, i, a) # ValuesFor(s, i) /\ pc \in Setting /\ ~Compacting => Informed
    BY <1>1, <1>2, <1>9 DEF GetInv
  <2>2. i \in KeysOf(t) /\ t[i] = s[i]
    BY <1>3 DEF Keeps
  <2>3. CASE Ahead(t, i, a) = ValuesFor(t, i)
    <3> HIDE DEF s, t, k, a
    <3>1. Answer(t, i, a) = LookupOf(t, k)
      BY <1>5, <2>1, <2>2, <2>3, AnswerAll
    <3> QED
      BY <1>6, <1>7, <2>1, <2>2, <2>3, <3>1
  <2>4. CASE Ahead(t, i, a) # ValuesFor(t, i)
    <3>1. ASSUME pc \in Setting, ~Compacting, pc # "delete", ~(pc = "validateValue" /\ pc' \notin Setting)
          PROVE  Ahead(s, i, a) # ValuesFor(s, i) \/ ~(pc' \in Setting)
      <4>1. CASE SameReads(s, t) \/ KeyComes(s, t, Len(s))
        <5> HIDE DEF s, t, k, a
        <5>1. ValuesFor(t, i) = ValuesFor(s, i) /\ \A j \in ValuesFor(s, i) : t[j] = s[j]
          BY <2>2, <4>1 DEF SameReads, KeyComes, ValuesFor
        <5>2. Ahead(t, i, a) = Ahead(s, i, a)
          BY <5>1 DEF Ahead
        <5> QED
          BY <2>4, <5>1, <5>2
      <4> QED
        BY <1>3, <3>1, <4>1 DEF BaseChange, Setting
    <3>2. ASSUME pc' \in Setting, ~Compacting' PROVE Informed'
      <4>1. pc \in Setting /\ ~Compacting => Informed
        BY <2>1, <3>1, <3>2 DEF Setting
      <4> QED
        BY <1>1, <1>2, <3>2, <4>1, InformedStep
    <3>3. Answer(t, i, a) \in rd'.seen
      <4>1. CASE Answer(t, i, a) = Answer(s, i, a)
        BY <1>1, <2>1, <4>1
      <4>2. CASE SameReads(s, t) \/ KeyComes(s, t, Len(s))
        <5> HIDE DEF s, t, k, a
        <5>1. ValuesFor(t, i) = ValuesFor(s, i) /\ \A j \in ValuesFor(s, i) : t[j] = s[j]
          BY <2>2, <4>2 DEF SameReads, KeyComes, ValuesFor
        <5>2. Ahead(t, i, a) = Ahead(s, i, a) /\ \A j \in Ahead(s, i, a) : t[j] = s[j]
          BY <5>1 DEF Ahead
        <5>3. Answer(t, i, a) = Answer(s, i, a)
          BY <1>4, <5>2, AnswerSame
        <5> QED
          BY <4>1, <5>3
      <4>3. CASE pc = "delete" /\ ValueGoes(s, t)
        <5>1. Answer(t, i, a) = Answer(s, i, a)
          BY <1>2, <1>3, <2>4, <4>3, AnswerGoes
        <5> QED
          BY <4>1, <5>1
      <4>4. CASE /\ pc = "validateValue" /\ UNCHANGED <<op, old, keyId>>
                 /\ pc' = "delete" \/ (pc' = "return" /\ (ret' = "ERR_IO" \/ old.pos = 0))
                 /\ ValueComes(s, t, Len(s)) /\ t[Len(s)].data = op.val /\ t[Len(s)].id = keyId
        <5> DEFINE n == Len(s)
        <5>1. n \in Nat
          BY <1>4, SeqFacts
        <5>2. \/ Answer(t, i, a) = Answer(s, i, a)
              \/ /\ Ahead(s, i, a) = {} /\ Ahead(t, i, a) = {n} /\ Answer(t, i, a) = t[n].data
                 /\ t[n].id = s[i].id
          <6>1. ValueComes(s, t, n) /\ Keeps(s, t)
            BY <1>3, <4>4
          <6> HIDE DEF s, t, n, a
          <6> QED
            BY <1>4, <5>1, <6>1, AnswerComes
        <5>3. ASSUME Ahead(s, i, a) = {}, Ahead(t, i, a) = {n}, Answer(t, i, a) = t[n].data,
                     t[n].id = s[i].id
              PROVE  Answer(t, i, a) \in rd'.seen
          <6>1. ValuesFor(t, i) \subseteq ValuesFor(s, i) \cup {n}
            <7> HIDE DEF s, t, n
            <7> QED
              BY <2>2, <4>4 DEF ValueComes, ValuesFor, n
          <6>2. ValuesFor(s, i) # {}
            <7> HIDE DEF s, t, n, a
            <7>1. n \in ValuesFor(t, i)
              BY <5>3 DEF Ahead
            <7> QED
              BY <2>4, <5>3, <6>1, <7>1
          <6>3. Informed
            BY <2>1, <4>4, <5>3, <6>2 DEF Setting, Compacting
          <6>4. \A x \in Keys : x = rd.key => op.val \in Visible(x)'
            <7> SUFFICES ASSUME NEW x \in Keys, x = rd.key PROVE op.val \in Visible(x)'
              OBVIOUS
            <7>1. log[info.base][i].id = keyId /\ log[info.base][i].data = x
              BY <2>1, <4>4, <5>3
            <7> QED
              BY <4>4, <6>2, <6>3, <7>1, WrittenVisible
          <6>5. \A x \in Keys : x = rd.key => Visible(x)' \subseteq rd'.seen
            BY ObserveStep
          <6> QED
            BY <1>2, <4>4, <5>3, <6>4, <6>5
        <5> QED
          BY <4>1, <5>2, <5>3
      <4> QED
        BY <1>3, <4>2, <4>3, <4>4 DEF BaseChange
    <3> QED
      BY <2>1, <2>2, <3>2, <3>3
  <2> QED
    BY <2>3, <2>4
<1> QED
  BY <1>1, <1>6, <1>8, <1>9 DEF GetInv

-----------------------------------------------------------------------------
(* An iteration beside the other task.                                     *)

\* A steady parameter has a key entry and a value.
LEMMA SteadyHasValue ==
    ASSUME LogInv, IdleInv, OpInv, PosInv, SeenInv, ReaderTypeOK,
           Reading, ~rd.moved, rd.key = Nil, NEW k \in rd.steady
    PROVE  LET s == log[info.base]
           IN  \E i \in KeysOf(s) : s[i].data = k /\ ValuesFor(s, i) # {}
<1> DEFINE s == log[info.base]
<1>1. k \in Keys /\ info.base \in Regions /\ ~LeftBehind(k)
  BY DEF ReaderTypeOK, ReaderType, PosInv
<1>2. LookupOf(s, k) # Nil
  BY <1>1, LookupVisible DEF SeenInv
<1>3. s \in Seq(Entry) /\ Distinct(s)
  BY <1>1, BaseFacts
<1>4. ~Fresh(s, k)
  BY <1>2, LookupFresh
<1>5. PICK i \in KeysOf(s) : s[i].data = k
  BY <1>4 DEF Fresh
<1>6. ValuesFor(s, i) # {}
  BY <1>2, <1>3, <1>5, LookupKey
<1> QED
  BY <1>5, <1>6

LEMMA ObserveIter ==
    ASSUME LogInv, LogInv', IdleInv, OpInv, Next, ReaderTypeOK, Observe, PosInv, SeenInv, IterInv
    PROVE  IterInv'
<1> DEFINE s == log[info.base]
           t == log'[info.base]
           a == rd.at
           b == rd.from.at
<1> SUFFICES ASSUME Reading', ~rd'.moved, rd'.key = Nil PROVE IterInv'
  BY DEF IterInv
<1>1. /\ Reading /\ ~rd.moved /\ crashes' = crashes /\ info'.base = info.base
      /\ rd'.pc = rd.pc /\ rd'.key = rd.key /\ rd'.at = rd.at /\ rd'.id = rd.id /\ rd'.from = rd.from
      /\ rd'.name = rd.name /\ rd'.names = rd.names /\ rd'.steady \subseteq rd.steady
  BY ObserveStep
<1>2. info.base \in Regions /\ a \in Nat /\ rd.key = Nil
  BY <1>1 DEF PosInv, ReaderTypeOK, ReaderType
<1>3. Keeps(s, t) /\ BaseChange(s, t)
  BY <1>1, <1>2, BaseStep
<1>4. s \in Seq(Entry) /\ Distinct(s)
  BY <1>2, BaseFacts
<1>5. t \in Seq(Entry) /\ Chained(t)
  <2>1. \A r \in Regions : log'[r] \in Seq(Entry) /\ GoodLog(log'[r])
    BY DEF LogInv, TypeInv, TypeOK
  <2> QED
    BY <1>2, <2>1 DEF GoodLog
<1>6. Delivered' = Delivered /\ log'[info'.base] = t
  BY <1>1 DEF Delivered
<1>7. /\ \A k \in Delivered : \E i \in KeysOf(s) : s[i].data = k /\ s[i].addr < b
      /\ \A m, n \in DOMAIN rd.names : rd.names[m] = rd.names[n] => m = n
      /\ rd.pc = "key" =>
            \A k \in rd.steady \ Delivered : \E i \in KeysOf(s) : s[i].data = k /\ s[i].addr >= a
      /\ rd.pc = "value" =>
            /\ rd.name \notin Delivered
            /\ \A k \in rd.steady \ (Delivered \cup {rd.name}) :
                  \E i \in KeysOf(s) : s[i].data = k /\ s[i].addr >= b
            /\ \E i \in KeysOf(s) :
                  /\ s[i].data = rd.name /\ s[i].id = rd.id /\ s[i].addr < b
                  /\ rd.name \in rd.steady => Ahead(s, i, a) = ValuesFor(s, i)
  BY <1>1, <1>2 DEF IterInv
<1>8. \A i \in KeysOf(s) : i \in KeysOf(t) /\ t[i] = s[i]
  BY <1>3 DEF Keeps
<1>9. ASSUME rd.pc = "value"
      PROVE  \E i \in KeysOf(t) :
                /\ t[i].data = rd.name /\ t[i].id = rd.id /\ t[i].addr < b
                /\ rd.name \in rd.steady => Ahead(t, i, a) = ValuesFor(t, i)
  <2>1. PICK i \in KeysOf(s) :
           /\ s[i].data = rd.name /\ s[i].id = rd.id /\ s[i].addr < b
           /\ rd.name \in rd.steady => Ahead(s, i, a) = ValuesFor(s, i)
    BY <1>7, <1>9
  <2>2. ASSUME rd.name \in rd.steady, NEW j \in ValuesFor(t, i) PROVE t[j].addr >= a
    <3>1. PICK h \in KeysOf(s) : s[h].data = rd.name /\ ValuesFor(s, h) # {}
      BY <1>1, <1>2, <2>2, SteadyHasValue
    <3>2. h = i
      BY <1>4, <2>1, <3>1 DEF Distinct
    <3>3. PICK m \in ValuesFor(s, i) : TRUE
      BY <3>1, <3>2
    <3>4. /\ \A x \in ValuesFor(s, i) : s[x].addr >= a /\ x \in DOMAIN s
      BY <2>1, <2>2 DEF Ahead, ValuesFor, ValuesOf
    <3>5. \A x \in DOMAIN s : x \in DOMAIN t /\ t[x].addr = s[x].addr
      BY <1>3 DEF Keeps
    <3>6. CASE j \in ValuesFor(s, i)
      BY <3>4, <3>5, <3>6
    <3>7. CASE j \notin ValuesFor(s, i)
      <4> HIDE DEF s, t
      <4>1. m < j
        BY <1>3, <1>8, <2>2, <3>3, <3>7
           DEF BaseChange, SameReads, KeyComes, ValueComes, ValueGoes, ValuesFor
      <4>2. j \in DOMAIN t /\ m \in DOMAIN t /\ s[m].addr >= a /\ t[m].addr = s[m].addr
        BY <2>2, <3>3, <3>4, <3>5 DEF ValuesFor, ValuesOf
      <4>3. t[m].addr <= t[j].addr /\ t[m].addr \in Nat /\ t[j].addr \in Nat
        BY <1>5, <4>1, <4>2, AddressOrder
      <4> QED
        BY <1>2, <4>2, <4>3
    <3> QED
      BY <3>6, <3>7
  <2>3. rd.name \in rd.steady => Ahead(t, i, a) = ValuesFor(t, i)
    BY <2>2 DEF Ahead
  <2> QED
    BY <1>8, <2>1, <2>3
<1>10. /\ \A k \in Delivered : \E i \in KeysOf(t) : t[i].data = k /\ t[i].addr < b
       /\ rd.pc = "key" =>
             \A k \in rd.steady \ Delivered : \E i \in KeysOf(t) : t[i].data = k /\ t[i].addr >= a
       /\ rd.pc = "value" =>
             \A k \in rd.steady \ (Delivered \cup {rd.name}) :
                 \E i \in KeysOf(t) : t[i].data = k /\ t[i].addr >= b
  <2> HIDE DEF s, t, a, b
  <2> QED
    BY <1>7, <1>8
<1> HIDE DEF t
<1> QED
  BY <1>1, <1>6, <1>7, <1>9, <1>10 DEF IterInv

-----------------------------------------------------------------------------
(* The reader's own steps.                                                 *)

\* The writer's state, to the reader, is the same after them.
LEMMA ForcedSame ==
    ASSUME TypeOK, Forced
    PROVE  /\ log' = log /\ info'.base = info.base /\ pc' = pc
           /\ \A k \in Keys : Visible(k)' = Visible(k) /\ (LeftBehind(k)' <=> LeftBehind(k))
           /\ Informed' <=> Informed
           /\ Compacting' <=> Compacting
<1>1. /\ log' = log /\ info'.base = info.base /\ pc' = pc /\ op' = op /\ old' = old
      /\ keyId' = keyId /\ ret' = ret
  BY DEF Forced, flash, call, TypeOK
<1>2. Informed' <=> Informed
  BY <1>1 DEF Informed
<1>3. \A k \in Keys : Lookup(info.base, k)' = Lookup(info.base, k)
  BY <1>1 DEF Lookup, FindKey, FindValue, LiveKeys, LiveValues
<1>4. \A k \in Keys : CallerView'[k] = CallerView[k]
  BY <1>1, <1>3 DEF CallerView, Mounted
<1>5. \A k \in Keys : Visible(k)' = Visible(k)
  BY <1>1, <1>4 DEF Visible, Written
<1>6. \A k \in Keys : LeftBehind(k)' <=> LeftBehind(k)
  BY <1>1 DEF LeftBehind
<1> QED
  BY <1>1, <1>2, <1>5, <1>6 DEF Compacting

\* Everything about the reader.
Reads ==
    /\ ReaderTypeOK /\ PosInv /\ SeenInv /\ GetInv /\ IterInv
    /\ GetIsLinearizable /\ IterationComplete
Writes == LogInv /\ IdleInv /\ OpInv

\* A reader that does not read has nothing to keep.
LEMMA NotReading ==
    ASSUME ReaderTypeOK', ~Reading', GetIsLinearizable', IterationComplete'
    PROVE  Reads'
BY DEF Reads, PosInv, SeenInv, GetInv, IterInv

LEMMA StopReading ==
    ASSUME rd' = NoReader
    PROVE  Reads'
<1>1. NoReader \in ReaderType
  BY DEF NoReader, ReaderType, Regions
<1>2. ReaderTypeOK' /\ ~Reading' /\ rd'.pc = "idle"
  BY <1>1 DEF ReaderTypeOK, NoReader, Reading
<1> QED
  BY <1>2, NotReading DEF GetIsLinearizable, IterationComplete

\* The reader stands behind everything that can be read.
Past == \A i \in KeysOf(log[info.base]) \cup ValuesOf(log[info.base]) : log[info.base][i].addr < rd.at

LEMMA PastGet ==
    ASSUME Writes, Reads, Reading, ~rd.moved, rd.key \in Keys, Past
    PROVE  Nil \in rd.seen
<1> DEFINE s == log[info.base]
           k == rd.key
<1>1. info.base \in Regions /\ ~LeftBehind(k) /\ rd.at \in Nat /\ rd.pc \in {"key", "value"}
  BY DEF Reads, PosInv, ReaderTypeOK, ReaderType, Reading
<1>2. LookupOf(s, k) \in Visible(k) /\ Visible(k) \subseteq rd.seen
  BY <1>1, LookupVisible DEF Writes, Reads, SeenInv
<1>3. s \in Seq(Entry)
  BY <1>1, BaseFacts DEF Writes
<1>4. \A i \in KeysOf(s) \cup ValuesOf(s) : ~(s[i].addr >= rd.at)
  <2>1. \A i \in KeysOf(s) \cup ValuesOf(s) : s[i].addr \in Nat
    BY <1>3, SeqFacts DEF KeysOf, ValuesOf
  <2> QED
    BY <1>1, <2>1 DEF Past
<1>5. CASE rd.pc = "key"
  <2>1. Nil \in rd.seen \/ Fresh(s, k)
    BY <1>4, <1>5 DEF Reads, GetInv, Fresh
  <2> QED
    BY <1>2, <2>1, LookupFresh
<1>6. CASE rd.pc = "value"
  <2>1. PICK i \in KeysOf(s) : Answer(s, i, rd.at) \in rd.seen
    BY <1>6 DEF Reads, GetInv
  <2>2. Ahead(s, i, rd.at) = {}
    BY <1>4 DEF Ahead, ValuesFor
  <2> QED
    BY <2>1, <2>2 DEF Answer
<1> QED
  BY <1>1, <1>5, <1>6

LEMMA PastIter ==
    ASSUME Writes, Reads, Reading, ~rd.moved, rd.key = Nil, Past
    PROVE  /\ rd.pc = "key" => rd.steady \subseteq Delivered
           /\ rd.pc = "value" => rd.name \notin rd.steady
<1> DEFINE s == log[info.base]
<1>1. info.base \in Regions /\ rd.at \in Nat
  BY DEF Reads, PosInv, ReaderTypeOK, ReaderType
<1>2. s \in Seq(Entry) /\ Distinct(s)
  BY <1>1, BaseFacts DEF Writes
<1>3. \A i \in KeysOf(s) \cup ValuesOf(s) : ~(s[i].addr >= rd.at)
  <2>1. \A i \in KeysOf(s) \cup ValuesOf(s) : s[i].addr \in Nat
    BY <1>2, SeqFacts DEF KeysOf, ValuesOf
  <2> QED
    BY <1>1, <2>1 DEF Past
<1>4. rd.pc = "key" => rd.steady \subseteq Delivered
  BY <1>3 DEF Reads, IterInv
<1>5. ASSUME rd.pc = "value", rd.name \in rd.steady PROVE FALSE
  <2>1. PICK i \in KeysOf(s) : s[i].data = rd.name /\ Ahead(s, i, rd.at) = ValuesFor(s, i)
    BY <1>5 DEF Reads, IterInv
  <2>2. ValuesFor(s, i) = {}
    BY <1>3, <2>1 DEF Ahead, ValuesFor
  <2>3. PICK h \in KeysOf(s) : s[h].data = rd.name /\ ValuesFor(s, h) # {}
    BY <1>5, SteadyHasValue DEF Writes, Reads
  <2>4. h = i
    BY <1>2, <2>1, <2>3 DEF Distinct
  <2> QED
    BY <2>2, <2>3, <2>4
<1> QED
  BY <1>4, <1>5

\* The call ends.
LEMMA Ends ==
    ASSUME ReaderTypeOK, rd' = [rd EXCEPT !.pc = "done"]
    PROVE  /\ ReaderTypeOK' /\ ~Reading'
           /\ rd'.key = rd.key /\ rd'.moved = rd.moved /\ rd'.got = rd.got /\ rd'.seen = rd.seen
           /\ rd'.steady = rd.steady /\ rd'.names = rd.names
BY DEF ReaderTypeOK, ReaderType, Reading

\* The iterator goes back to where the search for keys goes on.
LEMMA GoesBack ==
    ASSUME ReaderTypeOK, NEW w \in Seq(Keys), rd' = [NextKey(rd) EXCEPT !.names = w]
    PROVE  /\ rd' \in ReaderType /\ rd'.pc = "key" /\ rd'.key = rd.key /\ rd'.moved = rd.moved
           /\ rd'.got = rd.got /\ rd'.seen = rd.seen /\ rd'.steady = rd.steady /\ rd'.names = w
           /\ rd'.reg = rd.from.reg /\ rd'.at = rd.from.at /\ rd'.from = rd.from
BY DEF ReaderTypeOK, ReaderType, NextKey

\* What an iterator that goes back has to keep.
LEMMA BackReads ==
    ASSUME Writes, Reads, Forced, Reading, rd.key = Nil, NEW w \in Seq(Keys),
           rd' = [NextKey(rd) EXCEPT !.names = w],
           ~rd.moved =>
              LET s == log[info.base]
                  D == {w[n] : n \in DOMAIN w}
              IN  /\ \A k \in D : \E i \in KeysOf(s) : s[i].data = k /\ s[i].addr < rd.from.at
                  /\ \A m, n \in DOMAIN w : w[m] = w[n] => m = n
                  /\ \A k \in rd.steady \ D :
                        \E i \in KeysOf(s) : s[i].data = k /\ s[i].addr >= rd.from.at
    PROVE  Reads'
<1>1. ReaderTypeOK /\ TypeOK /\ rd.got = Nil
  BY DEF Reads, Writes, LogInv, TypeInv, ReaderTypeOK
<1>2. /\ log' = log /\ info'.base = info.base /\ pc' = pc
      /\ \A k \in Keys : Visible(k)' = Visible(k) /\ (LeftBehind(k)' <=> LeftBehind(k))
  BY <1>1, ForcedSame
<1>3. /\ rd' \in ReaderType /\ rd'.pc = "key" /\ rd'.key = Nil /\ rd'.moved = rd.moved
      /\ rd'.got = rd.got /\ rd'.seen = rd.seen /\ rd'.steady = rd.steady /\ rd'.names = w
      /\ rd'.reg = rd.from.reg /\ rd'.at = rd.from.at /\ rd'.from = rd.from
  BY <1>1, GoesBack
<1>4. ReaderTypeOK'
  BY <1>1, <1>3 DEF ReaderTypeOK
<1>5. rd.from.at \in Nat /\ rd.steady \subseteq Keys
  BY <1>1 DEF ReaderTypeOK, ReaderType
<1>6. PosInv'
  <2>1. ~rd.moved =>
        /\ info.base \in Regions /\ rd.from.reg = info.base
        /\ Boundary(log[info.base], rd.from.at)
        /\ \A k \in Keys : ~LeftBehind(k)
    BY DEF Reads, PosInv
  <2> QED
    BY <1>2, <1>3, <1>5, <2>1 DEF PosInv
<1>7. SeenInv'
  <2>1. \A k \in rd.steady : Nil \notin Visible(k)'
    BY <1>2, <1>5 DEF Reads, SeenInv
  <2> QED
    BY <1>3, <2>1, KeysAssumption DEF SeenInv
<1>8. GetInv'
  BY <1>3, KeysAssumption DEF GetInv
<1>9. IterInv'
  <2> SUFFICES ASSUME ~rd.moved PROVE IterInv'
    BY <1>3 DEF IterInv
  <2> DEFINE s == log[info.base]
             D == {w[n] : n \in DOMAIN w}
  <2>1. /\ \A k \in D : \E i \in KeysOf(s) : s[i].data = k /\ s[i].addr < rd.from.at
        /\ \A m, n \in DOMAIN w : w[m] = w[n] => m = n
        /\ \A k \in rd.steady \ D : \E i \in KeysOf(s) : s[i].data = k /\ s[i].addr >= rd.from.at
    OBVIOUS
  <2>2. Delivered' = D
    BY <1>3 DEF Delivered
  <2>3. log'[info'.base] = s
    BY <1>2
  <2> HIDE DEF s, D
  <2> QED
    BY <1>3, <2>1, <2>2, <2>3 DEF IterInv
<1>10. GetIsLinearizable' /\ IterationComplete'
  BY <1>3 DEF GetIsLinearizable, IterationComplete
<1> QED
  BY <1>4, <1>6, <1>7, <1>8, <1>9, <1>10 DEF Reads

\* _find_entry gives up at the end of what can be read.
LEMMA NotFoundStep ==
    ASSUME Writes, Reads, Forced, Reading, NotFound, ~rd.moved => Past
    PROVE  Reads'
<1>1. ReaderTypeOK /\ rd.got = Nil /\ rd.key \in Keys \cup {Nil} /\ rd.names \in Seq(Keys)
  BY DEF Reads, ReaderTypeOK, ReaderType
<1>2. CASE rd' = [rd EXCEPT !.pc = "done"] /\ ~(rd.pc = "value" /\ rd.key = Nil)
  <2>1. /\ ReaderTypeOK' /\ ~Reading'
        /\ rd'.key = rd.key /\ rd'.moved = rd.moved /\ rd'.got = rd.got /\ rd'.seen = rd.seen
        /\ rd'.steady = rd.steady /\ rd'.names = rd.names
    BY <1>1, <1>2, Ends
  <2>2. GetIsLinearizable'
    BY <1>1, <2>1, PastGet DEF GetIsLinearizable
  <2>3. IterationComplete'
    <3> SUFFICES ASSUME rd.key = Nil, ~rd.moved PROVE IterationComplete'
      BY <2>1 DEF IterationComplete
    <3>1. rd.pc = "key"
      BY <1>2 DEF Reading
    <3>2. rd.steady \subseteq Delivered
      BY <3>1, PastIter
    <3>3. \A m, n \in DOMAIN rd.names : rd.names[m] = rd.names[n] => m = n
      BY DEF Reads, IterInv
    <3> QED
      BY <2>1, <3>2, <3>3 DEF IterationComplete, Delivered
  <2> QED
    BY <2>1, <2>2, <2>3, NotReading
<1>3. CASE rd' = NextKey(rd) /\ rd.pc = "value" /\ rd.key = Nil
  <2> DEFINE w == rd.names
  <2>1. rd' = [NextKey(rd) EXCEPT !.names = w]
    BY <1>1, <1>3 DEF NextKey, ReaderTypeOK, ReaderType
  <2>2. ~rd.moved =>
              LET s == log[info.base]
                  D == {w[n] : n \in DOMAIN w}
              IN  /\ \A k \in D : \E i \in KeysOf(s) : s[i].data = k /\ s[i].addr < rd.from.at
                  /\ \A m, n \in DOMAIN w : w[m] = w[n] => m = n
                  /\ \A k \in rd.steady \ D :
                        \E i \in KeysOf(s) : s[i].data = k /\ s[i].addr >= rd.from.at
    <3> SUFFICES ASSUME ~rd.moved
                 PROVE  LET s == log[info.base]
                        IN  /\ \A k \in Delivered : \E i \in KeysOf(s) : s[i].data = k /\ s[i].addr < rd.from.at
                            /\ \A m, n \in DOMAIN w : w[m] = w[n] => m = n
                            /\ \A k \in rd.steady \ Delivered :
                                  \E i \in KeysOf(s) : s[i].data = k /\ s[i].addr >= rd.from.at
      BY DEF Delivered
    <3>1. rd.name \notin rd.steady
      BY <1>3, PastIter
    <3> QED
      BY <1>3, <3>1 DEF Reads, IterInv
  <2> QED
    BY <1>1, <1>3, <2>1, <2>2, BackReads
<1> QED
  BY <1>2, <1>3 DEF NotFound

\* The reader reaches the end of the region or unwritten flash.
LEMMA ReadStopStep ==
    ASSUME Writes, Reads, Forced, ReadBeyond \/ ReadEnd
    PROVE  Reads'
<1> DEFINE s == log[info.base]
<1>1. Reading /\ ReaderTypeOK /\ rd.at \in Nat /\ TypeOK /\ rd.reg \in Regions
  BY DEF ReadBeyond, ReadEnd, Reads, Writes, LogInv, TypeInv, ReaderTypeOK, ReaderType
<1>2. CASE NotFound /\ (~rd.moved => rd.at >= RegionSize \/ EntryAt(rd.reg, rd.at) = 0)
  <2>1. ASSUME ~rd.moved PROVE Past
    <3>1. info.base \in Regions /\ rd.reg = info.base /\ Boundary(s, rd.at)
      BY <1>1, <2>1 DEF Reads, PosInv
    <3>2. s \in Seq(Entry) /\ Chained(s) /\ Sized(s)
      BY <3>1, BaseFacts DEF Writes
    <3>3. EntryAt(rd.reg, rd.at) = EntryOf(s, rd.at)
      BY <3>1 DEF EntryAt, EntryOf
    <3>4. rd.at >= RegionSize \/ (Boundary(s, rd.at) /\ EntryOf(s, rd.at) = 0)
      BY <1>2, <2>1, <3>1, <3>3
    <3> QED
      BY <1>1, <3>2, <3>4, NothingAhead DEF Past
  <2> QED
    BY <1>1, <1>2, <2>1, NotFoundStep
<1>3. ~rd.moved => ~Behind /\ rd.reg = info.base /\ info.base \in Regions
  BY <1>1 DEF Reads, PosInv, Behind, Regions
<1>4. CASE ReadBeyond
  <2>1. NotFound /\ (info.base = NoRegion \/ rd.reg > info.base \/ rd.at > RegionSize)
    BY <1>4 DEF ReadBeyond
  <2>2. ~rd.moved => rd.at >= RegionSize
    BY <1>1, <1>3, <2>1, RegionAssumption DEF Regions, NoRegion
  <2> QED
    BY <1>2, <2>1, <2>2
<1>5. CASE ReadEnd /\ ~NotFound
  <2>1. Behind /\ rd' = [rd EXCEPT !.reg = info.base, !.at = HdrSize]
    BY <1>5 DEF ReadEnd
  <2>2. rd.moved /\ info.base \in Regions
    BY <1>1, <1>3, <2>1 DEF Behind, TypeOK
  <2>3. /\ rd' \in ReaderType /\ rd'.pc = rd.pc /\ rd'.key = rd.key /\ rd'.moved = rd.moved
        /\ rd'.got = rd.got /\ rd'.seen = rd.seen /\ rd'.steady = rd.steady /\ rd'.name = rd.name
    <3>1. HdrSize \in Nat
      BY DEF HdrSize
    <3>2. rd \in ReaderType
      BY <1>1 DEF ReaderTypeOK
    <3> QED
      BY <2>1, <2>2, <3>1, <3>2 DEF ReaderType
  <2>4. ReaderTypeOK' /\ rd'.pc # "done" /\ Reading /\ rd.steady \subseteq Keys
    BY <1>1, <2>3 DEF ReaderTypeOK, Reading, ReaderType
  <2>5. \A k \in Keys : Visible(k)' = Visible(k)
    BY <1>1, ForcedSame
  <2>6. SeenInv'
    <3>1. \A k \in rd.steady : Nil \notin Visible(k)'
      BY <2>4, <2>5 DEF Reads, SeenInv
    <3>2. \A k \in Keys : rd.key = k => Visible(k)' \subseteq rd.seen
      BY <2>4, <2>5 DEF Reads, SeenInv
    <3> QED
      BY <2>3, <3>1, <3>2 DEF SeenInv
  <2> QED
    BY <2>2, <2>3, <2>4, <2>6 DEF Reads, PosInv, GetInv, IterInv, GetIsLinearizable, IterationComplete
<1>6. CASE ReadEnd /\ NotFound
  <2>1. rd.at = RegionSize \/ (rd.at < RegionSize /\ EntryAt(rd.reg, rd.at) = 0)
    BY <1>6 DEF ReadEnd
  <2> QED
    BY <1>1, <1>2, <1>6, <2>1, RegionAssumption
<1> QED
  BY <1>4, <1>5, <1>6

\* A reader that has not moved stands on an entry of the region in use.
LEMMA EntryHere ==
    ASSUME Writes, Reads, Reading, ~rd.moved, EntryAt(rd.reg, rd.at) # 0
    PROVE  LET s == log[info.base]
               i == EntryAt(rd.reg, rd.at)
           IN  /\ info.base \in Regions /\ rd.reg = info.base
               /\ s \in Seq(Entry) /\ Chained(s) /\ Sized(s) /\ Distinct(s)
               /\ i \in DOMAIN s /\ s[i].addr = rd.at /\ i \in Nat /\ s[i].size \in Nat
               /\ \A j \in DOMAIN s : j \in Nat /\ s[j].addr \in Nat
               /\ \A j \in DOMAIN s : s[j].addr < rd.at => j < i
               /\ \A j \in DOMAIN s : j > i => s[j].addr >= rd.at + s[i].size
               /\ \A j \in DOMAIN s : s[j].addr >= rd.at /\ j # i => j > i
<1> DEFINE s == log[info.base]
           i == EntryAt(rd.reg, rd.at)
<1>1. info.base \in Regions /\ rd.reg = info.base /\ rd.at \in Nat
  BY DEF Reads, PosInv, ReaderTypeOK, ReaderType
<1>2. s \in Seq(Entry) /\ Chained(s) /\ Sized(s) /\ Distinct(s)
  BY <1>1, BaseFacts DEF Writes
<1>3. i = EntryOf(s, rd.at)
  BY <1>1 DEF EntryAt, EntryOf
<1>4. /\ i \in DOMAIN s /\ s[i].addr = rd.at
      /\ \A j \in DOMAIN s : j > i => s[j].addr >= s[i].addr + s[i].size
      /\ \A j \in DOMAIN s : s[j].addr >= rd.at /\ j # i => j > i
  BY <1>1, <1>2, <1>3, EntryOfFacts
<1>5. \A j \in DOMAIN s : j \in Nat /\ s[j].addr \in Nat /\ s[j].size \in Nat
  BY <1>2, AddressOrder
<1> HIDE DEF s, i
<1>6. \A j \in DOMAIN s : s[j].addr < rd.at => j < i
  <2> SUFFICES ASSUME NEW j \in DOMAIN s, s[j].addr < rd.at PROVE j < i
    OBVIOUS
  <2>1. j # i
    BY <1>1, <1>4
  <2>2. ~(j > i)
    BY <1>1, <1>4, <1>5
  <2> QED
    BY <1>4, <1>5, <2>1, <2>2
<1> QED
  BY <1>1, <1>2, <1>4, <1>5, <1>6 DEF s, i

\* What a reader that goes on has to keep.
LEMMA GoesOn ==
    ASSUME Writes, Reads, Forced, Reading, Reading', rd' \in ReaderType,
           rd'.pc = "value" => rd'.name \in Keys,
           rd'.key = rd.key, rd'.moved = rd.moved, rd'.seen = rd.seen, rd'.steady = rd.steady,
           rd'.got = rd.got, ~rd.moved => PosInv' /\ GetInv' /\ IterInv'
    PROVE  Reads'
<1>1. TypeOK /\ rd.got = Nil /\ rd.steady \subseteq Keys
  BY DEF Reads, Writes, LogInv, TypeInv, ReaderTypeOK, ReaderType
<1>2. \A k \in Keys : Visible(k)' = Visible(k)
  BY <1>1, ForcedSame
<1>3. SeenInv'
  <2>1. \A k \in rd.steady : Nil \notin Visible(k)'
    BY <1>1, <1>2 DEF Reads, SeenInv
  <2>2. \A k \in Keys : rd.key = k => Visible(k)' \subseteq rd.seen
    BY <1>2 DEF Reads, SeenInv
  <2> QED
    BY <2>1, <2>2 DEF SeenInv
<1>4. ReaderTypeOK'
  BY <1>1 DEF ReaderTypeOK
<1>5. PosInv' /\ GetInv' /\ IterInv'
  BY DEF PosInv, GetInv, IterInv
<1>6. GetIsLinearizable' /\ IterationComplete'
  BY DEF GetIsLinearizable, IterationComplete, Reading
<1> QED
  BY <1>3, <1>4, <1>5, <1>6 DEF Reads

\* The entry that is read.
LEMMA EntryHereType ==
    ASSUME Writes, Reads, EntryAt(rd.reg, rd.at) # 0
    PROVE  LET e == log[rd.reg][EntryAt(rd.reg, rd.at)]
           IN  /\ e.addr = rd.at /\ e.addr + e.size \in Nat /\ e.id \in Nat
               /\ e.kind = "key" /\ e.st = "live" => e.data \in Keys
               /\ e.kind = "value" /\ e.st = "live" => e.data \in Values
<1> DEFINE S == {i \in DOMAIN log[rd.reg] : log[rd.reg][i].addr = rd.at}
           i == FirstOf(S)
           e == log[rd.reg][i]
<1>1. log[rd.reg] \in Seq(Entry)
  BY DEF Reads, ReaderTypeOK, ReaderType, Writes, LogInv, TypeInv, TypeOK
<1>2. S \in SUBSET (Nat \ {0})
  BY <1>1, SeqFacts
<1>3. i \in S
  BY <1>2, FirstOfType DEF EntryAt
<1>4. e \in Entry /\ e.addr = rd.at /\ e.size \in Nat /\ e.addr \in Nat /\ e.id \in Nat
  BY <1>1, <1>3, SeqFacts
<1>5. i = EntryAt(rd.reg, rd.at)
  BY DEF EntryAt
<1> HIDE DEF i
<1> QED
  BY <1>4, <1>5 DEF Entry

\* The reader behind a key entry.
AtKey(r, k, d, a, f) == [r EXCEPT !.pc = "value", !.name = k, !.id = d, !.at = a, !.from = f]

LEMMA AtKeyType ==
    ASSUME NEW r \in ReaderType, NEW k \in Keys, NEW d \in Nat, NEW a \in Nat,
           NEW f \in [reg : Regions, at : Nat]
    PROVE  LET q == AtKey(r, k, d, a, f)
           IN  /\ q \in ReaderType /\ q.pc = "value" /\ q.key = r.key /\ q.moved = r.moved
               /\ q.seen = r.seen /\ q.steady = r.steady /\ q.got = r.got /\ q.names = r.names
               /\ q.name = k /\ q.id = d /\ q.reg = r.reg /\ q.at = a /\ q.from = f
BY DEF AtKey, ReaderType

\* The reader finds a key: all its values are behind it.
LEMMA ReadKeyStep ==
    ASSUME Writes, Reads, Forced, Reading, EntryAt(rd.reg, rd.at) # 0,
           NEW e, e = log[rd.reg][EntryAt(rd.reg, rd.at)],
           rd.pc = "key", e.kind = "key", e.st = "live", rd.key \in {e.data, Nil},
           NEW next, next = e.addr + e.size,
           rd' \in ReaderType, rd'.pc = "value", rd'.key = rd.key, rd'.moved = rd.moved,
           rd'.seen = rd.seen, rd'.steady = rd.steady, rd'.got = rd.got, rd'.names = rd.names,
           rd'.name = e.data, rd'.id = e.id, rd'.reg = rd.reg, rd'.at = next,
           rd'.from.reg = rd.reg, rd'.from.at = next
    PROVE  Reads'
<1> DEFINE s == log[info.base]
           i == EntryAt(rd.reg, rd.at)
<1>1. /\ e.addr = rd.at /\ next \in Nat /\ e.id \in Nat /\ e.data \in Keys
  BY EntryHereType
<1>2. rd \in ReaderType
  BY DEF Reads, ReaderTypeOK
<1>3. /\ rd' \in ReaderType /\ rd'.pc = "value" /\ rd'.key = rd.key /\ rd'.moved = rd.moved
      /\ rd'.seen = rd.seen /\ rd'.steady = rd.steady /\ rd'.got = rd.got /\ rd'.names = rd.names
      /\ rd'.name = e.data /\ rd'.id = e.id /\ rd'.reg = rd.reg /\ rd'.at = next
      /\ rd'.from.reg = rd.reg /\ rd'.from.at = next
  OBVIOUS
<1>4. ASSUME ~rd.moved PROVE PosInv' /\ GetInv' /\ IterInv'
  <2>1. /\ info.base \in Regions /\ rd.reg = info.base
        /\ s \in Seq(Entry) /\ Chained(s) /\ Sized(s) /\ Distinct(s)
        /\ i \in DOMAIN s /\ s[i].addr = rd.at /\ i \in Nat /\ s[i].size \in Nat
        /\ \A j \in DOMAIN s : j \in Nat /\ s[j].addr \in Nat
        /\ \A j \in DOMAIN s : j > i => s[j].addr >= rd.at + s[i].size
        /\ \A j \in DOMAIN s : s[j].addr >= rd.at /\ j # i => j > i
    BY <1>4, EntryHere
  <2>2. /\ log' = log /\ info'.base = info.base /\ pc' = pc
        /\ \A k \in Keys : LeftBehind(k)' <=> LeftBehind(k)
    BY ForcedSame DEF Writes, LogInv, TypeInv
  <2>3. e = s[i] /\ next = rd.at + s[i].size /\ rd.at \in Nat
    BY <1>2, <2>1 DEF ReaderType
  <2>4. log'[info'.base] = s
    BY <2>2
  <2>5. /\ rd.from.at <= rd.at /\ rd.from.at \in Nat
        /\ \A k \in Keys : rd.key \in {k, Nil} => ~LeftBehind(k)
    BY <1>2, <1>4 DEF Reads, PosInv, ReaderType
  <2> HIDE DEF s, i
  <2>6. i \in KeysOf(s)
    BY <2>1, <2>3 DEF KeysOf
  <2>7. s[i].size > 0 /\ rd.at < next
    <3>1. s[i].size > 0
      BY <2>1, <2>6, LiveSize
    <3> QED
      BY <2>1, <2>3, <3>1
  <2>8. Ahead(s, i, next) = ValuesFor(s, i)
    BY <2>1, <2>3 DEF Ahead, ValuesFor, ValuesOf
  <2>9. PosInv'
    <3>1. Boundary(s, next)
      BY <2>1, <2>3 DEF Boundary
    <3> QED
      BY <1>1, <1>3, <2>1, <2>2, <2>4, <2>5, <3>1 DEF PosInv
  <2>10. GetInv'
    <3> SUFFICES ASSUME rd.key \in Keys PROVE GetInv'
      BY <1>3 DEF GetInv
    <3>1. rd.key = s[i].data
      BY <2>3, KeysAssumption
    <3>2. Answer(s, i, next) = LookupOf(s, s[i].data)
      BY <2>1, <2>6, <2>8, AnswerAll
    <3>3. LookupOf(s, rd.key) \in Visible(rd.key)
      BY <2>1, <2>5, LookupVisible DEF Writes, s
    <3>4. Answer(s, i, next) \in rd.seen
      BY <3>1, <3>2, <3>3 DEF Reads, SeenInv
    <3> QED
      BY <1>3, <2>1, <2>3, <2>4, <2>6, <2>7, <2>8, <3>1, <3>4 DEF GetInv
  <2>11. IterInv'
    <3> SUFFICES ASSUME rd.key = Nil PROVE IterInv'
      BY <1>3 DEF IterInv
    <3>1. /\ \A k \in Delivered : \E j \in KeysOf(s) : s[j].data = k /\ s[j].addr < rd.from.at
          /\ \A m, n \in DOMAIN rd.names : rd.names[m] = rd.names[n] => m = n
          /\ \A k \in rd.steady \ Delivered : \E j \in KeysOf(s) : s[j].data = k /\ s[j].addr >= rd.at
      BY <1>4 DEF Reads, IterInv, s
    <3>2. \A j \in KeysOf(s) : j \in DOMAIN s
      BY DEF KeysOf
    <3>3. \A k \in Delivered : \E j \in KeysOf(s) : s[j].data = k /\ s[j].addr < next
      <4> SUFFICES ASSUME NEW k \in Delivered
                   PROVE  \E j \in KeysOf(s) : s[j].data = k /\ s[j].addr < next
        OBVIOUS
      <4>1. PICK j \in KeysOf(s) : s[j].data = k /\ s[j].addr < rd.from.at
        BY <3>1
      <4>2. s[j].addr < next
        BY <1>1, <2>1, <2>3, <2>5, <2>7, <3>2, <4>1
      <4> QED
        BY <4>1, <4>2
    <3>4. s[i].data \notin Delivered
      <4> SUFFICES ASSUME s[i].data \in Delivered PROVE FALSE
        OBVIOUS
      <4>1. PICK j \in KeysOf(s) : s[j].data = s[i].data /\ s[j].addr < rd.from.at
        BY <3>1
      <4>2. j = i
        BY <2>1, <2>6, <4>1 DEF Distinct
      <4> QED
        BY <2>1, <2>3, <2>5, <4>1, <4>2
    <3>5. \A k \in rd.steady \ (Delivered \cup {s[i].data}) :
              \E j \in KeysOf(s) : s[j].data = k /\ s[j].addr >= next
      <4> SUFFICES ASSUME NEW k \in rd.steady \ (Delivered \cup {s[i].data})
                   PROVE  \E j \in KeysOf(s) : s[j].data = k /\ s[j].addr >= next
        OBVIOUS
      <4>1. PICK j \in KeysOf(s) : s[j].data = k /\ s[j].addr >= rd.at
        BY <3>1
      <4>2. j # i
        BY <4>1
      <4>3. s[j].addr >= next
        BY <2>1, <2>3, <3>2, <4>1, <4>2
      <4> QED
        BY <4>1, <4>3
    <3>6. Delivered' = Delivered
      BY <1>3 DEF Delivered
    <3>7. rd'.name = s[i].data /\ rd'.id = s[i].id /\ s[i].addr < next
      BY <1>3, <2>1, <2>3, <2>7
    <3>8. /\ \A k \in Delivered' : \E j \in KeysOf(s) : s[j].data = k /\ s[j].addr < rd'.from.at
          /\ \A m, n \in DOMAIN rd'.names : rd'.names[m] = rd'.names[n] => m = n
      BY <3>1, <3>3, <3>6
    <3>9. /\ rd'.name \notin Delivered'
          /\ \A k \in rd'.steady \ (Delivered' \cup {rd'.name}) :
                \E j \in KeysOf(s) : s[j].data = k /\ s[j].addr >= rd'.from.at
      BY <3>4, <3>5, <3>6, <3>7
    <3>10. \E j \in KeysOf(s) :
              /\ s[j].data = rd'.name /\ s[j].id = rd'.id /\ s[j].addr < rd'.from.at
              /\ rd'.name \in rd'.steady => Ahead(s, j, rd'.at) = ValuesFor(s, j)
      BY <2>6, <2>8, <3>7
    <3> QED
      BY <1>3, <2>4, <3>8, <3>9, <3>10 DEF IterInv
  <2> QED
    BY <2>9, <2>10, <2>11
<1>5. Reading'
  BY <1>3 DEF Reading
<1> QED
  BY <1>1, <1>3, <1>4, <1>5, GoesOn

\* A get finds the first value that it had before it.
LEMMA ReadValueStep ==
    ASSUME Writes, Reads, Reading, EntryAt(rd.reg, rd.at) # 0,
           NEW e, e = log[rd.reg][EntryAt(rd.reg, rd.at)],
           rd.pc = "value", e.kind = "value", e.st = "live", e.id = rd.id, rd.key # Nil,
           rd' \in ReaderType, rd'.pc = "done", rd'.key = rd.key, rd'.moved = rd.moved,
           rd'.seen = rd.seen, rd'.got = e.data
    PROVE  Reads'
<1> DEFINE s == log[info.base]
           i == EntryAt(rd.reg, rd.at)
<1>1. ReaderTypeOK' /\ ~Reading'
  BY DEF ReaderTypeOK, Reading
<1>2. IterationComplete'
  BY DEF IterationComplete
<1>3. ASSUME ~rd.moved PROVE e.data \in rd.seen
  <2>1. /\ info.base \in Regions /\ rd.reg = info.base /\ s \in Seq(Entry)
        /\ i \in DOMAIN s /\ s[i].addr = rd.at /\ i \in Nat
        /\ \A j \in DOMAIN s : j \in Nat /\ s[j].addr \in Nat
        /\ \A j \in DOMAIN s : s[j].addr < rd.at => j < i
        /\ \A j \in DOMAIN s : s[j].addr >= rd.at /\ j # i => j > i
    BY <1>3, EntryHere
  <2>2. e = s[i] /\ rd.key \in Keys /\ rd.at \in Nat
    BY <2>1 DEF Reads, ReaderTypeOK, ReaderType
  <2>3. PICK h \in KeysOf(s) : /\ s[h].id = rd.id /\ s[h].addr < rd.at
                               /\ Answer(s, h, rd.at) \in rd.seen
    BY <1>3, <2>2 DEF Reads, GetInv
  <2> HIDE DEF s, i
  <2>4. h < i
    BY <2>1, <2>3 DEF KeysOf
  <2>5. i \in Ahead(s, h, rd.at)
    BY <2>1, <2>2, <2>3, <2>4 DEF Ahead, ValuesFor, ValuesOf
  <2>6. \A j \in Ahead(s, h, rd.at) : i <= j
    BY <2>1 DEF Ahead, ValuesFor, ValuesOf
  <2>7. Ahead(s, h, rd.at) \in SUBSET (Nat \ {0})
    BY <2>1, ValuesForType DEF Ahead
  <2>8. FirstOf(Ahead(s, h, rd.at)) \in Ahead(s, h, rd.at) /\ FirstOf(Ahead(s, h, rd.at)) <= i
    BY <2>5, <2>7, FirstOfType
  <2>9. FirstOf(Ahead(s, h, rd.at)) = i
    BY <2>1, <2>6, <2>7, <2>8
  <2>10. Answer(s, h, rd.at) = s[i].data
    BY <2>5, <2>9 DEF Answer
  <2> QED
    BY <2>2, <2>3, <2>10
<1>4. GetIsLinearizable'
  BY <1>3 DEF GetIsLinearizable
<1> QED
  BY <1>1, <1>2, <1>4, NotReading

\* An iterator has found a value of its key and delivers the pair.
LEMMA ReadPairStep ==
    ASSUME Writes, Reads, Forced, Reading, rd.pc = "value", rd.key = Nil,
           rd' = [NextKey(rd) EXCEPT !.names = Append(rd.names, rd.name)]
    PROVE  Reads'
<1> DEFINE w == Append(rd.names, rd.name)
           s == log[info.base]
           D == {w[n] : n \in DOMAIN w}
<1>1. rd.names \in Seq(Keys) /\ rd.name \in Keys
  BY DEF Reads, ReaderTypeOK, ReaderType
<1>2. /\ w \in Seq(Keys) /\ DOMAIN w = DOMAIN rd.names \cup {Len(rd.names) + 1}
      /\ w[Len(rd.names) + 1] = rd.name
      /\ \A n \in DOMAIN rd.names : w[n] = rd.names[n]
  BY <1>1
<1> HIDE DEF w
<1>3. D = Delivered \cup {rd.name}
  BY <1>2 DEF Delivered
<1> HIDE DEF D
<1>4. ASSUME ~rd.moved
      PROVE  /\ \A k \in D : \E i \in KeysOf(s) : s[i].data = k /\ s[i].addr < rd.from.at
             /\ \A m, n \in DOMAIN w : w[m] = w[n] => m = n
             /\ \A k \in rd.steady \ D : \E i \in KeysOf(s) : s[i].data = k /\ s[i].addr >= rd.from.at
  <2>1. /\ \A k \in Delivered : \E i \in KeysOf(s) : s[i].data = k /\ s[i].addr < rd.from.at
        /\ \A m, n \in DOMAIN rd.names : rd.names[m] = rd.names[n] => m = n
        /\ rd.name \notin Delivered
        /\ \A k \in rd.steady \ (Delivered \cup {rd.name}) :
              \E i \in KeysOf(s) : s[i].data = k /\ s[i].addr >= rd.from.at
        /\ \E i \in KeysOf(s) : s[i].data = rd.name /\ s[i].addr < rd.from.at
    BY <1>4 DEF Reads, IterInv
  <2> HIDE DEF s
  <2>2. \A n \in DOMAIN rd.names : rd.names[n] # rd.name
    BY <2>1 DEF Delivered
  <2>3. \A m, n \in DOMAIN w : w[m] = w[n] => m = n
    BY <1>2, <2>1, <2>2
  <2> QED
    BY <1>3, <2>1, <2>3
<1>5. rd' = [NextKey(rd) EXCEPT !.names = w]
  BY DEF w
<1> QED
  BY <1>2, <1>4, <1>5, BackReads DEF D

\* The entry is of no interest to the reader: it goes on behind it.
LEMMA ReadOtherStep ==
    ASSUME Writes, Reads, Forced, Reading, EntryAt(rd.reg, rd.at) # 0,
           NEW e, e = log[rd.reg][EntryAt(rd.reg, rd.at)], NEW next, next = e.addr + e.size,
           ~(rd.pc = "key" /\ e.kind = "key" /\ e.st = "live" /\ rd.key \in {e.data, Nil}),
           ~(rd.pc = "value" /\ e.kind = "value" /\ e.st = "live" /\ e.id = rd.id),
           rd' \in ReaderType, rd'.pc = rd.pc, rd'.key = rd.key, rd'.moved = rd.moved,
           rd'.seen = rd.seen, rd'.steady = rd.steady, rd'.got = rd.got, rd'.names = rd.names,
           rd'.name = rd.name, rd'.id = rd.id, rd'.reg = rd.reg, rd'.at = next, rd'.from = rd.from
    PROVE  Reads'
<1> DEFINE s == log[info.base]
           i == EntryAt(rd.reg, rd.at)
<1>1. e.addr = rd.at /\ next \in Nat
  BY EntryHereType
<1>2. ASSUME ~rd.moved PROVE PosInv' /\ GetInv' /\ IterInv'
  <2>1. /\ info.base \in Regions /\ rd.reg = info.base
        /\ s \in Seq(Entry) /\ i \in DOMAIN s /\ s[i].addr = rd.at /\ i \in Nat /\ s[i].size \in Nat
        /\ \A j \in DOMAIN s : j \in Nat /\ s[j].addr \in Nat
        /\ \A j \in DOMAIN s : j > i => s[j].addr >= rd.at + s[i].size
        /\ \A j \in DOMAIN s : s[j].addr >= rd.at /\ j # i => j > i
    BY <1>2, EntryHere
  <2>2. /\ log' = log /\ info'.base = info.base /\ pc' = pc
        /\ \A k \in Keys : LeftBehind(k)' <=> LeftBehind(k)
        /\ Informed' <=> Informed
        /\ Compacting' <=> Compacting
    BY ForcedSame DEF Writes, LogInv, TypeInv
  <2>3. /\ e = s[i] /\ rd.at \in Nat /\ rd.from.at \in Nat
        /\ rd.key \in Keys \cup {Nil} /\ rd.pc \in {"key", "value"}
    BY <2>1 DEF Reads, ReaderTypeOK, ReaderType, Reading
  <2>4. log'[info'.base] = s
    BY <2>2
  <2>5. /\ rd.from.at <= rd.at /\ rd.from.reg = info.base /\ Boundary(s, rd.from.at)
        /\ \A k \in Keys : rd.key \in {k, Nil} => ~LeftBehind(k)
    BY <1>2 DEF Reads, PosInv
  <2> HIDE DEF s, i
  <2>6. next = rd.at + s[i].size /\ rd.at <= next
    BY <1>1, <2>1, <2>3
  <2>7. \A j \in DOMAIN s : s[j].addr >= rd.at /\ j # i => s[j].addr >= next
    BY <2>1, <2>6
  <2>8. \A j \in DOMAIN s : /\ s[j].addr >= next => s[j].addr >= rd.at
                            /\ s[j].addr < rd.at => s[j].addr < next
    BY <1>1, <2>1, <2>3, <2>6
  <2>9. PosInv'
    <3>1. Boundary(s, next)
      BY <2>1, <2>6 DEF Boundary
    <3> QED
      BY <1>1, <2>1, <2>2, <2>3, <2>4, <2>5, <2>6, <3>1 DEF PosInv
  <2>10. ASSUME rd.pc = "value", NEW h \in KeysOf(s), s[h].id = rd.id
         PROVE  Ahead(s, h, next) = Ahead(s, h, rd.at)
    <3>1. \A j \in ValuesFor(s, h) : j \in DOMAIN s /\ j # i
      BY <2>3, <2>10 DEF ValuesFor, ValuesOf
    <3> QED
      BY <2>7, <2>8, <3>1 DEF Ahead
  <2>11. GetInv'
    <3> SUFFICES ASSUME rd.key \in Keys PROVE GetInv'
      BY DEF GetInv
    <3>1. CASE rd.pc = "key"
      <4>1. Nil \in rd.seen \/ \A j \in KeysOf(s) : s[j].data = rd.key => s[j].addr >= rd.at
        BY <1>2, <3>1 DEF Reads, GetInv, s
      <4>2. \A j \in KeysOf(s) : s[j].data = rd.key => j \in DOMAIN s /\ j # i
        BY <2>3, <3>1 DEF KeysOf
      <4>3. Nil \in rd.seen \/ \A j \in KeysOf(s) : s[j].data = rd.key => s[j].addr >= next
        BY <2>7, <4>1, <4>2
      <4> QED
        BY <2>4, <3>1, <4>3 DEF GetInv
    <3>2. CASE rd.pc = "value"
      <4>1. PICK h \in KeysOf(s) :
               /\ s[h].data = rd.key /\ s[h].id = rd.id /\ s[h].addr < rd.at
               /\ Answer(s, h, rd.at) \in rd.seen
               /\ Ahead(s, h, rd.at) # ValuesFor(s, h) /\ pc \in Setting /\ ~Compacting => Informed
        BY <1>2, <3>2 DEF Reads, GetInv, s
      <4>2. Ahead(s, h, next) = Ahead(s, h, rd.at)
        BY <2>10, <3>2, <4>1
      <4>3. Answer(s, h, next) = Answer(s, h, rd.at)
        BY <4>2 DEF Answer
      <4>4. s[h].addr < next
        BY <2>8, <4>1 DEF KeysOf
      <4> QED
        BY <2>2, <2>4, <3>2, <4>1, <4>2, <4>3, <4>4 DEF GetInv
    <3> QED
      BY <2>3, <3>1, <3>2
  <2>12. IterInv'
    <3> SUFFICES ASSUME rd.key = Nil PROVE IterInv'
      BY DEF IterInv
    <3>1. /\ \A k \in Delivered : \E j \in KeysOf(s) : s[j].data = k /\ s[j].addr < rd.from.at
          /\ \A m, n \in DOMAIN rd.names : rd.names[m] = rd.names[n] => m = n
      BY <1>2 DEF Reads, IterInv, s
    <3>2. Delivered' = Delivered
      BY DEF Delivered
    <3>3. CASE rd.pc = "key"
      <4>1. \A k \in rd.steady \ Delivered : \E j \in KeysOf(s) : s[j].data = k /\ s[j].addr >= rd.at
        BY <1>2, <3>3 DEF Reads, IterInv, s
      <4>2. \A j \in KeysOf(s) : j \in DOMAIN s /\ j # i
        BY <2>3, <3>3 DEF KeysOf
      <4>3. \A k \in rd.steady \ Delivered : \E j \in KeysOf(s) : s[j].data = k /\ s[j].addr >= next
        BY <2>7, <4>1, <4>2
      <4> QED
        BY <2>4, <3>1, <3>2, <3>3, <4>3 DEF IterInv
    <3>4. CASE rd.pc = "value"
      <4>1. /\ rd.name \notin Delivered
            /\ \A k \in rd.steady \ (Delivered \cup {rd.name}) :
                  \E j \in KeysOf(s) : s[j].data = k /\ s[j].addr >= rd.from.at
        BY <1>2, <3>4 DEF Reads, IterInv, s
      <4>2. PICK h \in KeysOf(s) :
               /\ s[h].data = rd.name /\ s[h].id = rd.id /\ s[h].addr < rd.from.at
               /\ rd.name \in rd.steady => Ahead(s, h, rd.at) = ValuesFor(s, h)
        BY <1>2, <3>4 DEF Reads, IterInv, s
      <4>3. Ahead(s, h, next) = Ahead(s, h, rd.at)
        BY <2>10, <3>4, <4>2
      <4> QED
        BY <2>4, <3>1, <3>2, <3>4, <4>1, <4>2, <4>3 DEF IterInv
    <3> QED
      BY <2>3, <3>3, <3>4
  <2> QED
    BY <2>9, <2>11, <2>12
<1>3. Reading' /\ (rd'.pc = "value" => rd'.name \in Keys)
  BY DEF Reads, ReaderTypeOK, Reading
<1> QED
  BY <1>2, <1>3, GoesOn

LEMMA ReadEntryStep ==
    ASSUME Writes, Reads, Forced, ReadEntry
    PROVE  Reads'
<1> DEFINE i == EntryAt(rd.reg, rd.at)
           e == log[rd.reg][i]
           next == e.addr + e.size
           isKey == rd.pc = "key" /\ e.kind = "key" /\ e.st = "live" /\ rd.key \in {e.data, Nil}
           isValue == rd.pc = "value" /\ e.kind = "value" /\ e.st = "live" /\ e.id = rd.id
<1>1. Reading /\ i # 0 /\ rd \in ReaderType /\ rd.reg \in Regions
  BY DEF ReadEntry, Reads, ReaderTypeOK, ReaderType
<1>2. /\ e.addr = rd.at /\ next \in Nat /\ e.id \in Nat
      /\ e.kind = "key" /\ e.st = "live" => e.data \in Keys
      /\ e.kind = "value" /\ e.st = "live" => e.data \in Values
  BY <1>1, EntryHereType
<1>3. \/ /\ isKey
         /\ rd' = AtKey(rd, e.data, e.id, next, [reg |-> rd.reg, at |-> next])
      \/ /\ isValue /\ rd.key # Nil
         /\ rd' = [rd EXCEPT !.pc = "done", !.got = e.data]
      \/ /\ isValue /\ rd.key = Nil
         /\ rd' = [NextKey(rd) EXCEPT !.names = Append(@, rd.name)]
      \/ /\ ~isKey /\ ~isValue
         /\ rd' = [rd EXCEPT !.at = next]
  BY DEF ReadEntry, AtKey
<1>4. e = log[rd.reg][EntryAt(rd.reg, rd.at)] /\ EntryAt(rd.reg, rd.at) # 0 /\ next = e.addr + e.size
  BY <1>1
<1>5. CASE isKey /\ rd' = AtKey(rd, e.data, e.id, next, [reg |-> rd.reg, at |-> next])
  <2> DEFINE f == [reg |-> rd.reg, at |-> next]
  <2>1. f \in [reg : Regions, at : Nat] /\ f.reg = rd.reg /\ f.at = next
    BY <1>1, <1>2
  <2>2. rd' = AtKey(rd, e.data, e.id, next, f) /\ e.data \in Keys
    BY <1>2, <1>5
  <2>3. rd.pc = "key" /\ e.kind = "key" /\ e.st = "live" /\ rd.key \in {e.data, Nil}
    BY <1>5
  <2> HIDE DEF f, e, next, i
  <2>4. /\ rd' \in ReaderType /\ rd'.pc = "value" /\ rd'.key = rd.key /\ rd'.moved = rd.moved
        /\ rd'.seen = rd.seen /\ rd'.steady = rd.steady /\ rd'.got = rd.got /\ rd'.names = rd.names
        /\ rd'.name = e.data /\ rd'.id = e.id /\ rd'.reg = rd.reg /\ rd'.at = next
        /\ rd'.from.reg = rd.reg /\ rd'.from.at = next
    BY <1>1, <1>2, <2>1, <2>2, AtKeyType
  <2> QED
    BY <1>1, <1>4, <2>3, <2>4, ReadKeyStep
<1>6. CASE isValue /\ rd.key # Nil /\ rd' = [rd EXCEPT !.pc = "done", !.got = e.data]
  <2>1. e.data \in Values /\ rd.pc = "value" /\ e.kind = "value" /\ e.st = "live" /\ e.id = rd.id
    BY <1>2, <1>6
  <2> HIDE DEF e, next, i
  <2>2. /\ rd' \in ReaderType /\ rd'.pc = "done" /\ rd'.key = rd.key /\ rd'.moved = rd.moved
        /\ rd'.seen = rd.seen /\ rd'.got = e.data
    BY <1>1, <1>6, <2>1 DEF ReaderType
  <2> QED
    BY <1>1, <1>4, <1>6, <2>1, <2>2, ReadValueStep
<1>7. CASE isValue /\ rd.key = Nil /\ rd' = [NextKey(rd) EXCEPT !.names = Append(@, rd.name)]
  <2>1. NextKey(rd).names = rd.names
    BY <1>1 DEF NextKey, ReaderType
  <2>2. rd' = [NextKey(rd) EXCEPT !.names = Append(rd.names, rd.name)]
    BY <1>7, <2>1
  <2> QED
    BY <1>1, <1>7, <2>2, ReadPairStep
<1>8. CASE ~isKey /\ ~isValue /\ rd' = [rd EXCEPT !.at = next]
  <2>1. /\ ~(rd.pc = "key" /\ e.kind = "key" /\ e.st = "live" /\ rd.key \in {e.data, Nil})
        /\ ~(rd.pc = "value" /\ e.kind = "value" /\ e.st = "live" /\ e.id = rd.id)
    BY <1>8
  <2> HIDE DEF e, next, i
  <2>2. /\ rd' \in ReaderType /\ rd'.pc = rd.pc /\ rd'.key = rd.key /\ rd'.moved = rd.moved
        /\ rd'.seen = rd.seen /\ rd'.steady = rd.steady /\ rd'.got = rd.got /\ rd'.names = rd.names
        /\ rd'.name = rd.name /\ rd'.id = rd.id /\ rd'.reg = rd.reg /\ rd'.at = next
        /\ rd'.from = rd.from
    BY <1>1, <1>2, <1>8 DEF ReaderType
  <2> QED
    BY <1>1, <1>4, <2>1, <2>2, ReadOtherStep
<1> HIDE DEF isKey, isValue
<1> QED
  BY <1>3, <1>5, <1>6, <1>7, <1>8

\* Every key lies behind the header.
LEMMA KeysBehindHeader ==
    ASSUME Writes, info.base \in Regions
    PROVE  \A i \in KeysOf(log[info.base]) : log[info.base][i].addr >= HdrSize
<1> DEFINE s == log[info.base]
<1>1. s \in Seq(Entry) /\ Chained(s)
  BY BaseFacts DEF Writes
<1>2. \A i \in DOMAIN s : HdrSize <= s[i].addr
  BY <1>1, EndBound
<1>3. \A i \in DOMAIN s : s[i].addr \in Nat
  BY <1>1, SeqFacts
<1> QED
  BY <1>2, <1>3 DEF KeysOf, HdrSize

LEMMA StartGetStep ==
    ASSUME Writes, Reads, Forced, NEW k \in Keys, StartGet(k)
    PROVE  Reads'
<1>1. TypeOK /\ info.base \in Regions
  BY DEF Writes, LogInv, TypeInv, TypeOK, StartGet, Mounted
<1>2. /\ log' = log /\ info'.base = info.base
      /\ \A j \in Keys : Visible(j)' = Visible(j) /\ (LeftBehind(j)' <=> LeftBehind(j))
  BY <1>1, ForcedSame
<1> DEFINE seen == Visible(k)
           moved == LeftBehind(k)
           clean == (op.key = k => op.clean)
           from == [reg |-> info.base, at |-> HdrSize]
<1>3. rd' = [NoReader EXCEPT !.pc = "key", !.key = k, !.reg = info.base, !.at = HdrSize, !.from = from,
                             !.seen = seen, !.moved = moved, !.clean = clean]
  BY DEF StartGet
<1>4. seen \in SUBSET (Values \cup {Nil}) /\ moved \in BOOLEAN /\ clean \in BOOLEAN
  BY <1>1, VisibleType DEF LeftBehind, TypeOK
<1>5. from \in [reg : Regions, at : Nat] /\ from.reg = info.base /\ from.at = HdrSize /\ HdrSize \in Nat
  BY <1>1 DEF HdrSize
<1> HIDE DEF seen, moved, clean, from
<1>6. /\ rd' \in ReaderType /\ rd'.pc = "key" /\ rd'.key = k /\ rd'.reg = info.base
      /\ rd'.at = HdrSize /\ rd'.from = from /\ rd'.seen = seen /\ rd'.moved = moved
      /\ rd'.steady = {} /\ rd'.got = Nil
  <2>1. NoReader \in ReaderType /\ NoReader.steady = {} /\ NoReader.got = Nil
    BY DEF NoReader, ReaderType, Regions
  <2> DEFINE q == [NoReader EXCEPT !.pc = "key", !.key = k, !.reg = info.base, !.at = HdrSize, !.from = from]
  <2>2. /\ q \in ReaderType /\ q.pc = "key" /\ q.key = k /\ q.reg = info.base
        /\ q.at = HdrSize /\ q.from = from /\ q.steady = {} /\ q.got = Nil
    BY <1>1, <1>5, <2>1 DEF ReaderType
  <2>3. rd' = [q EXCEPT !.seen = seen, !.moved = moved, !.clean = clean]
    BY <1>3, <2>1 DEF ReaderType
  <2> HIDE DEF q
  <2> QED
    BY <1>4, <2>2, <2>3 DEF ReaderType
<1>7. ReaderTypeOK'
  BY <1>6 DEF ReaderTypeOK
<1>8. PosInv'
  <2> SUFFICES ASSUME ~moved PROVE PosInv'
    BY <1>6 DEF PosInv
  <2>1. \A j \in Keys : k \in {j, Nil} => ~LeftBehind(j)'
    BY <1>2, KeysAssumption DEF moved
  <2> QED
    BY <1>1, <1>2, <1>5, <1>6, <2>1 DEF PosInv, Boundary
<1>9. SeenInv'
  BY <1>2, <1>6 DEF SeenInv, seen
<1>10. GetInv'
  <2>1. \A i \in KeysOf(log[info.base]) : log[info.base][i].addr >= HdrSize
    BY <1>1, KeysBehindHeader
  <2> QED
    BY <1>2, <1>6, <2>1 DEF GetInv
<1>11. IterInv' /\ GetIsLinearizable' /\ IterationComplete'
  BY <1>6, KeysAssumption DEF IterInv, GetIsLinearizable, IterationComplete
<1> QED
  BY <1>7, <1>8, <1>9, <1>10, <1>11 DEF Reads

LEMMA StartIterationStep ==
    ASSUME Writes, Reads, Forced, StartIteration
    PROVE  Reads'
<1>1. TypeOK /\ info.base \in Regions
  BY DEF Writes, LogInv, TypeInv, TypeOK, StartIteration, Mounted
<1>2. /\ log' = log /\ info'.base = info.base
      /\ \A j \in Keys : Visible(j)' = Visible(j) /\ (LeftBehind(j)' <=> LeftBehind(j))
  BY <1>1, ForcedSame
<1> DEFINE steady == Present
           moved == \E j \in Keys : LeftBehind(j)
           from == [reg |-> info.base, at |-> HdrSize]
           s == log[info.base]
<1>3. rd' = [NoReader EXCEPT !.pc = "key", !.reg = info.base, !.at = HdrSize, !.from = from,
                             !.steady = steady, !.moved = moved]
  BY DEF StartIteration
<1>4. steady \in SUBSET Keys /\ moved \in BOOLEAN
  BY DEF Present
<1>5. from \in [reg : Regions, at : Nat] /\ from.reg = info.base /\ from.at = HdrSize /\ HdrSize \in Nat
  BY <1>1 DEF HdrSize
<1> HIDE DEF steady, moved, from
<1>6. /\ rd' \in ReaderType /\ rd'.pc = "key" /\ rd'.key = Nil /\ rd'.reg = info.base
      /\ rd'.at = HdrSize /\ rd'.from = from /\ rd'.steady = steady /\ rd'.moved = moved
      /\ rd'.names = <<>> /\ rd'.got = Nil
  <2>1. NoReader \in ReaderType /\ NoReader.names = <<>> /\ NoReader.got = Nil /\ NoReader.key = Nil
    BY DEF NoReader, ReaderType, Regions
  <2> QED
    BY <1>1, <1>3, <1>4, <1>5, <2>1 DEF ReaderType
<1>7. ReaderTypeOK'
  BY <1>6 DEF ReaderTypeOK
<1>8. PosInv'
  <2> SUFFICES ASSUME ~moved PROVE PosInv'
    BY <1>6 DEF PosInv
  <2>1. \A j \in Keys : ~LeftBehind(j)'
    BY <1>2 DEF moved
  <2> QED
    BY <1>1, <1>2, <1>5, <1>6, <2>1 DEF PosInv, Boundary
<1>9. SeenInv'
  <2>1. \A j \in steady : Nil \notin Visible(j)'
    BY <1>2 DEF steady, Present
  <2> QED
    BY <1>6, <2>1, KeysAssumption DEF SeenInv
<1>10. IterInv'
  <2> SUFFICES ASSUME ~moved PROVE IterInv'
    BY <1>6 DEF IterInv
  <2>1. Delivered' = {} /\ DOMAIN rd'.names = {}
    BY <1>6 DEF Delivered
  <2>2. \A j \in steady : \E i \in KeysOf(s) : s[i].data = j /\ s[i].addr >= HdrSize
    <3> SUFFICES ASSUME NEW j \in steady
                 PROVE  \E i \in KeysOf(s) : s[i].data = j /\ s[i].addr >= HdrSize
      OBVIOUS
    <3>1. j \in Keys /\ Nil \notin Visible(j) /\ ~LeftBehind(j)
      BY DEF steady, Present, moved
    <3>2. LookupOf(s, j) # Nil
      BY <1>1, <3>1, LookupVisible DEF Writes
    <3>3. PICK i \in KeysOf(s) : s[i].data = j
      BY <3>2, LookupFresh DEF Fresh
    <3>4. s[i].addr >= HdrSize
      BY <1>1, KeysBehindHeader
    <3> QED
      BY <3>3, <3>4
  <2>3. log'[info'.base] = s
    BY <1>2
  <2> HIDE DEF s
  <2> QED
    BY <1>6, <2>1, <2>2, <2>3 DEF IterInv
<1>11. GetInv' /\ GetIsLinearizable' /\ IterationComplete'
  BY <1>6, KeysAssumption DEF GetInv, GetIsLinearizable, IterationComplete
<1> QED
  BY <1>7, <1>8, <1>9, <1>10, <1>11 DEF Reads

LEMMA ReadStutter ==
    ASSUME Writes, Reads, Forced, rd' = rd
    PROVE  Reads'
<1>1. TypeOK /\ ReaderTypeOK /\ GetIsLinearizable /\ IterationComplete
  BY DEF Writes, LogInv, TypeInv, Reads
<1>2. CASE ~Reading
  <2>1. ReaderTypeOK' /\ ~Reading' /\ GetIsLinearizable' /\ IterationComplete'
    BY <1>1, <1>2 DEF ReaderTypeOK, Reading, GetIsLinearizable, IterationComplete
  <2> QED
    BY <2>1, NotReading
<1>3. CASE Reading
  <2>1. /\ log' = log /\ info'.base = info.base /\ pc' = pc
        /\ \A k \in Keys : Visible(k)' = Visible(k) /\ (LeftBehind(k)' <=> LeftBehind(k))
        /\ Informed' <=> Informed
        /\ Compacting' <=> Compacting
    BY <1>1, ForcedSame
  <2>2. PosInv'
    BY <2>1 DEF Reads, PosInv, Reading
  <2>3. GetInv'
    BY <2>1 DEF Reads, GetInv, Reading
  <2>4. IterInv'
    BY <2>1 DEF Reads, IterInv, Reading, Delivered
  <2>5. Reading' /\ rd' \in ReaderType /\ (rd'.pc = "value" => rd'.name \in Keys)
    BY <1>1, <1>3 DEF ReaderTypeOK, Reading
  <2> QED
    BY <1>3, <2>2, <2>3, <2>4, <2>5, GoesOn
<1> QED
  BY <1>2, <1>3

-----------------------------------------------------------------------------
(* The theorems.                                                           *)

LEMMA ReaderInitInv == ReaderInit => ReaderInv
<1> SUFFICES ASSUME ReaderInit PROVE ReaderInv
  OBVIOUS
<1>1. LogInv
  BY LogInit DEF ReaderInit
<1>2. IdleInv /\ OpInv
  BY DEF ReaderInit, Init, NoOp, IdleInv, OpInv, Underway, Setting
<1>3. NoReader \in ReaderType
  BY DEF NoReader, ReaderType, Regions
<1>4. ReaderTypeOK /\ ~Reading /\ rd.pc = "idle"
  BY <1>3 DEF ReaderInit, ReaderTypeOK, NoReader, Reading
<1> QED
  BY <1>1, <1>2, <1>4
     DEF ReaderInv, PosInv, SeenInv, GetInv, IterInv, GetIsLinearizable, IterationComplete

LEMMA ReaderNextInv == ReaderInv /\ [ReaderNext]_readerVars => ReaderInv'
<1> SUFFICES ASSUME ReaderInv, [ReaderNext]_readerVars PROVE ReaderInv'
  OBVIOUS
<1>1. Writes /\ Reads /\ LogInv /\ IdleInv /\ OpInv /\ TypeOK
  BY DEF ReaderInv, Writes, Reads, LogInv, TypeInv
<1>2. (Next /\ Observe) \/ Forced
  BY <1>1, ReaderStep
<1>3. LogInv'
  BY <1>1, <1>2, LogNext, LogForced
<1>4. IdleInv' /\ OpInv'
  BY <1>1, <1>2, <1>3, IdleNext, OpNext
<1>5. CASE Next /\ Observe
  <2>1. /\ ReaderTypeOK /\ PosInv /\ SeenInv /\ GetInv /\ IterInv
        /\ GetIsLinearizable /\ IterationComplete
    BY <1>1 DEF Reads
  <2>2. TypeOK'
    BY <1>3 DEF LogInv, TypeInv
  <2>3. ReaderTypeOK'
    BY <1>5, <2>1, <2>2, ObserveType
  <2>4. SeenInv' /\ GetIsLinearizable' /\ IterationComplete'
    BY <1>5, <2>1, ObserveSeen, ObserveDone
  <2>5. PosInv'
    BY <1>1, <1>3, <1>5, <2>1, ObservePos
  <2>6. GetInv'
    BY <1>1, <1>3, <1>4, <1>5, <2>1, <2>4, <2>5, ObserveGet
  <2>7. IterInv'
    BY <1>1, <1>3, <1>5, <2>1, ObserveIter
  <2> QED
    BY <1>3, <1>4, <2>3, <2>4, <2>5, <2>6, <2>7 DEF ReaderInv
<1>6. CASE ~(Next /\ Observe)
  <2>1. Forced
    BY <1>2, <1>6
  <2>2. \/ \E k \in Keys : StartGet(k)
        \/ StartIteration \/ ReadBeyond \/ ReadEnd \/ ReadEntry
        \/ rd' = NoReader
        \/ rd' = rd
    BY <1>6 DEF ReaderNext, ReadStep, ReadAstray, ReadReturn, readerVars
  <2>3. Reads'
    BY <1>1, <2>1, <2>2, StartGetStep, StartIterationStep, ReadStopStep, ReadEntryStep, StopReading,
       ReadStutter
  <2> QED
    BY <1>3, <1>4, <2>3 DEF ReaderInv, Reads
<1> QED
  BY <1>5, <1>6

\* Beside the log's own invariant, what a reader relies on: it stands between
\* two entries; what lies before it is what it must still find, or what it has
\* seen makes up for it; and the call in progress knows of the value that a
\* reader may have passed.  A header that could not be zeroed lies behind the end
\* of the log here, where readers do not see it: what they read of it is left out.
THEOREM ReaderInvariant == ReaderSpec => []ReaderInv
BY ReaderInitInv, ReaderNextInv, PTL DEF ReaderSpec

\* A get that takes no lock returns what the key had at some moment of the
\* call, NOTFOUND included, if no compaction moves the store meanwhile: for
\* any number of keys and values, whatever flash operations fail but for the
\* zeroing of a bad header (a reader may be led astray by what that leaves),
\* wherever the power goes and however the area is reformatted.
THEOREM GetIsLinearizableHolds ==
    ASSUME "zero" \notin Faults
    PROVE  ReaderSpec => []GetIsLinearizable
BY ReaderInvariant, PTL DEF ReaderInv

\* Under the same conditions an iteration delivers every parameter that had a
\* value all the time, and none twice.
THEOREM IterationCompleteHolds ==
    ASSUME "zero" \notin Faults
    PROVE  ReaderSpec => []IterationComplete
BY ReaderInvariant, PTL DEF ReaderInv
=============================================================================
