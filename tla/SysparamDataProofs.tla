------------------------- MODULE SysparamDataProofs -------------------------
(***************************************************************************)
(* Theorems about what the parameters of Sysparam read as: a step touches  *)
(* no parameter but the one that is being set, a status OK is true, and,   *)
(* with the power on and without deletes and flash errors, the two-region  *)
(* log implements the map of SysparamStore and ERR_FULL means that         *)
(* compacting would not help.                                              *)
(***************************************************************************)
EXTENDS SysparamProofs

-----------------------------------------------------------------------------
(* Reading one region.                                                     *)

\* The live values behind the key at i with its id; sysparam_get_data reads
\* the first of them.
ValuesFor(s, i) == {j \in ValuesOf(s) : j > i /\ s[j].id = s[i].id}

\* What sysparam_get_data finds for k in the region s.
LookupOf(s, k) ==
    LET i == FirstOf({m \in KeysOf(s) : s[m].data = k})
        j == IF i = 0 THEN 0 ELSE FindValueOf(s, i)
    IN  IF j = 0 THEN Nil ELSE s[j].data

-----------------------------------------------------------------------------
(* The inductive invariant.                                                *)

\* A compaction under way, or one that may still come: the key id is the one
\* that the lookup found.
MayCompact == pc = "space" \/ Compacting \/ (pc \in {"ids", "force"} /\ info.force)

\* How far the copying has come.
CopyPos == IF pc \in {"copy", "retire"} THEN copy.pos ELSE 0

\* Whatever the call writes or deletes is no other parameter's value: an id
\* that a compaction compares with key_id belongs to the key that is set, an
\* id that a value is written with belongs to a key that has one already, and
\* no other key has the id of the old value.
OwnInv ==
    /\ pc = "full" => ~info.force
    /\ MayCompact => \A i \in KeysOf(log[info.base]) :
          i > CopyPos /\ log[info.base][i].id = keyId => log[info.base][i].data = op.key
    /\ pc \in Setting /\ ~Compacting =>
          \A i \in KeysOf(log[info.base]) :
             log[info.base][i].data # op.key /\ log[info.base][i].id = keyId =>
                ValuesFor(log[info.base], i) # {}
    /\ pc \in Setting \cup {"delete"} /\ old.pos # 0 /\ old.region = info.base =>
          \A i \in KeysOf(log[info.base]) :
             log[info.base][i].data # op.key =>
                log[info.base][i].id # log[info.base][old.pos].id
    /\ pc = "validateKey" => LastOf(log[info.base]).data = op.key
    /\ pc = "validateValue" => LastOf(log[info.base]).data = op.val
                               /\ LastOf(log[info.base]).id = keyId
                               /\ keyId # 0

\* The pairs of s copied so far are pairs of t, except that of the key k.
CopiedPairs(s, t, p, k) ==
    /\ \A m \in KeysOf(t) : \E i \in CopiedKeys(s, p) : t[m].data = s[i].data
    /\ \A i \in CopiedKeys(s, p) :
          s[i].data # k =>
             \E m \in KeysOf(t) : /\ t[m].data = s[i].data
                                  /\ ValuesFor(t, m) # {}
                                  /\ t[FindValueOf(t, m)].data = s[FindValueOf(s, i)].data

\* The new region holds what was copied; nothing is left when its header is
\* made active.
PairsInv ==
    /\ pc \in {"copy", "retire"} =>
          CopiedPairs(log[info.base], log[Other(info.base)], copy.pos, op.key)
    /\ pc = "retire" => \A i \in KeysOf(log[info.base]) :
                           FindValueOf(log[info.base], i) # 0 => i <= copy.pos

\* The old value, as long as it is in the region in use.
OldHere == IF old.pos # 0 /\ old.region = info.base THEN {old.pos} ELSE {}

\* The key k has an entry with the given id, whose values are V.
HasKey(s, k, id, V) == \E i \in KeysOf(s) : s[i].data = k /\ s[i].id = id /\ ValuesFor(s, i) = V

\* A call that began with one value, or with no entry, knows the values of its
\* key, and an OK that it is about to return is true.
CleanInv ==
    /\ pc \in Setting /\ (keyId = 0 \/ pc = "validateKey") => old.pos = 0
    /\ op.clean /\ keyId # 0 /\ MayCompact /\ pc \notin {"copy", "retire"} => old.pos # 0
    /\ op.clean /\ keyId # 0 /\ pc \in Setting \ {"validateKey", "copy", "retire"} =>
          HasKey(log[info.base], op.key, keyId, OldHere)
    /\ op.clean /\ keyId # 0 /\ pc \in {"copy", "retire"} =>
          \E i \in KeysOf(log[info.base]) :
             /\ log[info.base][i].data = op.key /\ FindValueOf(log[info.base], i) # 0
             /\ i > copy.pos => log[info.base][i].id = keyId
             /\ i <= copy.pos => HasKey(log[Other(info.base)], op.key, keyId, {})
    /\ op.clean /\ pc = "delete" =>
          \E i \in KeysOf(log[info.base]) :
             /\ log[info.base][i].data = op.key
             /\ op.val = Nil => old.pos # 0 /\ old.region = info.base
                                /\ ValuesFor(log[info.base], i) = {old.pos}
             /\ op.val # Nil => \E n \in ValuesOf(log[info.base]) :
                                   /\ log[info.base][n].data = op.val /\ n \notin OldHere
                                   /\ ValuesFor(log[info.base], i) = OldHere \cup {n}
    /\ op.clean /\ pc = "return" /\ ret = "OK" =>
          info.base \in Regions /\ LookupOf(log[info.base], op.key) = op.val

DataInv == LogInv /\ OwnInv /\ PairsInv /\ CleanInv

-----------------------------------------------------------------------------
(* Lemmas about lookups.                                                   *)

\* The lookup of a mounted region, as a function of its entries.
LEMMA LookupIs ==
    ASSUME NEW r, NEW k
    PROVE  Lookup(r, k) = LookupOf(log[r], k) /\ FindKey(r, k) = FirstOf({m \in KeysOf(log[r]) : log[r][m].data = k})
BY ReadsOf DEF Lookup, LookupOf, FindKey

\* A key has a value if and only if a live value with its id follows it.
LEMMA ValuesForType ==
    ASSUME NEW s \in Seq(Entry), NEW i
    PROVE  /\ FindValueOf(s, i) = FirstOf(ValuesFor(s, i))
           /\ ValuesFor(s, i) \in SUBSET (Nat \ {0})
           /\ ValuesFor(s, i) \subseteq ValuesOf(s)
           /\ FindValueOf(s, i) # 0 <=> ValuesFor(s, i) # {}
           /\ FindValueOf(s, i) # 0 => FindValueOf(s, i) \in ValuesFor(s, i)
<1>1. FindValueOf(s, i) = FirstOf(ValuesFor(s, i))
  BY DEF FindValueOf, ValuesFor
<1>2. ValuesFor(s, i) \subseteq ValuesOf(s)
  BY DEF ValuesFor
<1>3. ValuesFor(s, i) \in SUBSET (Nat \ {0})
  BY <1>2, SeqFacts
<1>4. /\ FirstOf(ValuesFor(s, i)) # 0 => FirstOf(ValuesFor(s, i)) \in ValuesFor(s, i)
      /\ \A j \in ValuesFor(s, i) : FirstOf(ValuesFor(s, i)) \in ValuesFor(s, i)
  BY <1>3, FirstOfType
<1> QED
  BY <1>1, <1>2, <1>3, <1>4

\* The first of one.
LEMMA FirstOfOne ==
    ASSUME NEW j \in Nat \ {0}
    PROVE  FirstOf({j}) = j
<1>1. {j} \in SUBSET (Nat \ {0})
  OBVIOUS
<1> QED
  BY <1>1, FirstOfType

\* Reading a key that has an entry.
LEMMA LookupKey ==
    ASSUME NEW s \in Seq(Entry), Distinct(s), NEW i \in KeysOf(s)
    PROVE  LookupOf(s, s[i].data) =
              IF ValuesFor(s, i) = {} THEN Nil ELSE s[FirstOf(ValuesFor(s, i))].data
<1> DEFINE S == {m \in KeysOf(s) : s[m].data = s[i].data}
<1>1. S = {i} /\ i \in Nat \ {0}
  BY SeqFacts DEF Distinct
<1>2. FirstOf(S) = i
  BY <1>1, FirstOfOne
<1>3. i # 0
  BY <1>1
<1> HIDE DEF S
<1> QED
  BY <1>2, <1>3, ValuesForType DEF LookupOf, S

\* Reading a key that has none.
LEMMA LookupFresh ==
    ASSUME NEW s, NEW k, Fresh(s, k)
    PROVE  LookupOf(s, k) = Nil
<1>1. {m \in KeysOf(s) : s[m].data = k} = {}
  BY DEF Fresh
<1> QED
  BY <1>1 DEF LookupOf, FirstOf

\* A parameter reads the same if its key entry and its values are the same.
LEMMA LookupSame ==
    ASSUME NEW s \in Seq(Entry), NEW t \in Seq(Entry), Distinct(s), Distinct(t), NEW k,
           \A i \in KeysOf(s) : s[i].data = k =>
              /\ i \in KeysOf(t) /\ t[i].data = k
              /\ ValuesFor(t, i) # {} <=> ValuesFor(s, i) # {}
              /\ ValuesFor(s, i) # {} =>
                    t[FirstOf(ValuesFor(t, i))].data = s[FirstOf(ValuesFor(s, i))].data,
           \A i \in KeysOf(t) : t[i].data = k => i \in KeysOf(s) /\ s[i].data = k
    PROVE  LookupOf(t, k) = LookupOf(s, k)
<1>1. CASE Fresh(s, k)
  <2>1. Fresh(t, k)
    BY <1>1 DEF Fresh
  <2> QED
    BY <1>1, <2>1, LookupFresh
<1>2. CASE ~Fresh(s, k)
  <2>1. PICK i \in KeysOf(s) : s[i].data = k
    BY <1>2 DEF Fresh
  <2>2. i \in KeysOf(t) /\ t[i].data = k
    BY <2>1
  <2>3. LookupOf(s, k) = IF ValuesFor(s, i) = {} THEN Nil ELSE s[FirstOf(ValuesFor(s, i))].data
    BY <2>1, LookupKey
  <2>4. LookupOf(t, k) = IF ValuesFor(t, i) = {} THEN Nil ELSE t[FirstOf(ValuesFor(t, i))].data
    BY <2>2, LookupKey
  <2> QED
    BY <2>1, <2>3, <2>4
<1> QED
  BY <1>1, <1>2

\* The new region of a finished compaction reads as the old one, except for
\* the key that is being set.
LEMMA LookupCopied ==
    ASSUME NEW s \in Seq(Entry), NEW t \in Seq(Entry), Distinct(s), Distinct(t),
           NEW p, NEW key, CopiedPairs(s, t, p, key),
           \A i \in KeysOf(s) : FindValueOf(s, i) # 0 => i <= p,
           NEW k, k # key
    PROVE  LookupOf(t, k) = LookupOf(s, k)
<1>1. CASE \E i \in CopiedKeys(s, p) : s[i].data = k
  <2>1. PICK i \in CopiedKeys(s, p) : s[i].data = k
    BY <1>1
  <2>2. i \in KeysOf(s) /\ FindValueOf(s, i) # 0
    BY DEF CopiedKeys
  <2>3. PICK m \in KeysOf(t) : /\ t[m].data = k
                               /\ ValuesFor(t, m) # {}
                               /\ t[FindValueOf(t, m)].data = s[FindValueOf(s, i)].data
    BY <2>1 DEF CopiedPairs
  <2>4. LookupOf(t, k) = t[FirstOf(ValuesFor(t, m))].data
    BY <2>3, LookupKey
  <2>5. LookupOf(s, k) = s[FirstOf(ValuesFor(s, i))].data
    BY <2>1, <2>2, LookupKey, ValuesForType
  <2>6. /\ FindValueOf(t, m) = FirstOf(ValuesFor(t, m))
        /\ FindValueOf(s, i) = FirstOf(ValuesFor(s, i))
    BY ValuesForType
  <2> QED
    BY <2>3, <2>4, <2>5, <2>6
<1>2. CASE ~\E i \in CopiedKeys(s, p) : s[i].data = k
  <2>1. Fresh(t, k)
    BY <1>2 DEF Fresh, CopiedPairs
  <2>2. LookupOf(t, k) = Nil
    BY <2>1, LookupFresh
  <2>3. CASE Fresh(s, k)
    BY <2>2, <2>3, LookupFresh
  <2>4. CASE ~Fresh(s, k)
    <3>1. PICK i \in KeysOf(s) : s[i].data = k
      BY <2>4 DEF Fresh
    <3>2. FindValueOf(s, i) = 0
      BY <1>2, <3>1 DEF CopiedKeys
    <3>3. ValuesFor(s, i) = {}
      BY <3>2, ValuesForType
    <3>4. LookupOf(s, k) = Nil
      BY <3>1, <3>3, LookupKey
    <3> QED
      BY <2>2, <3>4
  <2> QED
    BY <2>3, <2>4
<1> QED
  BY <1>1, <1>2

-----------------------------------------------------------------------------
(* Lemmas about the writes to a region.                                    *)

\* What a call in progress knows of the parameters.
ParamInv == OwnInv /\ PairsInv /\ CleanInv

\* Between calls nothing is to be known.
LEMMA ParamQuiet ==
    ASSUME pc' \in Quiet, pc' = "return" => ret' # "OK"
    PROVE  ParamInv'
BY DEF ParamInv, Quiet, OwnInv, PairsInv, CleanInv, MayCompact, Compacting, Setting, BootStates

\* Two keys of a region have different ids, and none has the id 0.
LEMMA IdsDiffer ==
    ASSUME NEW s \in Seq(Entry), Numbered(s)
    PROVE  /\ \A i \in KeysOf(s) : s[i].id # 0 /\ s[i].id <= Cardinality(KeysOf(s))
           /\ \A i, j \in KeysOf(s) : s[i].id = s[j].id => i = j
<1>1. /\ \A i \in KeysOf(s) : s[i].id \in 1 .. Cardinality(KeysOf(s))
      /\ \A i, j \in KeysOf(s) : i < j => s[i].id < s[j].id
  BY LastNumber
<1>2. KeysOf(s) \subseteq Nat /\ Cardinality(KeysOf(s)) \in Nat
  BY SeqFacts, CountKeys
<1>3. \A i, j \in KeysOf(s) : i = j \/ i < j \/ j < i
  BY <1>2
<1>4. \A i \in KeysOf(s) : s[i].id \in Nat /\ s[i].id # 0 /\ s[i].id <= Cardinality(KeysOf(s))
  BY <1>1, <1>2
<1>5. ASSUME NEW i \in KeysOf(s), NEW j \in KeysOf(s), s[i].id = s[j].id PROVE i = j
  BY <1>1, <1>3, <1>4, <1>5
<1> QED
  BY <1>4, <1>5

\* The values of a key depend on the live values and their ids only.
LEMMA ValuesSame ==
    ASSUME NEW s, NEW t, ValuesOf(t) = ValuesOf(s), NEW i, t[i].id = s[i].id,
           \A j \in ValuesOf(s) : t[j].id = s[j].id
    PROVE  ValuesFor(t, i) = ValuesFor(s, i)
BY DEF ValuesFor

\* An entry that is not valid yet adds nothing that can be read.
LEMMA AppendInvalid ==
    ASSUME LogInv, info.base \in Regions, NEW e \in Entry, e.st # "live", AppendEntry(e)
    PROVE  LET s == log[info.base]
               t == log'[info.base]
           IN  /\ KeysOf(t) = KeysOf(s) /\ ValuesOf(t) = ValuesOf(s)
               /\ \A i \in KeysOf(s) \cup ValuesOf(s) : t[i] = s[i]
               /\ \A i \in KeysOf(s) : ValuesFor(t, i) = ValuesFor(s, i)
               /\ LastOf(t) = e
               /\ \A q \in Regions : q # info.base => log'[q] = log[q]
<1> DEFINE s == log[info.base]
           t == log'[info.base]
<1>1. s \in Seq(Entry) /\ log \in [Regions -> Seq(Entry)]
  BY BaseFacts DEF LogInv, TypeInv, TypeOK
<1>2. t = Append(s, e) /\ \A q \in Regions : q # info.base => log'[q] = log[q]
  BY <1>1 DEF AppendEntry
<1>3. /\ KeysOf(t) = KeysOf(s) /\ ValuesOf(t) = ValuesOf(s) /\ LastOf(t) = e
      /\ \A i \in DOMAIN s : t[i] = s[i]
  BY <1>1, <1>2, AppendReads
<1>4. \A i \in KeysOf(s) \cup ValuesOf(s) : t[i] = s[i]
  BY <1>3 DEF KeysOf, ValuesOf
<1> HIDE DEF s, t
<1>5. \A i \in KeysOf(s) : ValuesFor(t, i) = ValuesFor(s, i)
  BY <1>3, <1>4, ValuesSame
<1> QED
  BY <1>2, <1>3, <1>4, <1>5 DEF s, t

\* A valid entry adds itself.
LEMMA ValidateReads ==
    ASSUME LogInv, pc \in {"validateKey", "validateValue"}, Validate, TypeInv'
    PROVE  LET s == log[info.base]
               t == log'[info.base]
               n == Len(s)
           IN  /\ t \in Seq(Entry) /\ n \in Nat \ {0}
               /\ \A i \in KeysOf(s) \cup ValuesOf(s) : i < n /\ i \in Nat /\ t[i] = s[i]
               /\ t[n].id = LastOf(s).id /\ t[n].data = LastOf(s).data
               /\ pc = "validateKey" => KeysOf(t) = KeysOf(s) \cup {n} /\ ValuesOf(t) = ValuesOf(s)
               /\ pc = "validateValue" => KeysOf(t) = KeysOf(s) /\ ValuesOf(t) = ValuesOf(s) \cup {n}
               /\ \A q \in Regions : q # info.base => log'[q] = log[q]
<1> DEFINE s == log[info.base]
           t == log'[info.base]
           n == Len(s)
<1>1. /\ info.base \in Regions /\ s # <<>> /\ LastOf(s).st = "new"
      /\ pc = "validateKey" => LastOf(s).kind = "key"
      /\ pc = "validateValue" => LastOf(s).kind = "value"
  BY DEF LogInv, TypeInv, CallOK, LastInv, Setting
<1>2. /\ s \in Seq(Entry) /\ log \in [Regions -> Seq(Entry)] /\ t \in Seq(Entry)
  BY <1>1, BaseFacts DEF LogInv, TypeInv, TypeOK
<1>3. t = [s EXCEPT ![n].st = "live"] /\ \A q \in Regions : q # info.base => log'[q] = log[q]
  BY <1>1, <1>2 DEF Validate
<1>4. n \in Nat /\ n >= 1 /\ DOMAIN s = 1 .. n /\ DOMAIN t = DOMAIN s /\ s[n] \in EntryRecord
  BY <1>1, <1>2, <1>3, SeqFacts
<1>5. /\ \A i \in DOMAIN s : i # n => t[i] = s[i]
      /\ t[n] = [s[n] EXCEPT !.st = "live"]
  BY <1>3, <1>4
<1>6. t[n].st = "live" /\ t[n].kind = s[n].kind /\ t[n].id = s[n].id /\ t[n].data = s[n].data
  BY <1>4, <1>5 DEF EntryRecord
<1>7. LastOf(s) = s[n]
  BY DEF LastOf
<1> HIDE DEF s, t, n
<1>8. n \notin KeysOf(s) /\ n \notin ValuesOf(s)
  BY <1>1, <1>7 DEF KeysOf, ValuesOf
<1>9. \A i \in KeysOf(s) \cup ValuesOf(s) : i \in DOMAIN s /\ i # n
  BY <1>8 DEF KeysOf, ValuesOf
<1>10. \A i \in KeysOf(s) \cup ValuesOf(s) : i < n /\ i \in Nat /\ t[i] = s[i]
  BY <1>4, <1>5, <1>9
<1>11. /\ n \in DOMAIN s /\ DOMAIN t = DOMAIN s /\ \A i \in DOMAIN s : i # n => t[i] = s[i]
       /\ t[n].st = "live" /\ s[n].st # "live"
       /\ pc = "validateKey" => t[n].kind = "key"
       /\ pc = "validateValue" => t[n].kind = "value"
  BY <1>1, <1>4, <1>5, <1>6, <1>7
<1>12. pc = "validateKey" => KeysOf(t) = KeysOf(s) \cup {n} /\ ValuesOf(t) = ValuesOf(s)
  BY <1>11 DEF KeysOf, ValuesOf
<1>13. pc = "validateValue" => KeysOf(t) = KeysOf(s) /\ ValuesOf(t) = ValuesOf(s) \cup {n}
  BY <1>11 DEF KeysOf, ValuesOf
<1>14. n \in Nat \ {0}
  BY <1>4
<1> QED
  BY <1>2, <1>3, <1>6, <1>7, <1>10, <1>12, <1>13, <1>14 DEF s, t, n

\* Of the values of the region in use, a delete takes the old one.
LEMMA DeleteReads ==
    ASSUME LogInv, pc = "delete", MarkDeleted, TypeInv'
    PROVE  LET s == log[info.base]
               t == log'[info.base]
           IN  /\ t \in Seq(Entry) /\ info.base \in Regions
               /\ KeysOf(t) = KeysOf(s) /\ ValuesOf(t) = ValuesOf(s) \ OldHere
               /\ \A i \in KeysOf(t) \cup ValuesOf(t) : t[i] = s[i]
<1> DEFINE s == log[info.base]
           t == log'[info.base]
           p == old.pos
<1>1. /\ info.base \in Regions /\ old.region \in Regions /\ p \in Nat
      /\ log \in [Regions -> Seq(Entry)] /\ s \in Seq(Entry) /\ t \in Seq(Entry)
      /\ p # 0 => p \in ValuesOf(log[old.region])
  BY DEF LogInv, TypeInv, TypeOK, CallOK, CallInv
<1>2. CASE old.region # info.base \/ p = 0
  <2>1. t = s
    <3>1. CASE old.region # info.base
      BY <1>1, <3>1 DEF MarkDeleted
    <3>2. CASE old.region = info.base /\ p = 0
      <4>1. t = [s EXCEPT ![p] = Deleted(s[p])] /\ p \notin DOMAIN s
        BY <1>1, <3>2, SeqFacts DEF MarkDeleted
      <4>2. DOMAIN t = DOMAIN s /\ \A i \in DOMAIN s : t[i] = s[i]
        BY <4>1
      <4> HIDE DEF s, t
      <4> QED
        BY <1>1, <4>2
    <3> QED
      BY <1>2, <3>1, <3>2
  <2>2. OldHere = {}
    BY <1>2 DEF OldHere
  <2> QED
    BY <1>1, <2>1, <2>2
<1>3. CASE old.region = info.base /\ p # 0
  <2>1. OldHere = {p}
    BY <1>3 DEF OldHere
  <2>2. t = [s EXCEPT ![p] = Deleted(s[p])] /\ p \in ValuesOf(s)
    BY <1>1, <1>3 DEF MarkDeleted
  <2>3. p \in DOMAIN s /\ s[p].kind = "value" /\ s[p] \in EntryRecord
    BY <1>1, <2>2, SeqFacts DEF ValuesOf
  <2>4. DOMAIN t = DOMAIN s /\ t[p] = Deleted(s[p]) /\ \A i \in DOMAIN s : i # p => t[i] = s[i]
    BY <2>2, <2>3
  <2>5. t[p].kind = "value" /\ t[p].st = "dead"
    BY <2>3, <2>4 DEF Deleted, EntryRecord
  <2> HIDE DEF s, t, p
  <2>6. KeysOf(t) = KeysOf(s) /\ ValuesOf(t) = ValuesOf(s) \ {p}
    BY <2>3, <2>4, <2>5 DEF KeysOf, ValuesOf
  <2>7. \A i \in KeysOf(t) \cup ValuesOf(t) : t[i] = s[i]
    BY <2>3, <2>4, <2>5 DEF KeysOf, ValuesOf
  <2> QED
    BY <1>1, <2>1, <2>6, <2>7 DEF s, t
<1> QED
  BY <1>2, <1>3

-----------------------------------------------------------------------------
(* The invariant holds: the beginning of a call.                           *)

\* The lookup that begins a set finds the key, its id and its value.
LEMMA ParamSetData ==
    ASSUME DataInv, NEW k \in Keys, NEW v \in Values \cup {Nil}, SetData(k, v)
    PROVE  ParamInv'
<1> DEFINE s == log[info.base]
           i == FindKey(info.base, k)
           j == IF i = 0 THEN 0 ELSE FindValueOf(s, i)
<1>1. info.base \in Regions /\ pc = "idle" /\ TypeOK /\ LogInv
  BY DEF SetData, DataInv, LogInv, TypeInv, CallOK
<1>2. s \in Seq(Entry) /\ Numbered(s) /\ Distinct(s)
  BY <1>1, BaseFacts
<1>3. /\ UNCHANGED <<log, info>> /\ op'.key = k /\ op'.val = v
      /\ keyId' = IF i = 0 THEN 0 ELSE s[i].id
      /\ old'.region = info.base /\ old'.pos = j
      /\ op'.clean = CleanKey(info.base, k)
      /\ \/ pc' = "return" /\ ret' # "OK"
         \/ pc' = "delete" /\ v = Nil /\ j # 0
         \/ pc' = "return" /\ v # Nil /\ j # 0 /\ s[j].data = v
         \/ pc' = "space"
  BY ReadsOf DEF SetData, Finish, flash
<1>4. /\ i # 0 => i \in KeysOf(s) /\ s[i].data = k
      /\ i = 0 => Fresh(s, k)
  <2> DEFINE S == {m \in KeysOf(s) : s[m].data = k}
  <2>1. i = FirstOf(S)
    BY LookupIs
  <2>2. S \in SUBSET (Nat \ {0})
    BY <1>2, SeqFacts
  <2>3. i # 0 => i \in S
    BY <2>1, <2>2, FirstOfType
  <2>4. i = 0 => Fresh(s, k)
    BY <1>1, FindKeyFresh
  <2> QED
    BY <2>3, <2>4
<1>5. \A m \in KeysOf(s) : s[m].id # 0 /\ (i # 0 /\ s[m].id = s[i].id => m = i)
  BY <1>2, <1>4, IdsDiffer
<1>6. j # 0 => i # 0 /\ j \in ValuesFor(s, i) /\ s[j].id = s[i].id
  BY <1>2, ValuesForType DEF ValuesFor
<1>7. i # 0 /\ op'.clean => j # 0 /\ ValuesFor(s, i) = {j}
  <2> SUFFICES ASSUME i # 0, op'.clean PROVE j # 0 /\ ValuesFor(s, i) = {j}
    OBVIOUS
  <2>1. Cardinality(ValuesFor(s, i)) = 1
    BY <1>3, ReadsOf DEF CleanKey, ValuesFor
  <2>2. IsFiniteSet(ValuesFor(s, i))
    BY <1>2, ValuesForType, CountKeys, FS_Subset
  <2>3. PICK x : ValuesFor(s, i) = {x}
    BY <2>1, <2>2, FS_Singleton
  <2>4. x \in Nat \ {0} /\ ValuesFor(s, i) # {}
    BY <1>2, <2>3, ValuesForType
  <2>5. FindValueOf(s, i) # 0 /\ FindValueOf(s, i) \in ValuesFor(s, i)
    BY <1>2, <2>4, ValuesForType
  <2> QED
    BY <2>3, <2>5
<1> HIDE DEF s, i, j
<1>8. log'[info'.base] = s /\ info'.base = info.base
  BY <1>3 DEF s
<1>9. CASE pc' = "return" /\ ret' # "OK"
  BY <1>9, ParamQuiet DEF Quiet
<1>10. CASE pc' = "return" /\ v # Nil /\ j # 0 /\ s[j].data = v
  <2>1. LookupOf(s, k) = s[j].data
    <3>1. i = FirstOf({m \in KeysOf(s) : s[m].data = k})
      BY LookupIs DEF s, i
    <3> QED
      BY <1>6, <1>10, <3>1 DEF LookupOf, j
  <2>2. CleanInv'
    BY <1>1, <1>3, <1>8, <1>10, <2>1 DEF CleanInv, MayCompact, Compacting, Setting
  <2> QED
    BY <1>10, <2>2 DEF ParamInv, OwnInv, PairsInv, MayCompact, Compacting, Setting
<1>11. CASE pc' = "delete" /\ v = Nil /\ j # 0
  <2>1. OwnInv'
    BY <1>3, <1>4, <1>5, <1>6, <1>8, <1>11 DEF OwnInv, MayCompact, Compacting, Setting
  <2>2. CleanInv'
    BY <1>3, <1>4, <1>6, <1>7, <1>8, <1>11 DEF CleanInv, MayCompact, Compacting, Setting
  <2> QED
    BY <1>11, <2>1, <2>2 DEF ParamInv, PairsInv
<1>12. CASE pc' = "space"
  <2>1. OwnInv'
    BY <1>3, <1>4, <1>5, <1>6, <1>8, <1>12 DEF OwnInv, MayCompact, Compacting, Setting, CopyPos
  <2>2. op'.clean /\ keyId' # 0 => HasKey(s, k, keyId', {j}) /\ j # 0
    BY <1>3, <1>4, <1>7 DEF HasKey
  <2>3. j # 0 => OldHere' = {j}
    BY <1>3, <1>8 DEF OldHere
  <2>4. keyId' = 0 => j = 0
    BY <1>3, <1>4, <1>5, <1>6
  <2>5. CleanInv'
    BY <1>3, <1>8, <1>12, <2>2, <2>3, <2>4 DEF CleanInv, MayCompact, Compacting, Setting
  <2> QED
    BY <1>12, <2>1, <2>5 DEF ParamInv, PairsInv
<1> QED
  BY <1>3, <1>9, <1>10, <1>11, <1>12

\* The checks between the lookup and the first write.
LEMMA ParamCheck ==
    ASSUME DataInv, Check
    PROVE  ParamInv'
<1>1. /\ UNCHANGED <<log, op, keyId, old>> /\ info'.base = info.base
      /\ pc \in {"space", "full", "ids", "force"} /\ info.base \in Regions
  BY DEF Check, CheckSpace, CheckFull, CheckIds, CheckForce, flash, DataInv, LogInv, TypeInv,
         TypeOK, CallOK, Setting
<1>2. \/ pc' = "return" /\ ret' # "OK"
      \/ pc' \in {"ids", "force", "write", "format"}
  BY DEF Check, CheckSpace, CheckFull, CheckIds, CheckForce, Finish, StartCompaction
<1>3. CASE pc' = "return" /\ ret' # "OK"
  BY <1>3, ParamQuiet DEF Quiet
<1>4. CASE pc' \in {"ids", "force", "write", "format"}
  <2>1. MayCompact' => MayCompact \/ keyId = 0
    <3>1. CASE CheckSpace
      BY <3>1 DEF CheckSpace, MayCompact
    <3>2. CASE CheckFull
      BY <1>4, <3>2 DEF CheckFull, Finish, MayCompact, Compacting, DataInv, OwnInv
    <3>3. CASE CheckIds
      BY <1>4, <3>3 DEF CheckIds, MayCompact, Compacting
    <3>4. CASE CheckForce
      BY <1>4, <3>4 DEF CheckForce, MayCompact, Compacting
    <3> QED
      BY <3>1, <3>2, <3>3, <3>4 DEF Check
  <2>2. \A i \in KeysOf(log[info.base]) : log[info.base][i].id # 0
    BY <1>1, BaseFacts, IdsDiffer DEF DataInv
  <2>3. CopyPos = 0 /\ CopyPos' = 0 /\ OldHere' = OldHere /\ ~Compacting
    BY <1>1, <1>4 DEF CopyPos, OldHere, Compacting
  <2>4. OwnInv'
    BY <1>1, <1>4, <2>1, <2>2, <2>3 DEF DataInv, OwnInv, Setting, Compacting
  <2>5. CleanInv'
    BY <1>1, <1>4, <2>1, <2>3 DEF DataInv, CleanInv, Setting
  <2> QED
    BY <1>4, <2>4, <2>5 DEF ParamInv, PairsInv
<1> QED
  BY <1>2, <1>3, <1>4

-----------------------------------------------------------------------------
(* The invariant holds: _compact_params.                                   *)

\* The erased region holds no pair.
LEMMA ParamFormat ==
    ASSUME DataInv, CompactFormat
    PROVE  ParamInv'
<1> DEFINE s == log[info.base]
<1>1. /\ pc = "format" /\ pc' = "copy" /\ UNCHANGED <<info, op, keyId, old, copy>>
      /\ info.base \in Regions /\ LogInv /\ log \in [Regions -> Seq(Entry)]
  BY DEF CompactFormat, call, DataInv, LogInv, TypeInv, TypeOK, CallOK, Setting
<1>2. Other(info.base) \in Regions /\ Other(info.base) # info.base /\ s \in Seq(Entry)
  BY <1>1, BaseFacts
<1>3. log'[info.base] = s /\ log'[Other(info.base)] = <<>>
  BY <1>1, <1>2 DEF CompactFormat, Format
<1>4. copy.pos = 0
  BY <1>1 DEF LogInv, CopyInv
<1>5. MayCompact /\ CopyPos = 0 /\ CopyPos' = 0
  BY <1>1, <1>4 DEF MayCompact, Compacting, CopyPos
<1>6. log'[info'.base] = s
  BY <1>1, <1>3
<1>7. OwnInv'
  BY <1>1, <1>5, <1>6 DEF DataInv, OwnInv, Compacting, Setting
<1>8. PairsInv'
  <2>1. CopiedKeys(s, 0) = {} /\ KeysOf(<<>>) = {}
    BY <1>2, SeqFacts, GoodEmpty DEF CopiedKeys
  <2>2. CopiedPairs(s, <<>>, 0, op.key)
    BY <2>1 DEF CopiedPairs
  <2> QED
    BY <1>1, <1>3, <1>4, <2>2 DEF PairsInv
<1>9. ASSUME op.clean, keyId # 0
      PROVE  \E i \in KeysOf(s) : /\ s[i].data = op.key /\ FindValueOf(s, i) # 0
                                  /\ s[i].id = keyId /\ i > 0
  <2>1. old.pos # 0 /\ old.region = info.base
    BY <1>1, <1>5, <1>9 DEF DataInv, CleanInv, LogInv, CallInv, Setting
  <2>2. OldHere # {}
    BY <2>1 DEF OldHere
  <2>3. HasKey(s, op.key, keyId, OldHere)
    BY <1>1, <1>9 DEF DataInv, CleanInv, Setting
  <2>4. PICK i \in KeysOf(s) : s[i].data = op.key /\ s[i].id = keyId /\ ValuesFor(s, i) = OldHere
    BY <2>3 DEF HasKey
  <2>5. FindValueOf(s, i) # 0
    BY <1>2, <2>2, <2>4, ValuesForType
  <2>6. i > 0
    BY <1>2, <2>4, SeqFacts
  <2> QED
    BY <2>4, <2>5, <2>6
<1>10. CleanInv'
  <2>1. keyId = 0 => old.pos = 0
    BY <1>1 DEF DataInv, CleanInv, Setting
  <2>2. op.clean /\ keyId # 0 =>
          \E i \in KeysOf(s) : /\ s[i].data = op.key /\ FindValueOf(s, i) # 0
                               /\ i > copy.pos => s[i].id = keyId
                               /\ i <= copy.pos => HasKey(log'[Other(info.base)], op.key, keyId, {})
    <3> SUFFICES ASSUME op.clean, keyId # 0
                 PROVE  \E i \in KeysOf(s) :
                           /\ s[i].data = op.key /\ FindValueOf(s, i) # 0
                           /\ i > copy.pos => s[i].id = keyId
                           /\ i <= copy.pos => HasKey(log'[Other(info.base)], op.key, keyId, {})
      OBVIOUS
    <3>1. PICK i \in KeysOf(s) : /\ s[i].data = op.key /\ FindValueOf(s, i) # 0
                                 /\ s[i].id = keyId /\ i > 0
      BY <1>9
    <3>2. ~(i <= 0)
      BY <1>2, <3>1, SeqFacts
    <3> QED
      BY <1>4, <3>1, <3>2
  <2> QED
    BY <1>1, <1>6, <2>1, <2>2 DEF CleanInv, Setting
<1> QED
  BY <1>7, <1>8, <1>10 DEF ParamInv

\* With no pair left to copy, all of them are in the new region.
LEMMA ParamActivate ==
    ASSUME DataInv, CompactActivate
    PROVE  ParamInv'
<1> DEFINE s == log[info.base]
<1>1. /\ pc = "copy" /\ pc' = "retire" /\ UNCHANGED <<log, info, op, keyId, old, copy>>
      /\ RemainingPairs = {} /\ info.base \in Regions /\ LogInv /\ copy.pos \in Nat
  BY DEF CompactActivate, call, DataInv, LogInv, TypeInv, TypeOK, CallOK, Setting
<1>2. CopyPos = copy.pos /\ CopyPos' = copy.pos /\ MayCompact
  BY <1>1 DEF CopyPos, MayCompact, Compacting
<1>3. OwnInv'
  BY <1>1, <1>2 DEF DataInv, OwnInv, Compacting, Setting
<1>4. \A i \in KeysOf(s) : FindValueOf(s, i) # 0 => i <= copy.pos
  <2>1. \A i \in KeysOf(s) : ~(i > copy.pos /\ FindValueOf(s, i) # 0)
    BY <1>1, ReadsOf DEF RemainingPairs
  <2>2. KeysOf(s) \subseteq Nat
    BY <1>1, BaseFacts, SeqFacts
  <2> QED
    BY <1>1, <2>1, <2>2
<1>5. PairsInv'
  BY <1>1, <1>4 DEF DataInv, PairsInv
<1>6. CleanInv'
  BY <1>1 DEF DataInv, CleanInv, Setting
<1> QED
  BY <1>3, <1>5, <1>6 DEF ParamInv

\* The region that is used from now on has a value for each of its keys, but
\* for the one that is being set.
LEMMA ParamRetire ==
    ASSUME DataInv, CompactRetire
    PROVE  ParamInv'
<1> DEFINE s == log[info.base]
           t == log[Other(info.base)]
<1>1. /\ pc = "retire" /\ UNCHANGED <<op, keyId>> /\ info'.base = Other(info.base)
      /\ ~info'.force /\ pc' \in {"full", "force", "write"}
      /\ old' = old \/ old'.pos = 0
      /\ info.base \in Regions /\ LogInv
  BY DEF CompactRetire, NoOld, DataInv, LogInv, TypeInv, CallOK, Setting
<1>2. /\ Other(info.base) # info.base /\ s \in Seq(Entry) /\ t \in Seq(Entry) /\ GoodLog(t)
      /\ log'[Other(info.base)] = t
  <2>1. log' = Sealed(info.left) /\ info.left \in Nat /\ info.left <= info.left
    BY DEF CompactRetire, DataInv, LogInv, TypeInv, TypeOK
  <2>2. Other(info.base) \in Regions /\ Other(info.base) # info.base
    BY <1>1 DEF Other, Regions
  <2> QED
    BY <1>1, <2>1, <2>2, BaseFacts, LogSeal
<1>3. CopiedPairs(s, t, copy.pos, op.key)
      /\ \A i \in KeysOf(s) : FindValueOf(s, i) # 0 => i <= copy.pos
  BY <1>1 DEF DataInv, PairsInv
<1>4. ASSUME NEW m \in KeysOf(t), t[m].data # op.key
      PROVE  ValuesFor(t, m) # {}
  <2>1. PICK i \in CopiedKeys(s, copy.pos) : t[m].data = s[i].data
    BY <1>3 DEF CopiedPairs
  <2>2. PICK n \in KeysOf(t) : t[n].data = s[i].data /\ ValuesFor(t, n) # {}
    BY <1>3, <1>4, <2>1 DEF CopiedPairs
  <2>3. m = n
    BY <1>2, <2>1, <2>2 DEF GoodLog, Distinct
  <2> QED
    BY <2>2, <2>3
<1>5. old.pos # 0 => old.region = info.base
  BY <1>1 DEF LogInv, CallInv, Setting
<1>6. old'.pos # 0 => old'.region # info'.base
  BY <1>1, <1>2, <1>5
<1>7. OldHere' = {} /\ ~MayCompact' /\ log'[info'.base] = t
  BY <1>1, <1>2, <1>6 DEF OldHere, MayCompact, Compacting
<1>8. OwnInv'
  BY <1>1, <1>4, <1>6, <1>7 DEF OwnInv
<1>9. keyId = 0 => old'.pos = 0
  BY <1>1 DEF DataInv, CleanInv, Setting
<1>10. op.clean /\ keyId # 0 => HasKey(t, op.key, keyId, {})
  <2> SUFFICES ASSUME op.clean, keyId # 0 PROVE HasKey(t, op.key, keyId, {})
    OBVIOUS
  <2>1. PICK i \in KeysOf(s) : /\ FindValueOf(s, i) # 0
                               /\ i <= copy.pos => HasKey(t, op.key, keyId, {})
    BY <1>1 DEF DataInv, CleanInv
  <2> QED
    BY <1>3, <2>1
<1>11. CleanInv'
  BY <1>1, <1>7, <1>9, <1>10 DEF CleanInv, Setting
<1> QED
  BY <1>1, <1>8, <1>11 DEF ParamInv, PairsInv

\* The key e, at position n, is all that u has and t has not; its values are V.
KeyAdded(t, u, n, e, V) ==
    /\ u \in Seq(Entry) /\ KeysOf(u) = KeysOf(t) \cup {n} /\ u[n] = e
    /\ \A m \in KeysOf(t) \cup ValuesOf(t) : u[m] = t[m]
    /\ \A m \in KeysOf(t) : ValuesFor(u, m) = ValuesFor(t, m)
    /\ ValuesFor(u, n) = V

\* A pair, or a key alone, with an id that no key of t has, behind all of t.
LEMMA PairReads ==
    ASSUME NEW t \in Seq(Entry), Numbered(t), NEW id \in Nat, id > Cardinality(KeysOf(t)),
           NEW e \in Entry, e.kind = "key", e.st = "live", e.id = id,
           NEW f \in Entry, f.kind = "value", f.st = "live", f.id = id
    PROVE  LET n == Len(t) + 1
               t1 == Append(t, e)
               t2 == Append(t1, f)
           IN  /\ KeyAdded(t, t1, n, e, {})
               /\ KeyAdded(t, t2, n, e, {n + 1}) /\ t2[n + 1] = f
<1> DEFINE n == Len(t) + 1
           t1 == Append(t, e)
           t2 == Append(t1, f)
<1>1. /\ t1 \in Seq(Entry) /\ Len(t1) = n /\ t1[n] = e
      /\ \A m \in DOMAIN t : m \in DOMAIN t1 /\ t1[m] = t[m]
      /\ KeysOf(t1) = KeysOf(t) \cup {n} /\ ValuesOf(t1) = ValuesOf(t)
      /\ DOMAIN t1 = 1 .. n /\ n \in Nat
  BY AppendReads, SeqFacts
<1> HIDE DEF t1
<1>2. /\ t2 \in Seq(Entry) /\ t2[n + 1] = f
      /\ \A m \in DOMAIN t1 : t2[m] = t1[m]
      /\ KeysOf(t2) = KeysOf(t1) /\ ValuesOf(t2) = ValuesOf(t1) \cup {n + 1}
  BY <1>1, AppendReads
<1> HIDE DEF t2
<1>3. n \in DOMAIN t1 /\ t2[n] = e
  BY <1>1, <1>2, SeqFacts
<1>4. \A m \in KeysOf(t) \cup ValuesOf(t) : m \in DOMAIN t /\ m \in Nat /\ m < n
  BY SeqFacts
<1>5. \A m \in KeysOf(t) \cup ValuesOf(t) : t1[m] = t[m] /\ t2[m] = t[m]
  BY <1>1, <1>2, <1>4
<1>6. \A m \in KeysOf(t) : t[m].id # id
  <2>1. \A m \in KeysOf(t) : t[m].id \in Nat /\ t[m].id <= Cardinality(KeysOf(t))
    BY <1>4, IdsDiffer, SeqFacts
  <2>2. Cardinality(KeysOf(t)) \in Nat
    BY CountKeys
  <2> QED
    BY <2>1, <2>2
<1>7. \A m \in KeysOf(t) : ValuesFor(t1, m) = ValuesFor(t, m)
  BY <1>1, <1>5, ValuesSame
<1>8. ASSUME NEW m \in KeysOf(t) PROVE ValuesFor(t2, m) = ValuesFor(t, m)
  <2>1. ValuesFor(t2, m) = {x \in ValuesOf(t) \cup {n + 1} : x > m /\ t2[x].id = t[m].id}
    BY <1>1, <1>2, <1>5 DEF ValuesFor
  <2>2. t2[n + 1].id # t[m].id
    BY <1>2, <1>6
  <2>3. \A x \in ValuesOf(t) : t2[x].id = t[x].id
    BY <1>5
  <2> HIDE DEF n
  <2> QED
    BY <2>1, <2>2, <2>3 DEF ValuesFor
<1>9. ValuesFor(t1, n) = {}
  BY <1>1, <1>4 DEF ValuesFor
<1>10. ValuesFor(t2, n) = {n + 1}
  <2>1. ValuesFor(t2, n) = {x \in ValuesOf(t) \cup {n + 1} : x > n /\ t2[x].id = id}
    BY <1>1, <1>2, <1>3 DEF ValuesFor
  <2>2. n + 1 > n /\ t2[n + 1].id = id
    BY <1>1, <1>2
  <2>3. \A x \in ValuesOf(t) : ~(x > n)
    BY <1>1, <1>4
  <2> HIDE DEF n
  <2> QED
    BY <2>1, <2>2, <2>3
<1> QED
  BY <1>1, <1>2, <1>3, <1>5, <1>7, <1>8, <1>9, <1>10 DEF t1, t2, KeyAdded

\* A key is copied with a number that is not larger than the one it had.
LEMMA CopyNumber ==
    ASSUME NEW s \in Seq(Entry), GoodLog(s), NEW i \in KeysOf(s)
    PROVE  /\ Cardinality(CopiedKeys(s, i)) \in Nat
           /\ Cardinality(CopiedKeys(s, i)) <= s[i].id
<1>1. s[i].id = Cardinality({j \in KeysOf(s) : j <= i})
  BY DEF GoodLog, Numbered
<1>2. CopiedKeys(s, i) \in SUBSET {j \in KeysOf(s) : j <= i}
  BY DEF CopiedKeys
<1>3. IsFiniteSet({j \in KeysOf(s) : j <= i})
  BY CountKeys, FS_Subset
<1>4. /\ IsFiniteSet(CopiedKeys(s, i))
      /\ Cardinality(CopiedKeys(s, i)) <= Cardinality({j \in KeysOf(s) : j <= i})
  BY <1>2, <1>3, FS_Subset
<1> QED
  BY <1>1, <1>4, FS_CardinalityType

\* The step that copies a pair, or the key that is being set.
LEMMA CopyStep ==
    ASSUME DataInv, CompactCopy
    PROVE  LET s == log[info.base]
               t == log[Other(info.base)]
               u == log'[Other(info.base)]
               i == FirstOf(RemainingPairs)
               n == Len(t) + 1
           IN  /\ pc = "copy" /\ pc' = "copy" /\ UNCHANGED <<info, op, old>> /\ info.base \in Regions
               /\ s \in Seq(Entry) /\ GoodLog(s) /\ log'[info.base] = s /\ LogInv
               /\ i \in KeysOf(s) /\ i > copy.pos /\ FindValueOf(s, i) # 0 /\ i \in Nat
               /\ \A k \in KeysOf(s) : k > copy.pos /\ FindValueOf(s, k) # 0 => i <= k
               /\ CopiedKeys(s, i) = CopiedKeys(s, copy.pos) \cup {i}
               /\ copy.pos \in Nat /\ copy'.pos = i
               /\ copy.id + 1 \in Nat /\ copy.id + 1 # 0 /\ copy.id + 1 <= s[i].id
               /\ t \in Seq(Entry) /\ u \in Seq(Entry) /\ KeysOf(u) = KeysOf(t) \cup {n}
               /\ \A m \in KeysOf(t) \cup ValuesOf(t) : u[m] = t[m]
               /\ \A m \in KeysOf(t) : ValuesFor(u, m) = ValuesFor(t, m)
               /\ u[n].data = s[i].data /\ u[n].id = copy.id + 1
               /\ \/ s[i].id = keyId /\ keyId' = copy.id + 1 /\ ValuesFor(u, n) = {}
                  \/ /\ s[i].id # keyId /\ keyId' = keyId /\ ValuesFor(u, n) = {n + 1}
                     /\ u[n + 1].data = s[FindValueOf(s, i)].data
<1> DEFINE s == log[info.base]
           t == log[Other(info.base)]
           u == log'[Other(info.base)]
           i == FirstOf(RemainingPairs)
           j == FindValueOf(s, i)
           n == Len(t) + 1
           id == copy.id + 1
           key == KeyEntry(EndOf(t), id, s[i].data, "live")
           val == ValueEntry(key.addr + key.size, id, s[j].data, "live")
<1>1. /\ pc = "copy" /\ pc' = "copy" /\ RemainingPairs # {} /\ UNCHANGED <<info, op, old>>
      /\ info.base \in Regions /\ LogInv /\ TypeOK /\ log \in [Regions -> Seq(Entry)]
      /\ copy.pos \in Nat /\ copy.id \in Nat
  BY DEF CompactCopy, DataInv, LogInv, TypeInv, TypeOK, CallOK, Setting
<1>2. /\ s \in Seq(Entry) /\ GoodLog(s) /\ t \in Seq(Entry) /\ GoodLog(t) /\ Numbered(t)
      /\ Other(info.base) # info.base /\ Other(info.base) \in Regions
  BY <1>1, BaseFacts DEF GoodLog
<1>3. /\ i \in KeysOf(s) /\ i > copy.pos /\ j # 0 /\ i \in Nat
      /\ \A k \in KeysOf(s) : k > copy.pos /\ FindValueOf(s, k) # 0 => i <= k
  BY <1>1, NextPair
<1>4. CopiedKeys(s, i) = CopiedKeys(s, copy.pos) \cup {i}
  <2>1. /\ s \in Seq(Entry) /\ GoodLog(s) /\ copy.pos \in Nat /\ i \in KeysOf(s) /\ i > copy.pos
        /\ FindValueOf(s, i) # 0
        /\ \A k \in KeysOf(s) : k > copy.pos /\ FindValueOf(s, k) # 0 => i <= k
    BY <1>1, <1>2, <1>3
  <2> HIDE DEF s, i
  <2> QED
    BY <2>1, CopiedNext
<1>5. Cardinality(CopiedKeys(s, i)) = id /\ EndOf(t) \in Nat
  BY <1>1, CopyRoom
<1>6. id \in Nat /\ id # 0 /\ id <= s[i].id
  BY <1>1, <1>2, <1>3, <1>5, CopyNumber
<1>7. Cardinality(KeysOf(t)) = copy.id
  BY <1>1 DEF LogInv, CopyInv
<1>8. id > Cardinality(KeysOf(t))
  BY <1>1, <1>7
<1>9. /\ copy'.pos = i
      /\ \/ s[i].id = keyId /\ keyId' = id /\ log' = [log EXCEPT ![Other(info.base)] = Append(t, key)]
         \/ s[i].id # keyId /\ keyId' = keyId /\ log' = [log EXCEPT ![Other(info.base)] = t \o <<key, val>>]
  <2>1. ScanEnd(Other(info.base)) = EndOf(t) /\ FindValue(info.base, i) = j
    BY ReadsOf
  <2>2. copy' = [copy EXCEPT !.pos = i, !.id = id] /\ copy \in [pos : Nat, id : Nat, then : {"idle", "full", "force", "write"}]
    BY <1>1 DEF CompactCopy, TypeOK
  <2>3. copy'.pos = i
    BY <2>2
  <2> HIDE DEF i
  <2>4. \/ s[i].id = keyId /\ keyId' = id /\ log' = [log EXCEPT ![Other(info.base)] = Append(t, key)]
        \/ s[i].id # keyId /\ keyId' = keyId /\ log' = [log EXCEPT ![Other(info.base)] = t \o <<key, val>>]
    BY <1>1, <1>2, <2>1 DEF CompactCopy, i
  <2> QED
    BY <2>3, <2>4
<1>10. s[i].data \in Keys /\ s[j].data \in Values
  <2>1. i \in KeysOf(s) /\ j \in ValuesOf(s)
    BY <1>2, <1>3, FindFacts
  <2>2. i \in LiveKeys(info.base) /\ j \in LiveValues(info.base)
    BY <2>1, ReadsOf
  <2> QED
    BY <1>1, <2>2, ScanType
<1>11. /\ key \in Entry /\ key.kind = "key" /\ key.st = "live" /\ key.id = id /\ key.data = s[i].data
       /\ key.addr + key.size \in Nat
  BY <1>5, <1>6, <1>10, NewEntryType DEF KeyEntry
<1>12. val \in Entry /\ val.kind = "value" /\ val.st = "live" /\ val.id = id /\ val.data = s[j].data
  BY <1>6, <1>10, <1>11, NewEntryType DEF ValueEntry
<1> HIDE DEF i, j, key, val, id
<1> DEFINE t1 == Append(t, key)
           t2 == Append(t1, val)
<1>13. KeyAdded(t, t1, n, key, {}) /\ KeyAdded(t, t2, n, key, {n + 1}) /\ t2[n + 1] = val
  <2> HIDE DEF t
  <2>1. /\ t \in Seq(Entry) /\ Numbered(t) /\ id \in Nat /\ id > Cardinality(KeysOf(t))
        /\ key \in Entry /\ key.kind = "key" /\ key.st = "live" /\ key.id = id
        /\ val \in Entry /\ val.kind = "value" /\ val.st = "live" /\ val.id = id
    BY <1>2, <1>6, <1>8, <1>11, <1>12
  <2> QED
    BY <2>1, PairReads
<1>14. /\ log'[info.base] = s
       /\ \/ s[i].id = keyId /\ keyId' = id /\ u = t1
          \/ s[i].id # keyId /\ keyId' = keyId /\ u = t2
  <2>1. t \o <<key, val>> = t2
    BY <1>2, <1>11, <1>12, PairAppend
  <2>2. log'[info.base] = s
    BY <1>1, <1>2, <1>9
  <2> HIDE DEF t2
  <2>3. \/ s[i].id = keyId /\ keyId' = id /\ u = t1
        \/ s[i].id # keyId /\ keyId' = keyId /\ u = t2
    BY <1>1, <1>2, <1>9, <2>1
  <2> QED
    BY <2>2, <2>3
<1> HIDE DEF s, t, u, t1, t2, n
<1>15. CASE s[i].id = keyId /\ keyId' = id /\ u = t1
  BY <1>1, <1>2, <1>3, <1>4, <1>6, <1>9, <1>11, <1>13, <1>14, <1>15
     DEF s, t, u, n, i, j, id, KeyAdded
<1>16. CASE s[i].id # keyId /\ keyId' = keyId /\ u = t2
  BY <1>1, <1>2, <1>3, <1>4, <1>6, <1>9, <1>11, <1>12, <1>13, <1>14, <1>16
     DEF s, t, u, n, i, j, id, KeyAdded
<1> QED
  BY <1>14, <1>15, <1>16

\* Copying keeps what is known of the pairs and of the key that is being set.
LEMMA ParamCopy ==
    ASSUME DataInv, CompactCopy
    PROVE  ParamInv'
<1> DEFINE s == log[info.base]
           t == log[Other(info.base)]
           u == log'[Other(info.base)]
           i == FirstOf(RemainingPairs)
           n == Len(t) + 1
           p == copy.pos
           id == copy.id + 1
<1>1. /\ pc = "copy" /\ pc' = "copy" /\ UNCHANGED <<info, op, old>> /\ info.base \in Regions
      /\ s \in Seq(Entry) /\ GoodLog(s) /\ log'[info.base] = s /\ LogInv
      /\ i \in KeysOf(s) /\ i > p /\ FindValueOf(s, i) # 0 /\ i \in Nat
      /\ \A k \in KeysOf(s) : k > p /\ FindValueOf(s, k) # 0 => i <= k
      /\ CopiedKeys(s, i) = CopiedKeys(s, p) \cup {i}
      /\ p \in Nat /\ copy'.pos = i
      /\ id \in Nat /\ id # 0 /\ id <= s[i].id
      /\ t \in Seq(Entry) /\ u \in Seq(Entry) /\ KeysOf(u) = KeysOf(t) \cup {n}
      /\ \A m \in KeysOf(t) \cup ValuesOf(t) : u[m] = t[m]
      /\ \A m \in KeysOf(t) : ValuesFor(u, m) = ValuesFor(t, m)
      /\ u[n].data = s[i].data /\ u[n].id = id
      /\ \/ s[i].id = keyId /\ keyId' = id /\ ValuesFor(u, n) = {}
         \/ /\ s[i].id # keyId /\ keyId' = keyId /\ ValuesFor(u, n) = {n + 1}
            /\ u[n + 1].data = s[FindValueOf(s, i)].data
  BY CopyStep
<1> HIDE DEF i, n, id
<1>2. /\ log'[info'.base] = s /\ log'[Other(info'.base)] = u /\ CopyPos = p /\ CopyPos' = i
      /\ MayCompact /\ Compacting'
  BY <1>1 DEF CopyPos, MayCompact, Compacting
<1>3. s[i].id = keyId => s[i].data = op.key
  BY <1>1, <1>2 DEF DataInv, OwnInv
<1>4. KeysOf(s) \subseteq Nat /\ \A m \in KeysOf(s) : s[m].id \in Nat
  BY <1>1, SeqFacts DEF KeysOf
<1>5. \A m \in KeysOf(s) : i < m => s[i].id < s[m].id
  BY <1>1, LastNumber DEF GoodLog
<1>6. CopiedPairs(s, t, p, op.key)
  BY <1>1 DEF DataInv, PairsInv
<1> HIDE DEF s, t, u, p
<1>7. OwnInv'
  <2>1. \A m \in KeysOf(s) : m > i /\ s[m].id = keyId' => s[m].data = op.key
    <3> SUFFICES ASSUME NEW m \in KeysOf(s), m > i, s[m].id = keyId' PROVE s[m].data = op.key
      OBVIOUS
    <3>1. s[i].id < s[m].id /\ m > p
      BY <1>1, <1>4, <1>5
    <3>2. keyId' # id
      BY <1>1, <1>4, <3>1
    <3>3. s[m].id = keyId
      BY <1>1, <3>2
    <3> QED
      BY <1>1, <1>2, <3>1, <3>3 DEF DataInv, OwnInv, s
  <2>2. old.pos # 0 /\ old.region = info.base =>
          \A m \in KeysOf(s) : s[m].data # op.key => s[m].id # s[old.pos].id
    BY <1>1 DEF DataInv, OwnInv, Setting, s
  <2> QED
    BY <1>1, <1>2, <2>1, <2>2 DEF OwnInv
<1>8. CopiedPairs(s, u, i, op.key)
  <2>1. ASSUME NEW m \in KeysOf(u)
        PROVE  \E q \in CopiedKeys(s, i) : u[m].data = s[q].data
    <3>1. CASE m = n
      BY <1>1, <3>1
    <3>2. CASE m \in KeysOf(t)
      <4>1. u[m] = t[m]
        BY <1>1, <3>2
      <4>2. PICK q \in CopiedKeys(s, p) : t[m].data = s[q].data
        BY <1>6, <3>2 DEF CopiedPairs
      <4> QED
        BY <1>1, <4>1, <4>2
    <3> QED
      BY <1>1, <2>1, <3>1, <3>2
  <2>2. ASSUME NEW q \in CopiedKeys(s, i), s[q].data # op.key
        PROVE  \E m \in KeysOf(u) : /\ u[m].data = s[q].data
                                    /\ ValuesFor(u, m) # {}
                                    /\ u[FindValueOf(u, m)].data = s[FindValueOf(s, q)].data
    <3>1. CASE q = i
      <4>1. ValuesFor(u, n) = {n + 1} /\ u[n + 1].data = s[FindValueOf(s, i)].data
        BY <1>1, <1>3, <2>2, <3>1
      <4>2. n + 1 \in Nat \ {0}
        BY <1>1, <4>1, ValuesForType
      <4>3. FindValueOf(u, n) = n + 1
        BY <1>1, <4>1, <4>2, FirstOfOne, ValuesForType
      <4>4. /\ n \in KeysOf(u) /\ u[n].data = s[q].data /\ ValuesFor(u, n) # {}
            /\ u[FindValueOf(u, n)].data = s[FindValueOf(s, q)].data
        BY <1>1, <3>1, <4>1, <4>3
      <4> QED
        BY <4>4
    <3>2. CASE q \in CopiedKeys(s, p)
      <4>1. PICK m \in KeysOf(t) : /\ t[m].data = s[q].data
                                   /\ ValuesFor(t, m) # {}
                                   /\ t[FindValueOf(t, m)].data = s[FindValueOf(s, q)].data
        BY <1>6, <2>2, <3>2 DEF CopiedPairs
      <4>2. m \in KeysOf(u) /\ u[m] = t[m] /\ ValuesFor(u, m) = ValuesFor(t, m)
        BY <1>1, <4>1
      <4>3. /\ FindValueOf(u, m) = FindValueOf(t, m)
            /\ FindValueOf(t, m) \in ValuesOf(t)
        BY <1>1, <4>1, <4>2, ValuesForType
      <4>4. u[FindValueOf(u, m)] = t[FindValueOf(t, m)]
        BY <1>1, <4>3
      <4> QED
        BY <4>1, <4>2, <4>4
    <3> QED
      BY <1>1, <2>2, <3>1, <3>2
  <2> QED
    BY <2>1, <2>2 DEF CopiedPairs
<1>9. PairsInv'
  BY <1>1, <1>2, <1>8 DEF PairsInv
<1>10. ASSUME op.clean, keyId' # 0
       PROVE  \E m \in KeysOf(s) :
                 /\ s[m].data = op.key /\ FindValueOf(s, m) # 0
                 /\ m > i => s[m].id = keyId'
                 /\ m <= i => HasKey(u, op.key, keyId', {})
  <2>1. keyId # 0
    BY <1>1, <1>4, <1>10
  <2>2. PICK m \in KeysOf(s) : /\ s[m].data = op.key /\ FindValueOf(s, m) # 0
                               /\ m > p => s[m].id = keyId
                               /\ m <= p => HasKey(t, op.key, keyId, {})
    BY <1>1, <1>10, <2>1 DEF DataInv, CleanInv, s, t, p
  <2>3. m \in Nat
    BY <1>4
  <2>4. CASE m <= p
    <3>1. m # i /\ m <= i /\ ~(m > i)
      BY <1>1, <2>3, <2>4
    <3>2. s[i].id # keyId
      <4>1. Distinct(s) /\ i \in KeysOf(s)
        BY <1>1 DEF GoodLog
      <4> QED
        BY <1>3, <2>2, <3>1, <4>1 DEF Distinct
    <3>3. keyId' = keyId /\ HasKey(t, op.key, keyId, {})
      BY <1>1, <2>2, <2>4, <3>2
    <3>4. HasKey(u, op.key, keyId', {})
      BY <1>1, <3>3 DEF HasKey
    <3> QED
      BY <2>2, <3>1, <3>4
  <2>5. CASE m > p /\ m = i
    <3>1. keyId' = id /\ ValuesFor(u, n) = {}
      BY <1>1, <2>2, <2>5
    <3>2. HasKey(u, op.key, keyId', {})
      BY <1>1, <2>2, <2>5, <3>1 DEF HasKey
    <3>3. ~(m > i)
      BY <1>1, <2>5
    <3> QED
      BY <2>2, <3>2, <3>3
  <2>6. CASE m > p /\ m # i
    <3>1. i < m /\ ~(m <= i)
      BY <1>1, <2>2, <2>3, <2>6
    <3>2. s[i].id < s[m].id /\ s[m].id = keyId
      BY <1>5, <2>2, <2>6, <3>1
    <3>3. s[i].id # keyId
      BY <1>1, <1>4, <3>2
    <3> QED
      BY <1>1, <2>2, <3>1, <3>2, <3>3
  <2>7. m <= p \/ (m > p /\ m = i) \/ (m > p /\ m # i)
    BY <1>1, <2>3
  <2> QED
    BY <2>4, <2>5, <2>6, <2>7
<1>11. CleanInv'
  <2>1. keyId' = 0 => old.pos = 0
    <3>1. keyId' = 0 => keyId = 0
      BY <1>1
    <3> QED
      BY <1>1, <3>1 DEF DataInv, CleanInv, Setting
  <2> QED
    BY <1>1, <1>2, <1>10, <2>1 DEF CleanInv, Setting
<1> QED
  BY <1>7, <1>9, <1>11 DEF ParamInv

-----------------------------------------------------------------------------
(* The invariant holds: the writes of a call.                              *)

\* The new key gets an id that no key has.
LEMMA ParamWriteKey ==
    ASSUME DataInv, WriteKey
    PROVE  ParamInv'
<1> DEFINE s == log[info.base]
           t == log'[info.base]
           id == MaxIdOf(info.base) + 1
           e == KeyEntry(info.end, id, op.key, "new")
<1>1. /\ pc = "write" /\ keyId = 0 /\ pc' = "validateKey" /\ AppendEntry(e) /\ keyId' = id
      /\ info'.base = info.base /\ UNCHANGED <<op, old>> /\ LogInv
  BY DEF WriteKey, Advance, DataInv, LogInv, TypeInv, TypeOK
<1>2. /\ info.base \in Regions /\ op.key \in Keys /\ TypeOK /\ info.end \in Nat
      /\ s \in Seq(Entry) /\ Numbered(s)
  BY <1>1, WriteFacts, BaseFacts
<1>3. id = Cardinality(KeysOf(s)) + 1 /\ Cardinality(KeysOf(s)) \in Nat
  BY <1>2, MaxIdIsCount, CountKeys
<1>4. e \in Entry /\ e.st # "live" /\ e.data = op.key
  BY <1>2, <1>3, NewEntryType DEF KeyEntry
<1> HIDE DEF e, id
<1>5. KeysOf(t) = KeysOf(s) /\ LastOf(t) = e /\ \A i \in KeysOf(s) : t[i] = s[i]
  BY <1>1, <1>2, <1>4, AppendInvalid
<1>6. \A i \in KeysOf(s) : s[i].id # id
  <2>1. \A i \in KeysOf(s) : s[i].id <= Cardinality(KeysOf(s)) /\ s[i].id \in Nat
    BY <1>2, IdsDiffer, SeqFacts DEF KeysOf
  <2> QED
    BY <1>3, <2>1
<1>7. old.pos = 0
  BY <1>1 DEF DataInv, CleanInv, Setting
<1> HIDE DEF s, t
<1>8. log'[info'.base] = t
  BY <1>1 DEF t
<1>9. OwnInv'
  BY <1>1, <1>4, <1>5, <1>6, <1>7, <1>8 DEF OwnInv, MayCompact, Compacting
<1>10. CleanInv'
  BY <1>1, <1>7 DEF CleanInv, MayCompact, Compacting
<1> QED
  BY <1>1, <1>9, <1>10 DEF ParamInv, PairsInv

\* The new key has no value yet.
LEMMA ParamValidateKey ==
    ASSUME DataInv, ValidateKey, TypeInv'
    PROVE  ParamInv'
<1> DEFINE s == log[info.base]
           t == log'[info.base]
           n == Len(s)
<1>1. /\ pc = "validateKey" /\ pc' = "write" /\ Validate /\ UNCHANGED <<info, op, keyId, old>>
      /\ LogInv
  BY DEF ValidateKey, call, DataInv
<1>2. /\ n \in Nat \ {0} /\ KeysOf(t) = KeysOf(s) \cup {n} /\ ValuesOf(t) = ValuesOf(s)
      /\ \A i \in KeysOf(s) \cup ValuesOf(s) : i < n /\ i \in Nat /\ t[i] = s[i]
      /\ t[n].id = LastOf(s).id /\ t[n].data = LastOf(s).data
  BY <1>1, ValidateReads
<1>3. LastOf(s).data = op.key /\ LastOf(s).id = keyId /\ old.pos = 0
  BY <1>1 DEF DataInv, OwnInv, LogInv, LastInv, CleanInv, Setting
<1>4. \A i \in KeysOf(s) : s[i].data # op.key /\ s[i].id = keyId => ValuesFor(s, i) # {}
  BY <1>1 DEF DataInv, OwnInv, Setting, Compacting
<1> HIDE DEF s, t, n
<1>5. \A i \in KeysOf(s) : ValuesFor(t, i) = ValuesFor(s, i)
  BY <1>2, ValuesSame
<1>6. ValuesFor(t, n) = {}
  <2>1. \A j \in ValuesOf(t) : ~(j > n)
    BY <1>2
  <2> QED
    BY <2>1 DEF ValuesFor
<1>7. log'[info'.base] = t /\ OldHere' = {}
  BY <1>1, <1>3 DEF t, OldHere
<1>8. OwnInv'
  BY <1>1, <1>2, <1>3, <1>4, <1>5, <1>7 DEF OwnInv, MayCompact, Compacting
<1>9. HasKey(t, op.key, keyId, {})
  BY <1>2, <1>3, <1>6 DEF HasKey
<1>10. CleanInv'
  BY <1>1, <1>3, <1>7, <1>9 DEF CleanInv, MayCompact, Compacting, Setting
<1> QED
  BY <1>1, <1>8, <1>10 DEF ParamInv, PairsInv

\* The new value is not valid yet.
LEMMA ParamWriteValue ==
    ASSUME DataInv, WriteValue
    PROVE  ParamInv'
<1> DEFINE s == log[info.base]
           t == log'[info.base]
           e == ValueEntry(info.end, keyId, op.val, "new")
<1>1. /\ pc = "write" /\ keyId # 0 /\ pc' = "validateValue" /\ AppendEntry(e)
      /\ info'.base = info.base /\ UNCHANGED <<op, keyId, old>> /\ LogInv
  BY DEF WriteValue, Advance, call, DataInv, LogInv, TypeInv, TypeOK
<1>2. /\ info.base \in Regions /\ op.val \in Values /\ info.end \in Nat /\ keyId \in Nat
  BY <1>1, WriteFacts
<1>3. e \in Entry /\ e.st # "live" /\ e.data = op.val /\ e.id = keyId
  BY <1>2, NewEntryType DEF ValueEntry
<1> HIDE DEF e
<1>4. /\ KeysOf(t) = KeysOf(s) /\ LastOf(t) = e
      /\ \A i \in KeysOf(s) \cup ValuesOf(s) : t[i] = s[i]
      /\ \A i \in KeysOf(s) : ValuesFor(t, i) = ValuesFor(s, i)
  BY <1>1, <1>2, <1>3, AppendInvalid
<1>5. \A i \in KeysOf(s) : s[i].data # op.key /\ s[i].id = keyId => ValuesFor(s, i) # {}
  BY <1>1 DEF DataInv, OwnInv, Setting, Compacting
<1>6. old.pos # 0 /\ old.region = info.base =>
         /\ old.pos \in ValuesOf(s)
         /\ \A i \in KeysOf(s) : s[i].data # op.key => s[i].id # s[old.pos].id
  BY <1>1 DEF DataInv, OwnInv, LogInv, CallInv, Setting
<1>7. op.clean => HasKey(s, op.key, keyId, OldHere)
  BY <1>1 DEF DataInv, CleanInv, Setting
<1> HIDE DEF s, t
<1>8. log'[info'.base] = t /\ OldHere' = OldHere
  BY <1>1 DEF t, OldHere
<1>9. OwnInv'
  BY <1>1, <1>3, <1>4, <1>5, <1>6, <1>8 DEF OwnInv, MayCompact, Compacting
<1>10. op.clean => HasKey(t, op.key, keyId, OldHere)
  BY <1>4, <1>7 DEF HasKey
<1>11. CleanInv'
  BY <1>1, <1>8, <1>10 DEF CleanInv, MayCompact, Compacting, Setting
<1> QED
  BY <1>1, <1>9, <1>11 DEF ParamInv, PairsInv

\* The key that is being set has the new value, and the old one if that has
\* not been left behind by a compaction.
LEMMA ParamValidateValue ==
    ASSUME DataInv, ValidateValue, TypeInv'
    PROVE  ParamInv'
<1> DEFINE s == log[info.base]
           t == log'[info.base]
           n == Len(s)
<1>1. /\ pc = "validateValue" /\ Validate /\ UNCHANGED <<info, op, keyId, old>>
      /\ \/ old.pos = 0 /\ pc' = "return"
         \/ old.pos # 0 /\ pc' = "delete"
      /\ LogInv /\ info.base \in Regions /\ op.val \in Values
  BY DEF ValidateValue, Finish, DataInv, LogInv, TypeInv, CallOK, Setting
<1>2. /\ n \in Nat \ {0} /\ KeysOf(t) = KeysOf(s) /\ ValuesOf(t) = ValuesOf(s) \cup {n}
      /\ \A i \in KeysOf(s) \cup ValuesOf(s) : i < n /\ i \in Nat /\ t[i] = s[i]
      /\ t[n].id = LastOf(s).id /\ t[n].data = LastOf(s).data /\ t \in Seq(Entry)
  BY <1>1, ValidateReads
<1>3. LastOf(s).data = op.val /\ LastOf(s).id = keyId /\ keyId # 0
  BY <1>1 DEF DataInv, OwnInv
<1>4. old.pos # 0 /\ old.region = info.base =>
         /\ old.pos \in ValuesOf(s)
         /\ \A i \in KeysOf(s) : s[i].data # op.key => s[i].id # s[old.pos].id
  BY <1>1 DEF DataInv, OwnInv, LogInv, CallInv, Setting
<1>5. op.clean => HasKey(s, op.key, keyId, OldHere)
  BY <1>1, <1>3 DEF DataInv, CleanInv, Setting
<1>6. \A q \in Regions : GoodLog(log'[q])
  BY <1>1, LogValidate
<1>7. Distinct(t)
  BY <1>1, <1>6 DEF GoodLog
<1> HIDE DEF s, t, n
<1>8. log'[info'.base] = t /\ OldHere' = OldHere
  BY <1>1 DEF t, OldHere
<1>9. n \notin OldHere
  BY <1>2, <1>4 DEF OldHere
<1>10. op.clean => \E i \in KeysOf(t) : t[i].data = op.key /\ ValuesFor(t, i) = OldHere \cup {n}
  <2> SUFFICES ASSUME op.clean
               PROVE  \E i \in KeysOf(t) : t[i].data = op.key /\ ValuesFor(t, i) = OldHere \cup {n}
    OBVIOUS
  <2>1. PICK i \in KeysOf(s) : s[i].data = op.key /\ s[i].id = keyId /\ ValuesFor(s, i) = OldHere
    BY <1>5 DEF HasKey
  <2>2. ValuesFor(t, i) = {j \in ValuesOf(s) \cup {n} : j > i /\ t[j].id = s[i].id}
    BY <1>2, <2>1 DEF ValuesFor
  <2>3. n > i /\ t[n].id = s[i].id /\ \A j \in ValuesOf(s) : t[j].id = s[j].id
    BY <1>2, <1>3, <2>1
  <2>4. ValuesFor(t, i) = ValuesFor(s, i) \cup {n}
    BY <2>2, <2>3 DEF ValuesFor
  <2> QED
    BY <1>2, <2>1, <2>4
<1>11. OwnInv'
  BY <1>1, <1>2, <1>4, <1>8 DEF OwnInv, MayCompact, Compacting, Setting
<1>12. CASE old.pos = 0 /\ pc' = "return"
  <2>1. OldHere = {}
    BY <1>12 DEF OldHere
  <2>2. op.clean => LookupOf(t, op.key) = op.val
    <3> SUFFICES ASSUME op.clean PROVE LookupOf(t, op.key) = op.val
      OBVIOUS
    <3>1. PICK i \in KeysOf(t) : t[i].data = op.key /\ ValuesFor(t, i) = {n}
      BY <1>10, <2>1
    <3>2. LookupOf(t, t[i].data) = IF ValuesFor(t, i) = {} THEN Nil
                                   ELSE t[FirstOf(ValuesFor(t, i))].data
      BY <1>2, <1>7, LookupKey
    <3>3. FirstOf({n}) = n
      BY <1>2, FirstOfOne
    <3> QED
      BY <1>2, <1>3, <3>1, <3>2, <3>3
  <2>3. CleanInv'
    BY <1>1, <1>8, <1>12, <2>2 DEF CleanInv, MayCompact, Compacting, Setting
  <2> QED
    BY <1>11, <1>12, <2>3 DEF ParamInv, PairsInv
<1>13. CASE old.pos # 0 /\ pc' = "delete"
  <2>1. op.val # Nil
    BY <1>1, KeysAssumption
  <2>2. n \in ValuesOf(t) /\ t[n].data = op.val
    BY <1>2, <1>3
  <2>3. CleanInv'
    BY <1>1, <1>8, <1>9, <1>10, <1>13, <2>1, <2>2 DEF CleanInv, MayCompact, Compacting, Setting
  <2> QED
    BY <1>11, <1>13, <2>3 DEF ParamInv, PairsInv
<1> QED
  BY <1>1, <1>12, <1>13

\* The deletion of the old value leaves the new one, or none.
LEMMA ParamDeleteOld ==
    ASSUME DataInv, DeleteOld, TypeInv'
    PROVE  ParamInv'
<1> DEFINE s == log[info.base]
           t == log'[info.base]
<1>1. /\ pc = "delete" /\ MarkDeleted /\ UNCHANGED <<info, op, keyId, old>>
      /\ pc' = "return" /\ LogInv
  BY DEF DeleteOld, Finish, DataInv
<1>2. /\ t \in Seq(Entry) /\ info.base \in Regions
      /\ KeysOf(t) = KeysOf(s) /\ ValuesOf(t) = ValuesOf(s) \ OldHere
      /\ \A i \in KeysOf(t) \cup ValuesOf(t) : t[i] = s[i]
  BY <1>1, DeleteReads
<1>3. GoodLog(t)
  BY <1>1, <1>2, LogDelete
<1>4. Distinct(t)
  BY <1>3 DEF GoodLog
<1>5. \A i \in KeysOf(s) : ValuesFor(t, i) = ValuesFor(s, i) \ OldHere
  BY <1>2 DEF ValuesFor
<1>6. op.clean => \E i \in KeysOf(s) :
         /\ s[i].data = op.key
         /\ op.val = Nil => OldHere = {old.pos} /\ ValuesFor(s, i) = {old.pos}
         /\ op.val # Nil => \E n \in ValuesOf(s) : /\ s[n].data = op.val /\ n \notin OldHere
                                                   /\ ValuesFor(s, i) = OldHere \cup {n}
  BY <1>1 DEF DataInv, CleanInv, OldHere
<1> HIDE DEF s, t
<1>7. op.clean => LookupOf(t, op.key) = op.val
  <2> SUFFICES ASSUME op.clean PROVE LookupOf(t, op.key) = op.val
    OBVIOUS
  <2>1. PICK i \in KeysOf(s) :
         /\ s[i].data = op.key
         /\ op.val = Nil => OldHere = {old.pos} /\ ValuesFor(s, i) = {old.pos}
         /\ op.val # Nil => \E n \in ValuesOf(s) : /\ s[n].data = op.val /\ n \notin OldHere
                                                   /\ ValuesFor(s, i) = OldHere \cup {n}
    BY <1>6
  <2>2. i \in KeysOf(t) /\ t[i].data = op.key /\ ValuesFor(t, i) = ValuesFor(s, i) \ OldHere
    BY <1>2, <1>5, <2>1
  <2>3. LookupOf(t, op.key) = IF ValuesFor(t, i) = {} THEN Nil ELSE t[FirstOf(ValuesFor(t, i))].data
    <3>1. LookupOf(t, t[i].data) = IF ValuesFor(t, i) = {} THEN Nil
                                   ELSE t[FirstOf(ValuesFor(t, i))].data
      BY <1>2, <1>4, <2>2, LookupKey
    <3> QED
      BY <2>2, <3>1
  <2>4. CASE op.val = Nil
    BY <2>1, <2>2, <2>3, <2>4
  <2>5. CASE op.val # Nil
    <3>1. PICK n \in ValuesOf(s) : /\ s[n].data = op.val /\ n \notin OldHere
                                   /\ ValuesFor(s, i) = OldHere \cup {n}
      BY <2>1, <2>5
    <3>2. ValuesFor(t, i) = {n} /\ n \in ValuesOf(t) /\ t[n].data = op.val
      BY <1>2, <2>2, <3>1
    <3>3. n \in Nat \ {0}
      BY <1>2, <3>2, SeqFacts
    <3> QED
      BY <2>3, <3>2, <3>3, FirstOfOne
  <2> QED
    BY <2>4, <2>5
<1>8. log'[info'.base] = t
  BY <1>1 DEF t
<1>9. CleanInv'
  BY <1>1, <1>2, <1>7, <1>8 DEF CleanInv, MayCompact, Compacting, Setting
<1> QED
  BY <1>1, <1>9 DEF ParamInv, OwnInv, PairsInv, MayCompact, Compacting, Setting

-----------------------------------------------------------------------------
(* Theorems.                                                               *)

\* Before the first boot nothing is to be known.
LEMMA DataInit == Init => DataInv
<1> SUFFICES ASSUME Init PROVE DataInv
  OBVIOUS
<1>1. OwnInv /\ PairsInv /\ CleanInv
  BY DEF Init, OwnInv, PairsInv, CleanInv, MayCompact, Compacting, Setting
<1> QED
  BY <1>1, LogInit DEF DataInv

\* Every step keeps the invariant.
LEMMA DataNext == DataInv /\ [Next]_vars => DataInv'
<1> SUFFICES ASSUME DataInv, [Next]_vars PROVE DataInv'
  OBVIOUS
<1>1. LogInv'
  BY LogNext DEF DataInv
<1>2. TypeInv'
  BY <1>1 DEF LogInv
<1>3. CASE UNCHANGED vars
  BY <1>1, <1>3 DEF DataInv, OwnInv, PairsInv, CleanInv, MayCompact, Compacting, CopyPos, OldHere,
                    vars, flash, call
<1>4. CASE Boot
  <2>1. pc' \in Quiet /\ pc' # "return"
    BY <1>4 DEF Boot, SysparamInit, RecreateFormat, RecreateHeader, CreateScan, CreateFormat,
                CreateHeader, Mount, Quiet, BootStates
  <2> QED
    BY <1>1, <2>1, ParamQuiet DEF DataInv, ParamInv
<1>5. CASE Call
  <2> SUFFICES ASSUME NEW k \in Keys, NEW v \in Values \cup {Nil},
                      SetData(k, v) \/ SetNoInit(k, v) \/ SetFails(k, v)
               PROVE  DataInv'
    BY <1>5 DEF Call
  <2>1. CASE SetData(k, v)
    BY <1>1, <2>1, ParamSetData DEF DataInv, ParamInv
  <2>2. CASE SetNoInit(k, v) \/ SetFails(k, v)
    <3>1. pc' \in Quiet /\ ret' # "OK"
      BY <2>2 DEF SetNoInit, SetFails, Finish, Quiet
    <3> QED
      BY <1>1, <3>1, ParamQuiet DEF DataInv, ParamInv
  <2> QED
    BY <2>1, <2>2
<1>6. CASE Check
  BY <1>1, <1>6, ParamCheck DEF DataInv, ParamInv
<1>7. CASE Compact
  BY <1>1, <1>7, ParamFormat, ParamCopy, ParamActivate, ParamRetire DEF DataInv, ParamInv, Compact
<1>8. CASE Write
  <2>1. CASE Return
    <3>1. pc' \in Quiet /\ pc' # "return"
      BY <2>1 DEF Return, Quiet
    <3> QED
      BY <1>1, <3>1, ParamQuiet DEF DataInv, ParamInv
  <2>2. CASE WriteOverLeft
    <3>1. pc' \in Quiet /\ ret' # "OK"
      BY <2>2 DEF WriteOverLeft, SkipHeader, Finish, Quiet
    <3> QED
      BY <1>1, <3>1, ParamQuiet DEF DataInv, ParamInv
  <2> QED
    BY <1>1, <1>2, <1>8, <2>1, <2>2, ParamWriteKey, ParamValidateKey, ParamWriteValue,
       ParamValidateValue, ParamDeleteOld DEF DataInv, ParamInv, Write
<1>9. CASE Reformat \/ Fail \/ PowerLoss
  <2>1. pc' \in Quiet /\ (pc' = "return" => ret' # "OK")
    BY <1>9 DEF Reformat, Fail, WriteHeaderFails, SkipHeader, ValidateFails, DeleteFails, CompactFails,
                CompactHeaderFails, BootFails, PowerLoss, Crash, CrashInEntryHeader,
                CrashInRegionHeader, Reset, Finish, Quiet, BootStates
  <2> QED
    BY <1>1, <2>1, ParamQuiet DEF DataInv, ParamInv
<1> QED
  BY <1>3, <1>4, <1>5, <1>6, <1>7, <1>8, <1>9 DEF Next

\* Every reachable state satisfies the invariant, whatever fails.
THEOREM DataInvariant == Spec => []DataInv
BY DataInit, DataNext, PTL DEF Spec

\* A set or a delete that returns OK is what a get then returns and what a
\* reboot preserves, if the key had one value, or no entry, when the call began
\* and writes of region headers do not fail: after any number of compactions,
\* crashes and failed calls before it, and for every size of keys and values.
THEOREM OkIsDurableHolds ==
    ASSUME "header" \notin Faults
    PROVE  Spec => []OkIsDurable
<1>1. DataInv /\ MountedIsRecovered => OkIsDurable
  <2> SUFFICES ASSUME DataInv, MountedIsRecovered, pc = "return", ret = "OK", op.clean
               PROVE  /\ Lookup(info.base, op.key) = op.val
                      /\ Durable(op.key) = op.val
    BY DEF OkIsDurable
  <2>1. info.base \in Regions /\ LookupOf(log[info.base], op.key) = op.val
    BY DEF DataInv, CleanInv
  <2>2. Lookup(info.base, op.key) = op.val
    BY <2>1, LookupIs
  <2>3. info.base # NoRegion /\ Recovered = info.base
    BY <2>1 DEF MountedIsRecovered, Mounted, Regions, NoRegion
  <2> QED
    BY <2>2, <2>3 DEF Durable
<1> QED
  BY <1>1, DataInvariant, MountedRegionRecovered, PTL

-----------------------------------------------------------------------------
(* The other parameters.                                                   *)

\* The writes of a call, in the region in use, as the other parameters see
\* them: a write of an entry that is not valid, ...
LEMMA OthersAppend ==
    ASSUME DataInv, LogInv', info.base \in Regions, NEW e \in Entry, e.st # "live", AppendEntry(e),
           NEW k
    PROVE  LookupOf(log'[info.base], k) = LookupOf(log[info.base], k)
<1> DEFINE s == log[info.base]
           t == log'[info.base]
<1>1. /\ KeysOf(t) = KeysOf(s) /\ ValuesOf(t) = ValuesOf(s)
      /\ \A i \in KeysOf(s) \cup ValuesOf(s) : t[i] = s[i]
      /\ \A i \in KeysOf(s) : ValuesFor(t, i) = ValuesFor(s, i)
  BY AppendInvalid DEF DataInv
<1>2. s \in Seq(Entry) /\ Distinct(s) /\ t \in Seq(Entry) /\ Distinct(t)
  BY BaseFacts DEF DataInv, LogInv, TypeInv, TypeOK, GoodLog
<1> HIDE DEF s, t
<1>3. \A i \in KeysOf(s) : ValuesFor(s, i) # {} =>
         t[FirstOf(ValuesFor(t, i))].data = s[FirstOf(ValuesFor(s, i))].data
  <2> SUFFICES ASSUME NEW i \in KeysOf(s), ValuesFor(s, i) # {}
               PROVE  t[FirstOf(ValuesFor(t, i))].data = s[FirstOf(ValuesFor(s, i))].data
    OBVIOUS
  <2>1. FirstOf(ValuesFor(s, i)) \in ValuesOf(s)
    BY <1>2, ValuesForType
  <2> QED
    BY <1>1, <2>1
<1>4. LookupOf(t, k) = LookupOf(s, k)
  <2>1. \A i \in KeysOf(s) : s[i].data = k =>
              /\ i \in KeysOf(t) /\ t[i].data = k
              /\ ValuesFor(t, i) # {} <=> ValuesFor(s, i) # {}
              /\ ValuesFor(s, i) # {} =>
                    t[FirstOf(ValuesFor(t, i))].data = s[FirstOf(ValuesFor(s, i))].data
    BY <1>1, <1>3
  <2>2. \A i \in KeysOf(t) : t[i].data = k => i \in KeysOf(s) /\ s[i].data = k
    BY <1>1
  <2> QED
    BY <1>2, <2>1, <2>2, LookupSame
<1> QED
  BY <1>4 DEF s, t

\* ... a left-over header that becomes an entry, ...
LEMMA OthersSeal ==
    ASSUME DataInv, LogInv', NEW n \in Nat, n <= info.left, log' = Sealed(n), NEW q \in Regions, NEW k
    PROVE  LookupOf(log'[q], k) = LookupOf(log[q], k)
<1>1. LogInv
  BY DEF DataInv
<1>2. CASE info.left = 0
  BY <1>1, <1>2, LogSeal
<1>3. CASE info.left # 0 /\ q # info.base
  BY <1>1, <1>3, LogSeal
<1>4. CASE info.left # 0 /\ q = info.base
  <2>1. AppendEntry(LeftEntry(info.end, n)) /\ LeftEntry(info.end, n) \in Entry
    BY <1>1, <1>4, LogSeal
  <2>2. LeftEntry(info.end, n).st # "live"
    BY DEF LeftEntry, PadEntry
  <2> QED
    BY <1>4, <2>1, <2>2, OthersAppend
<1> QED
  BY <1>2, <1>3, <1>4

\* ... the write that makes an entry valid, ...
LEMMA OthersValidate ==
    ASSUME DataInv, LogInv', pc \in {"validateKey", "validateValue"}, Validate, NEW k, k # op.key
    PROVE  LookupOf(log'[info.base], k) = LookupOf(log[info.base], k)
<1> DEFINE s == log[info.base]
           t == log'[info.base]
           n == Len(s)
<1>0. info.base \in Regions /\ LogInv /\ TypeInv'
  BY DEF DataInv, LogInv, TypeInv, CallOK, Setting
<1>1. /\ t \in Seq(Entry) /\ n \in Nat \ {0}
      /\ \A i \in KeysOf(s) \cup ValuesOf(s) : i < n /\ i \in Nat /\ t[i] = s[i]
      /\ t[n].id = LastOf(s).id /\ t[n].data = LastOf(s).data
      /\ pc = "validateKey" => KeysOf(t) = KeysOf(s) \cup {n} /\ ValuesOf(t) = ValuesOf(s)
      /\ pc = "validateValue" => KeysOf(t) = KeysOf(s) /\ ValuesOf(t) = ValuesOf(s) \cup {n}
  BY <1>0, ValidateReads
<1>2. s \in Seq(Entry) /\ Distinct(s) /\ Distinct(t)
  BY <1>0, BaseFacts DEF LogInv, GoodLog
<1>3. /\ pc = "validateKey" => LastOf(s).data = op.key
      /\ pc = "validateValue" =>
            /\ LastOf(s).id = keyId
            /\ \A i \in KeysOf(s) : s[i].data # op.key /\ s[i].id = keyId => ValuesFor(s, i) # {}
  BY DEF DataInv, OwnInv, Setting, Compacting
<1> HIDE DEF s, t, n
<1>4. \A i \in KeysOf(s) : s[i].data = k => i \in KeysOf(t) /\ t[i] = s[i]
  BY <1>1
<1>5. \A i \in KeysOf(t) : t[i].data = k => i \in KeysOf(s) /\ s[i].data = k
  BY <1>1, <1>3
<1>6. ASSUME NEW i \in KeysOf(s), s[i].data = k
      PROVE  /\ ValuesFor(t, i) # {} <=> ValuesFor(s, i) # {}
             /\ ValuesFor(s, i) # {} =>
                   t[FirstOf(ValuesFor(t, i))].data = s[FirstOf(ValuesFor(s, i))].data
  <2>1. \/ ValuesFor(t, i) = ValuesFor(s, i)
        \/ ValuesFor(t, i) = ValuesFor(s, i) \cup {n} /\ ValuesFor(s, i) # {}
    <3>1. CASE pc = "validateKey"
      BY <1>1, <1>6, <3>1, ValuesSame
    <3>2. CASE pc = "validateValue"
      <4>1. ValuesFor(t, i) = {j \in ValuesOf(s) \cup {n} : j > i /\ t[j].id = s[i].id}
        BY <1>1, <3>2 DEF ValuesFor
      <4>2. \A j \in ValuesOf(s) : t[j].id = s[j].id
        BY <1>1
      <4>3. CASE s[i].id = keyId
        <5>1. n > i /\ t[n].id = s[i].id
          BY <1>1, <1>3, <3>2, <4>3
        <5>2. ValuesFor(t, i) = ValuesFor(s, i) \cup {n}
          BY <4>1, <4>2, <5>1 DEF ValuesFor
        <5> QED
          BY <1>3, <1>6, <3>2, <4>3, <5>2
      <4>4. CASE s[i].id # keyId
        <5>1. t[n].id # s[i].id
          BY <1>1, <1>3, <3>2, <4>4
        <5> QED
          BY <4>1, <4>2, <5>1 DEF ValuesFor
      <4> QED
        BY <4>3, <4>4
    <3> QED
      BY <3>1, <3>2
  <2>2. ValuesFor(t, i) # {} <=> ValuesFor(s, i) # {}
    BY <2>1
  <2>3. ASSUME ValuesFor(s, i) # {}
        PROVE  t[FirstOf(ValuesFor(t, i))].data = s[FirstOf(ValuesFor(s, i))].data
    <3> DEFINE a == FirstOf(ValuesFor(s, i))
               b == FirstOf(ValuesFor(t, i))
    <3>1. ValuesFor(s, i) \in SUBSET (Nat \ {0}) /\ ValuesFor(t, i) \in SUBSET (Nat \ {0})
      BY <1>1, <1>2, ValuesForType
    <3>2. a \in ValuesFor(s, i) /\ b \in ValuesFor(t, i)
      BY <2>2, <2>3, <3>1, FirstOfType
    <3>3. a \in Nat /\ b \in Nat
          /\ (\A x \in ValuesFor(s, i) : a <= x) /\ (\A x \in ValuesFor(t, i) : b <= x)
      BY <3>1, <3>2, FirstOfType
    <3>4. a \in ValuesOf(s) /\ a < n
      BY <1>1, <3>2 DEF ValuesFor
    <3> HIDE DEF a, b
    <3>5. a \in ValuesFor(t, i) /\ b <= a
      BY <2>1, <3>2, <3>3
    <3>6. b # n
      BY <1>1, <3>3, <3>4, <3>5
    <3>7. b \in ValuesFor(s, i)
      BY <2>1, <3>2, <3>6
    <3>8. a = b
      BY <3>3, <3>5, <3>7
    <3>9. t[b] = s[a]
      BY <1>1, <3>4, <3>8
    <3> QED
      BY <3>9 DEF a, b
  <2> QED
    BY <2>2, <2>3
<1>7. LookupOf(t, k) = LookupOf(s, k)
  <2>1. \A i \in KeysOf(s) : s[i].data = k =>
              /\ i \in KeysOf(t) /\ t[i].data = k
              /\ ValuesFor(t, i) # {} <=> ValuesFor(s, i) # {}
              /\ ValuesFor(s, i) # {} =>
                    t[FirstOf(ValuesFor(t, i))].data = s[FirstOf(ValuesFor(s, i))].data
    BY <1>4, <1>6
  <2> QED
    BY <1>1, <1>2, <1>5, <2>1, LookupSame
<1> QED
  BY <1>7 DEF s, t

\* ... and the deletion of the old value.
LEMMA OthersDelete ==
    ASSUME DataInv, LogInv', pc = "delete", MarkDeleted, NEW k, k # op.key
    PROVE  LookupOf(log'[info.base], k) = LookupOf(log[info.base], k)
<1> DEFINE s == log[info.base]
           t == log'[info.base]
<1>0. info.base \in Regions /\ LogInv /\ TypeInv'
  BY DEF DataInv, LogInv, TypeInv, CallOK
<1>1. /\ t \in Seq(Entry) /\ KeysOf(t) = KeysOf(s) /\ ValuesOf(t) = ValuesOf(s) \ OldHere
      /\ \A i \in KeysOf(t) \cup ValuesOf(t) : t[i] = s[i]
  BY <1>0, DeleteReads
<1>2. s \in Seq(Entry) /\ Distinct(s) /\ Distinct(t)
  BY <1>0, BaseFacts DEF LogInv, GoodLog
<1>3. \A i \in KeysOf(s), j \in OldHere : s[i].data # op.key => s[i].id # s[j].id
  BY DEF DataInv, OwnInv, OldHere
<1> HIDE DEF s, t
<1>4. ASSUME NEW i \in KeysOf(s), s[i].data = k
      PROVE  /\ ValuesFor(t, i) = ValuesFor(s, i)
             /\ ValuesFor(s, i) # {} =>
                   t[FirstOf(ValuesFor(t, i))].data = s[FirstOf(ValuesFor(s, i))].data
  <2>1. \A j \in ValuesFor(s, i) : j \notin OldHere
    BY <1>3, <1>4 DEF ValuesFor
  <2>2. ValuesFor(t, i) = ValuesFor(s, i)
    BY <1>1, <2>1 DEF ValuesFor
  <2>3. ValuesFor(s, i) # {} => FirstOf(ValuesFor(t, i)) \in ValuesOf(t)
    BY <1>1, <2>2, ValuesForType
  <2> QED
    BY <1>1, <2>2, <2>3
<1>5. LookupOf(t, k) = LookupOf(s, k)
  <2>1. \A i \in KeysOf(s) : s[i].data = k =>
              /\ i \in KeysOf(t) /\ t[i].data = k
              /\ ValuesFor(t, i) # {} <=> ValuesFor(s, i) # {}
              /\ ValuesFor(s, i) # {} =>
                    t[FirstOf(ValuesFor(t, i))].data = s[FirstOf(ValuesFor(s, i))].data
    BY <1>1, <1>4
  <2>2. \A i \in KeysOf(t) : t[i].data = k => i \in KeysOf(s) /\ s[i].data = k
    BY <1>1
  <2> QED
    BY <1>1, <1>2, <2>1, <2>2, LookupSame
<1> QED
  BY <1>5 DEF s, t

\* The region in use is the one that a reboot mounts.
LEMMA RecoveredIsMounted ==
    RecoveryInv => /\ Mounted /\ pc # "retire" => Recovered = info.base
                   /\ pc = "retire" => Recovered \in {info.base, Other(info.base)}
<1> SUFFICES ASSUME RecoveryInv, Mounted \/ pc = "retire"
             PROVE  /\ pc # "retire" => Recovered = info.base
                    /\ pc = "retire" => Recovered \in {info.base, Other(info.base)}
  OBVIOUS
<1>1. hdr \in [Regions -> Headers] /\ info.base \in Regions /\ Mounted
  BY DEF RecoveryInv, TypeInv, TypeOK, CallOK, Mounted, Setting, Regions, NoRegion
<1> QED
  BY <1>1 DEF Recovered, RecoveryInv, HeaderInv, Mounted, Header0, HasMagic, Other, Regions,
              NoRegion, Headers

\* Both regions hold the same values, but for the key k.
SameBut(s, t, k) == \A x : x # k => LookupOf(t, x) = LookupOf(s, x)

\* While both headers are active it does not matter which region is mounted,
\* but for the key that is being set.
LEMMA BothRegionsSame ==
    DataInv => (pc = "retire" => SameBut(log[info.base], log[Other(info.base)], op.key))
<1> SUFFICES ASSUME DataInv, pc = "retire", NEW k, k # op.key
             PROVE  LookupOf(log[Other(info.base)], k) = LookupOf(log[info.base], k)
  BY DEF SameBut
<1>1. info.base \in Regions /\ LogInv
  BY DEF DataInv, LogInv, TypeInv, CallOK, Setting
<1>2. /\ log[info.base] \in Seq(Entry) /\ Distinct(log[info.base])
      /\ log[Other(info.base)] \in Seq(Entry) /\ Distinct(log[Other(info.base)])
  BY <1>1, BaseFacts DEF GoodLog
<1>3. /\ CopiedPairs(log[info.base], log[Other(info.base)], copy.pos, op.key)
      /\ \A i \in KeysOf(log[info.base]) : FindValueOf(log[info.base], i) # 0 => i <= copy.pos
  BY DEF DataInv, PairsInv
<1> QED
  BY <1>2, <1>3, LookupCopied

\* No step touches what another parameter reads as.
LEMMA OthersStep ==
    ASSUME "header" \notin Faults, RecoveryInv, RecoveryInv', DataInv, DataInv', Next, ~Creating,
           NEW k \in Keys, k # op.key
    PROVE  Durable(k)' = Durable(k)
<1>1. /\ Durable(k) = IF Recovered = NoRegion THEN Nil ELSE LookupOf(log[Recovered], k)
      /\ Durable(k)' = IF Recovered' = NoRegion THEN Nil ELSE LookupOf(log'[Recovered'], k)
  BY DEF Durable, Lookup, LookupOf, FindKey, FindValue, FindValueOf, LiveKeys, LiveValues,
         KeysOf, ValuesOf
<1>2. /\ LogInv /\ LogInv' /\ hdr \in [Regions -> Headers] /\ TypeInv
  BY DEF DataInv, LogInv, TypeInv, TypeOK
<1>3. hdr' = hdr => Recovered' = Recovered
  BY DEF Recovered, Header0, HasMagic
<1>4. ASSUME UNCHANGED flash PROVE Durable(k)' = Durable(k)
  BY <1>1, <1>3, <1>4 DEF flash
<1>5. ASSUME pc \in (Setting \ {"retire"}) \cup {"delete"}
      PROVE  info.base \in Regions /\ Recovered = info.base /\ Recovered # NoRegion
  BY <1>2, <1>5, RecoveredIsMounted DEF TypeInv, CallOK, Setting, Mounted, Regions, NoRegion
<1>6. ASSUME pc \in (Setting \ {"retire"}) \cup {"delete"}, hdr' = hdr,
             LookupOf(log'[info.base], k) = LookupOf(log[info.base], k)
      PROVE  Durable(k)' = Durable(k)
  BY <1>1, <1>3, <1>5, <1>6
<1>7. ASSUME pc \in {"format", "copy"}, NEW h \in {"blank", "bad"},
             hdr' = [hdr EXCEPT ![Other(info.base)] = h],
             LookupOf(log'[info.base], k) = LookupOf(log[info.base], k)
      PROVE  Durable(k)' = Durable(k)
  <2>1. info.base \in Regions /\ Recovered = info.base /\ Recovered # NoRegion
    BY <1>5, <1>7 DEF Setting
  <2>2. hdr[info.base] = "active" /\ hdr'[info.base] = "active" /\ hdr'[Other(info.base)] = h
    BY <1>2, <1>7, <2>1 DEF RecoveryInv, HeaderInv, Mounted, Regions, NoRegion, Other
  <2>3. Recovered' = info.base
    BY <2>1, <2>2 DEF Recovered, Header0, HasMagic, Other, Regions
  <2> QED
    BY <1>1, <1>7, <2>1, <2>3
<1>8. ASSUME pc \in {"recreate", "recreateHeader"}, NEW h \in {"blank", "bad", "stale"},
             hdr' = [hdr EXCEPT ![Other(Header0)] = h], log'[Header0] = log[Header0]
      PROVE  Durable(k)' = Durable(k)
  <2>1. hdr[Header0] = "active" /\ ~HasMagic(Other(Header0)) /\ Header0 \in Regions
    BY <1>8 DEF RecoveryInv, HeaderInv, Header0, Regions
  <2>2. Recovered = Header0 /\ Header0 # NoRegion
    BY <2>1 DEF Recovered, Regions, NoRegion
  <2>3. hdr'[Header0] = "active" /\ hdr'[Other(Header0)] = h
    BY <1>2, <1>8, <2>1 DEF Other, Regions
  <2>4. Header0 = 1 => ~HasMagic(0)
    BY DEF Header0
  <2>5. Recovered' = Header0
    <3>1. CASE Header0 = 0
      BY <2>3, <3>1 DEF Recovered, Header0, HasMagic, Other
    <3>2. CASE Header0 = 1
      <4>1. hdr'[1] = "active" /\ hdr'[0] = h
        BY <2>3, <3>2 DEF Other
      <4>2. Recovered' = 1
        BY <4>1 DEF Recovered, Header0, HasMagic, Other
      <4> QED
        BY <3>2, <4>2
    <3> QED
      BY <2>1, <3>1, <3>2 DEF Regions
  <2> QED
    BY <1>1, <1>8, <2>2, <2>5
<1>9. log \in [Regions -> Seq(Entry)]
  BY <1>2 DEF TypeInv, TypeOK
<1>20. ASSUME NEW n \in Nat, n <= info.left, log' = Sealed(n), NEW q \in Regions
       PROVE  LookupOf(log'[q], k) = LookupOf(log[q], k)
  BY <1>2, <1>20, OthersSeal
<1>21. ASSUME NEW n \in Nat, n <= info.left, log' = Sealed(n), hdr' = hdr
       PROVE  Durable(k)' = Durable(k)
  <2>1. Recovered' = Recovered /\ Recovered \in Regions \cup {NoRegion}
    BY <1>3, <1>21 DEF Recovered, Header0, Other, Regions, NoRegion
  <2> QED
    BY <1>1, <1>20, <1>21, <2>1
<1>22. info.left \in Nat /\ info.left <= info.left
  BY <1>2 DEF TypeInv, TypeOK
<1>10. CASE Boot
  <2>1. CASE SysparamInit \/ CreateScan
    BY <1>4, <2>1 DEF SysparamInit, CreateScan
  <2>2. CASE RecreateFormat
    <3>1. log'[Header0] = log[Header0]
      BY <1>9, <2>2 DEF RecreateFormat, Format, Other, Header0, Regions
    <3> QED
      BY <1>8, <2>2, <3>1 DEF RecreateFormat, Format
  <2>3. CASE RecreateHeader
    BY <1>8, <2>3 DEF RecreateHeader
  <2>4. CASE CreateFormat \/ CreateHeader
    BY <2>4 DEF CreateFormat, CreateHeader, Creating
  <2> QED
    BY <1>10, <2>1, <2>2, <2>3, <2>4 DEF Boot
<1>11. CASE Call \/ Check \/ Reformat
  <2>1. CASE Call \/ Check
    <3>1. UNCHANGED flash
      BY <2>1 DEF Call, SetData, SetNoInit, SetFails, Check, CheckSpace, CheckFull, CheckIds,
                  CheckForce
    <3> QED
      BY <1>4, <3>1
  <2>2. CASE Reformat
    BY <1>21, <1>22, <2>2 DEF Reformat
  <2> QED
    BY <1>11, <2>1, <2>2
<1>12. CASE Compact
  <2>1. CASE CompactFormat
    <3>1. pc = "format" /\ Format(Other(info.base))
      BY <2>1 DEF CompactFormat
    <3>2. info.base \in Regions
      BY <1>5, <3>1 DEF Setting
    <3>3. log'[info.base] = log[info.base]
      BY <1>9, <3>1, <3>2 DEF Format, Other, Regions
    <3> QED
      BY <1>7, <3>1, <3>3 DEF Format
  <2>2. CASE CompactCopy
    <3>1. pc = "copy" /\ hdr' = hdr
      BY <2>2 DEF CompactCopy
    <3>2. log'[info.base] = log[info.base]
      BY <2>2, CopyStep
    <3> QED
      BY <1>6, <3>1, <3>2 DEF Setting
  <2>3. CASE CompactActivate
    <3>1. pc = "copy" /\ pc' = "retire" /\ log' = log /\ info' = info /\ op' = op
      BY <2>3 DEF CompactActivate, call
    <3>2. info.base \in Regions /\ Recovered = info.base /\ Recovered # NoRegion
      BY <1>5, <3>1 DEF Setting
    <3>3. (pc = "retire" => Recovered \in {info.base, Other(info.base)})'
      BY RecoveredIsMounted, PTL
    <3>4. (pc = "retire" => SameBut(log[info.base], log[Other(info.base)], op.key))'
      BY BothRegionsSame, PTL
    <3>5. /\ Recovered' \in {info.base, Other(info.base)} /\ Recovered' # NoRegion
          /\ LookupOf(log[Other(info.base)], k) = LookupOf(log[info.base], k)
      BY <3>1, <3>2, <3>3, <3>4 DEF Other, SameBut, Regions, NoRegion
    <3> QED
      BY <1>1, <3>1, <3>2, <3>5
  <2>4. CASE CompactRetire
    <3>1. /\ pc = "retire" /\ pc' # "retire" /\ log' = Sealed(info.left)
          /\ info'.base = Other(info.base) /\ info.base \in Regions
      BY <1>2, <2>4 DEF CompactRetire, TypeInv, CallOK, Setting
    <3>2. Recovered \in {info.base, Other(info.base)} /\ Recovered # NoRegion
      BY <3>1, RecoveredIsMounted DEF Regions, NoRegion, Other
    <3>3. (Mounted /\ pc # "retire" => Recovered = info.base)'
      BY RecoveredIsMounted, PTL
    <3>4. Recovered' = Other(info.base) /\ Recovered' # NoRegion
      BY <3>1, <3>3 DEF Mounted, Other, Regions, NoRegion
    <3>5. LookupOf(log[Other(info.base)], k) = LookupOf(log[info.base], k)
      BY <3>1, BothRegionsSame DEF SameBut
    <3>6. LookupOf(log'[Other(info.base)], k) = LookupOf(log[Other(info.base)], k)
      BY <1>20, <1>22, <3>1 DEF Other, Regions
    <3> QED
      BY <1>1, <3>2, <3>4, <3>5, <3>6
  <2> QED
    BY <1>12, <2>1, <2>2, <2>3, <2>4 DEF Compact
<1>13. ASSUME pc = "write", NEW e \in Entry, e.st # "live", AppendEntry(e), hdr' = hdr
       PROVE  Durable(k)' = Durable(k)
  <2>1. info.base \in Regions
    BY <1>5, <1>13 DEF Setting
  <2>2. LookupOf(log'[info.base], k) = LookupOf(log[info.base], k)
    BY <1>2, <1>13, <2>1, OthersAppend
  <2> QED
    BY <1>6, <1>13, <2>2 DEF Setting
<1>14. ASSUME pc \in {"validateKey", "validateValue"}, Validate, hdr' = hdr
       PROVE  Durable(k)' = Durable(k)
  <2>1. LookupOf(log'[info.base], k) = LookupOf(log[info.base], k)
    BY <1>2, <1>14, OthersValidate
  <2> QED
    BY <1>6, <1>14, <2>1 DEF Setting
<1>15. ASSUME pc = "delete", MarkDeleted, hdr' = hdr
       PROVE  Durable(k)' = Durable(k)
  <2>1. LookupOf(log'[info.base], k) = LookupOf(log[info.base], k)
    BY <1>2, <1>15, OthersDelete
  <2> QED
    BY <1>6, <1>15, <2>1
<1>16. ASSUME pc = "write"
       PROVE  /\ KeyEntry(info.end, MaxIdOf(info.base) + 1, op.key, "new") \in Entry
              /\ ValueEntry(info.end, keyId, op.val, "new") \in Entry
              /\ PadEntry(info.end) \in Entry /\ TornEntry(info.end) \in Entry
              /\ KeyEntry(info.end, MaxIdOf(info.base) + 1, op.key, "new").st # "live"
              /\ ValueEntry(info.end, keyId, op.val, "new").st # "live"
              /\ PadEntry(info.end).st # "live" /\ TornEntry(info.end).st # "live"
  <2>1. /\ info.base \in Regions /\ op.key \in Keys /\ op.val \in Values /\ TypeOK
        /\ info.end \in Nat /\ keyId \in Nat
    BY <1>2, <1>16, WriteFacts
  <2>2. MaxIdOf(info.base) + 1 \in Nat
    BY <2>1, LookupType
  <2>3. /\ KeyEntry(info.end, MaxIdOf(info.base) + 1, op.key, "new") \in Entry
        /\ ValueEntry(info.end, keyId, op.val, "new") \in Entry
        /\ PadEntry(info.end) \in Entry /\ TornEntry(info.end) \in Entry
    BY <2>1, <2>2, NewEntryType
  <2> QED
    BY <2>3 DEF KeyEntry, ValueEntry, PadEntry, TornEntry
<1>17. CASE Write
  <2>1. CASE WriteKey
    BY <1>13, <1>16, <2>1 DEF WriteKey
  <2>2. CASE WriteValue
    BY <1>13, <1>16, <2>2 DEF WriteValue
  <2>3. CASE ValidateKey \/ ValidateValue
    BY <1>14, <2>3 DEF ValidateKey, ValidateValue
  <2>4. CASE DeleteOld
    BY <1>15, <2>4 DEF DeleteOld
  <2>5. CASE Return
    BY <1>4, <2>5 DEF Return
  <2>6. CASE WriteOverLeft
    BY <1>13, <1>16, <2>6 DEF WriteOverLeft, SkipHeader
  <2> QED
    BY <1>17, <2>1, <2>2, <2>3, <2>4, <2>5, <2>6 DEF Write
<1>18. CASE Fail
  <2>1. CASE WriteHeaderFails
    BY <1>4, <1>13, <1>16, <2>1 DEF WriteHeaderFails, SkipHeader, flash
  <2>2. CASE ValidateFails
    BY <1>4, <1>14, <2>2 DEF ValidateFails, flash
  <2>3. CASE DeleteFails
    BY <1>4, <1>15, <2>3 DEF DeleteFails, flash
  <2>4. CASE CompactFails
    <3>1. CASE UNCHANGED flash
      BY <1>4, <3>1
    <3>2. CASE pc = "format" /\ Format(Other(info.base))
      <4>1. info.base \in Regions
        BY <1>5, <3>2 DEF Setting
      <4>2. log'[info.base] = log[info.base]
        BY <1>9, <3>2, <4>1 DEF Format, Other, Regions
      <4> QED
        BY <1>7, <3>2, <4>2 DEF Format
    <3> QED
      BY <2>4, <3>1, <3>2 DEF CompactFails
  <2>5. CASE CompactHeaderFails
    BY <2>5 DEF CompactHeaderFails, Fault
  <2>6. CASE BootFails
    <3>1. CASE UNCHANGED flash
      BY <1>4, <3>1
    <3>2. CASE pc \in {"recreate", "create0", "create1"} /\ Format(HeaderTarget)
      <4>1. pc = "recreate" /\ HeaderTarget = Other(Header0)
        BY <3>2 DEF Creating, HeaderTarget
      <4>2. log'[Header0] = log[Header0]
        BY <1>9, <3>2, <4>1 DEF Format, Other, Header0, Regions
      <4> QED
        BY <1>8, <3>2, <4>1, <4>2 DEF Format
    <3>3. CASE /\ pc \in {"recreateHeader", "createHeader0", "createHeader1"}
               /\ hdr' = [hdr EXCEPT ![HeaderTarget] = "bad"] /\ UNCHANGED log
      <4>1. pc = "recreateHeader" /\ HeaderTarget = Other(Header0)
        BY <3>3 DEF Creating, HeaderTarget
      <4> QED
        BY <1>8, <3>3, <4>1
    <3> QED
      BY <2>6, <3>1, <3>2, <3>3 DEF BootFails
  <2> QED
    BY <1>18, <2>1, <2>2, <2>3, <2>4, <2>5, <2>6 DEF Fail
<1>19. CASE PowerLoss
  <2>1. CASE Crash
    BY <1>21, <1>22, <2>1 DEF Crash
  <2>2. CASE CrashInEntryHeader
    <3>1. pc = "write" /\ hdr' = hdr
      BY <2>2 DEF CrashInEntryHeader
    <3>2. CASE AppendEntry(TornEntry(info.end))
      BY <1>13, <1>16, <3>1, <3>2
    <3>3. CASE info.left # 0 /\ \E n \in LeftSizes : log' = Sealed(n)
      <4>1. PICK n \in LeftSizes : log' = Sealed(n)
        BY <3>3
      <4>2. n \in Nat /\ n <= info.left
        BY <1>22, <3>3, <4>1 DEF LeftSizes, EntrySize
      <4> QED
        BY <1>21, <3>1, <4>1, <4>2
    <3> QED
      BY <2>2, <3>2, <3>3 DEF CrashInEntryHeader
  <2>3. CASE CrashInRegionHeader
    <3>1. hdr' = [hdr EXCEPT ![HeaderTarget] = "bad"] /\ log' = Sealed(info.left)
      BY <2>3 DEF CrashInRegionHeader
    <3>2. pc = "recreateHeader" \/ pc = "copy"
      BY <2>3 DEF CrashInRegionHeader, Creating
    <3>3. CASE pc = "recreateHeader"
      <4>1. info.left = 0
        BY <1>2, <3>3 DEF LogInv, EndInv, BootStates
      <4>2. log' = log
        BY <3>1, <4>1 DEF Sealed
      <4> QED
        BY <1>8, <3>1, <3>3, <4>2 DEF HeaderTarget
    <3>4. CASE pc = "copy"
      <4>1. info.base \in Regions
        BY <1>5, <3>4 DEF Setting
      <4>2. LookupOf(log'[info.base], k) = LookupOf(log[info.base], k)
        BY <1>20, <1>22, <3>1, <4>1
      <4> QED
        BY <1>7, <3>1, <3>4, <4>2 DEF HeaderTarget
    <3> QED
      BY <3>2, <3>3, <3>4
  <2> QED
    BY <1>19, <2>1, <2>2, <2>3 DEF PowerLoss
<1> QED
  BY <1>10, <1>11, <1>12, <1>17, <1>18, <1>19 DEF Next

\* No step changes what another parameter than the one being set reads as after
\* a reboot, if writes of region headers do not fail: not the steps of a
\* compaction, not a crash inside one, not a recovery, not a call that fails
\* half-way, for any number of keys and every layout of the log.
THEOREM OthersUntouchedHolds ==
    ASSUME "header" \notin Faults
    PROVE  Spec => OthersUntouched
<1> DEFINE Step == ~Creating => \A k \in Keys : k # op.key => Durable(k)' = Durable(k)
<1>1. RecoveryInv /\ RecoveryInv' /\ DataInv /\ DataInv' /\ [Next]_vars => [Step]_vars
  BY OthersStep
<1> QED
  BY <1>1, Recovery, DataInvariant, PTL DEF Spec, OthersUntouched

-----------------------------------------------------------------------------
(* The abstract specification SysparamStore.                               *)

\* The power stays on, nothing fails, the flash is blank at first, and the
\* application neither deletes nor reformats.
Plain == /\ Faults = {} /\ MaxCrashes = 0 /\ ConfigBlank
         /\ ~AllowDelete /\ ~AllowReformat

-----------------------------------------------------------------------------
(* The inductive invariant.                                                *)

InCall == Setting \cup {"delete", "return"}

\* The first boot finds a blank area, creates the two regions and mounts the
\* first; no region holds an entry before.
FirstBootInv ==
    /\ pc \notin {"recreate", "recreateHeader", "failed"}
    /\ pc = "scan" => \A r \in Regions : hdr[r] = "blank"
    /\ pc = "createHeader1" => hdr[0] = "active"
    /\ pc = "init" => \/ \A r \in Regions : hdr[r] = "blank"
                      \/ hdr[0] = "active" /\ hdr[1] = "stale"
    /\ ~Mounted => \A r \in Regions : log[r] = <<>>

\* A call has a key, a value and no status until it returns; a key that it has
\* found no entry of had no value, and before the first write its key reads as
\* it did when the call began.
StatusInv ==
    /\ pc \notin InCall => op = NoOp
    /\ pc # "return" => ret = "none"
    /\ pc = "return" => ret \in {"OK", "ERR_FULL"}
    /\ pc = "idle" => Mounted
    /\ pc \in InCall => Mounted /\ op.key \in Keys /\ op.val \in Values /\ op.clean
    /\ pc \in Setting /\ keyId = 0 => op.prev = Nil
    /\ pc = "space" => LookupOf(log[info.base], op.key) = op.prev

\* Each key but k has one value, and each value belongs to a key.
OneEach(s, k) ==
    /\ \A i \in KeysOf(s) : s[i].data # k => \E j \in ValuesFor(s, i) : ValuesFor(s, i) = {j}
    /\ \A j \in ValuesOf(s) : \E i \in KeysOf(s) : j \in ValuesFor(s, i)

\* Every entry is a key or a value; no header is torn or zeroed.
AllData(s) == \A i \in DOMAIN s : s[i].kind \in {"key", "value"}

\* The key whose values change.
OpenKey == IF pc \in {"space", "return"} THEN Nil ELSE op.key

OneInv ==
    /\ \A r \in Regions : AllData(log[r])
    /\ Mounted => OneEach(log[info.base], OpenKey)
    /\ pc \in {"copy", "retire"} => OneEach(log[Other(info.base)], op.key)

\* The entries of s that compacting drops, and those that it has kept when it
\* is at position p.
Dropped(s) == {i \in DOMAIN s : s[i].st # "live" /\ s[i].kind # "torn"}
Kept(s, p) == CopiedKeys(s, p) \cup (CopiedValues(s, p) \ OldHere)

\* A compaction that is to make room makes it: the words that were counted are
\* the words that the new region does not hold.
RoomInv ==
    LET s == log[info.base]
    IN  /\ pc = "full" => info.end + Needed <= RegionSize
        /\ Compacting /\ copy.then = "full" =>
              info.end + Needed <= RegionSize + Cardinality(WordsOf(s, Dropped(s)))
                                              + Cardinality(WordsOf(s, OldHere))
        /\ Compacting /\ keyId # 0 =>
              \E i \in KeysOf(s) : s[i].data = op.key /\ ValuesFor(s, i) = OldHere
        /\ pc \in {"copy", "retire"} =>
              EndOf(log[Other(info.base)]) <= HdrSize + Cardinality(WordsOf(s, Kept(s, copy.pos)))

StoreInv ==
    /\ DataInv
    /\ info.left = 0
    /\ FirstBootInv
    /\ StatusInv
    /\ OneInv
    /\ RoomInv
    /\ FullMeansFull

\* What the new parts say.
PlainInv == FirstBootInv /\ StatusInv /\ OneInv /\ RoomInv /\ FullMeansFull

-----------------------------------------------------------------------------
(* What cannot happen, and the boot.                                       *)

\* Without faults and power failures these steps are not taken.
LEMMA PlainSteps ==
    ASSUME Plain, TypeOK, FirstBootInv, Next
    PROVE  \/ Boot \/ Check \/ Compact \/ Write
           \/ \E k \in Keys, v \in Values : SetData(k, v)
<1>1. crashes = 0 /\ \A kind : ~Fault(kind)
  BY DEF Plain, TypeOK, Fault
<1>2. ~PowerLoss
  BY <1>1 DEF Plain, PowerLoss, Crash, CrashInEntryHeader, CrashInRegionHeader, Reset
<1>3. ~Fail
  BY <1>1 DEF Fail, WriteHeaderFails, ValidateFails, DeleteFails, CompactFails,
              CompactHeaderFails, BootFails
<1>4. ~Reformat
  BY DEF Plain, Reformat
<1>5. CASE Call
  <2>1. PICK k \in Keys, v \in Values \cup {Nil} : SetData(k, v) \/ SetNoInit(k, v) \/ SetFails(k, v)
    BY <1>5 DEF Call
  <2>2. SetData(k, v) /\ v # Nil
    BY <1>1, <2>1 DEF SetNoInit, SetFails, FirstBootInv, SetData, Plain
  <2> QED
    BY <2>2
<1> QED
  BY <1>2, <1>3, <1>4, <1>5 DEF Next

\* ... and no header is ever left over.
LEMMA NothingLeft ==
    ASSUME Plain, TypeOK, FirstBootInv, info.left = 0, [Next]_vars
    PROVE  info'.left = 0
<1>1. info \in [base : Regions \cup {NoRegion}, end : Nat, force : BOOLEAN, left : Nat]
  BY DEF TypeOK
<1>2. CASE UNCHANGED vars
  BY <1>2 DEF vars
<1>3. CASE Boot \/ \E k \in Keys, v \in Values : SetData(k, v)
  BY <1>3 DEF Boot, SysparamInit, RecreateFormat, RecreateHeader, CreateScan, CreateFormat,
              CreateHeader, Mount, SetData
<1>4. CASE Check
  BY <1>1, <1>4 DEF Check, CheckSpace, CheckFull, CheckIds, CheckForce
<1>5. CASE Compact
  <2>1. CASE CompactFormat \/ CompactActivate
    BY <2>1 DEF CompactFormat, CompactActivate
  <2>2. CASE CompactCopy
    BY <2>2 DEF CompactCopy
  <2>3. CASE CompactRetire
    BY <2>3 DEF CompactRetire
  <2> QED
    BY <1>5, <2>1, <2>2, <2>3 DEF Compact
<1>6. CASE Write
  <2>1. \A n : Advance(n) => info'.left = 0
    BY <1>1 DEF Advance
  <2> QED
    BY <1>6, <2>1 DEF Write, WriteKey, WriteOverLeft, ValidateKey, WriteValue, ValidateValue,
                      DeleteOld, Return
<1> QED
  BY <1>2, <1>3, <1>4, <1>5, <1>6, PlainSteps

\* An empty region.
LEMMA OneEmpty ==
    ASSUME NEW k
    PROVE  OneEach(<<>>, k) /\ AllData(<<>>)
<1>1. KeysOf(<<>>) = {} /\ ValuesOf(<<>>) = {}
  BY DEF KeysOf, ValuesOf
<1> QED
  BY <1>1 DEF OneEach, AllData

\* The invariant holds before the first boot.
LEMMA PlainInit == Init => PlainInv
<1> SUFFICES ASSUME Init PROVE PlainInv
  OBVIOUS
<1>1. pc = "init" /\ info.base = NoRegion /\ op = NoOp /\ ret = "none"
      /\ \A r \in Regions : hdr[r] = "blank" /\ log[r] = <<>>
  BY DEF Init, NoInfo
<1>2. FirstBootInv /\ StatusInv
  BY <1>1 DEF FirstBootInv, StatusInv, InCall, Setting
<1>3. OneInv
  BY <1>1, OneEmpty DEF OneInv, Mounted
<1>4. RoomInv /\ FullMeansFull
  BY <1>1 DEF RoomInv, FullMeansFull, Compacting
<1> QED
  BY <1>2, <1>3, <1>4 DEF PlainInv

\* The first boot.
LEMMA PlainBoot ==
    ASSUME Plain, LogInv, PlainInv, Boot
    PROVE  PlainInv'
<1>1. /\ UNCHANGED <<op, ret>> /\ pc' \in {"scan", "idle", "create1", "createHeader0", "createHeader1",
                                          "init", "create0", "recreate", "recreateHeader", "failed"}
      /\ pc \in {"init", "scan"} \cup BootStates
  BY DEF Boot, SysparamInit, RecreateFormat, RecreateHeader, CreateScan, CreateFormat,
         CreateHeader, Mount, call, BootStates
<1>2. /\ ~Mounted /\ info.base = NoRegion /\ \A r \in Regions : log[r] = <<>>
      /\ hdr \in [Regions -> Headers] /\ log \in [Regions -> Seq(Entry)]
  BY <1>1 DEF LogInv, EndInv, PlainInv, FirstBootInv, TypeInv, TypeOK, Mounted
<1>3. FirstBootInv /\ op = NoOp /\ ret = "none"
  BY <1>1 DEF PlainInv, StatusInv, InCall, Setting, BootStates
<1>4. \A r \in Regions : log'[r] = <<>>
  BY <1>1, <1>2, <1>3 DEF Boot, SysparamInit, RecreateFormat, RecreateHeader, CreateScan, CreateFormat,
         CreateHeader, flash, Format, Regions
<1>5. FirstBootInv' /\ (pc' = "idle" => Mounted')
  <2>1. CASE SysparamInit
    <3>1. CASE \A r \in Regions : hdr[r] = "blank"
      <4>1. ~HasMagic(0) /\ ~HasMagic(1)
        BY <3>1 DEF HasMagic, Regions
      <4>2. pc' = "scan" /\ UNCHANGED <<hdr, info>>
        BY <2>1, <4>1 DEF SysparamInit, Header0, Other, flash, HasMagic
      <4> QED
        BY <1>4, <3>1, <4>2 DEF FirstBootInv
    <3>2. CASE hdr[0] = "active" /\ hdr[1] = "stale"
      <4>1. HasMagic(0) /\ HasMagic(1) /\ Header0 = 0 /\ Other(0) = 1
        BY <3>2 DEF HasMagic, Header0, Other
      <4>2. Mount(0)
        BY <2>1, <3>2, <4>1 DEF SysparamInit
      <4> QED
        BY <1>4, <4>2 DEF FirstBootInv, Mount, Mounted, NoRegion
    <3> QED
      BY <1>3, <2>1, <3>1, <3>2 DEF SysparamInit, FirstBootInv
  <2>2. CASE CreateScan
    <3>1. LooksEmpty
      BY <1>2, <1>3, <2>2 DEF CreateScan, LooksEmpty, FirstBootInv, Plain
    <3> QED
      BY <1>4, <2>2, <3>1 DEF CreateScan, FirstBootInv
  <2>3. CASE CreateFormat
    BY <1>4, <2>3 DEF CreateFormat, FirstBootInv
  <2>4. CASE CreateHeader
    BY <1>2, <1>3, <1>4, <2>4 DEF CreateHeader, FirstBootInv, Regions
  <2>5. ~RecreateFormat /\ ~RecreateHeader
    BY <1>3 DEF FirstBootInv, RecreateFormat, RecreateHeader
  <2> QED
    BY <2>1, <2>2, <2>3, <2>4, <2>5 DEF Boot
<1>6. StatusInv'
  BY <1>1, <1>3, <1>5 DEF StatusInv, InCall, Setting
<1>7. OneInv'
  <2>1. info'.base \in Regions \cup {NoRegion}
    BY <1>2 DEF Boot, SysparamInit, RecreateFormat, RecreateHeader, CreateScan, CreateFormat,
         CreateHeader, Mount, Header0, Other, Regions
  <2>2. Mounted' => log'[info'.base] = <<>>
    BY <1>4, <2>1 DEF Mounted
  <2> QED
    BY <1>1, <1>4, <2>2, OneEmpty DEF OneInv
<1>8. RoomInv' /\ FullMeansFull'
  BY <1>1 DEF RoomInv, FullMeansFull, Compacting
<1> QED
  BY <1>5, <1>6, <1>7, <1>8 DEF PlainInv

-----------------------------------------------------------------------------
(* Lemmas about words and values.                                          *)

\* Every word between the header and the end of the log belongs to an entry.
LEMMA WordsCover ==
    ASSUME NEW s \in Seq(Entry), Chained(s), AllData(s)
    PROVE  HdrSize .. EndOf(s) - 1 \subseteq WordsOf(s, DOMAIN s)
<1> SUFFICES ASSUME NEW x \in HdrSize .. EndOf(s) - 1 PROVE x \in WordsOf(s, DOMAIN s)
  OBVIOUS
<1>1. /\ EndOf(s) \in Nat /\ EndOf(s) <= RegionSize /\ RegionSize \in Nat /\ HdrSize \in Nat
      /\ Len(s) \in Nat /\ DOMAIN s = 1 .. Len(s)
      /\ \A i \in DOMAIN s : s[i].addr \in Nat /\ s[i].size \in Nat
  BY EndBound, SeqFacts, RegionAssumption DEF HdrSize
<1>2. x \in 0 .. RegionSize /\ x \in Nat /\ HdrSize <= x /\ x < EndOf(s)
  BY <1>1
<1>3. s # <<>>
  BY <1>2 DEF EndOf, HdrSize
<1>4. 1 \in DOMAIN s /\ Len(s) \in DOMAIN s /\ s[1].addr = HdrSize
  <2>1. Len(s) >= 1
    BY <1>3, SeqFacts
  <2>2. 1 \in DOMAIN s /\ Len(s) \in DOMAIN s
    BY <1>1, <2>1
  <2> QED
    BY <2>2 DEF Chained
<1> DEFINE S == {i \in 1 .. Len(s) : s[i].addr <= x}
<1>5. S \in SUBSET (1 .. Len(s)) /\ S # {}
  <2>1. 1 \in 1 .. Len(s) /\ s[1].addr <= x
    BY <1>1, <1>2, <1>4
  <2> QED
    BY <2>1
<1>6. PICK i \in S : \A j \in S : i >= j
  BY <1>1, <1>5, GreatestElement
<1>7. i \in DOMAIN s /\ s[i].addr <= x /\ i \in Nat
  BY <1>1, <1>6
<1>8. x < s[i].addr + s[i].size
  <2>1. CASE i = Len(s)
    <3>1. EndOf(s) = s[i].addr + s[i].size
      BY <1>3, <1>7, <2>1 DEF EndOf, TornAt, LastOf, AllData
    <3> QED
      BY <1>2, <3>1
  <2>2. CASE i # Len(s)
    <3>1. i + 1 \in DOMAIN s /\ i + 1 \notin S /\ i + 1 # 1 /\ (i + 1) - 1 = i
      BY <1>1, <1>6, <1>7, <2>2
    <3>2. s[i + 1].addr = s[i].addr + s[i].size
      BY <3>1 DEF Chained
    <3>3. ~(s[i + 1].addr <= x)
      BY <1>1, <3>1
    <3> QED
      BY <1>1, <1>2, <3>1, <3>2, <3>3
  <2> QED
    BY <2>1, <2>2
<1> QED
  BY <1>2, <1>7, <1>8 DEF WordsOf

\* The words of two sets of entries without a common one add up.
LEMMA WordsSum ==
    ASSUME NEW s \in Seq(Entry), Chained(s), NEW T \in SUBSET (DOMAIN s),
           NEW U \in SUBSET (DOMAIN s), T \cap U = {}, \A i \in T \cup U : s[i].kind # "torn"
    PROVE  Cardinality(WordsOf(s, T \cup U)) =
              Cardinality(WordsOf(s, T)) + Cardinality(WordsOf(s, U))
<1>1. WordsOf(s, T \cup U) = WordsOf(s, T) \cup WordsOf(s, U)
  BY DEF WordsOf
<1>2. IsFiniteSet(WordsOf(s, T)) /\ IsFiniteSet(WordsOf(s, U))
  BY WordsType
<1>3. WordsOf(s, T) \cap WordsOf(s, U) = {}
  BY WordsDisjoint
<1> QED
  BY <1>1, <1>2, <1>3, DisjointUnion

\* Three sets of entries without a common one, which together are all, take
\* all the words of the log.
LEMMA WordsOfAll ==
    ASSUME NEW s \in Seq(Entry), Chained(s), AllData(s),
           NEW T \in SUBSET (DOMAIN s), NEW U \in SUBSET (DOMAIN s), NEW V \in SUBSET (DOMAIN s),
           T \cap U = {}, (T \cup U) \cap V = {}
    PROVE  /\ Cardinality(WordsOf(s, T)) \in Nat /\ Cardinality(WordsOf(s, U)) \in Nat
           /\ Cardinality(WordsOf(s, V)) \in Nat
           /\ HdrSize + Cardinality(WordsOf(s, T)) + Cardinality(WordsOf(s, U))
                      + Cardinality(WordsOf(s, V)) <= EndOf(s)
           /\ T \cup U \cup V = DOMAIN s =>
                 HdrSize + Cardinality(WordsOf(s, T)) + Cardinality(WordsOf(s, U))
                         + Cardinality(WordsOf(s, V)) >= EndOf(s)
<1> DEFINE t == Cardinality(WordsOf(s, T))
           u == Cardinality(WordsOf(s, U))
           v == Cardinality(WordsOf(s, V))
           w == Cardinality(WordsOf(s, T \cup U))
           I == HdrSize .. EndOf(s) - 1
<1>1. \A i \in DOMAIN s : s[i].kind # "torn"
  BY DEF AllData
<1>2. t \in Nat /\ u \in Nat /\ v \in Nat /\ w = t + u
  BY <1>1, WordsType, WordsSum
<1>3. HdrSize + w + v <= EndOf(s)
  BY <1>1, WordsBound
<1>4. EndOf(s) \in Nat /\ HdrSize \in Nat /\ HdrSize <= EndOf(s)
  BY EndBound DEF HdrSize
<1>5. T \cup U \cup V = DOMAIN s => HdrSize + w + v >= EndOf(s)
  <2> SUFFICES ASSUME T \cup U \cup V = DOMAIN s PROVE HdrSize + w + v >= EndOf(s)
    OBVIOUS
  <2>1. /\ T \cup U \in SUBSET (DOMAIN s) /\ DOMAIN s = (T \cup U) \cup V
        /\ \A i \in (T \cup U) \cup V : s[i].kind # "torn"
    BY <1>1
  <2>2. Cardinality(WordsOf(s, (T \cup U) \cup V)) = w + v
    BY <2>1, WordsSum
  <2>3. IsFiniteSet(WordsOf(s, DOMAIN s)) /\ Cardinality(WordsOf(s, DOMAIN s)) \in Nat
    BY <1>1, WordsType
  <2>4. I \in SUBSET WordsOf(s, DOMAIN s)
    BY WordsCover
  <2>5. Cardinality(I) <= w + v
    <3>1. Cardinality(I) <= Cardinality(WordsOf(s, DOMAIN s))
      BY <2>3, <2>4, FS_Subset
    <3>2. Cardinality(WordsOf(s, DOMAIN s)) = w + v
      BY <2>1, <2>2
    <3> QED
      BY <3>1, <3>2
  <2>6. Cardinality(I) = EndOf(s) - HdrSize
    <3>1. HdrSize \in Int /\ EndOf(s) - 1 \in Int
      BY <1>4
    <3>2. Cardinality(I) = IF HdrSize > EndOf(s) - 1 THEN 0 ELSE EndOf(s) - 1 - HdrSize + 1
      BY <3>1, FS_Interval
    <3> HIDE DEF I
    <3> QED
      BY <1>4, <3>2
  <2> HIDE DEF I, w, v
  <2> QED
    BY <1>2, <1>4, <2>5, <2>6
<1> HIDE DEF t, u, v, w
<1>6. /\ HdrSize + t + u + v <= EndOf(s)
      /\ T \cup U \cup V = DOMAIN s => HdrSize + t + u + v >= EndOf(s)
  BY <1>2, <1>3, <1>4, <1>5
<1> QED
  BY <1>2, <1>6 DEF t, u, v

\* With one value for each key there are no unused keys to remove.
LEMMA NoUnusedKeys ==
    ASSUME NEW s \in Seq(Entry), GoodLog(s), \A i \in KeysOf(s) : FindValueOf(s, i) # 0
    PROVE  Cardinality(KeysOf(s)) <= Cardinality(ValuesOf(s))
<1> DEFINE f == [i \in KeysOf(s) |-> FindValueOf(s, i)]
<1>1. f \in [KeysOf(s) -> ValuesOf(s)]
  BY FindFacts
<1>2. \A i, j \in KeysOf(s) : f[i] = f[j] => i = j
  BY CopiedType
<1>3. f \in Injection(KeysOf(s), ValuesOf(s))
  BY <1>1, <1>2 DEF Injection, IsInjective
<1> QED
  BY <1>3, CountKeys, FS_Injection

-----------------------------------------------------------------------------
(* The beginning of a call and its checks.                                 *)

\* Between the boots a region is mounted.
LEMMA PlainBase ==
    ASSUME DataInv, PlainInv, pc \in InCall \cup {"idle"}
    PROVE  /\ Mounted /\ info.base \in Regions /\ LogInv /\ TypeOK
           /\ log \in [Regions -> Seq(Entry)]
<1>1. LogInv /\ TypeOK /\ Mounted
  BY DEF DataInv, LogInv, TypeInv, PlainInv, StatusInv
<1> QED
  BY <1>1 DEF TypeOK, Mounted

\* Reading a key that has one value.
LEMMA OneValue ==
    ASSUME NEW s \in Seq(Entry), NEW i, NEW j, ValuesFor(s, i) = {j}
    PROVE  FindValueOf(s, i) = j /\ j # 0 /\ j \in ValuesOf(s)
<1>1. j \in Nat \ {0} /\ j \in ValuesOf(s)
  BY ValuesForType
<1> QED
  BY <1>1, ValuesForType, FirstOfOne

\* The call finds its key with one value, or not at all.
LEMMA PlainSetData ==
    ASSUME Plain, DataInv, PlainInv, NEW k \in Keys, NEW v \in Values, SetData(k, v)
    PROVE  PlainInv'
<1> DEFINE s == log[info.base]
           i == FindKey(info.base, k)
<1>1. pc = "idle" /\ info.base \in Regions /\ LogInv /\ TypeOK /\ Mounted
  BY PlainBase DEF SetData
<1>2. s \in Seq(Entry) /\ Numbered(s) /\ Distinct(s)
  BY <1>1, BaseFacts
<1>3. op = NoOp /\ ret = "none" /\ OneEach(s, Nil) /\ v # Nil
  BY <1>1, KeysAssumption DEF PlainInv, StatusInv, InCall, Setting, OneInv, OpenKey, NoOp
<1>4. /\ UNCHANGED <<log, info, hdr>> /\ op'.key = k /\ op'.val = v /\ op'.prev = LookupOf(s, k)
      /\ keyId' = IF i = 0 THEN 0 ELSE s[i].id
      /\ op'.clean = CleanKey(info.base, k)
      /\ \/ pc' = "return" /\ ret' = "OK"
         \/ pc' = "space" /\ ret' = ret
  BY <1>3, LookupIs DEF SetData, Finish, flash
<1>5. /\ i # 0 => i \in KeysOf(s) /\ s[i].data = k
      /\ i = 0 => Fresh(s, k)
  <2> DEFINE S == {m \in KeysOf(s) : s[m].data = k}
  <2>1. i = FirstOf(S)
    BY LookupIs
  <2>2. S \in SUBSET (Nat \ {0})
    BY <1>2, SeqFacts
  <2>3. i # 0 => i \in S
    BY <2>1, <2>2, FirstOfType
  <2>4. i = 0 => Fresh(s, k)
    BY <1>1, FindKeyFresh
  <2> QED
    BY <2>3, <2>4
<1>6. CleanKey(info.base, k)
  <2>1. CASE i = 0
    BY <2>1 DEF CleanKey
  <2>2. CASE i # 0
    <3>1. i \in KeysOf(s) /\ s[i].data # Nil
      BY <1>5, <2>2, KeysAssumption
    <3>2. PICK j : ValuesFor(s, i) = {j}
      BY <1>3, <3>1 DEF OneEach
    <3>3. Cardinality(ValuesFor(s, i)) = 1
      BY <3>2, FS_Singleton
    <3> QED
      BY <3>3, ReadsOf DEF CleanKey, ValuesFor
  <2> QED
    BY <2>1, <2>2
<1>7. keyId' = 0 => op'.prev = Nil
  BY <1>2, <1>4, <1>5, IdsDiffer, LookupFresh
<1> HIDE DEF i, s
<1>8. log'[info'.base] = s /\ info'.base = info.base /\ Mounted'
  BY <1>1, <1>4 DEF s, Mounted
<1>9. FirstBootInv'
  BY <1>4, <1>8 DEF FirstBootInv
<1>10. StatusInv'
  BY <1>3, <1>4, <1>6, <1>7, <1>8 DEF StatusInv, InCall, Setting
<1>11. OneInv'
  BY <1>3, <1>4, <1>8 DEF PlainInv, OneInv, OpenKey
<1>12. RoomInv' /\ FullMeansFull'
  BY <1>4 DEF RoomInv, FullMeansFull, Compacting
<1> QED
  BY <1>9, <1>10, <1>11, <1>12 DEF PlainInv

\* The old value of a call in progress, and its words.
LEMMA OldFacts ==
    ASSUME DataInv, PlainInv, pc \in Setting \ {"write", "validateKey", "validateValue"}
    PROVE  LET s == log[info.base]
           IN  /\ OldHere \in SUBSET ValuesOf(s)
               /\ OldHere = IF old.pos = 0 THEN {} ELSE {old.pos}
               /\ old.pos # 0 => old.region = info.base
               /\ Cardinality(WordsOf(s, OldHere)) = IF old.pos = 0 THEN 0 ELSE s[old.pos].size
<1> DEFINE s == log[info.base]
<1>1. info.base \in Regions /\ LogInv
  BY PlainBase DEF InCall
<1>2. s \in Seq(Entry) /\ Chained(s)
  BY <1>1, BaseFacts
<1>3. old.pos # 0 => old.region = info.base /\ old.pos \in ValuesOf(s)
  BY <1>1 DEF LogInv, CallInv, Setting
<1>4. OldHere = IF old.pos = 0 THEN {} ELSE {old.pos}
  BY <1>3 DEF OldHere
<1>5. WordsOf(s, {}) = {} /\ Cardinality({}) = 0
  BY FS_EmptySet DEF WordsOf
<1>6. ASSUME old.pos # 0 PROVE Cardinality(WordsOf(s, {old.pos})) = s[old.pos].size
  <2>1. old.pos \in DOMAIN s /\ s[old.pos].kind # "torn" /\ s[old.pos].size \in Nat
    BY <1>2, <1>3, <1>6, SeqFacts DEF ValuesOf
  <2>2. Cardinality(WordsOf(s, {} \cup {old.pos})) = Cardinality(WordsOf(s, {})) + s[old.pos].size
    BY <1>2, <2>1, WordsAdd
  <2>3. {} \cup {old.pos} = {old.pos}
    OBVIOUS
  <2> QED
    BY <1>5, <2>1, <2>2, <2>3
<1> QED
  BY <1>3, <1>4, <1>5, <1>6

\* Before the first write every word of the log is kept by a compaction, or
\* dropped, or the old value's.
LEMMA SpaceFacts ==
    ASSUME DataInv, PlainInv, pc = "space"
    PROVE  LET s == log[info.base]
           IN  /\ Cardinality(WordsOf(s, Dropped(s))) \in Nat
               /\ Cardinality(WordsOf(s, OldHere)) \in Nat
               /\ KeptWords(info.base) \in Nat
               /\ KeptWords(info.base) + Cardinality(WordsOf(s, Dropped(s)))
                     + Cardinality(WordsOf(s, OldHere)) >= info.end
               /\ UnusedKeys(info.base) <= 0
<1> DEFINE s == log[info.base]
           K == Pairs(info.base) \cup KeptValues(info.base)
           D == Dropped(s)
<1>1. info.base \in Regions /\ LogInv /\ TypeOK /\ OneEach(s, Nil) /\ AllData(s) /\ op.clean
  BY PlainBase DEF InCall, Setting, PlainInv, OneInv, OpenKey, StatusInv
<1>2. s \in Seq(Entry) /\ Chained(s) /\ Distinct(s) /\ GoodLog(s) /\ info.end = EndOf(s)
  BY <1>1, BaseFacts
<1>3. /\ Pairs(info.base) = {i \in KeysOf(s) : FindValueOf(s, i) # 0}
      /\ KeptValues(info.base) =
            {FindValueOf(s, i) : i \in {j \in Pairs(info.base) : s[j].data # op.key}}
  BY ReadsOf DEF Pairs, KeptValues
<1>4. \A i \in KeysOf(s) : s[i].data # Nil
  BY <1>1, ReadsOf, ScanType, KeysAssumption
<1>5. \A i \in KeysOf(s) : FindValueOf(s, i) # 0 /\ ValuesFor(s, i) = {FindValueOf(s, i)}
  <2> SUFFICES ASSUME NEW i \in KeysOf(s)
               PROVE  FindValueOf(s, i) # 0 /\ ValuesFor(s, i) = {FindValueOf(s, i)}
    OBVIOUS
  <2>1. PICK j : ValuesFor(s, i) = {j}
    BY <1>1, <1>4 DEF OneEach
  <2> QED
    BY <1>2, <2>1, OneValue
<1>6. Pairs(info.base) = KeysOf(s)
  BY <1>3, <1>5
<1>7. \A i \in KeysOf(s) : s[i].data = op.key => ValuesFor(s, i) = OldHere
  <2> SUFFICES ASSUME NEW i \in KeysOf(s), s[i].data = op.key PROVE ValuesFor(s, i) = OldHere
    OBVIOUS
  <2>1. keyId # 0
    BY <1>1 DEF LogInv, CallInv, Setting, Fresh
  <2>2. HasKey(s, op.key, keyId, OldHere)
    BY <1>1, <2>1 DEF DataInv, CleanInv, Setting
  <2> QED
    BY <1>2, <2>2 DEF HasKey, Distinct
<1>8. KeptValues(info.base) \in SUBSET ValuesOf(s) /\ KeysOf(s) \in SUBSET (DOMAIN s)
      /\ ValuesOf(s) \in SUBSET (DOMAIN s)
  BY <1>2, <1>3, <1>5, <1>6, ValuesForType DEF KeysOf, ValuesOf
<1>9. OldHere \in SUBSET ValuesOf(s)
  BY OldFacts DEF Setting
<1>10. OldHere \cap KeptValues(info.base) = {}
  <2> SUFFICES ASSUME NEW j \in OldHere, j \in KeptValues(info.base) PROVE FALSE
    OBVIOUS
  <2>1. PICK i \in KeysOf(s) : s[i].data # op.key /\ j = FindValueOf(s, i)
    BY <1>3, <1>6
  <2>2. s[i].id = s[j].id
    BY <1>2, <1>5, <2>1, FindFacts
  <2>3. old.pos # 0 /\ j = old.pos /\ old.region = info.base
    BY OldFacts DEF Setting
  <2> QED
    BY <2>1, <2>2, <2>3 DEF DataInv, OwnInv, Setting
<1>11. D \in SUBSET (DOMAIN s) /\ OldHere \in SUBSET (DOMAIN s) /\ K \in SUBSET (DOMAIN s)
  BY <1>6, <1>8, <1>9 DEF Dropped
<1>12. K \cap D = {} /\ (K \cup D) \cap OldHere = {}
  <2>1. \A i \in KeysOf(s) \cup ValuesOf(s) : i \notin D
    BY DEF Dropped, KeysOf, ValuesOf
  <2>2. KeysOf(s) \cap ValuesOf(s) = {}
    BY DEF KeysOf, ValuesOf
  <2> QED
    BY <1>6, <1>8, <1>9, <1>10, <2>1, <2>2
<1>13. K \cup D \cup OldHere = DOMAIN s
  <2> SUFFICES ASSUME NEW x \in DOMAIN s PROVE x \in K \cup D \cup OldHere
    BY <1>11
  <2>1. x \in D \/ x \in KeysOf(s) \/ x \in ValuesOf(s)
    BY <1>1 DEF AllData, Dropped, KeysOf, ValuesOf
  <2>2. ASSUME x \in ValuesOf(s) PROVE x \in K \cup OldHere
    <3>1. PICK i \in KeysOf(s) : x \in ValuesFor(s, i)
      BY <1>1, <2>2 DEF OneEach
    <3>2. x = FindValueOf(s, i)
      BY <1>5, <3>1
    <3>3. CASE s[i].data = op.key
      BY <1>7, <3>1, <3>3
    <3>4. CASE s[i].data # op.key
      BY <1>3, <1>6, <3>2, <3>4
    <3> QED
      BY <3>3, <3>4
  <2> QED
    BY <1>6, <2>1, <2>2
<1>14. KeptWords(info.base) = HdrSize + Cardinality(WordsOf(s, K))
  BY DEF KeptWords, Words, WordsOf
<1> HIDE DEF K, D
<1>15. /\ Cardinality(WordsOf(s, K)) \in Nat /\ Cardinality(WordsOf(s, D)) \in Nat
       /\ Cardinality(WordsOf(s, OldHere)) \in Nat
       /\ HdrSize + Cardinality(WordsOf(s, K)) + Cardinality(WordsOf(s, D))
                  + Cardinality(WordsOf(s, OldHere)) >= EndOf(s)
  BY <1>1, <1>2, <1>11, <1>12, <1>13, WordsOfAll
<1>16. UnusedKeys(info.base) <= 0
  <2>1. Cardinality(KeysOf(s)) <= Cardinality(ValuesOf(s))
    BY <1>2, <1>5, NoUnusedKeys
  <2>2. Cardinality(KeysOf(s)) \in Nat /\ Cardinality(ValuesOf(s)) \in Nat
    BY <1>2, CountKeys
  <2>3. UnusedKeys(info.base) = Cardinality(KeysOf(s)) - Cardinality(ValuesOf(s))
    BY ReadsOf DEF UnusedKeys
  <2> QED
    BY <2>1, <2>2, <2>3
<1> QED
  BY <1>2, <1>14, <1>15, <1>16 DEF HdrSize, D

\* The room a call needs.
LEMMA NeededType ==
    ASSUME LogInv, pc \in Setting
    PROVE  Needed \in Nat
<1>1. op.key \in Keys /\ op.val \in Values
  BY DEF LogInv, TypeInv, CallOK
<1>2. KeyLen[op.key] \in Nat /\ ValLen[op.val] \in Nat
  BY <1>1, LenAssumption
<1> QED
  BY <1>2 DEF Needed, EntrySize

\* The first check: there is room, or the words that a compaction leaves off
\* make room, or the region is really full.
LEMMA PlainCheckSpace ==
    ASSUME Plain, DataInv, PlainInv, info.left = 0, CheckSpace
    PROVE  PlainInv'
<1> DEFINE s == log[info.base]
           d == Cardinality(WordsOf(s, Dropped(s)))
           o == Cardinality(WordsOf(s, OldHere))
<1>1. pc = "space" /\ info.base \in Regions /\ LogInv /\ TypeOK /\ Mounted
      /\ PlainInv
  BY PlainBase DEF CheckSpace, InCall, Setting
<1>2. s \in Seq(Entry) /\ info.end \in Nat /\ Needed \in Nat /\ RegionSize \in Nat
  BY <1>1, BaseFacts, NeededType, RegionAssumption DEF Setting
<1>3. /\ d \in Nat /\ o \in Nat /\ KeptWords(info.base) \in Nat
      /\ KeptWords(info.base) + d + o >= info.end
      /\ UnusedKeys(info.base) <= 0
  BY <1>1, SpaceFacts
<1>4. Compactable(info.base) = d
  <2>1. AllData(s)
    BY <1>1 DEF PlainInv, OneInv
  <2>2. ~TornTail(info.base)
    BY <1>2, <2>1, SeqFacts DEF TornTail, LastOf, AllData
  <2>3. Compactable(info.base) = d + 0 + 0
    BY <2>2 DEF Compactable, Words, WordsOf, Dropped
  <2> HIDE DEF d
  <2> QED
    BY <1>3, <2>3
<1>5. (IF old.pos = 0 THEN 0 ELSE log[old.region][old.pos].size) = o
  BY <1>1, OldFacts DEF Setting
<1>6. /\ UNCHANGED <<log, hdr, op, keyId, old>> /\ info'.base = info.base /\ info'.end = info.end
      /\ \/ pc' = "ids" /\ ret' = ret
         \/ /\ pc' = "format" /\ ret' = ret /\ copy'.then = "full"
            /\ Needed <= RegionSize - info.end + (d + o)
         \/ /\ pc' = "return" /\ ret' = "ERR_FULL"
            /\ Needed > RegionSize - info.end + (d + o)
  <2> HIDE DEF d, o
  <2>1. /\ UNCHANGED <<log, hdr, op, keyId, old>> /\ info'.base = info.base /\ info'.end = info.end
    BY <1>1 DEF CheckSpace, flash, TypeOK
  <2>2. UnusedKeys(info.base) \in Int
    <3>1. UnusedKeys(info.base) = Cardinality(KeysOf(s)) - Cardinality(ValuesOf(s))
      BY ReadsOf DEF UnusedKeys
    <3> QED
      BY <1>2, <3>1, CountKeys
  <2>3. ~(UnusedKeys(info.base) > 0)
    BY <1>3, <2>2
  <2>4. \/ pc' = "ids" /\ ret' = ret
        \/ /\ pc' = "format" /\ ret' = ret /\ copy'.then = "full"
           /\ Needed <= FreeSpace + (d + o)
        \/ /\ pc' = "return" /\ ret' = "ERR_FULL"
           /\ ~(Needed <= FreeSpace + (d + o))
    BY <1>4, <1>5, <2>3 DEF CheckSpace, StartCompaction, Finish
  <2> QED
    BY <1>2, <1>3, <2>1, <2>4 DEF FreeSpace
<1>7. log'[info'.base] = s /\ Mounted' /\ OldHere' = OldHere /\ Needed' = Needed
  BY <1>1, <1>6 DEF Mounted, OldHere, Needed
<1>8. KeptWords(info.base)' = KeptWords(info.base)
  <2>1. log' = log /\ op' = op
    BY <1>6
  <2> QED
    BY <1>6, <2>1 DEF KeptWords, Words, Pairs, KeptValues, LiveKeys, FindValue, LiveValues
<1> HIDE DEF s, d, o
<1>9. FirstBootInv'
  BY <1>6, <1>7 DEF FirstBootInv
<1>10. StatusInv'
  BY <1>1, <1>6, <1>7 DEF PlainInv, StatusInv, InCall, Setting
<1>11. OneInv'
  <2>1. OneEach(s, Nil) /\ \A r \in Regions : AllData(log[r])
    BY <1>1 DEF PlainInv, OneInv, OpenKey, s
  <2>2. OneEach(s, op.key)
    BY <2>1, ReadsOf, ScanType, KeysAssumption, <1>1 DEF OneEach, s
  <2> QED
    BY <1>6, <1>7, <2>1, <2>2 DEF OneInv, OpenKey
<1>12. FullMeansFull'
  <2>1. ASSUME pc' = "return" PROVE (KeptWords(info.base) + Needed > RegionSize)'
    <3>1. KeptWords(info.base) + Needed > RegionSize
      BY <1>2, <1>3, <1>6, <2>1
    <3> QED
      BY <1>7, <1>8, <3>1
  <2> QED
    BY <2>1 DEF FullMeansFull
<1>13. RoomInv'
  <2>1. keyId # 0 => \E i \in KeysOf(s) : s[i].data = op.key /\ ValuesFor(s, i) = OldHere
    BY <1>1 DEF DataInv, CleanInv, PlainInv, StatusInv, InCall, Setting, HasKey, s
  <2>2. pc' = "format" => info.end + Needed <= RegionSize + d + o
    BY <1>2, <1>3, <1>6
  <2>3. d = Cardinality(WordsOf(s, Dropped(s))) /\ o = Cardinality(WordsOf(s, OldHere))
    BY DEF d, o
  <2> QED
    BY <1>6, <1>7, <2>1, <2>2, <2>3 DEF RoomInv, Compacting
<1> QED
  BY <1>9, <1>10, <1>11, <1>12, <1>13 DEF PlainInv

\* The other checks never find that there is no room after all, and say that
\* the store is full only if all ids are in use.
LEMMA PlainCheckRest ==
    ASSUME Plain, DataInv, PlainInv, CheckFull \/ CheckIds \/ CheckForce
    PROVE  PlainInv'
<1> DEFINE s == log[info.base]
<1>1. pc \in {"full", "ids", "force"} /\ info.base \in Regions /\ LogInv /\ TypeOK /\ Mounted
  <2>1. pc \in {"full", "ids", "force"}
    BY DEF CheckFull, CheckIds, CheckForce
  <2> QED
    BY <2>1, PlainBase DEF InCall, Setting
<1>2. /\ s \in Seq(Entry) /\ Numbered(s) /\ info.end \in Nat /\ Needed \in Nat
      /\ RegionSize \in Nat /\ MaxKeyId \in Nat
  BY <1>1, BaseFacts, NeededType, RegionAssumption, IdAssumption DEF Setting
<1>3. OneEach(s, op.key)
  BY <1>1 DEF PlainInv, OneInv, OpenKey
<1>4. /\ UNCHANGED <<log, hdr, op, keyId, old, info>>
      /\ \/ pc' \in {"ids", "force", "write"} /\ ret' = ret
         \/ pc' = "format" /\ ret' = ret /\ copy'.then \in {"force", "write"}
         \/ /\ pc' = "return" /\ ret' = "ERR_FULL" /\ keyId = 0
            /\ MaxIdOf(info.base) >= MaxKeyId
  <2>1. CASE CheckFull
    <3>1. Needed <= FreeSpace
      BY <1>2, <2>1 DEF CheckFull, FreeSpace, PlainInv, RoomInv
    <3>2. ~(Needed > FreeSpace)
      BY <1>2, <3>1 DEF FreeSpace
    <3> QED
      BY <2>1, <3>2 DEF CheckFull, flash
  <2>2. CASE CheckIds
    BY <2>2 DEF CheckIds, StartCompaction, Finish, flash
  <2>3. CASE CheckForce
    BY <2>3 DEF CheckForce, StartCompaction, flash
  <2> QED
    BY <2>1, <2>2, <2>3
<1>5. log'[info'.base] = s /\ Mounted' /\ OldHere' = OldHere
  BY <1>1, <1>4 DEF Mounted, OldHere
<1>6. keyId = 0 => Fresh(s, op.key)
  BY <1>1 DEF LogInv, CallInv, Setting
<1>7. FirstBootInv'
  BY <1>4, <1>5 DEF FirstBootInv
<1>8. StatusInv'
  BY <1>1, <1>4, <1>5 DEF PlainInv, StatusInv, InCall, Setting
<1>9. OneInv'
  <2>1. keyId = 0 => OneEach(s, Nil)
    BY <1>3, <1>6 DEF OneEach, Fresh
  <2>2. \A r \in Regions : AllData(log[r])
    BY DEF PlainInv, OneInv
  <2> QED
    BY <1>3, <1>4, <1>5, <2>1, <2>2 DEF OneInv, OpenKey
<1>10. RoomInv'
  <2>1. keyId # 0 => \E i \in KeysOf(s) : s[i].data = op.key /\ ValuesFor(s, i) = OldHere
    BY <1>1 DEF DataInv, CleanInv, PlainInv, StatusInv, InCall, Setting, HasKey
  <2> HIDE DEF s
  <2> QED
    BY <1>4, <1>5, <2>1 DEF RoomInv, Compacting
<1>11. FullMeansFull'
  <2> SUFFICES ASSUME pc' = "return" PROVE keyId' = 0 /\ Cardinality(Pairs(info.base))' >= MaxKeyId
    BY DEF FullMeansFull
  <2>1. keyId = 0 /\ MaxIdOf(info.base) >= MaxKeyId
    BY <1>4
  <2>2. \A i \in KeysOf(s) : FindValueOf(s, i) # 0
    BY <1>2, <1>3, <1>6, <2>1, OneValue DEF OneEach, Fresh
  <2>3. Pairs(info.base) = KeysOf(s)
    BY <2>2, ReadsOf DEF Pairs
  <2>4. MaxIdOf(info.base) = Cardinality(KeysOf(s))
    BY <1>1, <1>2, MaxIdIsCount
  <2>5. Pairs(info.base)' = Pairs(info.base)
    <3>1. log' = log
      BY <1>4
    <3> QED
      BY <1>4, <3>1 DEF Pairs, LiveKeys, FindValue, LiveValues
  <2> QED
    BY <1>4, <2>1, <2>3, <2>4, <2>5
<1> QED
  BY <1>7, <1>8, <1>9, <1>10, <1>11 DEF PlainInv

-----------------------------------------------------------------------------
(* Compacting.                                                             *)

\* A step inside a compaction that leaves the region in use alone.
LEMMA PlainCompacting ==
    ASSUME DataInv, PlainInv, Compacting, Compacting', UNCHANGED <<info, op, old, ret>>,
           copy'.then = copy.then, log'[info.base] = log[info.base], keyId' = 0 <=> keyId = 0,
           \A r \in Regions : AllData(log'[r]),
           pc' \in {"copy", "retire"} =>
              /\ OneEach(log'[Other(info.base)], op.key)
              /\ EndOf(log'[Other(info.base)]) <=
                    HdrSize + Cardinality(WordsOf(log[info.base], Kept(log[info.base], copy'.pos)))
    PROVE  PlainInv'
<1> DEFINE s == log[info.base]
<1>1. pc \in {"format", "copy", "retire"} /\ pc' \in {"format", "copy", "retire"}
  BY DEF Compacting
<1>2. Mounted /\ Mounted' /\ log'[info'.base] = s /\ OldHere' = OldHere /\ Needed' = Needed
  BY <1>1, PlainBase DEF InCall, Setting, Mounted, OldHere, Needed
<1>3. FirstBootInv' /\ FullMeansFull'
  BY <1>1, <1>2 DEF FirstBootInv, FullMeansFull
<1>4. StatusInv'
  BY <1>1, <1>2 DEF PlainInv, StatusInv, InCall, Setting
<1>5. OneInv'
  BY <1>1, <1>2 DEF PlainInv, OneInv, OpenKey
<1>6. RoomInv'
  <2>1. /\ copy.then = "full" =>
              info.end + Needed <= RegionSize + Cardinality(WordsOf(s, Dropped(s)))
                                              + Cardinality(WordsOf(s, OldHere))
        /\ keyId # 0 => \E i \in KeysOf(s) : s[i].data = op.key /\ ValuesFor(s, i) = OldHere
    BY DEF PlainInv, RoomInv
  <2>2. Kept(log[info.base], copy.pos)' = Kept(s, copy'.pos)
    BY <1>2 DEF Kept
  <2> HIDE DEF s
  <2> QED
    BY <1>1, <1>2, <2>1, <2>2 DEF RoomInv, Compacting, s
<1> QED
  BY <1>3, <1>4, <1>5, <1>6 DEF PlainInv

\* The erased region.
LEMMA PlainFormat ==
    ASSUME Plain, DataInv, PlainInv, CompactFormat
    PROVE  PlainInv'
<1> DEFINE s == log[info.base]
<1>1. /\ pc = "format" /\ pc' = "copy" /\ UNCHANGED <<info, op, old, ret, copy, keyId>>
      /\ info.base \in Regions /\ LogInv /\ log \in [Regions -> Seq(Entry)]
  BY PlainBase DEF CompactFormat, call, InCall, Setting
<1>2. Other(info.base) \in Regions /\ Other(info.base) # info.base /\ s \in Seq(Entry)
  BY <1>1, BaseFacts
<1>3. /\ log'[info.base] = s /\ log'[Other(info.base)] = <<>>
      /\ \A r \in Regions : log'[r] = log[r] \/ log'[r] = <<>>
  BY <1>1, <1>2 DEF CompactFormat, Format
<1>4. \A r \in Regions : AllData(log'[r])
  BY <1>3, OneEmpty DEF PlainInv, OneInv
<1>5. Cardinality(WordsOf(s, Kept(s, copy.pos))) \in Nat
  <2>1. copy.pos = 0 /\ CopiedKeys(s, 0) = {}
    BY <1>1, <1>2, SeqFacts DEF LogInv, CopyInv, CopiedKeys
  <2>2. Kept(s, copy.pos) = {}
    BY <2>1 DEF Kept, CopiedValues
  <2>3. WordsOf(s, {}) = {}
    BY DEF WordsOf
  <2> QED
    BY <2>2, <2>3, FS_EmptySet
<1>6. EndOf(<<>>) <= HdrSize + Cardinality(WordsOf(s, Kept(s, copy.pos)))
  BY <1>5 DEF EndOf, HdrSize
<1> QED
  BY <1>1, <1>3, <1>4, <1>6, OneEmpty, PlainCompacting DEF Compacting

\* The header of the new region.
LEMMA PlainActivate ==
    ASSUME Plain, DataInv, PlainInv, CompactActivate
    PROVE  PlainInv'
<1>1. /\ pc = "copy" /\ pc' = "retire" /\ UNCHANGED <<info, op, old, ret, copy, keyId, log>>
  BY DEF CompactActivate, call
<1>2. /\ \A r \in Regions : AllData(log[r])
      /\ OneEach(log[Other(info.base)], op.key)
      /\ EndOf(log[Other(info.base)]) <=
            HdrSize + Cardinality(WordsOf(log[info.base], Kept(log[info.base], copy.pos)))
  BY <1>1 DEF PlainInv, OneInv, RoomInv
<1> QED
  BY <1>1, <1>2, PlainCompacting DEF Compacting

\* The entries that the copying step writes.
LEMMA CopyForm ==
    ASSUME DataInv, CompactCopy
    PROVE  LET s == log[info.base]
               t == log[Other(info.base)]
               u == log'[Other(info.base)]
               i == FirstOf(RemainingPairs)
               j == FindValueOf(s, i)
           IN  \E e, f \in Entry :
                  /\ e.kind = "key" /\ e.st = "live" /\ f.kind = "value" /\ f.st = "live"
                  /\ \/ /\ s[i].id = keyId /\ keyId' = copy.id + 1
                        /\ u = Append(t, e) /\ EndOf(u) = EndOf(t) + s[i].size
                     \/ /\ s[i].id # keyId /\ keyId' = keyId
                        /\ u = Append(Append(t, e), f)
                        /\ EndOf(u) = EndOf(t) + s[i].size + s[j].size
<1> DEFINE s == log[info.base]
           t == log[Other(info.base)]
           u == log'[Other(info.base)]
           i == FirstOf(RemainingPairs)
           j == FindValueOf(s, i)
           id == copy.id + 1
           key == KeyEntry(EndOf(t), id, s[i].data, "live")
           val == ValueEntry(key.addr + key.size, id, s[j].data, "live")
<1>1. /\ pc = "copy" /\ RemainingPairs # {} /\ info.base \in Regions /\ LogInv /\ TypeOK
      /\ log \in [Regions -> Seq(Entry)] /\ copy.id \in Nat
  BY DEF CompactCopy, DataInv, LogInv, TypeInv, TypeOK, CallOK, Setting
<1>2. /\ s \in Seq(Entry) /\ Sized(s) /\ t \in Seq(Entry)
      /\ Other(info.base) \in Regions
  BY <1>1, BaseFacts
<1>3. i \in KeysOf(s) /\ j # 0
  BY <1>1, NextPair
<1>4. j \in ValuesOf(s)
  BY <1>2, <1>3, FindFacts
<1>5. EndOf(t) \in Nat /\ s[i].size \in Nat /\ s[j].size \in Nat
  BY <1>1, CopyRoom
<1>6. s[i].data \in Keys /\ s[j].data \in Values
  BY <1>1, <1>3, <1>4, ScanType, ReadsOf
<1>7. s[i].size = EntrySize(KeyLen[s[i].data]) /\ s[j].size = EntrySize(ValLen[s[j].data])
  BY <1>2, <1>3, <1>4 DEF Sized, KeysOf, ValuesOf
<1>8. /\ key \in Entry /\ key.addr = EndOf(t) /\ key.size = s[i].size
      /\ key.kind = "key" /\ key.st = "live" /\ key.addr + key.size \in Nat
  <2>1. key \in Entry
    <3>1. id \in Nat
      BY <1>1
    <3> HIDE DEF id
    <3> QED
      BY <1>5, <1>6, <3>1, NewEntryType
  <2> QED
    BY <1>5, <1>7, <2>1 DEF KeyEntry
<1>9. /\ val \in Entry /\ val.addr = EndOf(t) + s[i].size /\ val.size = s[j].size
      /\ val.kind = "value" /\ val.st = "live"
  <2>1. val \in Entry
    <3> DEFINE addr == key.addr + key.size
    <3>1. id \in Nat /\ addr \in Nat /\ s[j].data \in Values
      BY <1>1, <1>6, <1>8
    <3> HIDE DEF id, addr
    <3>2. ValueEntry(addr, id, s[j].data, "live") \in Entry
      BY <3>1, NewEntryType
    <3> QED
      BY <3>2 DEF addr
  <2> QED
    BY <1>7, <1>8, <2>1 DEF ValueEntry
<1>10. ScanEnd(Other(info.base)) = EndOf(t) /\ FindValue(info.base, i) = j
  BY ReadsOf
<1>11. \/ s[i].id = keyId /\ keyId' = id /\ log' = [log EXCEPT ![Other(info.base)] = Append(t, key)]
       \/ s[i].id # keyId /\ keyId' = keyId /\ log' = [log EXCEPT ![Other(info.base)] = t \o <<key, val>>]
  <2> HIDE DEF i
  <2> QED
    BY <1>1, <1>2, <1>10 DEF CompactCopy, i
<1> HIDE DEF key, val, i, j, t
<1>12. t \o <<key, val>> = Append(Append(t, key), val)
  BY <1>2, <1>8, <1>9, PairAppend
<1>13. \/ s[i].id = keyId /\ keyId' = id /\ u = Append(t, key)
       \/ s[i].id # keyId /\ keyId' = keyId /\ u = Append(Append(t, key), val)
  BY <1>1, <1>2, <1>11, <1>12
<1>14. ASSUME NEW e \in Entry, NEW x \in Seq(Entry), e.kind # "torn"
       PROVE  EndOf(Append(x, e)) = e.addr + e.size
  BY <1>14, AppendReads DEF EndOf, TornAt
<1>15. Append(t, key) \in Seq(Entry)
  BY <1>2, <1>8
<1>16. /\ EndOf(Append(t, key)) = EndOf(t) + s[i].size
       /\ EndOf(Append(Append(t, key), val)) = EndOf(t) + s[i].size + s[j].size
  BY <1>2, <1>8, <1>9, <1>14, <1>15
<1> HIDE DEF s, u
<1>17. /\ key \in Entry /\ val \in Entry
       /\ key.kind = "key" /\ key.st = "live" /\ val.kind = "value" /\ val.st = "live"
       /\ \/ s[i].id = keyId /\ keyId' = copy.id + 1 /\ u = Append(t, key) /\ EndOf(u) = EndOf(t) + s[i].size
          \/ s[i].id # keyId /\ keyId' = keyId /\ u = Append(Append(t, key), val)
             /\ EndOf(u) = EndOf(t) + s[i].size + s[j].size
  BY <1>8, <1>9, <1>13, <1>16
<1> QED
  BY <1>17 DEF s, t, u, i, j

\* What is kept grows by the pair that is copied, without the old value.
LEMMA KeptNext ==
    ASSUME DataInv, PlainInv, CompactCopy
    PROVE  LET s == log[info.base]
               i == FirstOf(RemainingPairs)
               j == FindValueOf(s, i)
               V == Cardinality(WordsOf(s, Kept(s, copy.pos)))
               W == Cardinality(WordsOf(s, Kept(s, i)))
           IN  /\ V \in Nat /\ s[i].size \in Nat /\ s[j].size \in Nat
               /\ s[i].id = keyId => s[i].data = op.key /\ W = V + s[i].size
               /\ s[i].id # keyId => s[i].data # op.key /\ W = V + s[i].size + s[j].size
<1> DEFINE s == log[info.base]
           p == copy.pos
           i == FirstOf(RemainingPairs)
           j == FindValueOf(s, i)
           V == Cardinality(WordsOf(s, Kept(s, p)))
           W == Cardinality(WordsOf(s, Kept(s, i)))
<1>1. /\ pc = "copy" /\ RemainingPairs # {} /\ info.base \in Regions /\ LogInv /\ TypeOK
      /\ p \in Nat /\ op.clean
  BY PlainBase DEF CompactCopy, InCall, Setting, TypeOK, PlainInv, StatusInv
<1>2. s \in Seq(Entry) /\ GoodLog(s) /\ Chained(s) /\ Distinct(s) /\ Numbered(s)
  BY <1>1, BaseFacts
<1>3. /\ i \in KeysOf(s) /\ i > p /\ j # 0 /\ i \in Nat
      /\ \A k \in KeysOf(s) : k > p /\ FindValueOf(s, k) # 0 => i <= k
  BY <1>1, NextPair
<1>4. j \in ValuesOf(s) /\ s[j].id = s[i].id
  BY <1>2, <1>3, FindFacts
<1>5. s[i].size \in Nat /\ s[j].size \in Nat
  BY <1>1, CopyRoom
<1> HIDE DEF i, s
<1>6. /\ CopiedKeys(s, i) = CopiedKeys(s, p) \cup {i}
      /\ CopiedValues(s, i) = CopiedValues(s, p) \cup {j}
      /\ i \notin CopiedKeys(s, p)
  <2>1. /\ s \in Seq(Entry) /\ GoodLog(s) /\ p \in Nat /\ i \in KeysOf(s) /\ i > p
        /\ FindValueOf(s, i) # 0
        /\ \A k \in KeysOf(s) : k > p /\ FindValueOf(s, k) # 0 => i <= k
    BY <1>1, <1>2, <1>3
  <2> HIDE DEF p
  <2> QED
    BY <2>1, CopiedNext
<1>7. j \notin CopiedValues(s, p)
  <2>1. \A k \in CopiedKeys(s, p) : k \in KeysOf(s) /\ FindValueOf(s, k) # 0
    BY DEF CopiedKeys
  <2>2. \A k \in CopiedKeys(s, p) : FindValueOf(s, k) # j
    BY <1>1, <1>2, <1>3, <1>6, <2>1, CopiedType
  <2> QED
    BY <2>2 DEF CopiedValues
<1>8. /\ CopiedKeys(s, p) \in SUBSET KeysOf(s) /\ CopiedValues(s, p) \in SUBSET ValuesOf(s)
  BY <1>1, <1>2, CopiedType
<1> DEFINE K == Kept(s, p)
<1>9. /\ K \in SUBSET (DOMAIN s) /\ i \in DOMAIN s /\ j \in DOMAIN s
      /\ i \notin K /\ j \notin K /\ i # j
      /\ \A k \in K \cup {i, j} : s[k].kind # "torn"
  BY <1>3, <1>4, <1>6, <1>7, <1>8 DEF Kept, KeysOf, ValuesOf
<1>10. V \in Nat
  BY <1>2, <1>9, WordsType
<1>11. Cardinality(WordsOf(s, K \cup {i})) = V + s[i].size
  BY <1>2, <1>9, WordsAdd
<1>12. Cardinality(WordsOf(s, (K \cup {i}) \cup {j})) = V + s[i].size + s[j].size
  <2>1. /\ K \cup {i} \in SUBSET (DOMAIN s) /\ j \notin K \cup {i}
        /\ \A k \in (K \cup {i}) \cup {j} : s[k].kind # "torn"
    BY <1>9
  <2>2. Cardinality(WordsOf(s, (K \cup {i}) \cup {j})) =
          Cardinality(WordsOf(s, K \cup {i})) + s[j].size
    BY <1>2, <1>9, <2>1, WordsAdd
  <2> QED
    BY <1>11, <2>2
<1>13. OldHere \in SUBSET ValuesOf(s) /\ i \notin OldHere
  <2>1. OldHere \in SUBSET ValuesOf(s)
    BY <1>1, OldFacts DEF Setting, s
  <2> QED
    BY <1>3, <2>1 DEF KeysOf, ValuesOf
<1>14. s[i].id = keyId => s[i].data = op.key /\ j \in OldHere
  <2> SUFFICES ASSUME s[i].id = keyId PROVE s[i].data = op.key /\ j \in OldHere
    OBVIOUS
  <2>1. s[i].data = op.key
    BY <1>1, <1>3 DEF DataInv, OwnInv, MayCompact, Compacting, CopyPos, s
  <2>2. keyId # 0
    BY <1>2, <1>3, IdsDiffer
  <2>3. PICK m \in KeysOf(s) : s[m].data = op.key /\ ValuesFor(s, m) = OldHere
    BY <1>1, <2>2 DEF PlainInv, RoomInv, Compacting, s
  <2>4. m = i
    BY <1>2, <1>3, <2>1, <2>3 DEF Distinct
  <2>5. j \in ValuesFor(s, i)
    BY <1>2, <1>3, ValuesForType
  <2> QED
    BY <2>1, <2>3, <2>4, <2>5
<1>15. s[i].id # keyId => s[i].data # op.key /\ j \notin OldHere
  <2> SUFFICES ASSUME s[i].id # keyId PROVE s[i].data # op.key /\ j \notin OldHere
    OBVIOUS
  <2>1. s[i].data # op.key
    <3> SUFFICES ASSUME s[i].data = op.key PROVE FALSE
      OBVIOUS
    <3>1. keyId # 0
      BY <1>1, <1>3 DEF LogInv, CallInv, Setting, Fresh, s
    <3>2. PICK m \in KeysOf(s) : s[m].data = op.key /\ (m > p => s[m].id = keyId)
      BY <1>1, <3>1 DEF DataInv, CleanInv, s
    <3>3. m = i
      BY <1>2, <1>3, <3>2 DEF Distinct
    <3> QED
      BY <1>3, <3>2, <3>3
  <2>2. ASSUME j \in OldHere PROVE FALSE
    <3>1. old.pos # 0 /\ old.region = info.base /\ j = old.pos
      BY <2>2 DEF OldHere
    <3> QED
      BY <1>1, <1>3, <1>4, <2>1, <3>1 DEF DataInv, OwnInv, Setting, s
  <2> QED
    BY <2>1, <2>2
<1>16. s[i].id = keyId => Kept(s, i) = K \cup {i}
  BY <1>6, <1>13, <1>14 DEF Kept
<1>17. s[i].id # keyId => Kept(s, i) = (K \cup {i}) \cup {j}
  BY <1>6, <1>13, <1>15 DEF Kept
<1>18. /\ s[i].id = keyId => s[i].data = op.key /\ W = V + s[i].size
       /\ s[i].id # keyId => s[i].data # op.key /\ W = V + s[i].size + s[j].size
  BY <1>11, <1>12, <1>14, <1>15, <1>16, <1>17
<1> QED
  BY <1>5, <1>10, <1>18 DEF s, i

\* Copying keeps one value for each key and takes no more words than are kept.
LEMMA PlainCopy ==
    ASSUME Plain, DataInv, PlainInv, CompactCopy
    PROVE  PlainInv'
<1> DEFINE s == log[info.base]
           t == log[Other(info.base)]
           u == log'[Other(info.base)]
           i == FirstOf(RemainingPairs)
           j == FindValueOf(s, i)
           n == Len(t) + 1
           V == Cardinality(WordsOf(s, Kept(s, copy.pos)))
           W == Cardinality(WordsOf(s, Kept(s, i)))
<1>1. /\ pc = "copy" /\ pc' = "copy" /\ UNCHANGED <<info, op, old>> /\ info.base \in Regions
      /\ s \in Seq(Entry) /\ log'[info.base] = s /\ LogInv /\ i \in KeysOf(s)
      /\ copy'.pos = i /\ copy.id + 1 \in Nat /\ copy.id + 1 # 0
      /\ t \in Seq(Entry) /\ u \in Seq(Entry) /\ KeysOf(u) = KeysOf(t) \cup {n}
      /\ \A m \in KeysOf(t) \cup ValuesOf(t) : u[m] = t[m]
      /\ \A m \in KeysOf(t) : ValuesFor(u, m) = ValuesFor(t, m)
      /\ u[n].data = s[i].data
      /\ s[i].id # keyId => ValuesFor(u, n) = {n + 1}
  BY CopyStep
<1>2. PICK e \in Entry, f \in Entry :
         /\ e.kind = "key" /\ e.st = "live" /\ f.kind = "value" /\ f.st = "live"
         /\ \/ /\ s[i].id = keyId /\ keyId' = copy.id + 1
               /\ u = Append(t, e) /\ EndOf(u) = EndOf(t) + s[i].size
            \/ /\ s[i].id # keyId /\ keyId' = keyId
               /\ u = Append(Append(t, e), f)
               /\ EndOf(u) = EndOf(t) + s[i].size + s[j].size
  BY CopyForm
<1>3. /\ V \in Nat /\ s[i].size \in Nat /\ s[j].size \in Nat
      /\ s[i].id = keyId => s[i].data = op.key /\ W = V + s[i].size
      /\ s[i].id # keyId => s[i].data # op.key /\ W = V + s[i].size + s[j].size
  BY KeptNext
<1>4. OneEach(t, op.key) /\ EndOf(t) <= HdrSize + V /\ \A r \in Regions : AllData(log[r])
  BY <1>1 DEF PlainInv, OneInv, RoomInv
<1>5. EndOf(t) \in Nat
  BY <1>1, BaseFacts, EndBound DEF GoodLog
<1>6. /\ Other(info.base) \in Regions /\ Other(info.base) # info.base
      /\ \A r \in Regions : r = info.base \/ r = Other(info.base)
      /\ s[i].id # 0
  <2>1. Numbered(s)
    BY <1>1, BaseFacts
  <2> QED
    BY <1>1, <2>1, IdsDiffer DEF Other, Regions
<1>7. ret' = ret /\ copy'.then = copy.then
  BY <1>1 DEF CompactCopy, LogInv, TypeInv, TypeOK
<1> HIDE DEF s, t, u, i, j, n, V, W
<1>8. keyId' = 0 <=> keyId = 0
  BY <1>1, <1>2, <1>6
<1>9. EndOf(u) <= HdrSize + W
  BY <1>2, <1>3, <1>4, <1>5 DEF HdrSize
<1> DEFINE t1 == Append(t, e)
           t2 == Append(t1, f)
<1>10. /\ t1 \in Seq(Entry) /\ ValuesOf(t1) = ValuesOf(t) /\ DOMAIN t1 = 1 .. n
       /\ t1[n] = e /\ \A m \in DOMAIN t : t1[m] = t[m]
       /\ Len(t1) = n /\ DOMAIN t = 1 .. Len(t) /\ Len(t) \in Nat
  BY <1>1, <1>2, AppendReads, SeqFacts DEF n
<1> HIDE DEF t1
<1>11. /\ ValuesOf(t2) = ValuesOf(t) \cup {n + 1} /\ DOMAIN t2 = 1 .. n + 1
       /\ t2[n + 1] = f /\ \A m \in DOMAIN t1 : t2[m] = t1[m]
  BY <1>2, <1>10, AppendReads
<1> HIDE DEF t2
<1>12. AllData(t1) /\ AllData(t2)
  <2>1. AllData(t)
    BY <1>4, <1>6 DEF t
  <2>2. \A m \in 1 .. n : m = n \/ m \in DOMAIN t
    BY <1>10 DEF n
  <2>3. AllData(t1)
    BY <1>2, <1>10, <2>1, <2>2 DEF AllData
  <2>4. \A m \in 1 .. n + 1 : m = n + 1 \/ m \in DOMAIN t1
    BY <1>10 DEF n
  <2>5. AllData(t2)
    BY <1>2, <1>11, <2>3, <2>4 DEF AllData
  <2> QED
    BY <2>3, <2>5
<1>13. \/ s[i].id = keyId /\ s[i].data = op.key /\ u = t1
       \/ s[i].id # keyId /\ s[i].data # op.key /\ u = t2
  BY <1>2, <1>3 DEF t1, t2
<1>14. \A r \in Regions : AllData(log'[r])
  <2>1. AllData(u)
    BY <1>12, <1>13
  <2> QED
    BY <1>1, <1>4, <1>6, <2>1 DEF s, u
<1>15. OneEach(u, op.key)
  <2>1. ASSUME NEW m \in KeysOf(u), u[m].data # op.key
        PROVE  \E y \in ValuesFor(u, m) : ValuesFor(u, m) = {y}
    <3>1. CASE m \in KeysOf(t)
      BY <1>1, <1>4, <2>1, <3>1 DEF OneEach
    <3>2. CASE m = n
      BY <1>1, <1>13, <2>1, <3>2
    <3> QED
      BY <1>1, <3>1, <3>2
  <2>2. ASSUME NEW y \in ValuesOf(u)
        PROVE  \E m \in KeysOf(u) : y \in ValuesFor(u, m)
    <3>1. CASE y \in ValuesOf(t)
      <4>1. PICK m \in KeysOf(t) : y \in ValuesFor(t, m)
        BY <1>4, <3>1 DEF OneEach
      <4> QED
        BY <1>1, <4>1
    <3>2. CASE y \notin ValuesOf(t)
      <4>1. u = t2 /\ s[i].id # keyId /\ y = n + 1
        BY <1>10, <1>11, <1>13, <2>2, <3>2
      <4> QED
        BY <1>1, <4>1
    <3> QED
      BY <3>1, <3>2
  <2> QED
    BY <2>1, <2>2 DEF OneEach
<1>16. /\ OneEach(log'[Other(info.base)], op.key)
       /\ EndOf(log'[Other(info.base)]) <=
             HdrSize + Cardinality(WordsOf(log[info.base], Kept(log[info.base], copy'.pos)))
  BY <1>1, <1>9, <1>15 DEF s, u, W
<1>17. Compacting /\ Compacting' /\ UNCHANGED <<info, op, old, ret>> /\ copy'.then = copy.then
       /\ log'[info.base] = log[info.base]
  BY <1>1, <1>7 DEF Compacting, s
<1> QED
  BY <1>8, <1>14, <1>16, <1>17, PlainCompacting

\* The new region is in use; the compaction has made the room it was for.
LEMMA PlainRetire ==
    ASSUME Plain, DataInv, PlainInv, info.left = 0, CompactRetire
    PROVE  PlainInv'
<1> DEFINE s == log[info.base]
           t == log[Other(info.base)]
           d == Cardinality(WordsOf(s, Dropped(s)))
           o == Cardinality(WordsOf(s, OldHere))
           K == Kept(s, copy.pos)
           w == Cardinality(WordsOf(s, K))
<1>1. /\ pc = "retire" /\ UNCHANGED <<log, op, keyId, ret>> /\ info'.base = Other(info.base)
      /\ info'.end = EndOf(t) /\ pc' = copy.then /\ pc' \in {"full", "force", "write"}
      /\ info.base \in Regions /\ LogInv /\ copy.pos \in Nat
  BY PlainBase, ReadsOf DEF CompactRetire, Sealed, LogInv, TypeInv, TypeOK, CallOK, InCall, Setting
<1>2. /\ s \in Seq(Entry) /\ GoodLog(s) /\ Chained(s) /\ t \in Seq(Entry) /\ GoodLog(t)
      /\ Other(info.base) \in Regions /\ info.end = EndOf(s) /\ info.end \in Nat
  BY <1>1, BaseFacts
<1>3. /\ AllData(s) /\ OneEach(t, op.key) /\ \A r \in Regions : AllData(log[r])
      /\ EndOf(t) <= HdrSize + w
      /\ copy.then = "full" => info.end + Needed <= RegionSize + d + o
  BY <1>1 DEF PlainInv, OneInv, RoomInv, Compacting
<1>4. Needed \in Nat /\ RegionSize \in Nat /\ EndOf(t) \in Nat
  BY <1>1, <1>2, NeededType, EndBound, RegionAssumption DEF Setting, GoodLog
<1>5. OldHere \in SUBSET ValuesOf(s)
  BY <1>1, OldFacts DEF Setting
<1>6. CopiedKeys(s, copy.pos) \in SUBSET KeysOf(s) /\ CopiedValues(s, copy.pos) \in SUBSET ValuesOf(s)
  BY <1>1, <1>2, CopiedType
<1>7. /\ K \in SUBSET (DOMAIN s) /\ Dropped(s) \in SUBSET (DOMAIN s) /\ OldHere \in SUBSET (DOMAIN s)
      /\ K \cap Dropped(s) = {} /\ (K \cup Dropped(s)) \cap OldHere = {}
  <2>1. /\ \A x \in KeysOf(s) : x \in DOMAIN s /\ x \notin Dropped(s) /\ x \notin ValuesOf(s)
        /\ \A x \in ValuesOf(s) : x \in DOMAIN s /\ x \notin Dropped(s)
    BY DEF KeysOf, ValuesOf, Dropped
  <2>2. Dropped(s) \in SUBSET (DOMAIN s)
    BY DEF Dropped
  <2>3. K \subseteq KeysOf(s) \cup (ValuesOf(s) \ OldHere)
    BY <1>6 DEF Kept
  <2> HIDE DEF K
  <2> QED
    BY <1>5, <2>1, <2>2, <2>3
<1>8. /\ w \in Nat /\ d \in Nat /\ o \in Nat
      /\ HdrSize + w + d + o <= EndOf(s)
  BY <1>2, <1>3, <1>7, WordsOfAll
<1> HIDE DEF s, t, d, o, w, K
<1>9. pc' = "full" => info'.end + Needed <= RegionSize
  BY <1>1, <1>2, <1>3, <1>4, <1>8 DEF HdrSize
<1>10. Needed' = Needed /\ Mounted' /\ log'[info'.base] = t
  BY <1>1, <1>2 DEF Needed, Mounted, Regions, NoRegion, t
<1>11. FirstBootInv' /\ FullMeansFull'
  BY <1>1, <1>10 DEF FirstBootInv, FullMeansFull
<1>12. StatusInv'
  BY <1>1, <1>10 DEF PlainInv, StatusInv, InCall, Setting
<1>13. OneInv'
  BY <1>1, <1>3, <1>10 DEF OneInv, OpenKey
<1>14. RoomInv'
  BY <1>1, <1>9, <1>10 DEF RoomInv, Compacting
<1> QED
  BY <1>11, <1>12, <1>13, <1>14 DEF PlainInv

-----------------------------------------------------------------------------
(* The writes of a call.                                                   *)

\* A step between the writes of a call, and one that decides on OK.
LEMMA PlainWriting ==
    ASSUME DataInv, PlainInv, pc \in {"write", "validateKey", "validateValue", "delete"},
           UNCHANGED <<op, old>>, info'.base = info.base,
           \A r \in Regions : AllData(log'[r]),
           \/ /\ pc' \in {"write", "validateKey", "validateValue", "delete"} /\ ret' = ret
              /\ keyId' # 0 /\ OneEach(log'[info.base], op.key)
           \/ /\ pc' = "return" /\ ret' = "OK" /\ OneEach(log'[info.base], Nil)
    PROVE  PlainInv'
<1>1. Mounted /\ Mounted'
  BY PlainBase DEF InCall, Setting, Mounted
<1>2. pc \in InCall /\ pc' \in InCall /\ pc' \notin {"space", "full"} /\ ~Compacting'
      /\ pc' \notin {"idle", "init", "scan", "failed"} \cup BootStates
  BY DEF InCall, Setting, Compacting, BootStates
<1>3. FirstBootInv'
  BY <1>1, <1>2 DEF FirstBootInv, BootStates
<1>4. StatusInv'
  BY <1>1, <1>2 DEF PlainInv, StatusInv, InCall, Setting
<1>5. OneInv'
  BY <1>2 DEF OneInv, OpenKey, Compacting
<1>6. RoomInv' /\ FullMeansFull'
  BY <1>2 DEF RoomInv, FullMeansFull, Compacting
<1> QED
  BY <1>3, <1>4, <1>5, <1>6 DEF PlainInv

\* A write of an entry that is not valid yet.
LEMMA PlainAppend ==
    ASSUME DataInv, PlainInv, pc = "write", pc' \in {"validateKey", "validateValue"},
           UNCHANGED <<op, old, ret>>, info'.base = info.base, keyId' # 0,
           NEW e \in Entry, e.kind \in {"key", "value"}, e.st # "live", AppendEntry(e)
    PROVE  PlainInv'
<1> DEFINE s == log[info.base]
           t == log'[info.base]
<1>1. info.base \in Regions /\ LogInv /\ log \in [Regions -> Seq(Entry)]
  BY PlainBase DEF InCall, Setting
<1>2. s \in Seq(Entry) /\ t = Append(s, e) /\ OneEach(s, op.key) /\ \A r \in Regions : AllData(log[r])
  BY <1>1, PlainBase DEF AppendEntry, PlainInv, OneInv, OpenKey, InCall, Setting
<1>3. /\ KeysOf(t) = KeysOf(s) /\ ValuesOf(t) = ValuesOf(s)
      /\ \A i \in KeysOf(s) \cup ValuesOf(s) : t[i] = s[i]
      /\ \A i \in KeysOf(s) : ValuesFor(t, i) = ValuesFor(s, i)
      /\ \A q \in Regions : q # info.base => log'[q] = log[q]
  BY <1>1, AppendInvalid
<1> HIDE DEF s, t
<1>4. OneEach(t, op.key)
  <2>1. ASSUME NEW i \in KeysOf(t), t[i].data # op.key
        PROVE  \E j \in ValuesFor(t, i) : ValuesFor(t, i) = {j}
    <3>1. i \in KeysOf(s) /\ s[i].data # op.key /\ ValuesFor(t, i) = ValuesFor(s, i)
      BY <1>3, <2>1
    <3> QED
      BY <1>2, <3>1 DEF OneEach
  <2>2. \A j \in ValuesOf(t) : \E i \in KeysOf(t) : j \in ValuesFor(t, i)
    BY <1>2, <1>3 DEF OneEach
  <2> QED
    BY <2>1, <2>2 DEF OneEach
<1>5. AllData(t)
  <2>1. /\ DOMAIN t = 1 .. Len(s) + 1 /\ DOMAIN s = 1 .. Len(s) /\ Len(s) \in Nat
        /\ t[Len(s) + 1] = e /\ \A i \in DOMAIN s : t[i] = s[i]
    BY <1>2, AppendReads, SeqFacts
  <2>2. \A i \in DOMAIN t : i = Len(s) + 1 \/ i \in DOMAIN s
    BY <2>1
  <2>3. AllData(s)
    BY <1>1, <1>2 DEF s
  <2> QED
    BY <2>1, <2>2, <2>3 DEF AllData
<1>6. \A r \in Regions : AllData(log'[r])
  BY <1>2, <1>3, <1>5 DEF t
<1>7. OneEach(log'[info.base], op.key)
  BY <1>4 DEF t
<1> QED
  BY <1>6, <1>7, PlainWriting

\* The new key, ...
LEMMA PlainWriteKey ==
    ASSUME Plain, DataInv, PlainInv, WriteKey
    PROVE  PlainInv'
<1> DEFINE id == MaxIdOf(info.base) + 1
           e == KeyEntry(info.end, id, op.key, "new")
<1>1. /\ pc = "write" /\ pc' = "validateKey" /\ AppendEntry(e) /\ keyId' = id
      /\ info'.base = info.base /\ UNCHANGED <<op, old, ret>> /\ LogInv
  BY DEF WriteKey, Advance, DataInv, LogInv, TypeInv, TypeOK
<1>2. /\ info.base \in Regions /\ op.key \in Keys /\ TypeOK /\ info.end \in Nat
      /\ log[info.base] \in Seq(Entry) /\ Numbered(log[info.base])
  BY <1>1, WriteFacts, BaseFacts
<1>3. id \in Nat /\ id # 0
  BY <1>2, MaxIdIsCount, CountKeys
<1>4. e \in Entry /\ e.st # "live" /\ e.kind = "key"
  BY <1>2, <1>3, NewEntryType DEF KeyEntry
<1> HIDE DEF e, id
<1> QED
  BY <1>1, <1>3, <1>4, PlainAppend

\* ... and the new value.
LEMMA PlainWriteValue ==
    ASSUME Plain, DataInv, PlainInv, WriteValue
    PROVE  PlainInv'
<1> DEFINE e == ValueEntry(info.end, keyId, op.val, "new")
<1>1. /\ pc = "write" /\ pc' = "validateValue" /\ AppendEntry(e) /\ keyId' = keyId /\ keyId # 0
      /\ info'.base = info.base /\ UNCHANGED <<op, old, ret>> /\ LogInv
  BY DEF WriteValue, Advance, call, DataInv, LogInv, TypeInv, TypeOK
<1>2. /\ info.base \in Regions /\ op.val \in Values /\ info.end \in Nat /\ keyId \in Nat
  BY <1>1, WriteFacts
<1>3. e \in Entry /\ e.st # "live" /\ e.kind = "value"
  BY <1>2, NewEntryType DEF ValueEntry
<1> HIDE DEF e
<1> QED
  BY <1>1, <1>3, PlainAppend

\* A valid entry is a key or a value as before.
LEMMA AllDataValidate ==
    ASSUME DataInv, PlainInv, pc \in {"validateKey", "validateValue"}, Validate
    PROVE  \A r \in Regions : AllData(log'[r])
<1> DEFINE s == log[info.base]
           t == log'[info.base]
           n == Len(s)
<1>1. /\ info.base \in Regions /\ log \in [Regions -> Seq(Entry)] /\ s \in Seq(Entry)
      /\ \A r \in Regions : AllData(log[r])
  BY PlainBase DEF InCall, Setting, PlainInv, OneInv
<1>2. t = [s EXCEPT ![n].st = "live"] /\ \A q \in Regions : q # info.base => log'[q] = log[q]
  BY <1>1 DEF Validate
<1>3. \A i \in DOMAIN s : s[i] \in EntryRecord
  BY <1>1, SeqFacts
<1>4. DOMAIN t = DOMAIN s /\ \A i \in DOMAIN s : t[i].kind = s[i].kind
  <2>1. DOMAIN t = DOMAIN s
    BY <1>2
  <2>2. \A i \in DOMAIN s : t[i] = s[i] \/ t[i] = [s[i] EXCEPT !.st = "live"]
    BY <1>2
  <2> HIDE DEF s, t
  <2> QED
    BY <1>3, <2>1, <2>2 DEF EntryRecord
<1>5. AllData(t)
  BY <1>1, <1>4 DEF AllData
<1> QED
  BY <1>1, <1>2, <1>5

\* The new key has no value yet, but it is the key that is being set.
LEMMA PlainValidateKey ==
    ASSUME Plain, DataInv, PlainInv, ValidateKey, TypeInv'
    PROVE  PlainInv'
<1> DEFINE s == log[info.base]
           t == log'[info.base]
           n == Len(s)
<1>1. /\ pc = "validateKey" /\ pc' = "write" /\ Validate /\ UNCHANGED <<info, op, keyId, old, ret>>
      /\ LogInv
  BY DEF ValidateKey, call, DataInv
<1>2. /\ n \in Nat \ {0} /\ KeysOf(t) = KeysOf(s) \cup {n} /\ ValuesOf(t) = ValuesOf(s)
      /\ \A i \in KeysOf(s) \cup ValuesOf(s) : i < n /\ i \in Nat /\ t[i] = s[i]
      /\ t[n].id = LastOf(s).id /\ t[n].data = LastOf(s).data
  BY <1>1, ValidateReads
<1>3. LastOf(s).data = op.key /\ LastOf(s).id = keyId
      /\ keyId # 0 /\ OneEach(s, op.key)
  <2>1. LastOf(s).data = op.key /\ LastOf(s).id = keyId /\ LastOf(s).id = Cardinality(KeysOf(s)) + 1
    BY <1>1 DEF DataInv, OwnInv, LogInv, LastInv
  <2>2. s \in Seq(Entry) /\ Mounted
    BY <1>1, PlainBase DEF InCall, Setting
  <2>3. keyId # 0
    BY <2>1, <2>2, CountKeys
  <2> QED
    BY <1>1, <2>1, <2>2, <2>3 DEF PlainInv, OneInv, OpenKey
<1>4. \A r \in Regions : AllData(log'[r])
  BY <1>1, AllDataValidate
<1> HIDE DEF s, t, n
<1>5. \A i \in KeysOf(s) : ValuesFor(t, i) = ValuesFor(s, i)
  BY <1>2, ValuesSame
<1>6. OneEach(t, op.key)
  BY <1>2, <1>3, <1>5 DEF OneEach
<1>7. OneEach(log'[info.base], op.key)
  BY <1>6 DEF t
<1> QED
  BY <1>1, <1>3, <1>4, <1>7, PlainWriting

\* The key that is being set has the new value, and the old one if that is in
\* the region in use.
LEMMA PlainValidateValue ==
    ASSUME Plain, DataInv, PlainInv, ValidateValue, TypeInv'
    PROVE  PlainInv'
<1> DEFINE s == log[info.base]
           t == log'[info.base]
           n == Len(s)
<1>1. /\ pc = "validateValue" /\ Validate /\ UNCHANGED <<info, op, keyId, old>> /\ LogInv
      /\ \/ old.pos = 0 /\ pc' = "return" /\ ret' = "OK"
         \/ old.pos # 0 /\ pc' = "delete" /\ ret' = ret
  BY DEF ValidateValue, Finish, DataInv
<1>2. /\ n \in Nat \ {0} /\ KeysOf(t) = KeysOf(s) /\ ValuesOf(t) = ValuesOf(s) \cup {n}
      /\ \A i \in KeysOf(s) \cup ValuesOf(s) : i < n /\ i \in Nat /\ t[i] = s[i]
      /\ t[n].id = LastOf(s).id
  BY <1>1, ValidateReads
<1>3. /\ info.base \in Regions /\ s \in Seq(Entry) /\ Numbered(s) /\ Distinct(s) /\ Mounted /\ op.clean
  BY <1>1, PlainBase, BaseFacts DEF InCall, Setting, PlainInv, StatusInv
<1>4. LastOf(s).id = keyId /\ keyId # 0 /\ OneEach(s, op.key)
  BY <1>1, <1>3 DEF DataInv, OwnInv, PlainInv, OneInv, OpenKey
<1>5. PICK i \in KeysOf(s) : s[i].data = op.key /\ s[i].id = keyId /\ ValuesFor(s, i) = OldHere
  BY <1>1, <1>3, <1>4 DEF DataInv, CleanInv, Setting, HasKey
<1>6. \A r \in Regions : AllData(log'[r])
  BY <1>1, AllDataValidate
<1> HIDE DEF s, t, n
<1>7. \A m \in KeysOf(s) : ValuesFor(t, m) = {j \in ValuesOf(s) \cup {n} : j > m /\ t[j].id = s[m].id}
  BY <1>2 DEF ValuesFor
<1>8. ASSUME NEW m \in KeysOf(s), m # i PROVE ValuesFor(t, m) = ValuesFor(s, m)
  <2>1. t[n].id # s[m].id
    BY <1>2, <1>3, <1>4, <1>5, <1>8, IdsDiffer
  <2> QED
    BY <1>2, <1>7, <2>1 DEF ValuesFor
<1>9. ValuesFor(t, i) = OldHere \cup {n}
  <2>1. n > i /\ t[n].id = s[i].id /\ \A j \in ValuesOf(s) : t[j].id = s[j].id
    BY <1>2, <1>4, <1>5
  <2>2. ValuesFor(t, i) = ValuesFor(s, i) \cup {n}
    BY <1>7, <2>1 DEF ValuesFor
  <2> QED
    BY <1>5, <2>2
<1>10. \A m \in KeysOf(s) : t[m].data = op.key => m = i
  BY <1>2, <1>3, <1>5 DEF Distinct
<1>11. \A m \in KeysOf(t) : m # i => \E j \in ValuesFor(t, m) : ValuesFor(t, m) = {j}
  BY <1>2, <1>3, <1>4, <1>5, <1>8 DEF OneEach, Distinct
<1>12. \A j \in ValuesOf(t) : \E m \in KeysOf(t) : j \in ValuesFor(t, m)
  <2> SUFFICES ASSUME NEW j \in ValuesOf(t) PROVE \E m \in KeysOf(t) : j \in ValuesFor(t, m)
    OBVIOUS
  <2>1. CASE j = n
    BY <1>2, <1>5, <1>9, <2>1
  <2>2. CASE j \in ValuesOf(s)
    <3>1. PICK m \in KeysOf(s) : j \in ValuesFor(s, m)
      BY <1>4, <2>2 DEF OneEach
    <3> QED
      BY <1>2, <1>5, <1>8, <1>9, <3>1
  <2> QED
    BY <1>2, <2>1, <2>2
<1>13. OneEach(t, op.key)
  BY <1>2, <1>5, <1>11, <1>12 DEF OneEach
<1>14. old.pos = 0 => OneEach(t, Nil)
  <2> SUFFICES ASSUME old.pos = 0 PROVE OneEach(t, Nil)
    OBVIOUS
  <2>1. ValuesFor(t, i) = {n}
    BY <1>9 DEF OldHere
  <2> QED
    BY <1>11, <1>12, <2>1 DEF OneEach
<1>15. OneEach(log'[info.base], op.key) /\ (old.pos = 0 => OneEach(log'[info.base], Nil))
       /\ keyId' # 0 /\ info'.base = info.base
  BY <1>1, <1>4, <1>13, <1>14 DEF t
<1> QED
  BY <1>1, <1>6, <1>15, PlainWriting

\* The key that was set has the new value alone.
LEMMA PlainDeleteOld ==
    ASSUME Plain, DataInv, PlainInv, DeleteOld, TypeInv'
    PROVE  PlainInv'
<1> DEFINE s == log[info.base]
           t == log'[info.base]
<1>1. /\ pc = "delete" /\ MarkDeleted /\ UNCHANGED <<info, op, keyId, old>> /\ LogInv
      /\ pc' = "return" /\ ret' = "OK"
  BY DEF DeleteOld, Finish, DataInv
<1>2. /\ t \in Seq(Entry) /\ info.base \in Regions
      /\ KeysOf(t) = KeysOf(s) /\ ValuesOf(t) = ValuesOf(s) \ OldHere
      /\ \A i \in KeysOf(t) \cup ValuesOf(t) : t[i] = s[i]
  BY <1>1, DeleteReads
<1>3. /\ s \in Seq(Entry) /\ Distinct(s) /\ Mounted /\ op.clean /\ op.val # Nil
      /\ log \in [Regions -> Seq(Entry)] /\ OneEach(s, op.key) /\ \A r \in Regions : AllData(log[r])
  BY <1>1, <1>2, PlainBase, BaseFacts, KeysAssumption
     DEF InCall, PlainInv, StatusInv, OneInv, OpenKey
<1>4. PICK i \in KeysOf(s) :
         /\ s[i].data = op.key
         /\ \E n \in ValuesOf(s) : n \notin OldHere /\ ValuesFor(s, i) = OldHere \cup {n}
  BY <1>1, <1>3 DEF DataInv, CleanInv
<1>5. \A m \in KeysOf(s), j \in OldHere : s[m].data # op.key => s[m].id # s[j].id
  BY <1>1 DEF DataInv, OwnInv, OldHere
<1>6. \A r \in Regions : AllData(log'[r])
  <2> SUFFICES ASSUME NEW r \in Regions, NEW x \in DOMAIN log'[r]
               PROVE  log'[r][x].kind \in {"key", "value"}
    BY DEF AllData
  <2>1. x \in DOMAIN log[r] /\ (log'[r][x] = log[r][x] \/ log'[r][x] = Deleted(log[r][x]))
    BY <1>1, <1>3 DEF MarkDeleted
  <2>2. log[r][x] \in EntryRecord /\ log[r][x].kind \in {"key", "value"}
    BY <1>3, <2>1, SeqFacts DEF AllData
  <2>3. Deleted(log[r][x]).kind = log[r][x].kind
    BY <2>2 DEF Deleted, EntryRecord
  <2> QED
    BY <2>1, <2>2, <2>3
<1> HIDE DEF s, t
<1>7. \A m \in KeysOf(s) : ValuesFor(t, m) = ValuesFor(s, m) \ OldHere
  BY <1>2 DEF ValuesFor
<1>8. OneEach(t, Nil)
  <2>1. ASSUME NEW m \in KeysOf(t) PROVE \E j \in ValuesFor(t, m) : ValuesFor(t, m) = {j}
    <3>1. CASE m = i
      BY <1>2, <1>4, <1>7, <3>1
    <3>2. CASE m # i
      <4>1. s[m].data # op.key /\ m \in KeysOf(s)
        BY <1>2, <1>3, <1>4, <3>2 DEF Distinct
      <4>2. ValuesFor(s, m) \cap OldHere = {}
        BY <1>5, <4>1 DEF ValuesFor
      <4> QED
        BY <1>3, <1>7, <4>1, <4>2 DEF OneEach
    <3> QED
      BY <3>1, <3>2
  <2>2. ASSUME NEW j \in ValuesOf(t) PROVE \E m \in KeysOf(t) : j \in ValuesFor(t, m)
    <3>1. j \in ValuesOf(s) /\ j \notin OldHere
      BY <1>2
    <3>2. PICK m \in KeysOf(s) : j \in ValuesFor(s, m)
      BY <1>3, <3>1 DEF OneEach
    <3> QED
      BY <1>2, <1>7, <3>1, <3>2
  <2> QED
    BY <2>1, <2>2 DEF OneEach
<1>9. OneEach(log'[info.base], Nil) /\ info'.base = info.base
  BY <1>1, <1>8 DEF t
<1> QED
  BY <1>1, <1>6, <1>9, PlainWriting

\* The call is over.
LEMMA PlainReturn ==
    ASSUME Plain, DataInv, PlainInv, Return
    PROVE  PlainInv'
<1>1. /\ pc = "return" /\ UNCHANGED <<hdr, log, info>> /\ op' = NoOp /\ ret' = "none"
      /\ pc' = IF info.base = NoRegion THEN "failed" ELSE "idle"
  BY DEF Return, flash
<1>2. Mounted /\ OneEach(log[info.base], Nil) /\ \A r \in Regions : AllData(log[r])
  BY <1>1, PlainBase DEF InCall, PlainInv, OneInv, OpenKey
<1>3. pc' = "idle" /\ Mounted'
  BY <1>1, <1>2 DEF Mounted
<1>4. FirstBootInv'
  BY <1>1, <1>3 DEF FirstBootInv
<1>5. StatusInv'
  BY <1>1, <1>3 DEF StatusInv, InCall, Setting
<1>6. OneInv'
  BY <1>1, <1>2, <1>3 DEF OneInv, OpenKey, NoOp
<1>7. RoomInv' /\ FullMeansFull'
  BY <1>3 DEF RoomInv, FullMeansFull, Compacting
<1> QED
  BY <1>4, <1>5, <1>6, <1>7 DEF PlainInv

-----------------------------------------------------------------------------
(* The invariant.                                                          *)

\* A step that changes nothing.
LEMMA PlainStutter ==
    ASSUME PlainInv, UNCHANGED vars
    PROVE  PlainInv'
<1>1. UNCHANGED <<hdr, log, info, pc, op, keyId, old, copy, ret>>
  BY DEF vars, flash, call
<1>2. FirstBootInv' /\ StatusInv' /\ OneInv'
  BY <1>1 DEF PlainInv, FirstBootInv, Mounted, StatusInv, OneInv, OpenKey
<1>3. RoomInv'
  BY <1>1 DEF PlainInv, RoomInv, Compacting, OldHere, Needed, Kept
<1>4. FullMeansFull'
  <2>1. log' = log /\ op' = op /\ info' = info
    BY <1>1
  <2>2. Pairs(info.base)' = Pairs(info.base) /\ KeptWords(info.base)' = KeptWords(info.base)
    BY <2>1 DEF KeptWords, Words, Pairs, KeptValues, LiveKeys, FindValue, LiveValues
  <2>3. Needed' = Needed
    BY <1>1 DEF Needed
  <2> QED
    BY <1>1, <2>2, <2>3 DEF PlainInv, FullMeansFull
<1> QED
  BY <1>2, <1>3, <1>4 DEF PlainInv

\* Every step keeps the invariant.
LEMMA StoreNext ==
    ASSUME Plain
    PROVE  StoreInv /\ [Next]_vars => StoreInv'
<1> SUFFICES ASSUME StoreInv, [Next]_vars PROVE StoreInv'
  OBVIOUS
<1>1. DataInv /\ PlainInv /\ LogInv /\ TypeOK /\ FirstBootInv /\ info.left = 0
  BY DEF StoreInv, PlainInv, DataInv, LogInv, TypeInv
<1>2. DataInv'
  BY <1>1, DataNext
<1>3. TypeInv'
  BY <1>2 DEF DataInv, LogInv
<1>4. PlainInv'
  <2>1. CASE UNCHANGED vars
    BY <1>1, <2>1, PlainStutter
  <2>2. CASE Boot
    BY <1>1, <2>2, PlainBoot
  <2>3. CASE Check
    BY <1>1, <2>3, PlainCheckSpace, PlainCheckRest DEF Check
  <2>4. CASE Compact
    BY <1>1, <2>4, PlainFormat, PlainCopy, PlainActivate, PlainRetire DEF Compact
  <2>5. CASE Write
    BY <1>1, <1>3, <2>5, PlainWriteKey, PlainValidateKey, PlainWriteValue, PlainValidateValue,
       PlainDeleteOld, PlainReturn DEF Write, WriteOverLeft
  <2>6. CASE \E k \in Keys, v \in Values : SetData(k, v)
    BY <1>1, <2>6, PlainSetData
  <2> QED
    BY <1>1, <2>1, <2>2, <2>3, <2>4, <2>5, <2>6, PlainSteps
<1>5. info'.left = 0
  BY <1>1, NothingLeft
<1> QED
  BY <1>2, <1>4, <1>5 DEF StoreInv, PlainInv

\* While the power stays on and no flash operation fails, each key has one
\* value between the calls, and a compaction makes the room that the check
\* before it has promised.
THEOREM StoreInvariant ==
    ASSUME Plain
    PROVE  Spec => []StoreInv
<1>1. Init => StoreInv
  BY DataInit, PlainInit DEF StoreInv, PlainInv, Init, NoInfo
<1>2. StoreInv /\ [Next]_vars => StoreInv'
  BY StoreNext
<1> QED
  BY <1>1, <1>2, PTL DEF Spec

\* ERR_FULL is returned only when compacting would not help: the pairs to keep
\* and the new entries do not fit in a region, or every id is in use.
THEOREM FullMeansFullHolds ==
    ASSUME Plain
    PROVE  Spec => []FullMeansFull
<1>1. StoreInv => FullMeansFull
  BY DEF StoreInv
<1> QED
  BY <1>1, StoreInvariant, PTL

-----------------------------------------------------------------------------
(* The refinement: what the callers see of one parameter.                  *)

View(k) == IF ~Mounted THEN Nil
           ELSE IF k = op.key /\ pc # "return" THEN op.prev
           ELSE LookupOf(log[info.base], k)

\* The map that the callers know, key by key, before and after a step.
LEMMA ViewIs ==
    /\ CallerView = [k \in Keys |-> View(k)]
    /\ CallerView' = [k \in Keys |-> View(k)']
BY DEF CallerView, View, Lookup, LookupOf, FindKey, FindValue, FindValueOf, LiveKeys, LiveValues,
       KeysOf, ValuesOf

\* A step that the callers do not see.
LEMMA HiddenStep ==
    ASSUME UNCHANGED <<op, ret>>, \A k \in Keys : View(k)' = View(k)
    PROVE  UNCHANGED Store!storeVars
<1>1. CallerView' = CallerView
  BY ViewIs
<1> QED
  BY <1>1 DEF Store!storeVars

\* Inside a call a step is not seen if the other parameters read the same.
LEMMA HiddenInCall ==
    ASSUME DataInv, PlainInv, pc \in InCall \ {"return"}, pc' # "return", UNCHANGED <<op, ret>>,
           info'.base \in Regions,
           \A k \in Keys : k # op.key => LookupOf(log'[info'.base], k) = LookupOf(log[info.base], k)
    PROVE  UNCHANGED Store!storeVars
<1>1. Mounted /\ Mounted' /\ pc # "return"
  BY PlainBase DEF Mounted, Regions, NoRegion
<1>2. \A k \in Keys : View(k)' = View(k)
  BY <1>1 DEF View
<1> QED
  BY <1>2, HiddenStep

\* The first boot is not seen.
LEMMA HiddenBoot ==
    ASSUME Plain, StoreInv, StoreInv', Boot
    PROVE  UNCHANGED Store!storeVars
<1>1. /\ UNCHANGED <<op, ret>> /\ pc \in {"init", "scan"} \cup BootStates
      /\ pc' \in {"scan", "idle", "create0", "create1", "createHeader0", "createHeader1", "init",
                  "recreate", "recreateHeader", "failed"}
  BY DEF Boot, SysparamInit, RecreateFormat, RecreateHeader, CreateScan, CreateFormat,
         CreateHeader, Mount, call, BootStates
<1>2. ~Mounted /\ \A r \in Regions : log[r] = <<>>
  BY <1>1 DEF StoreInv, DataInv, LogInv, EndInv, FirstBootInv
<1>3. /\ hdr \in [Regions -> Headers] /\ log \in [Regions -> Seq(Entry)]
      /\ info'.base \in Regions \cup {NoRegion}
  BY DEF StoreInv, DataInv, LogInv, TypeInv, TypeOK
<1>4. \A r \in Regions : log'[r] = <<>>
  BY <1>2, <1>3 DEF Boot, SysparamInit, RecreateFormat, RecreateHeader, CreateScan, CreateFormat,
         CreateHeader, flash, Format, Regions
<1>5. op = NoOp
  BY <1>1 DEF StoreInv, StatusInv, InCall, Setting, BootStates
<1>6. \A k \in Keys : View(k) = Nil /\ View(k)' = Nil
  <2> SUFFICES ASSUME NEW k \in Keys PROVE View(k)' = Nil
    BY <1>2 DEF View
  <2>1. LookupOf(<<>>, k) = Nil
    <3>1. Fresh(<<>>, k)
      BY GoodEmpty DEF Fresh
    <3> QED
      BY <3>1, LookupFresh
  <2>2. k # op'.key
    BY <1>1, <1>5, KeysAssumption DEF NoOp
  <2>3. Mounted' => log'[info'.base] = <<>>
    BY <1>3, <1>4 DEF Mounted
  <2> QED
    BY <2>1, <2>2, <2>3 DEF View
<1> QED
  BY <1>1, <1>6, HiddenStep

\* The checks that do not decide the call, and compactions, are not seen.
LEMMA HiddenCompact ==
    ASSUME Plain, StoreInv, StoreInv', \/ Compact
                                       \/ Check /\ pc' # "return"
    PROVE  UNCHANGED Store!storeVars
<1>1. DataInv /\ DataInv' /\ PlainInv
  BY DEF StoreInv, PlainInv
<1>2. pc \in Setting
  BY DEF Compact, CompactFormat, CompactCopy, CompactActivate, CompactRetire,
         Check, CheckSpace, CheckFull, CheckIds, CheckForce, Setting
<1>3. pc \in InCall \ {"return"}
  BY <1>2 DEF InCall, Setting
<1>4. /\ info.base \in Regions /\ LogInv /\ TypeOK /\ log \in [Regions -> Seq(Entry)]
  BY <1>1, <1>3, PlainBase
<1>5. /\ log[info.base] \in Seq(Entry) /\ Other(info.base) \in Regions /\ Other(info.base) # info.base
  BY <1>4, BaseFacts
<1>6. CASE Check /\ pc' # "return"
  <2>1. UNCHANGED <<op, log>> /\ info'.base = info.base /\ ret' = ret
    BY <1>4, <1>6 DEF Check, CheckSpace, CheckFull, CheckIds, CheckForce, flash, StartCompaction,
                      Finish, TypeOK
  <2> QED
    BY <1>1, <1>3, <1>4, <1>6, <2>1, HiddenInCall
<1>7. CASE CompactFormat \/ CompactCopy \/ CompactActivate
  <2>1. UNCHANGED <<op, ret, info>> /\ pc' # "return"
    BY <1>7 DEF CompactFormat, CompactCopy, CompactActivate, call
  <2>2. log'[info.base] = log[info.base]
    <3>1. CASE CompactFormat
      BY <1>4, <1>5, <3>1 DEF CompactFormat, Format
    <3>2. CASE CompactCopy
      BY <1>1, <3>2, CopyStep
    <3>3. CASE CompactActivate
      BY <3>3 DEF CompactActivate
    <3> QED
      BY <1>7, <3>1, <3>2, <3>3
  <2>3. log'[info'.base] = log[info.base] /\ info'.base \in Regions
    BY <1>4, <2>1, <2>2
  <2> QED
    BY <1>1, <1>3, <2>1, <2>3, HiddenInCall
<1>8. CASE CompactRetire
  <2>1. /\ pc = "retire" /\ UNCHANGED <<op, log, ret>> /\ info'.base = Other(info.base)
        /\ pc' = copy.then
    BY <1>8 DEF CompactRetire, StoreInv, Sealed
  <2>2. pc' # "return"
    BY <1>4, <2>1 DEF TypeOK
  <2>3. SameBut(log[info.base], log[Other(info.base)], op.key)
    BY <1>1, <2>1, BothRegionsSame
  <2>4. \A k \in Keys : k # op.key => LookupOf(log'[info'.base], k) = LookupOf(log[info.base], k)
    BY <2>1, <2>3 DEF SameBut
  <2>5. info'.base \in Regions
    BY <1>5, <2>1
  <2> QED
    BY <1>1, <1>3, <2>1, <2>2, <2>4, <2>5, HiddenInCall
<1> QED
  BY <1>6, <1>7, <1>8 DEF Compact

\* What the writes of a call do to the other parameters.
LEMMA OthersWrite ==
    ASSUME StoreInv, StoreInv', WriteKey \/ ValidateKey \/ WriteValue \/ ValidateValue \/ DeleteOld,
           NEW k, k # op.key
    PROVE  /\ info'.base = info.base /\ info.base \in Regions /\ op' = op
           /\ LookupOf(log'[info'.base], k) = LookupOf(log[info.base], k)
<1>1. DataInv /\ LogInv /\ LogInv' /\ TypeOK /\ PlainInv
  BY DEF StoreInv, PlainInv, DataInv, LogInv, TypeInv
<1>2. pc \in {"write", "validateKey", "validateValue", "delete"}
  BY DEF WriteKey, ValidateKey, WriteValue, ValidateValue, DeleteOld
<1>3. info.base \in Regions
  BY <1>1, <1>2, PlainBase DEF InCall, Setting
<1>4. info'.base = info.base /\ op' = op
  BY <1>1 DEF WriteKey, ValidateKey, WriteValue, ValidateValue, DeleteOld, Advance, call, TypeOK
<1>5. LookupOf(log'[info.base], k) = LookupOf(log[info.base], k)
  <2>1. CASE WriteKey
    <3> DEFINE id == MaxIdOf(info.base) + 1
               e == KeyEntry(info.end, id, op.key, "new")
    <3>1. pc = "write" /\ AppendEntry(e)
      BY <2>1 DEF WriteKey
    <3>2. /\ op.key \in Keys /\ info.end \in Nat
          /\ log[info.base] \in Seq(Entry) /\ Numbered(log[info.base])
      BY <1>1, <1>3, <3>1, WriteFacts, BaseFacts
    <3>3. id \in Nat
      BY <1>1, <1>3, <3>2, MaxIdIsCount, CountKeys
    <3>4. e \in Entry /\ e.st # "live"
      BY <3>2, <3>3, NewEntryType DEF KeyEntry
    <3> HIDE DEF e, id
    <3> QED
      BY <1>1, <1>3, <3>1, <3>4, OthersAppend
  <2>2. CASE WriteValue
    <3> DEFINE e == ValueEntry(info.end, keyId, op.val, "new")
    <3>1. pc = "write" /\ AppendEntry(e)
      BY <2>2 DEF WriteValue
    <3>2. op.val \in Values /\ info.end \in Nat /\ keyId \in Nat
      BY <1>1, <3>1, WriteFacts
    <3>3. e \in Entry /\ e.st # "live"
      BY <3>2, NewEntryType DEF ValueEntry
    <3> HIDE DEF e
    <3> QED
      BY <1>1, <1>3, <3>1, <3>3, OthersAppend
  <2>3. CASE ValidateKey \/ ValidateValue
    BY <1>1, <2>3, OthersValidate DEF ValidateKey, ValidateValue
  <2>4. CASE DeleteOld
    BY <1>1, <2>4, OthersDelete DEF DeleteOld
  <2> QED
    BY <2>1, <2>2, <2>3, <2>4
<1> QED
  BY <1>3, <1>4, <1>5

\* The writes up to the one that decides the call are not seen; that one
\* gives the key its new value.
LEMMA SeenWrite ==
    ASSUME Plain, StoreInv, StoreInv',
           WriteKey \/ ValidateKey \/ WriteValue \/ ValidateValue \/ DeleteOld
    PROVE  Store!Accept \/ UNCHANGED Store!storeVars
<1>1. DataInv /\ DataInv' /\ PlainInv
  BY DEF StoreInv, PlainInv
<1>2. pc \in {"write", "validateKey", "validateValue", "delete"}
  BY DEF WriteKey, ValidateKey, WriteValue, ValidateValue, DeleteOld
<1>3. pc \in InCall \ {"return"}
  BY <1>2 DEF InCall, Setting
<1>4. info.base \in Regions /\ Mounted /\ TypeOK
  BY <1>1, <1>3, PlainBase
<1>5. op' = op /\ info'.base = info.base
  BY <1>4 DEF WriteKey, ValidateKey, WriteValue, ValidateValue, DeleteOld, Advance, call, TypeOK
<1>6. \A k : k # op.key => LookupOf(log'[info'.base], k) = LookupOf(log[info.base], k)
  BY OthersWrite
<1>7. \/ pc' # "return" /\ ret' = ret
      \/ pc' = "return" /\ ret' = "OK"
  BY DEF WriteKey, ValidateKey, WriteValue, ValidateValue, DeleteOld, call, Finish
<1>8. CASE pc' # "return" /\ ret' = ret
  BY <1>1, <1>3, <1>4, <1>5, <1>6, <1>8, HiddenInCall
<1>9. CASE pc' = "return" /\ ret' = "OK"
  <2>1. op.clean /\ op.key \in Keys /\ op.val \in Values /\ ret = "none"
    BY <1>3 DEF StoreInv, StatusInv
  <2>2. LookupOf(log'[info'.base], op.key) = op.val
    BY <1>1, <1>5, <1>9, <2>1 DEF DataInv, CleanInv
  <2>3. \A k \in Keys : View(k)' = IF k = op.key THEN op.val ELSE View(k)
    BY <1>3, <1>4, <1>5, <1>6, <1>9, <2>2 DEF View, Mounted
  <2>4. CallerView' = [CallerView EXCEPT ![op.key] = op.val]
    BY <2>1, <2>3, ViewIs
  <2>5. [key |-> op.key, val |-> op.val] # Store!NoRequest
    BY <2>1, KeysAssumption DEF Store!NoRequest
  <2> QED
    BY <1>5, <1>9, <2>1, <2>4, <2>5 DEF Store!Accept
<1> QED
  BY <1>7, <1>8, <1>9

\* A check that decides the call refuses it; nothing has changed.
LEMMA SeenRefusal ==
    ASSUME Plain, StoreInv, StoreInv', Check, pc' = "return"
    PROVE  Store!Refuse
<1>1. DataInv /\ LogInv /\ PlainInv
  BY DEF StoreInv, PlainInv, DataInv
<1>2. pc \in {"space", "full", "ids", "force"}
  BY DEF Check, CheckSpace, CheckFull, CheckIds, CheckForce
<1>3. pc \in InCall \ {"return"} /\ pc \in Setting
  BY <1>2 DEF InCall, Setting
<1>4. info.base \in Regions /\ Mounted /\ TypeOK
  BY <1>1, <1>3, PlainBase
<1>5. UNCHANGED <<op, log, keyId>> /\ info'.base = info.base /\ ret' = "ERR_FULL"
  BY <1>4 DEF Check, CheckSpace, CheckFull, CheckIds, CheckForce, flash, StartCompaction,
              Finish, TypeOK
<1>6. op.key \in Keys /\ ret = "none"
  BY <1>3 DEF StoreInv, StatusInv
<1>7. LookupOf(log[info.base], op.key) = op.prev
  <2>1. CASE pc = "space"
    BY <2>1 DEF StoreInv, StatusInv
  <2>2. CASE keyId = 0
    <3>1. Fresh(log[info.base], op.key) /\ op.prev = Nil
      BY <1>1, <1>3, <2>2 DEF LogInv, CallInv, StoreInv, StatusInv
    <3> QED
      BY <3>1, LookupFresh
  <2>3. ~CheckFull
    <3> SUFFICES ASSUME CheckFull PROVE FALSE
      OBVIOUS
    <3>1. info.end + Needed <= RegionSize
      BY DEF CheckFull, StoreInv, RoomInv
    <3>2. info.end \in Nat /\ Needed \in Nat /\ RegionSize \in Nat
      BY <1>1, <1>3, <1>4, BaseFacts, NeededType, RegionAssumption
    <3>3. ~(Needed > FreeSpace)
      BY <3>1, <3>2 DEF FreeSpace
    <3> QED
      BY <3>3 DEF CheckFull
  <2>4. CASE CheckIds
    BY <2>2, <2>4 DEF CheckIds, StartCompaction
  <2> QED
    BY <2>1, <2>3, <2>4 DEF Check, CheckSpace, CheckForce, StartCompaction
<1>8. \A k \in Keys : View(k)' = View(k)
  BY <1>3, <1>4, <1>5, <1>7 DEF View, Mounted
<1>9. CallerView' = CallerView
  BY <1>8, ViewIs
<1>10. [key |-> op.key, val |-> op.val] # Store!NoRequest
  BY <1>6, KeysAssumption DEF Store!NoRequest
<1> QED
  BY <1>5, <1>6, <1>9, <1>10 DEF Store!Refuse, Store!Refusals

\* The lookup of a call is its request; a value that is there already is
\* accepted at once.
LEMMA SeenRequest ==
    ASSUME Plain, StoreInv, StoreInv', NEW k \in Keys, NEW v \in Values, SetData(k, v)
    PROVE  Store!Request(k, v) \/ Store!RequestAtOnce(k, v)
<1> DEFINE s == log[info.base]
           i == FindKey(info.base, k)
           j == IF i = 0 THEN 0 ELSE FindValue(info.base, i)
<1>1. pc = "idle" /\ DataInv /\ PlainInv /\ v # Nil
  BY KeysAssumption DEF SetData, StoreInv, PlainInv
<1>2. op = NoOp /\ ret = "none" /\ Mounted
  BY <1>1 DEF StoreInv, StatusInv, InCall, Setting
<1>3. /\ UNCHANGED <<log, info>> /\ op'.key = k /\ op'.val = v /\ op'.prev = LookupOf(s, k)
      /\ \/ pc' = "return" /\ ret' = "OK" /\ j # 0 /\ s[j].data = v
         \/ pc' = "space" /\ ret' = ret
  BY <1>1, LookupIs DEF SetData, Finish, flash
<1>4. j # 0 => LookupOf(s, k) = s[j].data
  BY LookupIs DEF Lookup
<1> HIDE DEF j, i, s
<1>5. \A x \in Keys : x # op.key
  BY <1>2, KeysAssumption DEF NoOp
<1>6. \A x \in Keys : View(x) = LookupOf(s, x) /\ View(x)' = LookupOf(s, x)
  BY <1>2, <1>3, <1>5 DEF View, Mounted, s
<1>7. CallerView' = CallerView
  BY <1>6, ViewIs
<1>8. [key |-> op.key, val |-> op.val] = Store!NoRequest
  BY <1>2 DEF Store!NoRequest, NoOp
<1>9. [key |-> op.key, val |-> op.val]' = [key |-> k, val |-> v]
  BY <1>3
<1>10. CASE pc' = "space" /\ ret' = ret
  BY <1>7, <1>8, <1>9, <1>10 DEF Store!Request
<1>11. CASE pc' = "return" /\ ret' = "OK" /\ j # 0 /\ s[j].data = v
  <2>1. CallerView[k] = v
    BY <1>4, <1>6, <1>11, ViewIs
  <2> QED
    BY <1>7, <1>8, <1>9, <1>11, <2>1 DEF Store!RequestAtOnce
<1> QED
  BY <1>3, <1>10, <1>11

\* The return of a call is the reply.
LEMMA SeenReply ==
    ASSUME Plain, StoreInv, StoreInv', Return
    PROVE  Store!Reply
<1>1. /\ pc = "return" /\ UNCHANGED <<log, info>> /\ op' = NoOp /\ ret' = "none"
  BY DEF Return, flash
<1>2. ret # "none" /\ Mounted
  BY <1>1 DEF StoreInv, StatusInv, InCall
<1>3. \A x \in Keys : x # op'.key
  BY <1>1, KeysAssumption DEF NoOp
<1>4. \A x \in Keys : View(x)' = View(x)
  BY <1>1, <1>2, <1>3 DEF View, Mounted
<1>5. CallerView' = CallerView
  BY <1>4, ViewIs
<1>6. [key |-> op.key, val |-> op.val]' = Store!NoRequest
  BY <1>1 DEF Store!NoRequest, NoOp
<1> QED
  BY <1>1, <1>2, <1>5, <1>6 DEF Store!Reply

\* Every step of the log is a step of the store, or is not seen.
LEMMA StoreStep ==
    ASSUME Plain
    PROVE  StoreInv /\ StoreInv' /\ [Next]_vars => [Store!Next]_(Store!storeVars)
<1> SUFFICES ASSUME StoreInv, StoreInv', [Next]_vars PROVE [Store!Next]_(Store!storeVars)
  OBVIOUS
<1>1. TypeOK /\ FirstBootInv
  BY DEF StoreInv, DataInv, LogInv, TypeInv
<1>2. CASE UNCHANGED vars
  <2>1. UNCHANGED <<log, info, pc, op, ret>>
    BY <1>2 DEF vars, flash, call
  <2>2. \A k \in Keys : View(k)' = View(k)
    BY <2>1 DEF View, Mounted
  <2> QED
    BY <2>1, <2>2, HiddenStep
<1>3. CASE Boot
  BY <1>3, HiddenBoot
<1>4. CASE Check \/ Compact
  BY <1>4, HiddenCompact, SeenRefusal DEF Store!Next
<1>5. CASE Write
  BY <1>5, SeenWrite, SeenReply DEF Write, WriteOverLeft, StoreInv, Store!Next
<1>6. CASE \E k \in Keys, v \in Values : SetData(k, v)
  <2>1. PICK k \in Keys, v \in Values : SetData(k, v)
    BY <1>6
  <2>2. Store!Request(k, v) \/ Store!RequestAtOnce(k, v)
    BY <2>1, SeenRequest
  <2>3. v \in Values \cup {Nil}
    OBVIOUS
  <2> QED
    BY <2>2, <2>3 DEF Store!Next
<1> QED
  BY <1>1, <1>2, <1>3, <1>4, <1>5, <1>6, PlainSteps

\* While the power stays on, without deletes and flash errors, the two-region
\* log implements the map that sysparam.h describes: a call takes effect as a
\* whole when its status is decided, and a compaction is not seen.
THEOREM RefinesStore ==
    ASSUME Plain
    PROVE  Spec => ImplementsStore
<1>1. Init => Store!Init
  <2> SUFFICES ASSUME Init PROVE Store!Init
    OBVIOUS
  <2>1. info.base = NoRegion /\ op = NoOp /\ ret = "none"
    BY DEF Init, NoInfo
  <2>2. CallerView = [k \in Keys |-> Nil]
    BY <2>1 DEF CallerView, Mounted
  <2> QED
    BY <2>1, <2>2 DEF Store!Init, Store!NoRequest, NoOp
<1>2. StoreInv /\ StoreInv' /\ [Next]_vars => [Store!Next]_(Store!storeVars)
  BY StoreStep
<1>3. Spec => []StoreInv
  BY StoreInvariant
<1> QED
  BY <1>1, <1>2, <1>3, PTL DEF Spec, ImplementsStore, Store!Spec
=============================================================================
