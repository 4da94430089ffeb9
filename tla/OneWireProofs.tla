---------------------------- MODULE OneWireProofs ---------------------------
(***************************************************************************)
(* Proofs about the 1-Wire search, for addresses of any length and any     *)
(* devices.  The search walks a tree of addresses that it never sees as a  *)
(* whole; the argument is about the first bit that tells two addresses     *)
(* apart.                                                                  *)
(***************************************************************************)
EXTENDS OneWire, LeastElements, FiniteSetTheorems

-----------------------------------------------------------------------------
(* Prefixes.                                                               *)

\* The bits before bit m are those of b; they differ, and a comes first.
Agree(a, b, m) == \A i \in 1 .. m - 1 : a[i] = b[i]
Splits(a, b, i) == a[i] < b[i] /\ Agree(a, b, i)
BeforeIn(a, b, m) == \E i \in 1 .. m - 1 : Splits(a, b, i)

-----------------------------------------------------------------------------
(* The inductive invariant.                                                *)

\* Types.
SearchType ==
    [rom_no : Addresses, last_discrepancy : 0 .. Bits, last_device_found : BOOLEAN]
TypeOK ==
    /\ bus \subseteq Devices /\ active \subseteq Devices /\ first \subseteq Devices
    /\ search \in SearchType
    /\ pc \in {"idle", "next", "bits", "done"}
    /\ n \in 1 .. Bits + 1 /\ last_zero \in 0 .. Bits
    /\ addr_list \in Seq(Addresses) /\ Len(addr_list) <= AddrCount
    /\ want \in Families \cup {None}
    /\ shorted \in BOOLEAN /\ harmed \in BOOLEAN /\ unsure \in BOOLEAN
    /\ faults \in 0 .. MaxFaults /\ scans \in 0 .. MaxScans

\* A call that nothing disturbed: somebody takes part, and who does has the
\* bits that were chosen.
CallOK ==
    pc = "bits" /\ ~unsure =>
        /\ ~shorted
        /\ active # {} /\ active \subseteq bus
        /\ \A a \in active : Agree(a, search.rom_no, n)

\* The list is in order.
Sorted == \A i, j \in DOMAIN addr_list : i < j => Before(addr_list[i], addr_list[j])

\* The scan is through with a: it is in the list, or behind a list that is full.
Passed(a) ==
    \/ a \in Range(addr_list)
    \/ Len(addr_list) = AddrCount /\ \A b \in Range(addr_list) : Before(b, a)

\* Bit d of the path is 0, and a device of S is on the other side.
Fork(S, d) ==
    d # 0 => /\ search.rom_no[d] = 0
             /\ \E b \in S : b[d] = 1 /\ Agree(b, search.rom_no, d)

\* The search stands at a device: what lies before it is passed, what lies
\* behind it leaves its path at the last discrepancy at the latest.
AtDevice(S) ==
    /\ search.rom_no \in S
    /\ Fork(S, search.last_discrepancy)
    /\ \A a \in Wanted : a = search.rom_no \/ Before(a, search.rom_no) => Passed(a)
    /\ \A b \in Range(addr_list) : b = search.rom_no \/ Before(b, search.rom_no)
    /\ \A a \in first : \A i \in 1 .. Bits :
          Splits(search.rom_no, a, i) => i <= search.last_discrepancy
    /\ want # None => \A a \in Wanted : Family(search.rom_no) = want \/ Before(a, search.rom_no)

\* The first call of a scan.
AtStart ==
    /\ addr_list = <<>>
    /\ ~search.last_device_found
    /\ \/ want = None /\ search.last_discrepancy = 0
       \/ /\ want # None /\ search.last_discrepancy = Bits
          /\ search.rom_no = onewire_search_prefix(want).rom_no

\* Between two calls.
BetweenOK ==
    pc = "next" /\ ~harmed =>
        \/ AtStart
        \/ AtDevice(bus) /\ (search.last_device_found <=> search.last_discrepancy = 0)

\* A call on its way to the last discrepancy still has the old address; a call
\* behind it has left behind it what is passed; the first call for a family
\* still has that family.
OnOldPath == n <= search.last_discrepancy /\ AtDevice(active)
OnNewPath ==
    /\ n > search.last_discrepancy
    /\ \A a \in Wanted : BeforeIn(a, search.rom_no, n) => Passed(a)
    /\ \A b \in Range(addr_list) : BeforeIn(b, search.rom_no, n)
    /\ want # None => \A a \in Wanted :
          \/ n > FamilyBits /\ Agree(a, search.rom_no, FamilyBits + 1)
          \/ BeforeIn(a, search.rom_no, n)
OnFamilyPath ==
    /\ want # None /\ addr_list = <<>>
    /\ search.last_discrepancy = Bits /\ n <= Bits
    /\ \A i \in n .. Bits : search.rom_no[i] = onewire_search_prefix(want).rom_no[i]
    /\ \A a \in Wanted : /\ Agree(a, search.rom_no, FamilyBits + 1)
                         /\ ~BeforeIn(a, search.rom_no, n)

PathOK ==
    pc = "bits" /\ ~harmed =>
        /\ ~search.last_device_found
        /\ \A a \in first : Agree(a, search.rom_no, n) => a \in active
        /\ \A a \in first : \A i \in 1 .. n - 1 : Splits(search.rom_no, a, i) => i <= last_zero
        /\ last_zero < n /\ Fork(bus, last_zero)
        /\ OnOldPath \/ OnNewPath \/ OnFamilyPath

ScanOK ==
    ~harmed => /\ ~shorted /\ first \subseteq bus /\ Sorted
               /\ pc = "bits" => ~unsure

OneWireInv ==
    /\ TypeOK /\ CallOK /\ ScanOK /\ BetweenOK /\ PathOK
    /\ ScanIsComplete /\ FamilyComesFirst

-----------------------------------------------------------------------------
(* Addresses and their prefixes.                                           *)

LEMMA AgreeSym ==
    ASSUME NEW a, NEW b, NEW m, Agree(a, b, m)
    PROVE  Agree(b, a, m)
BY DEF Agree

LEMMA SameBits ==
    ASSUME NEW a \in Addresses, NEW b \in Addresses, \A i \in 1 .. Bits : a[i] = b[i]
    PROVE  a = b
<1>1. a = [i \in 1 .. Bits |-> a[i]] /\ b = [i \in 1 .. Bits |-> b[i]]
  BY DEF Addresses
<1> QED
  BY <1>1, Zenon

\* Two addresses are the same, or one comes before the other.
LEMMA Trichotomy ==
    ASSUME NEW a \in Addresses, NEW b \in Addresses
    PROVE  \/ a = b
           \/ \E i \in 1 .. Bits : Splits(a, b, i)
           \/ \E i \in 1 .. Bits : Splits(b, a, i)
<1> SUFFICES ASSUME a # b
             PROVE  \E i \in 1 .. Bits : Splits(a, b, i) \/ Splits(b, a, i)
  OBVIOUS
<1> DEFINE D == {i \in 1 .. Bits : a[i] # b[i]}
<1>1. D \in SUBSET Nat
  BY OneWireAssumption
<1>2. D # {}
  BY SameBits
<1>3. PICK i \in D : \A j \in D : i <= j
  BY <1>1, <1>2, LeastElement
<1>4. i \in 1 .. Bits /\ a[i] # b[i]
  BY <1>3
<1>5. \A j \in 1 .. i - 1 : a[j] = b[j]
  BY <1>3, <1>4, OneWireAssumption
<1>6. a[i] \in {0, 1} /\ b[i] \in {0, 1}
  BY <1>4 DEF Addresses
<1>7. Splits(a, b, i) \/ Splits(b, a, i)
  BY <1>4, <1>5, <1>6 DEF Splits, Agree
<1> QED
  BY <1>4, <1>7

LEMMA BeforeSplits ==
    ASSUME NEW a, NEW b
    PROVE  Before(a, b) <=> \E i \in 1 .. Bits : Splits(a, b, i)
BY DEF Before, Splits, Agree

LEMMA BeforeWhole ==
    ASSUME NEW a, NEW b
    PROVE  BeforeIn(a, b, Bits + 1) <=> Before(a, b)
<1>1. 1 .. (Bits + 1) - 1 = 1 .. Bits
  BY OneWireAssumption
<1> QED
  BY <1>1, BeforeSplits DEF BeforeIn

\* What agrees in all bits is the same.
LEMMA AgreeWhole ==
    ASSUME NEW a \in Addresses, NEW b \in Addresses, Agree(a, b, Bits + 1)
    PROVE  a = b
<1>1. \A i \in 1 .. Bits : a[i] = b[i]
  BY OneWireAssumption DEF Agree
<1> QED
  BY <1>1, SameBits

\* The CRC: two devices do not differ in the last bit alone.
LEMMA LastBit ==
    ASSUME NEW a \in Devices, NEW b \in Devices, Agree(a, b, Bits)
    PROVE  a = b
<1>1. a \in Addresses /\ b \in Addresses
  BY DEF Devices
<1>2. \A i \in 1 .. Bits - 1 : a[i] = b[i]
  BY DEF Agree
<1>3. Bits \in Nat /\ Bits >= 1 /\ Bits \in 1 .. Bits
  BY OneWireAssumption
<1>4. IsFiniteSet(1 .. Bits)
  BY <1>3, FS_Interval
<1>5. /\ IsFiniteSet(Ones(a)) /\ Cardinality(Ones(a)) \in Nat
      /\ IsFiniteSet(Ones(b)) /\ Cardinality(Ones(b)) \in Nat
  <2>1. Ones(a) \subseteq 1 .. Bits /\ Ones(b) \subseteq 1 .. Bits
    BY DEF Ones
  <2>2. IsFiniteSet(Ones(a)) /\ IsFiniteSet(Ones(b))
    BY <1>4, <2>1, FS_Subset
  <2> QED
    BY <2>2, FS_CardinalityType
<1>6. Cardinality(Ones(a)) % 2 = 0 /\ Cardinality(Ones(b)) % 2 = 0
  BY DEF Devices
<1>7. a[Bits] \in {0, 1} /\ b[Bits] \in {0, 1}
  BY <1>1, <1>3 DEF Addresses
<1>8. ASSUME NEW x \in Addresses, NEW y \in Addresses,
             \A i \in 1 .. Bits - 1 : x[i] = y[i], x[Bits] = 0, y[Bits] = 1,
             IsFiniteSet(Ones(x)), Cardinality(Ones(x)) \in Nat
      PROVE  Cardinality(Ones(y)) = Cardinality(Ones(x)) + 1
  <2>1. Bits \notin Ones(x)
    BY <1>8 DEF Ones
  <2>2. Ones(y) = Ones(x) \cup {Bits}
    BY <1>3, <1>8 DEF Ones
  <2> QED
    BY <1>8, <2>1, <2>2, FS_AddElement
<1>9. a[Bits] = b[Bits]
  <2>1. CASE a[Bits] = 0 /\ b[Bits] = 1
    <3>1. Cardinality(Ones(b)) = Cardinality(Ones(a)) + 1
      BY <1>1, <1>2, <1>5, <1>8, <2>1
    <3> QED
      BY <1>5, <1>6, <3>1
  <2>2. CASE a[Bits] = 1 /\ b[Bits] = 0
    <3>1. Cardinality(Ones(a)) = Cardinality(Ones(b)) + 1
      BY <1>1, <1>2, <1>5, <1>8, <2>2
    <3> QED
      BY <1>5, <1>6, <3>1
  <2> QED
    BY <1>7, <2>1, <2>2
<1>10. \A i \in 1 .. Bits : a[i] = b[i]
  BY <1>2, <1>3, <1>9
<1> QED
  BY <1>1, <1>10, SameBits

\* Path q is path r with bit m set to v.
Extends(q, r, m, v) ==
    /\ q \in Addresses /\ q[m] = v
    /\ \A i \in 1 .. Bits : i # m => q[i] = r[i]
    /\ \A a \in Addresses :
          /\ Agree(a, q, m + 1) <=> Agree(a, r, m) /\ a[m] = v
          /\ \A i \in 1 .. m : Agree(a, q, i) <=> Agree(a, r, i)
          /\ \A i \in 1 .. m - 1 : Splits(a, q, i) <=> Splits(a, r, i)
          /\ \A i \in 1 .. m - 1 : Splits(q, a, i) <=> Splits(r, a, i)
          /\ Splits(q, a, m) <=> Agree(a, r, m) /\ v < a[m]
          /\ BeforeIn(a, q, m + 1) <=> BeforeIn(a, r, m) \/ (Agree(a, r, m) /\ a[m] < v)

\* What a path says of an address once its bit m is known.
LEMMA Extended ==
    ASSUME NEW r \in Addresses, NEW m \in 1 .. Bits, NEW v \in {0, 1}
    PROVE  Extends([r EXCEPT ![m] = v], r, m, v)
<1> DEFINE q == [r EXCEPT ![m] = v]
<1>1. q \in Addresses /\ q[m] = v
  BY DEF Addresses
<1>2. \A i \in 1 .. Bits : i # m => q[i] = r[i]
  BY DEF Addresses
<1>3. \A i \in 1 .. m - 1 : i \in 1 .. Bits /\ i # m /\ q[i] = r[i]
  BY <1>2, OneWireAssumption
<1>4. m + 1 - 1 = m /\ m \in Int
  BY OneWireAssumption
<1> HIDE DEF q
<1> SUFFICES ASSUME NEW a \in Addresses
             PROVE  /\ Agree(a, q, m + 1) <=> Agree(a, r, m) /\ a[m] = v
                    /\ \A i \in 1 .. m : Agree(a, q, i) <=> Agree(a, r, i)
                    /\ \A i \in 1 .. m - 1 : Splits(a, q, i) <=> Splits(a, r, i)
                    /\ \A i \in 1 .. m - 1 : Splits(q, a, i) <=> Splits(r, a, i)
                    /\ Splits(q, a, m) <=> Agree(a, r, m) /\ v < a[m]
                    /\ BeforeIn(a, q, m + 1) <=> \/ BeforeIn(a, r, m)
                                                 \/ Agree(a, r, m) /\ a[m] < v
  BY <1>1, <1>2 DEF q, Extends
<1>5. \A i \in 1 .. m : Agree(a, q, i) <=> Agree(a, r, i)
  <2> SUFFICES ASSUME NEW i \in 1 .. m
               PROVE  Agree(a, q, i) <=> Agree(a, r, i)
    OBVIOUS
  <2>1. \A j \in 1 .. i - 1 : q[j] = r[j]
    BY <1>3, <1>4
  <2> QED
    BY <2>1 DEF Agree
<1>6. Agree(a, q, m + 1) <=> Agree(a, r, m) /\ a[m] = v
  <2>1. Agree(a, q, m + 1) <=> \A j \in 1 .. m : a[j] = q[j]
    BY <1>4 DEF Agree
  <2>2. (\A j \in 1 .. m : a[j] = q[j]) <=> (\A j \in 1 .. m - 1 : a[j] = r[j]) /\ a[m] = v
    BY <1>1, <1>3, <1>4
  <2> QED
    BY <2>1, <2>2 DEF Agree
<1>7. \A i \in 1 .. m - 1 : i \in 1 .. m
  BY <1>4
<1>8. \A i \in 1 .. m - 1 : Splits(a, q, i) <=> Splits(a, r, i)
  BY <1>3, <1>5, <1>7 DEF Splits
<1>9. \A i \in 1 .. m - 1 : Splits(q, a, i) <=> Splits(r, a, i)
  <2>1. \A i \in 1 .. m : Agree(q, a, i) <=> Agree(r, a, i)
    BY <1>5, AgreeSym
  <2> QED
    BY <1>3, <1>7, <2>1 DEF Splits
<1>10. m \in 1 .. m
  BY <1>4
<1>11. Splits(q, a, m) <=> Agree(a, r, m) /\ v < a[m]
  BY <1>1, <1>5, <1>10, AgreeSym DEF Splits
<1>12. Splits(a, q, m) <=> Agree(a, r, m) /\ a[m] < v
  BY <1>1, <1>5, <1>10 DEF Splits
<1>13. BeforeIn(a, q, m + 1) <=> (\E i \in 1 .. m - 1 : Splits(a, q, i)) \/ Splits(a, q, m)
  <2>1. BeforeIn(a, q, m + 1) <=> \E i \in 1 .. m : Splits(a, q, i)
    BY <1>4 DEF BeforeIn
  <2>2. \A i \in 1 .. m : i \in 1 .. m - 1 \/ i = m
    BY <1>4
  <2> QED
    BY <1>7, <1>10, <2>1, <2>2
<1>14. BeforeIn(a, q, m + 1) <=> BeforeIn(a, r, m) \/ (Agree(a, r, m) /\ a[m] < v)
  BY <1>8, <1>12, <1>13 DEF BeforeIn
<1> QED
  BY <1>5, <1>6, <1>8, <1>9, <1>11, <1>14

-----------------------------------------------------------------------------
(* One bit of a call that nothing disturbed.                               *)

\* The devices disagree in the bit to be read.
Discrepancy == (\E a \in active : a[n] = 0) /\ (\E a \in active : a[n] = 1)

\* v is the bit that is taken.
Taken(v) ==
    /\ search' = [search EXCEPT !.rom_no[n] = v]
    /\ n' = n + 1
    /\ active' = {a \in active : a[n] = v}
    /\ active' # {}
    /\ Discrepancy \/ \A a \in active : a[n] = v
    /\ last_zero' = IF Discrepancy /\ v = 0 THEN n ELSE last_zero
    /\ Discrepancy => v = IF n < search.last_discrepancy THEN search.rom_no[n]
                          ELSE IF n = search.last_discrepancy THEN 1 ELSE 0

\* The bit that is taken is one that a device has.
LEMMA BitIsTaken ==
    ASSUME TypeOK, CallOK, ~unsure, BitChosen
    PROVE  \E v \in {0, 1} : Taken(v)
<1>1. pc = "bits" /\ n \in 1 .. Bits
  BY OneWireAssumption DEF BitChosen, TypeOK
<1>2. ~shorted /\ active # {}
  BY <1>1 DEF CallOK
<1>3. \A a \in active : a[n] \in {0, 1}
  BY <1>1 DEF TypeOK, Devices, Addresses
<1>4. search.rom_no[n] \in {0, 1}
  BY <1>1 DEF TypeOK, SearchType, Addresses
<1> DEFINE id == ReadBit(1)
           cmp == ReadBit(0)
           v == Direction(id, cmp)
<1>5. id = (IF \A a \in active : a[n] = 1 THEN 1 ELSE 0)
  BY <1>2 DEF ReadBit
<1>6. cmp = (IF \A a \in active : a[n] = 0 THEN 1 ELSE 0)
  BY <1>2 DEF ReadBit
<1>7. ~ (id = 1 /\ cmp = 1)
  BY DEF BitChosen
<1>8. /\ search' = [search EXCEPT !.rom_no[n] = v]
      /\ last_zero' = IF id = cmp /\ v = 0 THEN n ELSE last_zero
      /\ active' = {a \in active : a[n] = v}
      /\ n' = n + 1
  BY <1>2 DEF BitChosen
<1>9. v = IF id # cmp THEN IF id # 0 THEN 1 ELSE 0
          ELSE IF n < search.last_discrepancy THEN search.rom_no[n]
          ELSE IF n = search.last_discrepancy THEN 1 ELSE 0
  BY DEF Direction
<1> HIDE DEF id, cmp, v
<1>10. v \in {0, 1}
  BY <1>4, <1>9
<1>11. id = cmp <=> Discrepancy
  BY <1>2, <1>3, <1>5, <1>6, <1>7 DEF Discrepancy
<1>12. id # cmp => \A a \in active : a[n] = v
  BY <1>5, <1>6, <1>9
<1>13. \E a \in active : a[n] = v
  BY <1>2, <1>10, <1>11, <1>12 DEF Discrepancy
<1>14. Discrepancy => v = IF n < search.last_discrepancy THEN search.rom_no[n]
                          ELSE IF n = search.last_discrepancy THEN 1 ELSE 0
  BY <1>9, <1>11
<1>15. last_zero' = IF Discrepancy /\ v = 0 THEN n ELSE last_zero
  BY <1>8, <1>11
<1>16. Discrepancy \/ \A a \in active : a[n] = v
  BY <1>11, <1>12
<1>17. active' # {}
  BY <1>8, <1>13
<1>18. Taken(v)
  BY <1>8, <1>14, <1>15, <1>16, <1>17 DEF Taken
<1> QED
  BY <1>10, <1>18

\* The path and its new bit.
LEMMA TakenPath ==
    ASSUME TypeOK, n \in 1 .. Bits, NEW v \in {0, 1}, Taken(v)
    PROVE  /\ Extends(search'.rom_no, search.rom_no, n, v)
           /\ search'.last_discrepancy = search.last_discrepancy
           /\ search'.last_device_found = search.last_device_found
           /\ search' \in SearchType
<1>1. search \in SearchType
  BY DEF TypeOK
<1>2. search' = [search EXCEPT !.rom_no[n] = v]
  BY DEF Taken
<1>3. [search.rom_no EXCEPT ![n] = v] \in Addresses
  BY <1>1 DEF SearchType, Addresses
<1>4. search'.rom_no = [search.rom_no EXCEPT ![n] = v] /\ search.rom_no \in Addresses
  BY <1>1, <1>2 DEF SearchType
<1>5. Extends(search'.rom_no, search.rom_no, n, v)
  BY <1>4, Extended
<1> QED
  BY <1>1, <1>2, <1>3, <1>5 DEF SearchType

-----------------------------------------------------------------------------
(* Types, and what holds of every call.                                    *)

\* t is s with new fields.
IsUpdate(t, s, d, l) ==
    t \in SearchType /\ t.rom_no = s.rom_no /\ t.last_discrepancy = d /\ t.last_device_found = l

LEMMA SearchFields ==
    ASSUME NEW s \in SearchType, NEW d \in 0 .. Bits, NEW l \in BOOLEAN
    PROVE  IsUpdate([s EXCEPT !.last_discrepancy = d, !.last_device_found = l], s, d, l)
BY DEF SearchType, IsUpdate

LEMMA ReturnedSearch ==
    ASSUME TypeOK
    PROVE  /\ Restarted(search) \in SearchType
           /\ Found(search) \in SearchType
           /\ Found(search).rom_no = search.rom_no
           /\ Found(search).last_discrepancy = last_zero
           /\ Found(search).last_device_found = (search.last_device_found \/ last_zero = 0)
<1>1. search \in SearchType /\ 0 \in 0 .. Bits /\ last_zero \in 0 .. Bits
  BY OneWireAssumption DEF TypeOK
<1>2. Restarted(search) \in SearchType
  <2>1. FALSE \in BOOLEAN
    OBVIOUS
  <2> QED
    BY <1>1, <2>1, SearchFields, Zenon DEF Restarted, IsUpdate
<1> DEFINE l == search.last_device_found \/ last_zero = 0
<1>3. l \in BOOLEAN
  OBVIOUS
<1>4. Found(search) = [search EXCEPT !.last_discrepancy = last_zero, !.last_device_found = l]
  BY DEF Found
<1> HIDE DEF l
<1>5. IsUpdate(Found(search), search, last_zero, l)
  BY <1>1, <1>3, <1>4, SearchFields, Zenon
<1> QED
  BY <1>2, <1>5, Zenon DEF l, IsUpdate

LEMMA SearchStarts ==
    ASSUME NEW f \in Families \cup {None}
    PROVE  (IF f = None THEN onewire_search_start ELSE onewire_search_prefix(f)) \in SearchType
<1>1. ASSUME NEW r \in Addresses, NEW d \in 0 .. Bits, NEW l \in BOOLEAN
      PROVE  [rom_no |-> r, last_discrepancy |-> d, last_device_found |-> l] \in SearchType
  BY DEF SearchType
<1>2. 0 \in 0 .. Bits /\ Bits \in 0 .. Bits /\ FALSE \in BOOLEAN
  BY OneWireAssumption
<1>3. [i \in 1 .. Bits |-> 0] \in Addresses
  BY DEF Addresses
<1>4. onewire_search_start \in SearchType
  BY <1>1, <1>2, <1>3, Zenon DEF onewire_search_start
<1>5. ASSUME f \in Families
      PROVE  onewire_search_prefix(f) \in SearchType
  <2>1. PICK a \in Devices : f = Family(a)
    BY <1>5 DEF Families
  <2>2. \A i \in 1 .. FamilyBits : i \in 1 .. Bits /\ f[i] \in {0, 1}
    BY <2>1, OneWireAssumption DEF Devices, Addresses, Family
  <2>3. [i \in 1 .. Bits |-> IF i <= FamilyBits THEN f[i] ELSE 0] \in Addresses
    BY <2>2, OneWireAssumption DEF Addresses
  <2> QED
    BY <1>1, <1>2, <2>3, Zenon DEF onewire_search_prefix
<1> QED
  BY <1>4, <1>5

LEMMA NoneIsNoFamily == None \notin Families
<1> SUFFICES ASSUME NEW f \in Families, f = None
             PROVE  FALSE
  OBVIOUS
<1>1. PICK a \in Devices : f = Family(a)
  BY DEF Families
<1>2. DOMAIN f = 1 .. FamilyBits /\ 1 \in DOMAIN f
  BY <1>1, OneWireAssumption DEF Family
<1>3. DOMAIN None = {}
  BY DEF None
<1> QED
  BY <1>2, <1>3

LEMMA TypeInit == Init => TypeOK
<1> SUFFICES ASSUME Init PROVE TypeOK
  OBVIOUS
<1>1. search \in SearchType
  BY SearchStarts, Zenon DEF Init
<1>2. shorted \in BOOLEAN /\ harmed \in BOOLEAN /\ unsure \in BOOLEAN
  BY Zenon DEF Init
<1>3. addr_list \in Seq(Addresses) /\ Len(addr_list) = 0
  BY DEF Init
<1> QED
  BY <1>1, <1>2, <1>3, OneWireAssumption DEF Init, TypeOK

LEMMA TypeNext == TypeOK /\ CallOK /\ [Next]_vars => TypeOK'
<1> SUFFICES ASSUME TypeOK, CallOK, [Next]_vars
             PROVE  TypeOK'
  OBVIOUS
<1> USE OneWireAssumption
<1>0. search \in SearchType
  BY DEF TypeOK
<1>1. CASE NextNone
  <2>1. search' \in SearchType
    BY <1>1, ReturnedSearch DEF NextNone
  <2> QED
    BY <1>1, <2>1 DEF NextNone, ReturnNone, TypeOK, scanVars
<1>2. CASE NextBegin
  <2>1. unsure' \in BOOLEAN
    BY <1>2, Zenon DEF NextBegin
  <2> QED
    BY <1>2, <2>1 DEF NextBegin, TypeOK, scanVars
<1>3. CASE BitNobody
  <2>1. search' \in SearchType
    BY <1>3, ReturnedSearch DEF BitNobody
  <2> QED
    BY <1>3, <2>1 DEF BitNobody, ReturnNone, TypeOK, scanVars
<1>4. CASE BitChosen
  <2> DEFINE v == Direction(ReadBit(1), ReadBit(0))
  <2>1. n \in 1 .. Bits
    BY <1>4 DEF BitChosen, TypeOK
  <2>2. v \in {0, 1}
    BY <1>0, <2>1 DEF Direction, SearchType, Addresses
  <2>3. search' = [search EXCEPT !.rom_no[n] = v]
    BY <1>4 DEF BitChosen
  <2>4. last_zero' \in 0 .. Bits
    BY <1>4, <2>1 DEF BitChosen, TypeOK
  <2>5. active' \subseteq active
    BY <1>4 DEF BitChosen
  <2>6. n' \in 1 .. Bits + 1
    BY <1>4, <2>1 DEF BitChosen
  <2> HIDE DEF v
  <2>7. [search.rom_no EXCEPT ![n] = v] \in Addresses
    BY <1>0, <2>1, <2>2 DEF SearchType, Addresses
  <2>8. search' \in SearchType
    BY <1>0, <2>3, <2>7 DEF SearchType
  <2> QED
    BY <1>4, <2>4, <2>5, <2>6, <2>8 DEF BitChosen, TypeOK, scanVars
<1>5. CASE NextEnd
  <2>1. search' \in SearchType
    BY <1>5, ReturnedSearch DEF NextEnd
  <2>2. CASE ReturnNone
    BY <1>0, <1>5, <2>1, <2>2 DEF NextEnd, ReturnNone, TypeOK, scanVars
  <2>3. CASE ReturnAddr(search.rom_no)
    <3>1. search.rom_no \in Addresses /\ addr_list \in Seq(Addresses) /\ Len(addr_list) \in Nat
      BY <1>0 DEF TypeOK, SearchType
    <3>2. addr_list' \in Seq(Addresses) /\ Len(addr_list') <= AddrCount
      BY <1>0, <2>3, <3>1, OneWireAssumption DEF ReturnAddr, TypeOK
    <3> QED
      BY <1>5, <2>1, <2>3, <3>2 DEF NextEnd, ReturnAddr, TypeOK, scanVars
  <2> QED
    BY <1>5, <2>2, <2>3 DEF NextEnd
<1>6. CASE Scan
  <2>1. search' \in SearchType
    BY <1>6, SearchStarts, Zenon DEF Scan
  <2>2. want' \in Families \cup {None} /\ addr_list' = <<>>
    BY <1>6 DEF Scan
  <2>3. addr_list' \in Seq(Addresses) /\ Len(addr_list') <= AddrCount
    BY <2>2
  <2>4. harmed' \in BOOLEAN /\ unsure' \in BOOLEAN /\ shorted' \in BOOLEAN
    BY <1>6, Zenon DEF Scan, TypeOK
  <2> QED
    BY <1>6, <2>1, <2>2, <2>3, <2>4 DEF Scan, TypeOK
<1>7. CASE PlugIn
  BY <1>7 DEF PlugIn, Fault, TypeOK, scanVars
<1>8. CASE PlugOut
  BY <1>8 DEF PlugOut, Fault, TypeOK, scanVars
<1>9. CASE Short
  BY <1>9 DEF Short, Fault, TypeOK, scanVars
<1>10. CASE UNCHANGED vars
  BY <1>10 DEF vars, TypeOK
<1>11. CASE BitShorted
  <2> DEFINE v == Direction(ReadBit(1), IF shorted THEN 1 ELSE 255)
  <2>1. n \in 1 .. Bits
    BY <1>11 DEF BitShorted, TypeOK
  <2>2. v \in {0, 1}
    BY <1>0, <2>1 DEF Direction, SearchType, Addresses
  <2>3. search' = [search EXCEPT !.rom_no[n] = v]
    BY <1>11 DEF BitShorted
  <2>4. n' \in 1 .. Bits + 1
    BY <1>11, <2>1 DEF BitShorted
  <2> HIDE DEF v
  <2>5. [search.rom_no EXCEPT ![n] = v] \in Addresses
    BY <1>0, <2>1, <2>2 DEF SearchType, Addresses
  <2>6. search' \in SearchType
    BY <1>0, <2>3, <2>5 DEF SearchType
  <2> QED
    BY <1>11, <2>4, <2>6 DEF BitShorted, TypeOK, scanVars
<1> QED
  BY <1>1, <1>2, <1>3, <1>4, <1>5, <1>6, <1>7, <1>8, <1>9, <1>10, <1>11 DEF Next, Searching

LEMMA CallNext == TypeOK /\ CallOK /\ [Next]_vars => CallOK'
<1> SUFFICES ASSUME TypeOK, CallOK, [Next]_vars
             PROVE  CallOK'
  OBVIOUS
<1>1. CASE NextNone \/ BitNobody \/ NextEnd
  BY <1>1 DEF NextNone, BitNobody, NextEnd, ReturnNone, ReturnAddr, CallOK
<1>2. CASE NextBegin
  BY <1>2 DEF NextBegin, CallOK, Agree
<1>3. CASE BitChosen
  <2> SUFFICES ASSUME ~unsure PROVE CallOK'
    BY <1>3 DEF BitChosen, CallOK
  <2>1. PICK v \in {0, 1} : Taken(v)
    BY <1>3, BitIsTaken
  <2>2. pc = "bits" /\ n \in 1 .. Bits /\ shorted' = shorted /\ bus' = bus
    BY <1>3, OneWireAssumption DEF BitChosen, TypeOK
  <2>3. Extends(search'.rom_no, search.rom_no, n, v)
    BY <2>1, <2>2, TakenPath
  <2>4. search.rom_no \in Addresses /\ active \subseteq Addresses
    BY DEF TypeOK, SearchType, Devices
  <2>5. \A a \in active : Agree(a, search.rom_no, n)
    BY <2>2 DEF CallOK
  <2>6. \A a \in active' : Agree(a, search'.rom_no, n')
    <3>1. /\ n' = n + 1
          /\ \A a \in active' : a \in active /\ a[n] = v
      BY <2>1 DEF Taken
    <3>2. \A a \in Addresses :
             Agree(a, search'.rom_no, n + 1) <=> Agree(a, search.rom_no, n) /\ a[n] = v
      BY <2>3 DEF Extends
    <3> QED
      BY <2>4, <2>5, <3>1, <3>2
  <2> QED
    BY <2>1, <2>2, <2>6 DEF CallOK, Taken
<1>4. CASE Scan
  BY <1>4 DEF Scan, CallOK
<1>5. CASE PlugIn
  BY <1>5 DEF PlugIn, Fault, CallOK
<1>6. CASE PlugOut \/ Short \/ BitShorted
  BY <1>6 DEF PlugOut, Short, BitShorted, CallOK
<1>7. CASE UNCHANGED vars
  BY <1>7 DEF vars, CallOK
<1> QED
  BY <1>1, <1>2, <1>3, <1>4, <1>5, <1>6, <1>7 DEF Next, Searching

\* The end of a call that nothing disturbed: the address is that of a device.
LEMMA EndOfCall ==
    ASSUME TypeOK, CallOK, pc = "bits", ~unsure, n = Bits + 1
    PROVE  search.rom_no \in active /\ search.rom_no \in bus
<1>1. PICK a \in active : Agree(a, search.rom_no, Bits + 1)
  BY DEF CallOK
<1>2. a \in Addresses /\ search.rom_no \in Addresses
  BY DEF TypeOK, SearchType, Devices
<1>3. a = search.rom_no
  BY <1>1, <1>2, AgreeWhole
<1> QED
  BY <1>1, <1>3 DEF CallOK

\* Every variable keeps its type; and as long as no device leaves and the
\* bus is not shorted during a call, the devices that still take part in it are on
\* the bus and agree with the bits of rom_no that onewire_search_next has decided.
THEOREM OneWireTypes == Spec => [](TypeOK /\ CallOK)
<1>1. Init => TypeOK /\ CallOK
  BY TypeInit DEF Init, CallOK
<1>2. TypeOK /\ CallOK /\ [Next]_vars => (TypeOK /\ CallOK)'
  BY TypeNext, CallNext
<1> QED
  BY <1>1, <1>2, PTL DEF Spec

\* Whatever was plugged in and out and shorted before, a call of
\* onewire_search_next during which no device leaves and the bus is not shorted
\* returns the address of a device: devices that are plugged in meanwhile do not
\* mislead it.
THEOREM OneWireNoPhantom == Spec => NoPhantom
<1>1. TypeOK /\ CallOK /\ [Next]_vars
        => [pc = "bits" /\ pc' = "next" /\ ~unsure => search'.rom_no \in bus]_vars
  <2> SUFFICES ASSUME TypeOK, CallOK, Next, pc = "bits", pc' = "next", ~unsure
               PROVE  search'.rom_no \in bus
    OBVIOUS
  <2>1. NextEnd
    BY DEF Next, Searching, NextNone, NextBegin, BitNobody, BitChosen, Scan, PlugIn, PlugOut, Short,
           BitShorted, Fault, ReturnNone
  <2>2. search' = Found(search)
    BY <2>1 DEF NextEnd, ReturnNone
  <2>3. search'.rom_no = search.rom_no
    BY <2>2, ReturnedSearch
  <2>4. search.rom_no \in bus
    BY <2>1, EndOfCall DEF NextEnd
  <2> QED
    BY <2>3, <2>4
<1> QED
  BY <1>1, OneWireTypes, PTL DEF Spec, NoPhantom

-----------------------------------------------------------------------------
(* One bit of a scan that neither a device that leaves nor a short harms.  *)

\* A step that only moves on in the tree.
Frame == first' = first /\ want' = want /\ addr_list' = addr_list

LEMMA FrameFacts ==
    ASSUME Frame
    PROVE  /\ Wanted' = Wanted
           /\ \A a : Passed(a)' <=> Passed(a)
           /\ Range(addr_list)' = Range(addr_list)
BY DEF Frame, Wanted, Passed, Range

LEMMA WantedFacts ==
    ASSUME TypeOK
    PROVE  /\ Wanted \subseteq first /\ first \subseteq Addresses
           /\ want # None => \A a \in Wanted : Family(a) = want
BY DEF TypeOK, Wanted, Devices

LEMMA SameFamily ==
    ASSUME NEW a \in Addresses, NEW b \in Addresses
    PROVE  Family(a) = Family(b) <=> Agree(a, b, FamilyBits + 1)
<1>1. 1 .. (FamilyBits + 1) - 1 = 1 .. FamilyBits
  BY OneWireAssumption
<1>2. ASSUME Family(a) = Family(b), NEW i \in 1 .. FamilyBits
      PROVE  a[i] = b[i]
  <2>1. Family(a)[i] = a[i] /\ Family(b)[i] = b[i]
    BY DEF Family
  <2> QED
    BY <1>2, <2>1
<1> QED
  BY <1>1, <1>2 DEF Agree, Family

\* What was behind the old path is behind the one that takes the other
\* branch at its last discrepancy.
LEMMA LeftBehind ==
    ASSUME NEW r \in Addresses, NEW q, NEW m \in 1 .. Bits, Extends(q, r, m, 1), r[m] = 0,
           NEW x \in Addresses, x = r \/ Before(x, r)
    PROVE  BeforeIn(x, q, m + 1)
<1>1. BeforeIn(x, q, m + 1) <=> BeforeIn(x, r, m) \/ (Agree(x, r, m) /\ x[m] < 1)
  BY DEF Extends
<1>2. CASE x = r
  BY <1>1, <1>2 DEF Agree
<1>3. CASE Before(x, r)
  <2>1. PICK i \in 1 .. Bits : Splits(x, r, i)
    BY <1>3, BeforeSplits
  <2>2. CASE i < m
    <3>1. i \in 1 .. m - 1
      BY <2>2, OneWireAssumption
    <3> QED
      BY <1>1, <2>1, <3>1 DEF BeforeIn
  <2>3. CASE i = m
    <3>1. x[m] \in {0, 1} /\ x[m] < 0
      BY <2>1, <2>3 DEF Splits, Addresses
    <3> QED
      BY <3>1
  <2>4. CASE i > m
    <3>1. m \in 1 .. i - 1 /\ \A j \in 1 .. m - 1 : j \in 1 .. i - 1
      BY <2>4, OneWireAssumption
    <3>2. Agree(x, r, m) /\ x[m] = r[m]
      BY <2>1, <3>1 DEF Splits, Agree
    <3> QED
      BY <1>1, <3>2
  <2> QED
    BY <2>2, <2>3, <2>4, OneWireAssumption
<1> QED
  BY <1>2, <1>3

\* What a bit leaves of the rest of the invariant.
LEMMA BitFacts ==
    ASSUME OneWireInv, ~harmed, BitChosen, NEW v \in {0, 1}, Taken(v)
    PROVE  /\ \A a \in first : Agree(a, search'.rom_no, n') => a \in active'
           /\ \A a \in first : \A i \in 1 .. n' - 1 :
                 Splits(search'.rom_no, a, i) => i <= last_zero'
           /\ last_zero' < n' /\ Fork(bus, last_zero)'
<1>1. pc = "bits" /\ n \in 1 .. Bits /\ bus' = bus /\ n' = n + 1 /\ ~unsure
  BY OneWireAssumption DEF BitChosen, OneWireInv, TypeOK, ScanOK, Taken
<1>2. TypeOK /\ CallOK /\ PathOK
  BY DEF OneWireInv
<1> DEFINE r == search.rom_no
           q == search'.rom_no
<1>3. Extends(q, r, n, v)
  BY <1>1, <1>2, TakenPath
<1>4. /\ r \in Addresses /\ first \subseteq Addresses /\ active \subseteq Addresses
      /\ last_zero \in 0 .. Bits
  BY <1>2 DEF TypeOK, SearchType, Devices
<1>5. /\ \A a \in first : Agree(a, r, n) => a \in active
      /\ \A a \in first : \A i \in 1 .. n - 1 : Splits(r, a, i) => i <= last_zero
      /\ last_zero < n /\ Fork(bus, last_zero)
  BY <1>1, <1>2 DEF PathOK
<1>6. \A a \in active : Agree(a, r, n) /\ a \in bus
  BY <1>1, <1>2 DEF CallOK
<1>7. active' = {a \in active : a[n] = v}
  BY DEF Taken
<1>8. last_zero' = IF Discrepancy /\ v = 0 THEN n ELSE last_zero
  BY DEF Taken
<1>9. Discrepancy \/ \A a \in active : a[n] = v
  BY DEF Taken
<1> HIDE DEF r, q
<1>10. \A a \in first : Agree(a, q, n + 1) => a \in active'
  BY <1>3, <1>4, <1>5, <1>7 DEF Extends
<1>11. ASSUME NEW a \in first, NEW i \in 1 .. n, Splits(q, a, i)
       PROVE  i <= last_zero'
  <2>1. CASE i < n
    <3>1. i \in 1 .. n - 1
      BY <1>1, <2>1
    <3>2. Splits(r, a, i)
      BY <1>3, <1>4, <1>11, <3>1 DEF Extends
    <3>3. i <= last_zero
      BY <1>5, <3>1, <3>2
    <3> QED
      BY <1>1, <1>4, <1>8, <2>1, <3>3
  <2>2. CASE i = n
    <3>1. Agree(a, r, n) /\ v < a[n]
      BY <1>3, <1>4, <1>11, <2>2 DEF Extends
    <3>2. a[n] \in {0, 1}
      BY <1>1, <1>4 DEF Addresses
    <3>3. a \in active /\ a[n] # v /\ v = 0
      BY <1>5, <3>1, <3>2
    <3>4. last_zero' = n
      BY <1>8, <1>9, <3>3
    <3> QED
      BY <1>1, <2>2, <3>4
  <2> QED
    BY <1>1, <2>1, <2>2
<1>12. last_zero' < n + 1
  BY <1>1, <1>4, <1>5, <1>8
<1>13. last_zero' # 0 => q[last_zero'] = 0 /\ \E b \in bus : b[last_zero'] = 1 /\ Agree(b, q, last_zero')
  <2>1. CASE Discrepancy /\ v = 0
    <3>1. PICK b \in active : b[n] = 1
      BY <2>1 DEF Discrepancy
    <3>2. n \in 1 .. n
      BY <1>1
    <3>3. Agree(b, q, n)
      BY <1>3, <1>4, <1>6, <3>2 DEF Extends
    <3>4. q[n] = 0
      BY <1>3, <2>1 DEF Extends
    <3> QED
      BY <1>6, <1>8, <2>1, <3>1, <3>3, <3>4
  <2>2. CASE ~ (Discrepancy /\ v = 0)
    <3> SUFFICES ASSUME last_zero # 0
                 PROVE  q[last_zero] = 0 /\ \E b \in bus : b[last_zero] = 1 /\ Agree(b, q, last_zero)
      BY <1>8, <2>2
    <3>1. last_zero \in 1 .. n /\ last_zero # n /\ last_zero \in 1 .. Bits
      BY <1>1, <1>4, <1>5
    <3>2. r[last_zero] = 0
      BY <1>5 DEF Fork, r
    <3>3. PICK b \in bus : b[last_zero] = 1 /\ Agree(b, r, last_zero)
      BY <1>5 DEF Fork, r
    <3>4. b \in Addresses
      BY <1>2 DEF TypeOK, Devices
    <3>5. Agree(b, q, last_zero)
      BY <1>3, <3>1, <3>3, <3>4 DEF Extends
    <3>6. q[last_zero] = 0
      BY <1>3, <3>1, <3>2 DEF Extends
    <3> QED
      BY <3>3, <3>5, <3>6
  <2> QED
    BY <2>1, <2>2
<1>14. Fork(bus, last_zero)'
  BY <1>1, <1>13 DEF Fork, q
<1>15. 1 .. n' - 1 = 1 .. n
  BY <1>1
<1> QED
  BY <1>1, <1>10, <1>11, <1>12, <1>14, <1>15 DEF q

\* Before the last discrepancy: the old path.
LEMMA OldPathGoesOn ==
    ASSUME OneWireInv, ~harmed, BitChosen, NEW v \in {0, 1}, Taken(v),
           OnOldPath, n < search.last_discrepancy
    PROVE  OnOldPath'
<1>1. pc = "bits" /\ n \in 1 .. Bits /\ n' = n + 1 /\ Frame
  BY OneWireAssumption DEF BitChosen, OneWireInv, TypeOK, Taken, Frame, scanVars
<1>2. TypeOK
  BY DEF OneWireInv
<1> DEFINE r == search.rom_no
           q == search'.rom_no
           d == search.last_discrepancy
<1>3. Extends(q, r, n, v) /\ search'.last_discrepancy = d
  BY <1>1, <1>2, TakenPath
<1>4. r \in Addresses /\ d \in 0 .. Bits
  BY <1>2 DEF TypeOK, SearchType
<1>5. AtDevice(active)
  BY DEF OnOldPath
<1>6. r \in active
  BY <1>5 DEF AtDevice
<1>7. v = r[n]
  BY <1>6 DEF Taken
<1>8. q = r
  <2>1. q \in Addresses /\ \A i \in 1 .. Bits : q[i] = r[i]
    BY <1>3, <1>7 DEF Extends
  <2> QED
    BY <1>4, <2>1, SameBits
<1>9. active' = {a \in active : a[n] = v}
  BY DEF Taken
<1>10. r \in active'
  BY <1>6, <1>7, <1>9
<1>11. d # 0 => r[d] = 0 /\ \E b \in active' : b[d] = 1 /\ Agree(b, r, d)
  <2> SUFFICES ASSUME d # 0
               PROVE  r[d] = 0 /\ \E b \in active' : b[d] = 1 /\ Agree(b, r, d)
    OBVIOUS
  <2>1. r[d] = 0
    BY <1>5 DEF AtDevice, Fork
  <2>2. PICK b \in active : b[d] = 1 /\ Agree(b, r, d)
    BY <1>5 DEF AtDevice, Fork
  <2>3. n \in 1 .. d - 1
    BY <1>1, <1>4
  <2>4. b[n] = v
    BY <1>7, <2>2, <2>3 DEF Agree
  <2> QED
    BY <1>9, <2>1, <2>2, <2>4
<1>12. Fork(active, search.last_discrepancy)' /\ search'.rom_no = search.rom_no
  BY <1>3, <1>8, <1>11 DEF Fork
<1>13. /\ Wanted' = Wanted /\ first' = first /\ want' = want
       /\ \A a : Passed(a)' <=> Passed(a)
       /\ Range(addr_list)' = Range(addr_list)
  BY <1>1, FrameFacts DEF Frame
<1>14. AtDevice(active)'
  <2>1. /\ \A a \in Wanted : a = r \/ Before(a, r) => Passed(a)
        /\ \A b \in Range(addr_list) : b = r \/ Before(b, r)
        /\ \A a \in first : \A i \in 1 .. Bits : Splits(r, a, i) => i <= d
        /\ want # None => \A a \in Wanted : Family(r) = want \/ Before(a, r)
    BY <1>5 DEF AtDevice
  <2> HIDE DEF r, d
  <2>2. search'.rom_no = r /\ search'.last_discrepancy = d
    BY <1>3, <1>8
  <2>3. r \in active' /\ Fork(active, search.last_discrepancy)'
    BY <1>3, <1>10, <1>12
  <2> QED
    BY <1>13, <2>1, <2>2, <2>3 DEF AtDevice
<1>15. n' <= search'.last_discrepancy
  BY <1>1, <1>3, <1>4
<1> QED
  BY <1>14, <1>15 DEF OnOldPath

\* At the last discrepancy the search takes the other branch.
LEMMA OldPathEnds ==
    ASSUME OneWireInv, ~harmed, BitChosen, NEW v \in {0, 1}, Taken(v),
           OnOldPath, n = search.last_discrepancy
    PROVE  OnNewPath'
<1>1. pc = "bits" /\ n \in 1 .. Bits /\ n' = n + 1 /\ Frame
  BY OneWireAssumption DEF BitChosen, OneWireInv, TypeOK, Taken, Frame, scanVars
<1>2. TypeOK
  BY DEF OneWireInv
<1> DEFINE r == search.rom_no
           q == search'.rom_no
<1>3. Extends(q, r, n, v) /\ search'.last_discrepancy = n
  BY <1>1, <1>2, TakenPath
<1>4. r \in Addresses
  BY <1>2 DEF TypeOK, SearchType
<1>5. AtDevice(active)
  BY DEF OnOldPath
<1>6. r \in active /\ r[n] = 0 /\ \E b \in active : b[n] = 1
  BY <1>1, <1>5 DEF AtDevice, Fork
<1>7. v = 1
  BY <1>1, <1>6 DEF Taken, Discrepancy
<1>8. /\ Wanted' = Wanted /\ first' = first /\ want' = want
      /\ \A a : Passed(a)' <=> Passed(a)
      /\ Range(addr_list)' = Range(addr_list)
  BY <1>1, FrameFacts DEF Frame
<1>9. /\ \A a \in Wanted : a = r \/ Before(a, r) => Passed(a)
      /\ \A b \in Range(addr_list) : b = r \/ Before(b, r)
      /\ \A a \in first : \A i \in 1 .. Bits : Splits(r, a, i) => i <= n
      /\ want # None => \A a \in Wanted : Family(r) = want \/ Before(a, r)
  BY <1>5 DEF AtDevice
<1>10. /\ Wanted \subseteq first /\ first \subseteq Addresses
       /\ want # None => \A a \in Wanted : Family(a) = want
       /\ Range(addr_list) \subseteq Addresses
  BY <1>2, WantedFacts DEF TypeOK, Range
<1> HIDE DEF r, q
<1>11. \A x \in Addresses : x = r \/ Before(x, r) => BeforeIn(x, q, n + 1)
  BY <1>1, <1>3, <1>4, <1>6, <1>7, LeftBehind
<1>12. ASSUME NEW a \in Wanted, BeforeIn(a, q, n + 1)
       PROVE  Passed(a)
  <2>1. a \in Addresses /\ a \in first
    BY <1>10
  <2>2. CASE BeforeIn(a, r, n)
    <3>1. PICK i \in 1 .. n - 1 : Splits(a, r, i)
      BY <2>2 DEF BeforeIn
    <3>2. i \in 1 .. Bits
      BY <1>1, OneWireAssumption
    <3>3. Before(a, r)
      BY <3>1, <3>2, BeforeSplits
    <3> QED
      BY <1>9, <3>3
  <2>3. CASE Agree(a, r, n) /\ a[n] < 1
    <3>1. a[n] = 0
      <4>1. a[n] \in {0, 1}
        BY <1>1, <2>1 DEF Addresses
      <4> QED
        BY <2>3, <4>1
    <3>2. ASSUME NEW i \in 1 .. Bits, Splits(r, a, i)
          PROVE  FALSE
      <4>1. i <= n
        BY <1>9, <2>1, <3>2
      <4>2. CASE i = n
        BY <1>6, <3>1, <3>2, <4>2 DEF Splits
      <4>3. CASE i < n
        <5>1. i \in 1 .. n - 1
          BY <1>1, <4>3
        <5>2. a[i] = r[i] /\ a[i] \in {0, 1}
          BY <2>1, <2>3, <5>1 DEF Agree, Addresses
        <5> QED
          BY <3>2, <5>2 DEF Splits
      <4> QED
        BY <1>1, <4>1, <4>2, <4>3
    <3>3. a = r \/ Before(a, r)
      BY <1>4, <2>1, <3>2, Trichotomy, BeforeSplits
    <3> QED
      BY <1>9, <3>3
  <2>4. BeforeIn(a, r, n) \/ (Agree(a, r, n) /\ a[n] < v)
    BY <1>3, <1>12, <2>1 DEF Extends
  <2> QED
    BY <1>7, <2>2, <2>3, <2>4
<1>13. \A b \in Range(addr_list) : BeforeIn(b, q, n + 1)
  BY <1>9, <1>10, <1>11
<1>14. ASSUME want # None, NEW a \in Wanted
       PROVE  \/ n + 1 > FamilyBits /\ Agree(a, q, FamilyBits + 1)
              \/ BeforeIn(a, q, n + 1)
  <2>1. a \in Addresses /\ Family(a) = want
    BY <1>10, <1>14
  <2>2. CASE Before(a, r)
    BY <1>11, <2>1, <2>2
  <2>3. CASE Family(r) = want
    <3>1. Agree(a, r, FamilyBits + 1)
      BY <1>4, <2>1, <2>3, SameFamily
    <3>2. CASE n > FamilyBits
      <4>1. FamilyBits + 1 \in 1 .. n /\ n + 1 > FamilyBits
        BY <1>1, <3>2, OneWireAssumption
      <4> QED
        BY <1>3, <2>1, <3>1, <4>1 DEF Extends
    <3>3. CASE n <= FamilyBits
      <4>1. n \in 1 .. (FamilyBits + 1) - 1 /\ \A j \in 1 .. n - 1 : j \in 1 .. (FamilyBits + 1) - 1
        BY <1>1, <3>3, OneWireAssumption
      <4>2. Agree(a, r, n) /\ a[n] = 0
        BY <1>6, <3>1, <4>1 DEF Agree
      <4> QED
        BY <1>3, <1>7, <2>1, <4>2 DEF Extends
    <3> QED
      BY <1>1, <3>2, <3>3, OneWireAssumption
  <2> QED
    BY <1>9, <1>14, <2>2, <2>3
<1>15. n' > search'.last_discrepancy
  BY <1>1, <1>3
<1> QED
  BY <1>1, <1>8, <1>12, <1>13, <1>14, <1>15 DEF OnNewPath, q

\* Behind the last discrepancy nothing is left out.
LEMMA NewPathGoesOn ==
    ASSUME OneWireInv, ~harmed, BitChosen, NEW v \in {0, 1}, Taken(v), OnNewPath
    PROVE  OnNewPath'
<1>1. pc = "bits" /\ n \in 1 .. Bits /\ n' = n + 1 /\ Frame
  BY OneWireAssumption DEF BitChosen, OneWireInv, TypeOK, Taken, Frame, scanVars
<1>2. TypeOK /\ PathOK
  BY DEF OneWireInv
<1> DEFINE r == search.rom_no
           q == search'.rom_no
           d == search.last_discrepancy
<1>3. Extends(q, r, n, v) /\ search'.last_discrepancy = d
  BY <1>1, <1>2, TakenPath
<1>4. r \in Addresses /\ d \in 0 .. Bits
  BY <1>2 DEF TypeOK, SearchType
<1>5. /\ Wanted' = Wanted /\ first' = first /\ want' = want
      /\ \A a : Passed(a)' <=> Passed(a)
      /\ Range(addr_list)' = Range(addr_list)
  BY <1>1, FrameFacts DEF Frame
<1>6. /\ n > d
      /\ \A a \in Wanted : BeforeIn(a, r, n) => Passed(a)
      /\ \A b \in Range(addr_list) : BeforeIn(b, r, n)
      /\ want # None => \A a \in Wanted :
            (n > FamilyBits /\ Agree(a, r, FamilyBits + 1)) \/ BeforeIn(a, r, n)
  BY DEF OnNewPath
<1>7. /\ Wanted \subseteq first /\ first \subseteq Addresses
      /\ Range(addr_list) \subseteq Addresses
  BY <1>2, WantedFacts DEF TypeOK, Range
<1>8. \A a \in first : Agree(a, r, n) => a \in active
  BY <1>1, <1>2 DEF PathOK
<1>9. Discrepancy => v = 0
  BY <1>1, <1>4, <1>6 DEF Taken
<1>10. Discrepancy \/ \A a \in active : a[n] = v
  BY DEF Taken
<1> HIDE DEF r, q, d
<1>11. ASSUME NEW a \in Wanted, BeforeIn(a, q, n + 1)
       PROVE  Passed(a)
  <2>1. a \in Addresses /\ a \in first /\ a[n] \in {0, 1}
    BY <1>1, <1>7 DEF Addresses
  <2>2. BeforeIn(a, r, n) \/ (Agree(a, r, n) /\ a[n] < v)
    BY <1>3, <1>11, <2>1 DEF Extends
  <2>3. ~ (Agree(a, r, n) /\ a[n] < v)
    BY <1>8, <1>9, <1>10, <2>1
  <2> QED
    BY <1>6, <2>2, <2>3
<1>12. \A a \in Addresses : BeforeIn(a, r, n) => BeforeIn(a, q, n + 1)
  BY <1>3 DEF Extends
<1>13. \A b \in Range(addr_list) : BeforeIn(b, q, n + 1)
  BY <1>6, <1>7, <1>12
<1>14. ASSUME want # None, NEW a \in Wanted
       PROVE  (n + 1 > FamilyBits /\ Agree(a, q, FamilyBits + 1)) \/ BeforeIn(a, q, n + 1)
  <2>1. a \in Addresses
    BY <1>7
  <2>2. CASE n > FamilyBits /\ Agree(a, r, FamilyBits + 1)
    <3>1. FamilyBits + 1 \in 1 .. n /\ n + 1 > FamilyBits
      BY <1>1, <2>2, OneWireAssumption
    <3> QED
      BY <1>3, <2>1, <2>2, <3>1 DEF Extends
  <2> QED
    BY <1>6, <1>12, <1>14, <2>1, <2>2
<1>15. n' > search'.last_discrepancy
  BY <1>1, <1>3, <1>4, <1>6
<1> QED
  BY <1>1, <1>5, <1>11, <1>13, <1>14, <1>15 DEF OnNewPath, q

\* The first call for a family: as long as a device of that family takes
\* part, and also at the last bit, where a discrepancy would be taken for the
\* last one.
LEMMA FamilyPathGoesOn ==
    ASSUME OneWireInv, ~harmed, BitChosen, NEW v \in {0, 1}, Taken(v), OnFamilyPath
    PROVE  OnFamilyPath' \/ OnNewPath'
<1>1. pc = "bits" /\ n \in 1 .. Bits /\ n' = n + 1 /\ Frame /\ ~unsure
  BY OneWireAssumption DEF BitChosen, OneWireInv, TypeOK, ScanOK, Taken, Frame, scanVars
<1>2. TypeOK /\ PathOK /\ CallOK
  BY DEF OneWireInv
<1> DEFINE r == search.rom_no
           q == search'.rom_no
           p == onewire_search_prefix(want).rom_no
<1>3. Extends(q, r, n, v) /\ search'.last_discrepancy = Bits
  BY <1>1, <1>2, TakenPath DEF OnFamilyPath
<1>4. r \in Addresses
  BY <1>2 DEF TypeOK, SearchType
<1>5. /\ Wanted' = Wanted /\ first' = first /\ want' = want
      /\ \A a : Passed(a)' <=> Passed(a)
      /\ Range(addr_list)' = Range(addr_list) /\ addr_list' = addr_list
  BY <1>1, FrameFacts DEF Frame
<1>6. /\ want # None /\ addr_list = <<>> /\ search.last_discrepancy = Bits
      /\ \A i \in n .. Bits : r[i] = p[i]
      /\ \A a \in Wanted : Agree(a, r, FamilyBits + 1) /\ ~BeforeIn(a, r, n)
  BY DEF OnFamilyPath
<1>7. Wanted \subseteq first /\ first \subseteq Addresses
  BY <1>2, WantedFacts
<1>8. \A a \in first : Agree(a, r, n) => a \in active
  BY <1>1, <1>2 DEF PathOK
<1>9. Discrepancy => v = IF n < Bits THEN r[n] ELSE 1
  BY <1>1, OneWireAssumption, <1>6 DEF Taken
<1>10. Discrepancy \/ \A a \in active : a[n] = v
  BY DEF Taken
<1>11. \A i \in 1 .. Bits : i > FamilyBits => p[i] = 0
  BY OneWireAssumption DEF onewire_search_prefix
<1>12. ~ (Discrepancy /\ n = Bits)
  <2> SUFFICES ASSUME Discrepancy, n = Bits
               PROVE  FALSE
    OBVIOUS
  <2>1. PICK x \in active, y \in active : x[n] = 0 /\ y[n] = 1
    BY DEF Discrepancy
  <2>2. x \in Devices /\ y \in Devices
    BY <1>2 DEF TypeOK
  <2>3. Agree(x, r, n) /\ Agree(y, r, n)
    BY <1>1, <1>2 DEF CallOK
  <2>4. Agree(x, y, Bits)
    BY <2>3 DEF Agree
  <2>5. x = y
    BY <2>2, <2>4, LastBit
  <2> QED
    BY <2>1, <2>5
<1>13. \A i \in n .. Bits : p[i] = r[i]
  BY <1>6
<1>14. n \in n .. Bits
  BY <1>1, OneWireAssumption
<1> HIDE DEF r, q, p
<1>15. ASSUME NEW a \in Wanted
       PROVE  Agree(a, q, FamilyBits + 1) /\ ~BeforeIn(a, q, n + 1)
  <2>1. a \in Addresses /\ a \in first /\ a[n] \in {0, 1}
    BY <1>1, <1>7 DEF Addresses
  <2>2. Agree(a, r, FamilyBits + 1) /\ ~BeforeIn(a, r, n)
    BY <1>6
  <2>3. CASE n <= FamilyBits
    <3>1. n \in 1 .. (FamilyBits + 1) - 1 /\ \A j \in 1 .. n - 1 : j \in 1 .. (FamilyBits + 1) - 1
      BY <1>1, <2>3, OneWireAssumption
    <3>2. Agree(a, r, n) /\ a[n] = r[n]
      BY <2>2, <3>1 DEF Agree
    <3>3. a \in active
      BY <1>8, <2>1, <3>2
    <3>4. v = r[n]
      <4>1. n < Bits
        BY <1>1, <2>3, OneWireAssumption
      <4> QED
        BY <1>9, <1>10, <3>2, <3>3, <4>1
    <3>5. \A i \in 1 .. Bits : q[i] = r[i]
      BY <1>3, <3>4 DEF Extends
    <3>6. Agree(a, q, FamilyBits + 1)
      <4>1. \A j \in 1 .. (FamilyBits + 1) - 1 : j \in 1 .. Bits
        BY OneWireAssumption
      <4> QED
        BY <2>2, <3>5, <4>1 DEF Agree
    <3>7. ~ (a[n] < v)
      BY <2>1, <3>2, <3>4
    <3> QED
      BY <1>3, <2>1, <2>2, <3>6, <3>7 DEF Extends
  <2>4. CASE n > FamilyBits
    <3>1. FamilyBits + 1 \in 1 .. n
      BY <1>1, <2>4, OneWireAssumption
    <3>2. Agree(a, q, FamilyBits + 1)
      BY <1>3, <2>1, <2>2, <3>1 DEF Extends
    <3>3. ASSUME Agree(a, r, n), a[n] < v
          PROVE  FALSE
      <4>1. a \in active /\ a[n] # v /\ v = 1
        BY <1>8, <2>1, <3>3
      <4>2. Discrepancy /\ n < Bits
        BY <1>1, OneWireAssumption, <1>10, <1>12, <4>1
      <4>3. r[n] = 0
        BY <1>1, <1>11, <1>13, <1>14, <2>4
      <4> QED
        BY <1>9, <4>1, <4>2, <4>3
    <3> QED
      BY <1>3, <2>1, <2>2, <3>2, <3>3 DEF Extends
  <2> QED
    BY <1>1, <2>3, <2>4, OneWireAssumption
<1>16. CASE n < Bits
  <2>1. n' <= Bits
    BY <1>1, OneWireAssumption, <1>16
  <2>2. \A i \in n' .. Bits : q[i] = p[i]
    <3>1. \A i \in n' .. Bits : i \in n .. Bits /\ i \in 1 .. Bits /\ i # n
      BY <1>1
    <3> QED
      BY <1>3, <1>6, <3>1 DEF Extends
  <2>3. \A i \in n' .. Bits : search'.rom_no[i] = onewire_search_prefix(want').rom_no[i]
    BY <1>5, <2>2 DEF q, p
  <2>4. \A a \in Wanted' : /\ Agree(a, search'.rom_no, FamilyBits + 1)
                           /\ ~BeforeIn(a, search'.rom_no, n')
    BY <1>1, <1>5, <1>15 DEF q
  <2>5. OnFamilyPath'
    BY <1>3, <1>5, <1>6, <2>1, <2>3, <2>4 DEF OnFamilyPath, onewire_search_prefix
  <2> QED
    BY <2>5
<1>17. CASE n = Bits
  <2>1. n' > search'.last_discrepancy /\ n + 1 > FamilyBits
    BY <1>1, <1>3, <1>17, OneWireAssumption
  <2>2. Range(addr_list)' = {}
    BY <1>5, <1>6 DEF Range
  <2>3. OnNewPath'
    BY <1>1, <1>5, <1>15, <2>1, <2>2 DEF OnNewPath, q
  <2> QED
    BY <2>3
<1> QED
  BY <1>1, <1>16, <1>17, OneWireAssumption

LEMMA StepBit ==
    ASSUME OneWireInv, ~harmed, BitChosen
    PROVE  PathOK'
<1>1. TypeOK /\ CallOK /\ PathOK /\ ~unsure /\ pc = "bits" /\ n \in 1 .. Bits
  BY OneWireAssumption DEF OneWireInv, ScanOK, BitChosen, TypeOK
<1>2. PICK v \in {0, 1} : Taken(v)
  BY <1>1, BitIsTaken
<1>3. /\ \A a \in first : Agree(a, search'.rom_no, n') => a \in active'
      /\ \A a \in first : \A i \in 1 .. n' - 1 :
            Splits(search'.rom_no, a, i) => i <= last_zero'
      /\ last_zero' < n' /\ Fork(bus, last_zero)'
  BY <1>2, BitFacts
<1>4. ~search.last_device_found /\ (OnOldPath \/ OnNewPath \/ OnFamilyPath)
  BY <1>1 DEF PathOK
<1>5. (OnOldPath \/ OnNewPath \/ OnFamilyPath)'
  <2>1. CASE OnOldPath
    <3>1. n < search.last_discrepancy \/ n = search.last_discrepancy
      BY <1>1, <2>1, OneWireAssumption DEF OnOldPath, TypeOK, SearchType
    <3> QED
      BY <1>2, <2>1, <3>1, OldPathGoesOn, OldPathEnds
  <2>2. CASE OnNewPath
    BY <1>2, <2>2, NewPathGoesOn
  <2>3. CASE OnFamilyPath
    BY <1>2, <2>3, FamilyPathGoesOn
  <2> QED
    BY <1>4, <2>1, <2>2, <2>3
<1>6. ~search'.last_device_found
  BY <1>1, <1>2, <1>4, TakenPath
<1>7. first' = first
  BY DEF BitChosen, scanVars
<1> QED
  BY <1>3, <1>5, <1>6, <1>7 DEF PathOK

-----------------------------------------------------------------------------
(* Beginning and end of a call.                                            *)

LEMMA StepBegin ==
    ASSUME OneWireInv, ~harmed, NextBegin
    PROVE  PathOK'
<1>1. /\ pc = "next" /\ ~search.last_device_found
      /\ active' = bus /\ n' = 1 /\ last_zero' = 0 /\ search' = search /\ bus' = bus /\ Frame
  BY DEF NextBegin, Frame, scanVars
<1>2. TypeOK /\ first \subseteq bus /\ BetweenOK
  BY DEF OneWireInv, ScanOK
<1>3. /\ Wanted' = Wanted /\ first' = first /\ want' = want
      /\ \A a : Passed(a)' <=> Passed(a)
      /\ Range(addr_list)' = Range(addr_list) /\ addr_list' = addr_list
  BY <1>1, FrameFacts DEF Frame
<1>4. /\ \A a \in first' : a \in active'
      /\ \A i \in 1 .. n' - 1 : FALSE
      /\ last_zero' < n' /\ Fork(bus, last_zero)'
  BY <1>1, <1>2, <1>3 DEF Fork
<1>5. \A a, b : ~BeforeIn(a, b, 1)
  BY DEF BeforeIn
<1>6. CASE AtStart /\ want = None
  <2>1. search'.last_discrepancy = 0 /\ Range(addr_list)' = {}
    BY <1>1, <1>3, <1>6, NoneIsNoFamily DEF AtStart, Range
  <2>2. OnNewPath'
    BY <1>1, <1>3, <1>5, <1>6, <2>1 DEF OnNewPath
  <2> QED
    BY <1>1, <1>4, <2>2 DEF PathOK
<1>7. CASE AtStart /\ want # None
  <2>1. /\ search.last_discrepancy = Bits /\ addr_list = <<>>
        /\ search.rom_no = onewire_search_prefix(want).rom_no
    BY <1>7 DEF AtStart
  <2>2. ASSUME NEW a \in Wanted
        PROVE  Agree(a, search.rom_no, FamilyBits + 1)
    <3>1. Family(a) = want /\ a \in Addresses
      BY <1>2, <1>7, WantedFacts
    <3>2. \A i \in 1 .. FamilyBits : i \in 1 .. Bits /\ want[i] = a[i]
      BY <3>1, OneWireAssumption DEF Family
    <3>3. \A i \in 1 .. FamilyBits : search.rom_no[i] = want[i]
      BY <2>1, <3>2 DEF onewire_search_prefix
    <3>4. 1 .. (FamilyBits + 1) - 1 = 1 .. FamilyBits
      BY OneWireAssumption
    <3> QED
      BY <3>2, <3>3, <3>4 DEF Agree
  <2>3. n' <= Bits
    BY <1>1, OneWireAssumption
  <2>4. \A a \in Wanted' : /\ Agree(a, search'.rom_no, FamilyBits + 1)
                           /\ ~BeforeIn(a, search'.rom_no, n')
    BY <1>1, <1>3, <1>5, <2>2
  <2>5. \A i \in n' .. Bits : search'.rom_no[i] = onewire_search_prefix(want').rom_no[i]
    BY <1>1, <1>3, <2>1
  <2>6. OnFamilyPath'
    BY <1>1, <1>3, <1>7, <2>1, <2>3, <2>4, <2>5 DEF OnFamilyPath, onewire_search_prefix
  <2> QED
    BY <1>1, <1>4, <2>6 DEF PathOK
<1>8. CASE AtDevice(bus) /\ (search.last_device_found <=> search.last_discrepancy = 0)
  <2>1. search.last_discrepancy >= 1
    BY <1>1, <1>2, <1>8 DEF TypeOK, SearchType
  <2>2. AtDevice(active)'
    BY <1>1, <1>3, <1>8 DEF AtDevice, Fork
  <2>3. OnOldPath'
    BY <1>1, <2>1, <2>2 DEF OnOldPath
  <2> QED
    BY <1>1, <1>4, <2>3 DEF PathOK
<1> QED
  BY <1>1, <1>2, <1>6, <1>7, <1>8 DEF BetweenOK

LEMMA RangeAppend ==
    ASSUME NEW s \in Seq(Addresses), NEW x \in Addresses
    PROVE  Range(Append(s, x)) = Range(s) \cup {x}
<1>1. DOMAIN s = 1 .. Len(s) /\ DOMAIN Append(s, x) = 1 .. Len(s) + 1 /\ Len(s) \in Nat
  OBVIOUS
<1>2. \A i \in 1 .. Len(s) : Append(s, x)[i] = s[i]
  OBVIOUS
<1>3. Append(s, x)[Len(s) + 1] = x
  OBVIOUS
<1>4. \A i \in 1 .. Len(s) + 1 : i \in 1 .. Len(s) \/ i = Len(s) + 1
  BY <1>1
<1>5. Len(s) + 1 \in 1 .. Len(s) + 1 /\ \A i \in 1 .. Len(s) : i \in 1 .. Len(s) + 1
  BY <1>1
<1> QED
  BY <1>1, <1>2, <1>3, <1>4, <1>5 DEF Range

\* A call of such a scan ends with a device.
LEMMA EndFacts ==
    ASSUME OneWireInv, ~harmed, NextEnd
    PROVE  /\ search.rom_no \in bus
           /\ search' = Found(search) /\ pc' = "next"
           /\ addr_list' = IF Len(addr_list) < AddrCount THEN Append(addr_list, search.rom_no)
                                                         ELSE addr_list
           /\ OnNewPath
           /\ ~search.last_device_found
           /\ \A a \in first : \A i \in 1 .. Bits : Splits(search.rom_no, a, i) => i <= last_zero
           /\ Fork(bus, last_zero)
<1>1. TypeOK /\ CallOK /\ PathOK /\ ~unsure /\ pc = "bits" /\ n = Bits + 1
  BY DEF OneWireInv, ScanOK, NextEnd
<1>2. search.rom_no \in bus
  BY <1>1, EndOfCall
<1>3. Family(search.rom_no) # NoFamily
  BY <1>1, <1>2 DEF TypeOK, Devices
<1>4. search' = Found(search) /\ ReturnAddr(search.rom_no)
  BY <1>3 DEF NextEnd
<1>5. /\ ~search.last_device_found
      /\ \A a \in first : \A i \in 1 .. n - 1 : Splits(search.rom_no, a, i) => i <= last_zero
      /\ Fork(bus, last_zero)
      /\ OnOldPath \/ OnNewPath \/ OnFamilyPath
  BY <1>1 DEF PathOK
<1>6. ~OnOldPath /\ ~OnFamilyPath
  BY <1>1, OneWireAssumption DEF OnOldPath, OnFamilyPath, TypeOK, SearchType
<1>7. 1 .. n - 1 = 1 .. Bits
  BY <1>1, OneWireAssumption
<1> QED
  BY <1>2, <1>4, <1>5, <1>6, <1>7 DEF ReturnAddr

LEMMA StepEnd ==
    ASSUME OneWireInv, ~harmed, NextEnd
    PROVE  BetweenOK' /\ Sorted' /\ FamilyComesFirst'
<1> DEFINE r == search.rom_no
           full == ~ (Len(addr_list) < AddrCount)
<1>1. /\ r \in bus /\ search' = Found(search) /\ pc' = "next"
      /\ addr_list' = IF full THEN addr_list ELSE Append(addr_list, r)
      /\ OnNewPath /\ ~search.last_device_found
      /\ \A a \in first : \A i \in 1 .. Bits : Splits(r, a, i) => i <= last_zero
      /\ Fork(bus, last_zero)
  BY EndFacts
<1>2. TypeOK /\ Sorted /\ FamilyComesFirst
  BY DEF OneWireInv, ScanOK
<1>3. /\ search'.rom_no = r /\ search'.last_discrepancy = last_zero
      /\ search'.last_device_found <=> last_zero = 0
  BY <1>1, <1>2, ReturnedSearch
<1>4. first' = first /\ want' = want /\ bus' = bus /\ harmed' = harmed /\ Wanted' = Wanted
  BY DEF NextEnd, scanVars, Wanted
<1>5. n = Bits + 1
  BY DEF NextEnd
<1>6. /\ \A a \in Wanted : Before(a, r) => Passed(a)
      /\ \A b \in Range(addr_list) : Before(b, r)
      /\ want # None => \A a \in Wanted : Agree(a, r, FamilyBits + 1) \/ Before(a, r)
  BY <1>1, <1>5, BeforeWhole DEF OnNewPath
<1>7. /\ r \in Addresses /\ addr_list \in Seq(Addresses) /\ Len(addr_list) <= AddrCount
      /\ Len(addr_list) \in Nat /\ DOMAIN addr_list = 1 .. Len(addr_list)
  BY <1>2 DEF TypeOK, SearchType
<1>8. /\ Wanted \subseteq first /\ first \subseteq Addresses
      /\ want # None => \A a \in Wanted : Family(a) = want
  BY <1>2, WantedFacts
<1> HIDE DEF r, full
<1>9. full <=> Len(addr_list) = AddrCount
  <2>1. Len(addr_list) <= AddrCount /\ Len(addr_list) \in Nat
    BY <1>7
  <2>2. AddrCount \in Nat
    BY OneWireAssumption
  <2> QED
    BY <2>1, <2>2 DEF full
<1>10. Range(addr_list)' = IF full THEN Range(addr_list) ELSE Range(addr_list) \cup {r}
  BY <1>1, <1>7, RangeAppend
<1>11. \A a : Passed(a) => Passed(a)'
  <2> SUFFICES ASSUME NEW a, Passed(a)
               PROVE  Passed(a)'
    OBVIOUS
  <2>1. CASE a \in Range(addr_list)
    BY <1>10, <2>1 DEF Passed
  <2>2. CASE Len(addr_list) = AddrCount /\ \A b \in Range(addr_list) : Before(b, a)
    <3>1. full
      BY <1>9, <2>2
    <3> QED
      BY <1>1, <1>10, <2>2, <3>1 DEF Passed
  <2> QED
    BY <2>1, <2>2 DEF Passed
<1>12. \A a : a = r => Passed(a)'
  <2>1. CASE full
    BY <1>1, <1>6, <1>9, <1>10, <2>1 DEF Passed
  <2>2. CASE ~full
    BY <1>10, <2>2 DEF Passed
  <2> QED
    BY <2>1, <2>2
<1>13. AtDevice(bus)'
  <2>1. Fork(bus, search.last_discrepancy)'
    BY <1>1, <1>3, <1>4 DEF Fork, r
  <2>2. \A a \in Wanted' : a = r \/ Before(a, r) => Passed(a)'
    BY <1>4, <1>6, <1>11, <1>12
  <2>3. \A b \in Range(addr_list)' : b = r \/ Before(b, r)
    BY <1>6, <1>10
  <2>4. want # None => \A a \in Wanted : Family(r) = want \/ Before(a, r)
    <3> SUFFICES ASSUME want # None, NEW a \in Wanted, ~Before(a, r)
                 PROVE  Family(r) = want
      OBVIOUS
    <3>1. Agree(a, r, FamilyBits + 1) /\ a \in Addresses /\ Family(a) = want
      BY <1>6, <1>8
    <3> QED
      BY <1>7, <3>1, SameFamily
  <2> QED
    BY <1>1, <1>3, <1>4, <2>1, <2>2, <2>3, <2>4 DEF AtDevice
<1>14. Sorted'
  <2>1. CASE full
    BY <1>1, <1>2, <2>1 DEF Sorted
  <2>2. CASE ~full
    <3>1. addr_list' = Append(addr_list, r)
      BY <1>1, <2>2
    <3>2. /\ DOMAIN addr_list' = 1 .. Len(addr_list) + 1
          /\ \A i \in 1 .. Len(addr_list) : addr_list'[i] = addr_list[i]
          /\ addr_list'[Len(addr_list) + 1] = r
      BY <1>7, <3>1
    <3> SUFFICES ASSUME NEW i \in 1 .. Len(addr_list) + 1, NEW j \in 1 .. Len(addr_list) + 1, i < j
                 PROVE  Before(addr_list'[i], addr_list'[j])
      BY <3>2 DEF Sorted
    <3>3. i \in 1 .. Len(addr_list) /\ addr_list[i] \in Range(addr_list)
      BY <1>7 DEF Range
    <3>4. CASE j = Len(addr_list) + 1
      BY <1>6, <3>2, <3>3, <3>4
    <3>5. CASE j \in 1 .. Len(addr_list)
      BY <1>2, <1>7, <3>2, <3>3, <3>5 DEF Sorted
    <3> QED
      BY <1>7, <3>4, <3>5
  <2> QED
    BY <2>1, <2>2
<1>15. FamilyComesFirst'
  <2>1. CASE full
    BY <1>1, <1>2, <1>4, <2>1 DEF FamilyComesFirst
  <2>2. CASE ~full
    <3>1. addr_list' = Append(addr_list, r)
      BY <1>1, <2>2
    <3>2. /\ DOMAIN addr_list' = 1 .. Len(addr_list) + 1
          /\ \A i \in 1 .. Len(addr_list) : addr_list'[i] = addr_list[i]
          /\ addr_list'[Len(addr_list) + 1] = r
      BY <1>7, <3>1
    <3> SUFFICES ASSUME ~harmed, want # None, Wanted # {}, NEW i \in 1 .. Len(addr_list) + 1,
                        Family(addr_list'[i]) # want
                 PROVE  Wanted \subseteq {addr_list'[j] : j \in 1 .. i - 1}
      BY <1>4, <3>2 DEF FamilyComesFirst
    <3>3. CASE i \in 1 .. Len(addr_list)
      <4>1. Wanted \subseteq {addr_list[j] : j \in 1 .. i - 1}
        BY <1>2, <1>7, <3>2, <3>3 DEF FamilyComesFirst
      <4>2. \A j \in 1 .. i - 1 : j \in 1 .. Len(addr_list)
        BY <1>7, <3>3
      <4> QED
        BY <3>2, <4>1, <4>2
    <3>4. CASE i = Len(addr_list) + 1
      <4> SUFFICES ASSUME NEW a \in Wanted
                   PROVE  \E j \in 1 .. i - 1 : a = addr_list'[j]
        OBVIOUS
      <4>1. a \in Addresses /\ Family(a) = want
        BY <1>8
      <4>2. Before(a, r)
        BY <1>6, <1>7, <3>2, <3>4, <4>1, SameFamily
      <4>3. a \in Range(addr_list)
        BY <1>6, <1>9, <2>2, <4>2 DEF Passed
      <4>4. PICK j \in 1 .. Len(addr_list) : a = addr_list[j]
        BY <1>7, <4>3 DEF Range
      <4>5. j \in 1 .. i - 1
        BY <1>7, <3>4
      <4> QED
        BY <3>2, <4>4, <4>5
    <3> QED
      BY <1>7, <3>3, <3>4
  <2> QED
    BY <2>1, <2>2
<1>16. BetweenOK'
  BY <1>3, <1>13 DEF BetweenOK
<1> QED
  BY <1>14, <1>15, <1>16

\* The end of such a scan.
LEMMA StepDone ==
    ASSUME OneWireInv, ~harmed, NextNone
    PROVE  ScanIsComplete'
<1>1. TypeOK /\ BetweenOK /\ Sorted /\ first \subseteq bus /\ ~shorted /\ pc = "next"
  BY DEF OneWireInv, ScanOK, NextNone
<1>2. addr_list' = addr_list /\ first' = first /\ want' = want /\ Wanted' = Wanted
  BY DEF NextNone, ReturnNone, scanVars, Wanted
<1>3. search.last_device_found \/ bus = {}
  BY <1>1 DEF NextNone
<1>4. \A a \in Wanted : Passed(a)
  <2> SUFFICES ASSUME NEW a \in Wanted
               PROVE  Passed(a)
    OBVIOUS
  <2>1. a \in Addresses /\ a \in first /\ a \in bus /\ search.rom_no \in Addresses
    BY <1>1, WantedFacts DEF TypeOK, SearchType
  <2>2. search.last_device_found
    BY <1>3, <2>1
  <2>3. AtDevice(bus) /\ search.last_discrepancy = 0
    BY <1>1, <2>2 DEF BetweenOK, AtStart
  <2>4. \A i \in 1 .. Bits : ~Splits(search.rom_no, a, i)
    <3> SUFFICES ASSUME NEW i \in 1 .. Bits, Splits(search.rom_no, a, i)
                 PROVE  FALSE
      OBVIOUS
    <3>1. i <= 0
      BY <2>1, <2>3 DEF AtDevice
    <3> QED
      BY <3>1, OneWireAssumption
  <2>5. a = search.rom_no \/ Before(a, search.rom_no)
    BY <2>1, <2>4, Trichotomy, BeforeSplits
  <2> QED
    BY <2>3, <2>5 DEF AtDevice
<1> QED
  BY <1>1, <1>2, <1>4 DEF ScanIsComplete, Passed, Sorted, Range

-----------------------------------------------------------------------------
(* The invariant.                                                          *)

LEMMA InvInit == Init => OneWireInv
<1> SUFFICES ASSUME Init PROVE OneWireInv
  OBVIOUS
<1>1. TypeOK
  BY TypeInit
<1>2. /\ pc = "idle" /\ addr_list = <<>> /\ first = {} /\ ~shorted /\ DOMAIN addr_list = {}
  BY DEF Init
<1> QED
  BY <1>1, <1>2 DEF OneWireInv, CallOK, ScanOK, BetweenOK, PathOK, Sorted, ScanIsComplete,
                    FamilyComesFirst

LEMMA InvNext == OneWireInv /\ [Next]_vars => OneWireInv'
<1> SUFFICES ASSUME OneWireInv, [Next]_vars
             PROVE  OneWireInv'
  OBVIOUS
<1>1. TypeOK /\ CallOK /\ TypeOK' /\ CallOK'
  BY TypeNext, CallNext DEF OneWireInv
<1> SUFFICES ASSUME ~harmed'
             PROVE  (ScanOK /\ BetweenOK /\ PathOK /\ ScanIsComplete /\ FamilyComesFirst)'
  BY <1>1 DEF OneWireInv, ScanOK, BetweenOK, PathOK, ScanIsComplete, FamilyComesFirst
<1>2. CASE Scan
  <2>1. /\ pc' = "next" /\ addr_list' = <<>> /\ first' = bus /\ bus' = bus /\ harmed' = shorted
        /\ shorted' = shorted /\ DOMAIN addr_list' = {}
    BY <1>2 DEF Scan
  <2>2. PICK f \in Families \cup {None} :
           /\ want' = f
           /\ search' = IF f = None THEN onewire_search_start ELSE onewire_search_prefix(f)
    BY <1>2 DEF Scan
  <2>3. AtStart'
    <3>1. CASE f = None
      BY <2>1, <2>2, <3>1 DEF AtStart, onewire_search_start
    <3>2. CASE f # None
      <4>1. search' = onewire_search_prefix(want')
        BY <2>2, <3>2
      <4>2. search'.last_discrepancy = Bits /\ ~search'.last_device_found
        BY <4>1 DEF onewire_search_prefix
      <4> QED
        BY <2>1, <2>2, <3>2, <4>1, <4>2 DEF AtStart
    <3> QED
      BY <3>1, <3>2
  <2> QED
    BY <2>1, <2>3 DEF ScanOK, BetweenOK, PathOK, ScanIsComplete, FamilyComesFirst, Sorted
<1>3. CASE PlugOut \/ Short \/ BitShorted
  BY <1>3 DEF PlugOut, Short, BitShorted
<1>4. ASSUME harmed' = harmed
      PROVE  /\ ~harmed /\ ~shorted /\ first \subseteq bus /\ Sorted
             /\ pc = "bits" => ~unsure
             /\ BetweenOK /\ PathOK /\ ScanIsComplete /\ FamilyComesFirst
  BY <1>4 DEF OneWireInv, ScanOK
<1>5. CASE NextNone
  <2>1. harmed' = harmed /\ shorted' = shorted /\ first' = first /\ bus' = bus /\ pc' = "done" /\ Frame
    BY <1>5 DEF NextNone, ReturnNone, Frame, scanVars
  <2>2. ScanIsComplete'
    BY <1>4, <1>5, <2>1, StepDone
  <2>3. ScanOK' /\ FamilyComesFirst'
    BY <1>4, <2>1, FrameFacts DEF ScanOK, Sorted, FamilyComesFirst, Frame
  <2> QED
    BY <2>1, <2>2, <2>3 DEF BetweenOK, PathOK
<1>6. CASE NextBegin
  <2>1. /\ harmed' = harmed /\ shorted' = shorted /\ first' = first /\ bus' = bus /\ pc' = "bits"
        /\ ~unsure' /\ Frame
    BY <1>6 DEF NextBegin, Frame, scanVars
  <2>2. PathOK'
    BY <1>4, <1>6, <2>1, StepBegin
  <2>3. ScanOK' /\ FamilyComesFirst'
    BY <1>4, <2>1, FrameFacts DEF ScanOK, Sorted, FamilyComesFirst, Frame
  <2> QED
    BY <2>1, <2>2, <2>3 DEF BetweenOK, ScanIsComplete
<1>7. CASE BitNobody
  <2>1. harmed' = harmed /\ pc = "bits" /\ ReadBit(1) = 1 /\ ReadBit(0) = 1
    BY <1>7 DEF BitNobody
  <2>2. ~shorted /\ active # {}
    BY <1>1, <1>4, <2>1 DEF CallOK
  <2>3. (\A a \in active : a[n] = 1) /\ (\A a \in active : a[n] = 0)
    BY <2>1, <2>2 DEF ReadBit
  <2> QED
    BY <2>2, <2>3
<1>8. CASE BitChosen
  <2>1. /\ harmed' = harmed /\ shorted' = shorted /\ first' = first /\ bus' = bus /\ pc' = "bits"
        /\ pc = "bits" /\ unsure' = unsure /\ Frame
    BY <1>8 DEF BitChosen, Frame, scanVars
  <2>2. PathOK'
    BY <1>4, <1>8, <2>1, StepBit
  <2>3. ScanOK' /\ FamilyComesFirst'
    BY <1>4, <2>1, FrameFacts DEF ScanOK, Sorted, FamilyComesFirst, Frame
  <2> QED
    BY <2>1, <2>2, <2>3 DEF BetweenOK, ScanIsComplete
<1>9. CASE NextEnd
  <2>1. harmed' = harmed /\ shorted' = shorted /\ first' = first /\ bus' = bus
    BY <1>9 DEF NextEnd, scanVars
  <2>2. pc' = "next"
    BY <1>4, <1>9, <2>1, EndFacts
  <2>3. BetweenOK' /\ Sorted' /\ FamilyComesFirst'
    BY <1>4, <1>9, <2>1, StepEnd
  <2> QED
    BY <1>4, <2>1, <2>2, <2>3 DEF ScanOK, PathOK, ScanIsComplete
<1>10. CASE PlugIn
  <2>1. /\ harmed' = harmed /\ shorted' = shorted /\ bus \subseteq bus' /\ pc' = pc /\ unsure' = unsure
        /\ search' = search /\ n' = n /\ last_zero' = last_zero /\ active' = active /\ Frame
    BY <1>10 DEF PlugIn, Fault, Frame, scanVars
  <2>2. /\ Wanted' = Wanted /\ first' = first /\ want' = want /\ addr_list' = addr_list
        /\ \A a : Passed(a)' <=> Passed(a)
        /\ Range(addr_list)' = Range(addr_list)
    BY <2>1, FrameFacts DEF Frame
  <2>3. ScanOK' /\ FamilyComesFirst' /\ ScanIsComplete'
    BY <1>4, <2>1, <2>2 DEF ScanOK, Sorted, FamilyComesFirst, ScanIsComplete
  <2>4. /\ Fork(bus, search.last_discrepancy) => Fork(bus, search.last_discrepancy)'
        /\ Fork(bus, last_zero) => Fork(bus, last_zero)'
        /\ Fork(active, search.last_discrepancy) => Fork(active, search.last_discrepancy)'
    BY <2>1 DEF Fork
  <2>5. AtDevice(bus) => AtDevice(bus)'
    BY <2>1, <2>2, <2>4 DEF AtDevice
  <2>6. AtDevice(active) => AtDevice(active)'
    BY <2>1, <2>2, <2>4 DEF AtDevice
  <2>7. BetweenOK'
    BY <1>4, <2>1, <2>2, <2>5 DEF BetweenOK, AtStart
  <2>8. OnOldPath => OnOldPath'
    BY <2>1, <2>6 DEF OnOldPath
  <2>9. OnNewPath => OnNewPath'
    BY <2>1, <2>2 DEF OnNewPath
  <2>10. OnFamilyPath => OnFamilyPath'
    BY <2>1, <2>2 DEF OnFamilyPath
  <2>11. PathOK'
    BY <1>4, <2>1, <2>2, <2>4, <2>8, <2>9, <2>10 DEF PathOK
  <2> QED
    BY <2>3, <2>7, <2>11
<1>11. CASE UNCHANGED vars
  BY <1>11 DEF vars, OneWireInv, ScanOK, Sorted, BetweenOK, AtStart, AtDevice, Fork, Passed, Wanted,
       PathOK, OnOldPath, OnNewPath, OnFamilyPath, ScanIsComplete, FamilyComesFirst, Range
<1> QED
  BY <1>2, <1>3, <1>5, <1>6, <1>7, <1>8, <1>9, <1>10, <1>11 DEF Next, Searching

\* What the search knows of the tree of addresses, between two calls and after
\* each bit: which devices it has passed, which one it is at, and whether the
\* path it follows is that of the last address or has left it at the last
\* fork.  The two results below are conjuncts of it.
THEOREM OneWireInvariant == Spec => []OneWireInv
<1> QED
  BY InvInit, InvNext, PTL DEF Spec

\* A scan during which no device is unplugged and the bus is not shorted
\* finds every device that was there at its start exactly once, in the order
\* of the addresses, however many are plugged in meanwhile; a device is
\* missing only behind a list that is full.
THEOREM OneWireScanIsComplete == Spec => []ScanIsComplete
<1>1. OneWireInv => ScanIsComplete
  BY DEF OneWireInv
<1> QED
  BY <1>1, OneWireInvariant, PTL

\* A search that starts with onewire_search_prefix lists every device of the
\* family before any other one.
THEOREM OneWireFamilyComesFirst == Spec => []FamilyComesFirst
<1>1. OneWireInv => FamilyComesFirst
  BY DEF OneWireInv
<1> QED
  BY <1>1, OneWireInvariant, PTL
=============================================================================
