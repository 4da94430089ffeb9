--------------------------- MODULE SysparamReaders --------------------------
(***************************************************************************)
(* A task that reads parameters while another one sets them.               *)
(* sysparam_get_data and the iterator (sysparam_iter_next) take no lock:   *)
(* they walk the log one entry header at a time, and compare the address   *)
(* they have reached with _sysparam_info.cur_base, which a compaction in   *)
(* the other task may have changed since.  They change one thing that they *)
(* share with it, force_compact.                                           *)
(*                                                                         *)
(* A step of the reader is one turn of the loop of _find_entry; the        *)
(* payload it then compares or returns is read with the header, because    *)
(* only the erase of the region can change a payload, and what a reader    *)
(* finds after that is left open (ReadAstray).  A left-over header (see    *)
(* LeftEntry) and the blank flash behind it are read in one step.          *)
(***************************************************************************)
EXTENDS Sysparam

VARIABLE rd         \* the call of the reading task

(***************************************************************************)
(* pc     "idle", "key" in _find_key, "value" in _find_value, "astray"     *)
(*        once the flash was erased under it, "done"                       *)
(* key    the key to get, Nil for an iterator                              *)
(* reg,at region and address of the header to read next                    *)
(* from   where the search for the next key goes on (ctx of the iterator)  *)
(* name,id  the key entry found last                                       *)
(* got    what was found: for a get the value (Nil: NOTFOUND)              *)
(* names  for an iterator the keys delivered so far                        *)
(* History: seen, the values that the key had during a get; steady, the    *)
(* keys that have had a value since an iteration began; moved, whether the *)
(* region in use has changed meanwhile; clean, whether the key of a get    *)
(* had one value at most when a set of it began.                           *)
(***************************************************************************)
NoReader == [pc |-> "idle", key |-> Nil, reg |-> 0, at |-> 0, from |-> [reg |-> 0, at |-> 0],
             name |-> Nil, id |-> 0, got |-> Nil, names |-> <<>>,
             seen |-> {}, steady |-> {}, moved |-> FALSE, clean |-> TRUE]
readerVars == <<vars, rd>>

-----------------------------------------------------------------------------
(* History.                                                                *)

\* The values a reader may find for k now: what the callers know, or the new
\* value of a call that still has to delete the old one, or that has failed
\* and may nevertheless have written it.
Written == pc = "delete" \/ (pc = "return" /\ ret = "ERR_IO")
Visible(k) == {CallerView[k]} \cup (IF k = op.key /\ Written THEN {op.val} \ {Nil} ELSE {})
Present == {k \in Keys : Nil \notin Visible(k)}

\* The call in progress has left the old value of its key behind.
LeftBehind(k) ==
    k = op.key /\ pc # "return" /\ op.prev # Nil /\ (old.pos = 0 \/ old.region # info.base)

Reading == rd.pc \in {"key", "value"}
Erased == pc = "format" /\ pc' # "format" /\ Other(info.base) \in {rd.reg, rd.from.reg}

\* What becomes of the reader when the other task takes a step, or power fails.
Observe ==
    rd' = IF crashes' # crashes THEN NoReader
          ELSE IF ~Reading THEN rd
          ELSE IF Erased THEN [NoReader EXCEPT !.pc = "astray"]
          ELSE [rd EXCEPT !.seen = @ \cup UNION {Visible(k)' : k \in Keys \cap {rd.key}},
                          !.steady = @ \cap Present',
                          !.moved = @ \/ info'.base # info.base,
                          !.clean = @ /\ (op'.key = rd.key => op'.clean)]

-----------------------------------------------------------------------------
(* The reader.                                                             *)

\* sysparam_get_data.
StartGet(k) ==
    /\ rd.pc = "idle" /\ Mounted
    /\ rd' = [NoReader EXCEPT
                 !.pc = "key", !.key = k, !.reg = info.base, !.at = HdrSize,
                 !.from = [reg |-> info.base, at |-> HdrSize],
                 !.seen = Visible(k), !.moved = LeftBehind(k),
                 !.clean = (op.key = k => op.clean)]
    /\ UNCHANGED vars

\* sysparam_iter_start and the calls of sysparam_iter_next that follow.
StartIteration ==
    /\ rd.pc = "idle" /\ Mounted
    /\ rd' = [NoReader EXCEPT
                 !.pc = "key", !.reg = info.base, !.at = HdrSize,
                 !.from = [reg |-> info.base, at |-> HdrSize],
                 !.steady = Present, !.moved = \E k \in Keys : LeftBehind(k)]
    /\ UNCHANGED vars

\* The position of the entry at address a of region r, 0 if none begins there.
EntryAt(r, a) == FirstOf({i \in DOMAIN log[r] : log[r][i].addr = a})

NextKey(r) == [r EXCEPT !.pc = "key", !.reg = r.from.reg, !.at = r.from.at, !.name = Nil, !.id = 0]

\* _find_entry gives up: a get ends with NOTFOUND; an iterator that looked
\* for a value goes on behind the key, one that looked for a key is done.
NotFound ==
    rd' = IF rd.pc = "value" /\ rd.key = Nil THEN NextKey(rd) ELSE [rd EXCEPT !.pc = "done"]

Behind == rd.reg < info.base /\ info.base # NoRegion

\* The region in use lies below the reader's address: it takes the entry it
\* stands on for one of impossible length.
ReadBeyond ==
    /\ Reading
    /\ \/ info.base = NoRegion \/ rd.reg > info.base
       \/ rd.reg = info.base /\ rd.at > RegionSize
    /\ info' = [info EXCEPT !.force = TRUE]
    /\ NotFound
    /\ UNCHANGED <<flash, pc, call, bounds>>

\* The reader reaches the end of its region or unwritten flash.  The end of
\* the first region is the base of the second: if that one is in use by now,
\* the reader goes on behind its header.
ReadEnd ==
    /\ Reading
    /\ \/ /\ rd.reg = info.base /\ rd.at = RegionSize
          /\ NotFound
       \/ /\ Behind /\ rd.at = RegionSize
          /\ rd' = [rd EXCEPT !.reg = info.base, !.at = HdrSize]
       \/ /\ rd.reg = info.base \/ Behind
          /\ rd.at < RegionSize /\ EntryAt(rd.reg, rd.at) = 0
          /\ NotFound
    /\ UNCHANGED vars

\* Mutants: any value will do; the iterator goes on behind the value it found.
ReadEntry_AnyValue ==
    /\ Reading /\ rd.reg = info.base /\ rd.at < RegionSize
    /\ LET i == EntryAt(rd.reg, rd.at)
           e == log[rd.reg][i]
           next == e.addr + e.size
       IN  /\ i # 0
           /\ rd' = IF rd.pc = "key" /\ e.kind = "key" /\ e.st = "live" /\ rd.key \in {e.data, Nil}
                    THEN [rd EXCEPT !.pc = "value", !.name = e.data, !.at = next]
                    ELSE IF rd.pc = "value" /\ e.kind = "value" /\ e.st = "live" /\ rd.key # Nil
                    THEN [rd EXCEPT !.pc = "done", !.got = e.data]
                    ELSE [rd EXCEPT !.at = next]
    /\ UNCHANGED vars
ReadEntry_SharedContext ==
    /\ Reading /\ rd.reg = info.base /\ rd.at < RegionSize
    /\ LET i == EntryAt(rd.reg, rd.at)
           e == log[rd.reg][i]
           next == e.addr + e.size
       IN  /\ i # 0
           /\ rd' = IF rd.pc = "key" /\ e.kind = "key" /\ e.st = "live" /\ rd.key \in {e.data, Nil}
                    THEN [rd EXCEPT !.pc = "value", !.name = e.data, !.id = e.id, !.at = next]
                    ELSE IF rd.pc = "value" /\ e.kind = "value" /\ e.st = "live" /\ e.id = rd.id /\ rd.key = Nil
                    THEN [rd EXCEPT !.pc = "key", !.names = Append(@, rd.name), !.at = next]
                    ELSE [rd EXCEPT !.at = next]
    /\ UNCHANGED vars

\* A header is read: the key in question, its value, or neither.
ReadEntry ==
    /\ Reading
    /\ rd.reg = info.base \/ Behind
    /\ rd.at < RegionSize
    /\ LET i == EntryAt(rd.reg, rd.at)
           e == log[rd.reg][i]
           next == e.addr + e.size
           isKey == rd.pc = "key" /\ e.kind = "key" /\ e.st = "live" /\ rd.key \in {e.data, Nil}
           isValue == rd.pc = "value" /\ e.kind = "value" /\ e.st = "live" /\ e.id = rd.id
       IN  /\ i # 0
           /\ \/ /\ isKey
                 /\ rd' = [rd EXCEPT !.pc = "value", !.name = e.data, !.id = e.id, !.at = next,
                                     !.from = [reg |-> rd.reg, at |-> next]]
              \/ /\ isValue /\ rd.key # Nil
                 /\ rd' = [rd EXCEPT !.pc = "done", !.got = e.data]
              \/ /\ isValue /\ rd.key = Nil
                 /\ rd' = [NextKey(rd) EXCEPT !.names = Append(@, rd.name)]
              \/ /\ ~isKey /\ ~isValue
                 /\ rd' = [rd EXCEPT !.at = next]
    /\ UNCHANGED vars

\* The flash under the reader was erased, or an entry of impossible length
\* led it into the middle of the other region: it may take what it finds for
\* a damaged entry, and what it returns is anything.
ReadAstray ==
    /\ rd.pc = "astray" \/ (Reading /\ Behind /\ rd.at > RegionSize)
    /\ rd' = NoReader
    /\ \/ UNCHANGED info
       \/ info' = [info EXCEPT !.force = TRUE]
    /\ UNCHANGED <<flash, pc, call, bounds>>

ReadReturn ==
    /\ rd.pc = "done"
    /\ rd' = NoReader
    /\ UNCHANGED vars

-----------------------------------------------------------------------------
ReaderInit == Init /\ rd = NoReader

ReadStep == ReadBeyond \/ ReadEnd \/ ReadEntry \/ ReadAstray \/ ReadReturn
\* A call that is done has read what it returns: a step of the other task
\* before its return would change nothing, so it returns first.
ReaderNext ==
    \/ rd.pc # "done" /\ Next /\ Observe
    \/ \E k \in Keys : StartGet(k)
    \/ StartIteration
    \/ ReadStep

ReaderSpec == ReaderInit /\ [][ReaderNext]_readerVars

-----------------------------------------------------------------------------
(* Properties.                                                             *)

\* As long as no compaction moves the store, a get is right although it
\* takes no lock: its answer, NOTFOUND included, is one that was true at some
\* moment of the call.
GetIsLinearizable ==
    rd.pc = "done" /\ rd.key # Nil /\ ~rd.moved => rd.got \in rd.seen

\* Also across a compaction, deletes of other keys included, a get of a key
\* that had a value all the time does not return a value it never had, if the
\* key had one value when it was set.  Only the erase that precedes the next
\* compaction takes the flash from under a reader.  Of a key that is deleted
\* meanwhile this is not true: a compaction may give its id to another key,
\* and a reader that walks from the end of a full first region into the
\* second returns the value of that key.
NoForeignValue ==
    rd.pc = "done" /\ rd.got # Nil /\ rd.clean /\ Nil \notin rd.seen => rd.got \in rd.seen

\* An iteration during which the store does not move delivers every parameter
\* that had a value all the time, and none twice.
IterationComplete ==
    rd.pc = "done" /\ rd.key = Nil /\ ~rd.moved =>
        /\ \A k \in rd.steady : \E i \in DOMAIN rd.names : rd.names[i] = k
        /\ \A i, j \in DOMAIN rd.names : rd.names[i] = rd.names[j] => i = j
=============================================================================
