----------------------------- MODULE DhcpProofs -----------------------------
(***************************************************************************)
(* For any number of clients, leases and packets: until one lease time     *)
(* after the start no two clients use the same address, and the server's   *)
(* table has every address in use.  The inductive invariant is DhcpInv.    *)
(***************************************************************************)
EXTENDS DhcpServer, LeastElements, SequenceTheorems, TLAPS

USE ClientsAssumption, AddrAssumption, TimeAssumption, DhcpBoundAssumption

-----------------------------------------------------------------------------
(* The lease table.                                                        *)

\* Expiring leaves a lease alone that has not passed.
LEMMA ExpiredType ==
    ASSUME leases \in [Slots -> Lease], now \in Nat
    PROVE  /\ Expired \in [Slots -> Lease]
           /\ \A i \in Slots : ~ (leases[i].expires < now) => Expired[i] = leases[i]
BY DEF Expired, Lease

\* The slot that find_lease_slot returns is empty or has the client's address.
LEMMA FoundSlot ==
    ASSUME NEW t \in [Slots -> Lease], NEW c, NEW i \in FindLeaseSlot(t, c)
    PROVE  i \in Slots /\ (t[i].expires = 0 \/ t[i].hw = c)
<1> DEFINE empty == {j \in Slots : t[j].expires = 0}
<1> DEFINE first == IF empty = {} THEN {} ELSE {Least(empty)}
<1> DEFINE mine == {j \in Slots \ first : t[j].hw = c}
<1>1. ASSUME NEW S \in SUBSET Slots, S # {}
      PROVE  Least(S) \in S
  <2>1. S \in SUBSET Nat
    BY DEF Slots
  <2> QED
    BY <1>1, <2>1, LeastElement DEF Least
<1>2. i \in (IF mine # {} THEN {Least(mine)} ELSE first)
  BY DEF FindLeaseSlot
<1>3. CASE mine # {}
  <2>1. Least(mine) \in mine
    BY <1>1, <1>3
  <2> QED
    BY <1>2, <1>3, <2>1
<1>4. CASE mine = {}
  <2>1. i \in first
    BY <1>2, <1>4
  <2>2. empty # {} /\ i = Least(empty)
    BY <2>1
  <2>3. Least(empty) \in empty
    BY <1>1, <2>2
  <2> QED
    BY <2>2, <2>3
<1> QED
  BY <1>3, <1>4

\* The address of a slot is an octet; different addresses have different slots.
LEMMA AddrType ==
    /\ \A i \in Slots : AddrOf(i) \in Octets
    /\ \A a, b \in AnyAddr : InRange(a) /\ InRange(b) /\ a # b => OffsetOf(a) # OffsetOf(b)
<1>1. ASSUME NEW i \in Slots PROVE AddrOf(i) \in Octets
  <2>1. FirstAddr + i \in Nat
    BY DEF Slots
  <2> QED
    BY <2>1 DEF AddrOf, Octets
<1>2. ASSUME NEW a \in AnyAddr, NEW b \in AnyAddr, InRange(a), InRange(b), a # b
      PROVE  OffsetOf(a) # OffsetOf(b)
  BY <1>2 DEF InRange, AnyAddr, Addrs, Octets, OffsetOf
<1> QED
  BY <1>1, <1>2

-----------------------------------------------------------------------------
(* The queue.                                                              *)

LEMMA OutdatedType ==
    ASSUME mbox \in Seq(Msgs), NEW c
    PROVE  /\ Outdated(c) \in Seq(Msgs)
           /\ Len(Outdated(c)) = Len(mbox)
           /\ \A i \in DOMAIN mbox :
                 /\ Outdated(c)[i].type = mbox[i].type
                 /\ Outdated(c)[i].from = mbox[i].from
                 /\ Outdated(c)[i].cur => mbox[i].cur
                 /\ mbox[i].from = c => ~Outdated(c)[i].cur
<1>1. DOMAIN mbox = 1 .. Len(mbox) /\ Len(mbox) \in Nat
  OBVIOUS
<1>2. \A i \in DOMAIN mbox : mbox[i] \in Msgs
  OBVIOUS
<1>3. \A i \in DOMAIN mbox : Outdated(c)[i] \in Msgs
  BY <1>2 DEF Outdated, Msgs
<1>4. Outdated(c) = [i \in 1 .. Len(mbox) |-> Outdated(c)[i]]
  BY <1>1 DEF Outdated
<1>5. Outdated(c) \in [1 .. Len(mbox) -> Msgs]
  BY <1>1, <1>3, <1>4
<1>6. Outdated(c) \in Seq(Msgs) /\ Len(Outdated(c)) = Len(mbox)
  BY <1>1, <1>5
<1> QED
  BY <1>1, <1>2, <1>6 DEF Outdated, Msgs

\* What a queue looks like after a send: the old one, or one packet more.
LEMMA SentType ==
    ASSUME NEW q \in Seq(Msgs), NEW m \in Msgs, NEW p \in Sent(q, m)
    PROVE  /\ p \in Seq(Msgs)
           /\ Len(p) \in {Len(q), Len(q) + 1}
           /\ \A i \in DOMAIN q : p[i] = q[i]
           /\ \A i \in DOMAIN p : i \in DOMAIN q \/ (i = Len(q) + 1 /\ p[i] = m)
BY DEF Sent

-----------------------------------------------------------------------------
(* Steps of the clients and of time: nobody claims an address by them that *)
(* it did not claim before.                                                *)

LEMMA FewerClaims ==
    ASSUME DhcpInv, now' \in Nat, now' >= now,
           \A c \in Clients, a \in AnyAddr : Claims(c, a)' => Claims(c, a),
           server' = "up" => server = "up" /\ leases' = leases
    PROVE  TableAgrees' /\ ClaimsDiffer'
<1>1. now' <= LeaseTime => now <= LeaseTime
  BY DEF DhcpInv, DhcpTypeOK
<1>2. TableAgrees'
  BY <1>1 DEF DhcpInv, TableAgrees, InRange, OffsetOf
<1>3. ClaimsDiffer'
  BY <1>1 DEF DhcpInv, ClaimsDiffer
<1> QED
  BY <1>2, <1>3

\* The queue after c sent m, or nothing: RELEASE packets keep their place.
LEMMA QueueStep ==
    ASSUME DhcpInv, NEW c \in Clients, NEW q \in {mbox, Outdated(c)}, NEW m \in Msgs,
           mbox' \in Sent(q, m),
           \A d \in Clients, a \in AnyAddr : Claims(d, a)' => Claims(d, a),
           m.type = "RELEASE" => /\ m.from = c /\ q = Outdated(c)
                                 /\ \A a \in AnyAddr : ~Claims(c, a)'
    PROVE  mbox' \in Seq(Msgs) /\ ReleasesAreFinal'
<1>1. mbox \in Seq(Msgs)
  BY DEF DhcpInv, DhcpTypeOK
<1>2. /\ q \in Seq(Msgs) /\ Len(q) = Len(mbox)
      /\ \A i \in DOMAIN mbox : /\ q[i].type = mbox[i].type /\ q[i].from = mbox[i].from
                                /\ q[i].cur => mbox[i].cur
                                /\ q = Outdated(c) /\ mbox[i].from = c => ~q[i].cur
  BY <1>1, OutdatedType
<1>3. DOMAIN q = DOMAIN mbox /\ DOMAIN mbox = 1 .. Len(mbox) /\ Len(mbox) \in Nat
  BY <1>1, <1>2
<1>4. /\ mbox' \in Seq(Msgs)
      /\ \A i \in DOMAIN q : mbox'[i] = q[i]
      /\ \A i \in DOMAIN mbox' : i \in DOMAIN q \/ (i = Len(q) + 1 /\ mbox'[i] = m)
  BY <1>2, SentType
<1>5. ASSUME NEW j \in DOMAIN mbox', mbox'[j].type = "RELEASE", NEW d \in Clients,
             mbox'[j].from = d, NEW a \in AnyAddr
      PROVE  ~Claims(d, a)'
  <2>1. CASE j \in DOMAIN q
    <3>1. j \in DOMAIN mbox /\ mbox[j].type = "RELEASE" /\ mbox[j].from = d
      BY <1>2, <1>3, <1>4, <1>5, <2>1
    <3>2. ~Claims(d, a)
      BY <3>1 DEF DhcpInv, ReleasesAreFinal
    <3> QED
      BY <3>2
  <2>2. CASE j \notin DOMAIN q
    <3>1. mbox'[j] = m
      BY <1>4, <2>2
    <3> QED
      BY <1>5, <3>1
  <2> QED
    BY <2>1, <2>2
<1>6. ASSUME NEW i \in DOMAIN mbox', NEW j \in DOMAIN mbox', i < j,
             mbox'[j].type = "RELEASE", mbox'[i].from = mbox'[j].from
      PROVE  ~mbox'[i].cur
  <2>1. i \in DOMAIN q
    BY <1>3, <1>4, <1>6
  <2>2. i \in DOMAIN mbox /\ mbox'[i] = q[i] /\ q[i].from = mbox[i].from /\ (q[i].cur => mbox[i].cur)
    BY <1>2, <1>3, <1>4, <2>1
  <2>3. CASE j \in DOMAIN q
    <3>1. j \in DOMAIN mbox /\ mbox[j].type = "RELEASE" /\ mbox[j].from = mbox'[j].from
      BY <1>2, <1>3, <1>4, <1>6, <2>3
    <3>2. ~mbox[i].cur
      BY <1>6, <2>2, <3>1 DEF DhcpInv, ReleasesAreFinal
    <3> QED
      BY <2>2, <3>2
  <2>4. CASE j \notin DOMAIN q
    <3>1. mbox'[j] = m
      BY <1>4, <2>4
    <3>2. q = Outdated(c) /\ mbox[i].from = c
      BY <1>6, <2>2, <3>1
    <3> QED
      BY <1>2, <2>2, <3>2
  <2> QED
    BY <2>3, <2>4
<1>7. ReleasesAreFinal'
  BY <1>5, <1>6 DEF ReleasesAreFinal
<1> QED
  BY <1>4, <1>7

\* A step of client c that leaves the server alone, sends m or nothing behind
\* the queue, and claims nothing new, preserves the invariant.
LEMMA ClientPreserves ==
    ASSUME DhcpInv, NEW c \in Clients, NEW m \in Msgs, NEW q \in {mbox, Outdated(c)},
           mbox' \in Sent(q, m), UNCHANGED <<leases, server, now>>, churn' \in Nat,
           client' \in [Clients -> ClientStates], inbox' \in [Clients -> Replies],
           \A d \in Clients, a \in AnyAddr : Claims(d, a)' => Claims(d, a),
           m.type = "RELEASE" => /\ m.from = c /\ q = Outdated(c)
                                 /\ \A a \in AnyAddr : ~Claims(c, a)'
    PROVE  DhcpInv'
<1>1. mbox' \in Seq(Msgs) /\ ReleasesAreFinal'
  BY QueueStep
<1>2. TableAgrees' /\ ClaimsDiffer'
  BY FewerClaims DEF DhcpInv, DhcpTypeOK
<1>3. DhcpTypeOK'
  BY <1>1 DEF DhcpInv, DhcpTypeOK
<1> QED
  BY <1>1, <1>2, <1>3 DEF DhcpInv

\* Packets have their type, and not sending one is a way of sending it.
LEMMA SendFacts ==
    /\ \A c \in Clients, a \in AnyAddr, b \in AnyAddr,
          t \in {"DISCOVER", "REQUEST", "RELEASE"} :
          Msg(t, c, a, b) \in Msgs /\ Msg(t, c, a, b).type = t /\ Msg(t, c, a, b).from = c
    /\ \A q, m : q \in Sent(q, m)
    /\ NoReply \in Replies /\ NoReply.type = "none"
    /\ \A a : NoReply # Reply("ACK", a)
    /\ NewClient \in ClientStates /\ NewClient.st = "init"
BY DEF Msg, Msgs, AnyAddr, Sent, NoReply, Replies, Reply, NewClient, ClientStates, AnyAddr

\* Clearing the inbox of a client that holds nothing leaves it without claims.
LEMMA ClaimsOf ==
    ASSUME DhcpTypeOK, NEW c \in Clients, NEW r \in Replies, NEW s \in ClientStates,
           client' = [client EXCEPT ![c] = s], inbox' = [inbox EXCEPT ![c] = r],
           \A a \in AnyAddr : r # Reply("ACK", a)
    PROVE  /\ client' \in [Clients -> ClientStates] /\ inbox' \in [Clients -> Replies]
           /\ \A d \in Clients \ {c}, a \in AnyAddr : Claims(d, a)' <=> Claims(d, a)
           /\ s.st \notin {"bound", "renewing"} => \A a \in AnyAddr : ~Claims(c, a)'
           /\ \A a \in AnyAddr : Claims(c, a)' => s.st \in {"bound", "renewing"} /\ s.addr = a
BY DEF DhcpTypeOK, Claims, Holds

\* The general step of a client: a new state s, an empty inbox, m sent.
LEMMA ClientMoves ==
    ASSUME DhcpInv, NEW c \in Clients, NEW q \in {mbox, Outdated(c)}, NEW m \in Msgs,
           NEW s \in ClientStates, client' = [client EXCEPT ![c] = s],
           inbox' = [inbox EXCEPT ![c] = NoReply], mbox' \in Sent(q, m),
           UNCHANGED <<leases, server, now>>, churn' \in Nat,
           s.st \in {"bound", "renewing"} => \A a \in AnyAddr : s.addr = a => Claims(c, a),
           m.type = "RELEASE" => /\ m.from = c /\ q = Outdated(c)
                                 /\ s.st \notin {"bound", "renewing"}
    PROVE  DhcpInv'
<1>1. DhcpTypeOK /\ NoReply \in Replies /\ \A a \in AnyAddr : NoReply # Reply("ACK", a)
  BY SendFacts DEF DhcpInv
<1>2. /\ client' \in [Clients -> ClientStates] /\ inbox' \in [Clients -> Replies]
      /\ \A d \in Clients \ {c}, a \in AnyAddr : Claims(d, a)' <=> Claims(d, a)
      /\ s.st \notin {"bound", "renewing"} => \A a \in AnyAddr : ~Claims(c, a)'
      /\ \A a \in AnyAddr : Claims(c, a)' => s.st \in {"bound", "renewing"} /\ s.addr = a
  BY <1>1, ClaimsOf
<1>3. \A d \in Clients, a \in AnyAddr : Claims(d, a)' => Claims(d, a)
  BY <1>2
<1> QED
  BY <1>2, <1>3, ClientPreserves

LEMMA ClientStepPreserves ==
    ASSUME DhcpInv, NEW c \in Clients, ClientStep(c)
    PROVE  DhcpInv'
<1>1. DhcpTypeOK /\ client[c] \in ClientStates /\ inbox[c] \in Replies /\ churn \in Nat /\ now \in Nat
  BY DEF DhcpInv, DhcpTypeOK
<1>2. /\ client[c].st \in {"init", "selecting", "requesting", "bound", "renewing"}
      /\ client[c].addr \in AnyAddr /\ client[c].last \in AnyAddr
      /\ client[c].sent \in Nat /\ client[c].until \in Nat
      /\ inbox[c].addr \in AnyAddr /\ client[c].sent + LeaseTime \in Nat
  BY <1>1 DEF ClientStates, Replies
<1>3. CASE Discover(c)
  <2> DEFINE s == [client[c] EXCEPT !.st = "selecting"]
             m == Msg("DISCOVER", c, None, None)
  <2>1. s \in ClientStates /\ s.st = "selecting"
    BY <1>1, <1>2 DEF ClientStates
  <2>2. m \in Msgs /\ m.type = "DISCOVER" /\ m.from = c
    BY <1>2 DEF Msg, Msgs, AnyAddr
  <2>3. /\ client' = [client EXCEPT ![c] = s] /\ inbox' = [inbox EXCEPT ![c] = NoReply]
        /\ mbox' \in Sent(Outdated(c), m) /\ UNCHANGED <<leases, server, now>> /\ churn' \in Nat
    BY <1>1, <1>3, SendFacts DEF Discover, Begin, serverVars
  <2> HIDE DEF s, m
  <2> QED
    BY <2>1, <2>2, <2>3, ClientMoves
<1>4. CASE InitReboot(c)
  <2> DEFINE s == [client[c] EXCEPT !.st = "requesting", !.addr = client[c].last, !.sent = now]
             m == Msg("REQUEST", c, client[c].last, None)
  <2>1. s \in ClientStates /\ s.st = "requesting"
    BY <1>1, <1>2 DEF ClientStates
  <2>2. m \in Msgs /\ m.type = "REQUEST" /\ m.from = c
    BY <1>2 DEF Msg, Msgs, AnyAddr
  <2>3. /\ client' = [client EXCEPT ![c] = s] /\ inbox' = [inbox EXCEPT ![c] = NoReply]
        /\ mbox' \in Sent(Outdated(c), m) /\ UNCHANGED <<leases, server, now>> /\ churn' \in Nat
    BY <1>1, <1>4, SendFacts DEF InitReboot, Begin, Churn, serverVars
  <2> HIDE DEF s, m
  <2> QED
    BY <2>1, <2>2, <2>3, ClientMoves
<1>5. CASE Offered(c)
  <2> DEFINE s == [client[c] EXCEPT !.st = "requesting", !.addr = inbox[c].addr, !.sent = now]
             m == Msg("REQUEST", c, inbox[c].addr, None)
  <2>1. s \in ClientStates /\ s.st = "requesting"
    BY <1>1, <1>2 DEF ClientStates
  <2>2. m \in Msgs /\ m.type = "REQUEST" /\ m.from = c
    BY <1>2 DEF Msg, Msgs, AnyAddr
  <2>3. /\ client' = [client EXCEPT ![c] = s] /\ inbox' = [inbox EXCEPT ![c] = NoReply]
        /\ mbox' \in Sent(mbox, m) /\ UNCHANGED <<leases, server, now>> /\ churn' \in Nat
    BY <1>1, <1>5, SendFacts DEF Offered, serverVars
  <2> HIDE DEF s, m
  <2> QED
    BY <2>1, <2>2, <2>3, ClientMoves
<1>6. CASE Acked(c)
  <2> DEFINE s == [client[c] EXCEPT !.st = "bound", !.addr = inbox[c].addr, !.last = inbox[c].addr,
                                    !.until = client[c].sent + LeaseTime]
             m == Msg("REQUEST", c, None, None)
  <2>1. s \in ClientStates /\ s.st = "bound" /\ s.addr = inbox[c].addr
    BY <1>1, <1>2 DEF ClientStates
  <2>2. m \in Msgs /\ m.type = "REQUEST" /\ m.from = c
    BY <1>2 DEF Msg, Msgs, AnyAddr
  <2>3. /\ client' = [client EXCEPT ![c] = s] /\ inbox' = [inbox EXCEPT ![c] = NoReply]
        /\ mbox' \in Sent(mbox, m) /\ UNCHANGED <<leases, server, now>> /\ churn' \in Nat
    BY <1>1, <1>6, SendFacts DEF Acked, serverVars
  <2>4. \A a \in AnyAddr : s.addr = a => Claims(c, a)
    BY <1>1, <1>6, <2>1 DEF Acked, Claims, Replies, Reply
  <2> HIDE DEF s, m
  <2> QED
    BY <2>1, <2>2, <2>3, <2>4, ClientMoves
<1>7. CASE Naked(c)
  <2> DEFINE s == NewClient
             m == Msg("REQUEST", c, None, None)
  <2>1. s \in ClientStates /\ s.st = "init"
    BY <1>1, <1>2 DEF ClientStates, NewClient, AnyAddr
  <2>2. m \in Msgs /\ m.type = "REQUEST" /\ m.from = c
    BY <1>2 DEF Msg, Msgs, AnyAddr
  <2>3. /\ client' = [client EXCEPT ![c] = s] /\ inbox' = [inbox EXCEPT ![c] = NoReply]
        /\ mbox' \in Sent(mbox, m) /\ UNCHANGED <<leases, server, now>> /\ churn' \in Nat
    BY <1>1, <1>7, SendFacts DEF Naked, serverVars
  <2> HIDE DEF s, m
  <2> QED
    BY <2>1, <2>2, <2>3, ClientMoves
<1>8. CASE Renew(c)
  <2> DEFINE s == [client[c] EXCEPT !.st = "renewing", !.sent = now]
             m == Msg("REQUEST", c, None, client[c].addr)
  <2>1. s \in ClientStates /\ s.st = "renewing" /\ s.addr = client[c].addr
    BY <1>1, <1>2 DEF ClientStates
  <2>2. m \in Msgs /\ m.type = "REQUEST" /\ m.from = c
    BY <1>2 DEF Msg, Msgs, AnyAddr
  <2>3. /\ client' = [client EXCEPT ![c] = s] /\ inbox' = [inbox EXCEPT ![c] = NoReply]
        /\ mbox' \in Sent(Outdated(c), m) /\ UNCHANGED <<leases, server, now>> /\ churn' \in Nat
    BY <1>1, <1>8, SendFacts DEF Renew, Begin, Churn, serverVars
  <2>4. \A a \in AnyAddr : s.addr = a => Claims(c, a)
    BY <1>1, <1>8, <2>1 DEF Renew, Claims, Holds
  <2> HIDE DEF s, m
  <2> QED
    BY <2>1, <2>2, <2>3, <2>4, ClientMoves
<1>9. CASE Release(c)
  <2> DEFINE s == [NewClient EXCEPT !.last = client[c].last]
             m == Msg("RELEASE", c, None, client[c].addr)
  <2>1. s \in ClientStates /\ s.st = "init"
    BY <1>1, <1>2 DEF ClientStates, NewClient, AnyAddr
  <2>2. m \in Msgs /\ m.type = "RELEASE" /\ m.from = c
    BY <1>2 DEF Msg, Msgs, AnyAddr
  <2>3. /\ client' = [client EXCEPT ![c] = s] /\ inbox' = [inbox EXCEPT ![c] = NoReply]
        /\ mbox' \in Sent(Outdated(c), m) /\ UNCHANGED <<leases, server, now>> /\ churn' \in Nat
    BY <1>1, <1>9, SendFacts DEF Release, Begin, Churn, Forget, serverVars
  <2> HIDE DEF s, m
  <2> QED
    BY <2>1, <2>2, <2>3, ClientMoves
<1>10. CASE Leave(c)
  <2> DEFINE s == [NewClient EXCEPT !.last = client[c].last]
             m == Msg("REQUEST", c, None, None)
  <2>1. s \in ClientStates /\ s.st = "init"
    BY <1>1, <1>2 DEF ClientStates, NewClient, AnyAddr
  <2>2. m \in Msgs /\ m.type = "REQUEST" /\ m.from = c
    BY <1>2 DEF Msg, Msgs, AnyAddr
  <2>3. /\ client' = [client EXCEPT ![c] = s] /\ inbox' = [inbox EXCEPT ![c] = NoReply]
        /\ mbox' \in Sent(Outdated(c), m) /\ UNCHANGED <<leases, server, now>> /\ churn' \in Nat
    BY <1>1, <1>10, SendFacts DEF Leave, Churn, Forget, serverVars
  <2> HIDE DEF s, m
  <2> QED
    BY <2>1, <2>2, <2>3, ClientMoves
<1>11. CASE Retransmit(c)
  <2> DEFINE m == Msg("REQUEST", c, client[c].addr, None)
  <2>1. /\ mbox' \in Sent(mbox, m)
        /\ UNCHANGED <<leases, server, now, churn, client, inbox>>
    BY <1>11 DEF Retransmit, serverVars
  <2>2. \A d \in Clients, a \in AnyAddr : Claims(d, a)' => Claims(d, a)
    BY <2>1 DEF Claims, Holds
  <2>3. m \in Msgs /\ m.type = "REQUEST"
    BY <1>2 DEF Msg, Msgs, AnyAddr
  <2>4. /\ client' \in [Clients -> ClientStates] /\ inbox' \in [Clients -> Replies] /\ churn' \in Nat
    BY <1>1, <2>1 DEF DhcpTypeOK
  <2> HIDE DEF m
  <2> QED
    BY <2>1, <2>2, <2>3, <2>4, ClientPreserves
<1>12. CASE GiveUp(c)
  <2> DEFINE m == Msg("REQUEST", c, None, None)
  <2>1. m \in Msgs /\ m.type = "REQUEST"
    BY DEF Msg, Msgs, AnyAddr
  <2>2. /\ inbox' = [inbox EXCEPT ![c] = NoReply]
        /\ mbox' \in Sent(Outdated(c), m) /\ UNCHANGED <<leases, server, now>> /\ churn' \in Nat
    BY <1>1, <1>12, SendFacts DEF GiveUp, serverVars
  <2> HIDE DEF m
  <2>3. CASE Forget(c)
    <3> DEFINE s == [NewClient EXCEPT !.last = client[c].last]
    <3>1. s \in ClientStates /\ s.st = "init"
      BY <1>2 DEF NewClient, ClientStates, AnyAddr
    <3>2. client' = [client EXCEPT ![c] = s]
      BY <2>3 DEF Forget
    <3> HIDE DEF s
    <3> QED
      BY <2>1, <2>2, <3>1, <3>2, ClientMoves
  <2>4. CASE client[c].st = "renewing" /\ client' = [client EXCEPT ![c].st = "bound"]
    <3> DEFINE s == [client[c] EXCEPT !.st = "bound"]
    <3>1. s \in ClientStates /\ s.addr = client[c].addr
      BY <1>1 DEF ClientStates
    <3>2. client' = [client EXCEPT ![c] = s]
      BY <2>4
    <3>3. \A a \in AnyAddr : s.addr = a => Claims(c, a)
      BY <2>4, <3>1 DEF Claims, Holds
    <3> HIDE DEF s
    <3> QED
      BY <2>1, <2>2, <3>1, <3>2, <3>3, ClientMoves
  <2> QED
    BY <1>12, <2>3, <2>4 DEF GiveUp
<1> QED
  BY <1>3, <1>4, <1>5, <1>6, <1>7, <1>8, <1>9, <1>10, <1>11, <1>12 DEF ClientStep

-----------------------------------------------------------------------------
(* Steps of the server.                                                    *)

LEMMA TailFacts ==
    ASSUME mbox \in Seq(Msgs), mbox # <<>>
    PROVE  /\ Head(mbox) = mbox[1] /\ 1 \in DOMAIN mbox /\ Head(mbox) \in Msgs
           /\ Tail(mbox) \in Seq(Msgs)
           /\ \A i \in DOMAIN Tail(mbox) :
                 i \in Nat /\ i > 0 /\ i + 1 \in DOMAIN mbox /\ Tail(mbox)[i] = mbox[i + 1]
OBVIOUS

\* A step that takes the first packet from the queue, after which every claim
\* is in the table and only the sender of a packet that counts has a new one.
LEMMA ServerPreserves ==
    ASSUME DhcpInv, server = "up", mbox # <<>>, mbox' = Tail(mbox),
           UNCHANGED <<server, client, now, churn>>,
           leases' \in [Slots -> Lease], inbox' \in [Clients -> Replies],
           \A c \in Clients, a \in AnyAddr : now <= LeaseTime /\ Claims(c, a)' =>
               InRange(a) /\ leases'[OffsetOf(a)] = [hw |-> c, expires |-> LeaseTime],
           \A c \in Clients, a \in AnyAddr : Claims(c, a)' =>
               Claims(c, a) \/ (Head(mbox).cur /\ Head(mbox).from = c)
    PROVE  DhcpInv'
<1>1. mbox \in Seq(Msgs)
  BY DEF DhcpInv, DhcpTypeOK
<1>2. /\ Head(mbox) = mbox[1] /\ 1 \in DOMAIN mbox /\ Head(mbox) \in Msgs
      /\ mbox' \in Seq(Msgs)
      /\ \A i \in DOMAIN mbox' :
            i \in Nat /\ i > 0 /\ i + 1 \in DOMAIN mbox /\ mbox'[i] = mbox[i + 1]
  BY <1>1, TailFacts
<1>3. DhcpTypeOK'
  BY <1>2 DEF DhcpInv, DhcpTypeOK
<1>4. TableAgrees'
  BY DEF TableAgrees, InRange, OffsetOf
<1>5. ClaimsDiffer'
  <2> SUFFICES ASSUME now' <= LeaseTime, NEW c \in Clients, NEW d \in Clients, NEW a \in AnyAddr,
                      Claims(c, a)', Claims(d, a)'
               PROVE  c = d
    BY DEF ClaimsDiffer
  <2>1. now <= LeaseTime
    OBVIOUS
  <2>2. leases'[OffsetOf(a)] = [hw |-> c, expires |-> LeaseTime]
    BY <2>1
  <2>3. leases'[OffsetOf(a)] = [hw |-> d, expires |-> LeaseTime]
    BY <2>1
  <2> QED
    BY <2>2, <2>3
<1>6. ASSUME NEW j \in DOMAIN mbox', NEW c \in Clients, NEW a \in AnyAddr,
             mbox'[j].type = "RELEASE", mbox'[j].from = c
      PROVE  ~Claims(c, a)'
  <2>1. j + 1 \in DOMAIN mbox /\ mbox[j + 1].type = "RELEASE" /\ mbox[j + 1].from = c /\ 1 < j + 1
    BY <1>2, <1>6
  <2>2. ~Claims(c, a)
    BY <2>1 DEF DhcpInv, ReleasesAreFinal
  <2>3. mbox[1].from = c => ~mbox[1].cur
    BY <1>2, <2>1 DEF DhcpInv, ReleasesAreFinal
  <2> QED
    BY <1>2, <2>2, <2>3
<1>7. ASSUME NEW i \in DOMAIN mbox', NEW j \in DOMAIN mbox', i < j,
             mbox'[j].type = "RELEASE", mbox'[i].from = mbox'[j].from
      PROVE  ~mbox'[i].cur
  <2>1. i + 1 \in DOMAIN mbox /\ j + 1 \in DOMAIN mbox /\ i + 1 < j + 1
        /\ mbox'[i] = mbox[i + 1] /\ mbox'[j] = mbox[j + 1]
    BY <1>2, <1>7
  <2> QED
    BY <1>7, <2>1 DEF DhcpInv, ReleasesAreFinal
<1>8. ReleasesAreFinal'
  BY <1>6, <1>7 DEF ReleasesAreFinal
<1> QED
  BY <1>3, <1>4, <1>5, <1>8 DEF DhcpInv

\* The claims after an answer to m: the old ones, or the one it gives.
LEMMA AnswerClaims ==
    ASSUME DhcpTypeOK, NEW m \in Msgs, NEW r \in Replies, Answer(m, r), client' = client
    PROVE  /\ inbox' \in [Clients -> Replies]
           /\ \A c \in Clients, a \in AnyAddr : Claims(c, a)' =>
                 Claims(c, a) \/ (m.cur /\ m.from = c /\ r = Reply("ACK", a))
BY DEF DhcpTypeOK, Answer, Claims, Holds, Msgs

\* What the server's handlers start from.
LEMMA ReceiveFacts ==
    ASSUME DhcpInv, NEW type, Receive(type)
    PROVE  /\ server = "up" /\ mbox # <<>> /\ mbox' = Tail(mbox)
           /\ UNCHANGED <<server, client, now, churn>>
           /\ DhcpTypeOK /\ Head(mbox) \in Msgs /\ Head(mbox) = mbox[1] /\ 1 \in DOMAIN mbox
           /\ Head(mbox).from \in Clients /\ Head(mbox).type = type
           /\ Expired \in [Slots -> Lease]
           /\ \A c \in Clients, a \in AnyAddr : now <= LeaseTime /\ Claims(c, a) =>
                 /\ InRange(a) /\ OffsetOf(a) \in Slots
                 /\ Expired[OffsetOf(a)] = [hw |-> c, expires |-> LeaseTime]
<1>1. server = "up" /\ mbox # <<>> /\ mbox' = Tail(mbox) /\ Head(mbox).type = type
      /\ UNCHANGED <<server, client, now, churn>>
  BY DEF Receive
<1>2. DhcpTypeOK /\ mbox \in Seq(Msgs) /\ leases \in [Slots -> Lease] /\ now \in Nat
  BY DEF DhcpInv, DhcpTypeOK
<1>3. Head(mbox) \in Msgs /\ Head(mbox) = mbox[1] /\ 1 \in DOMAIN mbox
  BY <1>1, <1>2, TailFacts
<1>4. Head(mbox).from \in Clients
  BY <1>3 DEF Msgs
<1>5. Expired \in [Slots -> Lease]
      /\ \A i \in Slots : ~ (leases[i].expires < now) => Expired[i] = leases[i]
  BY <1>2, ExpiredType
<1>6. ASSUME NEW c \in Clients, NEW a \in AnyAddr, now <= LeaseTime, Claims(c, a)
      PROVE  /\ InRange(a) /\ OffsetOf(a) \in Slots
             /\ Expired[OffsetOf(a)] = [hw |-> c, expires |-> LeaseTime]
  <2>1. InRange(a) /\ leases[OffsetOf(a)] = [hw |-> c, expires |-> LeaseTime]
    BY <1>1, <1>6 DEF DhcpInv, TableAgrees
  <2>2. OffsetOf(a) \in Slots
    BY <2>1 DEF InRange
  <2>3. leases[OffsetOf(a)].expires = LeaseTime
    BY <2>1
  <2>4. ~ (leases[OffsetOf(a)].expires < now)
    BY <1>2, <1>6, <2>3
  <2> QED
    BY <1>5, <2>1, <2>2, <2>4
<1> QED
  BY <1>1, <1>2, <1>3, <1>4, <1>5, <1>6

\* Replies have their type; only an ACK gives an address.
LEMMA ReplyFacts ==
    /\ \A a \in AnyAddr : Reply("OFFER", a) \in Replies /\ Reply("ACK", a) \in Replies
    /\ Reply("NAK", None) \in Replies
    /\ \A a, b : Reply("OFFER", a) # Reply("ACK", b) /\ Reply("NAK", a) # Reply("ACK", b)
    /\ \A a, b : Reply("ACK", a) = Reply("ACK", b) => a = b
BY DEF Reply, Replies, AnyAddr

LEMMA DiscoverPreserves ==
    ASSUME DhcpInv, HandleDiscover
    PROVE  DhcpInv'
<1> DEFINE m == Head(mbox)
<1>1. Receive("DISCOVER") /\ leases' = Expired
  BY DEF HandleDiscover
<1>2. /\ server = "up" /\ mbox # <<>> /\ mbox' = Tail(mbox)
      /\ UNCHANGED <<server, client, now, churn>>
      /\ DhcpTypeOK /\ m \in Msgs
      /\ Expired \in [Slots -> Lease]
      /\ \A c \in Clients, a \in AnyAddr : now <= LeaseTime /\ Claims(c, a) =>
            InRange(a) /\ Expired[OffsetOf(a)] = [hw |-> c, expires |-> LeaseTime]
  BY <1>1, ReceiveFacts
<1>3. inbox' = inbox \/ \E i \in Slots : Answer(m, Reply("OFFER", AddrOf(i)))
  BY <1>2, FoundSlot DEF HandleDiscover
<1>4. /\ inbox' \in [Clients -> Replies]
      /\ \A c \in Clients, a \in AnyAddr : Claims(c, a)' => Claims(c, a)
  <2>1. CASE inbox' = inbox
    BY <1>2, <2>1 DEF DhcpTypeOK, Claims, Holds
  <2>2. CASE \E i \in Slots : Answer(m, Reply("OFFER", AddrOf(i)))
    <3>1. PICK i \in Slots : Answer(m, Reply("OFFER", AddrOf(i)))
      BY <2>2
    <3>2. AddrOf(i) \in AnyAddr
      BY AddrType DEF Addrs, AnyAddr
    <3> DEFINE r == Reply("OFFER", AddrOf(i))
    <3>3. r \in Replies /\ \A a \in AnyAddr : r # Reply("ACK", a)
      BY <3>2, ReplyFacts
    <3>4. Answer(m, r)
      BY <3>1
    <3> HIDE DEF r, m
    <3> QED
      BY <1>2, <3>3, <3>4, AnswerClaims
  <2> QED
    BY <1>3, <2>1, <2>2
<1> HIDE DEF m
<1> QED
  BY <1>1, <1>2, <1>4, ServerPreserves

LEMMA RequestPreserves ==
    ASSUME DhcpInv, HandleRequest
    PROVE  DhcpInv'
<1> DEFINE m == Head(mbox)
           free(a) == Expired[OffsetOf(a)].expires = 0 \/ Expired[OffsetOf(a)].hw = m.from
<1>1. Receive("REQUEST")
  BY DEF HandleRequest
<1>2. /\ server = "up" /\ mbox # <<>> /\ mbox' = Tail(mbox)
      /\ UNCHANGED <<server, client, now, churn>>
      /\ DhcpTypeOK /\ m \in Msgs /\ m.from \in Clients
      /\ Expired \in [Slots -> Lease]
      /\ \A c \in Clients, a \in AnyAddr : now <= LeaseTime /\ Claims(c, a) =>
            /\ InRange(a) /\ OffsetOf(a) \in Slots
            /\ Expired[OffsetOf(a)] = [hw |-> c, expires |-> LeaseTime]
  BY <1>1, ReceiveFacts
<1>3. PICK a \in RequestedIp(m) :
         \/ leases' = Expired /\ Answer(m, Reply("NAK", None))
         \/ /\ InRange(a) /\ free(a)
            /\ leases' = [Expired EXCEPT ![OffsetOf(a)] = [hw |-> m.from, expires |-> LeaseTime]]
            /\ Answer(m, Reply("ACK", a))
  BY DEF HandleRequest
<1>4. a \in AnyAddr
  BY <1>2 DEF RequestedIp, Msgs
<1>5. CASE leases' = Expired /\ Answer(m, Reply("NAK", None))
  <2> DEFINE r == Reply("NAK", None)
  <2>1. r \in Replies /\ \A b \in AnyAddr : r # Reply("ACK", b)
    BY ReplyFacts
  <2>2. Answer(m, r)
    BY <1>5
  <2> HIDE DEF r, m
  <2>3. /\ inbox' \in [Clients -> Replies]
        /\ \A c \in Clients, b \in AnyAddr : Claims(c, b)' => Claims(c, b)
    BY <1>2, <2>1, <2>2, AnswerClaims
  <2> QED
    BY <1>2, <1>5, <2>3, ServerPreserves
<1>6. CASE /\ InRange(a) /\ free(a)
           /\ leases' = [Expired EXCEPT ![OffsetOf(a)] = [hw |-> m.from, expires |-> LeaseTime]]
           /\ Answer(m, Reply("ACK", a))
  <2>1. a \in AnyAddr /\ OffsetOf(a) \in Slots
    BY <1>4, <1>6 DEF InRange
  <2> DEFINE r == Reply("ACK", a)
  <2>2. r \in Replies /\ \A b \in AnyAddr : r = Reply("ACK", b) => b = a
    BY <2>1, ReplyFacts
  <2>3. Answer(m, r)
    BY <1>6
  <2>4. /\ inbox' \in [Clients -> Replies]
        /\ \A c \in Clients, b \in AnyAddr : Claims(c, b)' =>
              Claims(c, b) \/ (m.cur /\ m.from = c /\ b = a)
    <3> HIDE DEF r, m
    <3> QED
      BY <1>2, <2>2, <2>3, AnswerClaims
  <2>5. leases' \in [Slots -> Lease]
    BY <1>2, <1>6, <2>1 DEF Lease
  <2>6. ASSUME NEW c \in Clients, NEW b \in AnyAddr, now <= LeaseTime, Claims(c, b)'
        PROVE  InRange(b) /\ leases'[OffsetOf(b)] = [hw |-> c, expires |-> LeaseTime]
    <3>1. leases'[OffsetOf(a)] = [hw |-> m.from, expires |-> LeaseTime]
      BY <1>2, <1>6, <2>1
    <3>2. CASE m.from = c /\ b = a
      BY <1>6, <3>1, <3>2
    <3>3. CASE Claims(c, b)
      <4>1. /\ InRange(b) /\ OffsetOf(b) \in Slots
            /\ Expired[OffsetOf(b)] = [hw |-> c, expires |-> LeaseTime]
        BY <1>2, <2>6, <3>3
      <4>2. CASE b = a
        <5>1. Expired[OffsetOf(a)].hw = c /\ Expired[OffsetOf(a)].expires # 0
          BY <4>1, <4>2
        <5>2. m.from = c
          BY <1>6, <5>1
        <5> QED
          BY <3>1, <4>1, <4>2, <5>2
      <4>3. CASE b # a
        <5>1. OffsetOf(b) # OffsetOf(a)
          BY <1>6, <2>1, <4>1, <4>3, AddrType
        <5> QED
          BY <1>2, <1>6, <2>1, <4>1, <5>1
      <4> QED
        BY <4>2, <4>3
    <3> QED
      BY <2>4, <2>6, <3>2, <3>3
  <2> HIDE DEF free
  <2>7. \A c \in Clients, b \in AnyAddr : Claims(c, b)' =>
            Claims(c, b) \/ (Head(mbox).cur /\ Head(mbox).from = c)
    BY <2>4
  <2> HIDE DEF m
  <2> QED
    BY <1>2, <2>4, <2>5, <2>6, <2>7, ServerPreserves
<1> QED
  BY <1>3, <1>5, <1>6

LEMMA ReleasePreserves ==
    ASSUME DhcpInv, HandleRelease
    PROVE  DhcpInv'
<1> DEFINE m == Head(mbox)
           slot == FindLeaseSlot(Expired, m.from)
<1>1. Receive("RELEASE") /\ inbox' = inbox
  BY DEF HandleRelease
<1>2. /\ server = "up" /\ mbox # <<>> /\ mbox' = Tail(mbox)
      /\ UNCHANGED <<server, client, now, churn>>
      /\ DhcpTypeOK /\ m = mbox[1] /\ 1 \in DOMAIN mbox
      /\ m.type = "RELEASE" /\ m.from \in Clients
      /\ Expired \in [Slots -> Lease]
      /\ \A c \in Clients, a \in AnyAddr : now <= LeaseTime /\ Claims(c, a) =>
            /\ InRange(a) /\ OffsetOf(a) \in Slots
            /\ Expired[OffsetOf(a)] = [hw |-> c, expires |-> LeaseTime]
  BY <1>1, ReceiveFacts
<1>3. leases' = [i \in Slots |-> IF i \in slot THEN [Expired[i] EXCEPT !.expires = 0] ELSE Expired[i]]
  BY DEF HandleRelease
<1>4. \A a \in AnyAddr : ~Claims(m.from, a)
  BY <1>2 DEF DhcpInv, ReleasesAreFinal
<1>5. \A i \in slot : Expired[i].expires = 0 \/ Expired[i].hw = m.from
  BY <1>2, FoundSlot
<1>6. leases' \in [Slots -> Lease] /\ inbox' \in [Clients -> Replies]
  <2> HIDE DEF slot
  <2> QED
    BY <1>1, <1>2, <1>3 DEF DhcpTypeOK, Lease
<1>7. \A c \in Clients, a \in AnyAddr : Claims(c, a)' <=> Claims(c, a)
  BY <1>1, <1>2 DEF Claims, Holds
<1> HIDE DEF slot, m
<1>8. ASSUME NEW c \in Clients, NEW a \in AnyAddr, now <= LeaseTime, Claims(c, a)'
      PROVE  InRange(a) /\ leases'[OffsetOf(a)] = [hw |-> c, expires |-> LeaseTime]
  <2>1. c # m.from /\ InRange(a) /\ OffsetOf(a) \in Slots
        /\ Expired[OffsetOf(a)] = [hw |-> c, expires |-> LeaseTime]
    BY <1>2, <1>4, <1>7, <1>8
  <2>2. OffsetOf(a) \notin slot
    BY <1>5, <2>1
  <2> QED
    BY <1>3, <2>1, <2>2
<1> QED
  BY <1>2, <1>6, <1>7, <1>8, ServerPreserves

LEMMA OtherPreserves ==
    ASSUME DhcpInv, HandleOther
    PROVE  DhcpInv'
<1>1. Receive(Head(mbox).type) /\ leases' = Expired /\ inbox' = inbox
  BY DEF HandleOther
<1>2. /\ server = "up" /\ mbox # <<>> /\ mbox' = Tail(mbox)
      /\ UNCHANGED <<server, client, now, churn>>
      /\ DhcpTypeOK /\ Expired \in [Slots -> Lease]
      /\ \A c \in Clients, a \in AnyAddr : now <= LeaseTime /\ Claims(c, a) =>
            /\ InRange(a) /\ OffsetOf(a) \in Slots
            /\ Expired[OffsetOf(a)] = [hw |-> c, expires |-> LeaseTime]
  BY <1>1, ReceiveFacts
<1>3. leases' \in [Slots -> Lease] /\ inbox' \in [Clients -> Replies]
  BY <1>1, <1>2 DEF DhcpTypeOK
<1>4. \A c \in Clients, a \in AnyAddr : Claims(c, a)' <=> Claims(c, a)
  BY <1>1, <1>2 DEF Claims, Holds
<1>5. ASSUME NEW c \in Clients, NEW a \in AnyAddr, now <= LeaseTime, Claims(c, a)'
      PROVE  InRange(a) /\ leases'[OffsetOf(a)] = [hw |-> c, expires |-> LeaseTime]
  BY <1>1, <1>2, <1>4, <1>5
<1> QED
  BY <1>2, <1>3, <1>4, <1>5, ServerPreserves

-----------------------------------------------------------------------------
(* The theorems.                                                           *)

\* A step that leaves the packets alone, after which there are fewer claims.
LEMMA QuietPreserves ==
    ASSUME DhcpInv, UNCHANGED <<mbox, inbox, churn>>, now' \in Nat, now' >= now,
           server' \in {"up", "stopped", "deaf"}, leases' \in [Slots -> Lease],
           client' \in [Clients -> ClientStates],
           \A c \in Clients, a \in AnyAddr : Claims(c, a)' => Claims(c, a),
           server' = "up" => server = "up" /\ leases' = leases
    PROVE  DhcpInv'
<1>1. TableAgrees' /\ ClaimsDiffer'
  BY FewerClaims
<1>2. ReleasesAreFinal'
  BY DEF DhcpInv, ReleasesAreFinal
<1>3. DhcpTypeOK'
  BY DEF DhcpInv, DhcpTypeOK
<1> QED
  BY <1>1, <1>2, <1>3 DEF DhcpInv

LEMMA InitHolds == DhcpInit => DhcpInv
<1> SUFFICES ASSUME DhcpInit PROVE DhcpInv
  OBVIOUS
<1>1. PICK o \in [Clients -> {None, Outside}] :
         client = [c \in Clients |-> [NewClient EXCEPT !.last = o[c]]]
  BY DEF DhcpInit
<1>2. client \in [Clients -> ClientStates] /\ \A c \in Clients : client[c].st = "init"
  BY <1>1 DEF NewClient, ClientStates, Addrs, AnyAddr
<1>3. DhcpTypeOK
  BY <1>2, SendFacts DEF DhcpInit, DhcpTypeOK, NoLease, Lease
<1>4. \A c \in Clients, a \in AnyAddr : ~Claims(c, a)
  BY <1>2, SendFacts DEF DhcpInit, Claims, Holds
<1>5. TableAgrees /\ ClaimsDiffer
  BY <1>4 DEF TableAgrees, ClaimsDiffer
<1>6. ReleasesAreFinal
  BY DEF DhcpInit, ReleasesAreFinal
<1> QED
  BY <1>3, <1>5, <1>6 DEF DhcpInv

LEMMA StepPreserves == DhcpInv /\ [DhcpNext]_dhcpVars => DhcpInv'
<1> SUFFICES ASSUME DhcpInv, [DhcpNext]_dhcpVars PROVE DhcpInv'
  OBVIOUS
<1>1. /\ leases \in [Slots -> Lease] /\ client \in [Clients -> ClientStates] /\ now \in Nat
      /\ server \in {"up", "stopped", "deaf"}
  BY DEF DhcpInv, DhcpTypeOK
<1>2. CASE Serve
  BY <1>2, DiscoverPreserves, RequestPreserves, ReleasePreserves, OtherPreserves DEF Serve
<1>3. CASE \E c \in Clients : ClientStep(c)
  BY <1>3, ClientStepPreserves
<1>4. CASE Stop \/ Start \/ UNCHANGED dhcpVars
  <2>1. /\ UNCHANGED <<mbox, inbox, churn, now, client>> /\ leases' \in [Slots -> Lease]
        /\ server' \in {"up", "stopped", "deaf"}
        /\ server' = "up" => server = "up" /\ leases' = leases
    BY <1>1, <1>4 DEF Stop, Start, dhcpVars, NoLease, Lease
  <2>2. \A c \in Clients, a \in AnyAddr : Claims(c, a)' => Claims(c, a)
    BY <2>1 DEF Claims, Holds
  <2> QED
    BY <1>1, <2>1, <2>2, QuietPreserves
<1>5. CASE Tick
  <2>1. UNCHANGED <<mbox, inbox, churn, leases, server>> /\ now' = now + 1
    BY <1>5 DEF Tick, serverVars
  <2>2. \A c \in Clients : client'[c] = client[c]
           \/ client'[c] = [NewClient EXCEPT !.last = client[c].last]
    BY <1>5 DEF Tick
  <2>3. \A c \in Clients : [NewClient EXCEPT !.last = client[c].last] \in ClientStates
           /\ [NewClient EXCEPT !.last = client[c].last].st = "init"
    BY <1>1 DEF NewClient, ClientStates, AnyAddr
  <2>4. client' \in [Clients -> ClientStates]
    BY <1>1, <1>5, <2>3 DEF Tick
  <2>5. \A c \in Clients, a \in AnyAddr : Claims(c, a)' => Claims(c, a)
    BY <2>1, <2>2, <2>3 DEF Claims, Holds
  <2> QED
    BY <1>1, <2>1, <2>4, <2>5, QuietPreserves
<1> QED
  BY <1>2, <1>3, <1>4, <1>5 DEF DhcpNext

\* The invariant: types; the table has every address in use or on its way;
\* nobody shares one; a RELEASE is the last that counts of its sender.
THEOREM DhcpInvariant == DhcpSpec => []DhcpInv
<1>1. DhcpInit => DhcpInv
  BY InitHolds
<1>2. DhcpInv /\ [DhcpNext]_dhcpVars => DhcpInv'
  BY StepPreserves
<1> QED
  BY <1>1, <1>2, PTL DEF DhcpSpec

\* Leases, messages and clients keep their types: in particular every slot that
\* dhcpserver_task writes is one of the table, whatever address a client asks
\* for and wherever the octet wraps around.
THEOREM DhcpTypeCorrect == DhcpSpec => []DhcpTypeOK
<1>1. DhcpInv => DhcpTypeOK
  BY DEF DhcpInv
<1> QED
  BY <1>1, DhcpInvariant, PTL

\* No two clients use the same address, until one lease time after the start.
THEOREM NoTwoOwnersHolds == DhcpSpec => []NoTwoOwners
<1>1. DhcpInv => NoTwoOwners
  <2> SUFFICES ASSUME DhcpInv, now <= LeaseTime, NEW c \in Clients, NEW d \in Clients,
                      c # d, Holds(c), Holds(d), client[c].addr = client[d].addr
               PROVE  FALSE
    BY DEF NoTwoOwners
  <2>1. client[c].addr \in AnyAddr
    BY DEF DhcpInv, DhcpTypeOK, ClientStates
  <2>2. Claims(c, client[c].addr) /\ Claims(d, client[c].addr)
    BY DEF Claims
  <2> QED
    BY <2>1, <2>2 DEF DhcpInv, ClaimsDiffer
<1> QED
  BY <1>1, DhcpInvariant, PTL

\* The slot of an address in use is leased to the client that uses it.
THEOREM ServerKnowsHolderHolds == DhcpSpec => []ServerKnowsHolder
<1>1. DhcpInv => ServerKnowsHolder
  <2> SUFFICES ASSUME DhcpInv, now <= LeaseTime, server = "up", NEW c \in Clients, Holds(c)
               PROVE  /\ InRange(client[c].addr)
                      /\ leases[OffsetOf(client[c].addr)].hw = c
                      /\ leases[OffsetOf(client[c].addr)].expires # 0
    BY DEF ServerKnowsHolder
  <2>1. client[c].addr \in AnyAddr
    BY DEF DhcpInv, DhcpTypeOK, ClientStates
  <2>2. Claims(c, client[c].addr)
    BY DEF Claims
  <2>3. InRange(client[c].addr)
        /\ leases[OffsetOf(client[c].addr)] = [hw |-> c, expires |-> LeaseTime]
    BY <2>1, <2>2 DEF DhcpInv, TableAgrees
  <2> QED
    BY <2>3
<1> QED
  BY <1>1, DhcpInvariant, PTL
=============================================================================
