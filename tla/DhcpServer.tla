----------------------------- MODULE DhcpServer -----------------------------
(***************************************************************************)
(* The DHCP server of an access point (extras/dhcpserver/dhcpserver.c) and *)
(* the clients that ask it for addresses.  The server is one task that     *)
(* takes a packet from its UDP socket, expires leases, and answers.  The   *)
(* clients and the network are external: packets of the one radio link     *)
(* arrive in order but may get lost, clients send again, restart, and      *)
(* remember the address they had.                                          *)
(*                                                                         *)
(* Of an IP address only the last octet is modelled, and Outside stands    *)
(* for every address of another network.  A packet is "cur" while its      *)
(* client still waits for the answer: a client that starts over takes a    *)
(* new transaction id and ignores what belongs to the old one.             *)
(***************************************************************************)
EXTENDS Integers, Sequences, FiniteSets

CONSTANTS
    Clients,        \* hardware addresses
    NoClient,       \* the zeroes of a lease that was never given
    None,           \* no address
    Outside,        \* an address of another network
    MaxLeases,      \* max_leases
    FirstAddr,      \* last octet of first_client_addr
    OctetMod,       \* 256: an octet wraps around
    LeaseTime,      \* DHCPSERVER_LEASE_TIME, in ticks of the model's clock
    MaxTime,        \* bound on the clock
    MboxSize,       \* packets lwIP queues for the socket
    MaxChurn,       \* how often clients release, restart and renew
    AllowRestart    \* may the application stop and start the server?

ASSUME ClientsAssumption == NoClient \notin Clients
ASSUME AddrAssumption ==
    /\ OctetMod \in Nat \ {0} /\ FirstAddr \in 0 .. OctetMod - 1
    /\ MaxLeases \in 0 .. OctetMod - 1
    /\ None \notin Int /\ Outside \notin Int /\ None # Outside
ASSUME TimeAssumption == LeaseTime \in Nat \ {0} /\ MaxTime \in Nat
ASSUME DhcpBoundAssumption ==
    MboxSize \in Nat /\ MaxChurn \in Nat /\ AllowRestart \in BOOLEAN

VARIABLES
    leases,     \* state->leases
    server,     \* "up", "stopped", or "deaf": running, but its socket is not bound
    mbox,       \* the packets queued for the socket
    client,     \* client[c]: state, address, times (see NewClient)
    inbox,      \* inbox[c]: the reply that has reached c
    now,        \* xTaskGetTickCount
    churn       \* releases, restarts and renewals so far

serverVars == <<leases, server>>
dhcpVars == <<leases, server, mbox, client, inbox, now, churn>>

Slots == 0 .. MaxLeases - 1
Octets == 0 .. OctetMod - 1
Addrs == Octets \cup {Outside}
AnyAddr == Addrs \cup {None}

Lease == [hw : Clients \cup {NoClient}, expires : Nat]
NoLease == [hw |-> NoClient, expires |-> 0]

Msg(type, c, addr, ciaddr) ==
    [type |-> type, from |-> c, addr |-> addr, ciaddr |-> ciaddr, cur |-> TRUE]
Msgs == [type : {"DISCOVER", "REQUEST", "RELEASE"}, from : Clients,
         addr : AnyAddr, ciaddr : AnyAddr, cur : BOOLEAN]

Reply(type, addr) == [type |-> type, addr |-> addr]
NoReply == Reply("none", None)
Replies == [type : {"none", "OFFER", "ACK", "NAK"}, addr : AnyAddr]

\* A client has an address or asks for one (addr), since when (sent), until
\* when it may use it, and which one it had last.
NewClient == [st |-> "init", addr |-> None, sent |-> 0, until |-> 0, last |-> None]
ClientStates == [st : {"init", "selecting", "requesting", "bound", "renewing"},
                 addr : AnyAddr, sent : Nat, until : Nat, last : AnyAddr]

-----------------------------------------------------------------------------
(* The lease table.                                                        *)

Least(S) == CHOOSE i \in S : \A j \in S : i <= j

\* "expire any leases that have passed", before every packet.
Expired ==
    [i \in Slots |-> IF leases[i].expires < now THEN [leases[i] EXCEPT !.expires = 0]
                     ELSE leases[i]]

\* find_lease_slot: the first slot of c, not counting the first empty one,
\* else the first empty one; the empty set if there is neither.
FindLeaseSlot(t, c) ==
    LET empty == {i \in Slots : t[i].expires = 0}
        first == IF empty = {} THEN {} ELSE {Least(empty)}
        mine == {i \in Slots \ first : t[i].hw = c}
    IN  IF mine # {} THEN {Least(mine)} ELSE first

\* Mutant: the octet does not wrap.
AddrOf_Wide(i) == FirstAddr + i

\* The address of a slot, and the slot of an address.
AddrOf(i) == (FirstAddr + i) % OctetMod
OffsetOf(a) == a - FirstAddr
InRange(a) == a # Outside /\ a # None /\ OffsetOf(a) \in Slots

-----------------------------------------------------------------------------
(* The server: one action per kind of packet.                              *)

\* A reply reaches the client, unless it is lost or the client has given up.
Answer(m, r) ==
    \/ m.cur /\ inbox' = [inbox EXCEPT ![m.from] = r]
    \/ UNCHANGED inbox

Receive(type) ==
    /\ server = "up" /\ mbox # <<>> /\ Head(mbox).type = type
    /\ mbox' = Tail(mbox)
    /\ UNCHANGED <<server, client, now, churn>>

HandleDiscover ==
    /\ Receive("DISCOVER")
    /\ leases' = Expired
    /\ LET m == Head(mbox)
           slot == FindLeaseSlot(Expired, m.from)
       IN  \/ slot = {} /\ UNCHANGED inbox              \* "All leases taken."
           \/ \E i \in slot : Answer(m, Reply("OFFER", AddrOf(i)))

\* requested_ip: option 50 if there is one.  Without it an uninitialised
\* variable is compared with 0.0.0.0, and decides between ciaddr and a NAK.
RequestedIp(m) == IF m.addr # None THEN {m.addr} ELSE {m.ciaddr, None}

\* Mutant: an address that is taken is given away again.
HandleRequest_NotChecked ==
    /\ Receive("REQUEST")
    /\ LET m == Head(mbox)
       IN  \E a \in RequestedIp(m) :
              \/ /\ ~InRange(a)
                 /\ leases' = Expired
                 /\ Answer(m, Reply("NAK", None))
              \/ /\ InRange(a)
                 /\ leases' = [Expired EXCEPT ![OffsetOf(a)] = [hw |-> m.from, expires |-> LeaseTime]]
                 /\ Answer(m, Reply("ACK", a))

\* The lease gets the lease time as its expiry tick, not now + lease time.
HandleRequest ==
    /\ Receive("REQUEST")
    /\ LET m == Head(mbox)
           free(a) == Expired[OffsetOf(a)].expires = 0 \/ Expired[OffsetOf(a)].hw = m.from
       IN  \E a \in RequestedIp(m) :
              \/ /\ ~(InRange(a) /\ free(a))
                 /\ leases' = Expired
                 /\ Answer(m, Reply("NAK", None))
              \/ /\ InRange(a) /\ free(a)
                 /\ leases' = [Expired EXCEPT ![OffsetOf(a)] = [hw |-> m.from, expires |-> LeaseTime]]
                 /\ Answer(m, Reply("ACK", a))

\* Mutant: the lease that is released is not looked up.
HandleRelease_FirstUsed ==
    /\ Receive("RELEASE")
    /\ LET used == {i \in Slots : Expired[i].expires # 0}
           slot == IF used = {} THEN {} ELSE {Least(used)}
       IN  leases' = [i \in Slots |-> IF i \in slot THEN NoLease ELSE Expired[i]]
    /\ UNCHANGED inbox

HandleRelease ==
    /\ Receive("RELEASE")
    /\ LET slot == FindLeaseSlot(Expired, Head(mbox).from)
       IN  leases' = [i \in Slots |-> IF i \in slot THEN [Expired[i] EXCEPT !.expires = 0]
                                      ELSE Expired[i]]
    /\ UNCHANGED inbox

\* A packet that is too short, not of Ethernet, or of no type or another one is
\* refused, but leases have expired.
HandleOther ==
    /\ Receive(Head(mbox).type)
    /\ leases' = Expired
    /\ UNCHANGED inbox

\* dhcpserver_stop deletes the task and frees its state, but not its socket.
Stop ==
    /\ AllowRestart /\ server # "stopped"
    /\ server' = "stopped"
    /\ leases' = [i \in Slots |-> NoLease]
    /\ UNCHANGED <<mbox, client, inbox, now, churn>>

\* dhcpserver_start after a stop: the port still belongs to the old socket,
\* and that netconn_bind fails is not noticed.
Start ==
    /\ server = "stopped"
    /\ server' = "deaf"
    /\ UNCHANGED <<leases, mbox, client, inbox, now, churn>>

-----------------------------------------------------------------------------
(* The clients (external).                                                 *)

\* c begins a new transaction: what it has sent before is not its own any more.
Outdated(c) == [i \in DOMAIN mbox |-> IF mbox[i].from = c THEN [mbox[i] EXCEPT !.cur = FALSE]
                                      ELSE mbox[i]]

\* m is queued behind q, or lost.
Sent(q, m) == {q} \cup (IF Len(q) < MboxSize THEN {Append(q, m)} ELSE {})

Begin(c, m) ==
    /\ mbox' \in Sent(Outdated(c), m)
    /\ inbox' = [inbox EXCEPT ![c] = NoReply]
    /\ UNCHANGED <<serverVars, now>>

Churn == churn < MaxChurn /\ churn' = churn + 1

Discover(c) ==
    /\ client[c].st = "init"
    /\ client' = [client EXCEPT ![c].st = "selecting"]
    /\ Begin(c, Msg("DISCOVER", c, None, None))
    /\ UNCHANGED churn

\* A client that had an address before asks for it at once.
InitReboot(c) ==
    /\ client[c].st = "init" /\ client[c].last # None
    /\ Churn
    /\ client' = [client EXCEPT ![c] = [@ EXCEPT !.st = "requesting", !.addr = client[c].last, !.sent = now]]
    /\ Begin(c, Msg("REQUEST", c, client[c].last, None))

Offered(c) ==
    /\ client[c].st = "selecting" /\ inbox[c].type = "OFFER"
    /\ client' = [client EXCEPT ![c] = [@ EXCEPT !.st = "requesting", !.addr = inbox[c].addr, !.sent = now]]
    /\ mbox' \in Sent(mbox, Msg("REQUEST", c, inbox[c].addr, None))
    /\ inbox' = [inbox EXCEPT ![c] = NoReply]
    /\ UNCHANGED <<serverVars, now, churn>>

\* The lease counts from the moment the client asked for it.
Acked(c) ==
    /\ client[c].st \in {"requesting", "renewing"} /\ inbox[c].type = "ACK"
    /\ client' = [client EXCEPT ![c] = [@ EXCEPT !.st = "bound", !.addr = inbox[c].addr,
                                                 !.last = inbox[c].addr, !.until = client[c].sent + LeaseTime]]
    /\ inbox' = [inbox EXCEPT ![c] = NoReply]
    /\ UNCHANGED <<serverVars, mbox, now, churn>>

Forget(c) == client' = [client EXCEPT ![c] = [NewClient EXCEPT !.last = client[c].last]]

Naked(c) ==
    /\ client[c].st \in {"requesting", "renewing"} /\ inbox[c].type = "NAK"
    /\ client' = [client EXCEPT ![c] = NewClient]
    /\ inbox' = [inbox EXCEPT ![c] = NoReply]
    /\ UNCHANGED <<serverVars, mbox, now, churn>>

\* Half of the lease time has passed: ask again, with the address in ciaddr.
Renew(c) ==
    /\ client[c].st = "bound"
    /\ Churn
    /\ client' = [client EXCEPT ![c] = [@ EXCEPT !.st = "renewing", !.sent = now]]
    /\ Begin(c, Msg("REQUEST", c, None, client[c].addr))

\* No answer: send the request again, or start over; a client that renews
\* keeps its address.
Retransmit(c) ==
    /\ client[c].st = "requesting"
    /\ mbox' \in Sent(mbox, Msg("REQUEST", c, client[c].addr, None))
    /\ UNCHANGED <<serverVars, client, inbox, now, churn>>
GiveUp(c) ==
    /\ \/ client[c].st \in {"selecting", "requesting"} /\ Forget(c)
       \/ client[c].st = "renewing" /\ client' = [client EXCEPT ![c].st = "bound"]
    /\ mbox' = Outdated(c)
    /\ inbox' = [inbox EXCEPT ![c] = NoReply]
    /\ UNCHANGED <<serverVars, now, churn>>

Release(c) ==
    /\ client[c].st = "bound"
    /\ Churn
    /\ Forget(c)
    /\ Begin(c, Msg("RELEASE", c, None, client[c].addr))

\* The client is switched off or leaves without a word.
Leave(c) ==
    /\ client[c].st # "init"
    /\ Churn
    /\ Forget(c)
    /\ mbox' = Outdated(c)
    /\ inbox' = [inbox EXCEPT ![c] = NoReply]
    /\ UNCHANGED <<serverVars, now>>

\* Time passes; a client gives up an address whose lease has run out.
Tick ==
    /\ now < MaxTime
    /\ now' = now + 1
    /\ client' = [c \in Clients |->
                     IF client[c].st \in {"bound", "renewing"} /\ client[c].until <= now + 1
                     THEN [NewClient EXCEPT !.last = client[c].last] ELSE client[c]]
    /\ UNCHANGED <<serverVars, mbox, inbox, churn>>

-----------------------------------------------------------------------------
DhcpInit ==
    /\ leases = [i \in Slots |-> NoLease]
    /\ server = "up"
    /\ mbox = <<>>
    /\ \E o \in [Clients -> {None, Outside}] : client = [c \in Clients |-> [NewClient EXCEPT !.last = o[c]]]
    /\ inbox = [c \in Clients |-> NoReply]
    /\ now = 0 /\ churn = 0

Serve == HandleDiscover \/ HandleRequest \/ HandleRelease \/ HandleOther
ClientStep(c) ==
    \/ Discover(c) \/ InitReboot(c) \/ Offered(c) \/ Acked(c) \/ Naked(c)
    \/ Renew(c) \/ Retransmit(c) \/ GiveUp(c) \/ Release(c) \/ Leave(c)
DhcpNext == Serve \/ Stop \/ Start \/ Tick \/ \E c \in Clients : ClientStep(c)

DhcpSpec == DhcpInit /\ [][DhcpNext]_dhcpVars

-----------------------------------------------------------------------------
(* Properties.                                                             *)

DhcpTypeOK ==
    /\ leases \in [Slots -> Lease]
    /\ server \in {"up", "stopped", "deaf"}
    /\ mbox \in Seq(Msgs)
    /\ client \in [Clients -> ClientStates]
    /\ inbox \in [Clients -> Replies]
    /\ now \in Nat /\ churn \in Nat

Holds(c) == client[c].st \in {"bound", "renewing"}

\* Until one lease time after the start no two clients use the same address,
\* whatever is lost, sent again, released, renewed or restarted.
NoTwoOwners ==
    now <= LeaseTime =>
        \A c, d \in Clients : c # d /\ Holds(c) /\ Holds(d) => client[c].addr # client[d].addr

\* The server knows every address in use: during that time the slot of an
\* address that a client holds is leased to it.
ServerKnowsHolder ==
    now <= LeaseTime /\ server = "up" =>
        \A c \in Clients : Holds(c) =>
            /\ InRange(client[c].addr)
            /\ leases[OffsetOf(client[c].addr)].hw = c
            /\ leases[OffsetOf(client[c].addr)].expires # 0

\* An address that c uses, or that an ACK on its way to c gives it.
Claims(c, a) == (Holds(c) /\ client[c].addr = a) \/ inbox[c] = Reply("ACK", a)

\* What the two properties rest on: the table agrees with the acknowledgements
\* on their way as well; a client whose RELEASE is queued claims nothing, and
\* has no request that still counts in front of it.
TableAgrees ==
    now <= LeaseTime /\ server = "up" =>
        \A c \in Clients, a \in AnyAddr : Claims(c, a) =>
            InRange(a) /\ leases[OffsetOf(a)] = [hw |-> c, expires |-> LeaseTime]
ClaimsDiffer ==
    now <= LeaseTime =>
        \A c, d \in Clients, a \in AnyAddr : Claims(c, a) /\ Claims(d, a) => c = d
ReleasesAreFinal ==
    /\ \A j \in DOMAIN mbox, c \in Clients, a \in AnyAddr :
          mbox[j].type = "RELEASE" /\ mbox[j].from = c => ~Claims(c, a)
    /\ \A i, j \in DOMAIN mbox :
          i < j /\ mbox[j].type = "RELEASE" /\ mbox[i].from = mbox[j].from => ~mbox[i].cur
DhcpInv == DhcpTypeOK /\ TableAgrees /\ ClaimsDiffer /\ ReleasesAreFinal
=============================================================================
