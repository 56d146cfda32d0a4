----------------------------- MODULE HostDriver -----------------------------
(***************************************************************************)
(* The host driver's listeners and their diagnostics (ccf/host_driver.py,  *)
(* ccf/telemetry.py).  TCP connections and UDP datagrams are admitted      *)
(* against a fixed number of permits before a thread is started for them.  *)
(* A TCP connection carries a bounded number of requests; each is read,    *)
(* put to the enclave and answered, under limits that add up to one        *)
(* deadline.  Exchanges with secondaries run beside them.  All of them     *)
(* leave contexts in the link cache, from which later spans are linked,    *)
(* and so does the receiver of the node's own spans.                       *)
(*                                                                         *)
(* Time is counted in the unit all the code's limits are multiples of.  A  *)
(* blocking operation that reaches its limit ends before time goes on.     *)
(***************************************************************************)
EXTENDS Naturals, FiniteSets, Sequences

CONSTANTS
    Tcp, Udp,       \* connections and datagrams of clients
    Work,           \* exchanges with a secondary
    Kind,           \* of each exchange: "soa" or "notify"
    MaxPermits,     \* per listener: MAX_TCP_CONNECTIONS, MAX_UDP_HANDLERS
    MaxRequests,    \* MAX_REQUESTS_PER_CONNECTION
    ConnSeconds,    \* MAX_CONNECTION_SECONDS
    ReadSeconds,    \* 10 s for one read or for sending an answer
    PostSeconds,    \* 10 s for one request to the enclave
    MaxSerial,      \* bound on zone serials
    CacheMax        \* LinkCache.maximum

ASSUME HostDriverAssumption ==
    /\ Tcp \cap Udp = {}
    /\ Kind \in [Work -> {"soa", "notify"}]
    /\ MaxPermits \in [{"tcp", "udp"} -> Nat \ {0}]
    /\ {MaxRequests, ConnSeconds, ReadSeconds, PostSeconds, MaxSerial, CacheMax}
            \subseteq Nat \ {0}

Clients == Tcp \cup Udp
ListenerOf(c) == IF c \in Tcp THEN "tcp" ELSE "udp"
Serials == 1 .. MaxSerial

VARIABLES
    conn,      \* the handler thread of each client, if it has one
    permits,   \* per listener
    exchange,  \* the exchange of each work item
    cache,     \* LinkCache.rows, oldest first
    serial     \* the zone's serial, as committed

driverVars == <<conn, permits, exchange, cache, serial>>

NoHandler == [stage |-> "idle", age |-> 0, wait |-> 0, limit |-> 0, requests |-> 0, answer |-> 0]
Stages == {"idle", "length", "body", "authority", "send"}
Origins == {"transfer", "exchange", "native"}

\* A row of the cache: where its context comes from and, as a ghost, whether the
\* enclave had accepted what the context is about.
Rows == [key : {"zone_serial"} \X Serials \cup {<<"observed_zone", 0>>} \cup ({"work"} \X Work),
         by : Origins, accepted : BOOLEAN]

DriverTypeOK ==
    /\ conn \in [Clients -> [stage : Stages, age : Nat, wait : Nat, limit : Nat,
                             requests : 0 .. MaxRequests, answer : 0 .. MaxSerial]]
    /\ permits \in [{"tcp", "udp"} -> Nat]
    /\ exchange \in [Work -> [stage : {"idle", "queued", "peer", "post"},
                              answer : 0 .. MaxSerial, genuine : BOOLEAN]]
    /\ cache \in Seq(Rows)
    /\ serial \in Serials

NoExchange == [stage |-> "idle", answer |-> 0, genuine |-> FALSE]

DriverInit ==
    /\ conn = [c \in Clients |-> NoHandler]
    /\ permits = MaxPermits
    /\ exchange = [w \in Work |-> NoExchange]
    /\ cache = <<>>
    /\ serial = 1

Shorter(a, b) == IF a <= b THEN a ELSE b

-----------------------------------------------------------------------------
(* LinkCache.                                                              *)

\* The rows without the one of this key, if there is one.
Without(rows, key) ==
    IF \E i \in DOMAIN rows : rows[i].key = key
    THEN LET i == CHOOSE i \in DOMAIN rows : rows[i].key = key
         IN  SubSeq(rows, 1, i - 1) \o SubSeq(rows, i + 1, Len(rows))
    ELSE rows

\* A key put again becomes the newest; beyond the maximum the oldest go.
Put(rows, key, origin, accepted) ==
    LET all == Append(Without(rows, key),
                      [key |-> key, by |-> origin, accepted |-> accepted])
    IN  SubSeq(all, 1 + (Len(all) - Shorter(Len(all), CacheMax)), Len(all))

\* What a lookup may leave: it deletes a row that has outlived its lifetime, and
\* when that is is left open.
Looked(rows, key) == {rows, Without(rows, key)}

\* link_snapshot: only metadata that carries a serial is looked up.
LinkSnapshot(rows, n) == IF n = 0 THEN {rows} ELSE Looked(rows, <<"zone_serial", n>>)

-----------------------------------------------------------------------------
(* The listeners.                                                          *)

Open(c) == conn[c].stage # "idle"

\* The handler ends, whatever the reason, and process_request_thread gives the
\* permit back.
End(c) ==
    /\ conn' = [conn EXCEPT ![c] = NoHandler]
    /\ permits' = [permits EXCEPT ![ListenerOf(c)] = @ + 1]

\* Faulty variant: each read has its full ten seconds.
Limit_NoDeadline(c) == ReadSeconds

\* The time a read or a send may take: the connection's deadline bounds it too.
Limit(c) == Shorter(ReadSeconds, ConnSeconds - conn[c].age)

\* The next blocking operation of the connection, unless its deadline is over.
Enter(c, stage, requests, answer) ==
    IF conn[c].age >= ConnSeconds THEN End(c)
    ELSE /\ conn' = [conn EXCEPT ![c] = [@ EXCEPT !.stage = stage, !.wait = 0, !.limit = Limit(c),
                                                  !.requests = requests, !.answer = answer]]
         /\ UNCHANGED permits

\* Faulty variant: the permit of a thread that could not be started is lost.
Admit_Leak(c) ==
    /\ ~Open(c)
    /\ permits[ListenerOf(c)] > 0
    /\ permits' = [permits EXCEPT ![ListenerOf(c)] = @ - 1]
    /\ \E started \in BOOLEAN :
          conn' = IF started
                  THEN [conn EXCEPT ![c] = IF c \in Tcp
                          THEN [NoHandler EXCEPT !.stage = "length", !.limit = Limit(c)]
                          ELSE [NoHandler EXCEPT !.stage = "authority", !.limit = PostSeconds]]
                  ELSE conn
    /\ UNCHANGED <<exchange, cache, serial>>

\* process_request: without a permit the client is turned away at once.  A
\* datagram is complete, and goes to the enclave; a connection is read first.
\* If the thread cannot be started the permit is released again.
Admit(c) ==
    /\ ~Open(c)
    /\ permits[ListenerOf(c)] > 0
    /\ \E started \in BOOLEAN :
          IF started
          THEN /\ permits' = [permits EXCEPT ![ListenerOf(c)] = @ - 1]
               /\ conn' = [conn EXCEPT ![c] = IF c \in Tcp
                              THEN [NoHandler EXCEPT !.stage = "length", !.limit = Limit(c)]
                              ELSE [NoHandler EXCEPT !.stage = "authority", !.limit = PostSeconds]]
          ELSE UNCHANGED <<permits, conn>>
    /\ UNCHANGED <<exchange, cache, serial>>

\* exact(): some bytes arrive, and the next recv begins.
Trickle(c) ==
    /\ conn[c].stage \in {"length", "body"}
    /\ Enter(c, conn[c].stage, conn[c].requests, 0)
    /\ UNCHANGED <<exchange, cache, serial>>

\* The two length bytes are there: a message shorter than a header is refused.
LengthRead(c) ==
    /\ conn[c].stage = "length"
    /\ Enter(c, "body", conn[c].requests, 0) \/ End(c)
    /\ UNCHANGED <<exchange, cache, serial>>

\* The message is there; the request to the enclave has its own limit.
BodyRead(c) ==
    /\ conn[c].stage = "body"
    /\ conn' = [conn EXCEPT ![c] = [@ EXCEPT !.stage = "authority", !.wait = 0, !.limit = PostSeconds]]
    /\ UNCHANGED <<permits, exchange, cache, serial>>

\* dns_metadata of a committed answer: the serial of the zone's SOA, or none.
DnsMetadata == {0, serial}

\* Enclave.post returned a committed, well-formed answer to a TCP request, whose
\* first frame has the zone's SOA when it is a transfer.
AnsweredTransfer(c) ==
    /\ c \in Tcp /\ conn[c].stage = "authority"
    /\ \E n \in DnsMetadata :
          /\ Enter(c, "send", conn[c].requests, n)
          /\ cache' \in LinkSnapshot(cache, n)
    /\ UNCHANGED <<exchange, serial>>

\* The same for a datagram, which is answered at once.
AnsweredDatagram(c) ==
    /\ c \in Udp /\ conn[c].stage = "authority"
    /\ End(c)
    /\ \E n \in DnsMetadata : cache' \in LinkSnapshot(cache, n)
    /\ UNCHANGED <<exchange, serial>>

\* sendall returned: the transfer is remembered, and the next request read.
Sent(c) ==
    /\ conn[c].stage = "send"
    /\ IF conn[c].requests + 1 = MaxRequests THEN End(c)
       ELSE Enter(c, "length", conn[c].requests + 1, 0)
    /\ cache' = IF conn[c].answer = 0 THEN cache
                ELSE Put(cache, <<"zone_serial", conn[c].answer>>, "transfer", TRUE)
    /\ UNCHANGED <<exchange, serial>>

\* Enclave.post raised: its time is over, or the answer is an error, uncommitted
\* or malformed.
PostFails(c) ==
    /\ conn[c].stage = "authority"
    /\ End(c)
    /\ UNCHANGED <<exchange, cache, serial>>

\* The read or the send under way runs into its limit, or the client hangs up.
Fail(c) ==
    /\ conn[c].stage \in {"length", "body", "send"}
    /\ End(c)
    /\ UNCHANGED <<exchange, cache, serial>>

-----------------------------------------------------------------------------
(* exchange(), and the receiver of native spans.                           *)

\* The lists of work the enclave may be thought to answer with.
WorkLists == UNION {[1 .. n -> [id : Work, formed : BOOLEAN]] : n \in 1 .. 1 + Cardinality(Work)}

\* validate_work, and no ID twice: one bad item refuses the list.
ValidateWork(list) ==
    /\ \A i \in DOMAIN list : list[i].formed
    /\ \A i, j \in DOMAIN list : list[i].id = list[j].id => i = j

\* The items of a list are put one after the other.
PutWork(rows, list) ==
    LET after[n \in 0 .. Len(list)] ==
            IF n = 0 THEN rows ELSE Put(after[n - 1], <<"work", list[n].id>>, "exchange", TRUE)
    IN  after[Len(list)]

\* lifecycle() asks for work once none is left, queues all of it and remembers the
\* span that produced it.
Queue(list) ==
    /\ \A w \in Work : exchange[w].stage = "idle"
    /\ ValidateWork(list)
    /\ exchange' = [w \in Work |-> IF \E i \in DOMAIN list : list[i].id = w
                                  THEN [NoExchange EXCEPT !.stage = "queued"] ELSE NoExchange]
    /\ cache' = PutWork(cache, list)
    /\ UNCHANGED <<conn, permits, serial>>

\* A worker takes it up: the signed question goes out.
Ask(w) ==
    /\ exchange[w].stage = "queued"
    /\ exchange' = [exchange EXCEPT ![w].stage = "peer"]
    /\ cache' \in Looked(cache, <<"work", w>>)
    /\ UNCHANGED <<conn, permits, serial>>

\* Something arrives from the peer's address; only the enclave can tell whether
\* the peer wrote it.  A secondary serves no serial that was never committed.
Receive(w) ==
    /\ exchange[w].stage = "peer"
    /\ \E n \in 0 .. MaxSerial, genuine \in BOOLEAN :
          /\ genuine => n <= serial
          /\ exchange' = [exchange EXCEPT ![w] = [stage |-> "post", answer |-> n,
                                                  genuine |-> genuine]]
    /\ UNCHANGED <<conn, permits, cache, serial>>

\* The serial an accepted answer confirms: a SOA answer's own, and for a NOTIFY
\* the one the committed response says was notified.
Confirms(w) == IF Kind[w] = "soa" THEN {exchange[w].answer} ELSE 1 .. serial

Remember(rows, w, n, accepted) ==
    LET with == Put(rows, <<"zone_serial", n>>, "exchange", accepted)
    IN  IF Kind[w] = "soa" THEN Put(with, <<"observed_zone", 0>>, "exchange", accepted) ELSE with

\* Faulty variant: the answer is remembered whatever the enclave thinks of it.
Post_Unchecked(w) ==
    /\ exchange[w].stage = "post" /\ exchange[w].answer # 0
    /\ cache' = Remember(cache, w, exchange[w].answer, exchange[w].genuine)
    /\ exchange' = [exchange EXCEPT ![w] = NoExchange]
    /\ UNCHANGED <<conn, permits, serial>>

\* The enclave accepts a genuine answer and commits it; then, not before, it is
\* remembered.
Post(w) ==
    /\ exchange[w].stage = "post" /\ exchange[w].genuine
    /\ \E n \in Confirms(w) \ {0} : \E rows \in LinkSnapshot(cache, n) :
          cache' = Remember(rows, w, n, exchange[w].genuine)
    /\ exchange' = [exchange EXCEPT ![w] = NoExchange]
    /\ UNCHANGED <<conn, permits, serial>>

\* The batch grew too old to be dispatched, no answer came in time, or the enclave
\* refuses it or cannot be reached.
ExchangeFails(w) ==
    /\ exchange[w].stage # "idle"
    /\ exchange' = [exchange EXCEPT ![w] = NoExchange]
    /\ UNCHANGED <<conn, permits, cache, serial>>

\* The signing spans that decode: those of a serial that is, or is about to be,
\* committed.
DecodeNative == {n \in Serials : n <= serial + 1}

\* The receiver remembers the span of a signing; nothing confirms it.
NativeSpan(n) ==
    /\ n \in DecodeNative
    /\ \E rows \in Looked(cache, <<"observed_zone", 0>>) :
          cache' = Put(rows, <<"zone_serial", n>>, "native", FALSE)
    /\ UNCHANGED <<conn, permits, exchange, serial>>

Resign ==
    /\ serial < MaxSerial
    /\ serial' = serial + 1
    /\ UNCHANGED <<conn, permits, exchange, cache>>

-----------------------------------------------------------------------------
DriverTick ==
    /\ \E c \in Clients : Open(c)
    /\ \A c \in Clients : Open(c) => conn[c].wait < conn[c].limit
    /\ conn' = [c \in Clients |-> IF Open(c) THEN [conn[c] EXCEPT !.age = @ + 1, !.wait = @ + 1]
                                             ELSE conn[c]]
    /\ UNCHANGED <<permits, exchange, cache, serial>>

Handle(c) ==
    \/ Trickle(c) \/ LengthRead(c) \/ BodyRead(c)
    \/ AnsweredTransfer(c) \/ AnsweredDatagram(c) \/ PostFails(c)
    \/ Sent(c) \/ Fail(c)

DriverNext ==
    \/ \E c \in Clients : Admit(c) \/ Handle(c)
    \/ \E list \in WorkLists : Queue(list)
    \/ \E w \in Work : Ask(w) \/ Receive(w) \/ Post(w) \/ ExchangeFails(w)
    \/ \E n \in Serials : NativeSpan(n)
    \/ Resign \/ DriverTick

DriverSpec == DriverInit /\ [][DriverNext]_driverVars

-----------------------------------------------------------------------------
(* Properties.                                                             *)

\* Permits are neither lost nor made: what the semaphore lacks is held by
\* handlers that run, so every slot that is free can be taken.
PermitsExact ==
    \A l \in {"tcp", "udp"} :
        permits[l] + Cardinality({c \in Clients : ListenerOf(c) = l /\ Open(c)}) = MaxPermits[l]

\* A client holds a permit no longer than the connection's deadline and the one
\* request to the enclave that may be under way then, however slowly it sends,
\* reads and asks again.
PermitBounded ==
    \A c \in Clients : Open(c) =>
        conn[c].age <= (IF c \in Tcp THEN ConnSeconds ELSE 0) + PostSeconds

\* A link to a transfer or to a secondary's answer is a link to something the
\* enclave committed: an answer that was never accepted leaves no trace.
LinksBacked ==
    \A i \in DOMAIN cache :
        (cache[i].key[1] = "zone_serial" /\ cache[i].by # "native") => cache[i].accepted

\* The listeners and the link cache together: permits are exact and come back in
\* time, and links lead to what was committed.
HostDriverSound == DriverTypeOK /\ PermitsExact /\ PermitBounded /\ LinksBacked

=============================================================================
