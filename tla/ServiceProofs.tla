---------------------------- MODULE ServiceProofs ---------------------------
(***************************************************************************)
(* Parts of the service and of what stands around it that share no state,  *)
(* each proved on its own for all values of its constants: the host        *)
(* driver, the constitution's decisions, and the anchors of event chains.  *)
(***************************************************************************)
EXTENDS HostDriver, GovernanceVote, Anchors, FiniteSetTheorems, TLAPS

-----------------------------------------------------------------------------
(* HostDriver: the link cache.                                             *)

\* A set of naturals that is not empty has a least member.
LEMMA LeastNumber ==
    ASSUME NEW T, T \subseteq Nat, T # {} PROVE \E x \in T : \A y \in T : x <= y
<1> DEFINE R == OpToRel(<, Nat)
<1>1. IsWellFoundedOn(R, Nat)
    BY NatLessThanWellFounded, Zenon
<1>2. \A x, y \in Nat : <<y, x>> \in R <=> y < x
    BY Zenon DEF OpToRel
<1> HIDE DEF R
<1>3. PICK x \in T : \A y \in T : ~(<<y, x>> \in R)
    BY <1>1, WFMin, Zenon
<1>4. \A y \in T : x \in Nat /\ y \in Nat /\ ~(y < x)
    BY <1>2, <1>3, Zenon
<1>5. \A y \in T : x <= y
    BY <1>4
<1> QED BY <1>3, <1>5, Zenon

\* The rows that are backed, as LinksBacked says of all of them.
BackedRows == {row \in Rows : (row.key[1] = "zone_serial" /\ row.by # "native") => row.accepted}

\* Removing a row leaves the others backed.
LEMMA WithoutBacked ==
    ASSUME NEW rows \in Seq(BackedRows), NEW key PROVE Without(rows, key) \in Seq(BackedRows)
<1>1. CASE \E i \in DOMAIN rows : rows[i].key = key
  <2> DEFINE i == CHOOSE i \in DOMAIN rows : rows[i].key = key
  <2>1. i \in 1 .. Len(rows)
      BY <1>1
  <2>2. Without(rows, key) = SubSeq(rows, 1, i - 1) \o SubSeq(rows, i + 1, Len(rows))
      BY <1>1, Zenon DEF Without
  <2> HIDE DEF i
  <2>3. SubSeq(rows, 1, i - 1) \in Seq(BackedRows) /\ SubSeq(rows, i + 1, Len(rows)) \in Seq(BackedRows)
      BY <2>1
  <2> QED BY <2>2, <2>3
<1>2. CASE ~ \E i \in DOMAIN rows : rows[i].key = key
    BY <1>2, Zenon DEF Without
<1> QED BY <1>1, <1>2, Zenon

\* Looking a row up leaves the others backed.
LEMMA LookedBacked ==
    ASSUME NEW rows \in Seq(BackedRows), NEW key, NEW left \in Looked(rows, key)
    PROVE  left \in Seq(BackedRows)
BY WithoutBacked, Zenon DEF Looked

\* Looking up the row a snapshot links to leaves the rows backed.
LEMMA SnapshotBacked ==
    ASSUME NEW rows \in Seq(BackedRows), NEW n, NEW left \in LinkSnapshot(rows, n)
    PROVE  left \in Seq(BackedRows)
<1>1. CASE n = 0
    BY <1>1, Zenon DEF LinkSnapshot
<1>2. CASE n # 0
    BY <1>2, LookedBacked, Zenon DEF LinkSnapshot
<1> QED BY <1>1, <1>2, Zenon

\* Putting a backed row leaves the rows backed.
LEMMA PutBacked ==
    ASSUME NEW rows \in Seq(BackedRows), NEW key, NEW origin, NEW accepted,
           [key |-> key, by |-> origin, accepted |-> accepted] \in BackedRows
    PROVE  Put(rows, key, origin, accepted) \in Seq(BackedRows)
<1> DEFINE row == [key |-> key, by |-> origin, accepted |-> accepted]
           all == Append(Without(rows, key), row)
           n == Len(all)
<1>1. all \in Seq(BackedRows) /\ n \in Nat
    BY WithoutBacked
<1>2. Put(rows, key, origin, accepted) = SubSeq(all, 1 + (n - Shorter(n, CacheMax)), n)
    BY Zenon DEF Put
<1> HIDE DEF all
<1>3. 1 + (n - Shorter(n, CacheMax)) \in 1 .. n + 1
    BY <1>1, HostDriverAssumption DEF Shorter
<1> QED BY <1>1, <1>2, <1>3

\* f holds the cache after 0, 1, ... and n of the items.
Puts(f, rows, list, n) ==
    /\ f = [k \in 0 .. n |-> f[k]]
    /\ f[0] = rows
    /\ \A k \in 1 .. n : f[k] = Put(f[k - 1], <<"work", list[k].id>>, "exchange", TRUE)

\* The loop that puts a list of work has a run, however long the list.
LEMMA PutsExist ==
    ASSUME NEW rows, NEW list, NEW n \in Nat
    PROVE  \E f : Puts(f, rows, list, n)
<1> DEFINE T == {m \in Nat : \A f : ~Puts(f, rows, list, m)}
<1>1. SUFFICES ASSUME T # {} PROVE FALSE
    BY Zenon
<1>2. PICK m \in T : \A y \in T : m <= y
    BY <1>1, LeastNumber, Zenon
<1>3. m # 0
  <2> DEFINE g == [k \in 0 .. 0 |-> rows]
  <2>1. Puts(g, rows, list, 0)
      BY DEF Puts
  <2> QED BY <2>1, <1>2, Zenon
<1>4. m - 1 \in Nat /\ m - 1 \notin T
    BY <1>2, <1>3
<1>5. PICK f : Puts(f, rows, list, m - 1)
    BY <1>4, Zenon
<1> DEFINE last == Put(f[m - 1], <<"work", list[m].id>>, "exchange", TRUE)
           g == [k \in 0 .. m |-> IF k = m THEN last ELSE f[k]]
<1>6. Puts(g, rows, list, m)
  <2> HIDE DEF last
  <2>1. g = [k \in 0 .. m |-> g[k]]
      BY Zenon
  <2>2. g[0] = rows
      BY <1>2, <1>3, <1>5 DEF Puts
  <2>3. ASSUME NEW k \in 1 .. m PROVE g[k] = Put(g[k - 1], <<"work", list[k].id>>, "exchange", TRUE)
    <3>1. CASE k = m
      <4>1. g[k] = last /\ g[k - 1] = f[m - 1]
          BY <3>1, <1>2, <1>3
      <4> QED BY <3>1, <4>1, Zenon DEF last
    <3>2. CASE k # m
      <4>1. k \in 1 .. m - 1 /\ g[k] = f[k] /\ g[k - 1] = f[k - 1]
          BY <3>2, <1>2
      <4> QED BY <4>1, <1>5, Zenon DEF Puts
    <3> QED BY <3>1, <3>2, Zenon
  <2> QED BY <2>1, <2>2, <2>3, Zenon DEF Puts
<1> QED BY <1>2, <1>6, Zenon

\* Putting a list of work leaves the rows backed.
LEMMA PutWorkBacked ==
    ASSUME NEW rows \in Seq(BackedRows), NEW n \in Nat, NEW list, Len(list) = n,
           \A k \in 1 .. n : list[k].id \in Work
    PROVE  PutWork(rows, list) \in Seq(BackedRows)
<1> DEFINE E(f) == f = [k \in 0 .. n |-> IF k = 0 THEN rows
                                         ELSE Put(f[k - 1], <<"work", list[k].id>>, "exchange", TRUE)]
           g == CHOOSE f : E(f)
<1>1. PICK h : Puts(h, rows, list, n)
    BY PutsExist, Zenon
<1>2. E(h)
  <2>1. \A k \in 0 .. n : h[k] = IF k = 0 THEN rows
                                 ELSE Put(h[k - 1], <<"work", list[k].id>>, "exchange", TRUE)
    <3> SUFFICES ASSUME NEW k \in 0 .. n
                 PROVE  h[k] = IF k = 0 THEN rows ELSE Put(h[k - 1], <<"work", list[k].id>>, "exchange", TRUE)
        BY Zenon
    <3>1. k = 0 => h[k] = rows
        BY <1>1, Zenon DEF Puts
    <3>2. k # 0 => k \in 1 .. n
        OBVIOUS
    <3>3. k # 0 => h[k] = Put(h[k - 1], <<"work", list[k].id>>, "exchange", TRUE)
        BY <1>1, <3>2, Zenon DEF Puts
    <3> QED BY <3>1, <3>3, Zenon
  <2>2. h = [k \in 0 .. n |-> h[k]]
      BY <1>1, Zenon DEF Puts
  <2> HIDE DEF g
  <2> QED BY <2>1, <2>2, Zenon
<1>3. E(g)
    BY <1>2, Zenon
<1>4. PutWork(rows, list) = g[n]
    BY Zenon DEF PutWork
<1> HIDE DEF g
<1> DEFINE T == {k \in 0 .. n : g[k] \notin Seq(BackedRows)}
<1>5. T = {}
  <2>1. SUFFICES ASSUME T # {} PROVE FALSE
      BY Zenon
  <2>2. PICK k \in T : \A y \in T : k <= y
    <3>1. T \subseteq Nat
        OBVIOUS
    <3> HIDE DEF T
    <3> QED BY <2>1, <3>1, LeastNumber, Zenon
  <2>3. k # 0
      BY <1>3, <2>2, Zenon
  <2>4. k \in 1 .. n /\ k - 1 \in 0 .. n /\ k - 1 \notin T
      BY <2>2, <2>3
  <2>5. g[k] = Put(g[k - 1], <<"work", list[k].id>>, "exchange", TRUE) /\ g[k - 1] \in Seq(BackedRows)
      BY <1>3, <2>4, Zenon
  <2>6. [key |-> <<"work", list[k].id>>, by |-> "exchange", accepted |-> TRUE] \in BackedRows
      BY <2>4, Zenon DEF BackedRows, Rows, Origins
  <2>7. g[k] \in Seq(BackedRows)
      BY <2>5, <2>6, PutBacked, Zenon
  <2> QED BY <2>2, <2>7, Zenon
<1> QED BY <1>4, <1>5

-----------------------------------------------------------------------------
(* HostDriver: the listeners.                                              *)

Handlers == [stage : Stages, age : Nat, wait : Nat, limit : Nat,
             requests : 0 .. MaxRequests, answer : 0 .. MaxSerial]

\* What every handler's clocks keep to.  A blocking operation ends within its
\* limit, and a read or a send also within the connection's deadline, whatever
\* has already passed of it; a datagram's handler only has its one request.
Timely(c, h) ==
    /\ h.requests < MaxRequests
    /\ h.stage = "idle" => h.age = 0
    /\ h.stage # "idle" => h.wait <= h.limit
    /\ (h.stage # "idle" /\ c \notin Tcp) => h.stage = "authority"
    /\ h.stage = "authority" => /\ h.limit = PostSeconds
                                /\ h.age <= (IF c \in Tcp THEN ConnSeconds ELSE 0) + h.wait
    /\ h.stage \in {"length", "body", "send"} => h.age + h.limit <= ConnSeconds + h.wait

Holders(cn, l) == {c \in Clients : ListenerOf(c) = l /\ cn[c].stage # "idle"}

ConnOK(cn, pm) ==
    /\ cn \in [Clients -> Handlers]
    /\ pm \in [{"tcp", "udp"} -> Nat]
    /\ \A c \in Clients : Timely(c, cn[c])
    /\ \A l \in {"tcp", "udp"} : /\ IsFiniteSet(Holders(cn, l))
                                 /\ pm[l] + Cardinality(Holders(cn, l)) = MaxPermits[l]

\* The limits of the driver are positive.
LEMMA DriverConstants ==
    /\ MaxRequests \in Nat \ {0} /\ ConnSeconds \in Nat \ {0} /\ ReadSeconds \in Nat \ {0}
    /\ PostSeconds \in Nat \ {0} /\ MaxSerial \in Nat \ {0} /\ CacheMax \in Nat \ {0}
    /\ MaxPermits \in [{"tcp", "udp"} -> Nat \ {0}]
BY HostDriverAssumption, Zenon

\* The three changes of a handler that goes on.
Entered(h, stage, limit, requests, answer) ==
    [h EXCEPT !.stage = stage, !.wait = 0, !.limit = limit, !.requests = requests, !.answer = answer]

\* A handler that enters a stage waits anew.
LEMMA EnterHandler ==
    ASSUME NEW h \in Handlers, NEW stage \in Stages, NEW limit \in Nat,
           NEW requests \in 0 .. MaxRequests, NEW answer \in 0 .. MaxSerial
    PROVE  /\ Entered(h, stage, limit, requests, answer) \in Handlers
           /\ Entered(h, stage, limit, requests, answer).stage = stage
           /\ Entered(h, stage, limit, requests, answer).wait = 0
           /\ Entered(h, stage, limit, requests, answer).limit = limit
           /\ Entered(h, stage, limit, requests, answer).requests = requests
           /\ Entered(h, stage, limit, requests, answer).age = h.age
<1> DEFINE e == Entered(h, stage, limit, requests, answer)
<1>1. e \in Handlers
    BY Zenon DEF Handlers, Entered
<1>2. e.stage = stage /\ e.wait = 0 /\ e.limit = limit
    BY Zenon DEF Handlers, Entered
<1>3. e.requests = requests /\ e.age = h.age
    BY Zenon DEF Handlers, Entered
<1> QED BY <1>1, <1>2, <1>3, Zenon

\* A handler that posts waits for the authority anew.
LEMMA PostHandler ==
    ASSUME NEW h \in Handlers, NEW e, e = [h EXCEPT !.stage = "authority", !.wait = 0, !.limit = PostSeconds]
    PROVE  /\ e \in Handlers /\ e.stage = "authority" /\ e.wait = 0 /\ e.limit = PostSeconds
           /\ e.requests = h.requests /\ e.age = h.age
<1>1. e \in Handlers
    BY DriverConstants, Zenon DEF Handlers, Stages
<1>2. e.stage = "authority" /\ e.wait = 0 /\ e.limit = PostSeconds
    BY Zenon DEF Handlers
<1>3. e.requests = h.requests /\ e.age = h.age
    BY Zenon DEF Handlers
<1> QED BY <1>1, <1>2, <1>3, Zenon

\* What the passing of time does to a handler.
LEMMA TickHandler ==
    ASSUME NEW h \in Handlers, NEW e, e = [h EXCEPT !.age = @ + 1, !.wait = @ + 1]
    PROVE  /\ e \in Handlers /\ e.stage = h.stage /\ e.wait = h.wait + 1 /\ e.limit = h.limit
           /\ e.requests = h.requests /\ e.age = h.age + 1
<1>1. e \in Handlers
  <2>1. h.age + 1 \in Nat /\ h.wait + 1 \in Nat
      BY DEF Handlers
  <2>2. \A x, y \in Nat : [h EXCEPT !.age = x, !.wait = y] \in Handlers
      BY Zenon DEF Handlers
  <2>3. e = [h EXCEPT !.age = h.age + 1, !.wait = h.wait + 1]
      BY Zenon DEF Handlers
  <2> QED BY <2>1, <2>2, <2>3, Zenon
<1>2. e.age = h.age + 1 /\ e.wait = h.wait + 1
    BY Zenon DEF Handlers
<1>3. e.stage = h.stage /\ e.limit = h.limit /\ e.requests = h.requests
    BY Zenon DEF Handlers
<1> QED BY <1>1, <1>2, <1>3, Zenon

\* A connection without a handler is in time.
LEMMA NoHandlerOK ==
    NoHandler \in Handlers /\ \A c : Timely(c, NoHandler)
BY DriverConstants DEF NoHandler, Handlers, Stages, Timely

\* One handler goes on, and stays a handler.
LEMMA HandlerGoesOn ==
    ASSUME ConnOK(conn, permits), NEW c \in Clients, Open(c), NEW h \in Handlers, h.stage # "idle",
           Timely(c, h), conn' = [conn EXCEPT ![c] = h], permits' = permits
    PROVE  ConnOK(conn', permits')
<1>1. conn \in [Clients -> Handlers]
    BY Zenon DEF ConnOK
<1>2. conn' \in [Clients -> Handlers] /\ \A d \in Clients : conn'[d] = IF d = c THEN h ELSE conn[d]
    BY <1>1, Zenon
<1>3. \A l : Holders(conn', l) = Holders(conn, l)
    BY <1>2, Zenon DEF Holders, Open
<1>4. \A d \in Clients : Timely(d, conn'[d])
    BY <1>2, Zenon DEF ConnOK
<1> QED BY <1>2, <1>3, <1>4, Zenon DEF ConnOK

\* A handler that ends gives its permit back.
LEMMA HandlerEnds ==
    ASSUME ConnOK(conn, permits), NEW c \in Clients, Open(c), End(c)
    PROVE  ConnOK(conn', permits')
<1> DEFINE l == ListenerOf(c)
<1>0. l \in {"tcp", "udp"}
    BY Zenon DEF ListenerOf
<1>1. conn \in [Clients -> Handlers] /\ permits \in [{"tcp", "udp"} -> Nat]
    BY Zenon DEF ConnOK
<1>2. conn' \in [Clients -> Handlers] /\ \A d \in Clients : conn'[d] = IF d = c THEN NoHandler ELSE conn[d]
    BY <1>1, NoHandlerOK, Zenon DEF End
<1>3. /\ permits' \in [{"tcp", "udp"} -> Nat] /\ permits'[l] = permits[l] + 1
      /\ \A k \in {"tcp", "udp"} : k # l => permits'[k] = permits[k]
    BY <1>0, <1>1 DEF End
<1>4. \A d \in Clients : Timely(d, conn'[d])
    BY <1>2, NoHandlerOK, Zenon DEF ConnOK
<1>5. NoHandler.stage = "idle"
    BY Zenon DEF NoHandler
<1>6. Holders(conn', l) = Holders(conn, l) \ {c} /\ c \in Holders(conn, l)
    BY <1>2, <1>5, ZenonT(40) DEF Holders, Open
<1>7. \A k : k # l => Holders(conn', k) = Holders(conn, k)
    BY <1>2, <1>5, Zenon DEF Holders, Open
<1> HIDE DEF l
<1>8. IsFiniteSet(Holders(conn, l)) /\ permits[l] + Cardinality(Holders(conn, l)) = MaxPermits[l]
    BY <1>0, Zenon DEF ConnOK
<1>9. /\ IsFiniteSet(Holders(conn', l)) /\ Cardinality(Holders(conn, l)) \in Nat
      /\ Cardinality(Holders(conn', l)) = Cardinality(Holders(conn, l)) - 1
    BY <1>6, <1>8, FS_RemoveElement, FS_CardinalityType, SMTT(30)
<1>10. permits'[l] + Cardinality(Holders(conn', l)) = MaxPermits[l]
  <2>1. permits[l] \in Nat
      BY <1>0, <1>1, Zenon
  <2> QED BY <1>3, <1>8, <1>9, <2>1
<1>11. \A k \in {"tcp", "udp"} : /\ IsFiniteSet(Holders(conn', k))
                                 /\ permits'[k] + Cardinality(Holders(conn', k)) = MaxPermits[k]
  <2> TAKE k \in {"tcp", "udp"}
  <2>1. CASE k = l
      BY <1>9, <1>10, <2>1, Zenon
  <2>2. CASE k # l
      BY <1>3, <1>7, <2>2, Zenon DEF ConnOK
  <2> QED BY <2>1, <2>2, Zenon
<1> QED BY <1>2, <1>3, <1>4, <1>11, Zenon DEF ConnOK

\* A handler that starts takes a permit.
LEMMA HandlerStarts ==
    ASSUME ConnOK(conn, permits), NEW c \in Clients, ~Open(c), permits[ListenerOf(c)] > 0,
           NEW h \in Handlers, h.stage # "idle", Timely(c, h), conn' = [conn EXCEPT ![c] = h],
           permits' = [permits EXCEPT ![ListenerOf(c)] = @ - 1]
    PROVE  ConnOK(conn', permits')
<1> DEFINE l == ListenerOf(c)
<1>0. l \in {"tcp", "udp"}
    BY Zenon DEF ListenerOf
<1>1. conn \in [Clients -> Handlers] /\ permits \in [{"tcp", "udp"} -> Nat]
    BY Zenon DEF ConnOK
<1>2. conn' \in [Clients -> Handlers] /\ \A d \in Clients : conn'[d] = IF d = c THEN h ELSE conn[d]
    BY <1>1, Zenon
<1>3. /\ permits' \in [{"tcp", "udp"} -> Nat] /\ permits'[l] = permits[l] - 1
      /\ \A k \in {"tcp", "udp"} : k # l => permits'[k] = permits[k]
    BY <1>0, <1>1, SMTT(30)
<1>4. \A d \in Clients : Timely(d, conn'[d])
    BY <1>2, Zenon DEF ConnOK
<1>6. Holders(conn', l) = Holders(conn, l) \cup {c} /\ c \notin Holders(conn, l)
    BY <1>2, Zenon DEF Holders, Open
<1>7. \A k : k # l => Holders(conn', k) = Holders(conn, k)
    BY <1>2, Zenon DEF Holders, Open
<1> HIDE DEF l
<1>8. IsFiniteSet(Holders(conn, l)) /\ permits[l] + Cardinality(Holders(conn, l)) = MaxPermits[l]
    BY <1>0, Zenon DEF ConnOK
<1>9. /\ IsFiniteSet(Holders(conn', l)) /\ Cardinality(Holders(conn, l)) \in Nat
      /\ Cardinality(Holders(conn', l)) = Cardinality(Holders(conn, l)) + 1
  <2> DEFINE H == Holders(conn, l)
  <2> HIDE DEF H
  <2>1. IsFiniteSet(H) /\ Holders(conn', l) = H \cup {c} /\ c \notin H
      BY <1>6, <1>8, Zenon DEF H
  <2>2. IsFiniteSet(H \cup {c}) /\ Cardinality(H \cup {c}) = Cardinality(H) + 1
      BY <2>1, FS_AddElement, Zenon
  <2>3. Cardinality(H) \in Nat
      BY <2>1, FS_CardinalityType, Zenon
  <2> QED BY <2>1, <2>2, <2>3, Zenon DEF H
<1>10. permits'[l] + Cardinality(Holders(conn', l)) = MaxPermits[l]
  <2>1. permits[l] \in Nat
      BY <1>0, <1>1, Zenon
  <2> QED BY <1>3, <1>8, <1>9, <2>1
<1>11. \A k \in {"tcp", "udp"} : /\ IsFiniteSet(Holders(conn', k))
                                 /\ permits'[k] + Cardinality(Holders(conn', k)) = MaxPermits[k]
  <2> TAKE k \in {"tcp", "udp"}
  <2>1. CASE k = l
      BY <1>9, <1>10, <2>1, Zenon
  <2>2. CASE k # l
      BY <1>3, <1>7, <2>2, ZenonT(40) DEF ConnOK
  <2> QED BY <2>1, <2>2, Zenon
<1> QED BY <1>2, <1>3, <1>4, <1>11, Zenon DEF ConnOK

\* The next blocking operation of a connection begins, or its deadline ends it.
LEMMA HandlerEnters ==
    ASSUME ConnOK(conn, permits), NEW c \in Tcp, Open(c), NEW stage \in {"length", "body", "send"},
           NEW requests \in Nat, requests < MaxRequests, NEW answer \in 0 .. MaxSerial,
           Enter(c, stage, requests, answer)
    PROVE  ConnOK(conn', permits')
<1>0. c \in Clients
    BY Zenon DEF Clients
<1>1. CASE conn[c].age >= ConnSeconds
    BY <1>0, <1>1, HandlerEnds, Zenon DEF Enter
<1>2. CASE ~(conn[c].age >= ConnSeconds)
  <2>1. conn[c] \in Handlers
      BY <1>0, Zenon DEF ConnOK
  <2> DEFINE h == Entered(conn[c], stage, Limit(c), requests, answer)
  <2>2. conn[c].age \in Nat /\ conn[c].age < ConnSeconds
      BY <1>2, <2>1, DriverConstants, SMTT(30) DEF Handlers
  <2>3. Limit(c) \in Nat /\ conn[c].age + Limit(c) <= ConnSeconds
      BY <2>2, DriverConstants DEF Limit, Shorter
  <2>4. stage \in Stages /\ requests \in 0 .. MaxRequests
      BY DriverConstants, SMTT(30) DEF Stages
  <2>5. /\ h \in Handlers /\ h.stage = stage /\ h.wait = 0 /\ h.limit = Limit(c)
        /\ h.requests = requests /\ h.age = conn[c].age
      BY <2>1, <2>3, <2>4, EnterHandler, SMTT(30)
  <2>6. conn' = [conn EXCEPT ![c] = h] /\ permits' = permits
      BY <1>0, <1>2, Zenon DEF Enter, Entered, ConnOK
  <2> HIDE DEF h
  <2>7. Timely(c, h)
      BY <2>2, <2>3, <2>5, DriverConstants, SMTT(30) DEF Timely
  <2>8. h.stage # "idle"
      BY <2>5, Zenon
  <2> QED BY <1>0, <2>5, <2>6, <2>7, <2>8, HandlerGoesOn, Zenon
<1> QED BY <1>1, <1>2, Zenon

\* Time passes only while every handler is in time.
LEMMA TickTimely ==
    ASSUME ConnOK(conn, permits), DriverTick PROVE ConnOK(conn', permits')
<1>1. conn \in [Clients -> Handlers]
    BY Zenon DEF ConnOK
<1>2. conn' = [c \in Clients |-> IF Open(c) THEN [conn[c] EXCEPT !.age = @ + 1, !.wait = @ + 1] ELSE conn[c]]
    BY ZenonT(40) DEF DriverTick
<1>3. ASSUME NEW c \in Clients
      PROVE  /\ conn'[c] \in Handlers /\ Timely(c, conn'[c])
             /\ conn'[c].stage = conn[c].stage
  <2>1. conn[c] \in Handlers /\ Timely(c, conn[c])
      BY Zenon DEF ConnOK
  <2>2. CASE Open(c)
    <3> DEFINE h == [conn[c] EXCEPT !.age = @ + 1, !.wait = @ + 1]
    <3>1. conn'[c] = h
        BY <1>2, <2>2, Zenon
    <3>2. /\ h \in Handlers /\ h.stage = conn[c].stage /\ h.age = conn[c].age + 1
          /\ h.wait = conn[c].wait + 1 /\ h.limit = conn[c].limit /\ h.requests = conn[c].requests
        BY <2>1, TickHandler, ZenonT(40)
    <3>3. conn[c].wait < conn[c].limit
        BY <2>2, Zenon DEF DriverTick
    <3>4. /\ conn[c].age \in Nat /\ conn[c].wait \in Nat /\ conn[c].limit \in Nat /\ conn[c].requests \in Nat
        BY <2>1 DEF Handlers
    <3> HIDE DEF h
    <3>5. Timely(c, h)
      <4>1. CASE c \in Tcp
          BY <2>1, <2>2, <3>2, <3>3, <3>4, <4>1, DriverConstants, SMTT(30) DEF Timely, Open
      <4>2. CASE c \notin Tcp
          BY <2>1, <2>2, <3>2, <3>3, <3>4, <4>2, DriverConstants, SMTT(30) DEF Timely, Open
      <4> QED BY <4>1, <4>2, Zenon
    <3> QED BY <3>1, <3>2, <3>5, Zenon
  <2>3. CASE ~Open(c)
      BY <1>2, <2>1, <2>3, Zenon
  <2> QED BY <2>2, <2>3, ZenonT(40)
<1>4. conn' \in [Clients -> Handlers]
  <2>1. conn' = [c \in Clients |-> conn'[c]]
      BY <1>2, ZenonT(40)
  <2> QED BY <1>3, <2>1, Zenon
<1>5. \A l : Holders(conn', l) = Holders(conn, l)
    BY <1>3, Zenon DEF Holders
<1>6. permits' = permits
    BY ZenonT(40) DEF DriverTick
<1> QED BY <1>3, <1>4, <1>5, <1>6, Zenon DEF ConnOK

\* A connection's handler that is not with the enclave is a TCP one.
LEMMA ReadingTcp ==
    ASSUME ConnOK(conn, permits), NEW c \in Clients, conn[c].stage \in {"length", "body", "send"}
    PROVE  c \in Tcp /\ Open(c) /\ conn[c].requests \in Nat /\ conn[c].requests < MaxRequests
<1>1. Timely(c, conn[c]) /\ conn[c] \in Handlers
    BY Zenon DEF ConnOK
<1> QED BY <1>1 DEF Timely, Open, Handlers

\* Admitting a client keeps handlers and permits in step.
LEMMA AdmitOK ==
    ASSUME ConnOK(conn, permits), NEW c \in Clients, Admit(c) PROVE ConnOK(conn', permits')
<1> DEFINE h == IF c \in Tcp THEN [NoHandler EXCEPT !.stage = "length", !.limit = Limit(c)]
                ELSE [NoHandler EXCEPT !.stage = "authority", !.limit = PostSeconds]
<1>1. CASE permits' = permits /\ conn' = conn
    BY <1>1, Zenon
<1>2. CASE permits' = [permits EXCEPT ![ListenerOf(c)] = @ - 1] /\ conn' = [conn EXCEPT ![c] = h]
  <2>1. ~Open(c) /\ permits[ListenerOf(c)] > 0
      BY Zenon DEF Admit
  <2>2. h \in Handlers /\ h.stage # "idle" /\ Timely(c, h)
    <3>1. CASE c \in Tcp
      <4>1. h = [stage |-> "length", age |-> 0, wait |-> 0, limit |-> Limit(c), requests |-> 0, answer |-> 0]
          BY <3>1, Zenon DEF NoHandler
      <4>2. conn[c].age = 0
          BY <2>1, Zenon DEF ConnOK, Timely, Open
      <4>3. Limit(c) \in Nat /\ Limit(c) <= ConnSeconds
          BY <4>2, DriverConstants, SMTT(30) DEF Limit, Shorter
      <4> HIDE DEF h
      <4> QED BY <3>1, <4>1, <4>3, DriverConstants DEF Handlers, Stages, Timely
    <3>2. CASE c \notin Tcp
      <4>1. h = [stage |-> "authority", age |-> 0, wait |-> 0, limit |-> PostSeconds, requests |-> 0, answer |-> 0]
          BY <3>2, Zenon DEF NoHandler
      <4> HIDE DEF h
      <4> QED BY <3>2, <4>1, DriverConstants, SMTT(30) DEF Handlers, Stages, Timely
    <3> QED BY <3>1, <3>2, Zenon
  <2> HIDE DEF h
  <2> QED BY <1>2, <2>1, <2>2, HandlerStarts, Zenon
<1> QED BY <1>1, <1>2, Zenon DEF Admit

\* Every step of a handler keeps handlers and permits in step.
LEMMA HandleOK ==
    ASSUME ConnOK(conn, permits), serial \in Serials, NEW c \in Clients, Handle(c)
    PROVE  ConnOK(conn', permits')
<1>1. CASE Trickle(c)
  <2>1. c \in Tcp /\ Open(c) /\ conn[c].requests \in Nat /\ conn[c].requests < MaxRequests
      BY <1>1, ReadingTcp, Zenon DEF Trickle
  <2>2. conn[c].stage \in {"length", "body", "send"} /\ Enter(c, conn[c].stage, conn[c].requests, 0)
      BY <1>1, Zenon DEF Trickle
  <2>3. 0 \in 0 .. MaxSerial
      BY DriverConstants
  <2> QED BY <2>1, <2>2, <2>3, HandlerEnters, Zenon
<1>2. CASE LengthRead(c)
  <2>1. c \in Tcp /\ Open(c) /\ conn[c].requests \in Nat /\ conn[c].requests < MaxRequests
      BY <1>2, ReadingTcp, ZenonT(40) DEF LengthRead
  <2>2. Enter(c, "body", conn[c].requests, 0) \/ End(c)
      BY <1>2, Zenon DEF LengthRead
  <2>3. 0 \in 0 .. MaxSerial
      BY DriverConstants, SMTT(30)
  <2>4. CASE Enter(c, "body", conn[c].requests, 0)
      BY <2>1, <2>3, <2>4, HandlerEnters, Zenon
  <2>5. CASE End(c)
      BY <2>1, <2>5, HandlerEnds, Zenon
  <2> QED BY <2>2, <2>4, <2>5, Zenon
<1>3. CASE BodyRead(c)
  <2>1. c \in Tcp /\ Open(c)
      BY <1>3, ReadingTcp, Zenon DEF BodyRead
  <2>2. conn[c] \in Handlers /\ Timely(c, conn[c])
      BY Zenon DEF ConnOK
  <2> DEFINE h == [conn[c] EXCEPT !.stage = "authority", !.wait = 0, !.limit = PostSeconds]
  <2>3. conn' = [conn EXCEPT ![c] = h] /\ permits' = permits
      BY <1>3, Zenon DEF BodyRead, ConnOK
  <2>4. /\ h \in Handlers /\ h.stage = "authority" /\ h.wait = 0 /\ h.limit = PostSeconds
        /\ h.requests = conn[c].requests /\ h.age = conn[c].age
      BY <2>2, PostHandler, Zenon
  <2>5. /\ conn[c].age \in Nat /\ conn[c].wait \in Nat /\ conn[c].limit \in Nat
        /\ conn[c].requests \in 0 .. MaxRequests /\ conn[c].answer \in 0 .. MaxSerial
      BY <2>2, Zenon DEF Handlers
  <2>6. conn[c].age <= ConnSeconds /\ conn[c].requests < MaxRequests
    <3>1. conn[c].stage = "body"
        BY <1>3, Zenon DEF BodyRead
    <3> QED BY <2>2, <2>5, <3>1, DriverConstants, SMTT(30) DEF Timely
  <2> HIDE DEF h
  <2>7. h \in Handlers /\ h.stage # "idle"
      BY <2>4, Zenon
  <2>8. Timely(c, h)
      BY <2>1, <2>4, <2>5, <2>6, DriverConstants, SMTT(30) DEF Timely
  <2> QED BY <2>1, <2>3, <2>7, <2>8, HandlerGoesOn, Zenon
<1>4. CASE AnsweredTransfer(c)
  <2>1. c \in Tcp /\ Open(c)
      BY <1>4, ZenonT(40) DEF AnsweredTransfer, Open
  <2>2. conn[c].requests \in Nat /\ conn[c].requests < MaxRequests
      BY SMTT(30) DEF ConnOK, Timely, Handlers
  <2>3. PICK n \in DnsMetadata : Enter(c, "send", conn[c].requests, n)
      BY <1>4, Zenon DEF AnsweredTransfer
  <2>4. n \in 0 .. MaxSerial
      BY <2>3, DriverConstants DEF DnsMetadata, Serials
  <2> QED BY <2>1, <2>2, <2>3, <2>4, HandlerEnters, Zenon
<1>5. CASE AnsweredDatagram(c) \/ PostFails(c) \/ Fail(c)
  <2>1. Open(c) /\ End(c)
      BY <1>5, Zenon DEF AnsweredDatagram, PostFails, Fail, Open
  <2> QED BY <2>1, HandlerEnds, Zenon
<1>6. CASE Sent(c)
  <2>1. c \in Tcp /\ Open(c) /\ conn[c].requests \in Nat /\ conn[c].requests < MaxRequests
      BY <1>6, ReadingTcp, ZenonT(40) DEF Sent
  <2>2. CASE conn[c].requests + 1 = MaxRequests
      BY <1>6, <2>1, <2>2, HandlerEnds, ZenonT(40) DEF Sent
  <2>3. CASE conn[c].requests + 1 # MaxRequests
    <3>1. conn[c].requests + 1 \in Nat /\ conn[c].requests + 1 < MaxRequests
        BY <2>1, <2>3, DriverConstants, SMTT(30)
    <3>2. Enter(c, "length", conn[c].requests + 1, 0) /\ 0 \in 0 .. MaxSerial
        BY <1>6, <2>3, DriverConstants, SMTT(30) DEF Sent
    <3> QED BY <2>1, <3>1, <3>2, HandlerEnters, ZenonT(40)
  <2> QED BY <2>2, <2>3, Zenon
<1> QED BY <1>1, <1>2, <1>3, <1>4, <1>5, <1>6, Zenon DEF Handle

-----------------------------------------------------------------------------
(* HostDriver: exchanges and links.                                        *)

Exchanges == [stage : {"idle", "queued", "peer", "post"}, answer : 0 .. MaxSerial, genuine : BOOLEAN]

DriverInv ==
    /\ ConnOK(conn, permits)
    /\ exchange \in [Work -> Exchanges]
    /\ cache \in Seq(BackedRows)
    /\ serial \in Serials

\* The row of a transferred or exchanged serial is backed.
LEMMA ZoneRowBacked ==
    ASSUME NEW n \in Serials, NEW origin \in {"transfer", "exchange"}
    PROVE  [key |-> <<"zone_serial", n>>, by |-> origin, accepted |-> TRUE] \in BackedRows
BY Zenon DEF BackedRows, Rows, Origins

\* The row of the node's own serial is backed.
LEMMA NativeRowBacked ==
    ASSUME NEW n \in Serials
    PROVE  [key |-> <<"zone_serial", n>>, by |-> "native", accepted |-> FALSE] \in BackedRows
BY Zenon DEF BackedRows, Rows, Origins

\* The row of an observation is backed.
LEMMA ObservedRowBacked ==
    [key |-> <<"observed_zone", 0>>, by |-> "exchange", accepted |-> TRUE] \in BackedRows
BY Zenon DEF BackedRows, Rows, Origins

\* A handler leaves the cache with backed rows only.
LEMMA HandleCache ==
    ASSUME DriverInv, NEW c \in Clients, Handle(c) PROVE cache' \in Seq(BackedRows)
<1>1. cache \in Seq(BackedRows) /\ conn[c] \in Handlers
    BY Zenon DEF DriverInv, ConnOK
<1>2. CASE cache' = cache
    BY <1>1, <1>2, Zenon
<1>3. CASE AnsweredTransfer(c) \/ AnsweredDatagram(c)
  <2>1. PICK n \in DnsMetadata : cache' \in LinkSnapshot(cache, n)
      BY <1>3, Zenon DEF AnsweredTransfer, AnsweredDatagram
  <2> QED BY <1>1, <2>1, SnapshotBacked, Zenon
<1>4. CASE Sent(c)
  <2>1. conn[c].answer \in 0 .. MaxSerial
      BY <1>1, Zenon DEF Handlers
  <2>2. CASE conn[c].answer = 0
      BY <1>1, <1>4, <2>2, Zenon DEF Sent
  <2>3. CASE conn[c].answer # 0
    <3>1. conn[c].answer \in Serials
        BY <2>1, <2>3, SMTT(30) DEF Serials
    <3>2. cache' = Put(cache, <<"zone_serial", conn[c].answer>>, "transfer", TRUE)
        BY <1>4, <2>3, Zenon DEF Sent
    <3> QED BY <1>1, <3>1, <3>2, ZoneRowBacked, PutBacked, Zenon
  <2> QED BY <2>2, <2>3, Zenon
<1> QED BY <1>2, <1>3, <1>4, Zenon DEF Handle, Trickle, LengthRead, BodyRead, PostFails, Fail

\* Posting an exchange, once confirmed, leaves the cache with backed rows only.
LEMMA PostCache ==
    ASSUME DriverInv, NEW w \in Work, Post(w) PROVE cache' \in Seq(BackedRows)
<1>1. cache \in Seq(BackedRows) /\ exchange[w] \in Exchanges /\ serial \in Serials
    BY Zenon DEF DriverInv
<1>2. exchange[w].genuine = TRUE
    BY <1>1, Zenon DEF Post, Exchanges
<1>3. PICK n \in Confirms(w) \ {0} : \E rows \in LinkSnapshot(cache, n) :
         cache' = Remember(rows, w, n, exchange[w].genuine)
    BY Zenon DEF Post
<1>3a. PICK rows \in LinkSnapshot(cache, n) : cache' = Remember(rows, w, n, exchange[w].genuine)
    BY <1>3, Zenon
<1>4. n \in Serials
  <2>1. exchange[w].answer \in 0 .. MaxSerial
      BY <1>1, Zenon DEF Exchanges
  <2>2. CASE Kind[w] = "soa"
      BY <1>3, <2>1, <2>2, SMTT(30) DEF Confirms, Serials
  <2>3. CASE Kind[w] # "soa"
      BY <1>1, <1>3, <2>3, DriverConstants, SMTT(30) DEF Confirms, Serials
  <2> QED BY <2>2, <2>3, Zenon
<1>5. rows \in Seq(BackedRows)
    BY <1>1, <1>3a, SnapshotBacked, Zenon
<1> DEFINE with == Put(rows, <<"zone_serial", n>>, "exchange", TRUE)
<1>6. with \in Seq(BackedRows)
    BY <1>4, <1>5, ZoneRowBacked, PutBacked, Zenon
<1>7. cache' = IF Kind[w] = "soa" THEN Put(with, <<"observed_zone", 0>>, "exchange", TRUE) ELSE with
    BY <1>2, <1>3a, Zenon DEF Remember
<1> HIDE DEF with
<1>8. Put(with, <<"observed_zone", 0>>, "exchange", TRUE) \in Seq(BackedRows)
    BY <1>6, ObservedRowBacked, PutBacked, Zenon
<1> QED BY <1>6, <1>7, <1>8, Zenon

\* Queueing work leaves the cache with backed rows only.
LEMMA QueueCache ==
    ASSUME DriverInv, NEW list \in WorkLists, Queue(list) PROVE cache' \in Seq(BackedRows)
<1>1. PICK n \in 1 .. 1 + Cardinality(Work) : list \in [1 .. n -> [id : Work, formed : BOOLEAN]]
    BY Zenon DEF WorkLists
<1>2. n \in Nat /\ Len(list) = n /\ \A k \in 1 .. n : list[k].id \in Work
    BY <1>1
<1>3. cache' = PutWork(cache, list) /\ cache \in Seq(BackedRows)
    BY Zenon DEF Queue, DriverInv
<1> QED BY <1>2, <1>3, PutWorkBacked, Zenon

\* Every step keeps the invariant of the host driver.
LEMMA DriverStep ==
    ASSUME DriverInv, [DriverNext]_driverVars PROVE DriverInv'
<1> USE DEF DriverInv
<1>0. NoExchange \in Exchanges /\ [NoExchange EXCEPT !.stage = "queued"] \in Exchanges
  <2>1. NoExchange \in Exchanges
      BY DriverConstants DEF NoExchange, Exchanges
  <2>2. [NoExchange EXCEPT !.stage = "queued"] \in Exchanges
      BY <2>1, Zenon DEF Exchanges
  <2> QED BY <2>1, <2>2, Zenon
<1>1. ASSUME NEW c \in Clients, Admit(c) PROVE DriverInv'
  <2>1. ConnOK(conn', permits')
      BY <1>1, AdmitOK, Zenon
  <2>2. UNCHANGED <<exchange, cache, serial>>
      BY <1>1, Zenon DEF Admit
  <2> QED BY <2>1, <2>2, Zenon
<1>2. ASSUME NEW c \in Clients, Handle(c) PROVE DriverInv'
  <2>1. ConnOK(conn', permits')
      BY <1>2, HandleOK, Zenon
  <2>2. cache' \in Seq(BackedRows)
      BY <1>2, HandleCache, Zenon
  <2>3. UNCHANGED <<exchange, serial>>
      BY <1>2, Zenon DEF Handle, Trickle, LengthRead, BodyRead, AnsweredTransfer, AnsweredDatagram, PostFails, Sent, Fail
  <2> QED BY <2>1, <2>2, <2>3, Zenon
<1>3. ASSUME NEW list \in WorkLists, Queue(list) PROVE DriverInv'
  <2>1. cache' \in Seq(BackedRows)
      BY <1>3, QueueCache, Zenon
  <2>2. exchange' \in [Work -> Exchanges]
      BY <1>0, <1>3, Zenon DEF Queue
  <2> QED BY <1>3, <2>1, <2>2, Zenon DEF Queue
<1>4. ASSUME NEW w \in Work, Ask(w) PROVE DriverInv'
  <2>1. cache' \in Seq(BackedRows)
      BY <1>4, LookedBacked, Zenon DEF Ask
  <2>2. exchange' \in [Work -> Exchanges]
      BY <1>4, Zenon DEF Ask, Exchanges
  <2> QED BY <1>4, <2>1, <2>2, Zenon DEF Ask
<1>5. ASSUME NEW w \in Work, Receive(w) PROVE DriverInv'
  <2>1. exchange' \in [Work -> Exchanges]
      BY <1>5 DEF Receive, Exchanges
  <2> QED BY <1>5, <2>1, ZenonT(40) DEF Receive
<1>6. ASSUME NEW w \in Work, Post(w) PROVE DriverInv'
  <2>1. cache' \in Seq(BackedRows)
      BY <1>6, PostCache, Zenon
  <2>2. exchange' \in [Work -> Exchanges]
      BY <1>0, <1>6, Zenon DEF Post
  <2> QED BY <1>6, <2>1, <2>2, Zenon DEF Post
<1>7. ASSUME NEW w \in Work, ExchangeFails(w) PROVE DriverInv'
  <2>1. exchange' \in [Work -> Exchanges]
      BY <1>0, <1>7, Zenon DEF ExchangeFails
  <2> QED BY <1>7, <2>1, Zenon DEF ExchangeFails
<1>8. ASSUME NEW n \in Serials, NativeSpan(n) PROVE DriverInv'
  <2>1. PICK rows \in Looked(cache, <<"observed_zone", 0>>) :
           cache' = Put(rows, <<"zone_serial", n>>, "native", FALSE)
      BY <1>8, Zenon DEF NativeSpan
  <2>2. rows \in Seq(BackedRows)
      BY <2>1, LookedBacked, Zenon
  <2>3. cache' \in Seq(BackedRows)
      BY <2>1, <2>2, NativeRowBacked, PutBacked, Zenon
  <2> QED BY <1>8, <2>3, Zenon DEF NativeSpan
<1>9. CASE Resign
  <2>1. serial' \in Serials
      BY <1>9, DriverConstants DEF Resign, Serials
  <2> QED BY <1>9, <2>1, Zenon DEF Resign
<1>10. CASE DriverTick
  <2>1. ConnOK(conn', permits')
      BY <1>10, TickTimely, Zenon
  <2> QED BY <1>10, <2>1, Zenon DEF DriverTick
<1>11. CASE UNCHANGED driverVars
    BY <1>11, Zenon DEF driverVars
<1> QED BY <1>1, <1>2, <1>3, <1>4, <1>5, <1>6, <1>7, <1>8, <1>9, <1>10, <1>11, ZenonT(40) DEF DriverNext

\* The invariant of the host driver implies what is promised of it.
LEMMA DriverInvSound == DriverInv => HostDriverSound
<1> SUFFICES ASSUME DriverInv PROVE HostDriverSound
    BY Zenon
<1>1. DriverTypeOK
  <2>1. conn \in [Clients -> Handlers] /\ permits \in [{"tcp", "udp"} -> Nat]
      BY Zenon DEF DriverInv, ConnOK
  <2>2. cache \in Seq(Rows)
      BY DEF DriverInv, BackedRows
  <2> QED BY <2>1, <2>2, Zenon DEF DriverInv, DriverTypeOK, Handlers, Exchanges
<1>2. PermitsExact
  <2>1. \A l : Holders(conn, l) = {c \in Clients : ListenerOf(c) = l /\ Open(c)}
      BY Zenon DEF Holders, Open
  <2> QED BY <2>1, Zenon DEF PermitsExact, DriverInv, ConnOK
<1>3. PermitBounded
  <2> SUFFICES ASSUME NEW c \in Clients, Open(c)
               PROVE  conn[c].age <= (IF c \in Tcp THEN ConnSeconds ELSE 0) + PostSeconds
      BY Zenon DEF PermitBounded
  <2>1. Timely(c, conn[c]) /\ conn[c] \in Handlers
      BY Zenon DEF DriverInv, ConnOK
  <2>2. /\ conn[c].age \in Nat /\ conn[c].wait \in Nat /\ conn[c].limit \in Nat
        /\ conn[c].stage \in {"length", "body", "authority", "send"}
      BY <2>1, Zenon DEF Handlers, Stages, Open
  <2>3. CASE conn[c].stage = "authority"
      BY <2>1, <2>2, <2>3, DriverConstants, SMTT(30) DEF Timely
  <2>4. CASE conn[c].stage # "authority"
      BY <2>1, <2>2, <2>4, DriverConstants, SMTT(30) DEF Timely
  <2> QED BY <2>3, <2>4, Zenon
<1>4. LinksBacked
  <2>1. \A i \in DOMAIN cache : cache[i] \in BackedRows
      BY DEF DriverInv
  <2> QED BY <2>1, Zenon DEF LinksBacked, BackedRows
<1> QED BY <1>1, <1>2, <1>3, <1>4, Zenon DEF HostDriverSound

\* HostDriverSound: permits are neither lost nor made, none is held past the
\* connection's deadline and one request to the enclave, and no link leads to an
\* answer the enclave never accepted, for any number of clients and exchanges and
\* any limits.
THEOREM HostDriverCorrect == DriverSpec => []HostDriverSound
<1>1. DriverInit => DriverInv
  <2> SUFFICES ASSUME DriverInit PROVE DriverInv
      BY Zenon
  <2>1. conn \in [Clients -> Handlers] /\ \A c \in Clients : conn[c] = NoHandler
      BY NoHandlerOK, Zenon DEF DriverInit
  <2>2. \A l : Holders(conn, l) = {}
      BY <2>1, SMTT(30) DEF Holders, NoHandler
  <2>3. ConnOK(conn, permits)
    <3>1. permits = MaxPermits
        BY Zenon DEF DriverInit
    <3>2. \A l \in {"tcp", "udp"} : /\ IsFiniteSet(Holders(conn, l))
                                    /\ permits[l] + Cardinality(Holders(conn, l)) = MaxPermits[l]
        BY <2>2, <3>1, FS_EmptySet, DriverConstants, SMTT(30)
    <3> QED BY <2>1, <3>1, <3>2, NoHandlerOK, DriverConstants, Zenon DEF ConnOK
  <2>4. exchange \in [Work -> Exchanges]
      BY DriverConstants DEF DriverInit, NoExchange, Exchanges
  <2> QED BY <2>3, <2>4, DriverConstants DEF DriverInit, DriverInv, Serials
<1>2. DriverInv /\ [DriverNext]_driverVars => DriverInv'
    BY DriverStep, Zenon
<1> QED BY <1>1, <1>2, DriverInvSound, PTL DEF DriverSpec

-----------------------------------------------------------------------------
(* The constitution's decisions.                                           *)

GovernorRecord == [class : {"agent", "trapdoor"}, reputation : ReputationMin .. ReputationMax]
ProposalRecord == [content : Contents \cup {NoContent}, state : States, votes : [Members -> Ballots]]

VoteTypes ==
    /\ active \subseteq Members
    /\ governor \in [Members -> GovernorRecord]
    /\ proposal \in [Ids -> ProposalRecord]
    /\ verdict \in [Ids \X Reviewers -> {"none", "block"}]
    /\ settled \subseteq Ids

\* What was settled is decided, so no later ballot changes who was right.
SettledClosed ==
    /\ IsFiniteSet(settled)
    /\ \A i \in settled : proposal[i].state \in {"Accepted", "Rejected"}

VoteInv == VoteTypes /\ SettledClosed /\ TrapdoorDecisive /\ ReputationEarned

\* The settled proposals a member was right, or wrong, about.
WonBy(m) == {i \in settled : proposal[i].votes[m] # "none" /\ Won(m, proposal[i])}
LostBy(m) == {i \in settled : proposal[i].votes[m] # "none" /\ ~Won(m, proposal[i])}

\* The conjunct of ReputationEarned for one member.
Earned(m) ==
    /\ governor[m].reputation <= InitGovernors[m].reputation + Wins(m) * ReputationStep
    /\ governor[m].reputation + Losses(m) * ReputationStep >= InitGovernors[m].reputation

\* Wins and losses of a member count finite sets of proposals.
LEMMA CountsAreNatural ==
  ASSUME SettledClosed, NEW m \in Members
  PROVE  /\ IsFiniteSet(WonBy(m)) /\ IsFiniteSet(LostBy(m))
         /\ Wins(m) = Cardinality(WonBy(m)) /\ Losses(m) = Cardinality(LostBy(m))
         /\ Wins(m) \in Nat /\ Losses(m) \in Nat
  <1>1. WonBy(m) \subseteq settled /\ LostBy(m) \subseteq settled /\ IsFiniteSet(settled)
    BY Zenon DEF WonBy, LostBy, SettledClosed
  <1>2. IsFiniteSet(WonBy(m)) /\ IsFiniteSet(LostBy(m))
    BY <1>1, FS_Subset, Zenon
  <1>3. Wins(m) = Cardinality(WonBy(m)) /\ Losses(m) = Cardinality(LostBy(m))
    BY Zenon DEF Wins, Losses, WonBy, LostBy
  <1> QED BY <1>2, <1>3, FS_CardinalityType, Zenon

\* Proposals that are settled and stay as they are leave every account alone.
LEMMA AccountsKept ==
  ASSUME VoteInv, SettledClosed', settled' = settled, \A i \in settled : proposal'[i] = proposal[i],
         \A m \in Members : governor'[m].reputation = governor[m].reputation
  PROVE  ReputationEarned'
  <1> SUFFICES ASSUME NEW m \in Members PROVE Earned(m)'
    BY Zenon DEF ReputationEarned, Earned
  <1>1. Earned(m)
    BY Zenon DEF VoteInv, ReputationEarned, Earned
  <1>2. Wins(m)' = Wins(m) /\ Losses(m)' = Losses(m)
    <2>1. /\ {i \in settled' : proposal'[i].votes[m] # "none" /\ Won(m, proposal'[i])} = WonBy(m)
          /\ {i \in settled' : proposal'[i].votes[m] # "none" /\ ~Won(m, proposal'[i])} = LostBy(m)
      BY Zenon DEF WonBy, LostBy
    <2> QED BY <2>1, Zenon DEF Wins, Losses, WonBy, LostBy, Won
  <1> QED BY <1>1, <1>2, Zenon DEF Earned

\* The invariant of the votes holds before the first proposal.
LEMMA VoteInitSound == Init => VoteInv
  <1> SUFFICES ASSUME Init PROVE VoteInv
    BY Zenon
  <1>1. NoProposal \in ProposalRecord /\ NoProposal.state = "None"
    BY Zenon DEF NoProposal, ProposalRecord, States, Ballots
  <1>2. VoteTypes
    BY <1>1, GovernanceAssumption, Zenon DEF Init, VoteTypes, GovernorRecord, ReputationMin
  <1>3. SettledClosed
    BY FS_EmptySet, Zenon DEF Init, SettledClosed
  <1>4. TrapdoorDecisive
    BY <1>1, Zenon DEF Init, TrapdoorDecisive
  <1>5. ASSUME NEW m \in Members PROVE Earned(m)
    <2>1. Wins(m) \in Nat /\ Losses(m) \in Nat
      BY <1>3, CountsAreNatural, Zenon
    <2>2. governor[m].reputation = InitGovernors[m].reputation /\ governor[m].reputation \in Nat
      BY <1>2, GovernanceAssumption DEF Init, VoteTypes, GovernorRecord, ReputationMin
    <2> QED BY <2>1, <2>2 DEF Earned, ReputationStep
  <1>6. ReputationEarned
    BY <1>5, Zenon DEF Earned, ReputationEarned
  <1> QED BY <1>2, <1>3, <1>4, <1>6, Zenon DEF VoteInv

\* What a content of each kind refers to.
LEMMA ContentRefers ==
  ASSUME NEW c \in Contents \cup {NoContent}
  PROVE  /\ c.kind = "settle" => c.target \in Ids
         /\ c.kind = "set_governor" => c.member \in Members /\ c.class \in {"agent", "trapdoor"}
  BY GovernanceAssumption DEF NoContent

\* What resolve() may answer, and what it may not once a trapdoor has voted.
LEMMA OutcomesAre ==
  ASSUME NEW i, NEW votes, NEW outcome \in Outcomes(i, votes)
  PROVE  /\ outcome \in {"Open", "Accepted", "Rejected"}
         /\ outcome = "Open" => \A m \in Trapdoors : votes[m] = "none"
  <1> DEFINE decisive == {m \in Trapdoors : votes[m] # "none"}
  <1>1. CASE decisive # {}
    BY <1>1, Zenon DEF Outcomes
  <1>2. CASE decisive = {}
    <2>1. outcome = "Open" \/ outcome = WeightedOutcome(proposal[i].content, votes)
      BY <1>2, Zenon DEF Outcomes
    <2>2. WeightedOutcome(proposal[i].content, votes) \in {"Open", "Accepted", "Rejected"}
      BY Zenon DEF WeightedOutcome, HighImpactOutcome, RoutineOutcome
    <2> QED BY <1>2, <2>1, <2>2, Zenon
  <1> QED BY <1>1, <1>2, Zenon

\* A settlement moves a reputation by a step at most, and within its bounds.
LEMMA SettledReputationIs ==
  ASSUME NEW m \in Members, NEW p, governor[m] \in GovernorRecord
  PROVE  /\ SettledReputation(m, p) \in ReputationMin .. ReputationMax
         /\ Won(m, p) => /\ SettledReputation(m, p) <= governor[m].reputation + 1
                         /\ SettledReputation(m, p) >= governor[m].reputation
         /\ ~Won(m, p) => /\ SettledReputation(m, p) <= governor[m].reputation
                          /\ SettledReputation(m, p) + 1 >= governor[m].reputation
  <1>1. /\ governor[m].reputation \in Nat /\ ReputationMax \in Nat
        /\ 1 <= governor[m].reputation /\ governor[m].reputation <= ReputationMax
    BY GovernanceAssumption DEF GovernorRecord, ReputationMin
  <1>2. CASE Won(m, p)
    BY <1>1, <1>2, GovernanceAssumption
       DEF SettledReputation, Smaller, ReputationStep, ReputationMin
  <1>3. CASE ~Won(m, p)
    BY <1>1, <1>3, GovernanceAssumption DEF SettledReputation, Larger, ReputationStep, ReputationMin
  <1> QED BY <1>2, <1>3, Zenon

\* Whom an application changes, and how.
LEMMA GovernorsAfterAre ==
  ASSUME VoteTypes, NEW c \in Contents \cup {NoContent}
  PROVE  /\ GovernorsAfter(c) \in [Members -> GovernorRecord]
         /\ c.kind # "set_governor" => \A m \in Members : GovernorsAfter(c)[m].class = governor[m].class
         /\ c.kind # "settle" =>
               \A m \in Members : GovernorsAfter(c)[m].reputation = governor[m].reputation
         /\ c.kind = "settle" =>
               \A m \in Members :
                  GovernorsAfter(c)[m].reputation \in
                     (IF proposal[c.target].votes[m] = "none" THEN {governor[m].reputation}
                      ELSE {governor[m].reputation, SettledReputation(m, proposal[c.target])})
  <1>0. governor \in [Members -> GovernorRecord]
    BY Zenon DEF VoteTypes
  <1>1. CASE c.kind = "settle"
    <2> DEFINE p == proposal[c.target]
               new(m) == IF governor[m].class = "agent" /\ p.votes[m] # "none"
                         THEN [governor[m] EXCEPT !.reputation = SettledReputation(m, p)]
                         ELSE governor[m]
    <2>1. GovernorsAfter(c) = [m \in Members |-> new(m)]
      BY <1>1, Zenon DEF GovernorsAfter
    <2>2. ASSUME NEW m \in Members
          PROVE  /\ new(m) \in GovernorRecord /\ new(m).class = governor[m].class
                 /\ new(m).reputation \in (IF p.votes[m] = "none" THEN {governor[m].reputation}
                                           ELSE {governor[m].reputation, SettledReputation(m, p)})
      <3> DEFINE r == SettledReputation(m, p)
      <3>1. governor[m] \in GovernorRecord
        BY <1>0, Zenon
      <3>2. r \in ReputationMin .. ReputationMax
        BY <3>1, SettledReputationIs, Zenon
      <3> HIDE DEF r, p
      <3>3. /\ [governor[m] EXCEPT !.reputation = r] \in GovernorRecord
            /\ [governor[m] EXCEPT !.reputation = r].class = governor[m].class
            /\ [governor[m] EXCEPT !.reputation = r].reputation = r
        BY <3>1, <3>2, Zenon DEF GovernorRecord
      <3> QED BY <3>1, <3>3 DEF r
    <2> HIDE DEF new
    <2>3. GovernorsAfter(c) \in [Members -> GovernorRecord] /\ \A m \in Members : GovernorsAfter(c)[m] = new(m)
      BY <2>1, <2>2, Zenon
    <2> QED BY <1>1, <2>2, <2>3, Zenon
  <1>2. CASE c.kind = "set_governor"
    <2>1. GovernorsAfter(c) = [governor EXCEPT ![c.member].class = c.class]
      BY <1>2, Zenon DEF GovernorsAfter
    <2>2. c.member \in Members /\ c.class \in {"agent", "trapdoor"}
      BY <1>2, ContentRefers, Zenon
    <2> QED BY <1>0, <1>2, <2>1, <2>2 DEF GovernorRecord
  <1>3. CASE c.kind \notin {"settle", "set_governor"}
    <2>1. GovernorsAfter(c) = governor
      BY <1>3, Zenon DEF GovernorsAfter
    <2> QED BY <1>0, <1>3, <2>1, Zenon
  <1> QED BY <1>1, <1>2, <1>3, Zenon

\* A settlement adds its target to the account of everyone who voted on it.
LEMMA SettlementEarned ==
  ASSUME VoteInv, NEW c \in Contents \cup {NoContent}, c.kind = "settle", Applicable(c),
         governor' = GovernorsAfter(c), settled' = settled \cup {c.target},
         \A i \in settled \cup {c.target} : proposal'[i] = proposal[i]
  PROVE  ReputationEarned'
  <1> SUFFICES ASSUME NEW m \in Members PROVE Earned(m)'
    BY Zenon DEF ReputationEarned, Earned
  <1> DEFINE t == c.target
             p == proposal[t]
             old == governor[m].reputation
             new == governor'[m].reputation
             start == InitGovernors[m].reputation
  <1>1. VoteTypes /\ SettledClosed /\ Earned(m) /\ t \notin settled /\ t \in Ids
    BY ContentRefers, Zenon DEF VoteInv, ReputationEarned, Earned, Applicable
  <1>2. governor[m] \in GovernorRecord /\ governor'[m] \in GovernorRecord
    BY <1>1, GovernorsAfterAre, Zenon DEF VoteTypes
  <1>3. old \in Nat /\ new \in Nat /\ start \in Nat
    BY <1>2, GovernanceAssumption, SMTT(30) DEF GovernorRecord, ReputationMin
  <1>4. new \in (IF p.votes[m] = "none" THEN {old} ELSE {old, SettledReputation(m, p)})
    BY <1>1, GovernorsAfterAre, ZenonT(40)
  <1>5. SettledReputation(m, p) \in Nat
    BY <1>2, SettledReputationIs, GovernanceAssumption DEF ReputationMin
  <1>6. /\ Won(m, p) => SettledReputation(m, p) <= old + 1 /\ SettledReputation(m, p) >= old
        /\ ~Won(m, p) => SettledReputation(m, p) <= old /\ SettledReputation(m, p) + 1 >= old
    BY <1>2, SettledReputationIs, Zenon
  <1>7. /\ IsFiniteSet(WonBy(m)) /\ IsFiniteSet(LostBy(m))
        /\ Wins(m) = Cardinality(WonBy(m)) /\ Losses(m) = Cardinality(LostBy(m))
        /\ Wins(m) \in Nat /\ Losses(m) \in Nat
    BY <1>1, CountsAreNatural, Zenon
  <1>8. old <= start + Wins(m) /\ old + Losses(m) >= start
    BY <1>1, <1>3, <1>7 DEF Earned, ReputationStep
  <1>9. t \notin WonBy(m) /\ t \notin LostBy(m)
    BY <1>1, Zenon DEF WonBy, LostBy
  <1>10. Cardinality(WonBy(m) \cup {t}) = Wins(m) + 1 /\ Cardinality(LostBy(m) \cup {t}) = Losses(m) + 1
    <2>1. Cardinality(WonBy(m) \cup {t}) = Cardinality(WonBy(m)) + 1
      <3> HIDE DEF t
      <3> QED BY <1>7, <1>9, FS_AddElement, Zenon
    <2>2. Cardinality(LostBy(m) \cup {t}) = Cardinality(LostBy(m)) + 1
      <3> HIDE DEF t
      <3> QED BY <1>7, <1>9, FS_AddElement, Zenon
    <2> QED BY <1>7, <2>1, <2>2, Zenon
  <1>11. /\ Wins(m)' = Cardinality({i \in settled' : proposal'[i].votes[m] # "none" /\ Won(m, proposal'[i])})
         /\ Losses(m)' = Cardinality({i \in settled' : proposal'[i].votes[m] # "none" /\ ~Won(m, proposal'[i])})
    BY Zenon DEF Wins, Losses, Won
  <1>12. CASE p.votes[m] = "none"
    <2>1. Wins(m)' = Wins(m) /\ Losses(m)' = Losses(m)
      <3>1. {i \in settled' : proposal'[i].votes[m] # "none" /\ Won(m, proposal'[i])} = WonBy(m)
        BY <1>12, Zenon DEF WonBy
      <3>2. {i \in settled' : proposal'[i].votes[m] # "none" /\ ~Won(m, proposal'[i])} = LostBy(m)
        BY <1>12, Zenon DEF LostBy
      <3> QED BY <1>7, <1>11, <3>1, <3>2, Zenon
    <2>2. new = old
      BY <1>4, <1>12, Zenon
    <2> HIDE DEF old, new, start, p, t
    <2> QED BY <1>3, <1>7, <1>8, <2>1, <2>2 DEF Earned, ReputationStep, old, new, start
  <1>13. CASE p.votes[m] # "none" /\ Won(m, p)
    <2>1. Wins(m)' = Wins(m) + 1 /\ Losses(m)' = Losses(m)
      <3>1. {i \in settled' : proposal'[i].votes[m] # "none" /\ Won(m, proposal'[i])} = WonBy(m) \cup {t}
        BY <1>13, Zenon DEF WonBy
      <3>2. {i \in settled' : proposal'[i].votes[m] # "none" /\ ~Won(m, proposal'[i])} = LostBy(m)
        BY <1>13, Zenon DEF LostBy
      <3> QED BY <1>7, <1>10, <1>11, <3>1, <3>2, Zenon
    <2>2. new <= old + 1 /\ new >= old
      <3> HIDE DEF old, new, p
      <3> QED BY <1>3, <1>4, <1>5, <1>6, <1>13, SMTT(30)
    <2> HIDE DEF old, new, start, p, t
    <2>3. new <= start + (Wins(m) + 1) * 1 /\ new + Losses(m) * 1 >= start
      BY <1>3, <1>7, <1>8, <2>2, SMTT(30)
    <2> QED BY <2>1, <2>3, Zenon DEF Earned, ReputationStep, new, start
  <1>14. CASE p.votes[m] # "none" /\ ~Won(m, p)
    <2>1. Wins(m)' = Wins(m) /\ Losses(m)' = Losses(m) + 1
      <3>1. {i \in settled' : proposal'[i].votes[m] # "none" /\ Won(m, proposal'[i])} = WonBy(m)
        BY <1>14, Zenon DEF WonBy
      <3>2. {i \in settled' : proposal'[i].votes[m] # "none" /\ ~Won(m, proposal'[i])} = LostBy(m) \cup {t}
        BY <1>14 DEF LostBy
      <3> QED BY <1>7, <1>10, <1>11, <3>1, <3>2, Zenon
    <2>2. new <= old /\ new + 1 >= old
      <3> HIDE DEF old, new, p
      <3> QED BY <1>3, <1>4, <1>5, <1>6, <1>14
    <2> HIDE DEF old, new, start, p, t
    <2>3. new <= start + Wins(m) * 1 /\ new + (Losses(m) + 1) * 1 >= start
      BY <1>3, <1>7, <1>8, <2>2
    <2> QED BY <2>1, <2>3, Zenon DEF Earned, ReputationStep, new, start
  <1> QED BY <1>12, <1>13, <1>14, Zenon

\* A ballot is added to an open proposal, which may decide it.
LEMMA VoteStep ==
  ASSUME VoteInv, NEW m \in Members, NEW i \in Ids, NEW b \in {"yes", "no"}, Vote(m, i, b)
  PROVE  VoteInv'
  <1> DEFINE votes == [proposal[i].votes EXCEPT ![m] = b]
             c == proposal[i].content
  <1>0. VoteTypes /\ SettledClosed /\ proposal[i] \in ProposalRecord
    BY Zenon DEF VoteInv, VoteTypes
  <1>1. PICK outcome \in Outcomes(i, votes) :
          \/ outcome = "Accepted" /\ Applicable(c) /\ Apply(i, votes)
          \/ outcome = "Accepted" /\ ~Applicable(c) /\ Conclude(i, votes, "Failed")
          \/ outcome # "Accepted" /\ Conclude(i, votes, outcome)
    BY Zenon DEF Vote
  <1>2. proposal[i].state = "Open" /\ verdict' = verdict /\ i \notin settled
    BY <1>0, Zenon DEF Vote, SettledClosed
  <1>3. votes \in [Members -> Ballots] /\ c \in Contents \cup {NoContent}
    BY <1>0, Zenon DEF ProposalRecord, Ballots
  <1>4. /\ outcome \in {"Open", "Accepted", "Rejected"}
        /\ outcome = "Open" => \A n \in Trapdoors : votes[n] = "none"
    BY OutcomesAre, Zenon
  <1>5. CASE outcome = "Accepted" /\ Applicable(c) /\ Apply(i, votes)
    <2> DEFINE accepted == [proposal[i] EXCEPT !.state = "Accepted", !.votes = votes]
    <2>1. accepted \in ProposalRecord /\ accepted.state = "Accepted"
      BY <1>0, <1>3, Zenon DEF ProposalRecord, States
    <2>2. /\ governor' = GovernorsAfter(c)
          /\ active' = IF c.kind = "remove_member" THEN active \ {c.member} ELSE active
          /\ settled' = IF c.kind = "settle" THEN settled \cup {c.target} ELSE settled
          /\ proposal' = [j \in Ids |->
                IF j = i THEN accepted
                ELSE IF Invalidates(c) /\ proposal[j].state = "Open"
                THEN [proposal[j] EXCEPT !.state = "Dropped"]
                ELSE proposal[j]]
      BY <1>5, Zenon DEF Apply
    <2> HIDE DEF accepted, votes, c
    <2>3. ASSUME NEW j \in Ids PROVE [proposal[j] EXCEPT !.state = "Dropped"] \in ProposalRecord
                                      /\ [proposal[j] EXCEPT !.state = "Dropped"].state = "Dropped"
      BY <1>0, ZenonT(40) DEF VoteTypes, ProposalRecord, States
    <2>4. proposal' \in [Ids -> ProposalRecord]
      BY <1>0, <2>1, <2>2, <2>3, Zenon DEF VoteTypes
    <2>5. c.kind = "settle" => /\ c.target \in Ids /\ c.target # i
                               /\ proposal[c.target].state \in {"Accepted", "Rejected"}
      BY <1>2, <1>3, <1>5, ContentRefers, Zenon DEF Applicable
    <2>6. VoteTypes'
      BY <1>0, <1>2, <1>3, <2>2, <2>4, <2>5, GovernorsAfterAre, Zenon DEF VoteTypes
    <2>7. \A j \in settled' : j \in Ids /\ proposal'[j] = proposal[j]
                              /\ proposal[j].state \in {"Accepted", "Rejected"}
      BY <1>0, <1>2, <2>2, <2>5, Zenon DEF VoteTypes, SettledClosed
    <2>8. SettledClosed'
      <3>1. IsFiniteSet(settled')
        BY <1>0, <2>2, FS_AddElement, Zenon DEF SettledClosed
      <3> QED BY <2>7, <3>1, Zenon DEF SettledClosed
    <2>9. TrapdoorDecisive'
      <3> SUFFICES ASSUME NEW j \in Ids, proposal'[j].state = "Open", NEW n \in Trapdoors'
                   PROVE  proposal'[j].votes[n] = "none"
        BY Zenon DEF TrapdoorDecisive
      <3>1. j # i /\ proposal'[j] = proposal[j] /\ ~Invalidates(c)
        BY <2>1, <2>2, <2>3, Zenon
      <3>2. n \in Members /\ n \in active /\ governor'[n].class = "trapdoor"
        BY <1>0, <2>2, Zenon DEF Trapdoors, VoteTypes
      <3>3. governor'[n].class = governor[n].class
        BY <1>0, <1>3, <2>2, <3>1, <3>2, GovernorsAfterAre, Zenon DEF Invalidates
      <3>4. n \in Trapdoors
        BY <3>2, <3>3, Zenon DEF Trapdoors
      <3> QED BY <3>1, <3>4, Zenon DEF VoteInv, TrapdoorDecisive
    <2>10. ReputationEarned'
      <3>1. CASE c.kind = "settle"
        BY <1>3, <1>5, <2>2, <2>7, <3>1, SettlementEarned, Zenon
      <3>2. CASE c.kind # "settle"
        BY <1>0, <1>3, <2>2, <2>7, <2>8, <3>2, AccountsKept, GovernorsAfterAre, ZenonT(40)
      <3> QED BY <3>1, <3>2, Zenon
    <2> QED BY <2>6, <2>8, <2>9, <2>10, Zenon DEF VoteInv
  <1>6. ASSUME NEW state \in {"Failed", "Open", "Rejected"}, Conclude(i, votes, state),
               state = "Open" => outcome = "Open"
        PROVE  VoteInv'
    <2> DEFINE closed == [proposal[i] EXCEPT !.votes = votes, !.state = state]
    <2>1. /\ closed \in ProposalRecord /\ closed.state = state /\ closed.votes = votes
      BY <1>0, <1>3, Zenon DEF ProposalRecord, States
    <2>2. /\ proposal' = [proposal EXCEPT ![i] = closed] /\ UNCHANGED <<active, governor, settled>>
      BY <1>0, <1>6, Zenon DEF Conclude, VoteTypes
    <2> HIDE DEF closed, votes
    <2>3. /\ proposal'[i] = closed /\ \A j \in Ids \ {i} : proposal'[j] = proposal[j]
          /\ proposal' \in [Ids -> ProposalRecord]
      BY <1>0, <2>1, <2>2, Zenon DEF VoteTypes
    <2>4. VoteTypes'
      BY <1>0, <1>2, <2>2, <2>3, Zenon DEF VoteTypes
    <2>5. \A j \in settled : proposal'[j] = proposal[j]
      BY <1>0, <1>2, <2>3, Zenon DEF VoteTypes
    <2>6. SettledClosed'
      BY <1>0, <2>2, <2>5, Zenon DEF SettledClosed
    <2>7. TrapdoorDecisive'
      <3>1. Trapdoors' = Trapdoors
        BY <2>2, Zenon DEF Trapdoors
      <3> QED BY <1>4, <1>6, <2>1, <2>3, <3>1, SMTT(30) DEF VoteInv, TrapdoorDecisive
    <2>8. ReputationEarned'
      BY <2>2, <2>5, <2>6, AccountsKept, Zenon
    <2> QED BY <2>4, <2>6, <2>7, <2>8, Zenon DEF VoteInv
  <1> HIDE DEF votes, c
  <1> QED BY <1>1, <1>4, <1>5, <1>6, Zenon

\* Every step keeps the invariant of the votes.
LEMMA VoteStepSound == VoteInv /\ [Next]_vars => VoteInv'
  <1> SUFFICES ASSUME VoteInv, [Next]_vars PROVE VoteInv'
    BY Zenon
  <1>0. VoteTypes /\ SettledClosed
    BY Zenon DEF VoteInv
  <1>1. ASSUME NEW i \in Ids, NEW new \in ProposalRecord, proposal' = [proposal EXCEPT ![i] = new],
               new.state = "Open" => \A m \in Members : new.votes[m] = "none",
               proposal[i].state \in {"None", "Open"},
               UNCHANGED <<active, governor, verdict, settled>>
        PROVE  VoteInv'
    <2>1. /\ proposal'[i] = new /\ \A j \in Ids \ {i} : proposal'[j] = proposal[j]
          /\ proposal' \in [Ids -> ProposalRecord]
      BY <1>0, <1>1, Zenon DEF VoteTypes
    <2>2. i \notin settled
      BY <1>0, <1>1, Zenon DEF SettledClosed
    <2>3. VoteTypes'
      BY <1>0, <1>1, <2>1, Zenon DEF VoteTypes
    <2>4. \A j \in settled : proposal'[j] = proposal[j]
      BY <1>0, <2>1, <2>2, Zenon DEF VoteTypes
    <2>5. SettledClosed'
      BY <1>0, <1>1, <2>4, Zenon DEF SettledClosed
    <2>6. Trapdoors' = Trapdoors /\ Trapdoors \subseteq Members
      BY <1>0, <1>1, Zenon DEF Trapdoors, VoteTypes
    <2>7. TrapdoorDecisive'
      BY <1>1, <2>1, <2>6, Zenon DEF VoteInv, TrapdoorDecisive
    <2>8. ReputationEarned'
      BY <1>1, <2>4, <2>5, AccountsKept, Zenon
    <2> QED BY <2>3, <2>5, <2>7, <2>8, Zenon DEF VoteInv
  <1>2. ASSUME NEW i \in Ids, NEW c \in Contents, Propose(i, c) PROVE VoteInv'
    <2> DEFINE new == [content |-> c, state |-> "Open", votes |-> [m \in Members |-> "none"]]
    <2>1. new \in ProposalRecord /\ \A m \in Members : new.votes[m] = "none"
      BY Zenon DEF ProposalRecord, States, Ballots
    <2>2. proposal' = [proposal EXCEPT ![i] = new] /\ UNCHANGED <<active, governor, verdict, settled>>
          /\ proposal[i].state = "None"
      BY <1>2, Zenon DEF Propose
    <2> HIDE DEF new
    <2> QED BY <1>1, <2>1, <2>2, Zenon
  <1>3. ASSUME NEW i \in Ids, Withdraw(i) PROVE VoteInv'
    <2> DEFINE new == [proposal[i] EXCEPT !.state = "Withdrawn"]
    <2>1. new \in ProposalRecord /\ new.state = "Withdrawn"
      BY <1>0, ZenonT(40) DEF VoteTypes, ProposalRecord, States
    <2>2. proposal' = [proposal EXCEPT ![i] = new] /\ UNCHANGED <<active, governor, verdict, settled>>
          /\ proposal[i].state = "Open"
      BY <1>3, Zenon DEF Withdraw
    <2> HIDE DEF new
    <2> QED BY <1>1, <2>1, <2>2, Zenon
  <1>4. ASSUME UNCHANGED <<active, governor, proposal, settled>>,
               verdict' \in [Ids \X Reviewers -> {"none", "block"}]
        PROVE  VoteInv'
    <2>1. VoteTypes' /\ SettledClosed'
      BY <1>0, <1>4, Zenon DEF VoteTypes, SettledClosed
    <2>2. TrapdoorDecisive'
      BY <1>4, Zenon DEF VoteInv, TrapdoorDecisive, Trapdoors
    <2>3. ReputationEarned'
      BY <1>4, <2>1, AccountsKept, Zenon
    <2> QED BY <2>1, <2>2, <2>3, Zenon DEF VoteInv
  <1>5. ASSUME NEW m \in Reviewers, NEW i \in Ids, NEW v \in {"none", "block"}, RecordVerdict(m, i, v)
        PROVE  VoteInv'
    <2>1. verdict' \in [Ids \X Reviewers -> {"none", "block"}]
      BY <1>0, <1>5, Zenon DEF RecordVerdict, VoteTypes
    <2> QED BY <1>4, <1>5, <2>1, Zenon DEF RecordVerdict
  <1>6. CASE UNCHANGED vars
    BY <1>0, <1>4, <1>6, Zenon DEF vars, VoteTypes
  <1> QED
    BY <1>2, <1>3, <1>5, <1>6, VoteStep, Zenon DEF Next

\* The invariant of the votes holds in every reachable state.
LEMMA VoteInvariant == Spec => []VoteInv
  BY VoteInitSound, VoteStepSound, PTL DEF Spec

\* No proposal stays open with the ballot of a trapdoor on it, whoever becomes or
\* ceases to be one while it is open, for any members and any proposals.
THEOREM TrapdoorAlwaysDecisive == Spec => []TrapdoorDecisive
  BY VoteInvariant, PTL DEF VoteInv

\* Every reputation stays within its bounds and is accounted for by the settled
\* proposals, however many settlements are proposed and in whatever order.
THEOREM ReputationAccounted == Spec => []ReputationSound
  <1>1. VoteTypes => TypeOK
    BY Zenon DEF VoteTypes, TypeOK, GovernorRecord, ProposalRecord
  <1> QED BY <1>1, VoteInvariant, PTL DEF VoteInv, ReputationSound

\* No two proposals have the same text.  The wording is the proposers' own; a copy
\* of an older proposal, word for word, is what the theorem below leaves out, since
\* proposalIdForVotes then finds the older one.
OwnWordings == \A i, j \in Ids : NoteOf[i] = NoteOf[j] => i = j

\* The text of a proposal then finds that proposal.
LEMMA FoundIdIs ==
  ASSUME OwnWordings, NEW i \in Ids, proposal[i].state # "None"
  PROVE  FoundId(i) = i
  <1> DEFINE S == {j \in Ids : proposal[j].state # "None" /\ Text(j) = Text(i)}
  <1>1. S = {i}
    BY Zenon DEF Text, OwnWordings
  <1>2. i \in Nat
    BY GovernanceAssumption, Zenon
  <1>3. Min({i}) = i
    BY <1>2 DEF Min
  <1> QED BY <1>1, <1>3, Zenon DEF FoundId

\* A high-impact proposal is never accepted by weight over the standing block of an
\* active reviewer of sufficient reputation, provided that no two proposals have the
\* same text.
THEOREM BlockAlwaysHolds == OwnWordings => (Spec => BlockHolds)
  <1> SUFFICES ASSUME OwnWordings PROVE Spec => BlockHolds
    BY Zenon
  <1> DEFINE Step == \A i \in Ids :
        (/\ proposal[i].state = "Open" /\ proposal'[i].state = "Accepted"
         /\ HighImpact(proposal[i].content)
         /\ ~DecidedByTrapdoor(i))
            => ~\E m \in Reviewers : BlockedBy(i, m)
  <1>1. ASSUME VoteInv, Next, NEW i \in Ids,
               proposal[i].state = "Open", proposal'[i].state = "Accepted",
               HighImpact(proposal[i].content), ~DecidedByTrapdoor(i)
        PROVE  ~\E m \in Reviewers : BlockedBy(i, m)
    <2>0. VoteTypes /\ proposal[i] \in ProposalRecord
      BY <1>1, Zenon DEF VoteInv, VoteTypes
    <2>1. ASSUME NEW j \in Ids, NEW c \in Contents, Propose(j, c) PROVE FALSE
      <3>1. j # i
        BY <1>1, <2>1, Zenon DEF Propose
      <3> QED BY <1>1, <2>0, <2>1, <3>1, Zenon DEF Propose, VoteTypes
    <2>2. ASSUME NEW j \in Ids, Withdraw(j) PROVE FALSE
      BY <1>1, <2>0, <2>2, Zenon DEF Withdraw, VoteTypes, ProposalRecord
    <2>3. PICK m \in Members, j \in Ids, b \in {"yes", "no"} : Vote(m, j, b)
      BY <1>1, <2>1, <2>2, ZenonT(40) DEF Next, RecordVerdict
    <2> DEFINE votes == [proposal[j].votes EXCEPT ![m] = b]
               c == proposal[j].content
    <2>4. PICK outcome \in Outcomes(j, votes) :
            \/ outcome = "Accepted" /\ Applicable(c) /\ Apply(j, votes)
            \/ outcome = "Accepted" /\ ~Applicable(c) /\ Conclude(j, votes, "Failed")
            \/ outcome # "Accepted" /\ Conclude(j, votes, outcome)
      BY <2>3, Zenon DEF Vote
    <2>5. proposal[j] \in ProposalRecord
      BY <2>0, Zenon DEF VoteTypes
    <2> HIDE DEF votes, c
    <2>6. CASE Apply(j, votes) /\ outcome = "Accepted"
      <3>1. i = j
        <4> SUFFICES ASSUME i # j PROVE FALSE
          BY Zenon
        <4>1. proposal'[i] = proposal[i] \/ proposal'[i] = [proposal[i] EXCEPT !.state = "Dropped"]
          BY <2>6, Zenon DEF Apply
        <4> QED BY <1>1, <2>0, <4>1, Zenon DEF ProposalRecord
      <3>2. proposal'[j] = [proposal[j] EXCEPT !.state = "Accepted", !.votes = votes]
        BY <2>6, Zenon DEF Apply
      <3>3. proposal'[j].votes = votes
        BY <2>5, <3>2, Zenon DEF ProposalRecord
      <3>4. \A n \in Trapdoors : votes[n] = "none"
        BY <1>1, <3>1, <3>3, Zenon DEF DecidedByTrapdoor
      <3>5. ~Blocked(j)
        BY <1>1, <2>6, <3>1, <3>4, Zenon DEF Outcomes
      <3> QED BY <1>1, <3>1, <3>5, FoundIdIs, Zenon DEF Blocked
    <2>7. ASSUME NEW state, state # "Accepted", Conclude(j, votes, state) PROVE FALSE
      <3>1. proposal' = [proposal EXCEPT ![j] = [proposal[j] EXCEPT !.votes = votes, !.state = state]]
        BY <2>0, <2>7, Zenon DEF Conclude, VoteTypes
      <3> QED BY <1>1, <2>0, <2>5, <2>7, <3>1, Zenon DEF VoteTypes, ProposalRecord
    <2> QED BY <2>4, <2>6, <2>7, Zenon
  <1>2. VoteInv /\ [Next]_vars => [Step]_vars
    BY <1>1, Zenon
  <1> HIDE DEF Step
  <1>3. Spec => [][Step]_vars
    BY <1>2, VoteInvariant, PTL DEF Spec
  <1> QED BY <1>3, Zenon DEF BlockHolds, Step

-----------------------------------------------------------------------------
(* Anchors: receipts over anchors stand, and heads end their chains.       *)

Moments == 0..LastMoment
AnchorRows == [digest : Digests \cup {NoDigest}, at : Moments]
AnchorHeads == [sequence : 0..LastSequence, digest : Digests \cup {NoDigest}, at : Moments, count : Nat]
Receipted == [chain : Chains, sequence : Numbers, digest : Digests, at : Moments]

AnchorTypes ==
    /\ anchors \in [Chains -> [Numbers -> AnchorRows]]
    /\ heads \in [Chains -> AnchorHeads]
    /\ receipts \subseteq Receipted
    /\ moment \in Moments

\* A row is there with a digest and a time that has passed, or it is not there.
AnchorRowsSound ==
    \A c \in Chains, n \in Numbers :
       anchors[c][n] = NoAnchor \/ (anchors[c][n].digest \in Digests /\ anchors[c][n].at <= moment)

\* The conjunct of HeadsLast for one chain.
HeadLast(c) ==
    IF Bound(c) = {} THEN heads[c] = NoHead
    ELSE /\ heads[c].sequence \in Bound(c)
         /\ \A n \in Bound(c) : n <= heads[c].sequence
         /\ anchors[c][heads[c].sequence] = [digest |-> heads[c].digest, at |-> heads[c].at]
         /\ heads[c].count = Cardinality(Bound(c)) /\ heads[c].count <= MaxAnchors

OrderedInTime(c) == \A m, n \in Bound(c) : m <= n => anchors[c][m].at <= anchors[c][n].at

AnchorInv ==
    /\ AnchorTypes /\ AnchorRowsSound /\ ReceiptsStand
    /\ \A c \in Chains : HeadLast(c) /\ OrderedInTime(c)

-----------------------------------------------------------------------------
\* A chain has finitely many rows, so counting one more adds one.
LEMMA BoundFinite == ASSUME NEW c \in Chains PROVE IsFiniteSet(Bound(c))
<1>1. IsFiniteSet(Numbers)
    BY AnchorsAssumption, FS_Interval DEF Numbers
<1> QED BY <1>1, FS_Subset, Zenon DEF Bound

\* Before anything is anchored.
LEMMA AnchorsInitSound == AnchorsInit => AnchorInv
<1> SUFFICES ASSUME AnchorsInit PROVE AnchorInv BY Zenon
<1> USE AnchorsAssumption
<1>1. AnchorTypes
    BY DEF AnchorsInit, AnchorTypes, AnchorRows, AnchorHeads, Receipted, Moments, NoAnchor, NoHead
<1>2. AnchorRowsSound /\ ReceiptsStand
    BY Zenon DEF AnchorsInit, AnchorRowsSound, ReceiptsStand
<1>3. \A c \in Chains : HeadLast(c) /\ OrderedInTime(c)
    BY Zenon DEF AnchorsInit, HeadLast, OrderedInTime, Bound
<1> QED BY <1>1, <1>2, <1>3, Zenon DEF AnchorInv

\* A step that leaves the rows and the heads alone, gives out only claims about
\* stored rows and does not turn the clock back.
LEMMA AnchorRowsKept ==
    ASSUME AnchorInv, UNCHANGED <<anchors, heads>>, moment' \in Moments, moment <= moment',
           receipts' \subseteq Receipted,
           \A x \in receipts' \ receipts :
              x = AnchorClaims(x.chain, x.sequence, anchors[x.chain][x.sequence])
    PROVE  AnchorInv'
<1>1. AnchorTypes' /\ ReceiptsStand'
    BY Zenon DEF AnchorInv, AnchorTypes, ReceiptsStand, AnchorClaims
<1>2. AnchorRowsSound'
  <2> SUFFICES ASSUME NEW c \in Chains, NEW n \in Numbers, anchors[c][n] # NoAnchor
               PROVE  anchors[c][n].digest \in Digests /\ anchors[c][n].at <= moment'
      BY Zenon DEF AnchorRowsSound
  <2>1. anchors[c][n] \in AnchorRows /\ moment \in Moments
      BY Zenon DEF AnchorInv, AnchorTypes
  <2>2. anchors[c][n].digest \in Digests /\ anchors[c][n].at <= moment
      BY Zenon DEF AnchorInv, AnchorRowsSound
  <2> QED BY <2>1, <2>2, AnchorsAssumption, SMTT(30) DEF AnchorRows, Moments
<1>3. \A c \in Chains : HeadLast(c)' /\ OrderedInTime(c)'
    BY ZenonT(40) DEF AnchorInv, HeadLast, OrderedInTime, Bound
<1> QED BY <1>1, <1>2, <1>3, Zenon DEF AnchorInv

\* The rows that are there have a number, a digest and a time.
LEMMA BoundRowReceipted ==
    ASSUME AnchorInv, NEW c \in Chains, NEW n \in Numbers, anchors[c][n] # NoAnchor
    PROVE  AnchorClaims(c, n, anchors[c][n]) \in Receipted
BY Zenon DEF AnchorInv, AnchorTypes, AnchorRowsSound, AnchorRows, Receipted, AnchorClaims

\* anchor stores a new last row of the chain.
LEMMA StoreAnchorKeeps ==
    ASSUME AnchorInv, NEW c \in Chains, NEW n \in Numbers, NEW d \in Digests, StoreAnchor(c, n, d)
    PROVE  AnchorInv'
<1> DEFINE row == [digest |-> d, at |-> moment]
<1> USE AnchorsAssumption
<1>1. /\ anchors' = [anchors EXCEPT ![c] = [anchors[c] EXCEPT ![n] = row]]
      /\ heads' = [heads EXCEPT ![c] = [sequence |-> n, digest |-> d, at |-> moment,
                                        count |-> heads[c].count + 1]]
      /\ receipts' = receipts \cup {AnchorClaims(c, n, row)}
      /\ moment' = moment
      /\ anchors[c][n] = NoAnchor /\ Extends(c, n)
    BY Zenon DEF StoreAnchor
<1>2. row \in AnchorRows /\ row # NoAnchor /\ AnchorClaims(c, n, row) \in Receipted
    BY Zenon DEF AnchorInv, AnchorTypes, AnchorRows, NoAnchor, AnchorClaims, Receipted
<1>3. AnchorTypes'
  <2>1. heads[c] \in AnchorHeads /\ moment \in Moments
      BY Zenon DEF AnchorInv, AnchorTypes
  <2>2. [sequence |-> n, digest |-> d, at |-> moment, count |-> heads[c].count + 1] \in AnchorHeads
      BY <2>1 DEF AnchorHeads, Numbers
  <2>3. anchors' \in [Chains -> [Numbers -> AnchorRows]]
      BY <1>1, <1>2, Zenon DEF AnchorInv, AnchorTypes
  <2> QED BY <1>1, <1>2, <2>2, <2>3, Zenon DEF AnchorInv, AnchorTypes
<1>4. \A e \in Chains, m \in Numbers :
         anchors'[e][m] = IF e = c /\ m = n THEN row ELSE anchors[e][m]
    BY <1>1, Zenon DEF AnchorInv, AnchorTypes
<1>5. AnchorRowsSound'
  <2>1. row.digest \in Digests /\ row.at <= moment'
      BY <1>1 DEF AnchorInv, AnchorTypes, Moments
  <2> QED BY <1>1, <1>4, <2>1 DEF AnchorInv, AnchorRowsSound
<1>6. ReceiptsStand'
  <2> SUFFICES ASSUME NEW x \in receipts'
               PROVE  x = AnchorClaims(x.chain, x.sequence, anchors'[x.chain][x.sequence])
      BY Zenon DEF ReceiptsStand, AnchorClaims
  <2>1. CASE x = AnchorClaims(c, n, row)
      BY <1>4, <2>1, Zenon DEF AnchorClaims
  <2>2. CASE x \in receipts
    <3>1. x \in Receipted /\ x.digest = anchors[x.chain][x.sequence].digest
        BY <2>2 DEF AnchorInv, AnchorTypes, ReceiptsStand, AnchorClaims
    <3>2. ~ (x.chain = c /\ x.sequence = n)
        BY <1>1, <3>1, SMTT(30) DEF Receipted, NoAnchor
    <3> QED BY <1>4, <2>2, <3>1, <3>2, Zenon DEF AnchorInv, ReceiptsStand, Receipted
  <2> QED BY <1>1, <2>1, <2>2, Zenon
<1>7. ASSUME NEW e \in Chains, e # c PROVE HeadLast(e)' /\ OrderedInTime(e)'
  <2>1. anchors'[e] = anchors[e] /\ heads'[e] = heads[e]
      BY <1>1, <1>7, Zenon DEF AnchorInv, AnchorTypes
  <2>2. Bound(e)' = Bound(e)
      BY <2>1, Zenon DEF Bound
  <2> QED BY <1>7, <2>1, <2>2, Zenon DEF AnchorInv, HeadLast, OrderedInTime
<1>8. HeadLast(c)' /\ OrderedInTime(c)'
  <2>1. Bound(c)' = Bound(c) \cup {n} /\ n \notin Bound(c)
      BY <1>1, <1>2, <1>4 DEF Bound
  <2>2. Cardinality(Bound(c)') = Cardinality(Bound(c)) + 1
      BY <2>1, BoundFinite, FS_AddElement, Zenon
  <2>3. /\ heads'[c].sequence = n /\ heads'[c].count = heads[c].count + 1
        /\ [digest |-> heads'[c].digest, at |-> heads'[c].at] = row
      BY <1>1, Zenon DEF AnchorInv, AnchorTypes
  <2>4. \A m \in Bound(c) : m < n
    <3>1. CASE Bound(c) = {}
        BY <3>1, Zenon
    <3>2. CASE Bound(c) # {}
      <4>1. heads[c].sequence \in Bound(c) /\ \A m \in Bound(c) : m <= heads[c].sequence
          BY <3>2, Zenon DEF AnchorInv, HeadLast
      <4>2. heads[c].sequence < n
          BY <1>1, <4>1, SMTT(30) DEF Extends, NoHead, Bound, Numbers
      <4> QED BY <4>1, <4>2, SMTT(30) DEF Bound, Numbers
    <3> QED BY <3>1, <3>2, Zenon
  <2>5. heads'[c].count = Cardinality(Bound(c)') /\ heads'[c].count <= MaxAnchors
    <3>1. CASE Bound(c) = {}
      <4>0. heads[c] = NoHead
          BY <3>1, Zenon DEF AnchorInv, HeadLast
      <4>1. heads[c].count = 0
          BY <4>0 DEF NoHead
      <4>2. Cardinality(Bound(c)) = 0
          BY <3>1, FS_EmptySet, Zenon
      <4> QED BY <2>2, <2>3, <4>1, <4>2, SMTT(30)
    <3>2. CASE Bound(c) # {}
      <4>1. heads[c].sequence \in Bound(c) /\ heads[c].count = Cardinality(Bound(c))
          BY <3>2, ZenonT(40) DEF AnchorInv, HeadLast
      <4>2. heads[c].count < MaxAnchors
          BY <1>1, <4>1 DEF Extends, NoHead, Bound, Numbers
      <4>3. heads[c].count \in Nat
          BY Zenon DEF AnchorInv, AnchorTypes, AnchorHeads
      <4> QED BY <2>2, <2>3, <4>1, <4>2, <4>3, SMTT(30)
    <3> QED BY <3>1, <3>2, ZenonT(40)
  <2>6. HeadLast(c)'
    <3>1. \A m \in Bound(c)' : m <= n
        BY <2>1, <2>4, SMTT(30) DEF Bound, Numbers
    <3> QED BY <1>4, <2>1, <2>3, <2>5, <3>1, ZenonT(40) DEF HeadLast
  <2>7. OrderedInTime(c)'
    <3> SUFFICES ASSUME NEW l \in Bound(c)', NEW m \in Bound(c)', l <= m
                 PROVE  anchors'[c][l].at <= anchors'[c][m].at
        BY Zenon DEF OrderedInTime
    <3>1. l \in Numbers /\ m \in Numbers
        BY Zenon DEF Bound
    <3>2. CASE m = n
      <4>1. anchors'[c][l] \in AnchorRows /\ anchors'[c][l].at <= moment
          BY <1>1, <1>3, <1>5, <3>1, ZenonT(40) DEF AnchorTypes, AnchorRowsSound, Bound
      <4> QED BY <1>4, <3>1, <3>2, <4>1, SMTT(30)
    <3>3. CASE m # n
      <4>1. m \in Bound(c) /\ m < n
          BY <2>1, <2>4, <3>3, Zenon
      <4>2. l # n /\ l \in Bound(c)
          BY <2>1, <3>1, <4>1 DEF Numbers
      <4> QED BY <1>4, <3>1, <3>3, <4>1, <4>2, Zenon DEF AnchorInv, OrderedInTime
    <3> QED BY <3>2, <3>3, Zenon
  <2> QED BY <2>6, <2>7, Zenon
<1> QED BY <1>3, <1>5, <1>6, <1>7, <1>8, Zenon DEF AnchorInv

\* Every step keeps the invariant.
LEMMA AnchorsStepSound == AnchorInv /\ [AnchorsNext]_anchorVars => AnchorInv'
<1> SUFFICES ASSUME AnchorInv, [AnchorsNext]_anchorVars PROVE AnchorInv' BY Zenon
<1> USE AnchorsAssumption
<1>0. moment \in Moments /\ receipts \subseteq Receipted
    BY Zenon DEF AnchorInv, AnchorTypes
<1>1. CASE UNCHANGED anchorVars
    BY <1>0, <1>1, AnchorRowsKept DEF anchorVars, Moments
<1>2. CASE TimePasses
    BY <1>0, <1>2, AnchorRowsKept, SMTT(30) DEF TimePasses, Moments
<1>3. ASSUME NEW r \in Registered, Admitted(r) \/ Suspend(r) \/ Restore(r) \/ Lapse(r)
      PROVE  AnchorInv'
    BY <1>0, <1>3, AnchorRowsKept DEF Admitted, Suspend, Restore, Lapse, Stand, Moments
<1>4. ASSUME NEW c \in Chains, NEW n \in Numbers, NEW d \in Digests, StoreAnchor(c, n, d)
      PROVE  AnchorInv'
    BY <1>4, StoreAnchorKeeps, Zenon
<1>5. ASSUME NEW c \in Chains, NEW n \in Numbers, NEW d \in Digests, DuplicateAnchor(c, n, d)
      PROVE  AnchorInv'
  <2>1. anchors[c][n] # NoAnchor
      BY <1>5 DEF DuplicateAnchor, NoAnchor
  <2>2. AnchorClaims(c, n, anchors[c][n]) \in Receipted
      BY <2>1, BoundRowReceipted, Zenon
  <2>3. /\ receipts' = receipts \cup {AnchorClaims(c, n, anchors[c][n])}
        /\ UNCHANGED <<anchors, heads, moment>>
      BY <1>5, Zenon DEF DuplicateAnchor
  <2>4. \A x \in receipts' \ receipts :
           x = AnchorClaims(x.chain, x.sequence, anchors[x.chain][x.sequence])
      BY <2>3, SMTT(30) DEF AnchorClaims
  <2> QED BY <1>0, <2>2, <2>3, <2>4, AnchorRowsKept, SMTT(30) DEF Moments
<1>6. ASSUME NEW c \in Chains, ReadHead(c) PROVE AnchorInv'
  <2> DEFINE n == heads[c].sequence
  <2>1. n \in Bound(c)
      BY <1>6, ZenonT(40) DEF ReadHead, AnchorInv, HeadLast
  <2>2. n \in Numbers /\ AnchorClaims(c, n, anchors[c][n]) \in Receipted
      BY <2>1, BoundRowReceipted, Zenon DEF Bound
  <2>3. /\ receipts' = receipts \cup {AnchorClaims(c, n, anchors[c][n])}
        /\ UNCHANGED <<anchors, heads, moment>>
      BY <1>6, Zenon DEF ReadHead
  <2>4. \A x \in receipts' \ receipts :
           x = AnchorClaims(x.chain, x.sequence, anchors[x.chain][x.sequence])
      BY <2>3 DEF AnchorClaims
  <2> QED BY <1>0, <2>2, <2>3, <2>4, AnchorRowsKept, SMTT(30) DEF Moments
<1> QED BY <1>1, <1>2, <1>3, <1>4, <1>5, <1>6, Zenon DEF AnchorsNext

\* No receipt over an anchor is ever contradicted: its sequence number keeps its
\* digest, the head ends the chain and counts it, and the chain was anchored in
\* order (anchor and read_anchor in anchors.rs).
THEOREM AnchorsCorrect == AnchorsSpec => []AnchorsSound
<1>1. AnchorInv => AnchorsSound
    BY ZenonT(40) DEF AnchorInv, AnchorsSound, HeadsLast, HeadLast, ChainOrdered, OrderedInTime
<1> QED BY <1>1, AnchorsInitSound, AnchorsStepSound, PTL DEF AnchorsSpec

=============================================================================
