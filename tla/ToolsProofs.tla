----------------------------- MODULE ToolsProofs ----------------------------
(***************************************************************************)
(* Safety of the programs that capture, measure and appraise, for every    *)
(* value of their constants: any number of connections, captures and quotes, *)
(* and any limits.  They share no state; each has a section of its own, with *)
(* the inductive invariant its properties need.                            *)
(***************************************************************************)
EXTENDS CaptureServer, CaptureFlow, FiniteSetTheorems, TLAPS

-----------------------------------------------------------------------------
(* CaptureServer: the slots of the listeners and the deadline of a mail    *)
(* session.                                                                *)

HandlerThreads == [stage : {"none"} \cup HttpStages \cup MailStages, age : Nat, wait : Nat,
                   limit : Nat, secured : BOOLEAN, commands : 0 .. (MaxCommands - 1)]

\* Listener and stage belong together.  The operation a mail session waits for
\* fits into what was left of the session when it began.
ThreadSound(c) ==
    /\ Serving(c) => thread[c].stage \in (IF Http(c) THEN HttpStages ELSE MailStages)
    /\ Serving(c) /\ ~Http(c) =>
          /\ thread[c].wait <= thread[c].limit
          /\ thread[c].age + thread[c].limit <= MailSeconds + thread[c].wait

Held(s) == {c \in Connections : ServerOf[c] = s /\ Serving(c)}

SlotsOf(s) == IsFiniteSet(Held(s)) /\ slots[s] + Cardinality(Held(s)) = MaxSlots

ServerInv ==
    /\ thread \in [Connections -> HandlerThreads]
    /\ slots \in [Servers -> Nat]
    /\ lock \in Connections \cup {Nobody}
    /\ \A c \in Connections : ThreadSound(c)
    /\ \A s \in Servers : SlotsOf(s)

\* A handler that ends gives its slot back, to the listener it took it from.
LEMMA EndsKeeps ==
    ASSUME ServerInv, NEW c \in Connections, Serving(c), Ends(c), lock' \in Connections \cup {Nobody}
    PROVE  ServerInv'
<1> USE CaptureServerAssumption
<1> DEFINE l == ServerOf[c]
<1>1. l \in Servers /\ NoThread \in HandlerThreads /\ NoThread.stage = "none"
    BY DEF NoThread, HandlerThreads
<1>2. /\ thread' = [thread EXCEPT ![c] = NoThread] /\ thread' \in [Connections -> HandlerThreads]
      /\ slots' = [slots EXCEPT ![l] = slots[l] + 1] /\ slots' \in [Servers -> Nat]
    BY <1>1 DEF Ends, ServerInv
<1>3. ~Serving(c)' /\ \A d \in Connections : d # c => thread'[d] = thread[d]
    BY <1>1, <1>2, Zenon DEF Serving, ServerInv
<1>4. \A d \in Connections : ThreadSound(d)'
    BY <1>3, Zenon DEF ThreadSound, Serving, ServerInv, Http
<1>5. ASSUME NEW s \in Servers PROVE SlotsOf(s)'
  <2>1. CASE s # l
    <3>1. Held(s)' = Held(s)
        BY <1>3, <2>1, Zenon DEF Held, Serving
    <3> QED BY <1>2, <2>1, <3>1, Zenon DEF SlotsOf, ServerInv
  <2>2. CASE s = l
    <3>1. Held(s)' = Held(s) \ {c} /\ c \in Held(s)
        BY <1>3, <2>2, Zenon DEF Held, Serving
    <3>2. IsFiniteSet(Held(s)') /\ Cardinality(Held(s)') = Cardinality(Held(s)) - 1
        BY <3>1, FS_RemoveElement DEF SlotsOf, ServerInv
    <3>3. Cardinality(Held(s)) \in Nat /\ slots[s] \in Nat
        BY FS_CardinalityType, Zenon DEF SlotsOf, ServerInv
    <3> QED BY <1>2, <2>2, <3>2, <3>3 DEF SlotsOf, ServerInv
  <2> QED BY <2>1, <2>2, Zenon
<1> QED BY <1>2, <1>4, <1>5, Zenon DEF ServerInv

\* A handler that goes on keeps its slot.
LEMMA GoesOnKeeps ==
    ASSUME ServerInv, NEW c \in Connections, Serving(c), NEW t \in HandlerThreads,
           thread' = [thread EXCEPT ![c] = t], Serving(c)', ThreadSound(c)', slots' = slots,
           lock' \in Connections \cup {Nobody}
    PROVE  ServerInv'
<1>1. thread' \in [Connections -> HandlerThreads]
    BY Zenon DEF ServerInv
<1>2. \A d \in Connections : d # c => thread'[d] = thread[d]
    BY Zenon DEF ServerInv
<1>3. \A d \in Connections : ThreadSound(d)'
    BY <1>2, Zenon DEF ThreadSound, Serving, ServerInv, Http
<1>4. \A s \in Servers : Held(s)' = Held(s)
    BY <1>2, Zenon DEF Held, Serving
<1> QED BY <1>1, <1>3, <1>4, Zenon DEF ServerInv, SlotsOf

\* A mail thread that blocks again keeps the invariant of the server.
LEMMA BlocksKeeps ==
    ASSUME ServerInv, NEW c \in Connections, thread[c].stage \in MailStages,
           NEW at \in MailStages, NEW secured \in BOOLEAN, NEW commands \in 0 .. (MaxCommands - 1),
           Blocks(c, at, secured, commands), UNCHANGED lock
    PROVE  ServerInv'
<1> USE CaptureServerAssumption
<1>1. Serving(c) /\ ~Http(c) /\ thread[c] \in HandlerThreads /\ lock' \in Connections \cup {Nobody}
    BY Zenon DEF ServerInv, ThreadSound, Serving, MailStages, HttpStages
<1>2. CASE thread[c].age >= MailSeconds
    BY <1>1, <1>2, EndsKeeps, Zenon DEF Blocks
<1>3. CASE ~(thread[c].age >= MailSeconds)
  <2> DEFINE t == [stage |-> at, age |-> thread[c].age, wait |-> 0,
                   limit |-> Lesser(OpSeconds, MailSeconds - thread[c].age),
                   secured |-> secured, commands |-> commands]
  <2>1. thread' = [thread EXCEPT ![c] = t] /\ slots' = slots
      BY <1>3, Zenon DEF Blocks
  <2>2. thread[c].age \in Nat
      BY <1>1, Zenon DEF HandlerThreads
  <2>3. /\ Lesser(OpSeconds, MailSeconds - thread[c].age) \in Nat
        /\ thread[c].age + Lesser(OpSeconds, MailSeconds - thread[c].age) <= MailSeconds
      BY <1>3, <2>2 DEF Lesser
  <2>4. t \in HandlerThreads
      BY <2>2, <2>3, Zenon DEF HandlerThreads
  <2>5. thread'[c] = t
      BY <2>1, Zenon DEF ServerInv
  <2>6. Serving(c)' /\ ThreadSound(c)'
      BY <1>1, <2>2, <2>3, <2>5 DEF Serving, ThreadSound, MailStages, Http
  <2> HIDE DEF t
  <2> QED BY <1>1, <2>1, <2>4, <2>6, GoesOnKeeps, Zenon
<1> QED BY <1>2, <1>3, Zenon

\* An HTTP thread that moves on keeps the invariant of the server.
LEMMA MovesKeeps ==
    ASSUME ServerInv, NEW c \in Connections, thread[c].stage \in HttpStages,
           NEW at \in HttpStages, NEW limit \in Nat,
           Moves(c, at, limit), UNCHANGED slots, lock' \in Connections \cup {Nobody}
    PROVE  ServerInv'
<1> DEFINE t == [thread[c] EXCEPT !.stage = at, !.wait = 0, !.limit = limit]
<1>1. Serving(c) /\ Http(c) /\ thread[c] \in HandlerThreads
    BY Zenon DEF ServerInv, ThreadSound, Serving, MailStages, HttpStages
<1>2. thread' = [thread EXCEPT ![c] = t]
    BY Zenon DEF Moves, ServerInv
<1>3. t \in HandlerThreads /\ t.stage = at
    BY <1>1, Zenon DEF HandlerThreads
<1>4. thread'[c] = t
    BY <1>2, Zenon DEF ServerInv
<1> HIDE DEF t
<1>5. Serving(c)' /\ ThreadSound(c)'
    BY <1>1, <1>3, <1>4, Zenon DEF Serving, ThreadSound, HttpStages, Http
<1> QED BY <1>1, <1>2, <1>3, <1>5, GoesOnKeeps, Zenon

\* A connection that takes a slot keeps the invariant of the server.
LEMMA TakesSlotKeeps ==
    ASSUME ServerInv, NEW c \in Connections, NEW at, NEW limit \in Nat, TakesSlot(c, at, limit),
           at \in (IF Http(c) THEN HttpStages ELSE MailStages), ~Http(c) => limit <= MailSeconds
    PROVE  ServerInv'
<1> USE CaptureServerAssumption
<1> DEFINE l == ServerOf[c]
           t == [NoThread EXCEPT !.stage = at, !.limit = limit]
<1>1. ~Serving(c) /\ slots[l] > 0 /\ lock' = lock /\ l \in Servers
    BY Zenon DEF TakesSlot
<1>2. CASE UNCHANGED <<slots, thread>>
    BY <1>1, <1>2, Zenon DEF ServerInv, ThreadSound, SlotsOf, Held, Serving, Http
<1>3. CASE slots' = [slots EXCEPT ![l] = slots[l] - 1] /\ thread' = [thread EXCEPT ![c] = t]
  <2>1. /\ t.stage = at /\ t.age = 0 /\ t.wait = 0 /\ t.limit = limit /\ t \in HandlerThreads
        /\ at # "none"
    <3>1. at \in HttpStages \cup MailStages
        BY Zenon
    <3>2. 0 \in 0 .. (MaxCommands - 1) /\ at # "none"
        BY <3>1 DEF HttpStages, MailStages
    <3>3. NoThread \in HandlerThreads
        BY <3>2, Zenon DEF NoThread, HandlerThreads
    <3>4. t \in HandlerThreads
        BY <3>1, <3>3, Zenon DEF HandlerThreads
    <3>5. t.stage = at /\ t.limit = limit
        BY <3>3, Zenon DEF HandlerThreads
    <3>6. t.age = 0 /\ t.wait = 0
        BY Zenon DEF NoThread
    <3> QED BY <3>2, <3>4, <3>5, <3>6, Zenon
  <2>2. /\ thread' \in [Connections -> HandlerThreads] /\ thread'[c] = t
        /\ \A d \in Connections : d # c => thread'[d] = thread[d]
      BY <1>3, <2>1, Zenon DEF ServerInv
  <2> HIDE DEF t
  <2>3. \A d \in Connections : ThreadSound(d)'
    <3>1. ThreadSound(c)'
        BY <2>1, <2>2 DEF ThreadSound, Serving, Http
    <3> QED BY <2>2, <3>1, Zenon DEF ThreadSound, Serving, ServerInv, Http
  <2>4. slots' \in [Servers -> Nat]
      BY <1>1, <1>3 DEF ServerInv
  <2>5. ASSUME NEW s \in Servers PROVE SlotsOf(s)'
    <3>1. CASE s # l
      <4>1. Held(s)' = Held(s)
          BY <2>2, <3>1, Zenon DEF Held, Serving
      <4> QED BY <1>3, <3>1, <4>1, Zenon DEF SlotsOf, ServerInv
    <3>2. CASE s = l
      <4>1. Held(s)' = Held(s) \cup {c} /\ c \notin Held(s)
          BY <1>1, <2>1, <2>2, <3>2, Zenon DEF Held, Serving
      <4>2. IsFiniteSet(Held(s)') /\ Cardinality(Held(s)') = Cardinality(Held(s)) + 1
          BY <4>1, FS_AddElement DEF SlotsOf, ServerInv
      <4>3. Cardinality(Held(s)) \in Nat /\ slots[s] \in Nat
          BY FS_CardinalityType, Zenon DEF SlotsOf, ServerInv
      <4> QED BY <1>1, <1>3, <3>2, <4>2, <4>3 DEF SlotsOf, ServerInv
    <3> QED BY <3>1, <3>2, Zenon
  <2> QED BY <1>1, <2>2, <2>3, <2>4, <2>5, Zenon DEF ServerInv
<1> QED BY <1>2, <1>3, Zenon DEF TakesSlot

\* Every step keeps the invariant of the server.
LEMMA ServerStep == ServerInv /\ [ServerNext]_serverVars => ServerInv'
<1> SUFFICES ASSUME ServerInv, [ServerNext]_serverVars PROVE ServerInv'
    BY Zenon
<1> USE CaptureServerAssumption
<1>0. lock \in Connections \cup {Nobody}
    BY Zenon DEF ServerInv
<1>1. CASE UNCHANGED serverVars
    BY <1>1, Zenon DEF serverVars, ServerInv, ThreadSound, SlotsOf, Held, Serving, Http
<1>2. ASSUME NEW c \in Connections, AcceptConnection(c) \/ AcceptMail(c) PROVE ServerInv'
  <2>1. Lesser(OpSeconds, MailSeconds) \in Nat /\ Lesser(OpSeconds, MailSeconds) <= MailSeconds
      BY DEF Lesser
  <2>2. CASE AcceptConnection(c)
      BY <2>2, TakesSlotKeeps, Zenon DEF AcceptConnection, HttpStages
  <2>3. CASE AcceptMail(c)
    <3>1. (IF ServerOf[c] = "smtp" THEN "greet" ELSE "tls") \in MailStages
        BY Zenon DEF MailStages
    <3> QED BY <2>1, <2>3, <3>1, TakesSlotKeeps, Zenon DEF AcceptMail
  <2> QED BY <1>2, <2>2, <2>3, Zenon
<1>3. ASSUME NEW c \in Connections,
             Handshake(c) \/ Request(c) \/ TakeLock(c) \/ FinishWork(c)
      PROVE  ServerInv'
  <2>1. 2 * CcfSeconds \in Nat
      OBVIOUS
  <2>2. CASE Handshake(c)
      BY <1>0, <2>2, MovesKeeps, Zenon DEF Handshake, HttpStages
  <2>3. CASE Request(c)
      BY <1>0, <2>3, MovesKeeps, Zenon DEF Request, HttpStages
  <2>4. CASE TakeLock(c)
      BY <1>0, <2>1, <2>4, MovesKeeps, Zenon DEF TakeLock, HttpStages
  <2>5. CASE FinishWork(c)
      BY <1>0, <2>5, MovesKeeps, Zenon DEF FinishWork, HttpStages
  <2> QED BY <1>3, <2>2, <2>3, <2>4, <2>5, Zenon
<1>4. ASSUME NEW c \in Connections,
             HandshakeFails(c) \/ Reply(c) \/ TransportEnds(c) \/ SessionEnds(c)
      PROVE  ServerInv'
  <2>1. Serving(c) /\ Ends(c) /\ lock' = lock
      BY <1>4, Zenon DEF HandshakeFails, Reply, TransportEnds, SessionEnds, Serving, MailStages
  <2> QED BY <1>0, <2>1, EndsKeeps, Zenon
<1>5. ASSUME NEW c \in Connections, thread[c].stage \in MailStages
      PROVE  /\ Serving(c) /\ thread[c].secured \in BOOLEAN
             /\ thread[c].commands \in 0 .. (MaxCommands - 1)
    BY <1>5, Zenon DEF ServerInv, HandlerThreads, Serving, MailStages
<1>6. ASSUME NEW c \in Connections, StartTls(c) PROVE ServerInv'
  <2>1. (IF thread[c].commands = 0 THEN "greet" ELSE "receive") \in MailStages /\ thread[c].stage \in MailStages
      BY <1>6, Zenon DEF MailStages, StartTls
  <2> QED BY <1>5, <1>6, <2>1, BlocksKeeps, Zenon DEF StartTls
<1>7. ASSUME NEW c \in Connections, Receives(c) PROVE ServerInv'
  <2>1. thread[c].stage \in MailStages /\ "receive" \in MailStages
      BY <1>7, Zenon DEF MailStages, Receives
  <2> QED BY <1>5, <1>7, <2>1, BlocksKeeps, Zenon DEF Receives
<1>8. ASSUME NEW c \in Connections, Command(c) PROVE ServerInv'
  <2>1. thread[c].stage \in MailStages /\ {"receive", "tls"} \subseteq MailStages
      BY <1>8, Zenon DEF MailStages, Command
  <2>2. CASE thread[c].commands + 1 = MaxCommands
      BY <1>0, <1>5, <1>8, <2>1, <2>2, EndsKeeps, Zenon DEF Command
  <2>3. CASE thread[c].commands + 1 # MaxCommands
    <3>1. thread[c].commands + 1 \in 0 .. (MaxCommands - 1)
        BY <1>5, <2>1, <2>3
    <3>2. CASE Blocks(c, "receive", thread[c].secured, thread[c].commands + 1)
        BY <1>5, <1>8, <2>1, <3>1, <3>2, BlocksKeeps, Zenon DEF Command
    <3>3. CASE Blocks(c, "tls", FALSE, thread[c].commands + 1)
        BY <1>5, <1>8, <2>1, <3>1, <3>3, BlocksKeeps, Zenon DEF Command
    <3> QED BY <1>8, <2>3, <3>2, <3>3, Zenon DEF Command
  <2> QED BY <2>2, <2>3, Zenon
<1>9. CASE ServerTick
  <2> DEFINE Aged(c) == [thread[c] EXCEPT
                            !.age = IF Http(c) THEN Lesser(@ + 1, HttpSeconds) ELSE @ + 1,
                            !.wait = IF thread[c].stage = "lock" THEN @ ELSE @ + 1]
  <2>1. /\ thread' = [c \in Connections |-> IF ~Serving(c) THEN thread[c] ELSE Aged(c)]
        /\ UNCHANGED <<slots, lock>>
        /\ \A c \in Connections : MayWait(c)
      BY <1>9, Zenon DEF ServerTick
  <2>2. ASSUME NEW c \in Connections
        PROVE  /\ Aged(c) \in HandlerThreads /\ Aged(c).stage = thread[c].stage
               /\ Aged(c).limit = thread[c].limit
               /\ ~Http(c) => Aged(c).age = thread[c].age + 1
               /\ thread[c].stage # "lock" => Aged(c).wait = thread[c].wait + 1
    <3>1. thread[c] \in HandlerThreads
        BY Zenon DEF ServerInv
    <3>2. Lesser(thread[c].age + 1, HttpSeconds) \in Nat
        BY <3>1 DEF HandlerThreads, Lesser
    <3> DEFINE age == IF Http(c) THEN Lesser(thread[c].age + 1, HttpSeconds) ELSE thread[c].age + 1
               wait == IF thread[c].stage = "lock" THEN thread[c].wait ELSE thread[c].wait + 1
    <3>3. age \in Nat /\ wait \in Nat
        BY <3>1, <3>2 DEF HandlerThreads
    <3>4. Aged(c) = [thread[c] EXCEPT !.age = age, !.wait = wait]
        BY <3>1, Zenon DEF HandlerThreads
    <3>5. /\ ~Http(c) => age = thread[c].age + 1
          /\ thread[c].stage # "lock" => wait = thread[c].wait + 1
        BY Zenon
    <3> HIDE DEF Aged, age, wait
    <3>6. Aged(c) \in HandlerThreads
        BY <3>1, <3>3, <3>4, ZenonT(40) DEF HandlerThreads
    <3>7. /\ Aged(c).stage = thread[c].stage /\ Aged(c).limit = thread[c].limit
          /\ Aged(c).age = age /\ Aged(c).wait = wait
        BY <3>1, <3>4, Zenon DEF HandlerThreads
    <3> QED BY <3>5, <3>6, <3>7, Zenon
  <2> HIDE DEF Aged
  <2>3. thread' \in [Connections -> HandlerThreads]
      BY <2>1, <2>2, Zenon DEF ServerInv
  <2>4. \A c \in Connections : Serving(c)' <=> Serving(c)
      BY <2>1, <2>2, Zenon DEF Serving
  <2>5. ASSUME NEW c \in Connections PROVE ThreadSound(c)'
    <3>1. CASE ~Serving(c)
        BY <2>1, <3>1, Zenon DEF ThreadSound, Serving
    <3>2. CASE Serving(c) /\ Http(c)
        BY <2>1, <2>2, <3>2, Zenon DEF ThreadSound, Serving, Http, ServerInv
    <3>3. CASE Serving(c) /\ ~Http(c)
      <4>1. thread'[c] = Aged(c) /\ ThreadSound(c) /\ thread[c] \in HandlerThreads /\ MayWait(c)
          BY <2>1, <3>3, Zenon DEF ServerInv
      <4>2. thread[c].stage \in MailStages
          BY <3>3, <4>1, Zenon DEF ThreadSound
      <4>3. thread[c].wait < thread[c].limit
          BY <4>1, <4>2, Zenon DEF MayWait, MailStages
      <4>4. thread[c].stage # "lock"
          BY <4>2, Zenon DEF MailStages
      <4>5. thread[c].wait \in Nat /\ thread[c].limit \in Nat /\ thread[c].age \in Nat
          BY <4>1, Zenon DEF HandlerThreads
      <4> QED BY <2>2, <3>3, <4>1, <4>2, <4>3, <4>4, <4>5, SMTT(30) DEF ThreadSound, Http
    <3> QED BY <3>1, <3>2, <3>3, Zenon
  <2>6. \A s \in Servers : Held(s)' = Held(s)
      BY <2>4, Zenon DEF Held
  <2> QED BY <2>1, <2>3, <2>5, <2>6, Zenon DEF ServerInv, SlotsOf
<1> QED BY <1>1, <1>2, <1>3, <1>4, <1>6, <1>7, <1>8, <1>9, Zenon DEF ServerNext

\* The slots of the server are accounted for in every reachable state.
LEMMA SlotsCorrect == ServerSpec => []SlotsSound
<1> USE CaptureServerAssumption
<1>1. ServerInit => ServerInv
  <2> SUFFICES ASSUME ServerInit PROVE ServerInv
      BY Zenon
  <2>1. NoThread \in HandlerThreads /\ NoThread.stage = "none"
      BY DEF NoThread, HandlerThreads
  <2>2. \A c \in Connections : ~Serving(c)
      BY <2>1, Zenon DEF ServerInit, Serving
  <2>3. \A s \in Servers : Held(s) = {}
      BY <2>2, Zenon DEF Held
  <2>4. \A s \in Servers : SlotsOf(s)
    <3>1. \A s \in Servers : slots[s] = MaxSlots
        BY Zenon DEF ServerInit
    <3>2. IsFiniteSet({}) /\ Cardinality({}) = 0 /\ MaxSlots + 0 = MaxSlots
        BY FS_EmptySet
    <3> QED BY <2>3, <3>1, <3>2, Zenon DEF SlotsOf
  <2> QED BY <2>1, <2>2, <2>4, Zenon DEF ServerInit, ServerInv, ThreadSound
<1>2. ServerInv => SlotsSound
  <2> SUFFICES ASSUME ServerInv PROVE SlotsSound
      BY Zenon
  <2>1. HandlerThreads \subseteq [stage : {"none"} \cup HttpStages \cup MailStages, age : Nat, wait : Nat,
                                  limit : Nat, secured : BOOLEAN, commands : 0 .. MaxCommands]
      BY DEF HandlerThreads
  <2>2. ServerTypeOK
      BY <2>1, Zenon DEF ServerInv, ServerTypeOK
  <2>3. SlotsExact
      BY Zenon DEF ServerInv, SlotsOf, Held, SlotsExact
  <2>4. SessionBounded
    <3> SUFFICES ASSUME NEW c \in Connections, Serving(c), ~Http(c)
                 PROVE  thread[c].age <= MailSeconds
        BY Zenon DEF SessionBounded
    <3>1. thread[c].wait \in Nat /\ thread[c].limit \in Nat /\ thread[c].age \in Nat
        BY Zenon DEF ServerInv, HandlerThreads
    <3>2. /\ thread[c].wait <= thread[c].limit
          /\ thread[c].age + thread[c].limit <= MailSeconds + thread[c].wait
        BY Zenon DEF ServerInv, ThreadSound
    <3> QED BY <3>1, <3>2
  <2> QED BY <2>2, <2>3, <2>4, Zenon DEF SlotsSound
<1> QED BY <1>1, <1>2, ServerStep, PTL DEF ServerSpec

-----------------------------------------------------------------------------
(* CaptureSigner: what the worker forgets, it no longer needs.             *)

WorkerTypes(w) ==
    /\ w = [prepared |-> w.prepared, request_ids |-> w.request_ids, signed |-> w.signed,
            challenges |-> w.challenges, registration_id |-> w.registration_id, result |-> w.result]
    /\ Partial(w.prepared, Lifecycle, 0 .. Retention)
    /\ \A q \in DOMAIN w.request_ids : w.request_ids[q].rid = q
    /\ w.signed \subseteq Actions
    /\ Partial(w.challenges, RequestIds, 0 .. Window + Lifetime)
    /\ w.registration_id \in BOOLEAN /\ w.result \in BOOLEAN

OutsideTypes ==
    /\ holder \in Holders
    /\ envelopes \subseteq [act : Actions, left : 1 .. Window]
    /\ ledger \subseteq {FixedId} \cup RequestIds
    /\ Partial(live, RequestIds, 1 .. Lifetime)

\* What the worker w still knows of an envelope that can be accepted: that its
\* action is signed and, if the action is still or again prepared, for longer than
\* the nonce lives; and the challenge it may yet create, for that long and the
\* challenge's lifetime.
Remembers(w, e) ==
    /\ e.act \in w.signed
    /\ e.act \in DOMAIN w.prepared => w.prepared[e.act] >= e.left
    /\ e.act.op = "create" => /\ e.act.rid \in DOMAIN w.challenges
                              /\ w.challenges[e.act.rid] >= e.left + Lifetime

\* The worker w owns the challenge for at least as long as it is served.
Owns(w, c) == c \in DOMAIN w.challenges /\ w.challenges[c] >= live[c]

KeepsUp(w) ==
    /\ \A e \in envelopes : Remembers(w, e)
    /\ \A c \in DOMAIN live : Owns(w, c)

\* Between the two halves of signing a new challenge nobody else signs it.
HolderSound ==
    holder.stage = "sign" => holder.act \notin worker.signed /\ holder.act.op = "create"

SignerInv ==
    /\ WorkerTypes(worker) /\ OutsideTypes
    /\ KeepsUp(worker) /\ HolderSound
    /\ OneLiveEnvelope

\* The registration is no lifecycle action, and request IDs keep them apart.
LEMMA ActionFacts ==
    /\ Registration \in Actions /\ Registration \notin Lifecycle /\ Registration.op = "register"
    /\ \A a \in Lifecycle : a \in Actions /\ a.rid \in RequestIds
    /\ \A a \in Actions : a.rid \in {FixedId} \cup RequestIds
    /\ \A a \in Actions : a.op = "create" => a \in Lifecycle /\ a.rid \in RequestIds
<1>1. Registration.rid = FixedId /\ Registration.op = "register"
    BY Zenon DEF Registration
<1>2. \A a \in Lifecycle : a.rid \in RequestIds
    BY DEF Lifecycle, Plain, Create, Delete
<1> QED BY <1>1, <1>2, CaptureSignerAssumption, Zenon DEF Actions

\* _prune_lifecycle drops what has run out, and nothing else.
LEMMA PrunedFields ==
    ASSUME NEW w, WorkerTypes(w)
    PROVE  /\ WorkerTypes(Pruned(w))
           /\ DOMAIN Pruned(w).prepared = {a \in DOMAIN w.prepared : w.prepared[a] > 0}
           /\ \A a \in DOMAIN Pruned(w).prepared : Pruned(w).prepared[a] = w.prepared[a]
           /\ Pruned(w).signed \subseteq w.signed
           /\ \A a \in w.signed \ Pruned(w).signed : a \in DOMAIN w.prepared /\ ~(w.prepared[a] > 0)
           /\ DOMAIN Pruned(w).challenges = {c \in DOMAIN w.challenges : w.challenges[c] > 0}
           /\ \A c \in DOMAIN Pruned(w).challenges : Pruned(w).challenges[c] = w.challenges[c]
<1> DEFINE kept == {a \in DOMAIN w.prepared : w.prepared[a] > 0}
           gone == DOMAIN w.prepared \ kept
           owned == {c \in DOMAIN w.challenges : w.challenges[c] > 0}
           ids == DOMAIN w.request_ids \ {a.rid : a \in gone}
<1>1. Pruned(w) = [prepared |-> Restrict(w.prepared, kept), request_ids |-> Restrict(w.request_ids, ids),
                   signed |-> w.signed \ gone, challenges |-> Restrict(w.challenges, owned),
                   registration_id |-> w.registration_id, result |-> w.result]
  <2> DEFINE a == Restrict(w.prepared, kept)
             b == Restrict(w.request_ids, ids)
             c == w.signed \ gone
             d == Restrict(w.challenges, owned)
  <2>1. Pruned(w) = [w EXCEPT !.prepared = a, !.request_ids = b, !.signed = c, !.challenges = d]
      BY Zenon DEF Pruned
  <2> HIDE DEF a, b, c, d
  <2>2. w = [prepared |-> w.prepared, request_ids |-> w.request_ids, signed |-> w.signed,
             challenges |-> w.challenges, registration_id |-> w.registration_id, result |-> w.result]
      BY Zenon DEF WorkerTypes
  <2>3. Pruned(w) = [prepared |-> a, request_ids |-> b, signed |-> c, challenges |-> d,
                     registration_id |-> w.registration_id, result |-> w.result]
      BY <2>1, <2>2, Zenon
  <2> QED BY <2>3, Zenon DEF a, b, c, d
<1> DEFINE p == Pruned(w)
<1>2. /\ p.prepared = Restrict(w.prepared, kept) /\ p.request_ids = Restrict(w.request_ids, ids)
      /\ p.signed = w.signed \ gone /\ p.challenges = Restrict(w.challenges, owned)
      /\ p.registration_id = w.registration_id /\ p.result = w.result
      /\ p = [prepared |-> p.prepared, request_ids |-> p.request_ids, signed |-> p.signed,
              challenges |-> p.challenges, registration_id |-> p.registration_id, result |-> p.result]
    BY <1>1
<1> HIDE DEF p
<1>3. /\ DOMAIN p.prepared = kept /\ \A a \in kept : p.prepared[a] = w.prepared[a]
      /\ DOMAIN p.request_ids = ids /\ \A q \in ids : p.request_ids[q] = w.request_ids[q]
      /\ DOMAIN p.challenges = owned /\ \A c \in owned : p.challenges[c] = w.challenges[c]
    BY <1>2, Zenon DEF Restrict
<1>4. Partial(p.prepared, Lifecycle, 0 .. Retention) /\ Partial(p.challenges, RequestIds, 0 .. Window + Lifetime)
    BY <1>3, Zenon DEF Partial, WorkerTypes
<1>5. \A q \in DOMAIN p.request_ids : p.request_ids[q].rid = q
    BY <1>3, Zenon DEF WorkerTypes
<1>6. WorkerTypes(p)
    BY <1>2, <1>4, <1>5, Zenon DEF WorkerTypes
<1> QED BY <1>2, <1>3, <1>6, Zenon DEF p

\* None of it is about an envelope that can be accepted or a challenge that is
\* served.
LEMMA PrunedKeepsUp ==
    ASSUME NEW w, WorkerTypes(w), OutsideTypes, KeepsUp(w)
    PROVE  KeepsUp(Pruned(w))
<1> USE CaptureSignerAssumption
<1>1. ASSUME NEW e \in envelopes PROVE Remembers(Pruned(w), e)
  <2>1. e.left \in Nat /\ e.left > 0 /\ e.act \in Actions
      BY DEF OutsideTypes
  <2>2. Remembers(w, e)
      BY Zenon DEF KeepsUp
  <2>3. e.act \in DOMAIN w.prepared => w.prepared[e.act] \in Nat /\ w.prepared[e.act] > 0
      BY <2>1, <2>2 DEF Remembers, WorkerTypes, Partial
  <2>4. e.act.op = "create" => /\ w.challenges[e.act.rid] \in Nat /\ w.challenges[e.act.rid] > 0
      BY <2>1, <2>2 DEF Remembers, WorkerTypes, Partial
  <2> QED BY <2>2, <2>3, <2>4, PrunedFields DEF Remembers
<1>2. ASSUME NEW c \in DOMAIN live PROVE Owns(Pruned(w), c)
  <2>1. live[c] \in Nat /\ live[c] > 0
      BY DEF OutsideTypes, Partial
  <2>2. c \in DOMAIN w.challenges /\ w.challenges[c] >= live[c] /\ w.challenges[c] \in Nat
      BY DEF KeepsUp, Owns, WorkerTypes, Partial
  <2> QED BY <2>1, <2>2, PrunedFields DEF Owns
<1> QED BY <1>1, <1>2, Zenon DEF KeepsUp

\* An action gets a full window, unless its signature is kept as it is.
LEMMA PreparedFields ==
    ASSUME NEW w, WorkerTypes(w), NEW a \in Lifecycle
    PROVE  /\ WorkerTypes(Prepared(w, a))
           /\ Prepared(w, a).signed = w.signed
           /\ Prepared(w, a).challenges = w.challenges
           /\ \A b \in DOMAIN Prepared(w, a).prepared :
                 \/ b \in DOMAIN w.prepared /\ Prepared(w, a).prepared[b] = w.prepared[b]
                 \/ Prepared(w, a).prepared[b] = Retention
<1> USE CaptureSignerAssumption
<1>1. CASE a \in DOMAIN w.prepared \cap w.signed
    BY <1>1, Zenon DEF Prepared
<1>2. CASE a \notin DOMAIN w.prepared \cap w.signed
  <2> DEFINE p == Prepared(w, a)
  <2>1. p = [prepared |-> With(w.prepared, a, Retention), request_ids |-> With(w.request_ids, a.rid, a),
             signed |-> w.signed, challenges |-> w.challenges,
             registration_id |-> w.registration_id, result |-> w.result]
      BY <1>2, Zenon DEF Prepared, WorkerTypes
  <2>2. /\ p.prepared = With(w.prepared, a, Retention) /\ p.request_ids = With(w.request_ids, a.rid, a)
        /\ p.signed = w.signed /\ p.challenges = w.challenges
        /\ p.registration_id = w.registration_id /\ p.result = w.result
        /\ p = [prepared |-> p.prepared, request_ids |-> p.request_ids, signed |-> p.signed,
                challenges |-> p.challenges, registration_id |-> p.registration_id, result |-> p.result]
      BY <2>1
  <2> HIDE DEF p
  <2>3. /\ DOMAIN p.prepared = DOMAIN w.prepared \cup {a}
        /\ \A b \in DOMAIN p.prepared : p.prepared[b] = IF b = a THEN Retention ELSE w.prepared[b]
        /\ DOMAIN p.request_ids = DOMAIN w.request_ids \cup {a.rid}
        /\ \A q \in DOMAIN p.request_ids : p.request_ids[q] = IF q = a.rid THEN a ELSE w.request_ids[q]
      BY <2>2, Zenon DEF With
  <2>4. Partial(p.prepared, Lifecycle, 0 .. Retention)
      BY <2>3 DEF Partial, WorkerTypes
  <2>5. \A q \in DOMAIN p.request_ids : p.request_ids[q].rid = q
      BY <2>3, Zenon DEF WorkerTypes
  <2>6. WorkerTypes(p)
      BY <2>2, <2>4, <2>5, Zenon DEF WorkerTypes
  <2> QED BY <2>2, <2>3, <2>6, Zenon DEF p
<1> QED BY <1>1, <1>2, Zenon

\* A recorded signature is kept for the retention from now.
LEMMA RecordedFields ==
    ASSUME NEW w, WorkerTypes(w), NEW a \in Actions
    PROVE  /\ WorkerTypes(Recorded(w, a))
           /\ Recorded(w, a).signed = w.signed \cup {a}
           /\ Recorded(w, a).challenges = w.challenges
           /\ DOMAIN Recorded(w, a).prepared = DOMAIN w.prepared
           /\ \A b \in DOMAIN w.prepared :
                 Recorded(w, a).prepared[b] = IF b = a THEN Retention ELSE w.prepared[b]
<1> USE CaptureSignerAssumption
<1> DEFINE p == Recorded(w, a)
           prep == IF a \in DOMAIN w.prepared THEN [w.prepared EXCEPT ![a] = Retention] ELSE w.prepared
<1>1. p = [prepared |-> prep, request_ids |-> w.request_ids,
           signed |-> w.signed \cup {a}, challenges |-> w.challenges,
           registration_id |-> w.registration_id, result |-> w.result]
  <2> DEFINE c == w.signed \cup {a}
  <2>1. Recorded(w, a) = [w EXCEPT !.signed = c, !.prepared = prep]
      BY Zenon DEF Recorded
  <2> HIDE DEF c, prep
  <2>2. w = [prepared |-> w.prepared, request_ids |-> w.request_ids, signed |-> w.signed,
             challenges |-> w.challenges, registration_id |-> w.registration_id, result |-> w.result]
      BY Zenon DEF WorkerTypes
  <2> QED BY <2>1, <2>2, Zenon DEF c
<1>2. /\ p.prepared = prep /\ p.request_ids = w.request_ids
      /\ p.signed = w.signed \cup {a} /\ p.challenges = w.challenges
      /\ p.registration_id = w.registration_id /\ p.result = w.result
      /\ p = [prepared |-> p.prepared, request_ids |-> p.request_ids, signed |-> p.signed,
              challenges |-> p.challenges, registration_id |-> p.registration_id, result |-> p.result]
    BY <1>1
<1>3. /\ DOMAIN prep = DOMAIN w.prepared
      /\ \A b \in DOMAIN w.prepared : prep[b] = IF b = a THEN Retention ELSE w.prepared[b]
    BY Zenon
<1> HIDE DEF p, prep
<1>4. Partial(p.prepared, Lifecycle, 0 .. Retention)
    BY <1>2, <1>3 DEF Partial, WorkerTypes
<1>5. WorkerTypes(p)
    BY <1>2, <1>4, Zenon DEF WorkerTypes
<1> QED BY <1>2, <1>3, <1>5, Zenon DEF p

\* Owning a challenge adds it to the challenges and leaves the rest of the worker's state alone.
LEMMA OwnedFields ==
    ASSUME NEW w, WorkerTypes(w), NEW c \in RequestIds
    PROVE  /\ WorkerTypes(Owned(w, c))
           /\ Owned(w, c).signed = w.signed /\ Owned(w, c).prepared = w.prepared
           /\ DOMAIN Owned(w, c).challenges = DOMAIN w.challenges \cup {c}
           /\ \A d \in DOMAIN Owned(w, c).challenges :
                 Owned(w, c).challenges[d] = IF d = c THEN Window + Lifetime ELSE w.challenges[d]
<1> USE CaptureSignerAssumption
<1> DEFINE p == Owned(w, c)
<1>1. p = [prepared |-> w.prepared, request_ids |-> w.request_ids, signed |-> w.signed,
           challenges |-> With(w.challenges, c, Window + Lifetime),
           registration_id |-> w.registration_id, result |-> w.result]
    BY DEF Owned, WorkerTypes
<1>2. /\ p.prepared = w.prepared /\ p.request_ids = w.request_ids
      /\ p.signed = w.signed /\ p.challenges = With(w.challenges, c, Window + Lifetime)
      /\ p.registration_id = w.registration_id /\ p.result = w.result
      /\ p = [prepared |-> p.prepared, request_ids |-> p.request_ids, signed |-> p.signed,
              challenges |-> p.challenges, registration_id |-> p.registration_id, result |-> p.result]
    BY <1>1
<1> HIDE DEF p
<1>3. /\ DOMAIN p.challenges = DOMAIN w.challenges \cup {c}
      /\ \A d \in DOMAIN p.challenges : p.challenges[d] = IF d = c THEN Window + Lifetime ELSE w.challenges[d]
    BY <1>2, Zenon DEF With
<1>4. Partial(p.challenges, RequestIds, 0 .. Window + Lifetime)
    BY <1>3 DEF Partial, WorkerTypes
<1>5. WorkerTypes(p)
    BY <1>2, <1>4, Zenon DEF WorkerTypes
<1> QED BY <1>2, <1>3, <1>5, Zenon DEF p

\* A new envelope: the action was not signed before, so there is no other, and
\* what the worker remembers from now outlives the nonce.
LEMMA HandedKeeps ==
    ASSUME OutsideTypes, OneLiveEnvelope, NEW w, WorkerTypes(w), KeepsUp(w),
           NEW a \in Actions, a \notin w.signed, NEW left \in 0 .. Window,
           envelopes' = Handed(a, left), holder' \in Holders, UNCHANGED <<ledger, live>>,
           WorkerTypes(worker'), worker'.signed = w.signed \cup {a},
           DOMAIN worker'.prepared = DOMAIN w.prepared,
           \A b \in DOMAIN w.prepared : worker'.prepared[b] = IF b = a THEN Retention ELSE w.prepared[b],
           \A c \in DOMAIN w.challenges : /\ c \in DOMAIN worker'.challenges
                                          /\ worker'.challenges[c] >= w.challenges[c],
           a.op = "create" => /\ a.rid \in DOMAIN worker'.challenges
                              /\ worker'.challenges[a.rid] = Window + Lifetime
    PROVE  OutsideTypes' /\ KeepsUp(worker)' /\ OneLiveEnvelope'
<1> USE CaptureSignerAssumption
<1>1. \A e \in envelopes : e.act # a
    BY Zenon DEF KeepsUp, Remembers
<1>2. \A e \in envelopes' : e \in envelopes \/ (e = [act |-> a, left |-> left] /\ left # 0)
    BY Zenon DEF Handed
<1>3. OutsideTypes'
    BY <1>2 DEF OutsideTypes
<1>4. OneLiveEnvelope'
    BY <1>1, <1>2 DEF OneLiveEnvelope
<1>5. ASSUME NEW e \in envelopes' PROVE Remembers(worker', e)
  <2>1. CASE e \in envelopes
    <3>1. Remembers(w, e) /\ e.act # a /\ e.left \in Nat
        BY <1>1, <2>1 DEF KeepsUp, OutsideTypes
    <3>2. e.act \in DOMAIN worker'.prepared => worker'.prepared[e.act] >= e.left
        BY <3>1, Zenon DEF Remembers
    <3>3. ASSUME e.act.op = "create"
          PROVE  e.act.rid \in DOMAIN worker'.challenges /\ worker'.challenges[e.act.rid] >= e.left + Lifetime
      <4>1. e.act.rid \in DOMAIN w.challenges /\ w.challenges[e.act.rid] >= e.left + Lifetime
          BY <3>1, <3>3, Zenon DEF Remembers
      <4>2. w.challenges[e.act.rid] \in Nat
          BY <4>1 DEF WorkerTypes, Partial
      <4>3. e.act.rid \in DOMAIN worker'.challenges /\ worker'.challenges[e.act.rid] >= w.challenges[e.act.rid]
          BY <4>1, Zenon
      <4>4. worker'.challenges[e.act.rid] \in Nat
          BY <4>3 DEF WorkerTypes, Partial
      <4> QED BY <3>1, <4>1, <4>2, <4>3, <4>4, SMTT(30)
    <3> QED BY <3>1, <3>2, <3>3, Zenon DEF Remembers
  <2>2. CASE e = [act |-> a, left |-> left]
    <3>1. e.act = a /\ e.left = left
        BY <2>2, Zenon
    <3> QED BY <3>1 DEF Remembers
  <2> QED BY <1>2, <2>1, <2>2, Zenon
<1>6. ASSUME NEW c \in DOMAIN live' PROVE Owns(worker, c)'
  <2>1. c \in DOMAIN w.challenges /\ w.challenges[c] >= live[c] /\ live[c] \in Nat
      BY DEF KeepsUp, Owns, OutsideTypes, Partial
  <2>2. w.challenges[c] \in Nat
      BY <2>1 DEF WorkerTypes, Partial
  <2>3. c \in DOMAIN worker'.challenges /\ worker'.challenges[c] >= w.challenges[c]
      BY <2>1, Zenon
  <2>4. worker'.challenges[c] \in Nat
      BY <2>3 DEF WorkerTypes, Partial
  <2> QED BY <2>1, <2>2, <2>3, <2>4 DEF Owns
<1> QED BY <1>3, <1>4, <1>5, <1>6, Zenon DEF KeepsUp, Remembers

\* A step of the worker that hands out no envelope.
LEMMA WorkerAlone ==
    ASSUME SignerInv, WorkerTypes(worker'), holder' \in Holders, UNCHANGED <<envelopes, ledger, live>>,
           KeepsUp(worker'), HolderSound'
    PROVE  SignerInv'
BY Zenon DEF SignerInv, OutsideTypes, KeepsUp, Remembers, Owns, OneLiveEnvelope

\* Signing the registration keeps the invariant of the signer.
LEMMA RegistrationKeeps ==
    ASSUME SignerInv, NEW left \in 1 .. Window, SignRegistration(left), holder' \in Holders,
           holder'.stage # "sign", UNCHANGED <<ledger, live>>
    PROVE  SignerInv'
<1> USE CaptureSignerAssumption
<1>1. CASE Registration \in worker.signed
    BY <1>1, WorkerAlone, Zenon DEF SignRegistration, SignerInv, HolderSound
<1>2. CASE Registration \notin worker.signed
  <2> DEFINE p == Recorded(worker, Registration)
  <2>1. worker' = [p EXCEPT !.registration_id = TRUE] /\ envelopes' = Handed(Registration, left)
      BY <1>2, Zenon DEF SignRegistration
  <2>2. /\ WorkerTypes(p) /\ p.signed = worker.signed \cup {Registration}
        /\ p.challenges = worker.challenges /\ DOMAIN p.prepared = DOMAIN worker.prepared
        /\ \A b \in DOMAIN worker.prepared :
                 p.prepared[b] = IF b = Registration THEN Retention ELSE worker.prepared[b]
      BY RecordedFields, ActionFacts DEF SignerInv
  <2> HIDE DEF p
  <2>3. p = [prepared |-> p.prepared, request_ids |-> p.request_ids, signed |-> p.signed,
             challenges |-> p.challenges, registration_id |-> p.registration_id, result |-> p.result]
      BY <2>2, Zenon DEF WorkerTypes
  <2>4. worker' = [prepared |-> p.prepared, request_ids |-> p.request_ids, signed |-> p.signed,
                   challenges |-> p.challenges, registration_id |-> TRUE, result |-> p.result]
      BY <2>1, <2>3, Zenon
  <2>5. /\ worker'.prepared = p.prepared /\ worker'.request_ids = p.request_ids
        /\ worker'.signed = p.signed /\ worker'.challenges = p.challenges
        /\ worker'.registration_id = TRUE /\ worker'.result = p.result
      BY <2>4, Zenon
  <2>6. WorkerTypes(worker')
      BY <2>2, <2>4, <2>5, Zenon DEF WorkerTypes
  <2>7. \A c \in DOMAIN worker.challenges : worker.challenges[c] \in Nat
      BY DEF SignerInv, WorkerTypes, Partial
  <2>8. \A c \in DOMAIN worker.challenges : /\ c \in DOMAIN worker'.challenges
                                            /\ worker'.challenges[c] >= worker.challenges[c]
      BY <2>2, <2>5, <2>7
  <2>9. OutsideTypes' /\ KeepsUp(worker)' /\ OneLiveEnvelope'
    <3>1. left \in 0 .. Window /\ Registration \in Actions /\ Registration.op # "create"
        BY ActionFacts
    <3>2. /\ worker'.signed = worker.signed \cup {Registration}
          /\ DOMAIN worker'.prepared = DOMAIN worker.prepared
          /\ \A b \in DOMAIN worker.prepared :
                 worker'.prepared[b] = IF b = Registration THEN Retention ELSE worker.prepared[b]
        BY <2>2, <2>5, Zenon
    <3>3. OutsideTypes /\ OneLiveEnvelope /\ WorkerTypes(worker) /\ KeepsUp(worker)
        BY Zenon DEF SignerInv
    <3> QED BY <1>2, <2>1, <2>6, <2>8, <3>1, <3>2, <3>3, HandedKeeps, Zenon
  <2> QED BY <2>6, <2>9, Zenon DEF SignerInv, HolderSound, WorkerTypes, Partial
<1> QED BY <1>1, <1>2, Zenon

\* Signing a prepared action keeps the invariant of the signer.
LEMMA SignLifecycleKeeps ==
    ASSUME SignerInv, NEW a \in DOMAIN worker.prepared, NEW left \in 1 .. Window, SignLifecycle(a, left)
    PROVE  SignerInv'
<1> USE CaptureSignerAssumption
<1> DEFINE w == Pruned(worker)
<1>1. WorkerTypes(w) /\ KeepsUp(w)
    BY PrunedFields, PrunedKeepsUp, Zenon DEF SignerInv
<1>2. /\ holder = Free /\ a \in DOMAIN w.prepared /\ a \notin w.signed /\ UNCHANGED <<ledger, live>>
      /\ a \in Lifecycle /\ a \in Actions
  <2>1. a \in Lifecycle
      BY Zenon DEF SignerInv, WorkerTypes, Partial
  <2> QED BY <2>1, ActionFacts, Zenon DEF SignLifecycle
<1>3. CASE a.op = "create"
  <2>1. /\ worker' = w /\ holder' = [stage |-> "sign", act |-> a, left |-> left] /\ UNCHANGED envelopes
      BY <1>3, Zenon DEF SignLifecycle
  <2>2. holder' \in Holders
      BY <1>2, <2>1 DEF Holders
  <2>3. HolderSound'
      BY <1>2, <1>3, <2>1, Zenon DEF HolderSound
  <2> QED BY <1>1, <1>2, <2>1, <2>2, <2>3, WorkerAlone, Zenon
<1>4. CASE a.op # "create"
  <2> DEFINE p == Recorded(w, a)
  <2>1. worker' = p /\ envelopes' = Handed(a, left) /\ UNCHANGED holder
      BY <1>4, Zenon DEF SignLifecycle
  <2> HIDE DEF w
  <2>2. /\ WorkerTypes(p) /\ p.signed = w.signed \cup {a}
        /\ p.challenges = w.challenges /\ DOMAIN p.prepared = DOMAIN w.prepared
        /\ \A b \in DOMAIN w.prepared : p.prepared[b] = IF b = a THEN Retention ELSE w.prepared[b]
      BY <1>1, <1>2, RecordedFields
  <2> HIDE DEF p
  <2>3. \A c \in DOMAIN w.challenges : w.challenges[c] \in Nat
      BY <1>1 DEF WorkerTypes, Partial
  <2>4. \A c \in DOMAIN w.challenges : c \in DOMAIN p.challenges /\ p.challenges[c] >= w.challenges[c]
      BY <2>2, <2>3, SMTT(30)
  <2>5. OutsideTypes' /\ KeepsUp(worker)' /\ OneLiveEnvelope'
    <3>1. holder' \in Holders /\ left \in 0 .. Window
        BY <2>1, SMTT(30) DEF SignerInv, OutsideTypes
    <3> QED BY <1>1, <1>2, <1>4, <2>1, <2>2, <2>4, <3>1, HandedKeeps, Zenon DEF SignerInv
  <2>6. HolderSound'
      BY <1>2, <2>1, Zenon DEF HolderSound, Free
  <2>7. WorkerTypes(worker)'
      BY <2>1, <2>2, Zenon DEF WorkerTypes, Partial
  <2> QED BY <2>5, <2>6, <2>7, Zenon DEF SignerInv
<1> QED BY <1>3, <1>4, Zenon

\* Signing for a challenge keeps the invariant of the signer.
LEMMA SignChallengeKeeps == ASSUME SignerInv, SignChallenge PROVE SignerInv'
<1> USE CaptureSignerAssumption
<1> DEFINE w == Pruned(worker)
<1>1. /\ WorkerTypes(w) /\ KeepsUp(w) /\ w.signed \subseteq worker.signed
    BY PrunedFields, PrunedKeepsUp, Zenon DEF SignerInv
<1>2. PICK a \in Lifecycle, left \in 0 .. Window : holder = [stage |-> "sign", act |-> a, left |-> left]
  <2>1. holder.stage = "sign" /\ holder \in Holders
      BY Zenon DEF SignChallenge, SignerInv, OutsideTypes
  <2> QED BY <2>1, Zenon DEF Holders
<1>3. /\ a \notin w.signed /\ a.op = "create" /\ a \in Actions /\ a.rid \in RequestIds
      /\ holder' = Free /\ UNCHANGED <<ledger, live>>
    BY <1>1, <1>2, ActionFacts, Zenon DEF SignChallenge, SignerInv, HolderSound
<1>4. holder' \in Holders /\ HolderSound'
    BY <1>3, Zenon DEF Holders, HolderSound, Free
<1>5. CASE worker' = w /\ UNCHANGED envelopes
    BY <1>1, <1>3, <1>4, <1>5, WorkerAlone, Zenon
<1>6. CASE worker' = Recorded(Owned(w, a.rid), a) /\ envelopes' = Handed(a, left)
  <2> DEFINE o == Owned(w, a.rid)
             p == Recorded(o, a)
  <2> HIDE DEF w
  <2>1. /\ WorkerTypes(o) /\ o.signed = w.signed /\ o.prepared = w.prepared
        /\ DOMAIN o.challenges = DOMAIN w.challenges \cup {a.rid}
        /\ \A d \in DOMAIN o.challenges :
              o.challenges[d] = IF d = a.rid THEN Window + Lifetime ELSE w.challenges[d]
      BY <1>1, <1>3, OwnedFields, SMTT(30)
  <2> HIDE DEF o
  <2>2. /\ WorkerTypes(p) /\ p.signed = o.signed \cup {a}
        /\ p.challenges = o.challenges /\ DOMAIN p.prepared = DOMAIN o.prepared
        /\ \A b \in DOMAIN o.prepared : p.prepared[b] = IF b = a THEN Retention ELSE o.prepared[b]
      BY <1>3, <2>1, RecordedFields
  <2>3. worker' = p
      BY <1>6, Zenon DEF o
  <2> HIDE DEF p
  <2>4. \A c \in DOMAIN w.challenges : w.challenges[c] \in 0 .. Window + Lifetime
      BY <1>1, Zenon DEF WorkerTypes, Partial
  <2>5. \A c \in DOMAIN w.challenges : c \in DOMAIN p.challenges /\ p.challenges[c] >= w.challenges[c]
      BY <2>1, <2>2, <2>4
  <2>6. a.rid \in DOMAIN p.challenges /\ p.challenges[a.rid] = Window + Lifetime
      BY <2>1, <2>2, SMTT(30)
  <2>7. OutsideTypes' /\ KeepsUp(worker)' /\ OneLiveEnvelope'
      BY <1>1, <1>3, <1>4, <1>6, <2>1, <2>2, <2>3, <2>5, <2>6, HandedKeeps, SMTT(30) DEF SignerInv
  <2>8. WorkerTypes(worker)'
      BY <2>2, <2>3, Zenon DEF WorkerTypes, Partial
  <2> QED BY <1>4, <2>7, <2>8, Zenon DEF SignerInv
<1>7. \/ worker' = w /\ UNCHANGED envelopes
      \/ worker' = Recorded(Owned(w, a.rid), a) /\ envelopes' = Handed(a, left)
  <2>1. holder.act = a /\ holder.left = left
      BY <1>2, Zenon
  <2> QED BY <2>1, Zenon DEF SignChallenge
<1> QED BY <1>5, <1>6, <1>7, Zenon
\* Submitting an envelope keeps the invariant of the signer.
LEMMA SubmitKeeps == ASSUME SignerInv, NEW e \in envelopes, Submit(e) PROVE SignerInv'
<1> USE CaptureSignerAssumption
<1>1. /\ e.act \in Actions /\ e.left \in Nat /\ e.left > 0 /\ Remembers(worker, e)
      /\ WorkerTypes(worker) /\ OutsideTypes
    BY DEF SignerInv, OutsideTypes, KeepsUp
<1>2. UNCHANGED <<worker, holder, envelopes>> /\ ledger' = ledger \cup {e.act.rid}
    BY Zenon DEF Submit
<1>3. /\ DOMAIN live' \subseteq DOMAIN live \cup (IF e.act.op = "create" THEN {e.act.rid} ELSE {})
      /\ \A c \in DOMAIN live' : \/ c \in DOMAIN live /\ live'[c] = live[c]
                                 \/ e.act.op = "create" /\ c = e.act.rid /\ live'[c] = Lifetime
    BY Zenon DEF Submit, With, Restrict
<1>4. \A c \in DOMAIN live' : c \in RequestIds /\ live'[c] \in 1 .. Lifetime
    BY <1>1, <1>3, ActionFacts, SMTT(30) DEF OutsideTypes, Partial
<1>5. OutsideTypes'
    BY <1>1, <1>2, <1>4, ActionFacts, Zenon DEF OutsideTypes, Partial
<1>6. ASSUME NEW c \in DOMAIN live' PROVE Owns(worker, c)'
  <2>1. CASE c \in DOMAIN live /\ live'[c] = live[c]
      BY <1>2, <2>1, Zenon DEF Owns, SignerInv, KeepsUp
  <2>2. CASE e.act.op = "create" /\ c = e.act.rid /\ live'[c] = Lifetime
    <3>1. c \in DOMAIN worker.challenges /\ worker.challenges[c] >= e.left + Lifetime
        BY <1>1, <2>2, Zenon DEF Remembers
    <3>2. worker.challenges[c] \in Nat
        BY <1>1, <3>1 DEF WorkerTypes, Partial
    <3>3. worker.challenges[c] >= Lifetime
        BY <1>1, <3>1, <3>2, SMTT(30)
    <3> QED BY <1>2, <2>2, <3>1, <3>3, Zenon DEF Owns
  <2> QED BY <1>3, <2>1, <2>2, Zenon
<1>7. KeepsUp(worker)'
    BY <1>2, <1>6, Zenon DEF KeepsUp, Remembers, SignerInv
<1> QED BY <1>2, <1>5, <1>7, Zenon DEF SignerInv, WorkerTypes, Partial, HolderSound, OneLiveEnvelope

\* A unit of time takes as much from the nonce and the challenge as from what
\* the worker remembers of them.
LEMMA SignerTickKeeps == ASSUME SignerInv, SignerTick PROVE SignerInv'
<1> USE CaptureSignerAssumption
<1>1. /\ worker' = [prepared |-> Less(worker.prepared), request_ids |-> worker.request_ids,
                    signed |-> worker.signed, challenges |-> Less(worker.challenges),
                    registration_id |-> worker.registration_id, result |-> worker.result]
  <2> DEFINE a == Less(worker.prepared)
             d == Less(worker.challenges)
  <2>1. worker' = [worker EXCEPT !.prepared = a, !.challenges = d]
      BY Zenon DEF SignerTick
  <2> HIDE DEF a, d
  <2>2. worker = [prepared |-> worker.prepared, request_ids |-> worker.request_ids, signed |-> worker.signed,
                  challenges |-> worker.challenges, registration_id |-> worker.registration_id,
                  result |-> worker.result]
      BY Zenon DEF SignerInv, WorkerTypes
  <2>3. worker' = [prepared |-> a, request_ids |-> worker.request_ids, signed |-> worker.signed,
                   challenges |-> d, registration_id |-> worker.registration_id, result |-> worker.result]
      BY <2>1, <2>2, ZenonT(40)
  <2> QED BY <2>3, Zenon DEF a, d
<1>2. /\ worker'.prepared = Less(worker.prepared) /\ worker'.request_ids = worker.request_ids
      /\ worker'.signed = worker.signed /\ worker'.challenges = Less(worker.challenges)
      /\ worker'.registration_id = worker.registration_id /\ worker'.result = worker.result
      /\ worker' = [prepared |-> worker'.prepared, request_ids |-> worker'.request_ids,
                    signed |-> worker'.signed, challenges |-> worker'.challenges,
                    registration_id |-> worker'.registration_id, result |-> worker'.result]
    BY <1>1, Zenon
<1>3. /\ DOMAIN worker'.prepared = DOMAIN worker.prepared
      /\ \A a \in DOMAIN worker.prepared :
            worker'.prepared[a] = IF worker.prepared[a] > 0 THEN worker.prepared[a] - 1 ELSE 0
      /\ DOMAIN worker'.challenges = DOMAIN worker.challenges
      /\ \A c \in DOMAIN worker.challenges :
            worker'.challenges[c] = IF worker.challenges[c] > 0 THEN worker.challenges[c] - 1 ELSE 0
    BY <1>2, Zenon DEF Less
<1>4. /\ \A a \in DOMAIN worker.prepared : a \in Lifecycle /\ worker.prepared[a] \in 0 .. Retention
      /\ \A c \in DOMAIN worker.challenges : c \in RequestIds /\ worker.challenges[c] \in 0 .. Window + Lifetime
      /\ WorkerTypes(worker) /\ OutsideTypes
    BY Zenon DEF SignerInv, WorkerTypes, Partial
<1>5. Partial(worker'.prepared, Lifecycle, 0 .. Retention) /\ Partial(worker'.challenges, RequestIds, 0 .. Window + Lifetime)
    BY <1>3, <1>4 DEF Partial
<1>6. WorkerTypes(worker')
    BY <1>2, <1>4, <1>5, Zenon DEF WorkerTypes
<1>7. ASSUME NEW e \in envelopes'
      PROVE  \E d \in envelopes : d.left > 1 /\ d.left \in 1 .. Window /\ e = [act |-> d.act, left |-> d.left - 1]
  <2>1. PICK d \in envelopes : d.left > 1 /\ e = [d EXCEPT !.left = @ - 1]
      BY Zenon DEF SignerTick
  <2>2. d \in [act : Actions, left : 1 .. Window]
      BY <1>4, Zenon DEF OutsideTypes
  <2> QED BY <2>1, <2>2, Zenon
<1>8. \A c \in DOMAIN live' : c \in DOMAIN live /\ live[c] > 1 /\ live'[c] = live[c] - 1
  <2> DEFINE f == Less(live)
             S == {c \in DOMAIN live : live[c] > 1}
  <2>1. live' = [c \in S |-> f[c]]
      BY Zenon DEF SignerTick, Restrict
  <2>2. \A c \in DOMAIN live : f[c] = IF live[c] > 0 THEN live[c] - 1 ELSE 0
      BY Zenon DEF Less
  <2>3. \A c \in DOMAIN live : live[c] \in Nat
      BY <1>4 DEF OutsideTypes, Partial
  <2> HIDE DEF f
  <2> QED BY <2>1, <2>2, <2>3
<1>9. holder' \in Holders /\ (holder'.stage = "sign" => holder.stage = "sign" /\ holder'.act = holder.act)
  <2>1. holder' = [holder EXCEPT !.left = IF holder.left > 0 THEN holder.left - 1 ELSE 0] /\ holder \in Holders
      BY <1>4, Zenon DEF SignerTick, OutsideTypes
  <2>2. CASE holder \in [stage : {"free", "nonce", "post"}, act : {Registration}, left : {0}]
      BY <2>1, <2>2 DEF Holders
  <2>3. CASE holder \in [stage : {"sign"}, act : Lifecycle, left : 0 .. Window]
    <3>1. (IF holder.left > 0 THEN holder.left - 1 ELSE 0) \in 0 .. Window
        BY <2>3
    <3> QED BY <2>1, <2>3, <3>1, Zenon DEF Holders
  <2> QED BY <2>1, <2>2, <2>3, Zenon DEF Holders
<1>10. OutsideTypes'
  <2>1. \A e \in envelopes' : e \in [act : Actions, left : 1 .. Window]
    <3> SUFFICES ASSUME NEW e \in envelopes' PROVE e \in [act : Actions, left : 1 .. Window]
        BY Zenon
    <3>1. PICK d \in envelopes : d.left > 1 /\ d.left \in 1 .. Window /\ e = [act |-> d.act, left |-> d.left - 1]
        BY <1>7, Zenon
    <3>2. d.act \in Actions /\ d.left - 1 \in 1 .. Window
        BY <1>4, <3>1 DEF OutsideTypes
    <3> QED BY <3>1, <3>2, Zenon
  <2>2. Partial(live', RequestIds, 1 .. Lifetime)
    <3>1. \A c \in DOMAIN live : c \in RequestIds /\ live[c] \in 1 .. Lifetime
        BY <1>4, Zenon DEF OutsideTypes, Partial
    <3> QED BY <1>8, <3>1 DEF Partial
  <2>3. ledger' = ledger
      BY Zenon DEF SignerTick
  <2> QED BY <1>4, <1>9, <2>1, <2>2, <2>3, Zenon DEF OutsideTypes, Partial
<1>11. HolderSound'
    BY <1>2, <1>9, Zenon DEF HolderSound, SignerInv
<1>12. OneLiveEnvelope'
  <2> SUFFICES ASSUME NEW d \in envelopes', NEW e \in envelopes', d.act = e.act PROVE d = e
      BY Zenon DEF OneLiveEnvelope
  <2>1. PICK f \in envelopes : d = [act |-> f.act, left |-> f.left - 1]
      BY <1>7, Zenon
  <2>2. PICK g \in envelopes : e = [act |-> g.act, left |-> g.left - 1]
      BY <1>7, Zenon
  <2>3. f.act = g.act
      BY <2>1, <2>2, Zenon
  <2> QED BY <2>1, <2>2, <2>3, Zenon DEF SignerInv, OneLiveEnvelope
<1>13. ASSUME NEW e \in envelopes' PROVE Remembers(worker', e)
  <2>1. PICK d \in envelopes : d.left > 1 /\ d.left \in 1 .. Window /\ e = [act |-> d.act, left |-> d.left - 1]
      BY <1>7, Zenon
  <2>2. e.act = d.act /\ e.left = d.left - 1 /\ d.left \in Nat
      BY <2>1
  <2>3. Remembers(worker, d)
      BY Zenon DEF SignerInv, KeepsUp
  <2>4. d.act \in DOMAIN worker.prepared => worker'.prepared[d.act] >= e.left
    <3> SUFFICES ASSUME d.act \in DOMAIN worker.prepared PROVE worker'.prepared[d.act] >= e.left
        BY Zenon
    <3>1. worker.prepared[d.act] >= d.left /\ worker.prepared[d.act] \in Nat
        BY <1>4, <2>3, SMTT(30) DEF Remembers
    <3>2. worker'.prepared[d.act] = worker.prepared[d.act] - 1
        BY <1>3, <2>1, <2>2, <3>1, SMTT(30)
    <3> QED BY <2>2, <3>1, <3>2
  <2>5. d.act.op = "create" => /\ d.act.rid \in DOMAIN worker'.challenges
                               /\ worker'.challenges[d.act.rid] >= e.left + Lifetime
    <3> SUFFICES ASSUME d.act.op = "create" PROVE /\ d.act.rid \in DOMAIN worker'.challenges
                                                 /\ worker'.challenges[d.act.rid] >= e.left + Lifetime
        BY Zenon
    <3>1. d.act.rid \in DOMAIN worker.challenges /\ worker.challenges[d.act.rid] >= d.left + Lifetime
        BY <2>3, Zenon DEF Remembers
    <3>2. worker.challenges[d.act.rid] \in Nat
        BY <1>4, <3>1, SMTT(30)
    <3>3. worker'.challenges[d.act.rid] = worker.challenges[d.act.rid] - 1
        BY <1>3, <2>1, <2>2, <3>1, <3>2, SMTT(30)
    <3> QED BY <1>3, <2>2, <3>1, <3>2, <3>3, SMTT(30)
  <2> QED BY <1>2, <1>3, <2>2, <2>3, <2>4, <2>5, Zenon DEF Remembers
<1>14. ASSUME NEW c \in DOMAIN live' PROVE Owns(worker, c)'
  <2>1. c \in DOMAIN live /\ live[c] > 1 /\ live'[c] = live[c] - 1 /\ live[c] \in Nat
      BY <1>4, <1>8, SMTT(30) DEF OutsideTypes, Partial
  <2>2. c \in DOMAIN worker.challenges /\ worker.challenges[c] >= live[c]
      BY <2>1, Zenon DEF SignerInv, KeepsUp, Owns
  <2>3. worker.challenges[c] \in Nat
      BY <1>4, <2>2
  <2>4. worker'.challenges[c] = worker.challenges[c] - 1
      BY <1>3, <2>1, <2>2, <2>3
  <2> QED BY <1>3, <2>1, <2>2, <2>3, <2>4, SMTT(30) DEF Owns
<1>15. KeepsUp(worker)'
    BY <1>13, <1>14, Zenon DEF KeepsUp, Remembers
<1> QED BY <1>6, <1>10, <1>11, <1>12, <1>15, Zenon DEF SignerInv, WorkerTypes, Partial

\* Every step keeps the invariant of the signer.
LEMMA SignerStep == SignerInv /\ [SignerNext]_signerVars => SignerInv'
<1> SUFFICES ASSUME SignerInv, [SignerNext]_signerVars PROVE SignerInv'
    BY Zenon
<1> USE CaptureSignerAssumption
<1>0. holder \in Holders /\ Free \in Holders /\ Free.stage = "free"
    BY Zenon DEF SignerInv, OutsideTypes, Holders, Free
<1>1. CASE UNCHANGED signerVars
    BY <1>1, ZenonT(40) DEF signerVars, SignerInv, WorkerTypes, OutsideTypes, KeepsUp, Remembers, Owns,
                HolderSound, OneLiveEnvelope, Partial
<1>2. ASSUME NEW a \in Lifecycle, PrepareLifecycle(a) PROVE SignerInv'
  <2> DEFINE w == Pruned(worker)
  <2>1. WorkerTypes(w) /\ KeepsUp(w)
      BY PrunedFields, PrunedKeepsUp, Zenon DEF SignerInv
  <2>2. worker' = Prepared(w, a) /\ holder = Free /\ UNCHANGED <<holder, envelopes, ledger, live>>
      BY <1>2, Zenon DEF PrepareLifecycle
  <2> HIDE DEF w
  <2>3. /\ WorkerTypes(worker') /\ worker'.signed = w.signed /\ worker'.challenges = w.challenges
        /\ \A b \in DOMAIN worker'.prepared : \/ b \in DOMAIN w.prepared /\ worker'.prepared[b] = w.prepared[b]
                                              \/ worker'.prepared[b] = Retention
      BY <2>1, <2>2, PreparedFields, SMTT(30)
  <2>4. \A e \in envelopes : Remembers(worker', e)
    <3>1. \A e \in envelopes : e.left \in Nat /\ e.left <= Retention /\ Remembers(w, e)
        BY <2>1 DEF SignerInv, OutsideTypes, KeepsUp
    <3> QED BY <2>3, <3>1, Zenon DEF Remembers
  <2>5. KeepsUp(worker')
      BY <2>1, <2>3, <2>4, Zenon DEF KeepsUp, Owns
  <2>6. HolderSound'
      BY <1>0, <2>2, Zenon DEF HolderSound
  <2> QED BY <1>0, <2>2, <2>3, <2>5, <2>6, WorkerAlone, ZenonT(40)
<1>3. CASE OnlyPrunes
  <2>1. worker' = Pruned(worker) /\ holder = Free /\ UNCHANGED <<holder, envelopes, ledger, live>>
      BY <1>3, Zenon DEF OnlyPrunes
  <2>2. WorkerTypes(worker') /\ KeepsUp(worker')
      BY <2>1, PrunedFields, PrunedKeepsUp, Zenon DEF SignerInv
  <2>3. HolderSound'
      BY <1>0, <2>1, Zenon DEF HolderSound
  <2> QED BY <1>0, <2>1, <2>2, <2>3, WorkerAlone, Zenon
<1>4. ASSUME NEW a \in DOMAIN worker.prepared, NEW left \in 1 .. Window, SignLifecycle(a, left)
      PROVE  SignerInv'
    BY <1>4, SignLifecycleKeeps, Zenon
<1>5. CASE SignChallenge
    BY <1>5, SignChallengeKeeps, Zenon
<1>6. ASSUME NEW left \in 1 .. Window, SignedRequest(left) PROVE SignerInv'
  <2>1. SignRegistration(left) /\ holder' = Free /\ UNCHANGED <<ledger, live>>
      BY <1>6, Zenon DEF SignedRequest
  <2> QED BY <1>0, <2>1, RegistrationKeeps, Zenon
<1>7. ASSUME NEW left \in 1 .. Window, RegisterNonce(left) PROVE SignerInv'
  <2>1. /\ SignRegistration(left) /\ holder' = [holder EXCEPT !.stage = "post"]
        /\ holder.stage = "nonce" /\ UNCHANGED <<ledger, live>>
      BY <1>7, Zenon DEF RegisterNonce
  <2>2. holder' \in Holders /\ holder'.stage # "sign"
      BY <1>0, <2>1, Zenon DEF Holders
  <2> QED BY <2>1, <2>2, RegistrationKeeps, Zenon
<1>8. ASSUME holder' \in Holders, holder'.stage # "sign", UNCHANGED <<envelopes, ledger, live>>,
             worker' = worker \/ worker' = [worker EXCEPT !.result = TRUE]
      PROVE  SignerInv'
  <2>1. HolderSound'
      BY <1>8, Zenon DEF HolderSound
  <2>2. CASE worker' = worker
      BY <1>8, <2>1, <2>2, WorkerAlone, Zenon DEF SignerInv
  <2>3. CASE worker' = [worker EXCEPT !.result = TRUE]
    <3>1. worker = [prepared |-> worker.prepared, request_ids |-> worker.request_ids, signed |-> worker.signed,
                    challenges |-> worker.challenges, registration_id |-> worker.registration_id,
                    result |-> worker.result]
        BY Zenon DEF SignerInv, WorkerTypes
    <3>2. worker' = [prepared |-> worker.prepared, request_ids |-> worker.request_ids, signed |-> worker.signed,
                     challenges |-> worker.challenges, registration_id |-> worker.registration_id,
                     result |-> TRUE]
        BY <2>3, <3>1, Zenon
    <3>3. /\ worker'.prepared = worker.prepared /\ worker'.request_ids = worker.request_ids
          /\ worker'.signed = worker.signed /\ worker'.challenges = worker.challenges
          /\ worker'.registration_id = worker.registration_id /\ worker'.result = TRUE
        BY <3>2, Zenon
    <3>4. WorkerTypes(worker')
        BY <3>2, <3>3, Zenon DEF SignerInv, WorkerTypes
    <3>5. KeepsUp(worker')
        BY <3>3, Zenon DEF SignerInv, KeepsUp, Remembers, Owns
    <3> QED BY <1>8, <2>1, <3>4, <3>5, WorkerAlone, Zenon
  <2> QED BY <1>8, <2>2, <2>3, Zenon
<1>9. CASE RegisterStart
  <2>1. holder' = [Free EXCEPT !.stage = IF Registration \in worker.signed THEN "post" ELSE "nonce"]
      BY <1>9, Zenon DEF RegisterStart
  <2>2. holder' \in Holders /\ holder'.stage # "sign"
      BY <2>1, Zenon DEF Holders, Free
  <2> QED BY <1>8, <1>9, <2>2, Zenon DEF RegisterStart
<1>10. CASE RegisterAnswered \/ RegisterFails
    BY <1>0, <1>8, <1>10, Zenon DEF RegisterAnswered, RegisterFails
<1>11. ASSUME NEW e \in envelopes, Submit(e) PROVE SignerInv'
    BY <1>11, SubmitKeeps, Zenon
<1>12. CASE SignerTick
    BY <1>12, SignerTickKeeps, Zenon
<1> QED BY <1>1, <1>2, <1>3, <1>4, <1>5, <1>6, <1>7, <1>9, <1>10, <1>11, <1>12, Zenon DEF SignerNext

\* The signer is sound in every reachable state.
LEMMA SignerCorrect == SignerSpec => []SignerSound
<1> USE CaptureSignerAssumption
<1>1. SignerInit => SignerInv
  <2> SUFFICES ASSUME SignerInit PROVE SignerInv
      BY Zenon
  <2>1. /\ worker.prepared = NoEntries /\ worker.signed = {} /\ worker.challenges = NoEntries
        /\ worker.request_ids = [q \in {FixedId} |-> Registration]
        /\ worker.registration_id = FALSE /\ worker.result = FALSE
        /\ worker = [prepared |-> worker.prepared, request_ids |-> worker.request_ids, signed |-> worker.signed,
                     challenges |-> worker.challenges, registration_id |-> worker.registration_id,
                     result |-> worker.result]
      BY Zenon DEF SignerInit
  <2>2. DOMAIN NoEntries = {}
      BY Zenon DEF NoEntries
  <2>3. \A q \in DOMAIN worker.request_ids : worker.request_ids[q].rid = q
      BY <2>1 DEF Registration
  <2>4. WorkerTypes(worker)
      BY <2>1, <2>2, <2>3, Zenon DEF WorkerTypes, Partial
  <2>5. OutsideTypes
      BY <2>2, Zenon DEF SignerInit, OutsideTypes, Partial, Holders, Free
  <2> QED BY <2>2, <2>4, <2>5, Zenon DEF SignerInv, SignerInit, KeepsUp, HolderSound, OneLiveEnvelope, Free
<1>2. SignerInv => SignerSound
  <2> SUFFICES ASSUME SignerInv PROVE SignerSound
      BY Zenon
  <2>1. SignerTypeOK
      BY Zenon DEF SignerInv, WorkerTypes, OutsideTypes, SignerTypeOK
  <2>2. OwnedWhileLive
    <3> SUFFICES ASSUME NEW c \in DOMAIN live PROVE c \in DOMAIN worker.challenges /\ worker.challenges[c] > 0
        BY Zenon DEF OwnedWhileLive
    <3>1. live[c] \in Nat /\ live[c] > 0
        BY DEF SignerInv, OutsideTypes, Partial
    <3>2. c \in DOMAIN worker.challenges /\ worker.challenges[c] >= live[c]
        BY Zenon DEF SignerInv, KeepsUp, Owns
    <3>3. worker.challenges[c] \in Nat
        BY <3>2 DEF SignerInv, WorkerTypes, Partial
    <3> QED BY <3>1, <3>2, <3>3
  <2> QED BY <2>1, <2>2, Zenon DEF SignerSound, SignerInv
<1> QED BY <1>1, <1>2, SignerStep, PTL DEF SignerSpec

\* For every number of registrations, connections and threads and every limit:
\* the worker forgets no signature and no challenge the service may still act
\* on, and its listeners get every slot back, a mail session's by its deadline
\* (tools/capture_aci.py).
THEOREM WorkerCorrect == SignerSpec /\ ServerSpec => []WorkerSound
BY SignerCorrect, SlotsCorrect, PTL DEF WorkerSound

-----------------------------------------------------------------------------
(* NativeEvidence: the order of the checks.                                *)

\* A set of naturals that is not empty has a least member.
LEMMA LeastNumber ==
    ASSUME NEW T, T \subseteq Nat, T # {} PROVE \E x \in T : \A y \in T : x <= y
<1> DEFINE R == OpToRel(<, Nat)
<1>1. IsWellFoundedOn(R, Nat)
    BY NatLessThanWellFounded, Zenon
<1>2. \A x, y \in Nat : <<y, x>> \in R <=> y < x
    BY Zenon DEF OpToRel
<1> HIDE DEF R
<1>3. PICK x \in T : \A y \in T : ~(<<y, x>> \in R)
    BY <1>1, WFMin, Zenon
<1>4. \A y \in T : x \in Nat /\ y \in Nat /\ ~(y < x)
    BY <1>2, <1>3, Zenon
<1>5. \A y \in T : x <= y
    BY <1>4
<1> QED BY <1>3, <1>5, Zenon

\* The first check that fails is the verdict, and no other is.
LEMMA FirstFailure ==
    ASSUME NEW checks, NEW m \in Nat, DOMAIN checks = 1 .. m, NEW n \in 1 .. m,
           checks[n] # "ok", \A i \in 1 .. n - 1 : checks[i] = "ok"
    PROVE  Verdict(checks) = checks[n]
<1> DEFINE failed == {i \in DOMAIN checks : checks[i] # "ok"}
<1>1. n \in failed /\ \A i \in failed : n <= i /\ i \in Nat
    OBVIOUS
<1>2. Verdict(checks) = IF failed = {} THEN "ok" ELSE checks[Min(failed)]
    BY Zenon DEF Verdict
<1> HIDE DEF failed
<1>3. \A i \in failed : (\A j \in failed : i <= j) => i = n
    BY <1>1
<1>4. Min(failed) = n
    BY <1>1, <1>3, Zenon DEF Min
<1> QED BY <1>1, <1>2, <1>4, Zenon

\* A list of checks passes exactly if each of them does.
LEMMA NoFailure ==
    ASSUME NEW checks, NEW m \in Nat, DOMAIN checks = 1 .. m
    PROVE  Verdict(checks) = "ok" <=> \A i \in 1 .. m : checks[i] = "ok"
<1> DEFINE failed == {i \in DOMAIN checks : checks[i] # "ok"}
<1>1. Verdict(checks) = IF failed = {} THEN "ok" ELSE checks[Min(failed)]
    BY Zenon DEF Verdict
<1>2. failed \subseteq Nat /\ \A i \in failed : checks[i] # "ok"
    OBVIOUS
<1>3. failed = {} <=> \A i \in 1 .. m : checks[i] = "ok"
    BY Zenon
<1> HIDE DEF failed
<1>4. failed # {} => Min(failed) \in failed
    BY <1>2, LeastNumber, Zenon DEF Min
<1> QED BY <1>1, <1>2, <1>3, <1>4, Zenon

Verdicts == {"ok", "UNSUPPORTED_PROFILE", "PROFILE_NOT_ACTIVE", "POLICY_NOT_VALID", "SIGNATURE_INVALID",
             "REPORT_POLICY_REJECTED", "UNTRUSTED_ROOT", "CERTIFICATE_INVALID", "TCB_BELOW_MINIMUM",
             "MEASUREMENT_REJECTED", "CCE_HOST_DATA_REJECTED", "UVM_IDENTITY_REJECTED",
             "UVM_SVN_BELOW_MINIMUM", "KEY_BINDING_MISMATCH"}

\* The native checks are a list of eleven verdicts.
LEMMA NativeList ==
    ASSUME NEW e, NEW p
    PROVE  LET L == NativeChecks(e.report, e.eds, e.uvm, p) IN
           /\ L \in Seq(Verdicts) /\ Len(L) = 11
           /\ L[1] = Check("REPORT_POLICY_REJECTED", e.report.sound)
           /\ L[2] = Check("UNTRUSTED_ROOT", e.eds.root # "other")
           /\ L[3] = Check("CERTIFICATE_INVALID", e.eds.current)
           /\ L[4] = Check("SIGNATURE_INVALID", e.eds.vcek)
           /\ L[5] = Check("TCB_BELOW_MINIMUM", e.eds.root = "genoa" /\ e.report.tcb >= p.min_tcb)
           /\ L[6] = Check("MEASUREMENT_REJECTED", e.report.image \in p.images)
           /\ L[7] = Check("CCE_HOST_DATA_REJECTED", e.report.cce \in p.cces)
           /\ L[8] = Check("UVM_IDENTITY_REJECTED", e.uvm.did \in p.dids)
           /\ L[9] = Check("UVM_SVN_BELOW_MINIMUM", e.uvm.svn >= p.min_svn)
           /\ L[10] = Check("CERTIFICATE_INVALID", p.approved_release \/ e.uvm.current)
           /\ L[11] = Check("MEASUREMENT_REJECTED", e.uvm.image = e.report.image)
<1> DEFINE a1 == Check("REPORT_POLICY_REJECTED", e.report.sound)
           a2 == Check("UNTRUSTED_ROOT", e.eds.root # "other")
           a3 == Check("CERTIFICATE_INVALID", e.eds.current)
           a4 == Check("SIGNATURE_INVALID", e.eds.vcek)
           a5 == Check("TCB_BELOW_MINIMUM", e.eds.root = "genoa" /\ e.report.tcb >= p.min_tcb)
           a6 == Check("MEASUREMENT_REJECTED", e.report.image \in p.images)
           a7 == Check("CCE_HOST_DATA_REJECTED", e.report.cce \in p.cces)
           a8 == Check("UVM_IDENTITY_REJECTED", e.uvm.did \in p.dids)
           a9 == Check("UVM_SVN_BELOW_MINIMUM", e.uvm.svn >= p.min_svn)
           a10 == Check("CERTIFICATE_INVALID", p.approved_release \/ e.uvm.current)
           a11 == Check("MEASUREMENT_REJECTED", e.uvm.image = e.report.image)
<1>1. /\ a1 \in Verdicts /\ a2 \in Verdicts /\ a3 \in Verdicts /\ a4 \in Verdicts /\ a5 \in Verdicts /\ a6 \in Verdicts
      /\ a7 \in Verdicts /\ a8 \in Verdicts /\ a9 \in Verdicts /\ a10 \in Verdicts /\ a11 \in Verdicts
    BY Zenon DEF Check, Verdicts
<1>2. NativeChecks(e.report, e.eds, e.uvm, p) = <<a1, a2, a3, a4, a5, a6, a7, a8, a9, a10, a11>>
    BY Zenon DEF NativeChecks
<1> HIDE DEF a1, a2, a3, a4, a5, a6, a7, a8, a9, a10, a11
<1>3. LET L == NativeChecks(e.report, e.eds, e.uvm, p) IN
      /\ L \in Seq(Verdicts) /\ Len(L) = 11
      /\ L[1] = a1 /\ L[2] = a2 /\ L[3] = a3 /\ L[4] = a4 /\ L[5] = a5 /\ L[6] = a6
      /\ L[7] = a7 /\ L[8] = a8 /\ L[9] = a9 /\ L[10] = a10 /\ L[11] = a11
    BY <1>1, <1>2
<1> QED BY <1>3, Zenon DEF a1, a2, a3, a4, a5, a6, a7, a8, a9, a10, a11


\* v decides, unless it is "ok".
Before(v, w) == IF v = "ok" THEN w ELSE v

\* Two lists of checks, one after the other.
LEMMA VerdictConcat ==
    ASSUME NEW s \in Seq(Verdicts), NEW t \in Seq(Verdicts)
    PROVE  s \o t \in Seq(Verdicts) /\ Verdict(s \o t) = Before(Verdict(s), Verdict(t))
<1> DEFINE c == s \o t
           m == Len(s)
           n == Len(t)
<1>1. /\ m \in Nat /\ n \in Nat /\ DOMAIN s = 1 .. m /\ DOMAIN t = 1 .. n
    OBVIOUS
<1>2. /\ c \in Seq(Verdicts) /\ Len(c) = m + n
      /\ \A i \in 1 .. m + n : c[i] = IF i <= m THEN s[i] ELSE t[i - m]
    OBVIOUS
<1> HIDE DEF c, m, n
<1>3. DOMAIN c = 1 .. m + n /\ m + n \in Nat
    BY <1>1, <1>2
<1>4. ASSUME NEW f, NEW l \in Nat, DOMAIN f = 1 .. l, Verdict(f) # "ok"
      PROVE  \E i \in 1 .. l : f[i] # "ok" /\ \A j \in 1 .. i - 1 : f[j] = "ok"
  <2> DEFINE T == {i \in 1 .. l : f[i] # "ok"}
  <2>1. T # {} /\ T \subseteq Nat
      BY <1>4, NoFailure
  <2>2. PICK i \in T : \A j \in T : i <= j
      BY <2>1, LeastNumber, Zenon
  <2>3. \A j \in 1 .. i - 1 : j \in 1 .. l /\ ~(i <= j)
      BY <2>2
  <2> QED BY <2>2, <2>3, Zenon
<1>5. CASE Verdict(s) # "ok"
  <2>1. PICK i \in 1 .. m : s[i] # "ok" /\ \A j \in 1 .. i - 1 : s[j] = "ok"
      BY <1>1, <1>4, <1>5, Zenon
  <2>2. Verdict(s) = s[i]
      BY <1>1, <2>1, FirstFailure, Zenon
  <2>3. i \in 1 .. m + n /\ c[i] = s[i] /\ \A j \in 1 .. i - 1 : j \in 1 .. m + n /\ c[j] = s[j]
      BY <1>1, <1>2
  <2>4. c[i] # "ok" /\ \A j \in 1 .. i - 1 : c[j] = "ok"
      BY <2>1, <2>3, Zenon
  <2>5. Verdict(c) = c[i]
      BY <1>3, <2>3, <2>4, FirstFailure, Zenon
  <2> QED BY <1>2, <1>5, <2>2, <2>3, <2>5, Zenon DEF c, Before
<1>6. CASE Verdict(s) = "ok" /\ Verdict(t) # "ok"
  <2>1. PICK i \in 1 .. n : t[i] # "ok" /\ \A j \in 1 .. i - 1 : t[j] = "ok"
      BY <1>1, <1>4, <1>6, Zenon
  <2>2. Verdict(t) = t[i]
      BY <1>1, <2>1, FirstFailure, Zenon
  <2>3. \A j \in 1 .. m : s[j] = "ok"
      BY <1>1, <1>6, NoFailure, Zenon
  <2>4. m + i \in 1 .. m + n /\ ~(m + i <= m) /\ (m + i) - m = i
      BY <1>1
  <2>5. c[m + i] = t[i]
      BY <1>2, <2>4, Zenon
  <2>6. ASSUME NEW j \in 1 .. (m + i) - 1 PROVE c[j] = "ok"
    <3>1. j \in 1 .. m + n
        BY <1>1
    <3>2. CASE j <= m
        BY <1>1, <1>2, <2>3, <3>1, <3>2
    <3>3. CASE ~(j <= m)
      <4>1. j - m \in 1 .. i - 1
          BY <1>1, <3>3
      <4> QED BY <1>2, <2>1, <3>1, <3>3, <4>1, Zenon
    <3> QED BY <3>2, <3>3, Zenon
  <2>7. Verdict(c) = c[m + i]
      BY <1>3, <2>1, <2>4, <2>5, <2>6, FirstFailure, Zenon
  <2> QED BY <1>2, <1>6, <2>2, <2>5, <2>7, Zenon DEF c, Before
<1>7. CASE Verdict(s) = "ok" /\ Verdict(t) = "ok"
  <2>1. (\A j \in 1 .. m : s[j] = "ok") /\ \A j \in 1 .. n : t[j] = "ok"
      BY <1>1, <1>7, NoFailure, Zenon
  <2>2. ASSUME NEW j \in 1 .. m + n PROVE c[j] = "ok"
    <3>1. CASE j <= m
        BY <1>1, <1>2, <2>1, <3>1
    <3>2. CASE ~(j <= m)
      <4>1. j - m \in 1 .. n
          BY <1>1, <3>2
      <4> QED BY <1>2, <2>1, <3>2, <4>1, Zenon
    <3> QED BY <3>1, <3>2, Zenon
  <2>3. Verdict(c) = "ok"
      BY <1>3, <2>2, NoFailure, Zenon
  <2> QED BY <1>2, <1>7, <2>3, Zenon DEF c, Before
<1> QED BY <1>5, <1>6, <1>7, Zenon

\* The verdict on one check.
LEMMA VerdictOfOne ==
    ASSUME NEW a \in Verdicts PROVE <<a>> \in Seq(Verdicts) /\ Verdict(<<a>>) = a
<1> DEFINE s == <<a>>
<1>1. s \in Seq(Verdicts) /\ DOMAIN s = 1 .. 1 /\ s[1] = a
    OBVIOUS
<1> HIDE DEF s
<1>2. a = "ok" => Verdict(s) = "ok"
    BY <1>1, NoFailure
<1>3. a # "ok" => Verdict(s) = s[1]
    BY <1>1, FirstFailure
<1> QED BY <1>1, <1>2, <1>3, Zenon DEF s

\* The verdict on two checks is the first that fails.
LEMMA VerdictOfTwo ==
    ASSUME NEW a \in Verdicts, NEW b \in Verdicts
    PROVE  <<a, b>> \in Seq(Verdicts) /\ Verdict(<<a, b>>) = Before(a, b)
<1> DEFINE s == <<a, b>>
<1>1. s \in Seq(Verdicts) /\ DOMAIN s = 1 .. 2 /\ s[1] = a /\ s[2] = b
    OBVIOUS
<1> HIDE DEF s
<1>2. a = "ok" /\ b = "ok" => Verdict(s) = "ok"
    BY <1>1, NoFailure
<1>3. a # "ok" => Verdict(s) = s[1]
    BY <1>1, FirstFailure
<1>4. ASSUME a = "ok", b # "ok" PROVE Verdict(s) = s[2]
  <2>1. 2 \in Nat /\ 2 \in 1 .. 2 /\ \A i \in 1 .. 2 - 1 : i = 1
      OBVIOUS
  <2>2. s[2] # "ok" /\ \A i \in 1 .. 2 - 1 : s[i] = "ok"
      BY <1>1, <1>4, <2>1, Zenon
  <2> QED BY <1>1, <2>1, <2>2, FirstFailure, Zenon
<1> QED BY <1>1, <1>2, <1>3, <1>4, Zenon DEF s, Before

\* All that NativeChecks looks at.
NativePasses(e, p) ==
    /\ e.report.sound /\ e.eds.root # "other" /\ e.eds.current /\ e.eds.vcek
    /\ e.eds.root = "genoa" /\ e.report.tcb >= p.min_tcb
    /\ e.report.image \in p.images /\ e.report.cce \in p.cces
    /\ e.uvm.did \in p.dids /\ e.uvm.svn >= p.min_svn
    /\ p.approved_release \/ e.uvm.current
    /\ e.uvm.image = e.report.image

\* The verdict of verify_native, for the ways its checks can fail that
\* check_native_appraisal.py tries.
LEMMA NativeVerdict ==
    ASSUME NEW e, NEW p
    PROVE  LET v == Verdict(NativeChecks(e.report, e.eds, e.uvm, p))
               platform == e.report.sound /\ e.eds.root # "other" /\ e.eds.current /\ e.eds.vcek
               tcb == e.eds.root = "genoa" /\ e.report.tcb >= p.min_tcb
           IN  /\ NativeChecks(e.report, e.eds, e.uvm, p) \in Seq(Verdicts)
               /\ v = "ok" <=> NativePasses(e, p)
               /\ platform /\ ~tcb => v = "TCB_BELOW_MINIMUM"
               /\ platform /\ tcb /\ e.report.image \notin p.images => v = "MEASUREMENT_REJECTED"
               /\ platform /\ tcb /\ e.report.image \in p.images =>
                    /\ e.report.cce \notin p.cces => v = "CCE_HOST_DATA_REJECTED"
                    /\ e.report.cce \in p.cces /\ e.uvm.did \notin p.dids => v = "UVM_IDENTITY_REJECTED"
                    /\ e.report.cce \in p.cces /\ e.uvm.did \in p.dids =>
                         /\ ~(e.uvm.svn >= p.min_svn) => v = "UVM_SVN_BELOW_MINIMUM"
                         /\ e.uvm.svn >= p.min_svn /\ ~(p.approved_release \/ e.uvm.current)
                               => v = "CERTIFICATE_INVALID"
<1> DEFINE L == NativeChecks(e.report, e.eds, e.uvm, p)
<1>1. L \in Seq(Verdicts) /\ Len(L) = 11
    BY NativeList, ZenonT(40)
<1>2. (L[1] = "ok" <=> e.report.sound) /\ (L[2] = "ok" <=> e.eds.root # "other")
    BY NativeList, ZenonT(40) DEF Check
<1>3. (L[3] = "ok" <=> e.eds.current) /\ (L[4] = "ok" <=> e.eds.vcek)
    BY NativeList, ZenonT(40) DEF Check
<1>4. L[5] = IF e.eds.root = "genoa" /\ e.report.tcb >= p.min_tcb THEN "ok" ELSE "TCB_BELOW_MINIMUM"
    BY NativeList, ZenonT(40) DEF Check
<1>5. L[6] = IF e.report.image \in p.images THEN "ok" ELSE "MEASUREMENT_REJECTED"
    BY NativeList, ZenonT(40) DEF Check
<1>6. L[7] = IF e.report.cce \in p.cces THEN "ok" ELSE "CCE_HOST_DATA_REJECTED"
    BY NativeList, ZenonT(40) DEF Check
<1>7. L[8] = IF e.uvm.did \in p.dids THEN "ok" ELSE "UVM_IDENTITY_REJECTED"
    BY NativeList, ZenonT(40) DEF Check
<1>8. L[9] = IF e.uvm.svn >= p.min_svn THEN "ok" ELSE "UVM_SVN_BELOW_MINIMUM"
    BY NativeList, ZenonT(40) DEF Check
<1>9. L[10] = IF p.approved_release \/ e.uvm.current THEN "ok" ELSE "CERTIFICATE_INVALID"
    BY NativeList, ZenonT(40) DEF Check
<1>10. L[11] = "ok" <=> e.uvm.image = e.report.image
    BY NativeList, ZenonT(40) DEF Check
<1> HIDE DEF L
<1>11. DOMAIN L = 1 .. 11
    BY <1>1
<1>12. Verdict(L) = "ok" <=> \A i \in 1 .. 11 : L[i] = "ok"
    BY <1>11, NoFailure, Zenon
<1>13. (\A i \in 1 .. 11 : L[i] = "ok") <=>
          /\ L[1] = "ok" /\ L[2] = "ok" /\ L[3] = "ok" /\ L[4] = "ok" /\ L[5] = "ok" /\ L[6] = "ok"
          /\ L[7] = "ok" /\ L[8] = "ok" /\ L[9] = "ok" /\ L[10] = "ok" /\ L[11] = "ok"
  <2>1. \A i \in 1 .. 11 : i \in {1, 2, 3, 4, 5, 6, 7, 8, 9, 10, 11}
      BY SMTT(30)
  <2> QED BY <2>1
<1>14. Verdict(L) = "ok" <=> NativePasses(e, p)
    BY <1>2, <1>3, <1>4, <1>5, <1>6, <1>7, <1>8, <1>9, <1>10, <1>12, <1>13, ZenonT(40) DEF NativePasses
<1>15. ASSUME NEW n \in 5 .. 10, L[1] = "ok", L[2] = "ok", L[3] = "ok", L[4] = "ok",
              \A i \in 5 .. n - 1 : L[i] = "ok", L[n] # "ok"
       PROVE  Verdict(L) = L[n]
  <2>1. \A i \in 1 .. n - 1 : i \in {1, 2, 3, 4} \/ i \in 5 .. n - 1
      OBVIOUS
  <2>2. \A i \in 1 .. n - 1 : L[i] = "ok"
      BY <1>15, <2>1, Zenon
  <2>3. 11 \in Nat /\ n \in 1 .. 11
      BY SMTT(30)
  <2> QED BY <1>11, <1>15, <2>2, <2>3, FirstFailure, Zenon
<1>16. ASSUME L[1] = "ok", L[2] = "ok", L[3] = "ok", L[4] = "ok"
       PROVE  /\ L[5] # "ok" => Verdict(L) = L[5]
              /\ L[5] = "ok" /\ L[6] # "ok" => Verdict(L) = L[6]
              /\ L[5] = "ok" /\ L[6] = "ok" =>
                   /\ L[7] # "ok" => Verdict(L) = L[7]
                   /\ L[7] = "ok" /\ L[8] # "ok" => Verdict(L) = L[8]
                   /\ L[7] = "ok" /\ L[8] = "ok" => /\ L[9] # "ok" => Verdict(L) = L[9]
                                                    /\ L[9] = "ok" /\ L[10] # "ok" => Verdict(L) = L[10]
  <2>1. /\ \A i \in 5 .. 5 - 1 : FALSE
        /\ \A i \in 5 .. 6 - 1 : i = 5
        /\ \A i \in 5 .. 7 - 1 : i \in {5, 6}
        /\ \A i \in 5 .. 8 - 1 : i \in {5, 6, 7}
        /\ \A i \in 5 .. 9 - 1 : i \in {5, 6, 7, 8}
        /\ \A i \in 5 .. 10 - 1 : i \in {5, 6, 7, 8, 9}
      OBVIOUS
  <2>2. L[5] # "ok" => Verdict(L) = L[5]
      BY <1>15, <1>16, <2>1, SMTT(30)
  <2>3. L[5] = "ok" /\ L[6] # "ok" => Verdict(L) = L[6]
      BY <1>15, <1>16, <2>1, SMTT(30)
  <2>4. L[5] = "ok" /\ L[6] = "ok" /\ L[7] # "ok" => Verdict(L) = L[7]
      BY <1>15, <1>16, <2>1
  <2>5. L[5] = "ok" /\ L[6] = "ok" /\ L[7] = "ok" /\ L[8] # "ok" => Verdict(L) = L[8]
      BY <1>15, <1>16, <2>1, SMTT(30)
  <2>6. L[5] = "ok" /\ L[6] = "ok" /\ L[7] = "ok" /\ L[8] = "ok" /\ L[9] # "ok" => Verdict(L) = L[9]
      BY <1>15, <1>16, <2>1, SMTT(30)
  <2>7. L[5] = "ok" /\ L[6] = "ok" /\ L[7] = "ok" /\ L[8] = "ok" /\ L[9] = "ok" /\ L[10] # "ok"
           => Verdict(L) = L[10]
      BY <1>15, <1>16, <2>1, SMTT(30)
  <2> QED BY <2>2, <2>3, <2>4, <2>5, <2>6, <2>7, Zenon
<1>17. /\ e.report.sound /\ e.eds.root # "other" /\ e.eds.current /\ e.eds.vcek =>
            L[1] = "ok" /\ L[2] = "ok" /\ L[3] = "ok" /\ L[4] = "ok"
    BY <1>2, <1>3, Zenon
<1>18. L = NativeChecks(e.report, e.eds, e.uvm, p)
    BY Zenon DEF L
<1> QED BY <1>1, <1>4, <1>5, <1>6, <1>7, <1>8, <1>9, <1>14, <1>16, <1>17, <1>18, ZenonT(40)

\* The verdict on a capture, as the first of its checks that fails.
LEMMA AppraiseVerdict ==
    ASSUME NEW profile, NEW e, NEW spki, NEW p
    PROVE  Appraise(profile, e, spki, p) =
             Before(Before(Before(Before(Check("UNSUPPORTED_PROFILE", profile = "azure-aci-snp"),
                                         Before(Check("PROFILE_NOT_ACTIVE", p.active),
                                                Check("POLICY_NOT_VALID", p.valid))),
                                  Check("SIGNATURE_INVALID", e.intact /\ e.signer = spki)),
                           Verdict(NativeChecks(e.report, e.eds, e.uvm, p))),
                    Check("KEY_BINDING_MISMATCH", e.report.key = spki))
<1> DEFINE k == Check("UNSUPPORTED_PROFILE", profile = "azure-aci-snp")
           a == Check("PROFILE_NOT_ACTIVE", p.active)
           v == Check("POLICY_NOT_VALID", p.valid)
           s == Check("SIGNATURE_INVALID", e.intact /\ e.signer = spki)
           b == Check("KEY_BINDING_MISMATCH", e.report.key = spki)
           N == NativeChecks(e.report, e.eds, e.uvm, p)
<1>1. k \in Verdicts /\ a \in Verdicts /\ v \in Verdicts /\ s \in Verdicts /\ b \in Verdicts
    BY Zenon DEF Check, Verdicts
<1>2. N \in Seq(Verdicts)
    BY NativeList, Zenon
<1>3. Appraise(profile, e, spki, p) = Verdict((((<<k>> \o <<a, v>>) \o <<s>>) \o N) \o <<b>>)
    BY Zenon DEF Appraise, AppraiseChecks, PolicyChecks
<1> HIDE DEF k, a, v, s, b, N
<1>4. /\ <<k>> \in Seq(Verdicts) /\ Verdict(<<k>>) = k /\ <<s>> \in Seq(Verdicts) /\ Verdict(<<s>>) = s
      /\ <<b>> \in Seq(Verdicts) /\ Verdict(<<b>>) = b
      /\ <<a, v>> \in Seq(Verdicts) /\ Verdict(<<a, v>>) = Before(a, v)
    BY <1>1, VerdictOfOne, VerdictOfTwo, Zenon
<1> DEFINE K == <<k>>
           A == <<a, v>>
           S == <<s>>
           B == <<b>>
<1>5. /\ K \in Seq(Verdicts) /\ Verdict(K) = k /\ S \in Seq(Verdicts) /\ Verdict(S) = s
      /\ B \in Seq(Verdicts) /\ Verdict(B) = b /\ A \in Seq(Verdicts) /\ Verdict(A) = Before(a, v)
      /\ Appraise(profile, e, spki, p) = Verdict((((K \o A) \o S) \o N) \o B)
    BY <1>3, <1>4, Zenon
<1> HIDE DEF K, A, S, B
<1>6. K \o A \in Seq(Verdicts) /\ Verdict(K \o A) = Before(k, Before(a, v))
    BY <1>5, VerdictConcat
<1>7. (K \o A) \o S \in Seq(Verdicts) /\ Verdict((K \o A) \o S) = Before(Before(k, Before(a, v)), s)
    BY <1>5, <1>6, VerdictConcat, Zenon
<1>8. /\ ((K \o A) \o S) \o N \in Seq(Verdicts)
      /\ Verdict(((K \o A) \o S) \o N) = Before(Before(Before(k, Before(a, v)), s), Verdict(N))
    BY <1>2, <1>7, VerdictConcat, Zenon
<1>9. Appraise(profile, e, spki, p) = Before(Before(Before(Before(k, Before(a, v)), s), Verdict(N)), b)
    BY <1>5, <1>8, VerdictConcat, ZenonT(40)
<1> QED BY <1>9, ZenonT(40) DEF k, a, v, s, b, N

\* The verdict on a node, as the first of its checks that fails.
LEMMA AuditVerdict ==
    ASSUME NEW q, NEW peer, NEW p
    PROVE  AuditNode(q, peer, p) =
             Before(Before(Before(Before(Check("PROFILE_NOT_ACTIVE", p.active), Check("POLICY_NOT_VALID", p.valid)),
                                  Check("KEY_BINDING_MISMATCH", q.node_id = peer)),
                           Verdict(NativeChecks(q.report, q.eds, q.uvm, p))),
                    Before(Check("KEY_BINDING_MISMATCH", q.report.key = peer),
                           Check("MEASUREMENT_REJECTED", q.measurement = q.report.image)))
<1> DEFINE a == Check("PROFILE_NOT_ACTIVE", p.active)
           v == Check("POLICY_NOT_VALID", p.valid)
           s == Check("KEY_BINDING_MISMATCH", q.node_id = peer)
           b == Check("KEY_BINDING_MISMATCH", q.report.key = peer)
           m == Check("MEASUREMENT_REJECTED", q.measurement = q.report.image)
           N == NativeChecks(q.report, q.eds, q.uvm, p)
<1>1. a \in Verdicts /\ v \in Verdicts /\ s \in Verdicts /\ b \in Verdicts /\ m \in Verdicts
    BY Zenon DEF Check, Verdicts
<1>2. N \in Seq(Verdicts)
    BY NativeList, Zenon
<1>3. AuditNode(q, peer, p) = Verdict(((<<a, v>> \o <<s>>) \o N) \o <<b, m>>)
    BY Zenon DEF AuditNode, AuditChecks, PolicyChecks
<1> HIDE DEF a, v, s, b, m, N
<1> DEFINE A == <<a, v>>
           S == <<s>>
           B == <<b, m>>
<1>5. /\ S \in Seq(Verdicts) /\ Verdict(S) = s /\ B \in Seq(Verdicts) /\ Verdict(B) = Before(b, m)
      /\ A \in Seq(Verdicts) /\ Verdict(A) = Before(a, v)
      /\ AuditNode(q, peer, p) = Verdict(((A \o S) \o N) \o B)
    BY <1>1, <1>3, VerdictOfOne, VerdictOfTwo, Zenon
<1> HIDE DEF A, S, B
<1>6. A \o S \in Seq(Verdicts) /\ Verdict(A \o S) = Before(Before(a, v), s)
    BY <1>5, VerdictConcat, Zenon
<1>7. /\ (A \o S) \o N \in Seq(Verdicts)
      /\ Verdict((A \o S) \o N) = Before(Before(Before(a, v), s), Verdict(N))
    BY <1>2, <1>6, VerdictConcat, ZenonT(40)
<1>8. AuditNode(q, peer, p) = Before(Before(Before(Before(a, v), s), Verdict(N)), Before(b, m))
    BY <1>5, <1>7, VerdictConcat, ZenonT(40)
<1> QED BY <1>8, Zenon DEF a, v, s, b, m, N

\* What an appraisal that ends well has seen.
LEMMA AppraisedWhole ==
    ASSUME NEW profile, NEW e, NEW spki, NEW p
    PROVE  Appraise(profile, e, spki, p) = "ok" <=>
             /\ profile = "azure-aci-snp" /\ p.active /\ p.valid /\ e.intact /\ e.signer = spki
             /\ NativePasses(e, p) /\ e.report.key = spki
<1>1. Verdict(NativeChecks(e.report, e.eds, e.uvm, p)) = "ok" <=> NativePasses(e, p)
    BY NativeVerdict, Zenon
<1> QED BY <1>1, AppraiseVerdict, Zenon DEF Before, Check

\* A node passes its audit exactly if every check passes.
LEMMA AuditedWhole ==
    ASSUME NEW q, NEW peer, NEW p
    PROVE  AuditNode(q, peer, p) = "ok" <=>
             /\ p.active /\ p.valid /\ q.node_id = peer /\ NativePasses(q, p)
             /\ q.report.key = peer /\ q.measurement = q.report.image
<1>1. Verdict(NativeChecks(q.report, q.eds, q.uvm, p)) = "ok" <=> NativePasses(q, p)
    BY NativeVerdict, Zenon
<1> QED BY <1>1, AuditVerdict, ZenonT(40) DEF Before, Check

-----------------------------------------------------------------------------
(* CaptureFlow: trust reaches only guests of the governed release.         *)

\* A guest's evidence is its own, and only an approved guest runs a governed policy.
LEMMA OwnEvidence ==
    ASSUME NEW g
    PROVE  /\ EvidenceOf(g).signer = g /\ EvidenceOf(g).report.cce = PolicyOf(g)
           /\ PolicyOf(g) \in Governed.cces => g \in Approved
<1>1. EvidenceOf(g).signer = g /\ EvidenceOf(g).report = ReportOf(g)
    BY Zenon DEF EvidenceOf
<1>2. ReportOf(g).cce = PolicyOf(g)
    BY Zenon DEF ReportOf
<1>3. Governed.cces = {Good}
    BY Zenon DEF Governed, GovernedPolicy
<1> QED BY <1>1, <1>2, <1>3, CaptureFlowAssumption, Zenon DEF PolicyOf

FlowInv ==
    /\ DOMAIN dir = {"capture", "evidence", "spki", "peer"}
    /\ sign.pc \in {"read", "appraised"} => sign.peer = sign.spki
    /\ sign.pc = "appraised" => sign.peer \in Approved
    /\ audit.pc = "audited" => audit.peer \in Approved
    /\ OnlyAttestedTrusted

\* Every step keeps the invariant of the capture flow.
LEMMA FlowStep == FlowInv /\ [FlowNext]_flowVars => FlowInv'
<1> SUFFICES ASSUME FlowInv, [FlowNext]_flowVars PROVE FlowInv'
    BY Zenon
<1> USE CaptureFlowAssumption
<1>1. CASE UNCHANGED <<dir, sign, audit, tokens, service, verified>>
    BY <1>1, Zenon DEF FlowInv, OnlyAttestedTrusted
<1>2. CASE UNCHANGED flowVars
    BY <1>1, <1>2, Zenon DEF flowVars
<1>3. ASSUME NEW g \in Guests, GuestStarts(g) \/ GuestStops(g) \/ Fetch(g) PROVE FlowInv'
    BY <1>1, <1>3, Zenon DEF GuestStarts, GuestStops, Fetch
<1>4. CASE FetchDies
    BY <1>1, <1>4, Zenon DEF FetchDies
<1>5. CASE WriteFile
  <2>1. DOMAIN dir' = DOMAIN dir /\ UNCHANGED <<sign, audit, tokens, service, verified>>
      BY <1>5, Zenon DEF WriteFile
  <2> QED BY <2>1, Zenon DEF FlowInv, OnlyAttestedTrusted
<1>6. CASE VerifyBundle
  <2> DEFINE b == Bundle(dir)
             c == dir["capture"]
  <2>1. /\ VerifyNativeAci(b, Governed) /\ verified' = dir
        /\ UNCHANGED <<dir, sign, audit, tokens, service>>
      BY <1>6, Zenon DEF VerifyBundle
  <2>2. /\ b.capture = [evidence |-> b.evidence, spki |-> b.spki, peer |-> b.peer]
        /\ b.evidence.report.cce \in Governed.cces
      BY <2>1, ZenonT(40) DEF VerifyNativeAci, ReportApproved
  <2>3. /\ b.capture = CaptureOf(c) /\ b.evidence = EvidenceOf(dir["evidence"])
        /\ b.spki = dir["spki"] /\ b.peer = dir["peer"]
      BY Zenon DEF Bundle
  <2>4. CaptureOf(c).evidence = EvidenceOf(c) /\ CaptureOf(c).spki = c /\ CaptureOf(c).peer = c
      BY Zenon DEF CaptureOf
  <2> HIDE DEF b
  <2>5. EvidenceOf(c) = EvidenceOf(dir["evidence"]) /\ dir["spki"] = c /\ dir["peer"] = c
      BY <2>2, <2>3, <2>4, SMTT(30)
  <2>6. dir["evidence"] = c
      BY <2>5, OwnEvidence, Zenon
  <2>7. c \in Approved
      BY <2>2, <2>3, <2>6, OwnEvidence, SMTT(30)
  <2>8. \A f \in DOMAIN dir : dir[f] = c
      BY <2>5, <2>6, Zenon DEF FlowInv
  <2> QED BY <2>1, <2>7, <2>8, Zenon DEF FlowInv, OnlyAttestedTrusted
<1>7. ASSUME sign' \in {[pc |-> "idle", spki |-> NoGuest, peer |-> NoGuest]} \/ sign'.pc = "key",
             UNCHANGED <<dir, audit, tokens, service, verified>>
      PROVE  FlowInv'
  <2>1. sign'.pc \in {"idle", "key"}
      BY <1>7
  <2> QED BY <1>7, <2>1, Zenon DEF FlowInv, OnlyAttestedTrusted
<1>8. CASE ReadKey
  <2>1. sign' = [sign EXCEPT !.pc = "key", !.spki = dir["spki"]] /\ UNCHANGED <<dir, audit, tokens, service, verified>>
      BY <1>8, Zenon DEF ReadKey
  <2> QED BY <1>7, <2>1
<1>9. CASE ReadPeer
  <2>1. UNCHANGED <<dir, audit, tokens, service, verified>> /\ sign.pc = "key"
      BY <1>9, Zenon DEF ReadPeer
  <2>2. CASE dir["peer"] = sign.spki
    <3>1. sign' = [sign EXCEPT !.pc = "read", !.peer = dir["peer"]]
        BY <1>9, <2>2, Zenon DEF ReadPeer
    <3>2. sign'.pc = "read" /\ sign'.peer = dir["peer"] /\ sign'.spki = sign.spki
        BY <3>1
    <3> QED BY <2>1, <2>2, <3>2, Zenon DEF FlowInv, OnlyAttestedTrusted
  <2>3. CASE dir["peer"] # sign.spki
      BY <1>7, <1>9, <2>1, <2>3, Zenon DEF ReadPeer, SignEnds
  <2> QED BY <2>2, <2>3, Zenon
<1>10. CASE AppraiseCapture
  <2>1. UNCHANGED <<dir, audit, tokens, service, verified>> /\ sign.pc = "read"
      BY <1>10, Zenon DEF AppraiseCapture
  <2>2. CASE /\ Appraise("azure-aci-snp", EvidenceOf(dir["evidence"]), dir["spki"], Governed) = "ok"
             /\ dir["spki"] = sign.spki
    <3>1. sign' = [sign EXCEPT !.pc = "appraised"]
        BY <1>10, <2>2, Zenon DEF AppraiseCapture
    <3>2. sign'.pc = "appraised" /\ sign'.peer = sign.peer /\ sign'.spki = sign.spki
        BY <3>1, SMTT(30)
    <3>3. EvidenceOf(dir["evidence"]).signer = dir["spki"] /\ NativePasses(EvidenceOf(dir["evidence"]), Governed)
        BY <2>2, AppraisedWhole, SMTT(30)
    <3>4. sign.spki \in Approved
        BY <2>2, <3>3, OwnEvidence, ZenonT(40) DEF NativePasses
    <3> QED BY <2>1, <3>2, <3>4, Zenon DEF FlowInv, OnlyAttestedTrusted
  <2>3. CASE ~(/\ Appraise("azure-aci-snp", EvidenceOf(dir["evidence"]), dir["spki"], Governed) = "ok"
               /\ dir["spki"] = sign.spki)
      BY <1>7, <1>10, <2>1, <2>3, Zenon DEF AppraiseCapture, SignEnds
  <2> QED BY <2>2, <2>3, Zenon
<1>11. ASSUME NEW g \in Guests, SendToken(g) PROVE FlowInv'
  <2>1. /\ sign.pc = "appraised" /\ tokens' = (IF g = sign.peer THEN tokens \cup {g} ELSE tokens)
        /\ sign' = [pc |-> "idle", spki |-> NoGuest, peer |-> NoGuest]
        /\ UNCHANGED <<dir, audit, service, verified>>
      BY <1>11, Zenon DEF SendToken, SignEnds
  <2>2. tokens' \subseteq Approved /\ sign'.pc = "idle"
      BY <2>1, Zenon DEF FlowInv, OnlyAttestedTrusted
  <2> QED BY <2>1, <2>2, Zenon DEF FlowInv, OnlyAttestedTrusted
<1>12. CASE SignDies
    BY <1>7, <1>12, Zenon DEF SignDies, SignEnds
<1>13. ASSUME NEW g \in Guests, GetQuote(g) PROVE FlowInv'
  <2>1. UNCHANGED <<dir, sign, tokens, service, verified>>
      BY <1>13, Zenon DEF GetQuote
  <2>2. CASE AuditNode(QuoteOf(g), g, Governed) = "ok"
    <3>1. audit' = [pc |-> "audited", peer |-> g]
        BY <1>13, <2>2, Zenon DEF GetQuote
    <3>2. NativePasses(QuoteOf(g), Governed)
        BY <2>2, AuditedWhole, Zenon
    <3>3. QuoteOf(g).report = EvidenceOf(g).report
        BY Zenon DEF QuoteOf
    <3>4. g \in Approved
        BY <3>2, <3>3, OwnEvidence, ZenonT(40) DEF NativePasses
    <3> QED BY <2>1, <3>1, <3>4, Zenon DEF FlowInv, OnlyAttestedTrusted
  <2>3. CASE AuditNode(QuoteOf(g), g, Governed) # "ok"
      BY <1>1, <1>13, <2>1, <2>3, Zenon DEF GetQuote
  <2> QED BY <2>2, <2>3, Zenon
<1>14. ASSUME NEW g \in Guests, GetNetwork(g) PROVE FlowInv'
  <2>1. /\ audit.pc = "audited" /\ service' = (IF g = audit.peer THEN g ELSE service)
        /\ audit' = [pc |-> "idle", peer |-> NoGuest] /\ UNCHANGED <<dir, sign, tokens, verified>>
      BY <1>14, Zenon DEF GetNetwork, AuditEnds
  <2> QED BY <2>1, Zenon DEF FlowInv, OnlyAttestedTrusted
<1>15. CASE AuditDies
  <2>1. audit' = [pc |-> "idle", peer |-> NoGuest] /\ UNCHANGED <<dir, sign, tokens, service, verified>>
      BY <1>15, Zenon DEF AuditDies, AuditEnds
  <2> QED BY <2>1, Zenon DEF FlowInv, OnlyAttestedTrusted
<1> QED BY <1>2, <1>3, <1>4, <1>5, <1>6, <1>8, <1>9, <1>10, <1>11, <1>12, <1>13, <1>14, <1>15, Zenon DEF FlowNext

\* Only attested guests are trusted, in every reachable state.
LEMMA FlowCorrect == FlowSpec => []OnlyAttestedTrusted
<1>1. FlowInit => FlowInv
    BY SMTT(30) DEF FlowInit, FlowInv, OnlyAttestedTrusted
<1>2. FlowInv => OnlyAttestedTrusted
    BY Zenon DEF FlowInv
<1> QED BY <1>1, <1>2, FlowStep, PTL DEF FlowSpec

-----------------------------------------------------------------------------
(* EvidenceCheck: two programs written apart give one verdict.             *)

\* The policy the offline check is given.
LEMMA PolicyFacts ==
    /\ policy.active = TRUE /\ policy.valid = TRUE /\ policy.approved_release = TRUE
    /\ policy.images = {ApprovedImage} /\ policy.cces = {ApprovedPolicy} /\ policy.dids = {"ours"}
    /\ policy.min_tcb = 1 /\ policy.min_svn = 1
    /\ policy = [active |-> TRUE, valid |-> TRUE, images |-> {ApprovedImage}, cces |-> {ApprovedPolicy},
                 min_tcb |-> 1, dids |-> {"ours"}, min_svn |-> 1, approved_release |-> TRUE]
BY Zenon DEF policy, GovernedPolicy

\* What a saved capture consists of.
LEMMA CaptureFacts ==
    ASSUME NEW b \in Captures
    PROVE  /\ b.kind = "worker"
           /\ b.capture = [evidence |-> b.evidence, spki |-> b.spki, peer |-> b.peer]
           /\ b.evidence.intact = TRUE
           /\ b.evidence.report \in Reports /\ b.evidence.eds \in AmdChains /\ b.evidence.uvm \in Endorsements
           /\ b.evidence = [intact |-> TRUE, signer |-> b.evidence.signer, report |-> b.evidence.report,
                            eds |-> b.evidence.eds, uvm |-> b.evidence.uvm]
<1>1. PICK e \in Evidence, k \in Keys : b = [kind |-> "worker", evidence |-> e, spki |-> Spki, peer |-> k,
                                            capture |-> [evidence |-> e, spki |-> Spki, peer |-> k]]
    BY SMTT(30) DEF Captures
<1>2. PICK i \in Keys, r \in Reports, c \in AmdChains, u \in Endorsements :
         e = [intact |-> TRUE, signer |-> i, report |-> r, eds |-> c, uvm |-> u]
    BY SMTT(30) DEF Evidence
<1>3. b.kind = "worker" /\ b.evidence = e /\ b.spki = Spki /\ b.peer = k
      /\ b.capture = [evidence |-> e, spki |-> Spki, peer |-> k]
    BY <1>1, Zenon
<1>4. e.intact = TRUE /\ e.signer = i /\ e.report = r /\ e.eds = c /\ e.uvm = u
    BY <1>2, Zenon
<1> QED BY <1>2, <1>3, <1>4, ZenonT(40)

\* What a saved quote consists of.
LEMMA QuoteFacts ==
    ASSUME NEW q \in Quotes
    PROVE  /\ q.kind = "node"
           /\ q.report \in Reports /\ q.eds \in AmdChains /\ q.uvm \in Endorsements
<1>1. PICK k \in Keys, i \in Images, r \in Reports, c \in AmdChains, u \in Endorsements :
         q = [kind |-> "node", node_id |-> Spki, peer |-> k, measurement |-> i, report |-> r, eds |-> c, uvm |-> u]
    BY SMTT(30) DEF Quotes
<1> QED BY <1>1, Zenon

\* The offline verdict on a capture, by the capture's parts.
LEMMA WorkerVerdicts ==
    ASSUME NEW b \in Captures
    PROVE  VerifyNativeAci(b, policy) <=>
             /\ b.peer = b.spki /\ ~b.evidence.uvm.current
             /\ Appraise("azure-aci-snp", b.evidence, b.spki, policy) = "ok"
<1>1. Appraise("azure-aci-snp", b.evidence, b.spki, policy) = "ok" <=>
        /\ policy.active /\ policy.valid /\ b.evidence.intact /\ b.evidence.signer = b.spki
        /\ NativePasses(b.evidence, policy) /\ b.evidence.report.key = b.spki
    BY AppraisedWhole, SMTT(30)
<1> QED BY <1>1, PolicyFacts, CaptureFacts, ZenonT(40)
        DEF VerifyNativeAci, NativePasses, VerifySign1, ReportApproved, AmdVerified, UvmVerified

\* The offline verdict on a quote is that of the audit.
LEMMA NodeVerdicts ==
    ASSUME NEW q \in Quotes
    PROVE  VerifyNativeCcf(q, q.peer, policy) <=> AuditNode(q, q.peer, policy) = "ok"
<1>1. AuditNode(q, q.peer, policy) = "ok" <=>
        /\ policy.active /\ policy.valid /\ q.node_id = q.peer /\ NativePasses(q, policy)
        /\ q.report.key = q.peer /\ q.measurement = q.report.image
    BY AuditedWhole, Zenon
<1>2. VerifyNativeCcf(q, q.peer, policy) => AuditNode(q, q.peer, policy) = "ok"
    BY <1>1, ZenonT(40) DEF VerifyNativeCcf, PolicyAndBinding, NativePasses, ReportApproved, AmdVerified, UvmVerified
<1>3. ASSUME AuditNode(q, q.peer, policy) = "ok" PROVE VerifyNativeCcf(q, q.peer, policy)
  <2>1. /\ q.node_id = q.peer /\ q.measurement = q.report.image
        /\ PolicyAndBinding(q.report, q.peer, policy) /\ AmdVerified(q.eds)
        /\ UvmVerified(q.uvm, q.report.image, policy)
      BY <1>1, <1>3, ZenonT(40) DEF PolicyAndBinding, NativePasses, ReportApproved, AmdVerified, UvmVerified
  <2>2. \A k \in Keys \ {q.peer} : ~PolicyAndBinding(q.report, k, policy)
      BY <1>1, <1>3, Zenon DEF PolicyAndBinding
  <2>3. /\ [policy EXCEPT !.cces = {}].cces = {} /\ [policy EXCEPT !.images = {}].images = {}
        /\ [policy EXCEPT !.active = FALSE].active = FALSE /\ [policy EXCEPT !.valid = FALSE].valid = FALSE
        /\ [policy EXCEPT !.min_tcb = Unreachable].min_tcb = 2
        /\ [policy EXCEPT !.min_svn = Unreachable].min_svn = 2
        /\ [policy EXCEPT !.approved_release = FALSE].approved_release = FALSE
      BY PolicyFacts, Zenon DEF Unreachable
  <2>4. q.report.tcb \in {0, 1} /\ q.uvm.svn \in {0, 1}
      BY QuoteFacts, Zenon DEF Reports, Endorsements
  <2>5. ~(q.report.tcb >= 2) /\ ~(q.uvm.svn >= 2)
      BY <2>4
  <2>6. ASSUME NEW altered \in {[policy EXCEPT !.cces = {}], [policy EXCEPT !.images = {}],
                               [policy EXCEPT !.active = FALSE], [policy EXCEPT !.valid = FALSE],
                               [policy EXCEPT !.min_tcb = Unreachable]}
        PROVE  ~PolicyAndBinding(q.report, q.peer, altered)
    <3>1. altered.cces = {} \/ altered.images = {} \/ altered.active = FALSE \/ altered.valid = FALSE
             \/ altered.min_tcb = 2
        BY <2>3, Zenon
    <3> QED BY <2>5, <3>1, Zenon DEF PolicyAndBinding, ReportApproved
  <2>7. ~UvmVerified(q.uvm, q.report.image, [policy EXCEPT !.min_svn = Unreachable])
      BY <2>3, <2>5, Zenon DEF UvmVerified
  <2>8. ~q.uvm.current => ~UvmVerified(q.uvm, q.report.image, [policy EXCEPT !.approved_release = FALSE])
      BY <2>3, Zenon DEF UvmVerified
  <2>9. CcfNegatives(q, q.peer, policy)
      BY <2>2, <2>6, <2>7, <2>8, Zenon DEF CcfNegatives
  <2> QED BY <2>1, <2>9, ZenonT(40) DEF VerifyNativeCcf
<1> QED BY <1>2, <1>3, Zenon

\* Every altered input of check_native_appraisal.py fails with the error its
\* case names.
LEMMA CasesAgree ==
    ASSUME NEW b \in Captures, VerifyNativeAci(b, policy) PROVE CheckNativeAppraisal(b, policy)
<1> DEFINE e == b.evidence
           profile == "azure-aci-snp"
           native(q) == Verdict(NativeChecks(e.report, e.eds, e.uvm, q))
<1>1. Appraise(profile, e, b.spki, policy) = "ok"
    BY WorkerVerdicts, Zenon
<1>2. /\ e.intact /\ e.signer = b.spki /\ e.report.key = b.spki /\ ~e.uvm.current
      /\ e.report.sound /\ e.eds.root = "genoa" /\ e.eds.current /\ e.eds.vcek
      /\ e.report.tcb >= 1 /\ e.uvm.svn >= 1 /\ e.report.tcb \in {0, 1} /\ e.uvm.svn \in {0, 1}
      /\ e.report.image = ApprovedImage /\ e.report.cce = ApprovedPolicy /\ e.uvm.did = "ours"
      /\ e.uvm.image = e.report.image
  <2>1. /\ e.intact /\ e.signer = b.spki /\ e.report.key = b.spki /\ NativePasses(e, policy)
      BY <1>1, AppraisedWhole, SMTT(30)
  <2>2. ~e.uvm.current
      BY WorkerVerdicts, Zenon
  <2>3. e.report.tcb \in {0, 1} /\ e.uvm.svn \in {0, 1}
      BY CaptureFacts, ZenonT(40) DEF Reports, Endorsements
  <2> QED BY <2>1, <2>2, <2>3, PolicyFacts, ZenonT(40) DEF NativePasses
<1>3. ~(e.report.tcb >= 2) /\ ~(e.uvm.svn >= 2)
    BY <1>2, SMTT(30)
<1>4. ASSUME NEW q, q.active, q.valid PROVE Appraise(profile, e, b.spki, q) = native(q)
    BY <1>2, <1>4, AppraiseVerdict, ZenonT(40) DEF Before, Check
<1>5. ASSUME NEW q, ~q.active PROVE Appraise(profile, e, b.spki, q) = "PROFILE_NOT_ACTIVE"
    BY <1>5, AppraiseVerdict, ZenonT(40) DEF Before, Check
<1>6. ASSUME NEW q, q.active, ~q.valid PROVE Appraise(profile, e, b.spki, q) = "POLICY_NOT_VALID"
    BY <1>6, AppraiseVerdict, ZenonT(40) DEF Before, Check
<1>7. Appraise("host-amd-sev-snp", e, b.spki, policy) = "UNSUPPORTED_PROFILE"
    BY AppraiseVerdict, ZenonT(40) DEF Before, Check
<1>8. ASSUME NEW k \in Keys \ {b.spki} PROVE Appraise(profile, e, k, policy) = "SIGNATURE_INVALID"
    BY <1>2, <1>8, AppraiseVerdict, PolicyFacts, Zenon DEF Before, Check
<1>9. Appraise(profile, [e EXCEPT !.intact = FALSE], b.spki, policy) = "SIGNATURE_INVALID"
  <2>1. [e EXCEPT !.intact = FALSE].intact = FALSE
      BY CaptureFacts
  <2> QED BY <2>1, AppraiseVerdict, PolicyFacts, Zenon DEF Before, Check
<1>10. Appraise(profile, e, b.spki, [policy EXCEPT !.active = FALSE]) = "PROFILE_NOT_ACTIVE"
  <2>1. [policy EXCEPT !.active = FALSE].active = FALSE
      BY PolicyFacts, Zenon
  <2> QED BY <1>5, <2>1, Zenon
<1>11. Appraise(profile, e, b.spki, [policy EXCEPT !.valid = FALSE]) = "POLICY_NOT_VALID"
  <2>1. [policy EXCEPT !.valid = FALSE].valid = FALSE /\ [policy EXCEPT !.valid = FALSE].active = TRUE
      BY PolicyFacts, Zenon
  <2> QED BY <1>6, <2>1, Zenon
<1>12. Appraise(profile, e, b.spki, [policy EXCEPT !.cces = {}]) = "CCE_HOST_DATA_REJECTED"
  <2> DEFINE q == [policy EXCEPT !.cces = {}]
  <2>1. /\ q.active = TRUE /\ q.valid = TRUE /\ q.images = {ApprovedImage} /\ q.cces = {} /\ q.dids = {"ours"}
        /\ q.min_tcb = 1 /\ q.min_svn = 1 /\ q.approved_release = TRUE
      BY PolicyFacts, Zenon DEF Unreachable
  <2> HIDE DEF q
  <2>2. native(q) = "CCE_HOST_DATA_REJECTED"
      BY <1>2, <1>3, <2>1, NativeVerdict, ZenonT(40)
  <2>3. Appraise(profile, e, b.spki, q) = native(q)
      BY <1>4, <2>1, Zenon
  <2> QED BY <2>2, <2>3, Zenon DEF q
<1>13. Appraise(profile, e, b.spki, [policy EXCEPT !.images = {}]) = "MEASUREMENT_REJECTED"
  <2> DEFINE q == [policy EXCEPT !.images = {}]
  <2>1. /\ q.active = TRUE /\ q.valid = TRUE /\ q.images = {} /\ q.cces = {ApprovedPolicy} /\ q.dids = {"ours"}
        /\ q.min_tcb = 1 /\ q.min_svn = 1 /\ q.approved_release = TRUE
      BY PolicyFacts, Zenon DEF Unreachable
  <2> HIDE DEF q
  <2>2. native(q) = "MEASUREMENT_REJECTED"
      BY <1>2, <1>3, <2>1, NativeVerdict, ZenonT(40)
  <2>3. Appraise(profile, e, b.spki, q) = native(q)
      BY <1>4, <2>1, Zenon
  <2> QED BY <2>2, <2>3, Zenon DEF q
<1>14. Appraise(profile, e, b.spki, [policy EXCEPT !.min_tcb = @ + 1]) = "TCB_BELOW_MINIMUM"
  <2> DEFINE q == [policy EXCEPT !.min_tcb = @ + 1]
  <2>1. /\ q.active = TRUE /\ q.valid = TRUE /\ q.images = {ApprovedImage} /\ q.cces = {ApprovedPolicy} /\ q.dids = {"ours"}
        /\ q.min_tcb = 2 /\ q.min_svn = 1 /\ q.approved_release = TRUE
      BY PolicyFacts, SMTT(30) DEF Unreachable
  <2> HIDE DEF q
  <2>2. native(q) = "TCB_BELOW_MINIMUM"
      BY <1>2, <1>3, <2>1, NativeVerdict, ZenonT(40)
  <2>3. Appraise(profile, e, b.spki, q) = native(q)
      BY <1>4, <2>1, Zenon
  <2> QED BY <2>2, <2>3, Zenon DEF q
<1>15. Appraise(profile, e, b.spki, [policy EXCEPT !.min_svn = Unreachable]) = "UVM_SVN_BELOW_MINIMUM"
  <2> DEFINE q == [policy EXCEPT !.min_svn = Unreachable]
  <2>1. /\ q.active = TRUE /\ q.valid = TRUE /\ q.images = {ApprovedImage} /\ q.cces = {ApprovedPolicy} /\ q.dids = {"ours"}
        /\ q.min_tcb = 1 /\ q.min_svn = 2 /\ q.approved_release = TRUE
      BY PolicyFacts, Zenon DEF Unreachable
  <2> HIDE DEF q
  <2>2. native(q) = "UVM_SVN_BELOW_MINIMUM"
      BY <1>2, <1>3, <2>1, NativeVerdict, ZenonT(40)
  <2>3. Appraise(profile, e, b.spki, q) = native(q)
      BY <1>4, <2>1, Zenon
  <2> QED BY <2>2, <2>3, Zenon DEF q
<1>16. Appraise(profile, e, b.spki, [policy EXCEPT !.approved_release = FALSE]) = "CERTIFICATE_INVALID"
  <2> DEFINE q == [policy EXCEPT !.approved_release = FALSE]
  <2>1. /\ q.active = TRUE /\ q.valid = TRUE /\ q.images = {ApprovedImage} /\ q.cces = {ApprovedPolicy} /\ q.dids = {"ours"}
        /\ q.min_tcb = 1 /\ q.min_svn = 1 /\ q.approved_release = FALSE
      BY PolicyFacts, Zenon DEF Unreachable
  <2> HIDE DEF q
  <2>2. native(q) = "CERTIFICATE_INVALID"
      BY <1>2, <1>3, <2>1, NativeVerdict, ZenonT(40)
  <2>3. Appraise(profile, e, b.spki, q) = native(q)
      BY <1>4, <2>1, Zenon
  <2> QED BY <2>2, <2>3, Zenon DEF q
<1>17. Appraise(profile, e, b.spki, [policy EXCEPT !.dids = {}]) = "UVM_IDENTITY_REJECTED"
  <2> DEFINE q == [policy EXCEPT !.dids = {}]
  <2>1. /\ q.active = TRUE /\ q.valid = TRUE /\ q.images = {ApprovedImage} /\ q.cces = {ApprovedPolicy} /\ q.dids = {}
        /\ q.min_tcb = 1 /\ q.min_svn = 1 /\ q.approved_release = TRUE
      BY PolicyFacts, Zenon DEF Unreachable
  <2> HIDE DEF q
  <2>2. native(q) = "UVM_IDENTITY_REJECTED"
      BY <1>2, <1>3, <2>1, NativeVerdict, ZenonT(40)
  <2>3. Appraise(profile, e, b.spki, q) = native(q)
      BY <1>4, <2>1, Zenon
  <2> QED BY <2>2, <2>3, Zenon DEF q
<1> HIDE DEF e, profile
<1>18. ASSUME NEW c \in Cases(b, policy) PROVE Appraise(c.profile, c.e, c.spki, c.p) = c.verdict
  <2> DEFINE record(t, f, k, q, v) == [profile |-> t, e |-> f, spki |-> k, p |-> q, verdict |-> v]
  <2>1. \/ c = record(profile, e, b.spki, policy, "ok")
        \/ c = record(profile, [e EXCEPT !.intact = FALSE], b.spki, policy, "SIGNATURE_INVALID")
        \/ c = record("host-amd-sev-snp", e, b.spki, policy, "UNSUPPORTED_PROFILE")
        \/ c = record(profile, e, b.spki, [policy EXCEPT !.active = FALSE], "PROFILE_NOT_ACTIVE")
        \/ c = record(profile, e, b.spki, [policy EXCEPT !.cces = {}], "CCE_HOST_DATA_REJECTED")
        \/ c = record(profile, e, b.spki, [policy EXCEPT !.images = {}], "MEASUREMENT_REJECTED")
        \/ c = record(profile, e, b.spki, [policy EXCEPT !.min_tcb = @ + 1], "TCB_BELOW_MINIMUM")
        \/ c = record(profile, e, b.spki, [policy EXCEPT !.min_svn = Unreachable], "UVM_SVN_BELOW_MINIMUM")
        \/ c = record(profile, e, b.spki, [policy EXCEPT !.valid = FALSE], "POLICY_NOT_VALID")
        \/ c = record(profile, e, b.spki, [policy EXCEPT !.approved_release = FALSE], "CERTIFICATE_INVALID")
        \/ c = record(profile, e, b.spki, [policy EXCEPT !.dids = {}], "UVM_IDENTITY_REJECTED")
        \/ \E k \in Keys \ {b.spki} : c = record(profile, e, k, policy, "SIGNATURE_INVALID")
      BY Zenon DEF Cases, e, profile
  <2>2. ASSUME NEW t, NEW f, NEW k, NEW q, NEW v, c = record(t, f, k, q, v), Appraise(t, f, k, q) = v
        PROVE  Appraise(c.profile, c.e, c.spki, c.p) = c.verdict
    <3>1. c.profile = t /\ c.e = f /\ c.spki = k /\ c.p = q /\ c.verdict = v
        BY <2>2, Zenon
    <3> QED BY <2>2, <3>1, Zenon
  <2> HIDE DEF record
  <2> QED BY <1>1, <1>7, <1>8, <1>9, <1>10, <1>11, <1>12, <1>13, <1>14, <1>15, <1>16, <1>17, <2>1, <2>2
<1> QED BY <1>18, Zenon DEF CheckNativeAppraisal

CheckInv ==
    /\ stage \in {"none", "saved", "verified", "refused", "confirmed"}
    /\ stage # "none" => saved \in Captures \cup Quotes
    /\ stage \in {"verified", "confirmed"} => Accepted
    /\ stage = "refused" => ~Accepted

\* What is accepted offline is what the appraisal accepts, and it is confirmed.
LEMMA AcceptedIsConfirmed ==
    ASSUME saved \in Captures \cup Quotes
    PROVE  (Accepted => Confirmed) /\ (Accepted <=> Appraised)
<1>1. CASE saved \in Captures
    BY <1>1, CaptureFacts, WorkerVerdicts, CasesAgree, ZenonT(40) DEF Accepted, Confirmed, Appraised
<1>2. CASE saved \in Quotes
  <2>1. saved.kind # "worker"
      BY <1>2, QuoteFacts, Zenon
  <2> QED BY <1>2, <2>1, NodeVerdicts, Zenon DEF Accepted, Confirmed, Appraised
<1> QED BY <1>1, <1>2, Zenon

\* The offline check agrees with the appraisal in every reachable state.
LEMMA CheckCorrect == CheckSpec => []OfflineAgrees
<1>1. CheckInit => CheckInv
    BY Zenon DEF CheckInit, CheckInv
<1>2. CheckInv /\ [CheckNext]_checkVars => CheckInv'
  <2> SUFFICES ASSUME CheckInv, [CheckNext]_checkVars PROVE CheckInv'
      BY Zenon
  <2>1. CASE UNCHANGED checkVars
      BY <2>1, Zenon DEF checkVars, CheckInv, Accepted
  <2>2. ASSUME NEW evidence \in Captures \cup Quotes, Save(evidence) PROVE CheckInv'
      BY <2>2, Zenon DEF Save, CheckInv
  <2>3. CASE Verifier
      BY <2>3, Zenon DEF Verifier, CheckInv, Accepted
  <2>4. CASE Appraiser
    <3>1. stage = "verified" /\ saved \in Captures \cup Quotes /\ Accepted /\ saved' = saved
        BY <2>4, Zenon DEF Appraiser, CheckInv
    <3>2. stage' = "confirmed"
        BY <2>4, <3>1, AcceptedIsConfirmed, Zenon DEF Appraiser
    <3> QED BY <3>1, <3>2, Zenon DEF CheckInv, Accepted
  <2> QED BY <2>1, <2>2, <2>3, <2>4, Zenon DEF CheckNext
<1>3. CheckInv => OfflineAgrees
  <2> SUFFICES ASSUME CheckInv PROVE OfflineAgrees
      BY Zenon
  <2>1. stage # "failed"
      BY Zenon DEF CheckInv
  <2>2. stage = "refused" => ~Appraised
      BY AcceptedIsConfirmed, Zenon DEF CheckInv
  <2>3. ASSUME stage = "confirmed", saved.kind = "worker"
        PROVE  VerifySnp(saved.evidence.report, saved.evidence.eds, saved.evidence.uvm)
    <3>1. VerifyNativeAci(saved, policy)
        BY <2>3, Zenon DEF CheckInv, Accepted
    <3> QED BY <3>1, PolicyFacts, Zenon DEF VerifyNativeAci, AmdVerified, UvmVerified, VerifySnp
  <2>4. ASSUME stage = "confirmed", saved.kind # "worker"
        PROVE  VerifySnp(saved.report, saved.eds, saved.uvm)
    <3>1. VerifyNativeCcf(saved, saved.peer, policy)
        BY <2>4, Zenon DEF CheckInv, Accepted
    <3> QED BY <3>1, PolicyFacts, Zenon DEF VerifyNativeCcf, AmdVerified, UvmVerified, VerifySnp
  <2> QED BY <2>1, <2>2, <2>3, <2>4, Zenon DEF OfflineAgrees
<1> QED BY <1>1, <1>2, <1>3, PTL DEF CheckSpec

\* Two programs written apart give one verdict, and trust reaches only guests
\* of the governed release (adns-attest, verify_native_aci.py,
\* verify_native_ccf.py, sign_capture_request.py and audit_ccf_node.py).
THEOREM AppraisalCorrect == CheckSpec /\ FlowSpec => []AppraisalSound
<1>1. OfflineAgrees /\ OnlyAttestedTrusted => AppraisalSound
    BY Zenon DEF AppraisalSound
<1> QED BY <1>1, CheckCorrect, FlowCorrect, PTL

=============================================================================
