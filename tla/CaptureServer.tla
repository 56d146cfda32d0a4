---------------------------- MODULE CaptureServer ----------------------------
(***************************************************************************)
(* The listeners of a capture worker (tools/capture_aci.py): the HTTPS     *)
(* listener of the controller and one mail fixture per configured port.    *)
(* Every listener has a fixed number of slots; a connection takes one      *)
(* before a thread is started for it.  An HTTPS connection ends at one     *)
(* deadline, except that a request under way in CaptureState goes on: it   *)
(* may wait for the lock, which register() holds while it talks to the     *)
(* service.  A mail session is a bounded number of commands under one      *)
(* deadline.                                                               *)
(*                                                                         *)
(* Time is counted in the unit the code's limits are multiples of.         *)
(***************************************************************************)
EXTENDS CaptureSigner

CONSTANTS
    Connections,
    ServerOf,      \* the listener each goes to: "https", "smtp", "smtps" or "imaps"
    MaxSlots,      \* per listener: 8
    HttpSeconds,   \* HTTP_DEADLINE_SECONDS
    CcfSeconds,    \* CCF_DEADLINE_SECONDS
    MailSeconds,   \* a mail session's 30 s
    OpSeconds,     \* 10 s for one receive, send or handshake
    MaxCommands    \* commands per mail session: 16

Servers == {"https", "smtp", "smtps", "imaps"}

ASSUME CaptureServerAssumption ==
    /\ ServerOf \in [Connections -> Servers]
    /\ {MaxSlots, HttpSeconds, CcfSeconds, MailSeconds, OpSeconds, MaxCommands} \subseteq Nat \ {0}

VARIABLES
    thread,   \* the handler thread of each connection, if it has one
    slots,    \* free slots per listener
    lock      \* the connection whose handler holds CaptureState._lock

serverVars == <<thread, slots, lock>>

Nobody == "none"
NoThread == [stage |-> "none", age |-> 0, wait |-> 0, limit |-> 0,
             secured |-> FALSE, commands |-> 0]
HttpStages == {"handshake", "request", "lock", "work", "reply"}
MailStages == {"tls", "greet", "receive"}

ServerTypeOK ==
    /\ thread \in [Connections -> [stage : {"none"} \cup HttpStages \cup MailStages, age : Nat,
                                   wait : Nat, limit : Nat, secured : BOOLEAN,
                                   commands : 0 .. MaxCommands]]
    /\ slots \in [Servers -> Nat]
    /\ lock \in Connections \cup {Nobody}

\* main: the listener and a fixture for every port are up.
ServerInit ==
    /\ thread = [c \in Connections |-> NoThread]
    /\ slots = [s \in Servers |-> MaxSlots]
    /\ lock = Nobody

Lesser(a, b) == IF a <= b THEN a ELSE b
Serving(c) == thread[c].stage # "none"
Http(c) == ServerOf[c] = "https"

\* process_request_thread ends, in whichever way: the slot is released.
Ends(c) ==
    /\ thread' = [thread EXCEPT ![c] = NoThread]
    /\ slots' = [slots EXCEPT ![ServerOf[c]] = @ + 1]

\* Faulty variant: each operation has its ten seconds, whatever is left.
Blocks_NoDeadline(c, stage, secured, commands) ==
    /\ thread' = [thread EXCEPT ![c] =
          [stage |-> stage, age |-> thread[c].age, wait |-> 0, limit |-> OpSeconds,
           secured |-> secured, commands |-> commands]]
    /\ UNCHANGED slots

\* timeout(): the next operation of a mail session has ten seconds, or what is
\* left of the session, and a session that is over ends.
Blocks(c, stage, secured, commands) ==
    IF thread[c].age >= MailSeconds THEN Ends(c)
    ELSE /\ thread' = [thread EXCEPT ![c] =
                [stage |-> stage, age |-> thread[c].age, wait |-> 0,
                 limit |-> Lesser(OpSeconds, MailSeconds - thread[c].age),
                 secured |-> secured, commands |-> commands]]
         /\ UNCHANGED slots

\* A connection that got a slot gets a thread, in which handshakes are made; a
\* thread that cannot be started gives the slot back.
TakesSlot(c, stage, limit) ==
    /\ ~Serving(c)
    /\ slots[ServerOf[c]] > 0
    /\ \/ /\ slots' = [slots EXCEPT ![ServerOf[c]] = @ - 1]
          /\ thread' = [thread EXCEPT ![c] = [NoThread EXCEPT !.stage = stage, !.limit = limit]]
       \/ UNCHANGED <<slots, thread>>
    /\ UNCHANGED lock

\* BoundedHTTPServer.process_request: without a slot the connection is shut down.
AcceptConnection(c) ==
    Http(c) /\ TakesSlot(c, "handshake", HttpSeconds)

\* MailFixtureServer.process_request: likewise, and the session's first operation
\* is the handshake on a TLS port and the greeting on the other.
AcceptMail(c) ==
    /\ ~Http(c)
    /\ TakesSlot(c, IF ServerOf[c] = "smtp" THEN "greet" ELSE "tls", Lesser(OpSeconds, MailSeconds))

-----------------------------------------------------------------------------
(* The HTTPS listener.                                                     *)

Moves(c, stage, limit) ==
    thread' = [thread EXCEPT ![c].stage = stage, ![c].wait = 0, ![c].limit = limit]

Handshake(c) ==
    /\ thread[c].stage = "handshake"
    /\ Moves(c, "request", 0)
    /\ UNCHANGED <<slots, lock>>

\* Faulty variant: a failed TLS handshake leaves without releasing the slot.
HandshakeFails_Leak(c) ==
    /\ thread[c].stage = "handshake"
    /\ thread' = [thread EXCEPT ![c] = NoThread]
    /\ UNCHANGED <<slots, lock>>

HandshakeFails(c) ==
    /\ thread[c].stage = "handshake"
    /\ Ends(c)
    /\ UNCHANGED lock

\* do_GET and the refusals of do_POST answer at once; an authorized, exact
\* request goes to CaptureState.
Request(c) ==
    /\ thread[c].stage = "request"
    /\ Moves(c, "reply", 0) \/ Moves(c, "lock", 0)
    /\ UNCHANGED <<slots, lock>>

\* register() may put two requests to the service, each with its deadline; the
\* other operations do not wait for anything.
TakeLock(c) ==
    /\ thread[c].stage = "lock" /\ lock = Nobody
    /\ lock' = c
    /\ Moves(c, "work", 2 * CcfSeconds) \/ Moves(c, "work", 0)
    /\ UNCHANGED slots

\* The operation returns or raises; either is answered.
FinishWork(c) ==
    /\ thread[c].stage = "work"
    /\ lock' = Nobody
    /\ Moves(c, "reply", 0)
    /\ UNCHANGED slots

\* The answer is sent, or the transport is gone.
Reply(c) ==
    /\ thread[c].stage = "reply"
    /\ Ends(c)
    /\ UNCHANGED lock

\* The client goes, or SocketDeadline shuts the transport down: what waits for
\* the client ends.
TransportEnds(c) ==
    /\ thread[c].stage = "request"
    /\ Ends(c)
    /\ UNCHANGED lock

-----------------------------------------------------------------------------
(* The mail fixtures.                                                      *)

\* start_tls, at once on the TLS ports and once per session on the others.
StartTls(c) ==
    /\ thread[c].stage = "tls"
    /\ Blocks(c, IF thread[c].commands = 0 THEN "greet" ELSE "receive", TRUE, thread[c].commands)
    /\ UNCHANGED lock

\* The greeting is sent; bytes of a line arrive one by one.
Receives(c) ==
    /\ thread[c].stage \in {"greet", "receive"}
    /\ Blocks(c, "receive", thread[c].secured, thread[c].commands)
    /\ UNCHANGED lock

\* A line is complete.  It is answered and the next one read, unless it was the
\* last one allowed; only an unsecured SMTP session starts TLS.
Command(c) ==
    /\ thread[c].stage = "receive"
    /\ IF thread[c].commands + 1 = MaxCommands THEN Ends(c)
       ELSE \/ Blocks(c, "receive", thread[c].secured, thread[c].commands + 1)
            \/ /\ ServerOf[c] = "smtp" /\ ~thread[c].secured
               /\ Blocks(c, "tls", FALSE, thread[c].commands + 1)
    /\ UNCHANGED lock

\* QUIT or LOGOUT, a malformed line, the client's end of stream, a failed
\* handshake, an operation that took its time.
SessionEnds(c) ==
    /\ thread[c].stage \in MailStages
    /\ Ends(c)
    /\ UNCHANGED lock

-----------------------------------------------------------------------------
\* The thread waits for the client, or for the service, no longer than it may.
MayWait(c) ==
    CASE thread[c].stage \in {"handshake", "request"} -> thread[c].age < HttpSeconds
      [] thread[c].stage = "reply" -> FALSE
      [] thread[c].stage \in MailStages \cup {"work"} -> thread[c].wait < thread[c].limit
      [] OTHER -> TRUE

ServerTick ==
    /\ \E c \in Connections : Serving(c)
    /\ \A c \in Connections : MayWait(c)
    /\ thread' = [c \in Connections |->
                    IF ~Serving(c) THEN thread[c]
                    ELSE [thread[c] EXCEPT !.age = IF Http(c) THEN Lesser(@ + 1, HttpSeconds) ELSE @ + 1,
                                           !.wait = IF thread[c].stage = "lock" THEN @ ELSE @ + 1]]
    /\ UNCHANGED <<slots, lock>>

ServerNext ==
    \/ \E c \in Connections :
          \/ AcceptConnection(c) \/ AcceptMail(c)
          \/ Handshake(c) \/ HandshakeFails(c) \/ Request(c) \/ TakeLock(c) \/ FinishWork(c)
          \/ Reply(c) \/ TransportEnds(c)
          \/ StartTls(c) \/ Receives(c) \/ Command(c) \/ SessionEnds(c)
    \/ ServerTick

ServerSpec == ServerInit /\ [][ServerNext]_serverVars

-----------------------------------------------------------------------------
(* Properties.                                                             *)

\* No slot is lost or made on any way a handler can end, so a listener that has
\* no running handlers takes its full number of connections.
SlotsExact ==
    \A s \in Servers :
        slots[s] + Cardinality({c \in Connections : ServerOf[c] = s /\ Serving(c)}) = MaxSlots

\* A mail session is over at its deadline, however slowly the peer sends its
\* bytes and handshakes and however many commands it spreads them over.
SessionBounded ==
    \A c \in Connections : (Serving(c) /\ ~Http(c)) => thread[c].age <= MailSeconds

\* Slots are exact, and mail sessions give theirs back in time.
SlotsSound == ServerTypeOK /\ SlotsExact /\ SessionBounded

\* The capture worker holds on to what it still needs under load and over time:
\* CaptureState forgets no signature and no challenge that the service may still
\* act on, and the listeners get every slot back, a mail session's by its deadline.
WorkerSound == SignerSound /\ SlotsSound

=============================================================================
