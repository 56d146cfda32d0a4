------------------------------ MODULE DevServer ------------------------------
(***************************************************************************)
(* The development server (adns-dev) over the in-memory storage            *)
(* (adns-storage).  HTTP handlers and the maintenance timer take the       *)
(* mutation lock, commit an optimistic transaction, seal the whole store   *)
(* to a file and only then publish the signed snapshot that queries and    *)
(* transfers are answered from.  With the lock released they NOTIFY the    *)
(* secondary, ask for its serial and store what they learnt.  The process  *)
(* may crash at every step, saving may fail, and a client may go away,     *)
(* which drops its handler at the next await.                              *)
(***************************************************************************)
EXTENDS Naturals

CONSTANTS Posts,      \* the request ids clients post (and post again)
          Timer,      \* the maintenance task
          LastSerial  \* bound: zone changes stop at this serial

Tasks == Posts \cup {Timer}

ASSUME DevServerAssumption ==
    Timer \notin Posts /\ "free" \notin Tasks /\ LastSerial \in Nat \ {0}

VARIABLES running,    \* the process listens
          db,         \* the committed State of MemoryStorage
          mutation,   \* holds the mutation lock, or "free"
          task,       \* each handler and the timer
          disk,       \* the sealed state file
          snapshot,   \* the serial of the published SignedZone
          secondary,  \* the serial the secondary serves
          answered    \* the requests that got a successful response

devVars == <<running, db, mutation, task, disk, snapshot, secondary, answered>>

\* What the properties tell apart of the tables: the requests with a result, the
\* zone's serial (0: no zone yet), and the secondary's row (0: None).
Stores == [results : SUBSET Posts, serial : 0..LastSerial,
           notified : 0..LastSerial, observed : 0..LastSerial]

Empty == [results |-> {}, serial |-> 0, notified |-> 0, observed |-> 0]

\* A task: its step; whether its transaction's base revision is still the store's;
\* whether it changed the zone; the snapshot it announces; its copy of the row.
Idle == [step |-> "idle", current |-> TRUE, changed |-> FALSE,
         zone |-> 0, notified |-> 0, observed |-> 0]

Steps == {"idle", "open", "committed", "saved", "released", "asked", "heard"}

DevInit ==
    /\ running = FALSE
    /\ db = Empty /\ disk = Empty
    /\ mutation = "free"
    /\ task = [t \in Tasks |-> Idle]
    /\ snapshot = 0 /\ secondary = 0
    /\ answered = {}

At(t, step) == running /\ task[t].step = step
Moves(t, step) == task' = [task EXCEPT ![t] = [task[t] EXCEPT !.step = step]]

\* A commit moves the revision: no other open transaction is current any more.
Superseded(t, own) ==
    [u \in Tasks |-> IF u = t THEN own
                     ELSE [task[u] EXCEPT !.current = task[u].step # "open"]]

-----------------------------------------------------------------------------
(* main: restore the image, or initialize the zone, and persist before     *)
(* anything listens.                                                       *)
Boot ==
    /\ ~running
    /\ running' = TRUE
    /\ db' = IF disk = Empty THEN [Empty EXCEPT !.serial = 1] ELSE disk
    /\ disk' = db'
    /\ snapshot' = db'.serial
    /\ UNCHANGED <<mutation, task, secondary, answered>>

Crash ==
    /\ running
    /\ running' = FALSE
    /\ db' = Empty /\ snapshot' = 0
    /\ mutation' = "free"
    /\ task' = [t \in Tasks |-> Idle]
    /\ UNCHANGED <<disk, secondary, answered>>

-----------------------------------------------------------------------------
(* The mutating half of http, and the timer's loop.                        *)

\* mutation.lock().await, then db.write() takes the current state as its base.
Begin(t) ==
    /\ At(t, "idle")
    /\ mutation = "free"
    /\ mutation' = t
    /\ task' = [task EXCEPT ![t] = [Idle EXCEPT !.step = "open"]]
    /\ UNCHANGED <<running, db, disk, snapshot, secondary, answered>>

\* mutate_observed or maintenance returns an error: the transaction is dropped.
Refuse(t) ==
    /\ At(t, "open")
    /\ task' = [task EXCEPT ![t] = Idle]
    /\ mutation' = "free"
    /\ UNCHANGED <<running, db, disk, snapshot, secondary, answered>>

\* What the transaction writes: a new result with its zone change, a rejection
\* or a replay that leaves the zone, a maintenance that re-signs or does not.
Writes(t, changed) ==
    IF changed
    THEN [db EXCEPT !.serial = @ + 1, !.results = @ \cup ({t} \ {Timer})]
    ELSE db

\* MemoryWrite::commit.  Another revision is a Conflict: the handler answers
\* 503, the timer saves nothing and goes on.
Commit(t, changed) ==
    /\ At(t, "open")
    /\ changed => t \notin db.results /\ db.serial < LastSerial
    /\ IF task[t].current
       THEN /\ db' = Writes(t, changed)
            /\ task' = Superseded(t, [task[t] EXCEPT !.step = "committed", !.changed = changed])
            /\ UNCHANGED mutation
       ELSE /\ task' = [task EXCEPT ![t] = IF t = Timer THEN [Idle EXCEPT !.step = "released"]
                                                        ELSE Idle]
            /\ mutation' = "free"
            /\ UNCHANGED db
    /\ UNCHANGED <<running, disk, snapshot, secondary, answered>>

\* persist seals the store as it is now; rename replaces the file in one step.
Save(t) ==
    /\ At(t, "committed")
    /\ disk' = db
    /\ Moves(t, "saved")
    /\ UNCHANGED <<running, db, mutation, snapshot, secondary, answered>>

\* Faulty variant: persist publishes the snapshot before it saves.
SaveFails_Published(t) ==
    /\ At(t, "committed")
    /\ disk' \in {disk, db}
    /\ task' = [task EXCEPT ![t] = IF t = Timer THEN [task[t] EXCEPT !.step = "released"]
                                                ELSE Idle]
    /\ mutation' = "free"
    /\ snapshot' = db.serial
    /\ UNCHANGED <<running, db, secondary, answered>>

\* save_private fails, before the rename or in the directory's sync after it.
\* The handler answers 503; the timer logs and goes on.
SaveFails(t) ==
    /\ At(t, "committed")
    /\ disk' \in {disk, db}
    /\ task' = [task EXCEPT ![t] = IF t = Timer THEN [task[t] EXCEPT !.step = "released"]
                                                ELSE Idle]
    /\ mutation' = "free"
    /\ UNCHANGED <<running, db, snapshot, secondary, answered>>

\* persist ends, the lock is dropped; a request that changed no zone is answered.
Publish(t) ==
    /\ At(t, "saved")
    /\ snapshot' = db.serial
    /\ mutation' = "free"
    /\ IF t = Timer \/ task[t].changed
       THEN Moves(t, "released") /\ UNCHANGED answered
       ELSE /\ task' = [task EXCEPT ![t] = Idle]
            /\ answered' = answered \cup ({t} \cap db.results)
    /\ UNCHANGED <<running, db, disk, secondary>>

\* The client closes its connection: the handler is dropped where it awaits the
\* snapshot's lock or the exchange, and with it the mutation lock it holds.
Disconnect(r) ==
    /\ running /\ task[r].step \in {"saved", "released", "asked", "heard"}
    /\ task' = [task EXCEPT ![r] = Idle]
    /\ mutation' = IF mutation = r THEN "free" ELSE mutation
    /\ UNCHANGED <<running, db, disk, snapshot, secondary, answered>>

-----------------------------------------------------------------------------
(* notify_and_observe, for one secondary, with no lock until the row is    *)
(* written back.                                                           *)

ReadRow(t) ==
    /\ At(t, "released")
    /\ task' = [task EXCEPT ![t] = [task[t] EXCEPT !.step = "asked", !.zone = snapshot,
                                       !.notified = db.notified, !.observed = db.observed]]
    /\ UNCHANGED <<running, db, mutation, disk, snapshot, secondary, answered>>

\* The NOTIFY is acknowledged or not; the SOA query is answered or not.
Exchange(t, acknowledged, answers) ==
    /\ At(t, "asked")
    /\ acknowledged => task[t].changed
    /\ task' = [task EXCEPT ![t] =
                  [Idle EXCEPT !.step = "heard",
                               !.notified = IF acknowledged THEN task[t].zone
                                                            ELSE task[t].notified,
                               !.observed = IF answers THEN secondary ELSE task[t].observed]]
    /\ UNCHANGED <<running, db, mutation, disk, snapshot, secondary, answered>>

\* Faulty variant: the row is committed without the mutation lock.
StoreRow_NoLock(t) ==
    /\ At(t, "heard")
    /\ db' = [db EXCEPT !.notified = task[t].notified, !.observed = task[t].observed]
    /\ task' = Superseded(t, Idle)
    /\ answered' = answered \cup ({t} \ {Timer})
    /\ UNCHANGED <<running, mutation, disk, snapshot, secondary>>

\* The whole row is put and committed under the lock; the handler answers.
StoreRow(t) ==
    /\ At(t, "heard")
    /\ mutation = "free"
    /\ db' = [db EXCEPT !.notified = task[t].notified, !.observed = task[t].observed]
    /\ task' = Superseded(t, Idle)
    /\ answered' = answered \cup ({t} \ {Timer})
    /\ UNCHANGED <<running, mutation, disk, snapshot, secondary>>

\* The secondary transfers the published zone when its serial is newer.
Transfer ==
    /\ running /\ snapshot > secondary
    /\ secondary' = snapshot
    /\ UNCHANGED <<running, db, mutation, task, disk, snapshot, answered>>

DevNext ==
    \/ Boot \/ Crash \/ Transfer
    \/ \E t \in Tasks :
          \/ Begin(t) \/ Refuse(t) \/ Save(t) \/ SaveFails(t) \/ Publish(t)
          \/ ReadRow(t) \/ StoreRow(t)
          \/ \E changed \in BOOLEAN : Commit(t, changed)
          \/ \E acknowledged, answers \in BOOLEAN : Exchange(t, acknowledged, answers)
    \/ \E r \in Posts : Disconnect(r)

DevSpec == DevInit /\ [][DevNext]_devVars

-----------------------------------------------------------------------------
\* A request answered with success is in the saved image, so no crash takes it
\* back (http answers after persist).
AnswersDurable == answered \subseteq disk.results

\* What queries and transfers were answered from has been saved first: the
\* secondary is never ahead of the zone a restarted server begins with, and the
\* published serial never falls behind it (persist saves, then publishes).
NeverAheadOfDisk ==
    /\ secondary <= disk.serial
    /\ running => /\ secondary <= snapshot
                  /\ snapshot <= disk.serial
                  /\ disk.serial <= db.serial

\* The transaction of whoever holds the lock is current, so commit never meets a
\* Conflict (every db.write is under the mutation lock).
NoConflict == \A t \in Tasks : task[t].step = "open" => mutation = t /\ task[t].current

\* The row never names a serial the secondary has not been notified of or has not
\* served, though tasks write back whole copies they read before an exchange.
RowTrue == db.observed <= secondary /\ db.notified <= disk.serial

\* What the development server promises over crashes, failed saves and clients
\* that go away.
DevServerSound == AnswersDurable /\ NeverAheadOfDisk /\ NoConflict /\ RowTrue

=============================================================================
