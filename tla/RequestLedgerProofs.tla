------------------------ MODULE RequestLedgerProofs ------------------------
(***************************************************************************)
(* Requests are admitted once, what clients are told is durable, and the   *)
(* ledger implements RequestOutcome, for any number of requests, nonces,   *)
(* views and transactions.                                                 *)
(*                                                                         *)
(* The argument is about histories.  The view of every seqno identifies a  *)
(* history: a rollback raises the view, so a position that is written      *)
(* again carries another view, and a transaction id found in the history   *)
(* proves that everything before it is what it was when the id was taken.  *)
(*                                                                         *)
(* The last section is about the receipts the ledger signs, which share no *)
(* state with it.                                                          *)
(***************************************************************************)
EXTENDS RequestLedger, Receipts, FiniteSetTheorems, TLAPS

\* The committed history is a prefix of the executed one, views never fall along
\* it, and none is above the current view.
HistorySound ==
    /\ Len(committed.history) <= Len(kv.history)
    /\ \A i \in 1 .. Len(committed.history) : committed.history[i] = kv.history[i]
    /\ \A i, j \in 1 .. Len(kv.history) : i <= j => kv.history[i] <= kv.history[j]
    /\ \A i \in 1 .. Len(kv.history) : kv.history[i] <= view

\* A result is stored under its request and by a transaction of the history; it
\* and the effect of the request are one.
ResultsSound(s) ==
    /\ \A q \in Requests : s.results[q] # None =>
          /\ s.results[q].digest.request = q
          /\ s.results[q].version \in 1 .. Len(s.history)
          /\ [message |-> s.results[q].digest, version |-> s.results[q].version] \in s.effects
    /\ \A e \in s.effects :
          s.results[e.message.request] = [digest |-> e.message, version |-> e.version]

\* What is executed differs from what is committed only in later versions.
ExtendsCommitted ==
    /\ \A q \in Requests : committed.results[q] # None => kv.results[q] = committed.results[q]
    /\ \A q \in Requests :
          (kv.results[q] # None /\ kv.results[q].version <= Len(committed.history))
             => committed.results[q] = kv.results[q]
    /\ committed.configuration.last_time <= kv.configuration.last_time
    /\ committed.configuration.epoch <= kv.configuration.epoch

\* The messages a nonce was issued in.
Issued == {r.message : r \in {r \in told \cup inflight : r.kind = "nonce"}}

\* A row belongs to a nonce that was drawn, and to the message it was issued in;
\* its diagnostic belongs to the row.
Rows(s, drawn, issued) ==
    /\ \A n \in NonceIds : s.nonces[n] # None => n \in drawn
    /\ \A m \in issued : s.nonces[m.nonce] # None =>
          s.nonces[m.nonce].request = m.request /\ s.nonces[m.nonce].intent = m.intent
    /\ \A n \in NonceIds : s.attempts[n] # None =>
          /\ s.nonces[n] # None
          /\ s.attempts[n].request = s.nonces[n].request
          /\ s.attempts[n].intent = s.nonces[n].intent
          /\ s.attempts[n].expires_at = s.nonces[n].expires_at

\* A nonce with an effect has no row, and was issued for the effect.
RowsSound(s) ==
    /\ Rows(s, generated, Issued)
    /\ \A e \in s.effects : /\ e.message.nonce \in generated
                            /\ s.nonces[e.message.nonce] = None
                            /\ \E r \in told : r.kind = "nonce" /\ r.message = e.message

BoundsSound(s) ==
    /\ Cardinality(NonceRows(s)) <= MAX_OUTSTANDING_NONCES
    /\ \A g \in Grants : Cardinality(GrantRows(s, g)) <= MAX_GRANT_NONCES

\* The store has the result that a response reports, by the transaction it names.
Stored(r, s) ==
    /\ s.results[r.message.request] = [digest |-> r.message, version |-> Reported(r).seqno]
    /\ InHistory(Reported(r), s.history)

\* A response waits for a transaction of an earlier view, or of this view and its
\* history.  While the history has that transaction, it has the one reported.
Held(r) ==
    /\ r.tx.seqno >= 1
    /\ r.tx.view <= view
    /\ r.tx.view = view => r.tx.seqno <= Len(kv.history)
    /\ r.original # None => r.kind = "result"
    /\ r.kind = "result" => Reported(r).seqno \in 1 .. r.tx.seqno
    /\ (r.kind = "result" /\ InHistory(r.tx, kv.history)) => Stored(r, kv)

InflightSound == \A r \in inflight : Held(r)

ToldStored == \A r \in told : r.kind = "result" => Reported(r).seqno >= 1 /\ Stored(r, committed)

\* A nonce is issued in one message.
IssuedDrawn ==
    /\ \A m \in Issued : m.nonce \in generated
    /\ \A m, k \in Issued : m.nonce = k.nonce => m = k

Inv ==
    /\ TypeOK
    /\ HistorySound
    /\ ResultsSound(kv) /\ ResultsSound(committed)
    /\ ExtendsCommitted
    /\ RowsSound(kv) /\ RowsSound(committed)
    /\ BoundsSound(kv) /\ BoundsSound(committed)
    /\ InflightSound
    /\ ToldStored
    /\ IssuedDrawn

---------------------------------------------------------------------------
(* Operators.                                                              *)

\* A configuration with another watermark.
LEMMA ConfigurationAt ==
    ASSUME NEW c \in Configuration, NEW now \in Nat
    PROVE  /\ [c EXCEPT !.last_time = now] \in Configuration
           /\ [c EXCEPT !.last_time = now].last_time = now
           /\ [c EXCEPT !.last_time = now].epoch = c.epoch
           /\ c.last_time \in Nat /\ c.epoch \in Nat
BY Zenon DEF Configuration

\* Collecting removes rows together with their diagnostics and leaves everything
\* else of the store alone.
LEMMA CollectedFacts ==
    ASSUME NEW s \in Store, NEW now \in Nat
    PROVE  /\ Collected(s, now) \in Store
           /\ Collected(s, now).configuration = s.configuration
           /\ Collected(s, now).proposed = s.proposed
           /\ Collected(s, now).governed_epoch = s.governed_epoch
           /\ Collected(s, now).results = s.results
           /\ Collected(s, now).effects = s.effects
           /\ Collected(s, now).history = s.history
           /\ \A n \in NonceIds :
                 \/ /\ Collected(s, now).nonces[n] = s.nonces[n]
                    /\ Collected(s, now).attempts[n] = s.attempts[n]
                 \/ /\ Collected(s, now).nonces[n] = None
                    /\ Collected(s, now).attempts[n] = None
BY Zenon DEF Collected, Store

\* Write appends to the history and leaves everything else as the transaction
\* has it.
LEMMA WriteFacts ==
    ASSUME TypeOK, HistorySound, NEW t \in Store, t.history = kv.history, Write(t)
    PROVE  /\ kv' \in Store
           /\ kv'.configuration = t.configuration /\ kv'.results = t.results
           /\ kv'.effects = t.effects /\ kv'.nonces = t.nonces /\ kv'.attempts = t.attempts
           /\ kv'.history = Append(kv.history, view)
           /\ Len(kv'.history) = Len(kv.history) + 1
           /\ \A i \in 1 .. Len(kv.history) : kv'.history[i] = kv.history[i]
           /\ kv'.history[Len(kv.history) + 1] = view
           /\ HistorySound'
<1> USE LedgerAssumption
<1>0. view \in Nat /\ kv.history \in Seq(Nat) /\ committed.history \in Seq(Nat)
    BY DEF TypeOK, Store
<1>1. kv' = [t EXCEPT !.history = Append(kv.history, view)] /\ view' = view /\ committed' = committed
    BY Zenon DEF Write
<1>2. /\ kv' \in Store
      /\ kv'.configuration = t.configuration /\ kv'.results = t.results
      /\ kv'.effects = t.effects /\ kv'.nonces = t.nonces /\ kv'.attempts = t.attempts
      /\ kv'.history = Append(kv.history, view)
  <2>1. kv'.history = Append(kv.history, view) /\ Append(kv.history, view) \in Seq(Nat)
      BY <1>0, <1>1 DEF Store
  <2>2. /\ kv'.configuration = t.configuration /\ kv'.results = t.results
        /\ kv'.effects = t.effects /\ kv'.nonces = t.nonces /\ kv'.attempts = t.attempts
      BY <1>1, Zenon DEF Store
  <2>3. kv' \in Store
      BY <1>1, <2>1, Zenon DEF Store
  <2> QED BY <2>1, <2>2, <2>3, Zenon
<1>3. /\ Len(kv'.history) = Len(kv.history) + 1
      /\ \A i \in 1 .. Len(kv.history) : kv'.history[i] = kv.history[i]
      /\ kv'.history[Len(kv.history) + 1] = view
    BY <1>0, <1>2
<1>4. HistorySound'
  <2>1. /\ Len(kv.history) \in Nat /\ Len(committed.history) \in Nat
        /\ Len(kv'.history) = Len(kv.history) + 1
      BY <1>0, <1>3
  <2>2. /\ Len(committed.history) <= Len(kv'.history)
        /\ \A i \in 1 .. Len(committed.history) : committed.history[i] = kv'.history[i]
      BY <1>3, <2>1 DEF HistorySound
  <2>3. \A i \in 1 .. Len(kv'.history) : kv'.history[i] \in Nat /\ kv'.history[i] <= view
    <3> SUFFICES ASSUME NEW i \in 1 .. Len(kv'.history)
                 PROVE  kv'.history[i] \in Nat /\ kv'.history[i] <= view
        BY Zenon
    <3>1. CASE i = Len(kv.history) + 1
        BY <1>0, <1>3, <3>1, SMTT(30)
    <3>2. CASE i # Len(kv.history) + 1
      <4>1. i \in 1 .. Len(kv.history)
          BY <1>3, <2>1, <3>2
      <4>2. kv.history[i] \in Nat
          BY <1>0, <4>1, SMTT(30)
      <4> QED BY <1>3, <4>1, <4>2, Zenon DEF HistorySound
    <3> QED BY <3>1, <3>2, Zenon
  <2>4. ASSUME NEW i \in 1 .. Len(kv'.history), NEW j \in 1 .. Len(kv'.history), i <= j
        PROVE  kv'.history[i] <= kv'.history[j]
    <3>1. CASE j = Len(kv.history) + 1
        BY <1>3, <2>3, <3>1, Zenon
    <3>2. CASE j # Len(kv.history) + 1
      <4>1. i \in 1 .. Len(kv.history) /\ j \in 1 .. Len(kv.history)
        <5>1. i \in Int /\ j \in Int /\ 1 <= i /\ i <= j /\ j < Len(kv.history) + 1
            BY <2>1, <2>4, <3>2
        <5> QED BY <2>1, <5>1
      <4> QED BY <1>3, <2>4, <4>1, Zenon DEF HistorySound
    <3> QED BY <3>1, <3>2, Zenon
  <2> QED BY <1>1, <2>2, <2>3, <2>4, Zenon DEF HistorySound
<1> QED BY <1>2, <1>3, <1>4, Zenon

\* A transaction taken before a write is in the history after it exactly when it
\* was before: the position written carries the current view.
LEMMA WriteKeepsHistory ==
    ASSUME TypeOK, HistorySound, NEW t \in Store, t.history = kv.history, Write(t),
           NEW tx \in TxId, tx.seqno >= 1, tx.view <= view,
           tx.view = view => tx.seqno <= Len(kv.history)
    PROVE  InHistory(tx, kv'.history) <=> InHistory(tx, kv.history)
<1>1. /\ Len(kv'.history) = Len(kv.history) + 1
      /\ \A i \in 1 .. Len(kv.history) : kv'.history[i] = kv.history[i]
      /\ kv'.history[Len(kv.history) + 1] = view
    BY WriteFacts, Zenon
<1>2. tx.seqno \in Nat /\ tx.view \in Nat /\ Len(kv.history) \in Nat
    BY DEF TxId, TypeOK, Store
<1>3. CASE tx.seqno <= Len(kv.history)
  <2>1. tx.seqno \in 1 .. Len(kv.history)
      BY <1>2, <1>3
  <2> QED BY <1>1, <1>2, <2>1 DEF InHistory
<1>4. CASE tx.seqno = Len(kv.history) + 1
    BY <1>1, <1>2, <1>4 DEF InHistory
<1>5. CASE tx.seqno > Len(kv.history) + 1
    BY <1>1, <1>2, <1>5 DEF InHistory
<1> QED BY <1>2, <1>3, <1>4, <1>5

\* A write that keeps the stored results keeps what waiting responses rely on.
LEMMA WriteKeepsHeld ==
    ASSUME TypeOK, HistorySound, NEW t \in Store, t.history = kv.history, Write(t),
           \A q \in Requests : kv.results[q] # None => t.results[q] = kv.results[q],
           NEW r \in Response, Held(r)
    PROVE  Held(r)'
<1> DEFINE o == Reported(r)
<1>1. /\ Len(kv'.history) = Len(kv.history) + 1
      /\ \A i \in 1 .. Len(kv.history) : kv'.history[i] = kv.history[i]
      /\ kv'.results = t.results /\ view' = view
    BY WriteFacts, Zenon DEF Write
<1>2. /\ r.tx \in TxId /\ o \in TxId /\ r.message.request \in Requests
      /\ Len(kv.history) \in Nat /\ view \in Nat
      /\ r.tx.seqno \in Nat /\ r.tx.view \in Nat /\ o.seqno \in Nat /\ o.view \in Nat
    BY DEF Response, Reported, TxId, Message, TypeOK, Store
<1>3. /\ r.tx.seqno >= 1 /\ r.tx.view <= view
      /\ r.tx.view = view => r.tx.seqno <= Len(kv.history)
    BY Zenon DEF Held
<1>4. InHistory(r.tx, kv'.history) <=> InHistory(r.tx, kv.history)
    BY <1>2, <1>3, WriteKeepsHistory, Zenon
<1>5. ASSUME r.kind = "result", InHistory(r.tx, kv'.history)
      PROVE  Stored(r, kv')
  <2>1. Stored(r, kv) /\ o.seqno \in 1 .. r.tx.seqno
      BY <1>4, <1>5, Zenon DEF Held
  <2>2. kv.results[r.message.request] # None
    <3>1. [digest |-> r.message, version |-> o.seqno] \in RequestResult
        BY <1>2, Zenon DEF RequestResult, Response
    <3> QED BY <2>1, <3>1, NoneAssumption, Zenon DEF Stored
  <2>3. kv'.results[r.message.request] = [digest |-> r.message, version |-> o.seqno]
      BY <1>1, <1>2, <2>1, <2>2, Zenon DEF Stored
  <2>4. InHistory(o, kv'.history)
    <3>1. o.seqno \in 1 .. Len(kv.history) /\ kv.history[o.seqno] = o.view
        BY <1>2, <2>1 DEF Stored, InHistory
    <3> QED BY <1>1, <1>2, <3>1 DEF InHistory
  <2> QED BY <2>3, <2>4, Zenon DEF Stored
<1>6. /\ r.tx.view <= view'
      /\ r.tx.view = view' => r.tx.seqno <= Len(kv'.history)
    BY <1>1, <1>2, <1>3
<1> QED BY <1>3, <1>5, <1>6, Zenon DEF Held, Stored, Reported, InHistory

\* The response of the transaction itself waits for a transaction that the
\* history now has.
LEMMA NewHeld ==
    ASSUME TypeOK, HistorySound, NEW t \in Store, t.history = kv.history, Write(t),
           NEW r \in Response, r.tx = NextTx, r.original = None,
           r.kind = "result" =>
              kv'.results[r.message.request] = [digest |-> r.message, version |-> NextVersion]
    PROVE  Held(r)'
<1>1. /\ Len(kv'.history) = Len(kv.history) + 1
      /\ kv'.history[Len(kv.history) + 1] = view /\ view' = view
    BY WriteFacts, Zenon DEF Write
<1>2. /\ r.tx.view = view /\ r.tx.seqno = Len(kv.history) + 1 /\ Reported(r) = r.tx
      /\ NextVersion = Len(kv.history) + 1 /\ Len(kv.history) \in Nat /\ view \in Nat
    BY DEF NextTx, NextVersion, Reported, TypeOK, Store
<1>3. InHistory(r.tx, kv'.history)
    BY <1>1, <1>2 DEF InHistory
<1>4. r.kind = "result" => Stored(r, kv')
    BY <1>2, <1>3, Zenon DEF Stored
<1>5. Reported(r).seqno \in 1 .. r.tx.seqno
    BY <1>2
<1> QED BY <1>1, <1>2, <1>4, <1>5 DEF Held, Stored, Reported, InHistory

\* One more element keeps a bound that had room.
LEMMA OneMore ==
    ASSUME NEW S, NEW T, NEW x, NEW bound \in Nat, IsFiniteSet(S), T \subseteq S \cup {x},
           Cardinality(S) < bound
    PROVE  Cardinality(T) <= bound
<1>1. IsFiniteSet(S \cup {x}) /\ Cardinality(S \cup {x}) <= Cardinality(S) + 1
  <2>1. IsFiniteSet(S \cup {x}) /\ Cardinality(S) \in Nat
      BY FS_AddElement, FS_CardinalityType, Zenon
  <2>2. Cardinality(S \cup {x}) \in {Cardinality(S), Cardinality(S) + 1}
      BY FS_AddElement, Zenon
  <2> QED BY <2>1, <2>2
<1>2. IsFiniteSet(T) /\ Cardinality(T) <= Cardinality(S \cup {x})
    BY <1>1, FS_Subset, Zenon
<1>3. Cardinality(S) \in Nat /\ Cardinality(T) \in Nat /\ Cardinality(S \cup {x}) \in Nat
    BY <1>1, <1>2, FS_CardinalityType, Zenon
<1> QED BY <1>1, <1>2, <1>3

\* Fewer rows keep the bounds.
LEMMA FewerRows ==
    ASSUME NEW s, NEW t, BoundsSound(s), \A n \in NonceIds : t.nonces[n] \in {s.nonces[n], None}
    PROVE  BoundsSound(t)
<1>1. NonceRows(t) \subseteq NonceRows(s) /\ IsFiniteSet(NonceRows(s))
    BY NonceAssumption, FS_Subset, Zenon DEF NonceRows
<1>2. Cardinality(NonceRows(t)) <= Cardinality(NonceRows(s)) /\ Cardinality(NonceRows(t)) \in Nat
      /\ Cardinality(NonceRows(s)) \in Nat
    BY <1>1, FS_Subset, FS_CardinalityType, Zenon
<1>3. ASSUME NEW g \in Grants
      PROVE  Cardinality(GrantRows(t, g)) <= MAX_GRANT_NONCES
  <2>1. GrantRows(t, g) \subseteq GrantRows(s, g) /\ IsFiniteSet(GrantRows(s, g))
      BY <1>1, FS_Subset, Zenon DEF GrantRows, NonceRows
  <2>2. /\ Cardinality(GrantRows(t, g)) <= Cardinality(GrantRows(s, g))
        /\ Cardinality(GrantRows(t, g)) \in Nat /\ Cardinality(GrantRows(s, g)) \in Nat
      BY <2>1, FS_Subset, FS_CardinalityType, Zenon
  <2> QED BY <2>2, LedgerAssumption DEF BoundsSound
<1> QED BY <1>2, <1>3, LedgerAssumption DEF BoundsSound

---------------------------------------------------------------------------
(* Steps that write.                                                       *)

\* What a write does that keeps the stored results, dates new ones with its own
\* version and moves neither watermark nor epoch back.
LEMMA WriteStep ==
    ASSUME Inv, NEW t \in Store, t.history = kv.history, Write(t),
           \A q \in Requests :
              \/ t.results[q] = kv.results[q]
              \/ /\ kv.results[q] = None
                 /\ t.results[q].version = NextVersion,
           t.configuration.last_time >= kv.configuration.last_time,
           t.configuration.epoch >= kv.configuration.epoch
    PROVE  /\ HistorySound'
           /\ ExtendsCommitted'
           /\ ResultsSound(committed)'
           /\ \A r \in inflight : Held(r)'
<1>1. /\ kv' \in Store /\ HistorySound' /\ committed' = committed /\ view' = view
      /\ kv'.results = t.results /\ kv'.configuration = t.configuration
    BY WriteFacts, Zenon DEF Inv, Write
<1>2. ResultsSound(committed)'
    BY <1>1, Zenon DEF Inv, ResultsSound
<1>3. ASSUME NEW r \in inflight PROVE Held(r)'
  <2>1. r \in Response /\ Held(r)
      BY Zenon DEF Inv, TypeOK, InflightSound
  <2>2. \A q \in Requests : kv.results[q] # None => t.results[q] = kv.results[q]
      BY Zenon
  <2> QED BY <2>1, <2>2, WriteKeepsHeld, Zenon DEF Inv
<1>4. ExtendsCommitted'
  <2>1. \A q \in Requests : committed.results[q] # None => kv'.results[q] = committed.results[q]
      BY <1>1, Zenon DEF Inv, ExtendsCommitted
  <2>2. ASSUME NEW q \in Requests, kv'.results[q] # None,
               kv'.results[q].version <= Len(committed.history)
        PROVE  committed.results[q] = kv'.results[q]
    <3>1. Len(committed.history) \in Nat /\ Len(kv.history) \in Nat
          /\ Len(committed.history) <= Len(kv.history)
        BY DEF Inv, HistorySound, TypeOK, Store
    <3>2. t.results[q] = kv.results[q]
        BY <1>1, <2>2, <3>1 DEF NextVersion
    <3> QED BY <1>1, <2>2, <3>2, Zenon DEF Inv, ExtendsCommitted
  <2>3. /\ committed.configuration.last_time <= kv'.configuration.last_time
        /\ committed.configuration.epoch <= kv'.configuration.epoch
    <3>1. /\ {kv.configuration, t.configuration, committed.configuration} \subseteq Configuration
          /\ committed.configuration.last_time <= kv.configuration.last_time
          /\ committed.configuration.epoch <= kv.configuration.epoch
        BY Zenon DEF Inv, TypeOK, Store, ExtendsCommitted
    <3> QED BY <1>1, <3>1 DEF Configuration
  <2> QED BY <1>1, <2>1, <2>2, <2>3, Zenon DEF ExtendsCommitted
<1> QED BY <1>1, <1>2, <1>3, <1>4, Zenon

\* A write that leaves results and effects alone.
LEMMA WriteSameResults ==
    ASSUME Inv, NEW t \in Store, t.history = kv.history, Write(t),
           t.results = kv.results, t.effects = kv.effects
    PROVE  ResultsSound(kv)'
<1>1. /\ kv'.results = kv.results /\ kv'.effects = kv.effects
      /\ Len(kv'.history) = Len(kv.history) + 1
    BY WriteFacts, Zenon DEF Inv
<1>2. Len(kv.history) \in Nat
    BY DEF Inv, TypeOK, Store
<1>3. ASSUME NEW q \in Requests, kv.results[q] # None
      PROVE  kv.results[q].version \in 1 .. Len(kv'.history)
  <2>1. kv.results[q].version \in 1 .. Len(kv.history)
      BY <1>3, Zenon DEF Inv, ResultsSound
  <2> QED BY <1>1, <1>2, <2>1
<1> QED BY <1>1, <1>3 DEF Inv, ResultsSound

\* What the durable side of the invariant needs from a step that does not commit:
\* the nonces drawn and the responses told only grow, and a nonce issued by the
\* step was not drawn before.
LEMMA CommittedKept ==
    ASSUME Inv, UNCHANGED committed, generated \subseteq generated', told \subseteq told',
           \A m \in Issued' : m \in Issued \/ (m.nonce \in NonceIds /\ m.nonce \notin generated)
    PROVE  RowsSound(committed)' /\ BoundsSound(committed)'
<1>1. \A m \in Issued' : committed.nonces[m.nonce] # None => m \in Issued
    BY Zenon DEF Inv, RowsSound, Rows
<1>2. RowsSound(committed)'
    BY <1>1 DEF Inv, RowsSound, Rows
<1>3. BoundsSound(committed)'
    BY Zenon DEF Inv, BoundsSound, NonceRows, GrantRows
<1> QED BY <1>2, <1>3, Zenon

\* Execute: the result, the effect and the spent nonce are one transaction.
LEMMA ExecuteInv ==
    ASSUME Inv, NEW m \in Message, NEW now \in Times, Execute(m, now)
    PROVE  Inv'
<1> DEFINE res == [digest |-> m, version |-> NextVersion]
           eff == [message |-> m, version |-> NextVersion]
           t == [kv EXCEPT !.nonces[m.nonce] = None, !.attempts[m.nonce] = None,
                           !.results[m.request] = res, !.effects = @ \cup {eff},
                           !.configuration.last_time = now]
           new == [kind |-> "result", message |-> m, tx |-> NextTx, original |-> None]
<1> USE LedgerAssumption
<1>0. /\ kv \in Store /\ now \in Nat /\ m.nonce \in NonceIds /\ m.request \in Requests
      /\ m.intent \in Intents /\ Len(kv.history) \in Nat /\ NextVersion \in Nat /\ view \in Nat
      /\ NextVersion = Len(kv.history) + 1
    BY DEF Inv, TypeOK, Times, Message, Store, NextVersion
<1>d. DOMAIN kv.nonces = NonceIds /\ DOMAIN kv.attempts = NonceIds /\ DOMAIN kv.results = Requests
    BY <1>0, Zenon DEF Store
<1>1. /\ Write(t) /\ inflight' = inflight \cup {new} /\ told' = told /\ generated' = generated
      /\ kv.results[m.request] = None /\ now >= kv.configuration.last_time
      /\ kv.nonces[m.nonce] # None /\ kv.nonces[m.nonce].request = m.request
      /\ kv.nonces[m.nonce].intent = m.intent
      /\ \E r \in told : r.kind = "nonce" /\ r.message.nonce = m.nonce
    BY Zenon DEF Execute, Respond, Unanswered, ValidNonce, Signable
<1>2. /\ t.history = kv.history /\ t.effects = kv.effects \cup {eff}
      /\ t.nonces = [kv.nonces EXCEPT ![m.nonce] = None]
      /\ t.attempts = [kv.attempts EXCEPT ![m.nonce] = None]
      /\ t.results = [kv.results EXCEPT ![m.request] = res]
      /\ t.configuration = [kv.configuration EXCEPT !.last_time = now]
    BY <1>0, Zenon DEF Store
<1>3. t \in Store
  <2>1. res \in RequestResult /\ eff \in [message : Message, version : Nat]
      BY <1>0, Zenon DEF RequestResult
  <2>2. t.configuration \in Configuration
      BY <1>0, <1>2, Zenon DEF Store, Configuration
  <2> QED BY <1>0, <1>2, <2>1, <2>2, Zenon DEF Store
<1> HIDE DEF t
<1>4. /\ HistorySound' /\ ExtendsCommitted' /\ ResultsSound(committed)'
      /\ \A r \in inflight : Held(r)'
  <2>1. /\ t.configuration.last_time >= kv.configuration.last_time
        /\ t.configuration.epoch >= kv.configuration.epoch
      BY <1>0, <1>1, <1>2 DEF Store, Configuration
  <2>2. \A q \in Requests : \/ t.results[q] = kv.results[q]
                            \/ kv.results[q] = None /\ t.results[q].version = NextVersion
      BY <1>0, <1>1, <1>2, SMTT(30) DEF Store
  <2> QED BY <1>1, <1>2, <1>3, <2>1, <2>2, WriteStep, ZenonT(40)
<1>5. /\ kv' \in Store /\ kv'.effects = t.effects /\ kv'.nonces = t.nonces
      /\ kv'.attempts = t.attempts /\ kv'.results = t.results
      /\ Len(kv'.history) = Len(kv.history) + 1
      /\ kv'.history[Len(kv.history) + 1] = view
      /\ committed' = committed /\ view' = view
    BY <1>1, <1>2, <1>3, WriteFacts, ZenonT(40) DEF Inv, Write
<1>6. TypeOK'
  <2>1. new \in Response
      BY <1>0, Zenon DEF Response, NextTx, TxId
  <2> QED BY <1>1, <1>5, <2>1, Zenon DEF Inv, TypeOK
<1>7. ResultsSound(kv)'
  <2>1. \A e \in kv.effects : e.message.request # m.request /\ e.message.request \in Requests
    <3> SUFFICES ASSUME NEW e \in kv.effects
                 PROVE  e.message.request # m.request /\ e.message.request \in Requests
        BY Zenon
    <3>1. e.message \in Message /\ e.version \in Nat /\ e.message.request \in Requests
        BY <1>0, Zenon DEF Store, Message
    <3>2. [digest |-> e.message, version |-> e.version] # None
        BY <3>1, NoneAssumption, SMTT(30) DEF RequestResult
    <3>3. kv.results[e.message.request] = [digest |-> e.message, version |-> e.version]
        BY Zenon DEF Inv, ResultsSound
    <3> QED BY <1>1, <3>1, <3>2, <3>3, Zenon
  <2>2. ASSUME NEW q \in Requests, kv'.results[q] # None
        PROVE  /\ kv'.results[q].digest.request = q
               /\ kv'.results[q].version \in 1 .. Len(kv'.history)
               /\ [message |-> kv'.results[q].digest, version |-> kv'.results[q].version]
                     \in kv'.effects
    <3>1. CASE q = m.request
        BY <1>0, <1>2, <1>5, <3>1, SMTT(30) DEF Store
    <3>2. CASE q # m.request
      <4>1. kv'.results[q] = kv.results[q]
          BY <1>0, <1>2, <1>5, <3>2, SMTT(30) DEF Store
      <4>2. kv.results[q].version \in 1 .. Len(kv.history)
          BY <2>2, <4>1, Zenon DEF Inv, ResultsSound
      <4>3. kv.results[q].version \in 1 .. Len(kv'.history)
          BY <1>0, <1>5, <4>2, SMTT(30)
      <4> QED BY <1>2, <1>5, <2>2, <4>1, <4>3, ZenonT(40) DEF Inv, ResultsSound
    <3> QED BY <3>1, <3>2, Zenon
  <2>3. ASSUME NEW e \in kv'.effects
        PROVE  kv'.results[e.message.request] = [digest |-> e.message, version |-> e.version]
    <3>1. CASE e = eff
        BY <1>0, <1>2, <1>5, <3>1, SMTT(30) DEF Store
    <3>2. CASE e \in kv.effects
      <4>1. kv'.results[e.message.request] = kv.results[e.message.request]
          BY <1>0, <1>2, <1>5, <2>1, <3>2 DEF Store
      <4> QED BY <3>2, <4>1, Zenon DEF Inv, ResultsSound
    <3> QED BY <1>2, <1>5, <3>1, <3>2
  <2> QED BY <2>2, <2>3, Zenon DEF ResultsSound
<1>8. Issued' = Issued
    BY <1>1 DEF Issued
<1>9. RowsSound(committed)' /\ BoundsSound(committed)' /\ IssuedDrawn' /\ ToldStored'
  <2>1. RowsSound(committed)' /\ BoundsSound(committed)'
      BY <1>1, <1>5, <1>8, CommittedKept, Zenon
  <2>2. IssuedDrawn'
      BY <1>1, <1>8, ZenonT(40) DEF Inv, IssuedDrawn
  <2>3. ToldStored'
      BY <1>1, <1>5, ZenonT(40) DEF Inv, ToldStored, Stored, Reported, InHistory
  <2> QED BY <2>1, <2>2, <2>3, Zenon
<1>10. BoundsSound(kv)'
  <2>1. \A n \in NonceIds : kv'.nonces[n] \in {kv.nonces[n], None}
      BY <1>0, <1>2, <1>5 DEF Store
  <2>2. BoundsSound(kv')
      BY <2>1, FewerRows, Zenon DEF Inv
  <2> QED BY <2>2, Zenon DEF BoundsSound, NonceRows, GrantRows
<1>11. RowsSound(kv)'
  <2>0. \E r \in told : r.kind = "nonce" /\ r.message = m
    <3>1. PICK r \in told : r.kind = "nonce" /\ r.message.nonce = m.nonce
        BY <1>1, Zenon
    <3>2. r.message \in Issued /\ r.message \in Message
        BY <3>1, Zenon DEF Issued, Inv, TypeOK, Response
    <3>3. r.message.request = m.request /\ r.message.intent = m.intent
        BY <1>1, <3>1, <3>2, SMTT(30) DEF Inv, RowsSound, Rows
    <3> QED BY <3>1, <3>2, <3>3, SMTT(30) DEF Message
  <2>1. m.nonce \in generated
      BY <1>0, <1>1, Zenon DEF Inv, RowsSound, Rows
  <2>2. \A n \in NonceIds : \/ n = m.nonce /\ kv'.nonces[n] = None /\ kv'.attempts[n] = None
                            \/ /\ n # m.nonce /\ kv'.nonces[n] = kv.nonces[n]
                               /\ kv'.attempts[n] = kv.attempts[n]
    <3>1. \A n \in NonceIds : kv'.nonces[n] = IF n = m.nonce THEN None ELSE kv.nonces[n]
        BY <1>0, <1>d, <1>2, <1>5
    <3>2. \A n \in NonceIds : kv'.attempts[n] = IF n = m.nonce THEN None ELSE kv.attempts[n]
        BY <1>0, <1>d, <1>2, <1>5, SMTT(30)
    <3> QED BY <3>1, <3>2, Zenon
  <2>3. \A n \in NonceIds : kv'.nonces[n] # None => n \in generated
      BY <2>2 DEF Inv, RowsSound, Rows
  <2>4. \A k \in Issued : k.nonce \in NonceIds
      BY Zenon DEF Issued, Inv, TypeOK, Response, Message
  <2>5. \A k \in Issued : kv'.nonces[k.nonce] # None =>
           kv'.nonces[k.nonce].request = k.request /\ kv'.nonces[k.nonce].intent = k.intent
      BY <2>2, <2>4, SMTT(30) DEF Inv, RowsSound, Rows
  <2>6. \A n \in NonceIds : kv'.attempts[n] # None =>
           /\ kv'.nonces[n] # None
           /\ kv'.attempts[n].request = kv'.nonces[n].request
           /\ kv'.attempts[n].intent = kv'.nonces[n].intent
           /\ kv'.attempts[n].expires_at = kv'.nonces[n].expires_at
      BY <2>2 DEF Inv, RowsSound, Rows
  <2>7. \A e \in kv'.effects : /\ e.message.nonce \in generated
                               /\ kv'.nonces[e.message.nonce] = None
                               /\ \E r \in told : r.kind = "nonce" /\ r.message = e.message
    <3>1. \A e \in kv.effects : e.message.nonce \in NonceIds
        BY <1>0, Zenon DEF Store, Message
    <3> QED BY <1>0, <1>2, <1>5, <2>0, <2>1, <2>2, <3>1 DEF Inv, RowsSound, Rows
  <2> QED BY <1>1, <1>8, <2>3, <2>5, <2>6, <2>7, ZenonT(40) DEF RowsSound, Rows
<1>12. InflightSound'
  <2> SUFFICES ASSUME NEW r \in inflight' PROVE Held(r)'
      BY Zenon DEF InflightSound
  <2>1. CASE r = new
    <3>1. /\ r \in Response /\ r.tx = NextTx /\ r.original = None /\ r.message = m
        BY <1>0, <2>1, Zenon DEF Response, NextTx, TxId
    <3>2. kv'.results[m.request] = res
        BY <1>0, <1>d, <1>2, <1>5, SMTT(30)
    <3> QED BY <1>1, <1>2, <1>3, <3>1, <3>2, NewHeld, Zenon DEF Inv
  <2> QED BY <1>1, <1>4, <2>1, Zenon
<1> QED BY <1>4, <1>6, <1>7, <1>9, <1>10, <1>11, <1>12, Zenon DEF Inv

\* A write that leaves results and effects alone, answers with no result and
\* leaves the rows sound.
LEMMA TableWriteInv ==
    ASSUME Inv, NEW t \in Store, Write(t), t.history = kv.history,
           t.results = kv.results, t.effects = kv.effects,
           t.configuration.last_time >= kv.configuration.last_time,
           t.configuration.epoch >= kv.configuration.epoch,
           told' = told, generated \subseteq generated', generated' \subseteq NonceIds,
           \A m \in Issued' : m.nonce \in generated' /\ (m \in Issued \/ m.nonce \notin generated),
           \A m, k \in Issued' : m.nonce = k.nonce => m = k,
           \A r \in inflight' : \/ r \in inflight
                                \/ /\ r \in Response /\ r.kind # "result"
                                   /\ r.tx = NextTx /\ r.original = None,
           Rows(t, generated', Issued'), BoundsSound(t),
           \A e \in kv.effects : t.nonces[e.message.nonce] = None
    PROVE  Inv'
<1>1. /\ HistorySound' /\ ExtendsCommitted' /\ ResultsSound(committed)'
      /\ \A r \in inflight : Held(r)'
    BY WriteStep, Zenon
<1>2. ResultsSound(kv)'
    BY WriteSameResults, Zenon
<1>3. /\ kv' \in Store /\ kv'.effects = kv.effects /\ kv'.nonces = t.nonces
      /\ kv'.attempts = t.attempts /\ committed' = committed /\ view' = view
    BY WriteFacts, Zenon DEF Inv, Write
<1>4. TypeOK'
    BY <1>3, Zenon DEF Inv, TypeOK
<1>5. RowsSound(committed)' /\ BoundsSound(committed)'
    BY <1>3, CommittedKept, Zenon
<1>6. RowsSound(kv)'
    BY <1>3, SMTT(30) DEF Inv, RowsSound, Rows
<1>7. BoundsSound(kv)'
    BY <1>3 DEF BoundsSound, NonceRows, GrantRows
<1>8. InflightSound'
  <2> SUFFICES ASSUME NEW r \in inflight' PROVE Held(r)'
      BY Zenon DEF InflightSound
  <2>1. CASE r \in inflight
      BY <1>1, <2>1, Zenon
  <2>2. CASE r \notin inflight
      BY <2>2, NewHeld, Zenon DEF Inv
  <2> QED BY <2>1, <2>2, Zenon
<1>9. IssuedDrawn' /\ ToldStored'
    BY <1>3, Zenon DEF Inv, IssuedDrawn, ToldStored, Stored, Reported, InHistory
<1> QED BY <1>1, <1>2, <1>4, <1>5, <1>6, <1>7, <1>8, <1>9, Zenon DEF Inv

\* Collecting keeps rows sound and within their bounds.
LEMMA CollectedRows ==
    ASSUME NEW s \in Store, NEW now \in Nat, NEW drawn, NEW issued,
           \A m \in issued : m.nonce \in NonceIds, Rows(s, drawn, issued), BoundsSound(s)
    PROVE  Rows(Collected(s, now), drawn, issued) /\ BoundsSound(Collected(s, now))
<1> DEFINE t == Collected(s, now)
<1>1. \A n \in NonceIds : \/ t.nonces[n] = s.nonces[n] /\ t.attempts[n] = s.attempts[n]
                          \/ t.nonces[n] = None /\ t.attempts[n] = None
    BY CollectedFacts, Zenon
<1> HIDE DEF t
<1>2. Rows(t, drawn, issued)
    BY <1>1 DEF Rows
<1>3. BoundsSound(t)
    BY <1>1, FewerRows, Zenon
<1> QED BY <1>2, <1>3, Zenon DEF t

\* Reject: the diagnostic is written with the identity of its row.
LEMMA RejectInv ==
    ASSUME Inv, NEW m \in Message, NEW now \in Times, Reject(m, now)
    PROVE  Inv'
<1> DEFINE row == kv.nonces[m.nonce]
           failed == [request |-> row.request, intent |-> row.intent,
                      expires_at |-> row.expires_at, digest |-> m, version |-> NextVersion]
           t == [kv EXCEPT !.attempts[m.nonce] = failed, !.configuration.last_time = now]
           new == [kind |-> "attempt", message |-> m, tx |-> NextTx, original |-> None]
<1> USE LedgerAssumption
<1>0. /\ kv \in Store /\ now \in Nat /\ m.nonce \in NonceIds /\ m.request \in Requests
      /\ m.intent \in Intents /\ Len(kv.history) \in Nat /\ NextVersion \in Nat /\ view \in Nat
    BY SMTT(30) DEF Inv, TypeOK, Times, Message, Store, NextVersion
<1>1. /\ Write(t) /\ inflight' = inflight \cup {new} /\ told' = told /\ generated' = generated
      /\ now >= kv.configuration.last_time /\ row # None
    BY Zenon DEF Reject, Respond, ValidNonce
<1>2. /\ t.history = kv.history /\ t.effects = kv.effects
      /\ t.nonces = kv.nonces /\ t.results = kv.results
      /\ t.attempts = [kv.attempts EXCEPT ![m.nonce] = failed]
      /\ t.configuration = [kv.configuration EXCEPT !.last_time = now]
    BY <1>0, Zenon DEF Store
<1>3. t \in Store
  <2>1. row \in NonceRecord
      BY <1>0, <1>1, Zenon DEF Store
  <2>2. failed \in FailedAttempt
      BY <1>0, <2>1, Zenon DEF FailedAttempt, NonceRecord
  <2>3. t.configuration \in Configuration
      BY <1>0, <1>2, Zenon DEF Store, Configuration
  <2> QED BY <1>0, <1>2, <2>2, <2>3, ZenonT(40) DEF Store
<1> HIDE DEF t
<1>4. /\ t.configuration.last_time >= kv.configuration.last_time
      /\ t.configuration.epoch >= kv.configuration.epoch
  <2>1. kv.configuration \in Configuration
      BY <1>0, Zenon DEF Store
  <2> QED BY <1>0, <1>1, <1>2, <2>1, ConfigurationAt, SMTT(30)
<1>5. Issued' = Issued
    BY <1>1 DEF Issued
<1>6. \A r \in inflight' : \/ r \in inflight
                           \/ /\ r \in Response /\ r.kind # "result"
                              /\ r.tx = NextTx /\ r.original = None
    BY <1>0, <1>1, SMTT(30) DEF Response, NextTx, TxId
<1>7. \A n \in NonceIds : t.attempts[n] = IF n = m.nonce THEN failed ELSE kv.attempts[n]
  <2>1. DOMAIN kv.attempts = NonceIds
      BY <1>0, Zenon DEF Store
  <2> QED BY <1>0, <1>2, <2>1, Zenon
<1>8. Rows(t, generated, Issued)
    BY <1>0, <1>1, <1>2, <1>7, SMTT(30) DEF Inv, RowsSound, Rows
<1>9. BoundsSound(t)
    BY <1>2 DEF Inv, BoundsSound, NonceRows, GrantRows
<1>10. \A e \in kv.effects : t.nonces[e.message.nonce] = None
    BY <1>2 DEF Inv, RowsSound
<1>11. /\ \A k \in Issued' : k.nonce \in generated' /\ k \in Issued
       /\ \A j, k \in Issued' : j.nonce = k.nonce => j = k
    BY <1>1, <1>5, Zenon DEF Inv, IssuedDrawn
<1>12. generated' \subseteq NonceIds /\ Rows(t, generated', Issued')
    BY <1>1, <1>5, <1>8, Zenon DEF Inv, TypeOK
<1> QED BY <1>1, <1>2, <1>3, <1>4, <1>6, <1>9, <1>10, <1>11, <1>12, TableWriteInv, ZenonT(40)

\* IssueNonce: the row of a nonce drawn for the first time.
LEMMA IssueNonceInv ==
    ASSUME Inv, NEW q \in Requests, NEW intent \in Intents, NEW n \in NonceIds, NEW now \in Times,
           IssueNonce(q, intent, n, now)
    PROVE  Inv'
<1> DEFINE live == Collected(kv, now)
           row == [epoch |-> kv.configuration.epoch, request |-> q, intent |-> intent,
                   issued_at |-> now, expires_at |-> now + NONCE_TTL_SECONDS,
                   version |-> NextVersion]
           t == [live EXCEPT !.nonces[n] = row, !.configuration.last_time = now]
           m == [request |-> q, intent |-> intent, nonce |-> n]
           new == [kind |-> "nonce", message |-> m, tx |-> NextTx, original |-> None]
<1> USE LedgerAssumption
<1>0. /\ kv \in Store /\ now \in Nat /\ Len(kv.history) \in Nat /\ NextVersion \in Nat
      /\ view \in Nat /\ now + NONCE_TTL_SECONDS \in Nat /\ kv.configuration \in Configuration
    BY SMTT(30) DEF Inv, TypeOK, Times, Store, NextVersion
<1>1. /\ Write(t) /\ inflight' = inflight \cup {new} /\ told' = told
      /\ generated' = generated \cup {n} /\ n \notin generated
      /\ now >= kv.configuration.last_time /\ HasNonceCapacity(live, GrantOf[q])
    BY Zenon DEF IssueNonce, Respond
<1>2. /\ live \in Store /\ live.configuration = kv.configuration /\ live.results = kv.results
      /\ live.effects = kv.effects /\ live.history = kv.history
      /\ \A k \in NonceIds : live.nonces[k] \in {kv.nonces[k], None}
    BY <1>0, CollectedFacts, ZenonT(40)
<1>3. Rows(live, generated, Issued) /\ BoundsSound(live)
  <2>1. \A k \in Issued : k.nonce \in NonceIds
      BY Zenon DEF Issued, Inv, TypeOK, Response, Message
  <2> QED BY <1>0, <2>1, CollectedRows, ZenonT(40) DEF Inv, RowsSound
<1> HIDE DEF live
<1>4. /\ t.history = kv.history /\ t.effects = kv.effects
      /\ t.nonces = [live.nonces EXCEPT ![n] = row] /\ t.results = kv.results
      /\ t.attempts = live.attempts
      /\ t.configuration = [kv.configuration EXCEPT !.last_time = now]
    BY <1>2, Zenon DEF Store
<1>5. t \in Store
  <2>1. row \in NonceRecord
      BY <1>0, Zenon DEF NonceRecord, Configuration
  <2>2. t.configuration \in Configuration
      BY <1>0, <1>4, ConfigurationAt, SMTT(30)
  <2> QED BY <1>2, <1>4, <2>1, <2>2, ZenonT(40) DEF Store
<1> HIDE DEF t
<1>6. /\ t.configuration.last_time >= kv.configuration.last_time
      /\ t.configuration.epoch >= kv.configuration.epoch
  <2>1. t.configuration.last_time = now /\ t.configuration.epoch = kv.configuration.epoch
      BY <1>0, <1>4, ConfigurationAt
  <2>2. kv.configuration.last_time \in Nat /\ kv.configuration.epoch \in Nat
      BY <1>0, ConfigurationAt, Zenon
  <2> QED BY <1>0, <1>1, <2>1, <2>2, SMTT(30)
<1>7. \A k \in NonceIds : t.nonces[k] = IF k = n THEN row ELSE live.nonces[k]
  <2>1. DOMAIN live.nonces = NonceIds
      BY <1>2, Zenon DEF Store
  <2> QED BY <1>4, <2>1, Zenon
<1>8. row # None
    BY <1>0, NoneAssumption, SMTT(30) DEF NonceRecord, Configuration
<1>9. Issued' = Issued \cup {m}
  <2>1. new.kind = "nonce" /\ new.message = m
      BY ZenonT(40)
  <2> HIDE DEF new, m
  <2> QED BY <1>1, <2>1, Zenon DEF Issued
<1>10. \A r \in inflight' : \/ r \in inflight
                            \/ /\ r \in Response /\ r.kind # "result"
                               /\ r.tx = NextTx /\ r.original = None
  <2>1. new \in Response
      BY <1>0, Zenon DEF Response, NextTx, TxId, Message
  <2> QED BY <1>1, <2>1, SMTT(30)
<1>11. \A k \in Issued : k.nonce \in generated /\ k.nonce # n /\ k.nonce \in NonceIds
    BY <1>1, ZenonT(40) DEF Inv, IssuedDrawn, TypeOK
<1> HIDE DEF row
<1>12. Rows(t, generated', Issued')
  <2>1. \A k \in NonceIds : t.nonces[k] # None => k \in generated'
      BY <1>1, <1>3, <1>7, ZenonT(40) DEF Rows
  <2>2. ASSUME NEW k \in Issued', t.nonces[k.nonce] # None
        PROVE  t.nonces[k.nonce].request = k.request /\ t.nonces[k.nonce].intent = k.intent
    <3>1. CASE k = m
        BY <1>7, <3>1, SMTT(30) DEF row
    <3>2. CASE k \in Issued
        BY <1>3, <1>7, <1>11, <2>2, <3>2, ZenonT(40) DEF Rows
    <3> QED BY <1>9, <3>1, <3>2, ZenonT(40)
  <2>3. \A k \in NonceIds : t.attempts[k] # None => k # n
      BY <1>1, <1>3, <1>4 DEF Rows
  <2>4. \A k \in NonceIds : t.attempts[k] # None =>
           /\ t.nonces[k] # None
           /\ t.attempts[k].request = t.nonces[k].request
           /\ t.attempts[k].intent = t.nonces[k].intent
           /\ t.attempts[k].expires_at = t.nonces[k].expires_at
      BY <1>3, <1>4, <1>7, <2>3, SMTT(30) DEF Rows
  <2> QED BY <2>1, <2>2, <2>4, ZenonT(40) DEF Rows
<1>13. BoundsSound(t)
  <2>1. NonceRows(t) \subseteq NonceRows(live) \cup {n}
      BY <1>7, Zenon DEF NonceRows
  <2>2. IsFiniteSet(NonceRows(live))
      BY NonceAssumption, FS_Subset, Zenon DEF NonceRows
  <2>3. Cardinality(NonceRows(t)) <= MAX_OUTSTANDING_NONCES
      BY <1>1, <2>1, <2>2, OneMore, ZenonT(40) DEF HasNonceCapacity
  <2>4. ASSUME NEW g \in Grants
        PROVE  Cardinality(GrantRows(t, g)) <= MAX_GRANT_NONCES
    <3>1. IsFiniteSet(GrantRows(live, g))
        BY <2>2, FS_Subset, Zenon DEF GrantRows
    <3>2. CASE g = GrantOf[q]
      <4>1. GrantRows(t, g) \subseteq GrantRows(live, g) \cup {n}
          BY <1>7, Zenon DEF GrantRows, NonceRows
      <4> QED BY <1>1, <3>1, <3>2, <4>1, OneMore, ZenonT(40) DEF HasNonceCapacity
    <3>3. CASE g # GrantOf[q]
      <4>1. row.request = q
          BY ZenonT(40) DEF row
      <4>2. GrantRows(t, g) \subseteq GrantRows(live, g)
          BY <1>7, <3>3, <4>1, ZenonT(40) DEF GrantRows, NonceRows
      <4>3. /\ Cardinality(GrantRows(t, g)) <= Cardinality(GrantRows(live, g))
            /\ Cardinality(GrantRows(t, g)) \in Nat /\ Cardinality(GrantRows(live, g)) \in Nat
          BY <3>1, <4>2, FS_Subset, FS_CardinalityType, Zenon
      <4> QED BY <1>3, <4>3, SMTT(30) DEF BoundsSound
    <3> QED BY <3>2, <3>3, Zenon
  <2> QED BY <2>3, <2>4, Zenon DEF BoundsSound
<1>14. \A e \in kv.effects : t.nonces[e.message.nonce] = None
  <2>1. \A e \in kv.effects : /\ e.message.nonce \in NonceIds /\ e.message.nonce # n
                              /\ kv.nonces[e.message.nonce] = None
      BY <1>0, <1>1, ZenonT(40) DEF Inv, RowsSound, Store, Message
  <2> QED BY <1>2, <1>7, <2>1, SMTT(30)
<1>15. /\ \A k \in Issued' : k.nonce \in generated' /\ (k \in Issued \/ k.nonce \notin generated)
       /\ \A j, k \in Issued' : j.nonce = k.nonce => j = k
  <2>1. \A j, k \in Issued : j.nonce = k.nonce => j = k
      BY Zenon DEF Inv, IssuedDrawn
  <2>2. m.nonce = n
      BY Zenon
  <2> HIDE DEF m
  <2> QED BY <1>1, <1>9, <1>11, <2>1, <2>2, ZenonT(40)
<1>16. generated' \subseteq NonceIds
    BY <1>1, Zenon DEF Inv, TypeOK
<1> QED BY <1>1, <1>4, <1>5, <1>6, <1>10, <1>12, <1>13, <1>14, <1>15, <1>16, TableWriteInv, ZenonT(40)

\* ProposeConfiguration touches no table of requests.
LEMMA ProposeInv ==
    ASSUME Inv, NEW epoch \in 1 .. MaxEpoch, NEW time \in Times, ProposeConfiguration(epoch, time)
    PROVE  Inv'
<1> DEFINE t == [kv EXCEPT !.proposed = [epoch |-> epoch, last_time |-> time],
                           !.governed_epoch = epoch]
<1>0. kv \in Store /\ kv.configuration \in Configuration /\ epoch \in Nat /\ time \in Nat
    BY LedgerAssumption DEF Inv, TypeOK, Times, Store
<1>1. Write(t) /\ inflight' = inflight /\ told' = told /\ generated' = generated
    BY Zenon DEF ProposeConfiguration
<1>2. /\ t.history = kv.history /\ t.effects = kv.effects /\ t.nonces = kv.nonces
      /\ t.attempts = kv.attempts /\ t.results = kv.results /\ t.configuration = kv.configuration
    BY <1>0, Zenon DEF Store
<1>3. t \in Store
    BY <1>0, Zenon DEF Store, Configuration
<1> HIDE DEF t
<1>4. /\ t.configuration.last_time >= kv.configuration.last_time
      /\ t.configuration.epoch >= kv.configuration.epoch
  <2>1. {kv.configuration.last_time, kv.configuration.epoch} \subseteq Nat
      BY <1>0, Zenon DEF Configuration
  <2> QED BY <1>2, <2>1
<1>5. Issued' = Issued
    BY <1>1, Zenon DEF Issued
<1>6. Rows(t, generated', Issued') /\ BoundsSound(t)
    BY <1>1, <1>2, <1>5, SMTT(30) DEF Inv, RowsSound, Rows, BoundsSound, NonceRows, GrantRows
<1>7. \A e \in kv.effects : t.nonces[e.message.nonce] = None
    BY <1>2, Zenon DEF Inv, RowsSound
<1>8. /\ generated' \subseteq NonceIds
      /\ \A k \in Issued' : k.nonce \in generated' /\ k \in Issued
      /\ \A j, k \in Issued' : j.nonce = k.nonce => j = k
    BY <1>1, <1>5, Zenon DEF Inv, IssuedDrawn, TypeOK
<1> QED BY <1>1, <1>2, <1>3, <1>4, <1>6, <1>7, <1>8, TableWriteInv, ZenonT(40)

\* The configuration that maintenance writes has its type and is not behind.
LEMMA AppliedFacts ==
    ASSUME NEW c \in Configuration, NEW p \in Configuration \cup {None},
           p # None => p.epoch > c.epoch
    PROVE  /\ Applied(c, p) \in Configuration
           /\ Applied(c, p).last_time >= c.last_time
           /\ Applied(c, p).epoch >= c.epoch
<1>1. CASE p = None
    BY <1>1 DEF Applied, Configuration
<1>2. CASE p # None
  <2>1. p \in Configuration
      BY <1>2, Zenon
  <2>2. CASE c.last_time > p.last_time
      BY <1>2, <2>1, <2>2 DEF Applied, Configuration
  <2>3. CASE ~ (c.last_time > p.last_time)
      BY <1>2, <2>1, <2>3 DEF Applied, Configuration
  <2> QED BY <2>2, <2>3, Zenon
<1> QED BY <1>1, <1>2, Zenon

\* Maintain collects rows and applies a proposed configuration.
LEMMA MaintainInv ==
    ASSUME Inv, NEW now \in Times, Maintain(now)
    PROVE  Inv'
<1> DEFINE c == Applied(kv.configuration, kv.proposed)
           u == [kv EXCEPT !.proposed = None, !.configuration = [c EXCEPT !.last_time = now]]
           t == Collected(u, now)
<1>0. /\ kv \in Store /\ kv.configuration \in Configuration
      /\ kv.proposed \in Configuration \cup {None} /\ now \in Nat
    BY LedgerAssumption, SMTT(30) DEF Inv, TypeOK, Times, Store
<1>1. /\ Write(t) /\ inflight' = inflight /\ told' = told /\ generated' = generated
      /\ kv.proposed # None => kv.proposed.epoch > kv.configuration.epoch
      /\ now >= c.last_time
    BY Zenon DEF Maintain
<1>2. /\ c \in Configuration /\ c.last_time >= kv.configuration.last_time
      /\ c.epoch >= kv.configuration.epoch
    BY <1>0, <1>1, AppliedFacts, Zenon
<1> HIDE DEF c
<1>3. /\ u.history = kv.history /\ u.effects = kv.effects /\ u.nonces = kv.nonces
      /\ u.attempts = kv.attempts /\ u.results = kv.results
      /\ u.configuration = [c EXCEPT !.last_time = now]
    BY <1>0, Zenon DEF Store
<1>4. u \in Store
  <2>1. [c EXCEPT !.last_time = now] \in Configuration
      BY <1>0, <1>2, ConfigurationAt, Zenon
  <2> QED BY <1>0, <2>1, Zenon DEF Store
<1> HIDE DEF u
<1>5. /\ t \in Store /\ t.history = kv.history /\ t.effects = kv.effects /\ t.results = kv.results
      /\ t.configuration = [c EXCEPT !.last_time = now]
      /\ \A n \in NonceIds : t.nonces[n] \in {kv.nonces[n], None}
    BY <1>0, <1>3, <1>4, CollectedFacts, SMTT(30)
<1>6. Issued' = Issued
    BY <1>1, Zenon DEF Issued
<1>7. Rows(t, generated, Issued) /\ BoundsSound(t)
  <2>1. Rows(u, generated, Issued) /\ BoundsSound(u)
      BY <1>3, SMTT(30) DEF Inv, RowsSound, Rows, BoundsSound, NonceRows, GrantRows
  <2>2. \A k \in Issued : k.nonce \in NonceIds
      BY Zenon DEF Issued, Inv, TypeOK, Response, Message
  <2> QED BY <1>0, <1>4, <2>1, <2>2, CollectedRows, ZenonT(40)
<1> HIDE DEF t
<1>8. /\ t.configuration.last_time >= kv.configuration.last_time
      /\ t.configuration.epoch >= kv.configuration.epoch
  <2>1. t.configuration.last_time = now /\ t.configuration.epoch = c.epoch
      BY <1>0, <1>2, <1>5, ConfigurationAt
  <2>2. {c.last_time, c.epoch, kv.configuration.last_time, kv.configuration.epoch} \subseteq Nat
      BY <1>0, <1>2, ConfigurationAt, ZenonT(40)
  <2> QED BY <1>0, <1>1, <1>2, <2>1, <2>2
<1>9. \A e \in kv.effects : t.nonces[e.message.nonce] = None
  <2>1. \A e \in kv.effects : e.message.nonce \in NonceIds
      BY <1>0, Zenon DEF Store, Message
  <2> QED BY <1>5, <2>1, Zenon DEF Inv, RowsSound
<1>10. /\ generated' \subseteq NonceIds
       /\ \A k \in Issued' : k.nonce \in generated' /\ k \in Issued
       /\ \A j, k \in Issued' : j.nonce = k.nonce => j = k
    BY <1>1, <1>6, Zenon DEF Inv, IssuedDrawn, TypeOK
<1>11. Rows(t, generated', Issued')
    BY <1>1, <1>6, <1>7, Zenon
<1> QED BY <1>1, <1>5, <1>7, <1>8, <1>9, <1>10, <1>11, TableWriteInv, Zenon

---------------------------------------------------------------------------
(* Steps that do not write.                                                *)

\* Replay: the result that was read, and the transaction that wrote it, are of
\* the history that the response waits for.
LEMMA ReplayInv ==
    ASSUME Inv, NEW m \in Message, NEW now \in Times, Replay(m, now)
    PROVE  Inv'
<1> DEFINE v == kv.results[m.request].version
           last == Len(kv.history)
           new == [kind |-> "result", message |-> m, tx |-> TxOf(last), original |-> TxOf(v)]
<1>1. /\ inflight' = inflight \cup {new}
      /\ UNCHANGED <<kv, committed, view, told, generated>>
      /\ kv.results[m.request] # None /\ kv.results[m.request].digest = m
    BY Zenon DEF Replay, Respond, ReplayOriginal
<1>2. /\ m.request \in Requests /\ kv.history \in Seq(Nat) /\ last \in Nat /\ view \in Nat
      /\ kv.results[m.request] \in RequestResult
    BY <1>1, LedgerAssumption, SMTT(30) DEF Message, Inv, TypeOK, Store
<1>3. v \in 1 .. last
    BY <1>1, <1>2, Zenon DEF Inv, ResultsSound
<1>4. kv.results[m.request] = [digest |-> m, version |-> v]
    BY <1>1, <1>2, Zenon DEF RequestResult
<1>5. /\ kv.history[last] \in Nat /\ kv.history[v] \in Nat
      /\ last \in 1 .. last /\ kv.history[last] <= view
  <2>1. last \in 1 .. last
      BY <1>2, <1>3
  <2>2. kv.history[last] \in Nat /\ kv.history[v] \in Nat
      BY <1>2, <1>3, <2>1, SMTT(30)
  <2> QED BY <2>1, <2>2, Zenon DEF Inv, HistorySound
<1>6. TxOf(last) = [view |-> kv.history[last], seqno |-> last]
      /\ TxOf(v) = [view |-> kv.history[v], seqno |-> v]
    BY Zenon DEF TxOf
<1>7. TxOf(last) \in TxId /\ TxOf(v) \in TxId /\ TxOf(v) # None
    BY <1>2, <1>3, <1>5, <1>6, NoneAssumption, SMTT(30) DEF TxId
<1> HIDE DEF v, last
<1>8. new \in Response
    BY <1>7, Zenon DEF Response
<1>9. Issued' = Issued
    BY <1>1, SMTT(30) DEF Issued
<1>10. InflightSound'
  <2> SUFFICES ASSUME NEW r \in inflight' PROVE Held(r)'
      BY Zenon DEF InflightSound
  <2>1. Held(r)
    <3>1. CASE r = new
      <4>1. /\ Reported(r) = TxOf(v) /\ r.tx = TxOf(last) /\ r.message = m /\ r.kind = "result"
          BY <1>7, <3>1, Zenon DEF Reported
      <4>2. Stored(r, kv)
          BY <1>2, <1>3, <1>4, <1>6, <4>1 DEF Stored, InHistory, last
      <4>3. /\ r.tx.seqno = last /\ Reported(r).seqno = v /\ r.tx.view = kv.history[last]
          BY <1>6, <4>1, SMTT(30)
      <4> QED BY <1>2, <1>3, <1>5, <4>1, <4>2, <4>3 DEF Held, last
    <3> QED BY <1>1, <3>1, Zenon DEF Inv, InflightSound
  <2> QED BY <1>1, <2>1, Zenon DEF Held, Stored, Reported, InHistory
<1>11. TypeOK'
    BY <1>1, <1>8, ZenonT(40) DEF Inv, TypeOK
<1>12. HistorySound' /\ ExtendsCommitted' /\ ResultsSound(kv)' /\ ResultsSound(committed)'
    BY <1>1, ZenonT(40) DEF Inv, HistorySound, ExtendsCommitted, ResultsSound
<1>13. RowsSound(kv)' /\ RowsSound(committed)' /\ IssuedDrawn'
    BY <1>1, <1>9, ZenonT(40) DEF Inv, RowsSound, Rows, IssuedDrawn
<1>14. BoundsSound(kv)' /\ BoundsSound(committed)'
    BY <1>1, ZenonT(40) DEF Inv, BoundsSound, NonceRows, GrantRows
<1>15. ToldStored'
    BY <1>1, Zenon DEF Inv, ToldStored, Stored, Reported, InHistory
<1> QED BY <1>10, <1>11, <1>12, <1>13, <1>14, <1>15, Zenon DEF Inv

\* Commit: what was executed becomes durable, and with it every result told.
LEMMA CommitInv ==
    ASSUME Inv, Commit
    PROVE  Inv'
<1>1. committed' = kv /\ UNCHANGED <<kv, view, inflight, told, generated>>
    BY Zenon DEF Commit
<1>2. TypeOK'
    BY <1>1, Zenon DEF Inv, TypeOK
<1>3. kv.history \in Seq(Nat) /\ committed.history \in Seq(Nat) /\ Len(kv.history) \in Nat
      /\ Len(committed.history) \in Nat
      /\ kv.configuration \in Configuration
    BY DEF Inv, TypeOK, Store
<1>4. HistorySound'
    BY <1>1, <1>3, SMTT(30) DEF Inv, HistorySound
<1>5. ResultsSound(kv)' /\ ResultsSound(committed)'
    BY <1>1, Zenon DEF Inv, ResultsSound
<1>6. ExtendsCommitted'
    BY <1>1, <1>3, SMTT(30) DEF ExtendsCommitted, Configuration
<1>7. Issued' = Issued
    BY <1>1, Zenon DEF Issued
<1>8. RowsSound(kv)' /\ RowsSound(committed)' /\ IssuedDrawn'
    BY <1>1, <1>7, ZenonT(40) DEF Inv, RowsSound, Rows, IssuedDrawn
<1>9. BoundsSound(kv)' /\ BoundsSound(committed)'
    BY <1>1, Zenon DEF Inv, BoundsSound, NonceRows, GrantRows
<1>10. InflightSound'
    BY <1>1, ZenonT(40) DEF Inv, InflightSound, Held, Stored, Reported, InHistory
<1>11. ToldStored'
  <2> SUFFICES ASSUME NEW r \in told, r.kind = "result"
               PROVE  Reported(r).seqno >= 1 /\ Stored(r, kv)
      BY <1>1, Zenon DEF ToldStored, Stored, Reported, InHistory
  <2>1. Reported(r).seqno >= 1 /\ Stored(r, committed)
      BY Zenon DEF Inv, ToldStored
  <2>2. /\ r.message \in Message /\ r.message.request \in Requests
        /\ Reported(r) \in TxId /\ Reported(r).seqno \in Nat
      BY Zenon DEF Inv, TypeOK, Response, Message, Reported, TxId
  <2>3. committed.results[r.message.request] # None
      BY <2>1, <2>2, NoneAssumption, SMTT(30) DEF Stored, RequestResult
  <2>4. kv.results[r.message.request] = committed.results[r.message.request]
      BY <2>2, <2>3, Zenon DEF Inv, ExtendsCommitted
  <2>5. InHistory(Reported(r), kv.history)
    <3>1. /\ Reported(r).seqno \in 1 .. Len(committed.history)
          /\ committed.history[Reported(r).seqno] = Reported(r).view
        BY <1>3, <2>1, <2>2, SMTT(30) DEF Stored, InHistory
    <3>2. kv.history[Reported(r).seqno] = Reported(r).view
        BY <3>1, Zenon DEF Inv, HistorySound
    <3> QED BY <1>3, <2>2, <3>1, <3>2, SMTT(30) DEF InHistory, Inv, HistorySound
  <2> QED BY <2>1, <2>4, <2>5, Zenon DEF Stored
<1> QED BY <1>2, <1>4, <1>5, <1>6, <1>8, <1>9, <1>10, <1>11, Zenon DEF Inv

\* Once the transaction that a response waits for is durable, so is the result it
\* reports.
LEMMA CommittedStored ==
    ASSUME Inv, NEW r \in inflight, r.kind = "result", InHistory(r.tx, committed.history)
    PROVE  Reported(r).seqno >= 1 /\ Stored(r, committed)
<1> DEFINE o == Reported(r)
<1>1. /\ r.tx \in TxId /\ o \in TxId /\ r.message \in Message /\ r.message.request \in Requests
      /\ Len(committed.history) \in Nat /\ Len(kv.history) \in Nat
      /\ Len(committed.history) <= Len(kv.history)
      /\ \A i \in 1 .. Len(committed.history) : committed.history[i] = kv.history[i]
    BY SMTT(30) DEF Inv, TypeOK, Response, Message, Reported, Store, HistorySound
<1>2. r.tx.seqno \in Nat /\ r.tx.view \in Nat /\ o.seqno \in Nat /\ o.view \in Nat
    BY <1>1, Zenon DEF TxId
<1>3. Held(r)
    BY Zenon DEF Inv, InflightSound
<1>4. r.tx.seqno \in 1 .. Len(committed.history) /\ o.seqno \in 1 .. r.tx.seqno
    BY <1>1, <1>2, <1>3, SMTT(30) DEF Held, InHistory
<1>5. InHistory(r.tx, kv.history)
    BY <1>1, <1>2, <1>4 DEF InHistory
<1>6. Stored(r, kv)
    BY <1>3, <1>5, Zenon DEF Held
<1>7. o.seqno \in 1 .. Len(committed.history)
    BY <1>1, <1>2, <1>4, SMTT(30)
<1>8. InHistory(o, committed.history)
    BY <1>1, <1>2, <1>6, <1>7, SMTT(30) DEF Stored, InHistory
<1>9. kv.results[r.message.request] = [digest |-> r.message, version |-> o.seqno]
    BY <1>6, Zenon DEF Stored
<1>10. kv.results[r.message.request] # None
    BY <1>1, <1>2, <1>9, NoneAssumption, SMTT(30) DEF RequestResult
<1>11. committed.results[r.message.request] = kv.results[r.message.request]
    BY <1>1, <1>2, <1>7, <1>9, <1>10, SMTT(30) DEF Inv, ExtendsCommitted
<1> QED BY <1>7, <1>8, <1>9, <1>11, SMTT(30) DEF Stored

\* Rollback: a response of the old view finds its transaction in the new history
\* only if it was committed.
LEMMA RollbackInv ==
    ASSUME Inv, Rollback
    PROVE  Inv'
<1>1. /\ view' = view + 1 /\ kv' = committed /\ view < MaxView
      /\ UNCHANGED <<committed, inflight, told, generated>>
    BY Zenon DEF Rollback
<1>2. /\ view \in Nat /\ MaxView \in Nat /\ committed.history \in Seq(Nat)
      /\ Len(committed.history) \in Nat /\ Len(kv.history) \in Nat
      /\ committed.configuration \in Configuration
    BY LedgerAssumption, SMTT(30) DEF Inv, TypeOK, Store
<1>3. TypeOK'
    BY <1>1, LedgerAssumption DEF Inv, TypeOK
<1>4. HistorySound'
  <2>1. ASSUME NEW i \in 1 .. Len(committed.history)
        PROVE  /\ committed.history[i] \in Nat /\ committed.history[i] <= view
               /\ committed.history[i] = kv.history[i] /\ i \in 1 .. Len(kv.history)
    <3>1. committed.history[i] \in Nat
        BY <1>2, SMTT(30)
    <3>2. committed.history[i] = kv.history[i] /\ i \in 1 .. Len(kv.history)
        BY <1>2, SMTT(30) DEF Inv, HistorySound
    <3> QED BY <3>1, <3>2, Zenon DEF Inv, HistorySound
  <2>2. \A i, j \in 1 .. Len(committed.history) :
           i <= j => committed.history[i] <= committed.history[j]
      BY <2>1, Zenon DEF Inv, HistorySound
  <2>3. \A i \in 1 .. Len(committed.history) : committed.history[i] <= view + 1
      BY <1>2, <2>1, SMTT(30)
  <2> QED BY <1>1, <1>2, <2>2, <2>3, SMTT(30) DEF HistorySound
<1>5. ResultsSound(kv)' /\ ResultsSound(committed)'
    BY <1>1, ZenonT(40) DEF Inv, ResultsSound
<1>6. ExtendsCommitted'
    BY <1>1, <1>2, SMTT(30) DEF ExtendsCommitted, Configuration
<1>7. Issued' = Issued
    BY <1>1, Zenon DEF Issued
<1>8. RowsSound(kv)' /\ RowsSound(committed)' /\ IssuedDrawn'
    BY <1>1, <1>7, ZenonT(40) DEF Inv, RowsSound, Rows, IssuedDrawn
<1>9. BoundsSound(kv)' /\ BoundsSound(committed)'
    BY <1>1, Zenon DEF Inv, BoundsSound, NonceRows, GrantRows
<1>10. InflightSound'
  <2> SUFFICES ASSUME NEW r \in inflight PROVE Held(r)'
      BY <1>1, Zenon DEF InflightSound
  <2>1. Held(r) /\ r.tx.view \in Nat
      BY Zenon DEF Inv, InflightSound, TypeOK, Response, TxId
  <2>2. r.tx.view <= view' /\ r.tx.view # view'
      BY <1>1, <1>2, <2>1 DEF Held
  <2>3. (r.kind = "result" /\ InHistory(r.tx, committed.history)) => Stored(r, committed)
      BY CommittedStored, Zenon
  <2> QED BY <1>1, <2>1, <2>2, <2>3, Zenon DEF Held, Stored, Reported, InHistory
<1>11. ToldStored'
    BY <1>1, Zenon DEF Inv, ToldStored, Stored, Reported, InHistory
<1> QED BY <1>3, <1>4, <1>5, <1>6, <1>8, <1>9, <1>10, <1>11, Zenon DEF Inv

\* Deliver, Invalidate, Lose: a response leaves the gate; a result told is durable.
LEMMA LeaveInv ==
    ASSUME Inv, NEW r \in inflight, Deliver(r) \/ Invalidate(r) \/ Lose(r)
    PROVE  Inv'
<1>1. /\ inflight' = inflight \ {r} /\ UNCHANGED <<kv, committed, view, generated>>
      /\ told \subseteq told' /\ told' \subseteq told \cup {r}
      /\ r \in told' => r \in told \/ IsCommitted(r.tx)
    BY Zenon DEF Deliver, Invalidate, Lose, MayRelease
<1>2. TypeOK'
    BY <1>1, Zenon DEF Inv, TypeOK
<1>3. HistorySound' /\ ExtendsCommitted' /\ ResultsSound(kv)' /\ ResultsSound(committed)'
    BY <1>1, ZenonT(40) DEF Inv, HistorySound, ExtendsCommitted, ResultsSound
<1>4. Issued' \subseteq Issued
    BY <1>1, ZenonT(40) DEF Issued
<1>5. RowsSound(kv)' /\ RowsSound(committed)' /\ IssuedDrawn'
    BY <1>1, <1>4, ZenonT(40) DEF Inv, RowsSound, Rows, IssuedDrawn
<1>6. BoundsSound(kv)' /\ BoundsSound(committed)'
    BY <1>1, Zenon DEF Inv, BoundsSound, NonceRows, GrantRows
<1>7. InflightSound'
    BY <1>1, Zenon DEF Inv, InflightSound, Held, Stored, Reported, InHistory
<1>8. ToldStored'
  <2> SUFFICES ASSUME NEW x \in told', x.kind = "result"
               PROVE  Reported(x).seqno >= 1 /\ Stored(x, committed)
      BY <1>1, Zenon DEF ToldStored, Stored, Reported, InHistory
  <2>1. CASE x \in told
      BY <2>1, Zenon DEF Inv, ToldStored
  <2>2. CASE x \notin told
      BY <1>1, <2>2, CommittedStored, Zenon DEF IsCommitted
  <2> QED BY <2>1, <2>2, Zenon
<1> QED BY <1>2, <1>3, <1>5, <1>6, <1>7, <1>8, Zenon DEF Inv

---------------------------------------------------------------------------
(* The inductive invariant and what follows from it.                       *)

\* Init establishes the invariant.
LEMMA InitInv == Init => Inv
<1> SUFFICES ASSUME Init PROVE Inv
    BY Zenon
<1> USE LedgerAssumption
<1>1. EmptyStore \in Store
    BY DEF EmptyStore, Store, Configuration
<1>2. /\ kv = EmptyStore /\ committed = EmptyStore /\ view = 1 /\ inflight = {} /\ told = {}
      /\ generated = {}
    BY Zenon DEF Init
<1>3. /\ \A q \in Requests : EmptyStore.results[q] = None
      /\ \A n \in NonceIds : EmptyStore.nonces[n] = None /\ EmptyStore.attempts[n] = None
      /\ EmptyStore.effects = {} /\ EmptyStore.history = <<>>
      /\ EmptyStore.configuration = [epoch |-> 1, last_time |-> 0]
    BY Zenon DEF EmptyStore
<1> HIDE DEF EmptyStore
<1>4. TypeOK
    BY <1>1, <1>2 DEF TypeOK
<1>5. HistorySound /\ ResultsSound(kv) /\ ResultsSound(committed) /\ ExtendsCommitted
  <2>1. HistorySound
      BY <1>2, <1>3, SMTT(30) DEF HistorySound
  <2>2. ResultsSound(kv) /\ ResultsSound(committed)
      BY <1>2, <1>3, ZenonT(40) DEF ResultsSound
  <2>3. ExtendsCommitted
      BY <1>2, <1>3 DEF ExtendsCommitted
  <2> QED BY <2>1, <2>2, <2>3, Zenon
<1>6. Issued = {}
    BY <1>2, Zenon DEF Issued
<1>7. RowsSound(kv) /\ RowsSound(committed) /\ IssuedDrawn /\ InflightSound /\ ToldStored
    BY <1>2, <1>3, <1>6, ZenonT(40) DEF RowsSound, Rows, IssuedDrawn, InflightSound, ToldStored
<1>8. BoundsSound(kv) /\ BoundsSound(committed)
  <2>1. NonceRows(EmptyStore) = {} /\ \A g \in Grants : GrantRows(EmptyStore, g) = {}
      BY <1>3, Zenon DEF NonceRows, GrantRows
  <2>2. Cardinality({}) = 0
      BY FS_EmptySet, Zenon
  <2> QED BY <1>2, <2>1, <2>2, SMTT(30) DEF BoundsSound
<1> QED BY <1>4, <1>5, <1>7, <1>8, Zenon DEF Inv

\* Every step preserves it.
LEMMA NextInv == Inv /\ [Next]_vars => Inv'
<1> SUFFICES ASSUME Inv, [Next]_vars PROVE Inv'
    BY Zenon
<1>1. CASE UNCHANGED vars
  <2>1. UNCHANGED <<kv, committed, view, inflight, told, generated>> /\ Issued' = Issued
      BY <1>1, Zenon DEF vars, Issued
  <2>2. TypeOK' /\ HistorySound' /\ ExtendsCommitted'
      BY <2>1, ZenonT(40) DEF Inv, TypeOK, HistorySound, ExtendsCommitted
  <2>3. ResultsSound(kv)' /\ ResultsSound(committed)'
      BY <2>1, ZenonT(40) DEF Inv, ResultsSound
  <2>4. RowsSound(kv)' /\ RowsSound(committed)' /\ IssuedDrawn'
      BY <2>1, ZenonT(40) DEF Inv, RowsSound, Rows, IssuedDrawn
  <2>5. BoundsSound(kv)' /\ BoundsSound(committed)'
      BY <2>1, ZenonT(40) DEF Inv, BoundsSound, NonceRows, GrantRows
  <2>6. InflightSound' /\ ToldStored'
      BY <2>1, Zenon DEF Inv, InflightSound, Held, ToldStored, Stored, Reported, InHistory
  <2> QED BY <2>2, <2>3, <2>4, <2>5, <2>6, Zenon DEF Inv
<1>2. ASSUME NEW m \in Message, NEW now \in Times, Refuse(m, now) PROVE Inv'
    BY <1>1, <1>2, Zenon DEF Refuse
<1> QED BY <1>1, <1>2, IssueNonceInv, ReplayInv, ExecuteInv, RejectInv, ProposeInv, MaintainInv,
           CommitInv, RollbackInv, LeaveInv, Zenon DEF Next

\* The inductive invariant holds in every reachable state.
THEOREM LedgerInvariant == Spec => []Inv
BY InitInv, NextInv, PTL DEF Spec

\* However a request is retried, by Execute under any nonce and across rollbacks,
\* it takes effect at most once and the effect is its recorded result.
THEOREM RequestsExecuteOnce == Spec => []AtMostOnce
<1>1. Inv => AtMostOnce
  <2> SUFFICES ASSUME Inv PROVE AtMostOnce
      BY Zenon
  <2>1. /\ kv.effects \subseteq [message : Message, version : Nat]
        /\ kv.results \in [Requests -> RequestResult \cup {None}]
      BY ZenonT(40) DEF Inv, TypeOK, Store
  <2>2. ASSUME NEW e \in kv.effects, NEW f \in kv.effects, e.message.request = f.message.request
        PROVE  e = f
    <3>1. [digest |-> e.message, version |-> e.version] = [digest |-> f.message, version |-> f.version]
        BY <2>2, SMTT(30) DEF Inv, ResultsSound
    <3> QED BY <2>1, <3>1, SMTT(30)
  <2>3. ASSUME NEW e \in kv.effects, NEW f \in kv.effects, e.message.nonce = f.message.nonce
        PROVE  e = f
    <3>1. e.message \in Issued /\ f.message \in Issued
        BY Zenon DEF Inv, RowsSound, Issued
    <3>2. e.message = f.message
        BY <2>3, <3>1, Zenon DEF Inv, IssuedDrawn
    <3> QED BY <2>2, <3>2, Zenon
  <2>4. ASSUME NEW q \in Requests
        PROVE  {[digest |-> e.message, version |-> e.version] :
                   e \in {x \in kv.effects : x.message.request = q}}
                  = IF kv.results[q] = None THEN {} ELSE {kv.results[q]}
    <3>1. \A e \in kv.effects : e.message.request = q =>
             kv.results[q] = [digest |-> e.message, version |-> e.version] /\ kv.results[q] # None
      <4>1. \A e \in kv.effects : [digest |-> e.message, version |-> e.version] # None
          BY <2>1, NoneAssumption DEF RequestResult
      <4> QED BY <4>1, SMTT(30) DEF Inv, ResultsSound
    <3>2. CASE kv.results[q] = None
        BY <3>1, <3>2, Zenon
    <3>3. CASE kv.results[q] # None
      <4> DEFINE f == [message |-> kv.results[q].digest, version |-> kv.results[q].version]
      <4>1. f \in kv.effects /\ f.message.request = q
          BY <3>3, Zenon DEF Inv, ResultsSound
      <4> QED BY <3>1, <3>3, <4>1, ZenonT(40)
    <3> QED BY <3>2, <3>3, Zenon
  <2> QED BY <2>2, <2>3, <2>4, Zenon DEF AtMostOnce
<1> QED BY <1>1, LedgerInvariant, PTL

\* What Deliver tells a client is durable, the view history that a replay captured
\* stays right until its callback, and a status read agrees with the effects.
THEOREM ClientsHearTheTruth == Spec => []ToldSound
<1>1. Inv => ToldSound
  <2> SUFFICES ASSUME Inv PROVE ToldSound
      BY Zenon
  <2>0. /\ Len(committed.history) \in Nat /\ Len(kv.history) \in Nat
        /\ Len(committed.history) <= Len(kv.history)
        /\ \A i \in 1 .. Len(committed.history) : committed.history[i] = kv.history[i]
      BY SMTT(30) DEF Inv, TypeOK, Store, HistorySound
  <2>1. ASSUME NEW r \in told, r.kind = "result"
        PROVE  /\ r.message.request \in Requests
               /\ kv.results[r.message.request] = [digest |-> r.message, version |-> Reported(r).seqno]
               /\ kv.results[r.message.request] # None
               /\ TxOf(Reported(r).seqno) = Reported(r)
               /\ IsCommitted(Reported(r))
    <3>1. Reported(r).seqno >= 1 /\ Stored(r, committed)
        BY <2>1, Zenon DEF Inv, ToldStored
    <3>2. /\ r.message \in Message /\ r.message.request \in Requests /\ Reported(r) \in TxId
        BY Zenon DEF Inv, TypeOK, Response, Message, Reported
    <3>3. Reported(r) = [view |-> Reported(r).view, seqno |-> Reported(r).seqno]
          /\ Reported(r).seqno \in Nat
        BY <3>2, Zenon DEF TxId
    <3>4. committed.results[r.message.request] # None
        BY <3>1, <3>2, <3>3, NoneAssumption, SMTT(30) DEF Stored, RequestResult
    <3>5. kv.results[r.message.request] = committed.results[r.message.request]
        BY <3>2, <3>4, ZenonT(40) DEF Inv, ExtendsCommitted
    <3>6. IsCommitted(Reported(r))
        BY <3>1, Zenon DEF Stored, IsCommitted
    <3>7. kv.history[Reported(r).seqno] = Reported(r).view
        BY <2>0, <3>1, <3>3, <3>6, SMTT(30) DEF IsCommitted, InHistory
    <3> QED BY <3>1, <3>2, <3>3, <3>4, <3>5, <3>6, <3>7, Zenon DEF Stored, TxOf
  <2>2. ToldDurable
    <3> SUFFICES ASSUME NEW r \in told, r.kind = "result"
                 PROVE  LET result == kv.results[r.message.request]
                        IN  /\ result # None /\ result.digest = r.message
                            /\ TxOf(result.version) = Reported(r)
                            /\ IsCommitted(Reported(r))
        BY Zenon DEF ToldDurable
    <3>1. kv.results[r.message.request] = [digest |-> r.message, version |-> Reported(r).seqno]
        BY <2>1, Zenon
    <3>2. /\ kv.results[r.message.request].digest = r.message
          /\ kv.results[r.message.request].version = Reported(r).seqno
        BY <3>1
    <3> QED BY <2>1, <3>2, ZenonT(40)
  <2>3. CapturedHistorySound
    <3> SUFFICES ASSUME NEW r \in inflight, IsCommitted(r.tx)
                 PROVE  IsCommitted(Reported(r)) /\ MayRelease(r)
        BY Zenon DEF CapturedHistorySound
    <3>0. Held(r) /\ r.tx \in TxId /\ Reported(r) \in TxId
        BY Zenon DEF Inv, InflightSound, TypeOK, Response, Reported
    <3>1. CASE r.original = None
        BY <3>1, Zenon DEF Reported, MayRelease
    <3>2. CASE r.original # None
      <4>1. r.kind = "result" /\ Reported(r) = r.original
          BY <3>0, <3>2, Zenon DEF Held, Reported
      <4>2. Stored(r, committed)
          BY <4>1, CommittedStored, Zenon DEF IsCommitted
      <4>3. IsCommitted(Reported(r))
          BY <4>2, Zenon DEF Stored, IsCommitted
      <4>4. Reported(r).seqno \in 1 .. r.tx.seqno
          BY <3>0, <4>1, Zenon DEF Held
      <4>5. r.tx.seqno \in Nat /\ Reported(r).seqno \in Nat
          BY <3>0, Zenon DEF TxId
      <4>6. /\ r.tx.seqno \in 1 .. Len(committed.history)
            /\ Reported(r).seqno \in 1 .. Len(committed.history)
            /\ committed.history[r.tx.seqno] = r.tx.view
            /\ committed.history[Reported(r).seqno] = Reported(r).view
          BY <2>0, <4>3, <4>4, <4>5, SMTT(30) DEF IsCommitted, InHistory
      <4>7. /\ kv.history[r.tx.seqno] = r.tx.view /\ kv.history[Reported(r).seqno] = Reported(r).view
            /\ r.tx.seqno \in 1 .. Len(kv.history) /\ Reported(r).seqno \in 1 .. Len(kv.history)
          BY <2>0, <4>5, <4>6
      <4>8. Reported(r).seqno <= r.tx.seqno
          BY <4>4, <4>5, SMTT(30)
      <4>9. Reported(r).view <= r.tx.view
          BY <4>7, <4>8, Zenon DEF Inv, HistorySound
      <4> QED BY <4>1, <4>3, <4>8, <4>9, Zenon DEF MayRelease
    <3> QED BY <3>1, <3>2, Zenon
  <2>4. ReconcileSound
    <3> SUFFICES ASSUME NEW q \in Requests, NEW now \in Times
                 PROVE  /\ RequestStatus(q, now) = "committed"
                              <=> \E e \in kv.effects : e.message.request = q
                        /\ (\E r \in told : r.kind = "result" /\ r.message.request = q)
                              => RequestStatus(q, now) = "committed"
        BY Zenon DEF ReconcileSound
    <3>1. Uncompleted(q, now) # "committed"
        BY Zenon DEF Uncompleted
    <3>2. RequestStatus(q, now) = "committed" <=> kv.results[q] # None
        BY <3>1, Zenon DEF RequestStatus
    <3>3. kv.results[q] # None => \E e \in kv.effects : e.message.request = q
      <4> SUFFICES ASSUME kv.results[q] # None
                   PROVE  \E e \in kv.effects : e.message.request = q
          BY Zenon
      <4> DEFINE f == [message |-> kv.results[q].digest, version |-> kv.results[q].version]
      <4>1. f \in kv.effects /\ f.message.request = q
          BY ZenonT(40) DEF Inv, ResultsSound
      <4> QED BY <4>1, Zenon
    <3>4. ASSUME NEW e \in kv.effects, e.message.request = q
          PROVE  kv.results[q] # None
      <4>1. e \in [message : Message, version : Nat]
          BY Zenon DEF Inv, TypeOK, Store
      <4>2. [digest |-> e.message, version |-> e.version] # None
          BY <4>1, NoneAssumption DEF RequestResult
      <4> QED BY <3>4, <4>2, ZenonT(40) DEF Inv, ResultsSound
    <3> QED BY <2>1, <3>2, <3>3, <3>4, ZenonT(40)
  <2> QED BY <2>2, <2>3, <2>4, Zenon DEF ToldSound
<1> QED BY <1>1, LedgerInvariant, PTL

\* The nonce table keeps its bounds overall and for each grant, diagnostics belong
\* to their rows, and every effect rests on a nonce issued and told for it.
THEOREM NonceTableCorrect == Spec => []NoncesSound
<1>1. Inv => NoncesSound
    BY Zenon DEF Inv, NoncesSound, NonceTableSound, EffectsAuthorized, RowsSound, Rows, BoundsSound
<1> QED BY <1>1, LedgerInvariant, PTL

\* Only Commit changes what is durable, and only Deliver tells clients anything.
LEMMA DurableSteps ==
    ASSUME [Next]_vars
    PROVE  \/ UNCHANGED <<committed, told>>
           \/ Commit
           \/ \E r \in inflight : Deliver(r)
<1>1. CASE UNCHANGED vars
    BY <1>1, Zenon DEF vars
<1>2. ASSUME NEW q \in Requests, NEW intent \in Intents, NEW n \in NonceIds, NEW now \in Times,
             IssueNonce(q, intent, n, now)
      PROVE  UNCHANGED <<committed, told>>
    BY <1>2, Zenon DEF IssueNonce, Write
<1>3. ASSUME NEW m \in Message, NEW now \in Times,
             Replay(m, now) \/ Execute(m, now) \/ Reject(m, now) \/ Refuse(m, now)
      PROVE  UNCHANGED <<committed, told>>
    BY <1>3, Zenon DEF Replay, Execute, Reject, Refuse, Write, vars
<1>4. ASSUME NEW epoch \in 1 .. MaxEpoch, NEW time \in Times, ProposeConfiguration(epoch, time)
      PROVE  UNCHANGED <<committed, told>>
    BY <1>4, Zenon DEF ProposeConfiguration, Write
<1>5. ASSUME NEW now \in Times, Maintain(now)
      PROVE  UNCHANGED <<committed, told>>
    BY <1>5, Zenon DEF Maintain, Write
<1>6. ASSUME Rollback
      PROVE  UNCHANGED <<committed, told>>
    BY <1>6, Zenon DEF Rollback
<1>7. ASSUME NEW r \in inflight, Invalidate(r) \/ Lose(r)
      PROVE  UNCHANGED <<committed, told>>
    BY <1>7, Zenon DEF Invalidate, Lose
<1> QED BY <1>1, <1>2, <1>3, <1>4, <1>5, <1>6, <1>7, Zenon DEF Next

\* The durable watermark and epoch never move back, whatever Maintain applies and
\* whichever view a Rollback opens.
THEOREM WatermarkNeverFalls == Spec => WatermarkMonotone
<1>1. ASSUME Inv, [Next]_vars
      PROVE  [/\ committed'.configuration.last_time >= committed.configuration.last_time
              /\ committed'.configuration.epoch >= committed.configuration.epoch]_vars
  <2>1. committed' = committed \/ committed' = kv
      BY <1>1, DurableSteps, Zenon DEF Commit, Deliver
  <2>2. committed.configuration \in Configuration /\ kv.configuration \in Configuration
      BY <1>1, Zenon DEF Inv, TypeOK, Store
  <2>3. {committed.configuration.last_time, committed.configuration.epoch,
         kv.configuration.last_time, kv.configuration.epoch} \subseteq Nat
      BY <2>2, Zenon DEF Configuration
  <2> QED BY <1>1, <2>1, <2>3 DEF Inv, ExtendsCommitted
<1> QED BY <1>1, LedgerInvariant, PTL DEF Spec, WatermarkMonotone

---------------------------------------------------------------------------
(* Refinement of RequestOutcome.                                           *)

\* The decided outcome of a request that clients were answered is what they were
\* told, whichever of the answers is looked at.
MappingSound ==
    /\ Decided \in [Requests -> [digest : Message, tx : TxId] \cup {None}]
    /\ \A q \in Requests : Decided[q] = None <=> committed.results[q] = None
    /\ \A q \in Requests : Answers(q) # {} => Decided[q] # None
    /\ Announced = [q \in Requests |-> IF Answers(q) = {} THEN None ELSE Decided[q]]

\* The mapping is sound in every state of the invariant.
LEMMA MappingFacts == Inv => MappingSound
<1> SUFFICES ASSUME Inv PROVE MappingSound
    BY Zenon
<1>0. /\ committed.history \in Seq(Nat)
      /\ committed.results \in [Requests -> RequestResult \cup {None}]
    BY Zenon DEF Inv, TypeOK, Store
<1>1. ASSUME NEW q \in Requests, committed.results[q] # None
      PROVE  /\ Decided[q] \in [digest : Message, tx : TxId]
             /\ Decided[q] # None
             /\ Decided[q] = [digest |-> committed.results[q].digest,
                              tx |-> [view |-> committed.history[committed.results[q].version],
                                      seqno |-> committed.results[q].version]]
  <2> DEFINE v == committed.results[q].version
  <2>1. v \in 1 .. Len(committed.history) /\ committed.results[q].digest \in Message
    <3>1. committed.results[q] \in RequestResult
        BY <1>0, <1>1, Zenon
    <3> QED BY <1>1, <3>1, ZenonT(40) DEF Inv, ResultsSound, RequestResult
  <2>2. committed.history[v] \in Nat /\ v \in Nat
      BY <1>0, <2>1
  <2>3. Decided[q] = [digest |-> committed.results[q].digest,
                      tx |-> [view |-> committed.history[v], seqno |-> v]]
      BY <1>1, Zenon DEF Decided, Outcome
  <2>4. Decided[q] \in [digest : Message, tx : TxId]
      BY <2>1, <2>2, <2>3 DEF TxId
  <2> QED BY <2>3, <2>4, NoneAssumption, Zenon
<1>2. \A q \in Requests : committed.results[q] = None => Decided[q] = None
    BY Zenon DEF Decided
<1>3. Decided \in [Requests -> [digest : Message, tx : TxId] \cup {None}]
  <2>1. Decided = [q \in Requests |-> Decided[q]]
      BY Zenon DEF Decided
  <2>2. \A q \in Requests : Decided[q] \in [digest : Message, tx : TxId] \cup {None}
      BY <1>1, <1>2, Zenon
  <2> QED BY <2>1, <2>2, Zenon
<1>4. ASSUME NEW q \in Requests, NEW r \in Answers(q)
      PROVE  Decided[q] # None /\ Outcome(r.message, Reported(r)) = Decided[q]
  <2>1. r \in told /\ r.kind = "result" /\ r.message.request = q
      BY Zenon DEF Answers
  <2>2. Reported(r).seqno >= 1 /\ Stored(r, committed)
      BY <2>1, Zenon DEF Inv, ToldStored
  <2>3. r.message \in Message /\ Reported(r) \in TxId
      BY <2>1, Zenon DEF Inv, TypeOK, Response, Reported
  <2>4. Reported(r) = [view |-> Reported(r).view, seqno |-> Reported(r).seqno]
        /\ Reported(r).seqno \in Nat
      BY <2>3, Zenon DEF TxId
  <2>5. /\ committed.results[q] = [digest |-> r.message, version |-> Reported(r).seqno]
        /\ committed.history[Reported(r).seqno] = Reported(r).view
      BY <2>1, <2>2, ZenonT(40) DEF Stored, InHistory
  <2>6. committed.results[q] # None
      BY <2>3, <2>4, <2>5, NoneAssumption DEF RequestResult
  <2> QED BY <1>1, <2>4, <2>5, <2>6 DEF Outcome
<1>5. Announced = [q \in Requests |-> IF Answers(q) = {} THEN None ELSE Decided[q]]
  <2>1. ASSUME NEW q \in Requests
        PROVE  Announced[q] = IF Answers(q) = {} THEN None ELSE Decided[q]
    <3> DEFINE r == CHOOSE r \in Answers(q) : TRUE
    <3>1. Announced[q] = IF Answers(q) = {} THEN None ELSE Outcome(r.message, Reported(r))
        BY Zenon DEF Announced
    <3>2. Answers(q) # {} => r \in Answers(q)
        BY Zenon
    <3> HIDE DEF r
    <3> QED BY <1>4, <3>1, <3>2, Zenon
  <2>2. Announced = [q \in Requests |-> Announced[q]]
      BY DEF Announced
  <2> QED BY <2>1, <2>2, Zenon
<1> QED BY <1>1, <1>2, <1>3, <1>4, <1>5, Zenon DEF MappingSound

\* And in the state after a step.
LEMMA MappingFactsNext == Inv' => MappingSound'
BY MappingFacts, PTL

\* Commit decides: outcomes decided before keep, and nothing is announced.
LEMMA CommitDecides ==
    ASSUME Inv, Inv', Commit
    PROVE  Abstract!Decide
<1>0. MappingSound /\ MappingSound'
    BY MappingFacts, MappingFactsNext, Zenon
<1>1. committed' = kv /\ UNCHANGED <<kv, view, inflight, told, generated>>
    BY Zenon DEF Commit
<1>2. ASSUME NEW q \in Requests, Decided[q] # None
      PROVE  Decided'[q] = Decided[q]
  <2>1. committed.results[q] # None
      BY <1>0, <1>2, ZenonT(40) DEF MappingSound
  <2>2. kv.results[q] = committed.results[q]
      BY <2>1, ZenonT(40) DEF Inv, ExtendsCommitted
  <2>3. kv.history[committed.results[q].version] = committed.history[committed.results[q].version]
      BY <2>1, ZenonT(40) DEF Inv, ResultsSound, HistorySound
  <2> QED BY <1>1, <2>1, <2>2, <2>3, ZenonT(40) DEF Decided, Outcome
<1>3. Decided' \in [Requests -> [digest : Message, tx : TxId] \cup {None}]
    BY <1>0, Zenon DEF MappingSound
<1>4. Announced' = Announced
  <2>1. \A q \in Requests : Answers(q)' = Answers(q)
      BY <1>1, Zenon DEF Answers
  <2>2. \A q \in Requests : (IF Answers(q)' = {} THEN None ELSE Decided'[q])
                              = (IF Answers(q) = {} THEN None ELSE Decided[q])
      BY <1>0, <1>2, <2>1, Zenon DEF MappingSound
  <2> QED BY <1>0, <2>2, Zenon DEF MappingSound
<1> QED BY <1>2, <1>3, <1>4, Zenon DEF Abstract!Decide

\* Deliver announces the decided outcome, or is invisible.
LEMMA DeliverAnnounces ==
    ASSUME Inv, Inv', NEW r \in inflight, Deliver(r)
    PROVE  [Abstract!Next]_(Abstract!vars)
<1> DEFINE q == r.message.request
<1>0. MappingSound /\ MappingSound'
    BY MappingFacts, MappingFactsNext, Zenon
<1>1. committed' = committed /\ told' = told \cup {r} /\ q \in Requests
    BY Zenon DEF Deliver, Inv, TypeOK, Response, Message
<1>2. Decided' = Decided
    BY <1>1, Zenon DEF Decided
<1>3. CASE r.kind = "result"
  <2>1. r \in Answers(q)' /\ \A p \in Requests : p # q => Answers(p)' = Answers(p)
      BY <1>1, <1>3, Zenon DEF Answers
  <2>2. Decided[q] # None
      BY <1>0, <1>1, <1>2, <2>1, Zenon DEF MappingSound
  <2>3. Announced' = [Announced EXCEPT ![q] = Decided[q]]
    <3> HIDE DEF q
    <3>1. Announced' = [p \in Requests |-> IF Answers(p)' = {} THEN None ELSE Decided[p]]
        BY <1>0, <1>2, ZenonT(40) DEF MappingSound
    <3>2. Announced = [p \in Requests |-> IF Answers(p) = {} THEN None ELSE Decided[p]]
        BY <1>0, Zenon DEF MappingSound
    <3>3. \A p \in Requests : Announced'[p] = IF p = q THEN Decided[q] ELSE Announced[p]
        BY <1>1, <2>1, <3>1, <3>2, Zenon
    <3>4. DOMAIN Announced = Requests /\ DOMAIN Announced' = Requests
        BY <3>1, <3>2, Zenon
    <3>5. Announced' = [p \in Requests |-> Announced'[p]]
        BY <3>1, Zenon
    <3> QED BY <1>1, <3>2, <3>3, <3>5, Zenon
  <2> QED BY <1>1, <1>2, <2>2, <2>3, Zenon DEF Abstract!Next, Abstract!Announce
<1>4. CASE r.kind # "result"
  <2>1. \A p \in Requests : Answers(p)' = Answers(p)
      BY <1>1, <1>4, Zenon DEF Answers
  <2>2. Announced' = Announced
      BY <1>0, <1>2, <2>1, Zenon DEF MappingSound
  <2> QED BY <1>2, <2>2, Zenon DEF Abstract!vars
<1> QED BY <1>3, <1>4, Zenon

\* The ledger, with its nonces, views, rollbacks and gate, implements
\* RequestOutcome: what is decided is never revised, and only that is announced.
THEOREM LedgerImplementsOutcome == Spec => ImplementsOutcome
<1>1. Init => Abstract!Init
  <2> SUFFICES ASSUME Init PROVE Abstract!Init
      BY Zenon
  <2>1. committed.results = [q \in Requests |-> None] /\ told = {}
      BY ZenonT(40) DEF Init, EmptyStore
  <2>2. Decided = [q \in Requests |-> None]
      BY <2>1, Zenon DEF Decided
  <2>3. \A q \in Requests : Answers(q) = {}
      BY <2>1, Zenon DEF Answers
  <2>4. Announced = [q \in Requests |-> None]
      BY <2>3, Zenon DEF Announced
  <2> QED BY <2>2, <2>4, Zenon DEF Abstract!Init
<1>2. Inv /\ Inv' /\ [Next]_vars => [Abstract!Next]_(Abstract!vars)
  <2> SUFFICES ASSUME Inv, Inv', [Next]_vars PROVE [Abstract!Next]_(Abstract!vars)
      BY Zenon
  <2>1. CASE UNCHANGED <<committed, told>>
    <3>0. MappingSound /\ MappingSound'
        BY MappingFacts, MappingFactsNext, Zenon
    <3>1. Decided' = Decided /\ \A q \in Requests : Answers(q)' = Answers(q)
        BY <2>1, Zenon DEF Decided, Answers
    <3>2. Announced' = Announced
        BY <3>0, <3>1, Zenon DEF MappingSound
    <3> QED BY <3>1, <3>2, Zenon DEF Abstract!vars
  <2>2. CASE Commit
      BY <2>2, CommitDecides, Zenon DEF Abstract!Next
  <2>3. CASE \E r \in inflight : Deliver(r)
      BY <2>3, DeliverAnnounces, Zenon
  <2> QED BY <2>1, <2>2, <2>3, DurableSteps, Zenon
<1> QED BY <1>1, <1>2, LedgerInvariant, PTL DEF Spec, ImplementsOutcome, Abstract!Spec

-----------------------------------------------------------------------------
(* Receipts: what a verifier accepts was signed, and is in the tree.       *)
(*                                                                         *)
(* A path is followed by a recursive function, defined on the positions of *)
(* one path.  That such a function exists is a least-number argument, and  *)
(* so is every other induction here.                                       *)

\* A set of naturals that is not empty has a least member.
LEMMA LeastNumber ==
    ASSUME NEW T, T \subseteq Nat, T # {} PROVE \E x \in T : \A y \in T : x <= y
<1> DEFINE R == OpToRel(<, Nat)
<1>1. IsWellFoundedOn(R, Nat)
    BY NatLessThanWellFounded, Zenon
<1>2. \A x, y \in Nat : <<y, x>> \in R <=> y < x
    BY Zenon DEF OpToRel
<1> HIDE DEF R
<1>3. PICK x \in T : \A y \in T : ~(<<y, x>> \in R)
    BY <1>1, WFMin, Zenon
<1>4. \A y \in T : x \in Nat /\ y \in Nat /\ ~(y < x)
    BY <1>2, <1>3, Zenon
<1>5. \A y \in T : x <= y
    BY <1>4
<1> QED BY <1>3, <1>5, Zenon

\* f holds the hashes after 0, 1, ..., n steps of a path.
Loops(f, start, path, n) ==
    /\ f = [k \in 0..n |-> f[k]]
    /\ f[0] = start
    /\ \A k \in 1..n : f[k] = Above(f[k - 1], path[k])

\* The loop that hashes along a path has a run, however long the path.
LEMMA LoopExists ==
    ASSUME NEW start, NEW path, NEW n \in Nat
    PROVE  \E f : Loops(f, start, path, n)
<1> DEFINE T == {m \in Nat : \A f : ~Loops(f, start, path, m)}
<1>1. SUFFICES ASSUME T # {} PROVE FALSE
    BY Zenon
<1>2. PICK m \in T : \A y \in T : m <= y
    BY <1>1, LeastNumber, Zenon
<1>3. m # 0
  <2> DEFINE g == [k \in 0..0 |-> start]
  <2>1. Loops(g, start, path, 0)
      BY DEF Loops
  <2> QED BY <2>1, <1>2, Zenon
<1>4. m - 1 \in Nat /\ m - 1 \notin T
    BY <1>2, <1>3
<1>5. PICK f : Loops(f, start, path, m - 1)
    BY <1>4, Zenon
<1> DEFINE g == [k \in 0..m |-> IF k = m THEN Above(f[m - 1], path[m]) ELSE f[k]]
<1>6. Loops(g, start, path, m)
  <2>1. g = [k \in 0..m |-> g[k]]
      BY Zenon
  <2>2. g[0] = start
      BY <1>2, <1>3, <1>5, SMTT(30) DEF Loops
  <2>3. ASSUME NEW k \in 1..m PROVE g[k] = Above(g[k - 1], path[k])
    <3>1. CASE k = m
        BY <3>1, <1>2, <1>3
    <3>2. CASE k # m
      <4>1. k \in 1..m - 1 /\ k - 1 \in 0..m /\ k - 1 # m
          BY <3>2, <1>2
      <4>2. f[k] = Above(f[k - 1], path[k])
          BY <4>1, <1>5, Zenon DEF Loops
      <4> QED BY <4>1, <4>2, <3>2
    <3> QED BY <3>1, <3>2, Zenon
  <2> QED BY <2>1, <2>2, <2>3, Zenon DEF Loops
<1> QED BY <1>2, <1>6, Zenon

\* What the loop computes is what a function of this kind holds at the end.
LEMMA LoopUnfolds ==
    ASSUME NEW start, NEW path, Len(path) \in Nat
    PROVE  \E f : Loops(f, start, path, Len(path)) /\ Accumulated(start, path) = f[Len(path)]
<1> DEFINE E(f) == f = [k \in 0..Len(path) |-> IF k = 0 THEN start ELSE Above(f[k - 1], path[k])]
           g == CHOOSE f : E(f)
<1>1. PICK h : Loops(h, start, path, Len(path))
    BY LoopExists, Zenon
<1>2. E(h)
  <2>1. \A k \in 0..Len(path) : h[k] = IF k = 0 THEN start ELSE Above(h[k - 1], path[k])
      BY <1>1 DEF Loops
  <2>2. h = [k \in 0..Len(path) |-> h[k]]
      BY <1>1, Zenon DEF Loops
  <2> HIDE DEF g
  <2> QED BY <2>1, <2>2, Zenon
<1>3. E(g)
    BY <1>2, ZenonT(40)
<1>4. Accumulated(start, path) = g[Len(path)]
    BY Zenon DEF Accumulated
<1> HIDE DEF g
<1>5. Loops(g, start, path, Len(path))
    BY <1>3, SMTT(30) DEF Loops
<1> QED BY <1>4, <1>5, Zenon

\* h is the hash of the last of a service's first n leaves, or has it on its right.
Ends(h, s, n) == h = Hash(LeafOf(s, n)) \/ \E x : h = <<x, Hash(LeafOf(s, n))>>

\* The last sibling of a leaf is the last leaf of the tree, on the right.
LEMMA SiblingsEnd ==
    ASSUME NEW s, NEW i \in Nat, NEW n \in Nat, i < n
    PROVE  /\ Len(Siblings(s, i, n)) = n - i
           /\ Siblings(s, i, n)[n - i] = [side |-> "right", hash |-> Hash(LeafOf(s, n))]
<1>1. n - i \in Nat /\ n - i \in 1..n - i /\ i + (n - i) = n
    BY SMTT(30)
<1>2. Siblings(s, i, n) = [j \in 1..n - i |-> [side |-> "right", hash |-> Hash(LeafOf(s, i + j))]]
    BY Zenon DEF Siblings
<1> DEFINE H(j) == [side |-> "right", hash |-> Hash(LeafOf(s, j))]
<1>3. Siblings(s, i, n) = [j \in 1..n - i |-> H(i + j)]
    BY <1>2, Zenon
<1> HIDE DEF H
<1>4. Len(Siblings(s, i, n)) = n - i /\ Siblings(s, i, n)[n - i] = H(i + (n - i))
    BY <1>1, <1>3
<1>5. H(i + (n - i)) = H(n)
    BY <1>1, Zenon
<1> QED BY <1>4, <1>5, Zenon DEF H

\* The loop ends with the last step of the path.
LEMMA LastStep ==
    ASSUME NEW start, NEW path, Len(path) \in Nat
    PROVE  /\ Len(path) = 0 => Accumulated(start, path) = start
           /\ Len(path) # 0 => \E x : Accumulated(start, path) = Above(x, path[Len(path)])
<1> DEFINE n == Len(path)
<1>1. PICK f : Loops(f, start, path, n) /\ Accumulated(start, path) = f[n]
    BY LoopUnfolds, Zenon
<1> HIDE DEF n
<1>2. CASE n = 0
    BY <1>1, <1>2, Zenon DEF Loops, n
<1>3. CASE n # 0
  <2>1. n \in 1..n
      BY <1>3 DEF n
  <2> QED BY <1>1, <1>3, <2>1, Zenon DEF Loops, n
<1> QED BY <1>2, <1>3, Zenon

\* A step with a sibling on the right.
LEMMA RightStep ==
    ASSUME NEW x, NEW h PROVE Above(x, [side |-> "right", hash |-> h]) = <<x, h>>
BY Zenon DEF Above

\* The root of a tree ends in its last leaf.
LEMMA RootEnds ==
    ASSUME NEW s, NEW n \in Nat \ {0} PROVE Ends(Root(s, n), s, n)
<1> DEFINE path == Siblings(s, 1, n)
<1>1. CASE n = 1
  <2>1. Len(path) = 0
      BY <1>1 DEF Siblings
  <2>2. Root(s, n) = Hash(LeafOf(s, 1))
      BY <2>1, LastStep DEF Root
  <2> QED BY <1>1, <2>2, Zenon DEF Ends
<1>2. CASE n # 1
  <2> DEFINE h == Hash(LeafOf(s, n))
  <2>1. Len(path) = n - 1 /\ path[n - 1] = [side |-> "right", hash |-> h] /\ n - 1 \in Nat \ {0}
      BY <1>2, SiblingsEnd, SMTT(30)
  <2>2. Len(path) \in Nat /\ Len(path) # 0 /\ path[Len(path)] = [side |-> "right", hash |-> h]
      BY <2>1, Zenon
  <2> HIDE DEF path
  <2>3. PICK x : Accumulated(Hash(LeafOf(s, 1)), path) = Above(x, path[Len(path)])
      BY <2>2, LastStep, Zenon
  <2>4. Root(s, n) = <<x, h>>
      BY <2>2, <2>3, RightStep, Zenon DEF Root, path
  <2> QED BY <2>4, Zenon DEF Ends
<1> QED BY <1>1, <1>2, Zenon

\* The elements of two sequences joined into one.
LEMMA Joined ==
    ASSUME NEW U, NEW a \in Seq(U), NEW b \in Seq(U)
    PROVE  /\ Len(a \o b) = Len(a) + Len(b)
           /\ \A j \in 1..Len(a) + Len(b) :
                (a \o b)[j] = IF j <= Len(a) THEN a[j] ELSE b[j - Len(a)]
OBVIOUS

\* Hashing a leaf along its path ends in the last leaf of the tree.
LEMMA PathEnds ==
    ASSUME NEW s, NEW m \in Nat \ {0}, NEW i \in 1..m
    PROVE  Ends(Accumulated(Hash(LeafOf(s, i)), PathOf(s, i, m)), s, m)
<1> DEFINE left == [side |-> "left", hash |-> Root(s, i - 1)]
           rest == Siblings(s, i, m)
           T == {rest[j] : j \in 1..m - i}
           start == Hash(LeafOf(s, i))
           path == PathOf(s, i, m)
           h == Hash(LeafOf(s, m))
<1>1. rest \in Seq(T) /\ Len(rest) = m - i /\ m - i \in Nat
  <2>1. m - i \in Nat
      BY SMTT(30)
  <2>2. rest \in [1..m - i -> T]
      BY Zenon DEF Siblings
  <2> HIDE DEF rest, T
  <2> QED BY <2>1, <2>2
<1>2. i = 1 => path = rest
  <2>1. i = 1 => path = <<>> \o rest
      BY Zenon DEF PathOf
  <2> HIDE DEF rest, T, path
  <2> QED BY <1>1, <2>1
<1>3. i # 1 => path = <<left>> \o rest
    BY Zenon DEF PathOf
<1>4. CASE i = 1
    BY <1>2, <1>4, RootEnds, Zenon DEF Root
<1>5. ASSUME i # 1 PROVE Ends(Accumulated(start, path), s, m)
  <2> HIDE DEF left, rest, T, path
  <2>1. Len(path) = 1 + (m - i) /\ path[1] = left /\ \A j \in 1..m - i : path[1 + j] = rest[j]
    <3> DEFINE U == {left} \cup T
               one == <<left>>
    <3>1. one \in Seq(U) /\ Len(one) = 1 /\ one[1] = left
        OBVIOUS
    <3>2. rest \in Seq(U) /\ Len(rest) = m - i
        BY <1>1
    <3>3. path = one \o rest
        BY <1>3, <1>5, Zenon
    <3> HIDE DEF U, one
    <3>4. /\ Len(one \o rest) = Len(one) + Len(rest)
          /\ \A j \in 1..Len(one) + Len(rest) :
                (one \o rest)[j] = IF j <= Len(one) THEN one[j] ELSE rest[j - Len(one)]
        BY <3>1, <3>2, Joined, Zenon
    <3>5. path[1] = left
      <4>1. 1 \in 1..Len(one) + Len(rest) /\ 1 <= Len(one)
          BY <1>1, <3>1, <3>2
      <4> QED BY <3>1, <3>3, <3>4, <4>1, Zenon
    <3>6. ASSUME NEW j \in 1..m - i PROVE path[1 + j] = rest[j]
      <4>1. 1 + j \in 1..Len(one) + Len(rest) /\ ~(1 + j <= Len(one)) /\ (1 + j) - Len(one) = j
          BY <1>1, <3>1, <3>2
      <4> QED BY <3>3, <3>4, <4>1, Zenon
    <3> QED BY <3>1, <3>2, <3>3, <3>4, <3>5, <3>6, Zenon
  <2>2. Len(path) \in Nat /\ Len(path) # 0
      BY <1>1, <2>1
  <2>3. CASE i # m
    <3>1. i < m /\ i \in Nat /\ m \in Nat /\ m - i \in 1..m - i
        BY <2>3, SMTT(30)
    <3>2. rest[m - i] = [side |-> "right", hash |-> h]
        BY <3>1, SiblingsEnd, Zenon DEF rest
    <3> HIDE DEF h
    <3>3. path[Len(path)] = [side |-> "right", hash |-> h]
        BY <2>1, <3>1, <3>2, Zenon
    <3>4. PICK x : Accumulated(start, path) = Above(x, path[Len(path)])
        BY <2>2, LastStep, Zenon
    <3>5. Accumulated(start, path) = <<x, h>>
        BY <3>3, <3>4, RightStep, Zenon
    <3> QED BY <3>5, Zenon DEF Ends, h
  <2>4. CASE i = m
    <3>1. Len(path) = 1
        BY <2>1, <2>4
    <3> HIDE DEF start
    <3>2. PICK f : Loops(f, start, path, Len(path)) /\ Accumulated(start, path) = f[Len(path)]
        BY <2>2, LoopUnfolds, Zenon
    <3>3. f[0] = start /\ f[1] = Above(f[1 - 1], path[1]) /\ Accumulated(start, path) = f[1]
      <4>1. 1 \in 1..Len(path)
          BY <3>1
      <4> QED BY <3>1, <3>2, <4>1, Zenon DEF Loops
    <3>4. Accumulated(start, path) = <<Root(s, i - 1), start>>
      <4>1. Accumulated(start, path) = Above(start, left)
          BY <2>1, <3>3
      <4> QED BY <4>1, Zenon DEF Above, left
    <3> QED BY <2>4, <3>4, Zenon DEF Ends, start
  <2> QED BY <2>3, <2>4, Zenon
<1> QED BY <1>4, <1>5, Zenon

\* One hash does not end in the leaves of two services.
LEMMA EndsUnique ==
    ASSUME NEW h, NEW s, NEW t, NEW m, NEW n, Ends(h, s, m), Ends(h, t, n)
    PROVE  s = t
<1>1. Hash(LeafOf(s, m)) = <<(<<s, m>>), [tx |-> m, nonce |-> <<s, m>>], ledgers[s][m]>>
    BY Zenon DEF Hash, LeafOf
<1>2. Hash(LeafOf(t, n)) = <<(<<t, n>>), [tx |-> n, nonce |-> <<t, n>>], ledgers[t][n]>>
    BY Zenon DEF Hash, LeafOf
<1>3. Hash(LeafOf(s, m)) = Hash(LeafOf(t, n)) => s = t
    BY <1>1, <1>2
<1>4. \A x : Hash(LeafOf(s, m)) # <<x, Hash(LeafOf(t, n))>>
    BY <1>1
<1>5. \A x : Hash(LeafOf(t, n)) # <<x, Hash(LeafOf(s, m))>>
    BY <1>2
<1>6. \A x, y : <<x, Hash(LeafOf(s, m))>> = <<y, Hash(LeafOf(t, n))>> => Hash(LeafOf(s, m)) = Hash(LeafOf(t, n))
    BY Zenon
<1> QED BY <1>3, <1>4, <1>5, <1>6, Zenon DEF Ends

ReceiptTypeOK ==
    /\ ledgers \in [Services -> Seq(Claims)]
    /\ signed \in [Services -> SUBSET (Nat \ {0})]
    /\ accepted # <<>> => accepted.tx \in Nat \ {0}

\* The certificates lead from a node to the trusted service only if the node is
\* the trusted service's, or that of the identity it recovered from.
LEMMA EndorsedService ==
    ASSUME NEW s \in Services, Endorsed(NodeCertificate(s), EndorsementsOf(s))
    PROVE  s \in {Trusted, Previous}
<1> DEFINE node == NodeCertificate(s)
           last == [key |-> Trusted, issuer |-> Trusted]
<1>1. CASE s # Previous
  <2>1. EndorsementsOf(s) = <<>>
      BY <1>1, Zenon DEF EndorsementsOf
  <2> DEFINE chain == <<node>> \o <<>> \o <<last>>
  <2>2. \A i \in 1..Len(chain) - 1 : chain[i].issuer = chain[i + 1].key
      BY <2>1, Zenon DEF Endorsed
  <2> HIDE DEF node, last
  <2>3. <<node>> \o <<>> = <<node>>
      OBVIOUS
  <2>4. Len(chain) = 2 /\ chain[1] = node /\ chain[2] = last
      BY <2>3
  <2> HIDE DEF chain
  <2>5. node.issuer = last.key
    <3>1. 1 \in 1..Len(chain) - 1 /\ 1 + 1 = 2
        BY <2>4, SMTT(30)
    <3> QED BY <2>2, <2>4, <3>1, Zenon
  <2> QED BY <2>5, Zenon DEF node, last, NodeCertificate
<1> QED BY <1>1, Zenon

\* A receipt that is authenticated is of an entry some trusted ledger holds at that place.
LEMMA VerifiedSound ==
    ASSUME ReceiptTypeOK, NEW leafOf \in Services, NEW sigOf \in Services, NEW certOf \in Services,
           NEW m \in 1..Len(ledgers[leafOf]), NEW n \in signed[sigOf], NEW i \in 1..m,
           NEW tx, NEW claim,
           Authenticated(Proof(leafOf, i, m, sigOf, n, certOf), tx, claim)
    PROVE  /\ tx \in 1..Len(ledgers[leafOf]) /\ ledgers[leafOf][tx] = claim
           /\ leafOf \in {Trusted, Previous}
<1> DEFINE proof == Proof(leafOf, i, m, sigOf, n, certOf)
<1>1. /\ proof.leaf = LeafOf(leafOf, i) /\ proof.path = PathOf(leafOf, i, m)
      /\ proof.signature = [key |-> <<"node", sigOf>>, root |-> Root(sigOf, n)]
      /\ proof.node = NodeCertificate(certOf) /\ proof.endorsements = EndorsementsOf(certOf)
    BY Zenon DEF Proof
<1> HIDE DEF proof
<1>2. /\ proof.leaf.claims = claim /\ proof.leaf.evidence.tx = tx
      /\ Endorsed(proof.node, proof.endorsements)
      /\ proof.signature = [key |-> proof.node.key, root |-> Accumulated(Hash(proof.leaf), proof.path)]
    BY Zenon DEF Authenticated, proof
<1>3. Len(ledgers[leafOf]) \in Nat /\ m \in Nat \ {0} /\ n \in Nat \ {0}
    BY SMTT(30) DEF ReceiptTypeOK
<1>4. tx = i /\ claim = ledgers[leafOf][i]
  <2>1. LeafOf(leafOf, i).claims = ledgers[leafOf][i] /\ LeafOf(leafOf, i).evidence.tx = i
      BY Zenon DEF LeafOf
  <2> QED BY <1>1, <1>2, <2>1, Zenon
<1>5. certOf \in {Trusted, Previous}
    BY <1>1, <1>2, EndorsedService, Zenon
<1>6. Root(sigOf, n) = Accumulated(Hash(LeafOf(leafOf, i)), PathOf(leafOf, i, m))
  <2>1. proof.signature.root = Accumulated(Hash(proof.leaf), proof.path)
      BY <1>2, SMTT(30)
  <2>2. proof.signature.root = Root(sigOf, n)
      BY <1>1, SMTT(30)
  <2> QED BY <1>1, <2>1, <2>2, ZenonT(40)
<1>7. sigOf = certOf
  <2>1. proof.signature.key = proof.node.key
      BY <1>2, SMTT(30)
  <2>2. <<"node", sigOf>> = <<"node", certOf>>
      BY <1>1, <2>1, SMTT(30) DEF NodeCertificate
  <2> QED BY <2>2, ZenonT(40)
<1>8. leafOf = sigOf
  <2>1. Ends(Root(sigOf, n), sigOf, n)
      BY <1>3, RootEnds, Zenon
  <2>2. Ends(Accumulated(Hash(LeafOf(leafOf, i)), PathOf(leafOf, i, m)), leafOf, m)
      BY <1>3, PathEnds, ZenonT(40)
  <2> QED BY <1>6, <2>1, <2>2, EndsUnique, ZenonT(40)
<1> QED BY <1>3, <1>4, <1>5, <1>7, <1>8, SMTT(30)

\* A receipt the client accepts was issued for what it says.
LEMMA VerifyStep ==
    ASSUME ReceiptTypeOK, accepted = <<>>, NEW leafOf \in Services, NEW sigOf \in Services, NEW certOf \in Services,
           NEW m \in 1..Len(ledgers[leafOf]), NEW n \in signed[sigOf], NEW i \in 1..m,
           NEW body \in ReceiptBodies, Verify(body, Proof(leafOf, i, m, sigOf, n, certOf))
    PROVE  ReceiptTypeOK' /\ ReceiptSound'
<1> DEFINE proof == Proof(leafOf, i, m, sigOf, n, certOf)
           claim == accepted'.claim
<1>1. body.claim \in Claims /\ body.ksk \in BOOLEAN /\ (body.ksk => body.claim.type = "ksk")
    BY Zenon DEF ReceiptBodies
<1>2. body.claim.type \in {"ksk", "policy"} /\ body.claim.owner \in Zones /\ body.claim.value \in Values
      /\ body.claim = [type |-> body.claim.type, owner |-> body.claim.owner, value |-> body.claim.value]
    BY <1>1, Zenon DEF Claims
<1> HIDE DEF proof
<1>3. /\ IF body.ksk THEN VerifyKsk(body, proof, body.claim.owner) ELSE VerifyClaims(body, proof)
      /\ accepted' = [claim |-> [body.claim EXCEPT !.type = IF body.ksk THEN "ksk" ELSE @], tx |-> body.tx_id]
      /\ ledgers' = ledgers /\ signed' = signed
    BY Zenon DEF Verify, proof
<1>4. accepted'.tx = body.tx_id /\ claim = [body.claim EXCEPT !.type = IF body.ksk THEN "ksk" ELSE @]
    BY <1>3, Zenon
<1>5. claim = body.claim
    BY <1>1, <1>2, <1>4, Zenon
<1>6. Authenticated(proof, body.tx_id, body.claim)
  <2>1. CASE body.ksk
    <3>1. Authenticated(proof, body.tx_id, KskClaim(body.claim.owner, body.claim.value))
        BY <1>3, <2>1, Zenon DEF VerifyKsk
    <3>2. KskClaim(body.claim.owner, body.claim.value) = body.claim
        BY <1>1, <1>2, <2>1, Zenon DEF KskClaim
    <3> QED BY <3>1, <3>2, Zenon
  <2>2. CASE ~body.ksk
      BY <1>3, <2>2, Zenon DEF VerifyClaims
  <2> QED BY <2>1, <2>2, ZenonT(40)
<1>7. /\ body.tx_id \in 1..Len(ledgers[leafOf]) /\ ledgers[leafOf][body.tx_id] = body.claim
      /\ leafOf \in {Trusted, Previous}
    BY <1>6, VerifiedSound, ZenonT(40) DEF proof
<1>8. Len(ledgers[leafOf]) \in Nat
    BY DEF ReceiptTypeOK
<1>9. ReceiptTypeOK'
    BY <1>3, <1>4, <1>7, <1>8 DEF ReceiptTypeOK
<1>10. ReceiptSound'
    BY <1>3, <1>4, <1>5, <1>7, <1>8 DEF ReceiptSound
<1> QED BY <1>9, <1>10, Zenon

\* ReceiptSound: what either verifier accepts was written, at the transaction the
\* receipt names, by the trusted service or the identity it recovered from, for
\* any number of services, claims and transactions.
THEOREM ReceiptsCorrect == ReceiptsSpec => []ReceiptSound
<1> DEFINE Kept == ReceiptTypeOK /\ ReceiptSound
<1>1. ReceiptsInit => Kept
    BY SMTT(30) DEF ReceiptsInit, ReceiptTypeOK, ReceiptSound
<1>2. Kept /\ [ReceiptsNext]_receiptVars => Kept'
  <2> SUFFICES ASSUME Kept, [ReceiptsNext]_receiptVars PROVE Kept'
      BY Zenon
  <2>1. ASSUME NEW s \in Services, NEW claim \in Claims, WriteClaim(s, claim) PROVE Kept'
    <3>1. /\ ledgers' = [ledgers EXCEPT ![s] = Append(@, claim)]
          /\ signed' = signed /\ accepted' = accepted
        BY <2>1, Zenon DEF WriteClaim
    <3>2. ReceiptTypeOK'
        BY <3>1 DEF ReceiptTypeOK
    <3>3. \A t \in Services : \A j \in 1..Len(ledgers[t]) :
             Len(ledgers'[t]) >= Len(ledgers[t]) /\ Len(ledgers'[t]) \in Nat /\ ledgers'[t][j] = ledgers[t][j]
        BY <3>1 DEF ReceiptTypeOK
    <3>4. ReceiptSound'
      <4>1. SUFFICES ASSUME accepted # <<>>
                     PROVE  \E t \in {Trusted, Previous} :
                               accepted.tx <= Len(ledgers'[t]) /\ ledgers'[t][accepted.tx] = accepted.claim
          BY <3>1, Zenon DEF ReceiptSound
      <4>2. PICK t \in {Trusted, Previous} :
               accepted.tx <= Len(ledgers[t]) /\ ledgers[t][accepted.tx] = accepted.claim
          BY <4>1, Zenon DEF ReceiptSound
      <4>3. t \in Services /\ Len(ledgers[t]) \in Nat /\ accepted.tx \in 1..Len(ledgers[t])
          BY <4>1, <4>2, ReceiptsAssumption, SMTT(30) DEF ReceiptTypeOK
      <4> QED BY <3>3, <4>2, <4>3, SMTT(30)
    <3> QED BY <3>2, <3>4, Zenon
  <2>2. ASSUME NEW s \in Services, SignRoot(s) PROVE Kept'
    <3>1. /\ ledgers[s] # <<>> /\ signed' = [signed EXCEPT ![s] = @ \cup {Len(ledgers[s])}]
          /\ ledgers' = ledgers /\ accepted' = accepted
        BY <2>2, Zenon DEF SignRoot
    <3>2. Len(ledgers[s]) \in Nat \ {0}
        BY <3>1 DEF ReceiptTypeOK
    <3>3. ReceiptTypeOK'
        BY <3>1, <3>2, Zenon DEF ReceiptTypeOK
    <3> QED BY <3>1, <3>3, Zenon DEF ReceiptSound
  <2>3. ASSUME accepted = <<>>, NEW leafOf \in Services, NEW sigOf \in Services, NEW certOf \in Services,
               NEW m \in 1..Len(ledgers[leafOf]), NEW n \in signed[sigOf], NEW i \in 1..m,
               NEW body \in ReceiptBodies, Verify(body, Proof(leafOf, i, m, sigOf, n, certOf))
        PROVE  Kept'
      BY <2>3, VerifyStep, Zenon
  <2>4. CASE UNCHANGED receiptVars
      BY <2>4, Zenon DEF receiptVars, ReceiptTypeOK, ReceiptSound
  <2> QED BY <2>1, <2>2, <2>3, <2>4, Zenon DEF ReceiptsNext
<1> QED BY <1>1, <1>2, PTL DEF ReceiptsSpec

=============================================================================
