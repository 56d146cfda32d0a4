----------------------- MODULE SecondaryPeeringProofs -----------------------
(***************************************************************************)
(* Peering keeps one pending row for each job, and what it records about   *)
(* a secondary is true of that secondary, for any number of secondaries,   *)
(* zones, drivers, any batch limit and any freshness.                      *)
(*                                                                         *)
(* The argument rests on the work id: the id of new work is used nowhere   *)
(* (a driver holds at most one id for each job, so there is always one     *)
(* left), hence no answer that is already on its way can match a row that  *)
(* is issued now.                                                          *)
(***************************************************************************)
EXTENDS SecondaryPeering, FiniteSetTheorems, SequenceTheorems, TLAPS

DriverStates ==
    [backlog : Seq(Ids), futures : SUBSET Exchanges, age : 0 .. DiscardAfter]

\* A driver holds one batch, so one id for each job, and a bounded window of it
\* is under way.
DriversBounded ==
    /\ driver \in [Drivers -> DriverStates]
    /\ \A d \in Drivers :
          /\ IsFiniteSet(driver[d].futures)
          /\ Cardinality(driver[d].futures) <= Outstanding
          /\ \A a, b \in HeldIds(d) : JobOf(a) = JobOf(b) => a = b

\* Nothing is ahead of the serial that is committed.
NothingAhead ==
    /\ \A ze \in Zones \X Endpoints : heard[ze] <= serial[ze[1]] /\ copy[ze] <= serial[ze[1]]
    /\ \A p \in pending : p.serial <= serial[ZoneOf(JobOf(p.id))]

\* An answer in a driver's hands is true of the secondary, and if a row still
\* waits for it then the secondary heard of the serial of that row.
AnswerTrue(x) ==
    x.stage = "answered" =>
       /\ x.answer <= copy[StatusKey(JobOf(x.id))]
       /\ KindOf(JobOf(x.id)) = "notify" =>
             \A p \in pending : p.id = x.id => p.serial <= heard[StatusKey(JobOf(x.id))]

AnswersTrue == \A d \in Drivers : \A x \in driver[d].futures : AnswerTrue(x)

Inv ==
    /\ TypeOK
    /\ OneRowPerJob
    /\ DriversBounded
    /\ NothingAhead
    /\ AnswersTrue
    /\ StatusTrue
---------------------------------------------------------------------------
(* Operators.                                                              *)

\* What a job and a work id are made of.
LEMMA JobFacts ==
    /\ \A j \in Jobs : /\ KeyOf(j) \in KeyNames /\ ZoneOf(j) \in Zones
                       /\ StatusKey(j) \in Zones \X Endpoints
                       /\ StatusKey(j)[1] = ZoneOf(j)
                       /\ StatusKey(j)[2] = EndpointOf[KeyOf(j)]
    /\ \A id \in Ids : JobOf(id) \in Jobs
    /\ \A j \in Jobs, g \in Generations : <<j, g>> \in Ids /\ JobOf(<<j, g>>) = j
BY PeeringAssumption, Zenon DEF Jobs, Ids, JobOf, KeyOf, ZoneOf, StatusKey

\* There are finitely many jobs.
LEMMA JobsFinite == IsFiniteSet(Jobs) /\ Cardinality(Jobs) \in Nat
<1> DEFINE pairs == (KeyNames \X Zones) \X Kinds
           f == [q \in pairs |-> <<q[1][1], q[1][2], q[2]>>]
<1>1. IsFiniteSet(Kinds)
  <2>1. Kinds = {"notify"} \cup {"soa"}
      BY Zenon DEF Kinds
  <2> QED BY <2>1, FS_Singleton, FS_AddElement, Zenon
<1>2. IsFiniteSet(pairs)
    BY <1>1, FiniteAssumption, FS_Product, Zenon
<1>3. f \in Surjection(pairs, Jobs)
  <2>1. f \in [pairs -> Jobs]
      BY Zenon DEF Jobs
  <2>2. ASSUME NEW j \in Jobs
        PROVE  \E q \in pairs : f[q] = j
    <3>1. PICK k \in KeyNames, z \in Zones, c \in Kinds : j = <<k, z, c>>
        BY DEF Jobs
    <3>2. <<<<k, z>>, c>> \in pairs /\ f[<<<<k, z>>, c>>] = j
        BY <3>1, Zenon
    <3> QED BY <3>2, Zenon
  <2> QED BY <2>1, <2>2, Zenon DEF Surjection
<1> HIDE DEF f
<1>4. IsFiniteSet(Jobs)
    BY <1>2, <1>3, FS_Surjection, Zenon
<1> QED BY <1>4, FS_CardinalityType, Zenon

Predecessors(S, place, j) == {h \in S : place[h] < place[j]}

\* In a finite set ordered by distinct places, every count of predecessors occurs,
\* and some element has no successor.
LEMMA Ordered ==
    ASSUME NEW S, IsFiniteSet(S), NEW place \in [S -> Int],
           \A i, j \in S : place[i] = place[j] => i = j
    PROVE  /\ Cardinality(S) \in Nat
           /\ \A n \in 1 .. Cardinality(S) :
                 \E j \in S : Cardinality(Predecessors(S, place, j)) = n - 1
           /\ S # {} => \E j \in S : \A i \in S : place[i] <= place[j]
<1> DEFINE before(j) == {h \in S : place[h] < place[j]}
           count == [j \in S |-> Cardinality(before(j))]
           N == Cardinality(S)
<1>0. N \in Nat /\ IsFiniteSet(0 .. N - 1) /\ Cardinality(0 .. N - 1) = N
  <2>1. N \in Nat
      BY FS_CardinalityType, Zenon
  <2>2. 0 \in Int /\ N - 1 \in Int
      BY <2>1
  <2>3. IsFiniteSet(0 .. N - 1) /\ Cardinality(0 .. N - 1) = IF 0 > N - 1 THEN 0 ELSE (N - 1) - 0 + 1
      BY <2>2, FS_Interval, Zenon
  <2> HIDE DEF N
  <2> QED BY <2>1, <2>3
<1>1. ASSUME NEW j \in S
      PROVE  IsFiniteSet(before(j)) /\ Cardinality(before(j)) \in Nat /\ Cardinality(before(j)) < N
  <2>1. before(j) \in SUBSET S /\ j \notin before(j)
      OBVIOUS
  <2>2. before(j) # S
      BY <2>1, Zenon
  <2> HIDE DEF before
  <2> QED BY <1>0, <2>1, <2>2, FS_Subset, FS_CardinalityType
<1>2. ASSUME NEW i \in S, NEW j \in S, place[i] < place[j]
      PROVE  Cardinality(before(i)) < Cardinality(before(j))
  <2>1. before(i) \in SUBSET before(j) /\ i \in before(j) /\ i \notin before(i)
      BY <1>2
  <2>2. before(i) # before(j)
      BY <2>1, Zenon
  <2> HIDE DEF before
  <2> QED BY <1>1, <2>1, <2>2, FS_Subset
<1>3. count \in Injection(S, 0 .. N - 1)
  <2>1. \A j \in S : Cardinality(before(j)) \in 0 .. N - 1
    <3> HIDE DEF before, N
    <3> QED BY <1>0, <1>1
  <2>2. count \in [S -> 0 .. N - 1]
      BY <2>1, Zenon
  <2>3. \A i, j \in S : Cardinality(before(i)) = Cardinality(before(j)) => i = j
    <3> SUFFICES ASSUME NEW i \in S, NEW j \in S, i # j
                 PROVE  Cardinality(before(i)) # Cardinality(before(j))
        BY Zenon
    <3>1. place[i] < place[j] \/ place[j] < place[i]
        OBVIOUS
    <3>2. Cardinality(before(i)) \in Nat /\ Cardinality(before(j)) \in Nat
        BY <1>1, Zenon
    <3> HIDE DEF before
    <3> QED BY <1>2, <3>1, <3>2
  <2> HIDE DEF before
  <2> QED BY <2>2, <2>3, Zenon DEF Injection, IsInjective
<1> HIDE DEF count
<1>4. count \in Surjection(S, 0 .. N - 1)
    BY <1>0, <1>3, FS_Injection, Zenon
<1>5. \A n \in 1 .. N : \E j \in S : Cardinality(before(j)) = n - 1
  <2> SUFFICES ASSUME NEW n \in 1 .. N PROVE \E j \in S : Cardinality(before(j)) = n - 1
      BY Zenon
  <2>1. n - 1 \in 0 .. N - 1
      BY <1>0
  <2>2. PICK j \in S : count[j] = n - 1
      BY <1>4, <2>1, Zenon DEF Surjection
  <2> QED BY <2>2, Zenon DEF count
<1>6. ASSUME S # {} PROVE \E j \in S : \A i \in S : place[i] <= place[j]
  <2>1. N \in 1 .. N
      BY <1>0, <1>6, FS_EmptySet
  <2>2. PICK j \in S : Cardinality(before(j)) = N - 1
      BY <1>5, <2>1, Zenon
  <2>3. ASSUME NEW i \in S, place[j] < place[i] PROVE FALSE
    <3>1. Cardinality(before(j)) < Cardinality(before(i)) /\ Cardinality(before(i)) < N
          /\ Cardinality(before(i)) \in Nat
        BY <1>1, <1>2, <2>3, Zenon
    <3> HIDE DEF before
    <3> QED BY <1>0, <2>2, <3>1
  <2> QED BY <2>3
<1> QED BY <1>0, <1>5, <1>6, Zenon DEF Predecessors

\* Places are distinct.
LEMMA PlaceFacts ==
    ASSUME cursor \in 0 .. Cardinality(Jobs)
    PROVE  /\ \A j \in Jobs : Place(j) \in Int
           /\ \A i, j \in Jobs : Place(i) = Place(j) => i = j
<1> DEFINE N == Cardinality(Jobs)
<1>1. N \in Nat /\ cursor \in 0 .. N /\ \A j \in Jobs : Rank[j] \in 1 .. N
    BY JobsFinite, PeeringAssumption, Zenon
<1> HIDE DEF N
<1>2. \A j \in Jobs : Place(j) = IF Rank[j] > cursor THEN Rank[j] - cursor
                                                     ELSE Rank[j] + N - cursor
    BY Zenon DEF Place, N
<1>3. \A j \in Jobs : Place(j) \in Int
    BY <1>1, <1>2
<1>4. ASSUME NEW i \in Jobs, NEW j \in Jobs, Place(i) = Place(j)
      PROVE  Rank[i] = Rank[j]
  <2>1. Rank[i] \in 1 .. N /\ Rank[j] \in 1 .. N
      BY <1>1, Zenon
  <2> QED BY <1>1, <1>2, <1>4, <2>1
<1> QED BY <1>3, <1>4, PeeringAssumption, Zenon

\* Wherever ids are held, one is left for new work of a job: the pending table and
\* each driver hold at most one for it.
LEMMA IdLeft ==
    ASSUME Inv, NEW j \in Jobs
    PROVE  FreshId(j) \in ({j} \X Generations) \ IdsInUse
<1> DEFINE N == Cardinality(Drivers)
           used == {g \in Generations : <<j, g>> \in IdsInUse}
           held == {g \in Generations : \E d \in Drivers : <<j, g>> \in HeldIds(d)}
           rows == {g \in Generations : \E p \in pending : p.id = <<j, g>>}
           holder == [g \in held |-> CHOOSE d \in Drivers : <<j, g>> \in HeldIds(d)]
<1>1. N \in Nat
    BY FiniteAssumption, FS_CardinalityType, Zenon
<1>2. IsFiniteSet(Generations) /\ Cardinality(Generations) = N + 2
  <2>1. 0 \in Int /\ N + 1 \in Int
      BY <1>1
  <2>2. /\ IsFiniteSet(0 .. N + 1)
        /\ Cardinality(0 .. N + 1) = IF 0 > N + 1 THEN 0 ELSE (N + 1) - 0 + 1
      BY <2>1, FS_Interval, Zenon
  <2> HIDE DEF N
  <2>3. Cardinality(0 .. N + 1) = N + 2
      BY <1>1, <2>2
  <2> QED BY <2>2, <2>3, Zenon DEF Generations, N
<1>3. used \subseteq held \cup rows
  <2> SUFFICES ASSUME NEW g \in Generations, <<j, g>> \in IdsInUse
               PROVE  \/ \E d \in Drivers : <<j, g>> \in HeldIds(d)
                      \/ \E p \in pending : p.id = <<j, g>>
      BY Zenon
  <2> DEFINE id == <<j, g>>
  <2>1. id \in IdsInUse
      BY Zenon
  <2> HIDE DEF id
  <2>2. (\E p \in pending : p.id = id) \/ (\E d \in Drivers : id \in HeldIds(d))
      BY <2>1, Zenon DEF IdsInUse
  <2> QED BY <2>2, Zenon DEF id
<1>4. holder \in Injection(held, Drivers)
  <2>1. \A g \in held : holder[g] \in Drivers /\ <<j, g>> \in HeldIds(holder[g])
      BY Zenon
  <2>2. ASSUME NEW g \in held, NEW h \in held, holder[g] = holder[h]
        PROVE  g = h
    <3>1. <<j, g>> \in HeldIds(holder[g]) /\ <<j, h>> \in HeldIds(holder[g]) /\ holder[g] \in Drivers
        BY <2>1, <2>2, Zenon
    <3>2. JobOf(<<j, g>>) = JobOf(<<j, h>>)
        BY Zenon DEF JobOf
    <3>3. <<j, g>> = <<j, h>>
        BY <3>1, <3>2, Zenon DEF Inv, DriversBounded
    <3> QED BY <3>3, Zenon
  <2>3. holder \in [held -> Drivers]
      BY <2>1, Zenon
  <2> HIDE DEF holder, held
  <2> QED BY <2>2, <2>3, Zenon DEF Injection, IsInjective
<1>5. IsFiniteSet(held) /\ Cardinality(held) <= N
  <2> HIDE DEF holder, held
  <2> QED BY <1>4, FiniteAssumption, FS_Injection, Zenon
<1>6. \E c : rows \subseteq {c}
  <2>1. \A g, h \in rows : g = h
    <3> SUFFICES ASSUME NEW g \in rows, NEW h \in rows PROVE g = h
        BY Zenon
    <3>1. PICK p \in pending : p.id = <<j, g>>
        BY Zenon
    <3>2. PICK q \in pending : q.id = <<j, h>>
        BY Zenon
    <3>3. p = q
        BY <3>1, <3>2 DEF Inv, OneRowPerJob, JobOf
    <3> QED BY <3>1, <3>2, <3>3
  <2>2. CASE rows = {}
      BY <2>2, Zenon
  <2>3. CASE rows # {}
      BY <2>1, <2>3, Zenon
  <2> QED BY <2>2, <2>3, Zenon
<1>7. PICK c : rows \subseteq {c}
    BY <1>6, Zenon
<1>8. IsFiniteSet(used) /\ Cardinality(used) < N + 2
  <2> HIDE DEF held, used, rows
  <2>1. used \in SUBSET (held \cup {c})
      BY <1>3, <1>7, Zenon
  <2>2. IsFiniteSet(held \cup {c})
      BY <1>5, FS_AddElement, Zenon
  <2>3. Cardinality(held \cup {c}) \in {Cardinality(held), Cardinality(held) + 1}
      BY <1>5, FS_AddElement, Zenon
  <2>4. IsFiniteSet(used) /\ Cardinality(used) <= Cardinality(held \cup {c})
      BY <2>1, <2>2, FS_Subset, Zenon
  <2>5. Cardinality(used) \in Nat /\ Cardinality(held) \in Nat
      BY <1>5, <2>4, FS_CardinalityType, Zenon
  <2> HIDE DEF N
  <2> QED BY <1>1, <1>5, <2>3, <2>4, <2>5
<1>9. used # Generations
  <2> HIDE DEF used, N
  <2> QED BY <1>1, <1>2, <1>8
<1>10. PICK g \in Generations : <<j, g>> \notin IdsInUse
    BY <1>9, Zenon
<1>11. <<j, g>> \in ({j} \X Generations) \ IdsInUse
    BY <1>10, Zenon
<1> QED BY <1>11, Zenon DEF FreshId

\* The work that one request issues: distinct jobs that are not outstanding, under
\* ids that are used nowhere.
LEMMA BatchFacts ==
    ASSUME Inv
    PROVE  /\ Batch \in Seq(Ids)
           /\ \A i \in DOMAIN Batch : /\ JobOf(Batch[i]) \in CandidateJobs
                                      /\ Batch[i] \notin IdsInUse
           /\ \A i, k \in DOMAIN Batch : JobOf(Batch[i]) = JobOf(Batch[k]) => i = k
<1> DEFINE issued == {j \in Examined : Owed(j)}
           N == Cardinality(issued)
           pick(i) == CHOOSE j \in issued : Cardinality({h \in issued : Place(h) < Place(j)}) = i - 1
           place == [j \in issued |-> Place(j)]
<1>1. issued \in SUBSET Jobs /\ issued \subseteq CandidateJobs
    BY Zenon DEF Examined, CandidateJobs
<1>2. IsFiniteSet(issued)
  <2> HIDE DEF issued
  <2> QED BY <1>1, JobsFinite, FS_Subset, Zenon
<1>3. Batch = [i \in 1 .. N |-> FreshId(pick(i))]
    BY Zenon DEF Batch
<1> HIDE DEF issued
<1>4. cursor \in 0 .. Cardinality(Jobs)
    BY Zenon DEF Inv, TypeOK
<1>5. place \in [issued -> Int] /\ \A i, j \in issued : place[i] = place[j] => i = j
    BY <1>1, <1>4, PlaceFacts, Zenon
<1>6. N \in Nat
    BY <1>2, FS_CardinalityType, Zenon
<1>7. ASSUME NEW i \in 1 .. N
      PROVE  pick(i) \in issued /\ Cardinality({h \in issued : Place(h) < Place(pick(i))}) = i - 1
  <2>1. \E j \in issued : Cardinality(Predecessors(issued, place, j)) = i - 1
    <3> HIDE DEF place
    <3> QED BY <1>2, <1>5, Ordered, Zenon
  <2>2. PICK j \in issued : Cardinality(Predecessors(issued, place, j)) = i - 1
      BY <2>1, Zenon
  <2>3. Predecessors(issued, place, j) = {h \in issued : Place(h) < Place(j)}
      BY Zenon DEF Predecessors
  <2>4. Cardinality({h \in issued : Place(h) < Place(j)}) = i - 1
      BY <2>2, <2>3, Zenon
  <2> QED BY <2>4, Zenon
<1>8. \A i, k \in 1 .. N : pick(i) = pick(k) => i = k
  <2> SUFFICES ASSUME NEW i \in 1 .. N, NEW k \in 1 .. N, pick(i) = pick(k) PROVE i = k
      BY Zenon
  <2>1. i - 1 = k - 1
      BY <1>7, Zenon
  <2> QED BY <1>6, <2>1
<1> HIDE DEF pick, N
<1>9. ASSUME NEW i \in 1 .. N
      PROVE  /\ Batch[i] \in Ids /\ JobOf(Batch[i]) = pick(i)
             /\ pick(i) \in CandidateJobs /\ Batch[i] \notin IdsInUse
  <2>1. pick(i) \in Jobs /\ pick(i) \in CandidateJobs
      BY <1>1, <1>7, Zenon
  <2>2. Batch[i] = FreshId(pick(i))
      BY <1>3, Zenon
  <2>3. Batch[i] \in ({pick(i)} \X Generations) /\ Batch[i] \notin IdsInUse
      BY <2>1, <2>2, IdLeft, Zenon
  <2>4. PICK g \in Generations : Batch[i] = <<pick(i), g>>
      BY <2>3
  <2>5. Batch[i] \in Ids /\ JobOf(Batch[i]) = pick(i)
      BY <2>1, <2>4, JobFacts, Zenon
  <2> QED BY <2>1, <2>3, <2>5, Zenon
<1>10. DOMAIN Batch = 1 .. N
    BY <1>3, Zenon
<1>11. Batch \in Seq(Ids)
  <2>1. Batch \in [1 .. N -> Ids]
      BY <1>3, <1>9, Zenon
  <2> QED BY <1>6, <2>1
<1> QED BY <1>8, <1>9, <1>10, <1>11

\* The dispatch loop keeps the window's bound, and moves work from the backlog to
\* the window without adding any.
LEMMA DispatchedFacts ==
    ASSUME NEW backlog \in Seq(Ids), NEW futures \in SUBSET Exchanges, IsFiniteSet(futures),
           Cardinality(futures) <= Outstanding, NEW age \in 0 .. DiscardAfter
    PROVE  LET s == Dispatched(backlog, futures, age)
           IN  /\ s \in DriverStates
               /\ IsFiniteSet(s.futures) /\ Cardinality(s.futures) <= Outstanding
               /\ \A x \in s.futures :
                     \/ x \in futures
                     \/ x.stage = "queued" /\ \E i \in DOMAIN backlog : x.id = backlog[i]
               /\ \A i \in DOMAIN s.backlog : \E k \in DOMAIN backlog : s.backlog[i] = backlog[k]
<1> DEFINE room == Outstanding - Cardinality(futures)
           n == Smaller(Len(backlog), room)
           new(i) == [id |-> backlog[i], stage |-> "queued", answer |-> 0]
           f == [i \in 1 .. n |-> new(i)]
           added == {new(i) : i \in 1 .. n}
           s == Dispatched(backlog, futures, age)
<1> USE PeeringAssumption
<1>1. Cardinality(futures) \in Nat /\ Len(backlog) \in Nat /\ Outstanding \in Nat
    BY FS_CardinalityType
<1>2. room \in Nat
    BY <1>1
<1>3. n \in Nat /\ n <= Len(backlog) /\ n <= room
    BY <1>1, <1>2 DEF Smaller
<1>4. /\ s.backlog = SubSeq(backlog, n + 1, Len(backlog))
      /\ s.futures = futures \cup added
      /\ s.age = IF n = Len(backlog) THEN 0 ELSE age
      /\ s = [backlog |-> s.backlog, futures |-> s.futures, age |-> s.age]
    BY Zenon DEF Dispatched
<1> HIDE DEF n, s
<1>5. \A i \in 1 .. n : i \in DOMAIN backlog /\ backlog[i] \in Ids
    BY <1>1, <1>3
<1>6. added \in SUBSET Exchanges
    BY <1>5 DEF Exchanges, Stages
<1>7. IsFiniteSet(added) /\ Cardinality(added) <= n
  <2>1. f \in Surjection(1 .. n, added)
      BY Zenon DEF Surjection
  <2>2. 1 \in Int /\ n \in Int
      BY <1>3
  <2>3. IsFiniteSet(1 .. n) /\ Cardinality(1 .. n) = IF 1 > n THEN 0 ELSE n - 1 + 1
      BY <2>2, FS_Interval, Zenon
  <2>4. Cardinality(1 .. n) = n
      BY <1>3, <2>3
  <2> HIDE DEF f, added
  <2> QED BY <2>1, <2>3, <2>4, FS_Surjection
<1>8. IsFiniteSet(s.futures) /\ Cardinality(s.futures) <= Outstanding
  <2> HIDE DEF added
  <2>1. /\ IsFiniteSet(futures \cup added)
        /\ Cardinality(futures \cup added)
              = Cardinality(futures) + Cardinality(added) - Cardinality(futures \cap added)
      BY <1>7, FS_Union, Zenon
  <2>2. Cardinality(added) \in Nat /\ Cardinality(futures \cap added) \in Nat
        /\ Cardinality(futures \cup added) \in Nat
      BY <1>7, <2>1, FS_CardinalityType, FS_Intersection, Zenon
  <2>3. Cardinality(futures \cup added) <= Outstanding
      BY <1>1, <1>3, <1>7, <2>1, <2>2, SMTT(30)
  <2> QED BY <1>4, <2>1, <2>3, Zenon
<1>9. /\ s.backlog \in Seq(Ids)
      /\ \A i \in DOMAIN s.backlog : \E k \in DOMAIN backlog : s.backlog[i] = backlog[k]
  <2>1. n + 1 \in 1 .. Len(backlog) + 1 /\ Len(backlog) \in n .. Len(backlog)
      BY <1>1, <1>3
  <2>2. /\ s.backlog \in Seq(Ids) /\ Len(s.backlog) = Len(backlog) - n
        /\ \A i \in 1 .. Len(backlog) - n : s.backlog[i] = backlog[n + i]
    <3>1. n + 1 \in Int /\ Len(backlog) \in Int /\ \A i \in n + 1 .. Len(backlog) : backlog[i] \in Ids
        BY <1>1, <1>3
    <3>2. /\ s.backlog \in Seq(Ids)
          /\ Len(s.backlog) = IF n + 1 <= Len(backlog) THEN Len(backlog) - (n + 1) + 1 ELSE 0
          /\ \A i \in 1 .. Len(backlog) - (n + 1) + 1 : s.backlog[i] = backlog[n + 1 + i - 1]
        BY <1>4, <3>1, SubSeqProperties, SMTT(30)
    <3>3. Len(s.backlog) = Len(backlog) - n
        BY <1>1, <1>3, <3>2
    <3>4. ASSUME NEW i \in 1 .. Len(backlog) - n
          PROVE  s.backlog[i] = backlog[n + i]
      <4>1. i \in 1 .. Len(backlog) - (n + 1) + 1 /\ n + 1 + i - 1 = n + i
          BY <1>1, <1>3, SMTT(30)
      <4>2. s.backlog[i] = backlog[n + 1 + i - 1]
          BY <3>2, <4>1, Zenon
      <4> QED BY <4>1, <4>2, Zenon
    <3> QED BY <3>2, <3>3, <3>4, Zenon
  <2>3. ASSUME NEW i \in 1 .. Len(backlog) - n
        PROVE  n + i \in 1 .. Len(backlog)
      BY <1>1, <1>3
  <2>4. DOMAIN s.backlog = 1 .. Len(backlog) - n /\ DOMAIN backlog = 1 .. Len(backlog)
      BY <2>2
  <2> QED BY <2>2, <2>3, <2>4, Zenon
<1>10. \A x \in s.futures :
          \/ x \in futures
          \/ x.stage = "queued" /\ \E i \in DOMAIN backlog : x.id = backlog[i]
    BY <1>4, <1>5
<1>11. s \in DriverStates
  <2>1. s.age \in 0 .. DiscardAfter
      BY <1>4
  <2>2. s.futures \in SUBSET Exchanges
      BY <1>4, <1>6, Zenon
  <2> QED BY <1>4, <1>9, <2>1, <2>2, Zenon DEF DriverStates
<1> QED BY <1>8, <1>9, <1>10, <1>11, Zenon DEF s

---------------------------------------------------------------------------
(* Steps.                                                                  *)

\* A step of governance or of provisioning changes no table of peering.
LEMMA TablesKept ==
    ASSUME Inv, UNCHANGED <<serial, pending, cursor, status, driver, copy, heard>>,
           transfer' \in [KeyNames -> [zones : Scopes \cup {{}}, revoked : BOOLEAN]],
           secret' \in [KeyNames -> Scopes \cup {{}}]
    PROVE  Inv'
<1>1. TypeOK'
    BY Zenon DEF Inv, TypeOK
<1>2. OneRowPerJob' /\ NothingAhead' /\ StatusTrue'
    BY Zenon DEF Inv, OneRowPerJob, NothingAhead, StatusTrue, NotifiedWasHeard, ObservedWasServed
<1>3. DriversBounded'
    BY DEF Inv, DriversBounded, HeldIds
<1>4. AnswersTrue'
    BY Zenon DEF Inv, AnswersTrue, AnswerTrue
<1> QED BY <1>1, <1>2, <1>3, <1>4, Zenon DEF Inv

\* SetTransfer, RevokeTransfer and ProvisionTransferKey.
LEMMA GovernInv ==
    ASSUME Inv, Govern
    PROVE  Inv'
<1>0. /\ transfer \in [KeyNames -> [zones : Scopes \cup {{}}, revoked : BOOLEAN]]
      /\ secret \in [KeyNames -> Scopes \cup {{}}]
    BY Zenon DEF Inv, TypeOK
<1>1. ASSUME NEW k \in KeyNames, NEW zs \in Scopes, SetTransfer(k, zs) PROVE Inv'
  <2>1. transfer' = [transfer EXCEPT ![k].zones = zs] /\ secret' = secret
        /\ UNCHANGED <<serial, pending, cursor, status, driver, copy, heard>>
      BY <1>1, Zenon DEF SetTransfer, peerVars
  <2>2. transfer' \in [KeyNames -> [zones : Scopes \cup {{}}, revoked : BOOLEAN]]
      BY <1>0, <2>1
  <2> QED BY <1>0, <2>1, <2>2, TablesKept, Zenon
<1>2. ASSUME NEW k \in KeyNames, RevokeTransfer(k) PROVE Inv'
  <2>1. transfer' = [transfer EXCEPT ![k].revoked = TRUE] /\ secret' = secret
        /\ UNCHANGED <<serial, pending, cursor, status, driver, copy, heard>>
      BY <1>2, Zenon DEF RevokeTransfer, peerVars
  <2>2. transfer' \in [KeyNames -> [zones : Scopes \cup {{}}, revoked : BOOLEAN]]
      BY <1>0, <2>1, Zenon
  <2> QED BY <1>0, <2>1, <2>2, TablesKept, Zenon
<1>3. ASSUME NEW k \in KeyNames, ProvisionTransferKey(k) PROVE Inv'
  <2>1. secret' = [secret EXCEPT ![k] = transfer[k].zones] /\ transfer' = transfer
        /\ UNCHANGED <<serial, pending, cursor, status, driver, copy, heard>>
      BY <1>3, Zenon DEF ProvisionTransferKey, peerVars
  <2>2. transfer[k].zones \in Scopes \cup {{}}
      BY <1>0, Zenon
  <2>3. secret' \in [KeyNames -> Scopes \cup {{}}]
      BY <1>0, <2>1, <2>2, Zenon
  <2> QED BY <1>0, <2>1, <2>3, TablesKept, Zenon
<1> QED BY <1>1, <1>2, <1>3, Zenon DEF Govern

\* Resign: serials only grow.
LEMMA ResignInv ==
    ASSUME Inv, NEW z \in Zones, Resign(z)
    PROVE  Inv'
<1>1. /\ serial' = [serial EXCEPT ![z] = serial[z] + 1] /\ serial[z] < MaxSerial
      /\ UNCHANGED <<transfer, secret, pending, cursor, status, driver, copy, heard>>
    BY Zenon DEF Resign, peerVars
<1>2. serial \in [Zones -> 1 .. MaxSerial] /\ MaxSerial \in Nat
    BY PeeringAssumption, Zenon DEF Inv, TypeOK
<1>3. /\ serial' \in [Zones -> 1 .. MaxSerial]
      /\ \A y \in Zones : serial[y] <= serial'[y]
  <2>1. \A y \in Zones : serial'[y] = IF y = z THEN serial[z] + 1 ELSE serial[y]
      BY <1>1, <1>2, Zenon
  <2>2. serial[z] + 1 \in 1 .. MaxSerial
      BY <1>1, <1>2
  <2> QED BY <1>1, <1>2, <2>1, <2>2
<1>4. TypeOK'
    BY <1>1, <1>3, Zenon DEF Inv, TypeOK
<1>5. OneRowPerJob' /\ StatusTrue'
    BY <1>1, Zenon DEF Inv, OneRowPerJob, StatusTrue, NotifiedWasHeard, ObservedWasServed
<1>6. DriversBounded' /\ AnswersTrue'
    BY <1>1 DEF Inv, DriversBounded, HeldIds, AnswersTrue, AnswerTrue
<1>7. NothingAhead'
  <2>1. ASSUME NEW ze \in Zones \X Endpoints
        PROVE  heard[ze] <= serial'[ze[1]] /\ copy[ze] <= serial'[ze[1]]
    <3>1. ze[1] \in Zones /\ heard[ze] \in Nat /\ copy[ze] \in Nat
        BY PeeringAssumption DEF Inv, TypeOK
    <3>2. serial[ze[1]] \in Nat /\ serial'[ze[1]] \in Nat /\ serial[ze[1]] <= serial'[ze[1]]
        BY <1>2, <1>3, <3>1
    <3>3. heard[ze] <= serial[ze[1]] /\ copy[ze] <= serial[ze[1]]
        BY Zenon DEF Inv, NothingAhead
    <3> QED BY <3>1, <3>2, <3>3
  <2>2. ASSUME NEW p \in pending
        PROVE  p.serial <= serial'[ZoneOf(JobOf(p.id))]
    <3>1. p \in Pendings
        BY Zenon DEF Inv, TypeOK
    <3>2. p.serial \in Nat /\ p.id \in Ids
        BY <1>2, <3>1 DEF Pendings
    <3>3. ZoneOf(JobOf(p.id)) \in Zones
        BY <3>2, JobFacts, Zenon
    <3>4. p.serial <= serial[ZoneOf(JobOf(p.id))]
        BY Zenon DEF Inv, NothingAhead
    <3> QED BY <1>2, <1>3, <3>2, <3>3, <3>4
  <2> QED BY <1>1, <2>1, <2>2, Zenon DEF NothingAhead
<1> QED BY <1>4, <1>5, <1>6, <1>7, Zenon DEF Inv

\* Axfr: a copy follows the serial.
LEMMA AxfrInv ==
    ASSUME Inv, NEW k \in KeyNames, NEW z \in Zones, Axfr(k, z)
    PROVE  Inv'
<1> DEFINE c == <<z, EndpointOf[k]>>
<1>1. /\ copy' = [copy EXCEPT ![c] = serial[z]]
      /\ UNCHANGED <<transfer, secret, serial, pending, cursor, status, driver, heard>>
    BY Zenon DEF Axfr, enclaveVars
<1>2. /\ serial \in [Zones -> 1 .. MaxSerial] /\ MaxSerial \in Nat /\ c \in Zones \X Endpoints
      /\ copy \in [Zones \X Endpoints -> 0 .. MaxSerial] /\ c[1] = z
    BY PeeringAssumption, Zenon DEF Inv, TypeOK
<1> HIDE DEF c
<1>3. \A ze \in Zones \X Endpoints : copy'[ze] = IF ze = c THEN serial[z] ELSE copy[ze]
    BY <1>1, <1>2, Zenon
<1>4. copy[c] <= serial[z]
    BY <1>2, Zenon DEF Inv, NothingAhead
<1>5. copy' \in [Zones \X Endpoints -> 0 .. MaxSerial]
  <2>1. serial[z] \in 0 .. MaxSerial
      BY <1>2
  <2> QED BY <1>1, <1>2, <2>1, Zenon
<1>6. \A ze \in Zones \X Endpoints : copy[ze] <= copy'[ze]
  <2> SUFFICES ASSUME NEW ze \in Zones \X Endpoints PROVE copy[ze] <= copy'[ze]
      BY Zenon
  <2>1. copy[ze] \in Nat
      BY <1>2
  <2> QED BY <1>3, <1>4, <2>1
<1>7. TypeOK'
    BY <1>1, <1>5, Zenon DEF Inv, TypeOK
<1>8. OneRowPerJob' /\ DriversBounded'
    BY <1>1 DEF Inv, OneRowPerJob, DriversBounded, HeldIds
<1>9. NothingAhead'
  <2>1. \A ze \in Zones \X Endpoints : copy'[ze] <= serial[ze[1]]
    <3> SUFFICES ASSUME NEW ze \in Zones \X Endpoints PROVE copy'[ze] <= serial[ze[1]]
        BY Zenon
    <3>1. CASE ze = c
        BY <1>2, <1>3, <3>1
    <3>2. CASE ze # c
        BY <1>3, <3>2, Zenon DEF Inv, NothingAhead
    <3> QED BY <3>1, <3>2, Zenon
  <2> QED BY <1>1, <2>1, Zenon DEF Inv, NothingAhead
<1>10. StatusTrue'
  <2>1. \A ze \in Zones \X Endpoints : status[ze].observed <= copy'[ze]
    <3> SUFFICES ASSUME NEW ze \in Zones \X Endpoints PROVE status[ze].observed <= copy'[ze]
        BY Zenon
    <3>1. status[ze].observed \in Nat /\ copy[ze] \in Nat /\ copy'[ze] \in Nat
        BY <1>2, <1>5 DEF Inv, TypeOK
    <3>2. status[ze].observed <= copy[ze]
        BY Zenon DEF Inv, StatusTrue, ObservedWasServed
    <3> QED BY <1>6, <3>1, <3>2
  <2> QED BY <1>1, <2>1, Zenon DEF Inv, StatusTrue, NotifiedWasHeard, ObservedWasServed
<1>11. AnswersTrue'
  <2> SUFFICES ASSUME NEW d \in Drivers, NEW x \in driver[d].futures, x.stage = "answered"
               PROVE  x.answer <= copy'[StatusKey(JobOf(x.id))]
      BY <1>1, Zenon DEF Inv, AnswersTrue, AnswerTrue
  <2>1. x.id \in Ids /\ x.answer \in Nat
      BY <1>2 DEF Inv, TypeOK, Exchanges
  <2>2. StatusKey(JobOf(x.id)) \in Zones \X Endpoints
      BY <2>1, JobFacts, Zenon
  <2>3. x.answer <= copy[StatusKey(JobOf(x.id))]
      BY Zenon DEF Inv, AnswersTrue, AnswerTrue
  <2>4. /\ copy[StatusKey(JobOf(x.id))] \in Nat /\ copy'[StatusKey(JobOf(x.id))] \in Nat
        /\ copy[StatusKey(JobOf(x.id))] <= copy'[StatusKey(JobOf(x.id))]
      BY <1>2, <1>5, <1>6, <2>2
  <2> QED BY <2>1, <2>3, <2>4, SMTT(30)
<1> QED BY <1>7, <1>8, <1>9, <1>10, <1>11, Zenon DEF Inv

IdsOf(s) == {x.id : x \in s.futures} \cup {s.backlog[i] : i \in DOMAIN s.backlog}

\* A driver state that holds one id for each job, within the window.
Bounded(s) ==
    /\ s \in DriverStates
    /\ IsFiniteSet(s.futures) /\ Cardinality(s.futures) <= Outstanding
    /\ \A a, b \in IdsOf(s) : JobOf(a) = JobOf(b) => a = b

\* The state of each driver is bounded.
LEMMA DriverFacts ==
    ASSUME Inv, NEW d \in Drivers
    PROVE  Bounded(driver[d]) /\ IdsOf(driver[d]) = HeldIds(d)
<1>1. IdsOf(driver[d]) = HeldIds(d)
    BY Zenon DEF IdsOf, HeldIds
<1> QED BY <1>1 DEF Inv, DriversBounded, Bounded

\* One driver moves to a bounded state.
LEMMA DriverMoves ==
    ASSUME Inv, NEW d \in Drivers, NEW s, Bounded(s), driver' = [driver EXCEPT ![d] = s]
    PROVE  /\ DriversBounded'
           /\ \A e \in Drivers : /\ driver'[e].backlog \in Seq(Ids)
                                 /\ driver'[e].futures \subseteq Exchanges
                                 /\ driver'[e].age \in 0 .. DiscardAfter
           /\ \A e \in Drivers : driver'[e] = IF e = d THEN s ELSE driver[e]
<1>1. driver \in [Drivers -> DriverStates] /\ s \in DriverStates
    BY Zenon DEF Inv, DriversBounded, Bounded
<1>2. driver' \in [Drivers -> DriverStates]
      /\ \A e \in Drivers : driver'[e] = IF e = d THEN s ELSE driver[e]
    BY <1>1, Zenon
<1>3. ASSUME NEW e \in Drivers PROVE Bounded(driver'[e])
    BY <1>2, DriverFacts, Zenon
<1>4. \A e \in Drivers : HeldIds(e)' = IdsOf(driver'[e])
    BY Zenon DEF HeldIds, IdsOf
<1>5. DriversBounded'
    BY <1>2, <1>3, <1>4 DEF DriversBounded, Bounded
<1> QED BY <1>2, <1>5, Zenon DEF DriverStates

\* A driver that drops work stays bounded.
LEMMA FewerIds ==
    ASSUME NEW s, NEW t, Bounded(s), t \in DriverStates, IsFiniteSet(t.futures),
           Cardinality(t.futures) <= Outstanding, IdsOf(t) \subseteq IdsOf(s)
    PROVE  Bounded(t)
BY Zenon DEF Bounded

\* A driver with nothing.
LEMMA EmptyDriver == Bounded([backlog |-> <<>>, futures |-> {}, age |-> 0])
<1> DEFINE s == [backlog |-> <<>>, futures |-> {}, age |-> 0]
<1>1. s \in DriverStates
    BY PeeringAssumption DEF DriverStates
<1>2. IsFiniteSet(s.futures) /\ Cardinality(s.futures) <= Outstanding
    BY FS_EmptySet, PeeringAssumption
<1>3. IdsOf(s) = {}
    BY DEF IdsOf
<1> QED BY <1>1, <1>2, <1>3, Zenon DEF Bounded

\* The tables stay, one driver drops, dispatches or answers work it holds.
LEMMA DriverStepInv ==
    ASSUME Inv, NEW d \in Drivers, NEW s, Bounded(s), driver' = [driver EXCEPT ![d] = s],
           UNCHANGED <<transfer, secret, serial, pending, cursor, status, copy, heard>>,
           \A x \in s.futures : x \in driver[d].futures \/ x.stage # "answered"
    PROVE  Inv'
<1>1. /\ DriversBounded'
      /\ \A e \in Drivers : /\ driver'[e].backlog \in Seq(Ids)
                            /\ driver'[e].futures \subseteq Exchanges
                            /\ driver'[e].age \in 0 .. DiscardAfter
      /\ \A e \in Drivers : driver'[e] = IF e = d THEN s ELSE driver[e]
    BY DriverMoves, Zenon
<1>2. TypeOK'
    BY <1>1, Zenon DEF Inv, TypeOK
<1>3. OneRowPerJob' /\ NothingAhead' /\ StatusTrue'
    BY Zenon DEF Inv, OneRowPerJob, NothingAhead, StatusTrue, NotifiedWasHeard, ObservedWasServed
<1>4. AnswersTrue'
  <2> SUFFICES ASSUME NEW e \in Drivers, NEW x \in driver'[e].futures PROVE AnswerTrue(x)'
      BY Zenon DEF AnswersTrue
  <2>1. x.stage # "answered" \/ x \in driver[e].futures
      BY <1>1, Zenon
  <2>2. AnswerTrue(x)
      BY <2>1, Zenon DEF Inv, AnswersTrue, AnswerTrue
  <2> QED BY <2>2, Zenon DEF AnswerTrue
<1> QED BY <1>1, <1>2, <1>3, <1>4, Zenon DEF Inv

\* CycleWithoutRequest reaps and dispatches.
LEMMA CycleWithoutRequestInv ==
    ASSUME Inv, NEW d \in Drivers, CycleWithoutRequest(d)
    PROVE  Inv'
<1> DEFINE b == Kept(d)
           f == driver[d].futures
           s == Dispatched(b, f, driver[d].age)
<1>1. /\ driver' = [driver EXCEPT ![d] = s]
      /\ UNCHANGED <<transfer, secret, serial, pending, cursor, status, copy, heard>>
  <2>1. driver \in [Drivers -> DriverStates]
      BY Zenon DEF Inv, DriversBounded
  <2> QED BY <2>1, Zenon DEF CycleWithoutRequest, enclaveVars, peerVars
<1>2. /\ Bounded(driver[d]) /\ IdsOf(driver[d]) = HeldIds(d)
    BY DriverFacts, Zenon
<1>3. /\ b \in Seq(Ids) /\ f \in SUBSET Exchanges /\ driver[d].age \in 0 .. DiscardAfter
      /\ IsFiniteSet(f) /\ Cardinality(f) <= Outstanding
    BY <1>2 DEF Bounded, DriverStates, Kept
<1>4. \A i \in DOMAIN b : b[i] \in IdsOf(driver[d])
    BY DEF Kept, IdsOf
<1> HIDE DEF b, f
<1>5. /\ s \in DriverStates /\ IsFiniteSet(s.futures) /\ Cardinality(s.futures) <= Outstanding
      /\ \A x \in s.futures : x \in f \/ (x.stage = "queued" /\ \E i \in DOMAIN b : x.id = b[i])
      /\ \A i \in DOMAIN s.backlog : \E k \in DOMAIN b : s.backlog[i] = b[k]
    BY <1>3, DispatchedFacts, Zenon
<1> HIDE DEF s
<1>6. IdsOf(s) \subseteq IdsOf(driver[d])
  <2>1. \A x \in s.futures : x.id \in IdsOf(driver[d])
      BY <1>4, <1>5, Zenon DEF IdsOf, f
  <2>2. \A i \in DOMAIN s.backlog : s.backlog[i] \in IdsOf(driver[d])
      BY <1>4, <1>5, Zenon
  <2> QED BY <2>1, <2>2, Zenon DEF IdsOf
<1>7. Bounded(s)
    BY <1>2, <1>5, <1>6, FewerIds, Zenon
<1>8. \A x \in s.futures : x \in driver[d].futures \/ x.stage # "answered"
    BY <1>5, Zenon DEF f
<1> QED BY <1>1, <1>7, <1>8, DriverStepInv, Zenon

\* Restart forgets what the driver held.
LEMMA RestartInv ==
    ASSUME Inv, NEW d \in Drivers, Restart(d)
    PROVE  Inv'
<1> DEFINE s == [backlog |-> <<>>, futures |-> {}, age |-> 0]
<1>1. /\ driver' = [driver EXCEPT ![d] = s] /\ s.futures = {}
      /\ UNCHANGED <<transfer, secret, serial, pending, cursor, status, copy, heard>>
    BY Zenon DEF Restart, enclaveVars, peerVars
<1>2. Bounded(s)
    BY EmptyDriver, Zenon
<1> HIDE DEF s
<1> QED BY <1>1, <1>2, DriverStepInv, Zenon

\* An exchange that moved on, and the driver after it did, or after it ended.
Stepped(x, stage, answer) == [x EXCEPT !.stage = stage, !.answer = answer]
Moved(d, x, y) == [driver[d] EXCEPT !.futures = (@ \ {x}) \cup {y}]
Ended(d, x) == [driver[d] EXCEPT !.futures = @ \ {x}]

\* The window after an exchange moves on, or ends.
LEMMA WindowFacts ==
    ASSUME Inv, NEW d \in Drivers, NEW x \in driver[d].futures, NEW stage \in Stages,
           NEW answer \in 0 .. MaxSerial
    PROVE  LET y == Stepped(x, stage, answer)
               moved == Moved(d, x, y)
               ended == Ended(d, x)
           IN  /\ Bounded(moved) /\ moved.futures = (driver[d].futures \ {x}) \cup {y}
               /\ Bounded(ended) /\ ended.futures = driver[d].futures \ {x}
               /\ y.id = x.id /\ y.stage = stage /\ y.answer = answer
               /\ Advance(d, x, stage, answer) => driver' = [driver EXCEPT ![d] = moved]
               /\ Finish(d, x) => driver' = [driver EXCEPT ![d] = ended]
<1> DEFINE y == Stepped(x, stage, answer)
           F == driver[d].futures
           moved == Moved(d, x, y)
           ended == Ended(d, x)
<1>1. /\ Bounded(driver[d]) /\ driver[d] \in DriverStates /\ F \in SUBSET Exchanges
      /\ IsFiniteSet(F) /\ Cardinality(F) <= Outstanding /\ driver \in [Drivers -> DriverStates]
    BY DriverFacts, Zenon DEF Bounded, DriverStates, Inv, DriversBounded
<1>2. x \in Exchanges
    BY <1>1, Zenon
<1>3. y \in Exchanges /\ y.id = x.id /\ y.stage = stage /\ y.answer = answer
    BY <1>2, Zenon DEF Exchanges, Stepped
<1>4. /\ moved.futures = (F \ {x}) \cup {y} /\ moved.backlog = driver[d].backlog
      /\ ended.futures = F \ {x} /\ ended.backlog = driver[d].backlog
    BY <1>1, Zenon DEF DriverStates, Moved, Ended
<1> HIDE DEF y
<1>5. moved \in DriverStates /\ ended \in DriverStates
    BY <1>1, <1>3, Zenon DEF DriverStates, Moved, Ended
<1>6. /\ Advance(d, x, stage, answer) => driver' = [driver EXCEPT ![d] = moved]
      /\ Finish(d, x) => driver' = [driver EXCEPT ![d] = ended]
    BY <1>1, Zenon DEF Advance, Finish, Stepped, Moved, Ended, y
<1>7. IdsOf(moved) \subseteq IdsOf(driver[d]) /\ IdsOf(ended) \subseteq IdsOf(driver[d])
  <2> HIDE DEF moved, ended
  <2>1. \A w \in moved.futures : w.id \in {v.id : v \in F}
      BY <1>3, <1>4, Zenon
  <2>2. \A w \in ended.futures : w.id \in {v.id : v \in F}
      BY <1>4, Zenon
  <2> QED BY <1>4, <2>1, <2>2 DEF IdsOf
<1>8. /\ IsFiniteSet(moved.futures) /\ Cardinality(moved.futures) <= Outstanding
      /\ IsFiniteSet(ended.futures) /\ Cardinality(ended.futures) <= Outstanding
  <2> HIDE DEF moved, ended, F
  <2>1. Cardinality(F) \in Nat /\ Outstanding \in Nat /\ x \in F
      BY <1>1, FS_CardinalityType, PeeringAssumption, Zenon DEF F
  <2>2. IsFiniteSet(F \ {x}) /\ Cardinality(F \ {x}) = Cardinality(F) - 1
      BY <1>1, <2>1, FS_RemoveElement, Zenon
  <2>3. /\ IsFiniteSet((F \ {x}) \cup {y})
        /\ Cardinality((F \ {x}) \cup {y}) \in {Cardinality(F \ {x}), Cardinality(F \ {x}) + 1}
      BY <2>2, FS_AddElement, Zenon
  <2> QED BY <1>1, <1>4, <2>1, <2>2, <2>3
<1> HIDE DEF moved, ended
<1>9. Bounded(moved) /\ Bounded(ended)
    BY <1>1, <1>5, <1>7, <1>8, FewerIds, Zenon
<1> QED BY <1>3, <1>4, <1>6, <1>9, Zenon DEF moved, ended, y

\* Send and Lose: no new answer.
LEMMA SendLoseInv ==
    ASSUME Inv, NEW d \in Drivers, NEW x \in driver[d].futures, Send(d, x) \/ Lose(d, x)
    PROVE  Inv'
<1> DEFINE y == Stepped(x, "sent", 0)
           moved == Moved(d, x, y)
           ended == Ended(d, x)
<1>1. 0 \in 0 .. MaxSerial /\ "sent" \in Stages
    BY PeeringAssumption, SMTT(30) DEF Stages
<1>2. /\ Bounded(moved) /\ moved.futures = (driver[d].futures \ {x}) \cup {y}
      /\ Bounded(ended) /\ ended.futures = driver[d].futures \ {x}
      /\ y.stage = "sent"
      /\ Advance(d, x, "sent", 0) => driver' = [driver EXCEPT ![d] = moved]
      /\ Finish(d, x) => driver' = [driver EXCEPT ![d] = ended]
    BY <1>1, WindowFacts
<1> HIDE DEF moved, ended, y
<1>3. UNCHANGED <<transfer, secret, serial, pending, cursor, status, copy, heard>>
    BY ZenonT(40) DEF Send, Lose, enclaveVars, peerVars
<1>4. CASE Send(d, x)
  <2>1. driver' = [driver EXCEPT ![d] = moved]
      BY <1>2, <1>4, Zenon DEF Send
  <2>2. \A w \in moved.futures : w \in driver[d].futures \/ w.stage # "answered"
      BY <1>2, Zenon
  <2> QED BY <1>2, <1>3, <2>1, <2>2, DriverStepInv, Zenon
<1>5. CASE Lose(d, x)
  <2>1. driver' = [driver EXCEPT ![d] = ended]
      BY <1>2, <1>5, Zenon DEF Lose
  <2>2. \A w \in ended.futures : w \in driver[d].futures \/ w.stage # "answered"
      BY <1>2, Zenon
  <2> QED BY <1>2, <1>3, <2>1, <2>2, DriverStepInv, Zenon
<1> QED BY <1>4, <1>5, Zenon

\* Answer: the answer carries the serial the secondary has, and it has now heard of
\* the newest one.
LEMMA AnswerInv ==
    ASSUME Inv, NEW d \in Drivers, NEW x \in driver[d].futures, Answer(d, x)
    PROVE  Inv'
<1> DEFINE c == StatusKey(JobOf(x.id))
           y == Stepped(x, "answered", copy[c])
           moved == Moved(d, x, y)
<1>0. /\ serial \in [Zones -> 1 .. MaxSerial] /\ MaxSerial \in Nat
      /\ copy \in [Zones \X Endpoints -> 0 .. MaxSerial]
      /\ heard \in [Zones \X Endpoints -> 0 .. MaxSerial] /\ x.id \in Ids
    BY PeeringAssumption, Zenon DEF Inv, TypeOK, Exchanges
<1>1. c \in Zones \X Endpoints /\ c[1] \in Zones /\ c[1] = ZoneOf(JobOf(x.id))
    BY <1>0, JobFacts, Zenon
<1>2. /\ Advance(d, x, "answered", copy[c])
      /\ heard' = IF KindOf(JobOf(x.id)) = "notify" THEN [heard EXCEPT ![c] = serial[c[1]]] ELSE heard
      /\ UNCHANGED <<transfer, secret, serial, pending, cursor, status, copy>>
    BY Zenon DEF Answer, enclaveVars
<1> HIDE DEF c
<1>3. /\ Bounded(moved) /\ moved.futures = (driver[d].futures \ {x}) \cup {y}
      /\ y.id = x.id /\ y.answer = copy[c] /\ driver' = [driver EXCEPT ![d] = moved]
  <2>1. copy[c] \in 0 .. MaxSerial /\ "answered" \in Stages
      BY <1>0, <1>1, Zenon DEF Stages
  <2> QED BY <1>2, <2>1, WindowFacts, SMTT(30)
<1> HIDE DEF moved, y
<1>4. /\ heard' \in [Zones \X Endpoints -> 0 .. MaxSerial]
      /\ \A ze \in Zones \X Endpoints : heard[ze] <= heard'[ze] /\ heard'[ze] <= serial[ze[1]]
      /\ KindOf(JobOf(x.id)) = "notify" => heard'[c] = serial[c[1]]
  <2>1. serial[c[1]] \in 0 .. MaxSerial
      BY <1>0, <1>1
  <2>2. \A ze \in Zones \X Endpoints : /\ heard[ze] \in Nat /\ heard[ze] <= serial[ze[1]]
                                       /\ serial[ze[1]] \in Nat
      BY <1>0 DEF Inv, NothingAhead
  <2>3. CASE KindOf(JobOf(x.id)) = "notify"
    <3>1. heard' = [heard EXCEPT ![c] = serial[c[1]]]
        BY <1>2, <2>3, Zenon
    <3>2. \A ze \in Zones \X Endpoints : heard'[ze] = IF ze = c THEN serial[c[1]] ELSE heard[ze]
        BY <1>0, <3>1, Zenon
    <3>3. heard' \in [Zones \X Endpoints -> 0 .. MaxSerial]
        BY <1>0, <2>1, <3>1, Zenon
    <3>4. \A ze \in Zones \X Endpoints : heard[ze] <= heard'[ze] /\ heard'[ze] <= serial[ze[1]]
        BY <2>2, <3>2
    <3> QED BY <1>1, <3>2, <3>3, <3>4, Zenon
  <2>4. CASE KindOf(JobOf(x.id)) # "notify"
      BY <1>0, <1>2, <2>2, <2>4
  <2> QED BY <2>3, <2>4, Zenon
<1>5. /\ DriversBounded'
      /\ \A e \in Drivers : /\ driver'[e].backlog \in Seq(Ids)
                            /\ driver'[e].futures \subseteq Exchanges
                            /\ driver'[e].age \in 0 .. DiscardAfter
      /\ \A e \in Drivers : driver'[e] = IF e = d THEN moved ELSE driver[e]
    BY <1>3, DriverMoves, Zenon
<1>6. TypeOK'
    BY <1>2, <1>4, <1>5, Zenon DEF Inv, TypeOK
<1>7. OneRowPerJob' /\ NothingAhead'
    BY <1>2, <1>4, Zenon DEF Inv, OneRowPerJob, NothingAhead
<1>8. StatusTrue'
  <2>1. \A ze \in Zones \X Endpoints : status[ze].notified <= heard'[ze]
    <3> SUFFICES ASSUME NEW ze \in Zones \X Endpoints PROVE status[ze].notified <= heard'[ze]
        BY Zenon
    <3>1. status[ze].notified \in Nat /\ heard[ze] \in Nat /\ heard'[ze] \in Nat
        BY <1>0, <1>4 DEF Inv, TypeOK
    <3>2. status[ze].notified <= heard[ze] /\ heard[ze] <= heard'[ze]
        BY <1>4, Zenon DEF Inv, StatusTrue, NotifiedWasHeard
    <3> QED BY <3>1, <3>2
  <2> QED BY <1>2, <2>1, Zenon DEF Inv, StatusTrue, NotifiedWasHeard, ObservedWasServed
<1>9. AnswersTrue'
  <2> SUFFICES ASSUME NEW e \in Drivers, NEW w \in driver'[e].futures, w.stage = "answered"
               PROVE  /\ w.answer <= copy[StatusKey(JobOf(w.id))]
                      /\ KindOf(JobOf(w.id)) = "notify" =>
                            \A p \in pending : p.id = w.id =>
                               p.serial <= heard'[StatusKey(JobOf(w.id))]
      BY <1>2, Zenon DEF AnswersTrue, AnswerTrue
  <2>1. CASE w = y
    <3>1. StatusKey(JobOf(w.id)) = c /\ w.answer = copy[c] /\ copy[c] \in Nat
        BY <1>0, <1>1, <1>3, <2>1, SMTT(30) DEF c
    <3>2. ASSUME KindOf(JobOf(w.id)) = "notify", NEW p \in pending, p.id = w.id
          PROVE  p.serial <= heard'[c]
      <4>1. p.id = x.id /\ heard'[c] = serial[c[1]]
          BY <1>3, <1>4, <2>1, <3>2, Zenon
      <4>2. p.serial <= serial[ZoneOf(JobOf(p.id))]
          BY Zenon DEF Inv, NothingAhead
      <4> QED BY <1>1, <4>1, <4>2, Zenon
    <3> QED BY <3>1, <3>2, SMTT(30)
  <2>2. CASE w # y
    <3>1. w \in driver[e].futures
        BY <1>3, <1>5, <2>2
    <3>2. w.id \in Ids
        BY <3>1, Zenon DEF Inv, TypeOK, Exchanges
    <3>3. StatusKey(JobOf(w.id)) \in Zones \X Endpoints
        BY <3>2, JobFacts, Zenon
    <3>4. ASSUME KindOf(JobOf(w.id)) = "notify", NEW p \in pending, p.id = w.id
          PROVE  p.serial <= heard'[StatusKey(JobOf(w.id))]
      <4>1. p.serial \in Nat
          BY <1>0 DEF Inv, TypeOK, Pendings
      <4>2. p.serial <= heard[StatusKey(JobOf(w.id))]
          BY <3>1, <3>4, Zenon DEF Inv, AnswersTrue, AnswerTrue
      <4>3. /\ heard[StatusKey(JobOf(w.id))] \in Nat /\ heard'[StatusKey(JobOf(w.id))] \in Nat
            /\ heard[StatusKey(JobOf(w.id))] <= heard'[StatusKey(JobOf(w.id))]
          BY <1>0, <1>4, <3>3
      <4> QED BY <4>1, <4>2, <4>3
    <3> QED BY <3>1, <3>4, Zenon DEF Inv, AnswersTrue, AnswerTrue
  <2> QED BY <2>1, <2>2, Zenon
<1> QED BY <1>5, <1>6, <1>7, <1>8, <1>9, Zenon DEF Inv

\* Post: an accepted answer is recorded for its row, which goes.
LEMMA PostInv ==
    ASSUME Inv, NEW d \in Drivers, NEW x \in driver[d].futures, Post(d, x)
    PROVE  Inv'
<1> DEFINE ended == Ended(d, x)
<1>0. /\ MaxSerial \in Nat /\ x.stage = "answered" /\ x.id \in Ids /\ x.answer \in 0 .. MaxSerial
      /\ status \in [Zones \X Endpoints -> [notified : 0 .. MaxSerial, observed : 0 .. MaxSerial]]
      /\ UNCHANGED <<transfer, secret, serial, cursor, copy, heard>>
    BY PeeringAssumption, ZenonT(40) DEF Inv, TypeOK, Exchanges, Post, peerVars
<1>1. Bounded(ended) /\ ended.futures = driver[d].futures \ {x} /\ driver' = [driver EXCEPT ![d] = ended]
  <2>1. 0 \in 0 .. MaxSerial /\ "sent" \in Stages /\ Finish(d, x)
      BY <1>0, SMTT(30) DEF Stages, Post
  <2> QED BY <2>1, WindowFacts, SMTT(30)
<1> HIDE DEF ended
<1>2. /\ DriversBounded'
      /\ \A e \in Drivers : /\ driver'[e].backlog \in Seq(Ids)
                            /\ driver'[e].futures \subseteq Exchanges
                            /\ driver'[e].age \in 0 .. DiscardAfter
      /\ \A e \in Drivers : driver'[e] = IF e = d THEN ended ELSE driver[e]
    BY <1>1, DriverMoves, ZenonT(40)
<1>3. /\ pending' \subseteq pending
      /\ status' \in [Zones \X Endpoints -> [notified : 0 .. MaxSerial, observed : 0 .. MaxSerial]]
      /\ StatusTrue'
  <2>1. CASE UNCHANGED <<pending, status>>
      BY <1>0, <2>1, Zenon DEF Inv, StatusTrue, NotifiedWasHeard, ObservedWasServed
  <2>2. ASSUME NEW p \in pending, p.id = x.id, pending' = pending \ {p},
               status' = [status EXCEPT ![StatusKey(JobOf(p.id))] = StatusAfter(p, x.answer)]
        PROVE  /\ pending' \subseteq pending
               /\ status' \in [Zones \X Endpoints ->
                                 [notified : 0 .. MaxSerial, observed : 0 .. MaxSerial]]
               /\ StatusTrue'
    <3> DEFINE c == StatusKey(JobOf(p.id))
               after == StatusAfter(p, x.answer)
    <3>1. c \in Zones \X Endpoints /\ p.serial \in 0 .. MaxSerial
        BY <1>0, <2>2, JobFacts, SMTT(30) DEF Inv, TypeOK, Pendings
    <3>2. /\ x.answer <= copy[c]
          /\ KindOf(JobOf(p.id)) = "notify" => p.serial <= heard[c]
        BY <1>0, <2>2, ZenonT(40) DEF Inv, AnswersTrue, AnswerTrue
    <3>3. status[c].notified <= heard[c] /\ status[c].observed <= copy[c]
        BY <3>1, Zenon DEF Inv, StatusTrue, NotifiedWasHeard, ObservedWasServed
    <3>4. status[c] \in [notified : 0 .. MaxSerial, observed : 0 .. MaxSerial]
        BY <1>0, <3>1, Zenon
    <3>5. /\ after \in [notified : 0 .. MaxSerial, observed : 0 .. MaxSerial]
          /\ after.notified <= heard[c] /\ after.observed <= copy[c]
      <4> HIDE DEF c
      <4>1. CASE KindOf(JobOf(p.id)) = "notify"
        <5>1. after = [status[c] EXCEPT !.notified = p.serial]
            BY <4>1, Zenon DEF StatusAfter, c
        <5> QED BY <3>1, <3>2, <3>3, <3>4, <4>1, <5>1, Zenon
      <4>2. CASE KindOf(JobOf(p.id)) # "notify"
        <5>1. after = [status[c] EXCEPT !.observed = x.answer]
            BY <4>2, Zenon DEF StatusAfter, c
        <5> QED BY <1>0, <3>2, <3>3, <3>4, <5>1, Zenon
      <4> QED BY <4>1, <4>2, Zenon
    <3> HIDE DEF c, after
    <3>6. status' = [status EXCEPT ![c] = after]
        BY <2>2, Zenon DEF c, after
    <3>7. \A ze \in Zones \X Endpoints : status'[ze] = IF ze = c THEN after ELSE status[ze]
        BY <1>0, <3>6, Zenon
    <3>8. StatusTrue'
        BY <1>0, <3>5, <3>7, Zenon DEF Inv, StatusTrue, NotifiedWasHeard, ObservedWasServed
    <3>9. status' \in [Zones \X Endpoints -> [notified : 0 .. MaxSerial, observed : 0 .. MaxSerial]]
        BY <1>0, <3>5, <3>6, Zenon
    <3>10. pending' \subseteq pending
        BY <2>2, Zenon
    <3> QED BY <3>8, <3>9, <3>10, Zenon
  <2> QED BY <2>1, <2>2, Zenon DEF Post
<1>4. TypeOK'
    BY <1>0, <1>2, <1>3, Zenon DEF Inv, TypeOK
<1>5. OneRowPerJob' /\ NothingAhead'
    BY <1>0, <1>3, Zenon DEF Inv, OneRowPerJob, NothingAhead
<1>6. AnswersTrue'
  <2>1. \A e \in Drivers : driver'[e].futures \subseteq driver[e].futures
      BY <1>1, <1>2, Zenon
  <2> QED BY <1>0, <1>3, <2>1, Zenon DEF Inv, AnswersTrue, AnswerTrue
<1> QED BY <1>2, <1>3, <1>4, <1>5, <1>6, Zenon DEF Inv

\* The row a request writes for the i-th item of its batch.
RowOf(i) == [id |-> Batch[i], age |-> 0, serial |-> serial[ZoneOf(JobOf(Batch[i]))]]

\* secondary_requests: one row for each job, under an id that no answer carries.
LEMMA RequestsInv ==
    ASSUME Inv, NEW d \in Drivers, SecondaryRequests(Batch), UNCHANGED <<copy, heard>>,
           NEW s, Bounded(s), \A x \in s.futures : x.stage # "answered",
           driver' = [driver EXCEPT ![d] = s]
    PROVE  Inv'
<1> DEFINE rows == {RowOf(i) : i \in DOMAIN Batch}
           last == CHOOSE j \in Examined : \A i \in Examined : Place(i) <= Place(j)
<1>0. /\ serial \in [Zones -> 1 .. MaxSerial] /\ MaxSerial \in Nat /\ Freshness \in Nat
      /\ cursor \in 0 .. Cardinality(Jobs) /\ Cardinality(Jobs) \in Nat
    BY PeeringAssumption, JobsFinite, Zenon DEF Inv, TypeOK
<1>1. /\ pending' = Live \cup rows
      /\ cursor' = IF Examined = {} THEN cursor ELSE Rank[last]
      /\ UNCHANGED <<transfer, secret, serial, status>>
    BY Zenon DEF SecondaryRequests, RowOf
<1>2. /\ Batch \in Seq(Ids)
      /\ \A i \in DOMAIN Batch : JobOf(Batch[i]) \in CandidateJobs /\ Batch[i] \notin IdsInUse
      /\ \A i, k \in DOMAIN Batch : JobOf(Batch[i]) = JobOf(Batch[k]) => i = k
    BY BatchFacts, Zenon
<1>3. \A i \in DOMAIN Batch : Batch[i] \in Ids /\ ZoneOf(JobOf(Batch[i])) \in Zones
  <2>1. \A i \in DOMAIN Batch : Batch[i] \in Ids
      BY <1>2, SMTT(30)
  <2> QED BY <2>1, JobFacts, Zenon
<1>4. \A i \in DOMAIN Batch :
         /\ RowOf(i) \in Pendings /\ RowOf(i).id = Batch[i]
         /\ RowOf(i).serial = serial[ZoneOf(JobOf(RowOf(i).id))]
  <2> SUFFICES ASSUME NEW i \in DOMAIN Batch
               PROVE  /\ RowOf(i) \in Pendings /\ RowOf(i).id = Batch[i]
                      /\ RowOf(i).serial = serial[ZoneOf(JobOf(RowOf(i).id))]
      BY Zenon
  <2>1. serial[ZoneOf(JobOf(Batch[i]))] \in 1 .. MaxSerial /\ Batch[i] \in Ids /\ 0 \in 0 .. Freshness
      BY <1>0, <1>3
  <2> QED BY <2>1, Zenon DEF RowOf, Pendings
<1>5. cursor' \in 0 .. Cardinality(Jobs)
  <2>1. CASE Examined = {}
      BY <1>0, <1>1, <2>1, Zenon
  <2>2. CASE Examined # {}
    <3> DEFINE place == [j \in Examined |-> Place(j)]
    <3>1. Examined \in SUBSET Jobs
        BY Zenon DEF Examined, CandidateJobs
    <3>2. IsFiniteSet(Examined)
        BY <3>1, JobsFinite, FS_Subset, Zenon
    <3>3. /\ place \in [Examined -> Int]
          /\ \A i, j \in Examined : place[i] = place[j] => i = j
        BY <1>0, <3>1, PlaceFacts, Zenon
    <3>4. \E j \in Examined : \A i \in Examined : place[i] <= place[j]
      <4> HIDE DEF place
      <4> QED BY <2>2, <3>2, <3>3, Ordered, Zenon
    <3>5. \E j \in Examined : \A i \in Examined : Place(i) <= Place(j)
        BY <3>4, Zenon
    <3>6. last \in Examined
        BY <3>5, Zenon
    <3> HIDE DEF last
    <3>7. Rank[last] \in 1 .. Cardinality(Jobs)
        BY <3>1, <3>6, PeeringAssumption, Zenon
    <3> QED BY <1>0, <1>1, <2>2, <3>7, SMTT(30)
  <2> QED BY <2>1, <2>2, Zenon
<1>6. /\ DriversBounded'
      /\ \A e \in Drivers : /\ driver'[e].backlog \in Seq(Ids)
                            /\ driver'[e].futures \subseteq Exchanges
                            /\ driver'[e].age \in 0 .. DiscardAfter
      /\ \A e \in Drivers : driver'[e] = IF e = d THEN s ELSE driver[e]
    BY DriverMoves, ZenonT(40)
<1>7. Live \subseteq pending /\ \A p \in pending' : p \in Live \/ \E i \in DOMAIN Batch : p = RowOf(i)
    BY <1>1, Zenon DEF Live
<1> HIDE DEF rows
<1>8. TypeOK'
  <2>1. pending' \subseteq Pendings
      BY <1>4, <1>7, ZenonT(40) DEF Inv, TypeOK
  <2> QED BY <1>1, <1>5, <1>6, <2>1, Zenon DEF Inv, TypeOK
<1>9. OneRowPerJob'
  <2>1. ASSUME NEW p \in Live, NEW i \in DOMAIN Batch PROVE JobOf(p.id) # JobOf(RowOf(i).id)
    <3>1. JobOf(p.id) \in OutstandingJobs
        BY Zenon DEF OutstandingJobs
    <3>2. JobOf(Batch[i]) \notin OutstandingJobs
        BY <1>2, Zenon DEF CandidateJobs
    <3> QED BY <1>4, <3>1, <3>2, Zenon
  <2> SUFFICES ASSUME NEW p \in pending', NEW q \in pending', JobOf(p.id) = JobOf(q.id)
               PROVE  p = q
      BY Zenon DEF OneRowPerJob
  <2>2. CASE p \in Live /\ q \in Live
      BY <1>7, <2>2, Zenon DEF Inv, OneRowPerJob
  <2>3. CASE p \notin Live /\ q \notin Live
    <3>1. PICK i \in DOMAIN Batch : p = RowOf(i)
        BY <1>7, <2>3, Zenon
    <3>2. PICK k \in DOMAIN Batch : q = RowOf(k)
        BY <1>7, <2>3, Zenon
    <3>3. i = k
        BY <1>2, <1>4, <3>1, <3>2, Zenon
    <3> QED BY <3>1, <3>2, <3>3, Zenon
  <2> QED BY <1>7, <2>1, <2>2, <2>3, Zenon
<1>10. NothingAhead'
  <2>1. \A p \in pending' : p.serial <= serial[ZoneOf(JobOf(p.id))]
    <3> SUFFICES ASSUME NEW p \in pending' PROVE p.serial <= serial[ZoneOf(JobOf(p.id))]
        BY Zenon
    <3>1. CASE p \in Live
        BY <1>7, <3>1, Zenon DEF Inv, NothingAhead
    <3>2. CASE p \notin Live
      <4>1. PICK i \in DOMAIN Batch : p = RowOf(i)
          BY <1>7, <3>2, Zenon
      <4>2. p.serial = serial[ZoneOf(JobOf(p.id))] /\ p.serial \in Nat
          BY <1>0, <1>4, <4>1 DEF Pendings
      <4> QED BY <4>2, SMTT(30)
    <3> QED BY <3>1, <3>2, Zenon
  <2> QED BY <1>1, <2>1, Zenon DEF Inv, NothingAhead
<1>11. StatusTrue'
    BY <1>1, Zenon DEF Inv, StatusTrue, NotifiedWasHeard, ObservedWasServed
<1>12. AnswersTrue'
  <2> SUFFICES ASSUME NEW e \in Drivers, NEW w \in driver'[e].futures, w.stage = "answered"
               PROVE  /\ w.answer <= copy[StatusKey(JobOf(w.id))]
                      /\ KindOf(JobOf(w.id)) = "notify" =>
                            \A p \in pending' : p.id = w.id =>
                               p.serial <= heard[StatusKey(JobOf(w.id))]
      BY Zenon DEF AnswersTrue, AnswerTrue
  <2>1. w \in driver[e].futures
      BY <1>6, Zenon
  <2>2. AnswerTrue(w)
      BY <2>1, Zenon DEF Inv, AnswersTrue
  <2>3. w.id \in IdsInUse
      BY <2>1 DEF IdsInUse, HeldIds
  <2>4. \A p \in pending' : p.id = w.id => p \in pending
      BY <1>2, <1>4, <1>7, <2>3
  <2> QED BY <2>2, <2>4, Zenon DEF AnswerTrue
<1> QED BY <1>6, <1>8, <1>9, <1>10, <1>11, <1>12, Zenon DEF Inv

\* The cycles that fetch work, whether the committed answer arrives or not.
LEMMA CycleWithRequestInv ==
    ASSUME Inv, NEW d \in Drivers, CycleWithRequest(d) \/ CycleWithLostRequest(d)
    PROVE  Inv'
<1>0. UNCHANGED <<copy, heard>> /\ SecondaryRequests(Batch)
    BY Zenon DEF CycleWithRequest, CycleWithLostRequest, peerVars
<1>1. CASE CycleWithRequest(d)
  <2> DEFINE s == Dispatched(Batch, {}, 0)
  <2>1. driver' = [driver EXCEPT ![d] = s]
      BY <1>1, Zenon DEF CycleWithRequest
  <2>2. /\ Batch \in Seq(Ids) /\ {} \in SUBSET Exchanges /\ IsFiniteSet({})
        /\ Cardinality({}) <= Outstanding /\ 0 \in 0 .. DiscardAfter
      BY BatchFacts, FS_EmptySet, PeeringAssumption
  <2>3. /\ s \in DriverStates /\ IsFiniteSet(s.futures) /\ Cardinality(s.futures) <= Outstanding
        /\ \A x \in s.futures : x \in {} \/ (x.stage = "queued" /\ \E i \in DOMAIN Batch : x.id = Batch[i])
        /\ \A i \in DOMAIN s.backlog : \E k \in DOMAIN Batch : s.backlog[i] = Batch[k]
      BY <2>2, DispatchedFacts, Zenon
  <2> HIDE DEF s
  <2>4. \A a \in IdsOf(s) : \E k \in DOMAIN Batch : a = Batch[k]
      BY <2>3 DEF IdsOf
  <2>5. Bounded(s)
      BY <2>3, <2>4, BatchFacts DEF Bounded
  <2>6. \A x \in s.futures : x.stage # "answered"
      BY <2>3, Zenon
  <2> QED BY <1>0, <2>1, <2>5, <2>6, RequestsInv, ZenonT(40)
<1>2. CASE CycleWithLostRequest(d)
  <2> DEFINE s == [backlog |-> <<>>, futures |-> {}, age |-> 0]
  <2>1. driver' = [driver EXCEPT ![d] = s] /\ s.futures = {}
      BY <1>2, Zenon DEF CycleWithLostRequest
  <2>2. Bounded(s)
      BY EmptyDriver, Zenon
  <2> HIDE DEF s
  <2> QED BY <1>0, <2>1, <2>2, RequestsInv, Zenon
<1> QED BY <1>1, <1>2, Zenon

\* Tick ages rows and batches and nothing else.
LEMMA TickInv ==
    ASSUME Inv, Tick
    PROVE  Inv'
<1> DEFINE aged(p) == [p EXCEPT !.age = Smaller(@ + 1, Freshness)]
<1>0. Freshness \in Nat /\ DiscardAfter \in Nat
    BY PeeringAssumption, Zenon
<1>1. /\ pending' = {aged(p) : p \in pending}
      /\ driver' = [d \in Drivers |->
                      IF driver[d].backlog = <<>> THEN driver[d]
                      ELSE [driver[d] EXCEPT !.age = Smaller(@ + 1, DiscardAfter)]]
      /\ UNCHANGED <<transfer, secret, serial, cursor, status, copy, heard>>
    BY Zenon DEF Tick, peerVars
<1>2. \A p \in pending : aged(p) \in Pendings /\ aged(p).id = p.id /\ aged(p).serial = p.serial
  <2> SUFFICES ASSUME NEW p \in pending
               PROVE  aged(p) \in Pendings /\ aged(p).id = p.id /\ aged(p).serial = p.serial
      BY Zenon
  <2>1. p \in Pendings
      BY Zenon DEF Inv, TypeOK
  <2>2. Smaller(p.age + 1, Freshness) \in 0 .. Freshness
      BY <1>0, <2>1 DEF Smaller, Pendings
  <2> QED BY <2>1, <2>2, Zenon DEF Pendings
<1>3. \A q \in pending' : \E p \in pending : q = aged(p)
    BY <1>1, Zenon
<1>4. ASSUME NEW d \in Drivers
      PROVE  /\ driver'[d] \in DriverStates
             /\ driver'[d].futures = driver[d].futures /\ driver'[d].backlog = driver[d].backlog
  <2>1. driver[d] \in DriverStates
      BY Zenon DEF Inv, DriversBounded
  <2>2. Smaller(driver[d].age + 1, DiscardAfter) \in 0 .. DiscardAfter
      BY <1>0, <2>1 DEF Smaller, DriverStates
  <2> QED BY <1>1, <2>1, <2>2, Zenon DEF DriverStates
<1> HIDE DEF aged
<1>5. driver' \in [Drivers -> DriverStates]
    BY <1>1, <1>4, Zenon
<1>6. DriversBounded'
  <2>1. \A d \in Drivers : HeldIds(d)' = HeldIds(d)
      BY <1>4, Zenon DEF HeldIds
  <2> QED BY <1>4, <1>5, <2>1 DEF Inv, DriversBounded
<1>7. TypeOK'
  <2>1. pending' \subseteq Pendings
      BY <1>2, <1>3, Zenon
  <2>2. \A d \in Drivers : /\ driver'[d].backlog \in Seq(Ids)
                           /\ driver'[d].futures \subseteq Exchanges
                           /\ driver'[d].age \in 0 .. DiscardAfter
      BY <1>4, Zenon DEF DriverStates
  <2> QED BY <1>1, <2>1, <2>2, Zenon DEF Inv, TypeOK
<1>8. OneRowPerJob'
  <2> SUFFICES ASSUME NEW p \in pending', NEW q \in pending', JobOf(p.id) = JobOf(q.id)
               PROVE  p = q
      BY Zenon DEF OneRowPerJob
  <2>1. PICK a \in pending : p = aged(a)
      BY <1>3, Zenon
  <2>2. PICK b \in pending : q = aged(b)
      BY <1>3, Zenon
  <2>3. a = b
      BY <1>2, <2>1, <2>2 DEF Inv, OneRowPerJob
  <2> QED BY <2>1, <2>2, <2>3, Zenon
<1>9. NothingAhead'
    BY <1>1, <1>2, <1>3, Zenon DEF Inv, NothingAhead
<1>10. StatusTrue'
    BY <1>1, Zenon DEF Inv, StatusTrue, NotifiedWasHeard, ObservedWasServed
<1>11. AnswersTrue'
  <2> SUFFICES ASSUME NEW d \in Drivers, NEW x \in driver[d].futures, x.stage = "answered"
               PROVE  /\ x.answer <= copy[StatusKey(JobOf(x.id))]
                      /\ KindOf(JobOf(x.id)) = "notify" =>
                            \A q \in pending' : q.id = x.id =>
                               q.serial <= heard[StatusKey(JobOf(x.id))]
      BY <1>1, <1>4, Zenon DEF AnswersTrue, AnswerTrue
  <2>1. AnswerTrue(x)
      BY Zenon DEF Inv, AnswersTrue
  <2> QED BY <1>2, <1>3, <2>1 DEF AnswerTrue
<1> QED BY <1>6, <1>7, <1>8, <1>9, <1>10, <1>11, Zenon DEF Inv

\* Every step keeps the invariant.
LEMMA NextInv ==
    ASSUME Inv, [Next]_vars
    PROVE  Inv'
<1>1. CASE UNCHANGED vars
  <2>1. UNCHANGED <<transfer, secret, serial, pending, cursor, status, driver, copy, heard>>
      BY <1>1, Zenon DEF vars, enclaveVars, peerVars
  <2> QED BY <2>1, TablesKept, Zenon DEF Inv, TypeOK
<1>2. CASE Govern
    BY <1>2, GovernInv, Zenon
<1>3. ASSUME NEW z \in Zones, Resign(z) PROVE Inv'
    BY <1>3, ResignInv, Zenon
<1>4. ASSUME NEW k \in KeyNames, NEW z \in Zones, Axfr(k, z) PROVE Inv'
    BY <1>4, AxfrInv, Zenon
<1>5. CASE Tick
    BY <1>5, TickInv, Zenon
<1>6. ASSUME NEW d \in Drivers, Drive(d) PROVE Inv'
  <2>1. CASE CycleWithRequest(d) \/ CycleWithLostRequest(d)
      BY <2>1, CycleWithRequestInv, Zenon
  <2>2. CASE CycleWithoutRequest(d)
      BY <2>2, CycleWithoutRequestInv, Zenon
  <2>3. CASE Restart(d)
      BY <2>3, RestartInv, Zenon
  <2>4. ASSUME NEW x \in driver[d].futures, Send(d, x) \/ Lose(d, x) PROVE Inv'
      BY <2>4, SendLoseInv, Zenon
  <2>5. ASSUME NEW x \in driver[d].futures, Answer(d, x) PROVE Inv'
      BY <2>5, AnswerInv, Zenon
  <2>6. ASSUME NEW x \in driver[d].futures, Post(d, x) PROVE Inv'
      BY <2>6, PostInv, Zenon
  <2> QED BY <1>6, <2>1, <2>2, <2>3, <2>4, <2>5, <2>6, Zenon DEF Drive
<1> QED BY <1>1, <1>2, <1>3, <1>4, <1>5, <1>6, Zenon DEF Next

\* The empty tables satisfy the invariant.
LEMMA InitInv == Init => Inv
<1> SUFFICES ASSUME Init PROVE Inv
    BY Zenon
<1> DEFINE s == [backlog |-> <<>>, futures |-> {}, age |-> 0]
<1>0. /\ MaxSerial \in Nat \ {0} /\ Cardinality(Jobs) \in Nat /\ Bounded(s)
      /\ s.futures = {} /\ s.backlog = <<>>
    BY PeeringAssumption, JobsFinite, EmptyDriver, Zenon
<1>1. driver = [d \in Drivers |-> s]
    BY Zenon DEF Init
<1> HIDE DEF s
<1>2. \A d \in Drivers : driver[d] = s /\ IdsOf(s) = HeldIds(d)
    BY <1>1, Zenon DEF IdsOf, HeldIds
<1>3. driver \in [Drivers -> DriverStates]
    BY <1>0, <1>1, Zenon DEF Bounded
<1>4. DriversBounded
    BY <1>0, <1>2, <1>3, Zenon DEF DriversBounded, Bounded
<1>5. \A d \in Drivers : /\ driver[d].backlog \in Seq(Ids)
                         /\ driver[d].futures \subseteq Exchanges
                         /\ driver[d].age \in 0 .. DiscardAfter
    BY <1>3, Zenon DEF DriverStates
<1>6. NoTransfer \in [zones : Scopes \cup {{}}, revoked : BOOLEAN]
    BY Zenon DEF NoTransfer
<1>7. NoStatus \in [notified : 0 .. MaxSerial, observed : 0 .. MaxSerial]
      /\ NoStatus.notified = 0 /\ NoStatus.observed = 0
    BY <1>0, SMTT(30) DEF NoStatus
<1>8. TypeOK
    BY <1>0, <1>5, <1>6, <1>7 DEF Init, TypeOK
<1>9. NothingAhead /\ OneRowPerJob
  <2>1. \A ze \in Zones \X Endpoints : heard[ze] = 0 /\ copy[ze] = 0 /\ serial[ze[1]] = 1
      BY Zenon DEF Init
  <2> QED BY <2>1 DEF Init, NothingAhead, OneRowPerJob
<1>10. StatusTrue
  <2>1. \A ze \in Zones \X Endpoints : heard[ze] = 0 /\ copy[ze] = 0 /\ status[ze] = NoStatus
      BY Zenon DEF Init
  <2> QED BY <1>7, <2>1 DEF StatusTrue, NotifiedWasHeard, ObservedWasServed
<1>11. AnswersTrue
    BY <1>0, <1>2, Zenon DEF AnswersTrue
<1> QED BY <1>4, <1>8, <1>9, <1>10, <1>11, Zenon DEF Inv

---------------------------------------------------------------------------
(* The theorems.                                                           *)

\* The invariant holds in every reachable state.
LEMMA PeeringInvariant == Spec => []Inv
<1>1. Init => Inv
    BY InitInv, Zenon
<1>2. Inv /\ [Next]_vars => Inv'
    BY NextInv, Zenon
<1> QED BY <1>1, <1>2, PTL DEF Spec

\* The pending table has its type and one row for each job, however many
\* drivers ask for work, are restarted or lose the answer to their request.
THEOREM OnePendingRowPerJob == Spec => []RowsSound
<1>1. Inv => RowsSound
    BY Zenon DEF Inv, RowsSound
<1> QED BY <1>1, PeeringInvariant, PTL

\* What is recorded as notified was heard by the secondary, and what is recorded
\* as observed was served by it, though answers arrive late, twice reissued, or
\* after the zone was signed again.
THEOREM StatusIsTrue == Spec => []StatusTrue
<1>1. Inv => StatusTrue
    BY Zenon DEF Inv
<1> QED BY <1>1, PeeringInvariant, PTL

\* A status changes only while an unrevoked identity of the endpoint is governed
\* and provisioned for the zone.
THEOREM OnlyGovernedPeersAreRecorded == Spec => OnlyGovernedPeersReport
<1> DEFINE Governed == \A ze \in Zones \X Endpoints :
        status'[ze] # status[ze] =>
            \E k \in KeyNames : /\ EndpointOf[k] = ze[2]
                                /\ UsableKey(k)
                                /\ ze[1] \in transfer[k].zones
<1>1. ASSUME Inv, [Next]_vars PROVE [Governed]_vars
  <2>0. CASE UNCHANGED status
      BY <2>0, Zenon
  <2>1. ASSUME NEW d \in Drivers, NEW x \in driver[d].futures, Post(d, x), ~UNCHANGED status
        PROVE  Governed
    <3>1. PICK p \in pending :
            /\ Acceptable(p)
            /\ status' = [status EXCEPT ![StatusKey(JobOf(p.id))] = StatusAfter(p, x.answer)]
        BY <2>1, Zenon DEF Post
    <3>2. p.id \in Ids
        BY <1>1, Zenon DEF Inv, TypeOK, Pendings
    <3>3. JobOf(p.id) \in Jobs
        BY <3>2, JobFacts, Zenon
    <3> DEFINE j == JobOf(p.id)
    <3>4. /\ KeyOf(j) \in KeyNames /\ StatusKey(j)[1] = ZoneOf(j)
          /\ StatusKey(j)[2] = EndpointOf[KeyOf(j)]
        BY <3>3, JobFacts, Zenon
    <3>5. UsableKey(KeyOf(j)) /\ ZoneOf(j) \in transfer[KeyOf(j)].zones
        BY <3>1, ZenonT(40) DEF Acceptable, InScope
    <3>6. \A ze \in Zones \X Endpoints : status'[ze] # status[ze] => ze = StatusKey(j)
        BY <1>1, <3>1, Zenon DEF Inv, TypeOK
    <3> QED BY <3>4, <3>5, <3>6, Zenon
  <2>2. Govern \/ Tick => UNCHANGED status
      BY Zenon DEF Govern, SetTransfer, ProvisionTransferKey, RevokeTransfer, Tick
  <2>3. \A z \in Zones : /\ Resign(z) => UNCHANGED status
                         /\ \A k \in KeyNames : Axfr(k, z) => UNCHANGED status
      BY Zenon DEF Resign, Axfr, enclaveVars
  <2>4. ASSUME NEW d \in Drivers, Drive(d) PROVE Governed
    <3>1. CycleWithRequest(d) \/ CycleWithLostRequest(d) \/ CycleWithoutRequest(d) \/ Restart(d)
            => UNCHANGED status
        BY Zenon DEF CycleWithRequest, CycleWithLostRequest, SecondaryRequests, CycleWithoutRequest,
               Restart, enclaveVars
    <3>2. \A x \in driver[d].futures : Send(d, x) \/ Lose(d, x) \/ Answer(d, x) => UNCHANGED status
        BY Zenon DEF Send, Lose, Answer, enclaveVars
    <3> QED BY <2>1, <2>4, <3>1, <3>2, ZenonT(40) DEF Drive
  <2>5. UNCHANGED vars => UNCHANGED status
      BY Zenon DEF vars, enclaveVars
  <2>6. Next => UNCHANGED status \/ Governed
    <3> HIDE DEF Governed
    <3> QED BY <2>2, <2>3, <2>4, Zenon DEF Next
  <2> QED BY <1>1, <2>0, <2>5, <2>6, Zenon
<1> QED BY <1>1, PeeringInvariant, PTL DEF Spec, OnlyGovernedPeersReport
=============================================================================
