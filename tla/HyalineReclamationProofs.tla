---------------------- MODULE HyalineReclamationProofs ----------------------
(***************************************************************************)
(* Hyaline is safe for any number of threads and entries, counts its       *)
(* shares exactly and leaves nothing behind.                               *)
(***************************************************************************)
EXTENDS HyalineReclamationInvariant

LEMMA BatchesAddSlot ==
  ASSUME TypeOK, Batches, NEW t \in Threads, AddSlot(t)
  PROVE  Batches'
<1>0. Listed /\ Adding /\ Counted
  BY Zenon DEF Batches
<1>1. PICK i \in Threads, r \in Entries : i = add[t].slot /\ r = add[t].refs
  BY SlotAdded, Zenon
<1>2. /\ \A u \in Threads \ {t} : add'[u] = add[u]
      /\ add'[t].refs = r /\ add'[t].slot = i + 1
      /\ list[i] = invptr => list' = list /\ add'[t].cnt = add[t].cnt
      /\ list[i] # invptr => /\ add'[t].cnt = add[t].cnt + 1
                            /\ list[i] \in Seq(Entries) /\ list'[i] = <<r>> \o list[i]
                            /\ \A u \in Threads \ {i} : list'[u] = list[u]
  BY <1>1, SlotAdded, Zenon
<1>3. UNCHANGED <<members, refc, todo, local_batch>>
  BY Zenon DEF AddSlot
<1>4. /\ Adds(t, r) /\ i \notin Shares(r)
      /\ Shares(r)' = IF list[i] = invptr THEN Shares(r) ELSE Shares(r) \cup {i}
      /\ \A q \in Entries \ {r} : Shares(q)' = Shares(q)
  BY <1>0, <1>1, SharesAddSlot, Zenon
<1>5. members[r] # <<>> /\ add[t].cnt < i /\ \A s \in Shares(r) : s < i
  BY <1>0, <1>1, <1>4, Zenon DEF Adding
<1>6. i \in Nat /\ i <= N /\ add[t].cnt \in Nat /\ Shares(r) \in SUBSET Threads
  BY AddView, HyalineAssumption DEF Threads, Shares
<1>7. \A u \in Threads, q \in Entries : Adds(u, q)' <=> Adds(u, q)
  <2>1. \A u \in Threads \ {t}, q \in Entries : Adds(u, q)' <=> Adds(u, q)
    BY <1>2, Zenon DEF Adds
  <2>2. \A q \in Entries : (Adds(t, q) <=> q = r) /\ (Adds(t, q)' <=> q = r)
    <3>1. i <= N + 1 /\ i + 1 <= N + 1
      BY <1>6, HyalineAssumption
    <3> QED BY <1>1, <1>2, <3>1, Zenon DEF Adds
  <2> QED BY <2>1, <2>2, Zenon
<1>8. Listed'
  <2>1. \A u \in Threads : IsInjective(list[u]) /\ IsInjective(todo[u])
    BY <1>0, Zenon DEF Listed
  <2>2. \A u \in Threads : IsInjective(list'[u])
    <3>1. CASE list[i] = invptr
      BY <1>2, <2>1, <3>1, Zenon
    <3>2. CASE list[i] # invptr
      <4>1. r \notin Range(list[i]) /\ list[i] \in Seq(Entries)
        BY <1>2, <1>4, <3>2, Zenon DEF Shares
      <4>2. IsInjective(<<r>> \o list[i])
        BY <2>1, <4>1, SeqPush, Zenon
      <4> QED BY <1>2, <2>1, <3>2, <4>2, Zenon
    <3> QED BY <3>1, <3>2, Zenon
  <2>3. \A q \in Entries : members[q] = <<>> => Shares(q)' = {}
    BY <1>0, <1>4, <1>5, Zenon DEF Listed
  <2> QED BY <1>3, <2>1, <2>2, <2>3, Zenon DEF Listed
<1>9. Adding'
  <2> SUFFICES ASSUME NEW u \in Threads, NEW q \in Entries, Adds(u, q)'
               PROVE  /\ members'[q] # <<>>
                      /\ add'[u].cnt < add'[u].slot
                      /\ \A s \in Shares(q)' : s < add'[u].slot
                      /\ \A v \in Threads : Adds(v, q)' => v = u
    BY Zenon DEF Adding
  <2>1. /\ Adds(u, q) /\ members[q] # <<>> /\ add[u].cnt < add[u].slot
        /\ \A s \in Shares(q) : s < add[u].slot
        /\ \A v \in Threads : Adds(v, q)' => v = u
    BY <1>0, <1>7, Zenon DEF Adding
  <2>2. CASE u = t
    <3>1. q = r
      BY <1>1, <2>1, <2>2, Zenon DEF Adds
    <3>2. add'[t].cnt < i + 1
      BY <1>2, <1>5, <1>6
    <3>3. \A s \in Shares(r)' : s < i + 1
      <4>1. \A s \in Shares(r) : s \in Nat /\ s < i
        BY <1>5, <1>6, HyalineAssumption DEF Threads
      <4> QED BY <1>4, <1>6, <4>1
    <3> QED BY <1>2, <1>3, <2>1, <2>2, <3>1, <3>2, <3>3, Zenon
  <2>3. CASE u # t
    <3>1. q # r
      BY <1>0, <1>4, <2>1, <2>3, Zenon DEF Adding
    <3> QED BY <1>2, <1>3, <1>4, <2>1, <2>3, <3>1, Zenon
  <2> QED BY <2>2, <2>3, Zenon
<1>10. Counted'
  <2>1. \A u \in Threads : local_batch'[u] # <<>> => refc'[Refs(local_batch'[u])] = REFC_PROTECT
    BY <1>0, <1>3, Zenon DEF Counted
  <2>2. ASSUME NEW q \in Entries, members'[q] # <<>>
        PROVE  /\ \A u \in Threads : Adds(u, q)' =>
                    refc'[q] = Cardinality(Shares(q)') + REFC_PROTECT - add'[u].cnt
               /\ (\A u \in Threads : ~Adds(u, q)') =>
                    refc'[q] = Cardinality(Shares(q)') /\ refc'[q] > 0
    <3>1. CASE q # r
      <4>1. \A u \in Threads : Adds(u, q) => add'[u] = add[u]
        BY <1>1, <1>2, <3>1, Zenon DEF Adds
      <4> QED BY <1>0, <1>3, <1>4, <1>7, <2>2, <3>1, <4>1, Zenon DEF Counted
    <3>2. CASE q = r
      <4>1. \A u \in Threads : Adds(u, r) => u = t
        BY <1>0, <1>4, Zenon DEF Adding
      <4>2. refc[r] = Cardinality(Shares(r)) + REFC_PROTECT - add[t].cnt
        BY <1>0, <1>4, <1>5, Zenon DEF Counted
      <4>3. Cardinality(Shares(r)) \in Nat /\ Cardinality(Shares(r) \cup {i}) = Cardinality(Shares(r)) + 1
        BY <1>4, <1>6, ThreadSets, Zenon
      <4>4. refc'[r] = Cardinality(Shares(r)') + REFC_PROTECT - add'[t].cnt
        <5>1. CASE list[i] = invptr
          BY <1>2, <1>3, <1>4, <4>2, <5>1, Zenon
        <5>2. CASE list[i] # invptr
          <6>1. Cardinality(Shares(r)') = Cardinality(Shares(r)) + 1 /\ add'[t].cnt = add[t].cnt + 1
            BY <1>2, <1>4, <4>3, <5>2, Zenon
          <6> QED BY <1>3, <1>6, <4>2, <4>3, <6>1, HyalineAssumption
        <5> QED BY <5>1, <5>2, Zenon
      <4> QED BY <1>4, <1>7, <3>2, <4>1, <4>4, Zenon
    <3> QED BY <3>1, <3>2, Zenon
  <2> QED BY <2>1, <2>2, Zenon DEF Counted, Refs
<1> QED BY <1>8, <1>9, <1>10, Zenon DEF Batches

LEMMA BatchesAddCount ==
  ASSUME TypeOK, Placed, Batches, NEW t \in Threads, AddCount(t)
  PROVE  Batches'
<1>0. Listed /\ Adding /\ Counted
  BY Zenon DEF Batches
<1>1. PICK r \in Entries : r = add[t].refs
  BY BatchCounted, Zenon
<1>2. /\ add[t].slot = N + 1 /\ add[t].cnt \in Nat
      /\ FetchAdd(t, r, add[t].cnt - REFC_PROTECT)
      /\ \A u \in Threads \ {t} : add'[u] = add[u]
      /\ add'[t].slot = N + 2
  BY <1>1, BatchCounted, Zenon
<1>3. add[t].cnt - REFC_PROTECT \in Int
  BY <1>2, HyalineAssumption
<1>4. /\ refc'[r] = refc[r] + (add[t].cnt - REFC_PROTECT)
      /\ \A q \in Entries \ {r} : refc'[q] = refc[q] /\ members'[q] = members[q]
      /\ refc[r] # -(add[t].cnt - REFC_PROTECT) => members' = members
      /\ refc[r] = -(add[t].cnt - REFC_PROTECT) => members'[r] = <<>>
  BY <1>2, <1>3, Fetched, Zenon
<1>5. UNCHANGED <<list, todo, local_batch>>
  BY Zenon DEF AddCount
<1>6. \A q \in Entries : Shares(q)' = Shares(q)
  BY <1>5, Zenon DEF Shares
<1>7. /\ Adds(t, r) /\ members[r] # <<>>
      /\ refc[r] = Cardinality(Shares(r)) + REFC_PROTECT - add[t].cnt
      /\ refc[r] = -(add[t].cnt - REFC_PROTECT) <=> Shares(r) = {}
  BY <1>0, <1>1, NoShare, Zenon
<1>8. \A u \in Threads, q \in Entries : Adds(u, q)' => u # t /\ q # r /\ Adds(u, q)
  <2>1. \A q \in Entries : ~Adds(t, q)'
    BY <1>2, HyalineAssumption DEF Adds
  <2>2. \A u \in Threads \ {t}, q \in Entries : Adds(u, q)' <=> Adds(u, q)
    BY <1>2, Zenon DEF Adds
  <2>3. \A u \in Threads : Adds(u, r) => u = t
    BY <1>0, <1>7, Zenon DEF Adding
  <2> QED BY <2>1, <2>2, <2>3, Zenon
<1>9. Listed'
  <2>1. \A q \in Entries : members'[q] = <<>> => Shares(q) = {}
    BY <1>0, <1>4, <1>7, Zenon DEF Listed
  <2> QED BY <1>0, <1>5, <1>6, <2>1, Zenon DEF Listed
<1>10. Adding'
  BY <1>0, <1>2, <1>4, <1>6, <1>8 DEF Adding
<1>11. Counted'
  <2>1. \A u \in Threads : local_batch'[u] # <<>> => refc'[Refs(local_batch'[u])] = REFC_PROTECT
    BY <1>0, <1>4, <1>5, <1>7, RefsApart, Zenon DEF Counted
  <2>2. ASSUME NEW q \in Entries, members'[q] # <<>>
        PROVE  /\ \A u \in Threads : Adds(u, q)' =>
                    refc'[q] = Cardinality(Shares(q)') + REFC_PROTECT - add'[u].cnt
               /\ (\A u \in Threads : ~Adds(u, q)') =>
                    refc'[q] = Cardinality(Shares(q)') /\ refc'[q] > 0
    <3>1. CASE q # r
      <4>1. \A u \in Threads : Adds(u, q)' <=> Adds(u, q)
        <5>1. ~Adds(t, q)
          BY <1>1, <3>1, Zenon DEF Adds
        <5> QED BY <1>2, <1>8, <5>1, Zenon DEF Adds
      <4> QED BY <1>0, <1>2, <1>4, <1>6, <1>8, <2>2, <3>1, <4>1 DEF Counted
    <3>2. CASE q = r
      <4>1. Shares(r) # {} /\ Shares(r) \in SUBSET Threads
        BY <1>4, <1>7, <2>2, <3>2, Zenon DEF Shares
      <4>2. Cardinality(Shares(r)) \in Nat /\ Cardinality(Shares(r)) # 0
        BY <4>1, ThreadSets, Zenon
      <4>3. refc'[r] = Cardinality(Shares(r)) /\ refc'[r] > 0
        BY <1>2, <1>4, <1>7, <4>2, HyalineAssumption
      <4> QED BY <1>6, <1>8, <3>2, <4>3, Zenon
    <3> QED BY <3>1, <3>2, Zenon
  <2> QED BY <2>1, <2>2, Zenon DEF Counted, Refs
<1> QED BY <1>9, <1>10, <1>11, Zenon DEF Batches

\* The head of the loop of retire: a full batch starts on its way with a fresh
\* counter and no share.
LEMMA BatchesStart ==
  ASSUME TypeOK, Placed, Batches, NEW t \in Threads, NEW batch \in Seq(Entries),
         StartAdding(t, batch), UNCHANGED <<list, todo>>,
         \A r \in Entries : ~Adds(t, r),
         \A r \in Entries : Range(batch) \cap Range(members[r]) = {},
         batch # <<>> => refc'[Refs(batch)] = REFC_PROTECT,
         \A r \in Entries : members[r] # <<>> => refc'[r] = refc[r],
         \A u \in Threads \ {t} : local_batch[u] # <<>> => refc'[Refs(local_batch[u])] = REFC_PROTECT
  PROVE  Batches'
<1>0. Listed /\ Adding /\ Counted
  BY Zenon DEF Batches
<1>1. /\ \A u \in Threads \ {t} : add'[u] = add[u]
      /\ add'[t].slot = 1 /\ add'[t].cnt = 0
      /\ add'[t].refs = IF Full(batch) THEN Refs(batch) ELSE none
  BY AddingStarts, TypeParts, Zenon
<1>2. /\ \A u \in Threads \ {t} : local_batch'[u] = local_batch[u]
      /\ Full(batch) => /\ local_batch'[t] = <<>> /\ members'[Refs(batch)] = batch
                        /\ \A r \in Entries \ {Refs(batch)} : members'[r] = members[r]
      /\ ~Full(batch) => local_batch'[t] = batch /\ members' = members
  BY Started, Zenon
<1>3. \A r \in Entries : Shares(r)' = Shares(r)
  BY Zenon DEF Shares
<1>4. \A u \in Threads : local_batch'[u] # <<>> => refc'[Refs(local_batch'[u])] = REFC_PROTECT
  <2>1. \A u \in Threads \ {t} : local_batch'[u] # <<>> => refc'[Refs(local_batch'[u])] = REFC_PROTECT
    BY <1>2, Zenon
  <2>2. local_batch'[t] # <<>> => local_batch'[t] = batch
    BY <1>2, Zenon
  <2> QED BY <2>1, <2>2, Zenon
<1>5. \A u \in Threads \ {t}, r \in Entries : Adds(u, r)' <=> Adds(u, r)
  BY <1>1, Zenon DEF Adds
<1>6. CASE ~Full(batch)
  <2>1. \A u \in Threads, r \in Entries : Adds(u, r)' <=> Adds(u, r)
    <3>1. \A r \in Entries : ~Adds(t, r)'
      BY <1>1, <1>6, HyalineAssumption, Zenon DEF Adds
    <3> QED BY <1>5, <3>1, Zenon
  <2>2. \A u \in Threads, r \in Entries : Adds(u, r) => add'[u] = add[u]
    BY <1>1, Zenon
  <2>3. Listed'
    BY <1>0, <1>2, <1>3, <1>6, Zenon DEF Listed
  <2>4. Adding'
    BY <1>0, <1>2, <1>3, <1>6, <2>1, <2>2, Zenon DEF Adding
  <2>5. Counted'
    BY <1>0, <1>2, <1>3, <1>4, <1>6, <2>1, <2>2 DEF Counted, Refs
  <2> QED BY <2>3, <2>4, <2>5, Zenon DEF Batches
<1>7. CASE Full(batch)
  <2>1. batch # <<>> /\ Refs(batch) \in Entries
    BY <1>7, FullBatch, Zenon
  <2>2. PICK f \in Entries : f = Refs(batch)
    BY <2>1, Zenon
  <2>3. members[f] = <<>> /\ Shares(f) = {} /\ \A u \in Threads : ~Adds(u, f)
    BY <1>0, <1>7, <2>2, NewBatch, Zenon
  <2>4. /\ members'[f] # <<>> /\ \A r \in Entries \ {f} : members'[r] = members[r]
        /\ refc'[f] = REFC_PROTECT
    BY <1>2, <1>7, <2>1, <2>2, Zenon
  <2>5. \A r \in Entries : Adds(t, r)' <=> r = f
    BY <1>1, <1>7, <2>2, HyalineAssumption DEF Adds
  <2>6. \A u \in Threads, r \in Entries : r # f => (Adds(u, r)' <=> Adds(u, r))
    BY <1>5, <2>5, Zenon
  <2>7. \A u \in Threads, r \in Entries : r = f => (Adds(u, r)' <=> u = t)
    BY <1>5, <2>3, <2>5, Zenon
  <2>8. Listed'
    BY <1>0, <1>3, <2>4, Zenon DEF Listed
  <2>9. Adding'
    <3>1. add'[t].cnt < add'[t].slot /\ \A r \in Entries : r = f => Shares(r)' = {}
      BY <1>1, <1>3, <2>3
    <3>2. ASSUME NEW u \in Threads, NEW r \in Entries, Adds(u, r)'
          PROVE  /\ members'[r] # <<>> /\ add'[u].cnt < add'[u].slot
                 /\ \A s \in Shares(r)' : s < add'[u].slot
                 /\ \A v \in Threads : Adds(v, r)' => v = u
      <4>1. CASE r = f
        <5>1. /\ Shares(r)' = {} /\ members'[r] # <<>>
              /\ \A v \in Threads : Adds(v, r)' <=> v = t
          BY <2>4, <2>7, <3>1, <4>1, Zenon
        <5>2. u = t
          BY <3>2, <5>1, Zenon
        <5> QED BY <3>1, <5>1, <5>2, Zenon
      <4>2. CASE r # f
        <5>1. Shares(r)' = Shares(r) /\ members'[r] = members[r]
          BY <1>3, <2>4, <4>2, Zenon
        <5>2. \A v \in Threads : Adds(v, r)' <=> Adds(v, r)
          BY <2>6, <4>2, Zenon
        <5>3. Adds(u, r) /\ add'[u] = add[u]
          BY <1>1, <3>2, <5>2, Zenon
        <5> QED BY <1>0, <5>1, <5>2, <5>3, Zenon DEF Adding
      <4> QED BY <4>1, <4>2, Zenon
    <3> QED BY <3>2, Zenon DEF Adding
  <2>10. Counted'
    <3>1. \A r \in Entries : r = f => Cardinality(Shares(r)') = 0
      BY <1>3, <2>3, FS_EmptySet, Zenon
    <3>2. refc'[f] = 0 + REFC_PROTECT - add'[t].cnt
      BY <1>1, <2>4, HyalineAssumption
    <3>3. ASSUME NEW r \in Entries, members'[r] # <<>>
          PROVE  /\ \A u \in Threads : Adds(u, r)' =>
                      refc'[r] = Cardinality(Shares(r)') + REFC_PROTECT - add'[u].cnt
                 /\ (\A u \in Threads : ~Adds(u, r)') =>
                      refc'[r] = Cardinality(Shares(r)') /\ refc'[r] > 0
      <4>1. CASE r = f
        <5>1. /\ Cardinality(Shares(r)') = 0 /\ refc'[r] = refc'[f]
              /\ \A v \in Threads : Adds(v, r)' <=> v = t
          BY <2>7, <3>1, <4>1, Zenon
        <5>2. refc'[r] = Cardinality(Shares(r)') + REFC_PROTECT - add'[t].cnt
          BY <3>2, <5>1, Zenon
        <5> QED BY <5>1, <5>2, Zenon
      <4>2. CASE r # f
        <5>1. Shares(r)' = Shares(r) /\ members[r] # <<>> /\ refc'[r] = refc[r]
          BY <1>3, <2>4, <3>3, <4>2, Zenon
        <5>2. \A v \in Threads : Adds(v, r)' <=> Adds(v, r)
          BY <2>6, <4>2, Zenon
        <5>3. \A v \in Threads : Adds(v, r) => add'[v] = add[v]
          BY <1>1, Zenon
        <5> QED BY <1>0, <5>1, <5>2, <5>3, Zenon DEF Counted
      <4> QED BY <4>1, <4>2, Zenon
    <3> QED BY <1>4, <3>3, Zenon DEF Counted, Refs
  <2> QED BY <2>8, <2>9, <2>10, Zenon DEF Batches
<1> QED BY <1>6, <1>7, Zenon

LEMMA BatchesAddDone ==
  ASSUME TypeOK, Placed, Batches, NEW t \in Threads, AddDone(t)
  PROVE  Batches'
<1>1. /\ StartAdding(t, local_batch[t]) /\ UNCHANGED <<list, todo>>
      /\ refc' = refc /\ add[t].slot = N + 2
  BY Zenon DEF AddDone
<1>2. \A r \in Entries : ~Adds(t, r)
  BY <1>1, HyalineAssumption DEF Adds
<1>3. local_batch[t] \in Seq(Entries)
  BY ListView, Zenon
<1>4. \A r \in Entries : Range(local_batch[t]) \cap Range(members[r]) = {}
  BY Apart, Zenon
<1>5. \A u \in Threads : local_batch[u] # <<>> => refc'[Refs(local_batch[u])] = REFC_PROTECT
  BY <1>1, Zenon DEF Batches, Counted
<1> QED BY <1>1, <1>2, <1>3, <1>4, <1>5, BatchesStart, Zenon

LEMMA BatchesRetire ==
  ASSUME TypeOK, Placed, Batches, NEW t \in Threads, NEW x \in Entries, Retire(t, x)
  PROVE  Batches'
<1> DEFINE batch == <<x>> \o local_batch[t]
<1>1. /\ x \in linked /\ UNCHANGED <<list, todo>>
      /\ refc' = IF local_batch[t] = <<>> THEN [refc EXCEPT ![x] = REFC_PROTECT] ELSE refc
  BY Zenon DEF Retire
<1>2. local_batch[t] \in Seq(Entries) /\ refc \in [Entries -> Int]
  BY ListView, Zenon DEF TypeOK
<1>3. /\ batch \in Seq(Entries) /\ batch # <<>>
      /\ Refs(batch) = IF local_batch[t] = <<>> THEN x ELSE Refs(local_batch[t])
      /\ Range(batch) = Range(local_batch[t]) \cup {x}
  BY <1>2, SeqPush
<1>4. x \notin retired
  BY <1>1, Zenon DEF Placed
<1>5. \A u \in Threads : local_batch[u] # <<>> =>
        /\ refc[Refs(local_batch[u])] = REFC_PROTECT
        /\ Refs(local_batch[u]) # x /\ Refs(local_batch[u]) \in Entries
  BY <1>4, Apart, RefsApart DEF Batches, Counted
<1>6. \A r \in Entries : members[r] # <<>> => refc'[r] = refc[r]
  BY <1>1, <1>2, <1>4, RefsApart, Zenon
<1>7. \A u \in Threads : local_batch[u] # <<>> => refc'[Refs(local_batch[u])] = REFC_PROTECT
  BY <1>1, <1>2, <1>5, Zenon
<1>8. refc'[Refs(batch)] = REFC_PROTECT
  BY <1>1, <1>2, <1>3, <1>7, Zenon
<1>9. CASE in_progress(t) \/ phase[t] = "drain"
  <2>1. local_batch' = [local_batch EXCEPT ![t] = batch] /\ UNCHANGED <<members, add>>
    BY <1>9, Zenon DEF Retire
  <2>2. local_batch \in [Threads -> Seq(Entries)]
    BY Zenon DEF TypeOK
  <2> HIDE DEF batch
  <2>3. \A u \in Threads : local_batch'[u] = IF u = t THEN batch ELSE local_batch[u]
    BY <2>1, <2>2, Zenon
  <2>4. \A u \in Threads : local_batch'[u] # <<>> => refc'[Refs(local_batch'[u])] = REFC_PROTECT
    BY <1>7, <1>8, <2>3, Zenon
  <2> QED BY <1>1, <1>6, <2>1, <2>4, BatchesCounters, Zenon
<1>10. CASE ~(in_progress(t) \/ phase[t] = "drain")
  <2>1. StartAdding(t, batch)
    BY <1>10, Zenon DEF Retire
  <2>2. \A r \in Entries : ~Adds(t, r)
    BY <1>10, HyalineAssumption, Zenon DEF Adds, in_progress
  <2>3. \A r \in Entries : Range(batch) \cap Range(members[r]) = {}
    BY <1>3, <1>4, Apart
  <2> HIDE DEF batch
  <2> QED BY <1>1, <1>3, <1>6, <1>7, <1>8, <2>1, <2>2, <2>3, BatchesStart, Zenon
<1> QED BY <1>9, <1>10, Zenon

LEMMA BatchesEject ==
  ASSUME TypeOK, Placed, Batches, NEW t \in Threads, Eject(t)
  PROVE  Batches'
<1>1. PICK entry : entry = Head(Left(t))
  BY Zenon
<1>2. /\ Left(t) # <<>> /\ refc' = [refc EXCEPT ![entry] = 0]
      /\ UNCHANGED <<list, todo, members, add, local_batch>>
  BY <1>1, Zenon DEF Eject
<1>3. Left(t) \in Seq(Entries) /\ Left(t) = freeing[t][Frame(t)] /\ Frame(t) \in 1..2
  BY ListView, FrameView
<1>4. entry \in Range(freeing[t][Frame(t)]) /\ entry \in Entries
  BY <1>1, <1>2, <1>3, SeqElements, Zenon
<1>5. \A q \in Entries \ {entry} : refc'[q] = refc[q]
  BY <1>2, Zenon DEF TypeOK
<1>6. \A r \in Entries : members[r] # <<>> => r # entry
  BY <1>3, <1>4, Apart, RefsApart, Zenon
<1>7. \A u \in Threads : local_batch[u] # <<>> =>
        Refs(local_batch[u]) # entry /\ Refs(local_batch[u]) \in Entries
  <2>1. \A u \in Threads : Range(local_batch[u]) \cap Range(freeing[t][Frame(t)]) = {}
    BY <1>3, Apart, Zenon
  <2> QED BY <1>4, <2>1, RefsApart, Zenon
<1>8. \A u \in Threads : local_batch'[u] # <<>> => refc'[Refs(local_batch'[u])] = REFC_PROTECT
  BY <1>2, <1>5, <1>7, Zenon DEF Batches, Counted
<1> QED BY <1>2, <1>5, <1>6, <1>8, BatchesCounters, Zenon

LEMMA BatchesDrain ==
  ASSUME TypeOK, Batches, NEW i \in Threads, DrainBatch(i)
  PROVE  Batches'
<1>1. /\ local_batch' = [local_batch EXCEPT ![i] = <<>>] /\ refc' = refc
      /\ UNCHANGED <<list, todo, members, add>>
  BY Zenon DEF DrainBatch
<1>2. \A u \in Threads : local_batch'[u] # <<>> => refc'[Refs(local_batch'[u])] = REFC_PROTECT
  <2>1. \A u \in Threads : local_batch'[u] = IF u = i THEN <<>> ELSE local_batch[u]
    BY <1>1, Zenon DEF TypeOK
  <2> QED BY <1>1, <2>1, Zenon DEF Batches, Counted
<1> QED BY <1>1, <1>2, BatchesCounters, Zenon

LEMMA NextBatches == IInv /\ [Next]_vars => Batches'
<1> SUFFICES ASSUME TypeOK, Sections, Placed, Batches, [Next]_vars PROVE Batches'
  BY Zenon DEF IInv, Batches
<1> USE DEF batch_vars
<1>1. ASSUME NEW t \in Threads, BeginCriticalSection(t) \/ EndCriticalSection(t) PROVE Batches'
  BY <1>1, BatchesSection, Zenon
<1>2. ASSUME NEW t \in Threads, BeginNested(t) \/ EndNested(t) \/ TraverseDone(t) PROVE Batches'
  BY <1>2, BatchesSame, Zenon DEF BeginNested, EndNested, TraverseDone
<1>3. ASSUME NEW t \in Threads, Traverse(t) PROVE Batches'
  BY <1>3, BatchesTraverse, Zenon
<1>4. ASSUME NEW t \in Threads, AddSlot(t) PROVE Batches'
  BY <1>4, BatchesAddSlot, Zenon
<1>5. ASSUME NEW t \in Threads, AddCount(t) PROVE Batches'
  BY <1>5, BatchesAddCount, Zenon
<1>6. ASSUME NEW t \in Threads, AddDone(t) PROVE Batches'
  BY <1>6, BatchesAddDone, Zenon
<1>7. ASSUME NEW t \in Threads, Eject(t) PROVE Batches'
  BY <1>7, BatchesEject, Zenon
<1>8. ASSUME NEW t \in Threads, NEW x \in Entries, Create(t, x) \/ Acquire(t, x) PROVE Batches'
  BY <1>8, BatchesSame, Zenon DEF Create, Acquire
<1>9. ASSUME NEW t \in Threads, NEW x \in Entries, Retire(t, x) PROVE Batches'
  BY <1>9, BatchesRetire, Zenon
<1>10. ASSUME NEW i \in Threads, DrainBatch(i) PROVE Batches'
  BY <1>10, BatchesDrain, Zenon
<1>11. ASSUME DrainStart \/ DrainDone PROVE Batches'
  BY <1>11, BatchesSame, Zenon DEF DrainStart, DrainDone
<1>12. ASSUME UNCHANGED vars PROVE Batches'
  BY <1>12, BatchesSame, Zenon DEF vars
<1> QED BY <1>1, <1>2, <1>3, <1>4, <1>5, <1>6, <1>7, <1>8, <1>9, <1>10, <1>11, <1>12, Zenon
         DEF Next, ThreadStep, Ended

-----------------------------------------------------------------------------
\* What readers hold, action by action.

\* Who holds something is in a critical section, and its list is open.
LEMMA HolderListed ==
  ASSUME TypeOK, Sections, NEW t \in Threads, held[t] # {}
  PROVE  list[t] # invptr /\ phase[t] # "traverse"
<1>1. guards[t] \in Nat
  BY HyalineAssumption DEF TypeOK
<1> QED BY <1>1 DEF Sections

\* add_batch will come to the list of t with the batch of r.
Comes(r, t) == \E u \in Threads : add[u].refs = r /\ add[u].slot <= t

LEMMA HoldingView ==
  /\ Holding <=> \A t \in Threads : \A x \in held[t] :
                   /\ x \in linked \cup retired
                   /\ \A u \in Threads, k \in 1..2 : x \notin Range(freeing[u][k])
                   /\ \A r \in Entries : x \in Range(members[r]) =>
                        r \in Range(list[t]) \/ Comes(r, t)
  /\ Holding' <=> \A t \in Threads : \A x \in held'[t] :
                   /\ x \in linked' \cup retired'
                   /\ \A u \in Threads, k \in 1..2 : x \notin Range(freeing'[u][k])
                   /\ \A r \in Entries : x \in Range(members'[r]) =>
                        r \in Range(list'[t]) \/ Comes(r, t)'
BY Zenon DEF Holding, Comes

\* A step that leaves lists and batches on their way alone.
LEMMA HoldingKept ==
  ASSUME Holding, UNCHANGED <<list, members, add, held>>,
         \A t \in Threads : \A x \in held[t] : x \in linked' \cup retired',
         \A u \in Threads, k \in 1..2 : Range(freeing'[u][k]) \subseteq Range(freeing[u][k])
  PROVE  Holding'
<1>1. \A r \in Entries, t \in Threads : Comes(r, t)' <=> Comes(r, t)
  BY Zenon DEF Comes
<1>2. ASSUME NEW t \in Threads, NEW x \in held'[t]
      PROVE  /\ x \in linked' \cup retired'
             /\ \A u \in Threads, k \in 1..2 : x \notin Range(freeing'[u][k])
             /\ \A r \in Entries : x \in Range(members'[r]) =>
                  r \in Range(list'[t]) \/ Comes(r, t)'
  <2>1. x \in held[t]
    BY <1>2, Zenon
  <2>2. \A u \in Threads, k \in 1..2 : x \notin Range(freeing[u][k])
    BY <2>1, HoldingView, Zenon
  <2>3. \A r \in Entries : x \in Range(members[r]) => r \in Range(list[t]) \/ Comes(r, t)
    BY <2>1, HoldingView, Zenon
  <2>4. \A u \in Threads, k \in 1..2 : x \notin Range(freeing'[u][k])
    BY <2>2, Zenon
  <2> QED BY <1>1, <2>1, <2>3, <2>4, Zenon
<1> QED BY <1>2, HoldingView, Zenon

\* A counter goes down: when that frees the batch, nobody holds an entry of it.
LEMMA HoldingFetchAdd ==
  ASSUME TypeOK, Holding, NEW t \in Threads, NEW r \in Entries, NEW n \in Int,
         FetchAdd(t, r, n), UNCHANGED <<list, held, linked, retired>>,
         refc[r] = -n => \A u \in Threads : held[u] \cap Range(members[r]) = {},
         \A q \in Entries, u \in Threads : Comes(q, u) => Comes(q, u)'
  PROVE  Holding'
<1>1. /\ \A q \in Entries \ {r} : members'[q] = members[q]
      /\ \A u \in Threads, k \in 1..2 : u # t \/ k # Frame(t) => freeing'[u][k] = freeing[u][k]
      /\ refc[r] # -n => members' = members /\ freeing' = freeing
      /\ refc[r] = -n => members'[r] = <<>> /\ freeing'[t][Frame(t)] = members[r]
  BY Fetched, Zenon
<1>2. ASSUME NEW v \in Threads, NEW x \in held'[v]
      PROVE  /\ x \in linked' \cup retired'
             /\ \A u \in Threads, k \in 1..2 : x \notin Range(freeing'[u][k])
             /\ \A q \in Entries : x \in Range(members'[q]) =>
                  q \in Range(list'[v]) \/ Comes(q, v)'
  <2>1. x \in held[v] /\ x \in linked \cup retired
    BY <1>2, HoldingView, Zenon
  <2>2. \A u \in Threads, k \in 1..2 : x \notin Range(freeing[u][k])
    BY <2>1, HoldingView, Zenon
  <2>3. \A q \in Entries : x \in Range(members[q]) => q \in Range(list[v]) \/ Comes(q, v)
    BY <2>1, HoldingView, Zenon
  <2>4. ASSUME NEW u \in Threads, NEW k \in 1..2 PROVE x \notin Range(freeing'[u][k])
    <3>1. CASE u # t \/ k # Frame(t) \/ refc[r] # -n
      BY <1>1, <2>2, <3>1, Zenon
    <3>2. CASE u = t /\ k = Frame(t) /\ refc[r] = -n
      BY <1>1, <2>1, <3>2, Zenon
    <3> QED BY <3>1, <3>2, Zenon
  <2>5. ASSUME NEW q \in Entries, x \in Range(members'[q])
        PROVE  q \in Range(list'[v]) \/ Comes(q, v)'
    <3>1. members'[q] = members[q]
      BY <1>1, <2>5, EmptyElements, Zenon
    <3> QED BY <2>3, <2>5, <3>1, Zenon
  <2> QED BY <2>1, <2>4, <2>5, Zenon
<1> QED BY <1>2, HoldingView, Zenon

LEMMA HoldingTraverse ==
  ASSUME TypeOK, Sections, Batches, Holding, NEW t \in Threads, Traverse(t)
  PROVE  Holding'
<1>1. PICK h \in Entries : h = Head(todo[t])
  BY Traversed, Zenon
<1>2. FetchAdd(t, h, -1) /\ UNCHANGED <<list, add, held, linked, retired>>
  BY <1>1, Traversed, Zenon DEF Traverse, entry_vars
<1>3. \A q \in Entries, u \in Threads : Comes(q, u) => Comes(q, u)'
  BY <1>2, Zenon DEF Comes
<1>4. ASSUME refc[h] = -(-1), NEW u \in Threads PROVE held[u] \cap Range(members[h]) = {}
  <2>1. Shares(h) = {t} /\ \A v \in Threads : ~Adds(v, h)
    BY <1>1, <1>4, LastShare DEF Batches
  <2>2. held[t] = {}
    BY HolderListed, Zenon DEF Traverse
  <2>3. ASSUME NEW x \in held[u] \cap Range(members[h]) PROVE FALSE
    <3>1. h \in Range(list[u]) \/ Comes(h, u)
      BY HoldingView, Zenon
    <3>2. CASE h \in Range(list[u])
      <4>1. u \in Shares(h)
        BY <3>2, Zenon DEF Shares
      <4> QED BY <2>1, <2>2, <4>1, Zenon
    <3>3. CASE Comes(h, u)
      <4>1. PICK v \in Threads : add[v].refs = h /\ add[v].slot <= u
        BY <3>3, Zenon DEF Comes
      <4>2. add[v].slot \in Nat /\ u \in Nat /\ u <= N
        BY AddView, HyalineAssumption DEF Threads
      <4>3. add[v].slot <= N + 1
        BY <4>1, <4>2, HyalineAssumption
      <4> QED BY <2>1, <4>1, <4>3, Zenon DEF Adds
    <3> QED BY <3>1, <3>2, <3>3, Zenon
  <2> QED BY <2>3, Zenon
<1> QED BY <1>2, <1>3, <1>4, HoldingFetchAdd

LEMMA HoldingAddCount ==
  ASSUME TypeOK, Batches, Holding, NEW t \in Threads, AddCount(t)
  PROVE  Holding'
<1>1. PICK r \in Entries : r = add[t].refs
  BY BatchCounted, Zenon
<1>2. /\ add[t].slot = N + 1 /\ add[t].cnt \in Nat
      /\ FetchAdd(t, r, add[t].cnt - REFC_PROTECT)
      /\ \A u \in Threads \ {t} : add'[u] = add[u]
      /\ UNCHANGED <<list, held, linked, retired>>
  BY <1>1, BatchCounted, Zenon DEF AddCount, entry_vars
<1>3. add[t].cnt - REFC_PROTECT \in Int
  BY <1>2, HyalineAssumption
<1>4. \A u \in Threads : ~(add[t].slot <= u)
  BY <1>2, HyalineAssumption DEF Threads
<1>5. \A q \in Entries, u \in Threads : Comes(q, u) => Comes(q, u)'
  BY <1>2, <1>4, Zenon DEF Comes
<1>6. ASSUME refc[r] = -(add[t].cnt - REFC_PROTECT), NEW u \in Threads
      PROVE  held[u] \cap Range(members[r]) = {}
  <2>1. Adds(t, r) /\ Shares(r) = {}
    BY <1>1, <1>6, NoShare, Zenon DEF Batches
  <2>2. r \notin Range(list[u])
    BY <2>1, Zenon DEF Shares
  <2>3. ~Comes(r, u)
    <3> SUFFICES ASSUME NEW v \in Threads, add[v].refs = r, add[v].slot <= u PROVE FALSE
      BY Zenon DEF Comes
    <3>1. add[v].slot \in Nat /\ u \in Nat /\ u <= N
      BY AddView, HyalineAssumption DEF Threads
    <3>2. Adds(v, r)
      BY <3>1, HyalineAssumption DEF Adds
    <3>3. v = t
      BY <2>1, <3>2, Zenon DEF Batches, Adding
    <3> QED BY <1>4, <3>3, Zenon
  <2> QED BY <2>2, <2>3, HoldingView, Zenon
<1> QED BY <1>2, <1>3, <1>5, <1>6, HoldingFetchAdd, Zenon

LEMMA HoldingAddSlot ==
  ASSUME TypeOK, Sections, Holding, NEW t \in Threads, AddSlot(t)
  PROVE  Holding'
<1>1. PICK i \in Threads, r \in Entries : i = add[t].slot /\ r = add[t].refs
  BY SlotAdded, Zenon
<1>2. /\ \A u \in Threads \ {t} : add'[u] = add[u]
      /\ add'[t].refs = r /\ add'[t].slot = i + 1
      /\ list[i] = invptr => list' = list
      /\ list[i] # invptr => /\ list[i] \in Seq(Entries) /\ list'[i] = <<r>> \o list[i]
                            /\ \A u \in Threads \ {i} : list'[u] = list[u]
  BY <1>1, SlotAdded, Zenon
<1>3. UNCHANGED <<members, freeing, held, linked, retired>>
  BY Zenon DEF AddSlot, entry_vars
<1>4. list[i] # invptr => Range(list'[i]) = Range(list[i]) \cup {r}
  <2> SUFFICES ASSUME list[i] # invptr PROVE Range(list'[i]) = Range(list[i]) \cup {r}
    BY Zenon
  <2>1. list[i] \in Seq(Entries)
    BY <1>2, Zenon
  <2>2. Range(<<r>> \o list[i]) = Range(list[i]) \cup {r}
    BY <2>1, SeqPush
  <2> QED BY <1>2, <2>2, Zenon
<1>5. ASSUME NEW u \in Threads, held[u] # {}, NEW q \in Entries, q \in Range(list[u]) \/ Comes(q, u)
      PROVE  q \in Range(list'[u]) \/ Comes(q, u)'
  <2>1. CASE q \in Range(list[u])
    BY <1>2, <1>4, <2>1, Zenon
  <2>2. CASE Comes(q, u)
    <3>1. PICK v \in Threads : add[v].refs = q /\ add[v].slot <= u
      BY <2>2, Zenon DEF Comes
    <3>2. CASE v # t
      BY <1>2, <3>1, <3>2, Zenon DEF Comes
    <3>3. CASE v = t /\ i = u
      <4>1. list[u] # invptr
        BY <1>5, HolderListed, Zenon
      <4> QED BY <1>1, <1>4, <3>1, <3>3, <4>1, Zenon
    <3>4. CASE v = t /\ i # u
      <4>1. i \in Nat /\ u \in Nat /\ i <= u
        BY <1>1, <3>1, <3>4, HyalineAssumption DEF Threads
      <4>2. add'[t].slot <= u /\ add'[t].refs = q
        BY <1>1, <1>2, <3>1, <3>4, <4>1
      <4> QED BY <4>2, Zenon DEF Comes
    <3> QED BY <3>2, <3>3, <3>4, Zenon
  <2> QED BY <1>5, <2>1, <2>2, Zenon
<1>6. ASSUME NEW u \in Threads, NEW x \in held[u]
      PROVE  /\ x \in linked \cup retired
             /\ \A v \in Threads, k \in 1..2 : x \notin Range(freeing[v][k])
             /\ \A q \in Entries : x \in Range(members[q]) =>
                  q \in Range(list'[u]) \/ Comes(q, u)'
  <2>1. \A q \in Entries : x \in Range(members[q]) => q \in Range(list[u]) \/ Comes(q, u)
    BY HoldingView, Zenon
  <2>2. \A q \in Entries : x \in Range(members[q]) => q \in Range(list'[u]) \/ Comes(q, u)'
    BY <1>5, <2>1, Zenon
  <2> QED BY <2>2, HoldingView, Zenon
<1> QED BY <1>3, <1>6, HoldingView, Zenon

\* A batch starts on its way: add_batch will come to every list.
LEMMA HoldingStart ==
  ASSUME TypeOK, Holding, NEW t \in Threads, NEW batch \in Seq(Entries),
         StartAdding(t, batch), UNCHANGED <<list, held, freeing>>,
         linked' \cup retired' = linked \cup retired,
         \A q \in Entries, u \in Threads : ~(add[t].refs = q /\ add[t].slot <= u)
  PROVE  Holding'
<1>1. /\ \A u \in Threads \ {t} : add'[u] = add[u]
      /\ add'[t].slot = 1
      /\ add'[t].refs = IF Full(batch) THEN Refs(batch) ELSE none
  BY AddingStarts, TypeParts, Zenon
<1>2. /\ Full(batch) => \A r \in Entries \ {Refs(batch)} : members'[r] = members[r]
      /\ ~Full(batch) => members' = members
  BY Started, Zenon
<1>3. \A q \in Entries, u \in Threads : Comes(q, u) => Comes(q, u)'
  BY <1>1, Zenon DEF Comes
<1>4. ASSUME NEW v \in Threads, NEW x \in held[v], NEW q \in Entries, x \in Range(members'[q])
      PROVE  q \in Range(list[v]) \/ Comes(q, v)'
  <2>1. CASE members'[q] = members[q]
    <3>1. q \in Range(list[v]) \/ Comes(q, v)
      BY <1>4, <2>1, HoldingView, Zenon
    <3> QED BY <1>3, <3>1, Zenon
  <2>2. CASE Full(batch) /\ q = Refs(batch)
    <3>1. add'[t].refs = q /\ add'[t].slot <= v
      BY <1>1, <2>2, HyalineAssumption DEF Threads
    <3> QED BY <3>1, Zenon DEF Comes
  <2> QED BY <1>2, <2>1, <2>2, Zenon
<1>5. ASSUME NEW v \in Threads, NEW x \in held[v]
      PROVE  /\ x \in linked \cup retired
             /\ \A u \in Threads, k \in 1..2 : x \notin Range(freeing[u][k])
  BY HoldingView, Zenon
<1> QED BY <1>4, <1>5, HoldingView, Zenon

LEMMA HoldingRetire ==
  ASSUME TypeOK, Holding, NEW t \in Threads, NEW x \in Entries, Retire(t, x)
  PROVE  Holding'
<1> DEFINE batch == <<x>> \o local_batch[t]
<1>1. UNCHANGED <<list, held, freeing>> /\ linked' \cup retired' = linked \cup retired
  BY Zenon DEF Retire
<1>2. batch \in Seq(Entries)
  BY ListView, SeqPush, Zenon
<1>3. CASE in_progress(t) \/ phase[t] = "drain"
  <2>1. UNCHANGED <<members, add>>
    BY <1>3, Zenon DEF Retire
  <2>2. \A u \in Threads : \A y \in held[u] : y \in linked' \cup retired'
    BY <1>1, HoldingView, Zenon
  <2> QED BY <1>1, <2>1, <2>2, HoldingKept, Zenon
<1>4. CASE ~(in_progress(t) \/ phase[t] = "drain")
  <2>1. StartAdding(t, batch)
    BY <1>4, Zenon DEF Retire
  <2>2. \A q \in Entries, u \in Threads : ~(add[t].refs = q /\ add[t].slot <= u)
    BY <1>4, HyalineAssumption, Zenon DEF in_progress
  <2> HIDE DEF batch
  <2> QED BY <1>1, <1>2, <2>1, <2>2, HoldingStart, Zenon
<1> QED BY <1>3, <1>4, Zenon

LEMMA HoldingAddDone ==
  ASSUME TypeOK, Holding, NEW t \in Threads, AddDone(t)
  PROVE  Holding'
<1>1. /\ StartAdding(t, local_batch[t]) /\ UNCHANGED <<list, held, freeing>>
      /\ linked' \cup retired' = linked \cup retired /\ add[t].slot = N + 2
  BY Zenon DEF AddDone, entry_vars
<1>2. \A q \in Entries, u \in Threads : ~(add[t].refs = q /\ add[t].slot <= u)
  BY <1>1, HyalineAssumption DEF Threads
<1>3. local_batch[t] \in Seq(Entries)
  BY ListView, Zenon
<1> QED BY <1>1, <1>2, <1>3, HoldingStart, Zenon

\* What free_batch ejects is retired, and nobody holds it.
LEMMA Ejected ==
  ASSUME TypeOK, Placed, Holding, NEW t \in Threads, Eject(t),
         NEW entry, entry = Head(Left(t))
  PROVE  /\ entry \in Entries /\ entry \in retired
         /\ \A u \in Threads : entry \notin held[u]
         /\ \A u \in Threads, k \in 1..2 : Range(freeing'[u][k]) \subseteq Range(freeing[u][k])
<1>1. /\ Left(t) # <<>> /\ Left(t) = freeing[t][Frame(t)] /\ Frame(t) \in 1..2
      /\ Left(t) \in Seq(Entries)
  BY ListView, FrameView DEF Eject
<1>2. entry \in Range(freeing[t][Frame(t)]) /\ entry \in Entries
  BY <1>1, SeqElements, Zenon
<1>3. entry \in retired
  BY <1>1, <1>2, Apart, Zenon
<1>4. \A u \in Threads : entry \notin held[u]
  BY <1>1, <1>2, HoldingView, Zenon
<1>5. \A u \in Threads, k \in 1..2 : Range(freeing'[u][k]) \subseteq Range(freeing[u][k])
  <2>1. freeing' = [freeing EXCEPT ![t] = [freeing[t] EXCEPT ![Frame(t)] = Tail(freeing[t][Frame(t)])]]
    BY Zenon DEF Eject
  <2>2. freeing \in [Threads -> [1..2 -> Seq(Entries)]]
    BY Zenon DEF TypeOK
  <2>3. \A u \in Threads, k \in 1..2 :
          freeing'[u][k] = IF u = t /\ k = Frame(t) THEN Tail(freeing[t][Frame(t)]) ELSE freeing[u][k]
    BY <1>1, <2>1, <2>2, Zenon
  <2>4. IsInjective(freeing[t][Frame(t)])
    BY <1>1, Zenon DEF Placed, Distinct
  <2>5. Range(Tail(freeing[t][Frame(t)])) \subseteq Range(freeing[t][Frame(t)])
    BY <1>1, <2>4, SeqTail, Zenon
  <2> QED BY <2>3, <2>5, Zenon
<1> QED BY <1>2, <1>3, <1>4, <1>5, Zenon

LEMMA HoldingEject ==
  ASSUME TypeOK, Placed, Holding, NEW t \in Threads, Eject(t)
  PROVE  Holding'
<1>1. PICK entry : entry = Head(Left(t))
  BY Zenon
<1>2. retired' = retired \ {entry} /\ linked' = linked /\ UNCHANGED <<list, members, add, held>>
  BY <1>1, Zenon DEF Eject
<1>3. /\ \A u \in Threads : entry \notin held[u]
      /\ \A u \in Threads, k \in 1..2 : Range(freeing'[u][k]) \subseteq Range(freeing[u][k])
  BY <1>1, Ejected, Zenon
<1>4. \A u \in Threads : \A x \in held[u] : x \in linked \cup retired
  BY HoldingView, Zenon
<1>5. \A u \in Threads : \A x \in held[u] : x \in linked' \cup retired'
  BY <1>2, <1>3, <1>4, Zenon
<1> QED BY <1>2, <1>3, <1>5, HoldingKept, Zenon

LEMMA HoldingSection ==
  ASSUME TypeOK, Sections, Holding, NEW t \in Threads,
         BeginCriticalSection(t) \/ EndCriticalSection(t)
  PROVE  Holding'
<1>1. UNCHANGED <<members, add, freeing, linked, retired>>
  BY Zenon DEF BeginCriticalSection, EndCriticalSection, batch_vars, entry_vars
<1>2. \A r \in Entries, u \in Threads : Comes(r, u)' <=> Comes(r, u)
  BY <1>1, Zenon DEF Comes
<1>3. held'[t] = {} /\ \A u \in Threads \ {t} : held'[u] = held[u] /\ list'[u] = list[u]
  <2>1. list \in [Threads -> Seq(Entries) \cup {invptr}] /\ held \in [Threads -> SUBSET Entries]
    BY Zenon DEF TypeOK
  <2>2. CASE BeginCriticalSection(t)
    BY <2>1, <2>2, Zenon DEF BeginCriticalSection, entry_vars, Sections
  <2>3. CASE EndCriticalSection(t)
    BY <2>1, <2>3, Zenon DEF EndCriticalSection
  <2> QED BY <2>2, <2>3, Zenon
<1>4. ASSUME NEW u \in Threads, NEW x \in held'[u]
      PROVE  /\ x \in linked' \cup retired'
             /\ \A v \in Threads, k \in 1..2 : x \notin Range(freeing'[v][k])
             /\ \A r \in Entries : x \in Range(members'[r]) =>
                  r \in Range(list'[u]) \/ Comes(r, u)'
  <2>1. u # t /\ x \in held[u] /\ list'[u] = list[u]
    BY <1>3, <1>4, Zenon
  <2>2. /\ x \in linked \cup retired
        /\ \A v \in Threads, k \in 1..2 : x \notin Range(freeing[v][k])
        /\ \A r \in Entries : x \in Range(members[r]) => r \in Range(list[u]) \/ Comes(r, u)
    BY <2>1, HoldingView, Zenon
  <2> QED BY <1>1, <1>2, <2>1, <2>2, Zenon
<1> QED BY <1>4, HoldingView, Zenon

\* A reader gets hold of a linked entry, which is in no batch.
LEMMA HoldingAcquire ==
  ASSUME TypeOK, Placed, Holding, NEW t \in Threads, NEW x \in Entries, Acquire(t, x)
  PROVE  Holding'
<1>1. /\ x \in linked /\ held' = [held EXCEPT ![t] = held[t] \cup {x}]
      /\ UNCHANGED <<list, members, add, freeing, linked, retired>>
  BY Zenon DEF Acquire, batch_vars
<1>2. x \notin retired
  BY <1>1, Zenon DEF Placed
<1>3. /\ \A u \in Threads, k \in 1..2 : x \notin Range(freeing[u][k])
      /\ \A r \in Entries : x \notin Range(members[r])
  BY <1>2, Apart, Zenon
<1>4. \A u \in Threads : held'[u] = IF u = t THEN held[t] \cup {x} ELSE held[u]
  BY <1>1, Zenon DEF TypeOK
<1>5. \A r \in Entries, u \in Threads : Comes(r, u)' <=> Comes(r, u)
  BY <1>1, Zenon DEF Comes
<1>6. ASSUME NEW u \in Threads, NEW y \in held'[u]
      PROVE  /\ y \in linked' \cup retired'
             /\ \A v \in Threads, k \in 1..2 : y \notin Range(freeing'[v][k])
             /\ \A r \in Entries : y \in Range(members'[r]) =>
                  r \in Range(list'[u]) \/ Comes(r, u)'
  <2>1. CASE y = x
    BY <1>1, <1>3, <2>1, Zenon
  <2>2. CASE y # x
    <3>1. y \in held[u]
      BY <1>4, <1>6, <2>2, Zenon
    <3>2. /\ y \in linked \cup retired
          /\ \A v \in Threads, k \in 1..2 : y \notin Range(freeing[v][k])
          /\ \A r \in Entries : y \in Range(members[r]) => r \in Range(list[u]) \/ Comes(r, u)
      BY <3>1, HoldingView, Zenon
    <3> QED BY <1>1, <1>5, <3>2, Zenon
  <2> QED BY <2>1, <2>2, Zenon
<1> QED BY <1>6, HoldingView, Zenon

LEMMA NextHolding == IInv /\ [Next]_vars => Holding'
<1> SUFFICES ASSUME TypeOK, Sections, Draining, Placed, Batches, Holding, [Next]_vars
             PROVE  Holding'
  BY Zenon DEF IInv, Batches
<1> USE DEF batch_vars, entry_vars
<1>0. \A t \in Threads : \A x \in held[t] : x \in linked \cup retired
  BY HoldingView, Zenon
<1>1. ASSUME NEW t \in Threads, BeginCriticalSection(t) \/ EndCriticalSection(t) PROVE Holding'
  BY <1>1, HoldingSection, Zenon
<1>2. ASSUME NEW t \in Threads, BeginNested(t) \/ EndNested(t) \/ TraverseDone(t) PROVE Holding'
  BY <1>0, <1>2, HoldingKept, Zenon DEF BeginNested, EndNested, TraverseDone
<1>3. ASSUME NEW t \in Threads, Traverse(t) PROVE Holding'
  BY <1>3, HoldingTraverse, Zenon
<1>4. ASSUME NEW t \in Threads, AddSlot(t) PROVE Holding'
  BY <1>4, HoldingAddSlot, Zenon
<1>5. ASSUME NEW t \in Threads, AddCount(t) PROVE Holding'
  BY <1>5, HoldingAddCount, Zenon
<1>6. ASSUME NEW t \in Threads, AddDone(t) PROVE Holding'
  BY <1>6, HoldingAddDone, Zenon
<1>7. ASSUME NEW t \in Threads, Eject(t) PROVE Holding'
  BY <1>7, HoldingEject, Zenon
<1>8. ASSUME NEW t \in Threads, NEW x \in Entries, Create(t, x) PROVE Holding'
  BY <1>0, <1>8, HoldingKept, Zenon DEF Create
<1>9. ASSUME NEW t \in Threads, NEW x \in Entries, Acquire(t, x) PROVE Holding'
  BY <1>9, HoldingAcquire, Zenon
<1>10. ASSUME NEW t \in Threads, NEW x \in Entries, Retire(t, x) PROVE Holding'
  BY <1>10, HoldingRetire, Zenon
<1>11. ASSUME NEW i \in Threads, DrainBatch(i) PROVE Holding'
  <2>1. \A t \in Threads : held[t] = {}
    BY <1>11, Zenon DEF DrainBatch, Draining, Sections
  <2>2. held' = held
    BY <1>11, Zenon DEF DrainBatch
  <2> QED BY <2>1, <2>2, HoldingView, Zenon
<1>12. ASSUME DrainStart \/ DrainDone PROVE Holding'
  BY <1>0, <1>12, HoldingKept, Zenon DEF DrainStart, DrainDone
<1>13. ASSUME UNCHANGED vars PROVE Holding'
  BY <1>0, <1>13, HoldingKept, Zenon DEF vars
<1> QED BY <1>1, <1>2, <1>3, <1>4, <1>5, <1>6, <1>7, <1>8, <1>9, <1>10, <1>11, <1>12, <1>13, Zenon
         DEF Next, ThreadStep, Ended

-----------------------------------------------------------------------------
\* IInv holds of every reachable state, whatever the numbers of threads and
\* entries, the size of a batch and the nesting of hyaline_guards.
THEOREM Inductive == Spec => []IInv
<1>1. IInv /\ [Next]_vars => IInv'
  BY NextTypes, NextSections, NextDraining, NextPlaced, NextBatches, NextHolding, Zenon DEF IInv, Batches
<1> QED BY InitInv, <1>1, PTL DEF Spec

\* The types of the state of hyaline_tracker and acquire_retire_hyaline: no
\* walk, push or free_batch ever meets a node that is not there, and cnt of
\* add_batch stays within the number of threads.
THEOREM TypeCorrect == Spec => []TypeOK
BY Inductive, PTL DEF IInv

\* The counter of a batch that add_batch and traverse update without a lock is
\* the number of threads that still have the batch, and REFC_PROTECT keeps it up
\* until add_batch has counted them: it is zero only when the batch is freed,
\* which happens once.
THEOREM SharesCounted == Spec => []SharesAreCounted
<1>1. IInv => SharesAreCounted
  <2> SUFFICES ASSUME TypeOK, Adding, Counted, NEW r \in Entries, members[r] # <<>>
               PROVE  LET adders == {t \in Threads : add[t].refs = r /\ add[t].slot <= N + 1}
                          kept == IF adders = {} THEN 0
                                  ELSE REFC_PROTECT - add[CHOOSE t \in adders : TRUE].cnt
                      IN  refc[r] = Cardinality(Shares(r)) + kept /\ refc[r] > 0
    BY Zenon DEF IInv, SharesAreCounted
  <2> DEFINE adders == {t \in Threads : add[t].refs = r /\ add[t].slot <= N + 1}
  <2>1. \A t \in Threads : t \in adders <=> Adds(t, r)
    BY Zenon DEF Adds
  <2>2. Shares(r) \in SUBSET Threads
    BY Zenon DEF Shares
  <2>3. Cardinality(Shares(r)) \in Nat
    BY <2>2, ThreadSets, Zenon
  <2>4. CASE adders = {}
    <3>1. refc[r] = Cardinality(Shares(r)) /\ refc[r] > 0
      BY <2>1, <2>4, Zenon DEF Counted
    <3> QED BY <2>3, <2>4, <3>1
  <2>5. CASE adders # {}
    <3>1. PICK u \in adders : u = CHOOSE t \in adders : TRUE
      BY <2>5, Zenon
    <3>2. u \in Threads /\ Adds(u, r)
      BY <2>1, Zenon
    <3>3. refc[r] = Cardinality(Shares(r)) + REFC_PROTECT - add[u].cnt
      BY <3>2, Zenon DEF Counted
    <3>4. add[u].cnt \in Nat /\ add[u].cnt <= N
      BY <3>2, AddView, Zenon
    <3>5. refc[r] = Cardinality(Shares(r)) + (REFC_PROTECT - add[u].cnt) /\ refc[r] > 0
      BY <2>3, <3>3, <3>4, HyalineAssumption
    <3> QED BY <2>5, <3>1, <3>5, Zenon
  <2> QED BY <2>4, <2>5, Zenon
<1> QED BY Inductive, <1>1, PTL

\* When ~acquire_retire_hyaline returns, nothing that was ever retired is left:
\* not in a local batch, not in a batch on its way, not in a free_batch.
THEOREM DrainComplete == Spec => []DrainLeavesNothing
<1>1. IInv => DrainLeavesNothing
  <2> SUFFICES ASSUME TypeOK, Sections, Draining, Placed, phase[1] = "gone", NEW x \in retired
               PROVE  FALSE
    BY Zenon DEF IInv, DrainLeavesNothing
  <2>1. /\ \A t \in Threads : /\ local_batch[t] = <<>> /\ freeing[t][1] = <<>>
                              /\ ~in_progress(t)
        /\ \A r \in Entries : members[r] = <<>>
    BY Zenon DEF Draining
  <2>2. \A t \in Threads : freeing[t][2] = <<>>
    BY <2>1, Zenon DEF Sections
  <2>3. PICK b \in Boxes : x \in Content(local_batch, members, freeing, b)
    BY Zenon DEF Placed, Partition
  <2>4. Content(local_batch, members, freeing, b) = {}
    <3>1. CASE \E r \in Entries : b = <<r, "batch">>
      BY <2>1, <3>1, EmptyElements DEF Content
    <3>2. CASE \E t \in Threads : b \in {<<t, "local">>, <<t, "outer">>, <<t, "inner">>}
      BY <2>1, <2>2, <3>2, EmptyElements DEF Content
    <3> QED BY <3>1, <3>2, BoxCases, Zenon
  <2> QED BY <2>3, <2>4, Zenon
<1> QED BY Inductive, <1>1, PTL

\* Hyaline implements SafeReclamation: every step links, takes hold of, lets go
\* of, unlinks or ejects an entry as SafeReclamation allows, or changes none of
\* what it talks about.  An entry is ejected by free_batch or the destructor, and
\* no thread holds it then.
THEOREM HyalineImplementsReclamation == Spec => ImplementsReclamation
<1>1. Init => Reclamation!Init
  BY Zenon DEF Init, Reclamation!Init
<1>2. IInv /\ [Next]_vars => [Reclamation!Next]_(Reclamation!vars)
  <2> SUFFICES ASSUME TypeOK, Placed, Holding, [Next]_vars
               PROVE  Reclamation!Next \/ UNCHANGED entry_vars
    BY Zenon DEF IInv, Reclamation!vars, entry_vars
  <2> USE DEF entry_vars
  <2>1. ASSUME NEW t \in Threads,
               \/ BeginCriticalSection(t) \/ BeginNested(t) \/ EndNested(t) \/ Traverse(t)
               \/ TraverseDone(t) \/ AddSlot(t) \/ AddCount(t) \/ AddDone(t) \/ DrainBatch(t)
        PROVE  UNCHANGED entry_vars
    BY <2>1, Zenon DEF BeginCriticalSection, BeginNested, EndNested, Traverse, TraverseDone, AddSlot,
                AddCount, AddDone, DrainBatch
  <2>2. ASSUME NEW t \in Threads, EndCriticalSection(t) PROVE Reclamation!LetGo(t)
    BY <2>2, Zenon DEF EndCriticalSection, Reclamation!LetGo
  <2>3. ASSUME NEW t \in Threads, Eject(t) PROVE \E x \in Entries : Reclamation!Eject(x)
    <3>1. PICK x : x = Head(Left(t))
      BY Zenon
    <3>2. x \in Entries /\ x \in retired /\ \A u \in Threads : x \notin held[u]
      BY <2>3, <3>1, Ejected, Zenon
    <3>3. retired' = retired \ {x} /\ UNCHANGED <<linked, held>>
      BY <2>3, <3>1, Zenon DEF Eject
    <3> QED BY <3>2, <3>3, Zenon DEF Reclamation!Eject
  <2>4. ASSUME NEW t \in Threads, NEW x \in Entries, Create(t, x) PROVE Reclamation!Link(x)
    BY <2>4, Zenon DEF Create, Reclamation!Link
  <2>5. ASSUME NEW t \in Threads, NEW x \in Entries, Acquire(t, x) PROVE Reclamation!Hold(t, x)
    BY <2>5, Zenon DEF Acquire, Reclamation!Hold
  <2>6. ASSUME NEW t \in Threads, NEW x \in Entries, Retire(t, x) PROVE Reclamation!Unlink(x)
    BY <2>6, Zenon DEF Retire, Reclamation!Unlink
  <2>7. ASSUME DrainStart \/ DrainDone PROVE UNCHANGED entry_vars
    BY <2>7, Zenon DEF DrainStart, DrainDone
  <2>8. ASSUME UNCHANGED vars PROVE UNCHANGED entry_vars
    BY <2>8, Zenon DEF vars
  <2> QED BY <2>1, <2>2, <2>3, <2>4, <2>5, <2>6, <2>7, <2>8, Zenon
          DEF Next, ThreadStep, Ended, Reclamation!Next
<1> QED BY Inductive, <1>1, <1>2, PTL DEF Spec, ImplementsReclamation, Reclamation!Spec
=============================================================================
