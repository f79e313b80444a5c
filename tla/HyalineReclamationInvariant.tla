-------------------- MODULE HyalineReclamationInvariant ---------------------
(***************************************************************************)
(* The inductive invariant of Hyaline, and the parts of its proof that are *)
(* about single threads, about the destructor of the manager, about where  *)
(* the retired entries are, and about which threads share the batch they   *)
(* are in.                                                                 *)
(***************************************************************************)
EXTENDS HyalineReclamation, FiniteSetTheorems, SequenceTheorems, TLAPS

\* Where a retired entry can be: in the local batch of a thread, in a batch on
\* its way, or in what one of the two free_batches of a thread has left.
Boxes == Threads \X {"local", "outer", "inner"} \cup Entries \X {"batch"}

\* The entries in a box.
Content(lb, mem, fr, b) ==
  IF b[2] = "local" THEN Range(lb[b[1]])
  ELSE IF b[2] = "batch" THEN Range(mem[b[1]])
  ELSE Range(fr[b[1]][IF b[2] = "outer" THEN 1 ELSE 2])

\* The boxes are disjoint and hold exactly R.
Partition(lb, mem, fr, R) ==
  /\ \A b, c \in Boxes : b # c => Content(lb, mem, fr, b) \cap Content(lb, mem, fr, c) = {}
  /\ \A b \in Boxes : Content(lb, mem, fr, b) \subseteq R
  /\ \A x \in R : \E b \in Boxes : x \in Content(lb, mem, fr, b)

\* Critical sections, lists and calls agree.
Sections ==
  \A t \in Threads :
    /\ guards[t] = 0 \/ phase[t] = "traverse" => list[t] = invptr /\ held[t] = {}
    /\ guards[t] > 0 /\ phase[t] # "traverse" => list[t] # invptr
    /\ todo[t] # <<>> => phase[t] = "traverse"
    /\ destructing[t] => in_progress(t) \/ phase[t] \in {"traverse", "drain"}
    /\ freeing[t][1] # <<>> => phase[t] \in {"traverse", "drain"}
    /\ freeing[t][2] # <<>> => in_progress(t) /\ add[t].slot = N + 2

\* The destructor of the manager runs when the threads are done, and no batch
\* is on its way then.
Draining ==
  /\ \A t \in Threads : phase[t] = "drain" => t = 1
  /\ \A t \in Threads : phase[t] = "gone" => phase[1] \in {"drain", "gone"}
  /\ phase[1] \in {"drain", "gone"} =>
       /\ \A t \in Threads : /\ ~in_progress(t) /\ guards[t] = 0
                             /\ t # 1 => phase[t] = "gone"
       /\ \A r \in Entries : members[r] = <<>>
  /\ phase[1] = "gone" => \A t \in Threads : local_batch[t] = <<>> /\ freeing[t][1] = <<>>

\* No batch has an entry twice, and a batch on its way has its REFS node.
Distinct(lb, mem, fr) ==
  /\ \A t \in Threads : IsInjective(lb[t]) /\ \A k \in 1..2 : IsInjective(fr[t][k])
  /\ \A r \in Entries : IsInjective(mem[r]) /\ (mem[r] # <<>> => r \in Range(mem[r]))

\* Every retired entry is in one place.
Placed ==
  /\ Partition(local_batch, members, freeing, retired)
  /\ Distinct(local_batch, members, freeing)
  /\ linked \cap retired = {}

\* A list has a batch at most once, and while the batch is on its way.
Listed ==
  /\ \A t \in Threads : IsInjective(list[t]) /\ IsInjective(todo[t])
  /\ \A r \in Entries : members[r] = <<>> => Shares(r) = {}

\* The thread u has not yet counted the batch of r.
Adds(u, r) == add[u].refs = r /\ add[u].slot <= N + 1

\* A batch that is added is on its way, by one thread, and on no list that
\* add_batch has not come to.
Adding ==
  \A u \in Threads, r \in Entries : Adds(u, r) =>
    /\ members[r] # <<>>
    /\ add[u].cnt < add[u].slot
    /\ \A t \in Shares(r) : t < add[u].slot
    /\ \A v \in Threads : Adds(v, r) => v = u

\* The counter of a batch counts its shares.
Counted ==
  /\ \A t \in Threads : local_batch[t] # <<>> => refc[Refs(local_batch[t])] = REFC_PROTECT
  /\ \A r \in Entries : members[r] # <<>> =>
       /\ \A u \in Threads : Adds(u, r) =>
            refc[r] = Cardinality(Shares(r)) + REFC_PROTECT - add[u].cnt
       /\ (\A u \in Threads : ~Adds(u, r)) => refc[r] = Cardinality(Shares(r)) /\ refc[r] > 0

\* An entry that a thread holds is not in a batch that is being freed; a batch
\* that has it is on the thread's list, or add_batch will come to the list.
Holding ==
  \A t \in Threads : \A x \in held[t] :
    /\ x \in linked \cup retired
    /\ \A u \in Threads, k \in 1..2 : x \notin Range(freeing[u][k])
    /\ \A r \in Entries : x \in Range(members[r]) =>
         r \in Range(list[t]) \/ \E u \in Threads : add[u].refs = r /\ add[u].slot <= t

IInv == TypeOK /\ Sections /\ Draining /\ Placed /\ Listed /\ Adding /\ Counted /\ Holding

-----------------------------------------------------------------------------
\* Sequences, as batches and lists use them.

\* The elements of a sequence, and when it has none twice, by position.
LEMMA SeqView ==
  ASSUME NEW S, NEW s \in Seq(S)
  PROVE  /\ Len(s) \in Nat
         /\ \A x : x \in Range(s) <=> \E i \in 1..Len(s) : s[i] = x
         /\ IsInjective(s) <=> \A i, j \in 1..Len(s) : s[i] = s[j] => i = j
         /\ \A i \in 1..Len(s) : s[i] \in S
BY LenProperties, ElementOfSeq DEF Range, IsInjective

LEMMA EmptyElements == Range(<<>>) = {} /\ IsInjective(<<>>)
BY DEF Range, IsInjective

\* A sequence has elements unless it is empty.
LEMMA SeqElements ==
  ASSUME NEW S, NEW s \in Seq(S)
  PROVE  /\ Range(s) \subseteq S
         /\ s = <<>> <=> Range(s) = {}
         /\ s # <<>> => Head(s) \in Range(s) /\ Refs(s) \in Range(s)
<1>1. Range(<<>>) = {}
  BY EmptyElements, Zenon
<1>2. s # <<>> => Head(s) \in Range(s) /\ Refs(s) \in Range(s)
  <2> SUFFICES ASSUME s # <<>> PROVE Head(s) \in Range(s) /\ Refs(s) \in Range(s)
    BY Zenon
  <2>1. Len(s) \in Nat \ {0}
    BY EmptySeq, Zenon
  <2>2. Head(s) = s[1] /\ 1 \in 1..Len(s) /\ Refs(s) = s[Len(s)] /\ Len(s) \in 1..Len(s)
    BY <2>1 DEF Refs
  <2> QED BY <2>2, SeqView, Zenon
<1> QED BY <1>1, <1>2, SeqView

\* add_batch pushes a batch onto a list, and retire an entry onto a batch.
LEMMA SeqPush ==
  ASSUME NEW S, NEW s \in Seq(S), NEW x \in S
  PROVE  /\ <<x>> \o s \in Seq(S) /\ <<x>> \o s # <<>>
         /\ Refs(<<x>> \o s) = IF s = <<>> THEN x ELSE Refs(s)
         /\ Range(<<x>> \o s) = Range(s) \cup {x}
         /\ IsInjective(s) /\ x \notin Range(s) => IsInjective(<<x>> \o s)
<1> DEFINE a == <<x>> \o s
<1>0. <<x>> \in Seq(S) /\ Len(<<x>>) = 1 /\ <<x>>[1] = x /\ Len(s) \in Nat
  BY SeqView
<1>1. /\ a \in Seq(S) /\ Len(a) = Len(s) + 1
      /\ a[1] = x
      /\ \A i \in 1..Len(s) : a[i + 1] = s[i]
  <2>1. /\ a \in Seq(S) /\ Len(a) = 1 + Len(s)
        /\ \A i \in 1..(1 + Len(s)) : a[i] = IF i <= 1 THEN <<x>>[i] ELSE s[i - 1]
    BY <1>0, ConcatProperties, Zenon
  <2> HIDE DEF a
  <2>2. a[1] = x
    BY <1>0, <2>1
  <2>3. ASSUME NEW i \in 1..Len(s) PROVE a[i + 1] = s[i]
    <3>1. i + 1 \in 1..(1 + Len(s)) /\ ~(i + 1 <= 1) /\ (i + 1) - 1 = i
      BY <1>0
    <3> QED BY <2>1, <3>1, Zenon
  <2> QED BY <1>0, <2>1, <2>2, <2>3
<1> HIDE DEF a
<1>2. \A k \in 1..Len(a) : k = 1 \/ \E i \in 1..Len(s) : k = i + 1
  <2> SUFFICES ASSUME NEW k \in 1..Len(a), k # 1 PROVE \E i \in 1..Len(s) : k = i + 1
    BY Zenon
  <2>1. k - 1 \in 1..Len(s) /\ k = (k - 1) + 1
    BY <1>0, <1>1
  <2> QED BY <2>1, Zenon
<1>3. \A i \in 1..Len(s) : i + 1 \in 1..Len(a)
  BY <1>0, <1>1
<1>4. 1 \in 1..Len(a)
  BY <1>0, <1>1
<1>5. Range(a) = Range(s) \cup {x}
  <2>1. ASSUME NEW y \in Range(a) PROVE y \in Range(s) \cup {x}
    <3>1. PICK k \in 1..Len(a) : a[k] = y
      BY <1>1, SeqView
    <3>2. CASE k = 1
      BY <1>1, <3>1, <3>2, Zenon
    <3>3. ASSUME NEW i \in 1..Len(s), k = i + 1 PROVE y \in Range(s)
      <4>1. s[i] = y
        BY <1>1, <3>1, <3>3, Zenon
      <4> QED BY <4>1, SeqView, Zenon
    <3> QED BY <1>2, <3>2, <3>3, Zenon
  <2>2. ASSUME NEW y \in Range(s) PROVE y \in Range(a)
    <3>1. PICK i \in 1..Len(s) : s[i] = y
      BY SeqView, Zenon
    <3> QED BY <1>1, <1>3, <3>1, SeqView, Zenon
  <2>3. x \in Range(a)
    BY <1>1, <1>4, SeqView, Zenon
  <2> QED BY <2>1, <2>2, <2>3, Zenon
<1>6. ASSUME IsInjective(s), x \notin Range(s) PROVE IsInjective(a)
  <2> SUFFICES ASSUME NEW i \in 1..Len(a), NEW j \in 1..Len(a), a[i] = a[j] PROVE i = j
    BY <1>1, SeqView, Zenon
  <2>1. \A k \in 1..Len(s) : a[k + 1] = s[k] /\ s[k] # x
    BY <1>1, <1>6, SeqView, Zenon
  <2>2. \A k, l \in 1..Len(s) : s[k] = s[l] => k = l
    BY <1>6, SeqView, Zenon
  <2>3. CASE i = 1
    BY <1>1, <1>2, <2>1, <2>3
  <2>4. CASE j = 1
    BY <1>1, <1>2, <2>1, <2>4
  <2>5. CASE i # 1 /\ j # 1
    <3>1. PICK k \in 1..Len(s), l \in 1..Len(s) : i = k + 1 /\ j = l + 1
      BY <1>2, <2>5, Zenon
    <3>2. s[k] = s[l]
      BY <2>1, <3>1, Zenon
    <3> QED BY <2>2, <3>1, <3>2, Zenon
  <2> QED BY <2>3, <2>4, <2>5, Zenon
<1>7. Refs(a) = IF s = <<>> THEN x ELSE Refs(s)
  <2>1. CASE s = <<>>
    BY <1>1, <2>1 DEF Refs
  <2>2. CASE s # <<>>
    <3>1. Len(s) \in 1..Len(s)
      BY <1>0, <2>2, EmptySeq
    <3> QED BY <1>1, <2>2, <3>1, Zenon DEF Refs
  <2> QED BY <2>1, <2>2, Zenon
<1>8. a # <<>>
  BY <1>0, <1>1
<1> QED BY <1>1, <1>5, <1>6, <1>7, <1>8, Zenon DEF a

\* traverse and free_batch take off the first element.
LEMMA SeqTail ==
  ASSUME NEW S, NEW s \in Seq(S), s # <<>>, IsInjective(s)
  PROVE  /\ Tail(s) \in Seq(S)
         /\ Range(Tail(s)) = Range(s) \ {Head(s)}
         /\ IsInjective(Tail(s))
<1> DEFINE a == Tail(s)
<1>1. /\ a \in Seq(S) /\ Len(a) = Len(s) - 1
      /\ \A i \in 1..Len(a) : a[i] = s[i + 1]
      /\ Len(s) \in Nat \ {0} /\ Head(s) = s[1]
  BY HeadTailProperties, EmptySeq
<1> HIDE DEF a
<1>2. \A i \in 1..Len(a) : i + 1 \in 1..Len(s) /\ i + 1 # 1
  BY <1>1
<1>3. 1 \in 1..Len(s)
  BY <1>1
<1>4. \A i, j \in 1..Len(s) : s[i] = s[j] => i = j
  BY SeqView, Zenon
<1>5. Range(a) = Range(s) \ {Head(s)}
  <2>1. ASSUME NEW y \in Range(a) PROVE y \in Range(s) /\ y # Head(s)
    <3>1. PICK i \in 1..Len(a) : a[i] = y
      BY <1>1, SeqView
    <3> QED BY <1>1, <1>2, <1>3, <1>4, <3>1, SeqView
  <2>2. ASSUME NEW y \in Range(s), y # Head(s) PROVE y \in Range(a)
    <3>1. PICK k \in 1..Len(s) : s[k] = y
      BY SeqView, Zenon
    <3>2. k - 1 \in 1..Len(a) /\ (k - 1) + 1 = k
      BY <1>1, <2>2, <3>1
    <3>3. a[k - 1] = y
      BY <1>1, <3>1, <3>2, Zenon
    <3> QED BY <1>1, <3>2, <3>3, SeqView
  <2> QED BY <2>1, <2>2, Zenon
<1>6. IsInjective(a)
  <2> SUFFICES ASSUME NEW i \in 1..Len(a), NEW j \in 1..Len(a), a[i] = a[j] PROVE i = j
    BY <1>1, SeqView, Zenon
  <2>1. i + 1 = j + 1
    BY <1>1, <1>2, <1>4
  <2> QED BY <2>1
<1> QED BY <1>1, <1>5, <1>6, Zenon DEF a

-----------------------------------------------------------------------------
\* The marker invptr is not a list of batches, and no batch is on it.
LEMMA InvPtr ==
  /\ Range(invptr) \cap Entries = {} /\ IsInjective(invptr) /\ invptr # <<>>
  /\ \A s \in Seq(Entries) : s # invptr
<1>1. invptr \in Seq({none}) /\ Len(invptr) = 1 /\ invptr[1] = none
  BY DEF invptr
<1>2. Range(invptr) = {none} /\ IsInjective(invptr)
  BY <1>1, SeqView
<1>3. none \notin Entries
  BY HyalineAssumption, Zenon
<1>4. \A s \in Seq(Entries) : Range(s) \subseteq Entries
  BY SeqElements, Zenon
<1>5. invptr # <<>>
  BY Zenon DEF invptr
<1> QED BY <1>2, <1>3, <1>4, <1>5, Zenon

\* The list of a thread, marker or not.
LEMMA ListView ==
  ASSUME TypeOK, NEW t \in Threads
  PROVE  /\ list[t] # invptr => list[t] \in Seq(Entries)
         /\ todo[t] \in Seq(Entries) /\ local_batch[t] \in Seq(Entries)
         /\ \A k \in 1..2 : freeing[t][k] \in Seq(Entries)
BY Zenon DEF TypeOK

\* A thread is in free_batch called by traverse or by add_batch.
LEMMA FrameView ==
  ASSUME NEW t
  PROVE  /\ Frame(t) \in 1..2
         /\ in_progress(t) => Frame(t) = 2
         /\ ~in_progress(t) => Frame(t) = 1
         /\ Left(t) = freeing[t][Frame(t)]
BY DEF Frame, Left

-----------------------------------------------------------------------------
\* Types.

\* The types of the sequences, and of what the steps of a thread count.
ListTypes ==
  /\ list \in [Threads -> Seq(Entries) \cup {invptr}]
  /\ local_batch \in [Threads -> Seq(Entries)]
  /\ members \in [Entries -> Seq(Entries)]
  /\ todo \in [Threads -> Seq(Entries)]
  /\ freeing \in [Threads -> [1..2 -> Seq(Entries)]]

PlainTypes ==
  /\ guards \in [Threads -> 0..MaxGuards]
  /\ refc \in [Entries -> Int]
  /\ phase \in [Threads -> {"off", "traverse", "drain", "gone"}]
  /\ destructing \in [Threads -> BOOLEAN]
  /\ linked \subseteq Entries /\ retired \subseteq Entries
  /\ held \in [Threads -> SUBSET Entries]

AddTypes == add \in [Threads -> Additions]

LEMMA TypeParts ==
  /\ TypeOK <=> ListTypes /\ PlainTypes /\ AddTypes
  /\ TypeOK' <=> ListTypes' /\ PlainTypes' /\ AddTypes'
BY Zenon DEF TypeOK, ListTypes, PlainTypes, AddTypes

\* What add_batch counts, and a step of it.
LEMMA AddView ==
  ASSUME TypeOK, NEW t \in Threads
  PROVE  /\ add[t] \in Additions
         /\ add[t].refs \in Entries \cup {none}
         /\ add[t].slot \in Nat /\ 1 <= add[t].slot /\ add[t].slot <= N + 2
         /\ add[t].cnt \in Nat /\ add[t].cnt <= N
         /\ in_progress(t) => add[t].refs \in Entries
<1>0. N \in Nat
  BY HyalineAssumption, Zenon
<1>1. add[t] \in Additions
  BY Zenon DEF TypeOK
<1> QED BY <1>0, <1>1 DEF Additions, in_progress

LEMMA AddStep ==
  ASSUME NEW a \in Additions, NEW i \in 1..(N + 2), NEW c \in 0..N
  PROVE  /\ [a EXCEPT !.slot = i] \in Additions
         /\ [a EXCEPT !.slot = i, !.cnt = c] \in Additions
BY Zenon DEF Additions

LEMMA InitInv == Init => IInv
<1> SUFFICES ASSUME Init PROVE IInv
  BY Zenon
<1> USE HyalineAssumption DEF Init
<1>1. TypeOK
  BY InvPtr DEF TypeOK, NoAdd, Additions, Threads
<1>2. Sections
  BY DEF Sections, in_progress, NoAdd
<1>3. 1 \in Threads
  BY DEF Threads
<1>4. Draining
  BY <1>3, Zenon DEF Draining
<1>5. \A t \in Threads : Range(list[t]) \cap Entries = {} /\ Range(todo[t]) = {}
  BY InvPtr, EmptyElements, Zenon
<1>6. \A r \in Entries : Shares(r) = {}
  BY <1>5, Zenon DEF Shares
<1>7. Listed
  BY <1>6, InvPtr, EmptyElements, Zenon DEF Listed
<1>8. \A u \in Threads, r \in Entries : ~Adds(u, r)
  BY Zenon DEF Adds, NoAdd
<1>9. Adding /\ Counted /\ Holding
  BY <1>8, Zenon DEF Adding, Counted, Holding
<1>10. Placed
  <2>1. \A b \in Boxes : Content(local_batch, members, freeing, b) = {}
    <3> SUFFICES ASSUME NEW b \in Boxes PROVE Content(local_batch, members, freeing, b) = {}
      BY Zenon
    <3>1. CASE b \in Threads \X {"local", "outer", "inner"}
      BY <3>1, EmptyElements DEF Content
    <3>2. CASE b \in Entries \X {"batch"}
      BY <3>2, EmptyElements, Zenon DEF Content
    <3> QED BY <3>1, <3>2, Zenon DEF Boxes
  <2>2. Partition(local_batch, members, freeing, retired)
    BY <2>1, Zenon DEF Partition
  <2> QED BY <2>2, EmptyElements, Zenon DEF Placed, Distinct
<1> QED BY <1>1, <1>2, <1>4, <1>7, <1>9, <1>10, Zenon DEF IInv

\* What fetch_add does to the types.
LEMMA TypesFetchAdd ==
  ASSUME TypeOK, NEW t \in Threads, NEW r \in Entries, NEW n \in Int, FetchAdd(t, r, n)
  PROVE  /\ members' \in [Entries -> Seq(Entries)]
         /\ refc' \in [Entries -> Int]
         /\ freeing' \in [Threads -> [1..2 -> Seq(Entries)]]
<1>1. members[r] \in Seq(Entries) /\ <<>> \in Seq(Entries) /\ Frame(t) \in 1..2
  BY FrameView DEF TypeOK
<1>2. refc' \in [Entries -> Int]
  BY SMTT(30) DEF FetchAdd, TypeOK
<1>3. members' \in [Entries -> Seq(Entries)]
  BY <1>1, ZenonT(60) DEF FetchAdd, TypeOK
<1>4. freeing' \in [Threads -> [1..2 -> Seq(Entries)]]
  <2>1. \/ freeing' = freeing
        \/ freeing' = [freeing EXCEPT ![t] = [freeing[t] EXCEPT ![Frame(t)] = members[r]]]
    BY Zenon DEF FetchAdd
  <2>2. freeing \in [Threads -> [1..2 -> Seq(Entries)]]
    BY Zenon DEF TypeOK
  <2>3. [freeing[t] EXCEPT ![Frame(t)] = members[r]] \in [1..2 -> Seq(Entries)]
    BY <1>1, <2>2, Zenon
  <2> QED BY <2>1, <2>2, <2>3, Zenon
<1> QED BY <1>2, <1>3, <1>4, Zenon

\* What the head of the loop of retire does to the types.
LEMMA TypesStartAdding ==
  ASSUME TypeOK, NEW t \in Threads, NEW batch \in Seq(Entries), StartAdding(t, batch)
  PROVE  /\ local_batch' \in [Threads -> Seq(Entries)]
         /\ members' \in [Entries -> Seq(Entries)]
         /\ add' \in [Threads -> Additions]
<1>1. NoAdd \in Additions /\ \A h \in Entries : [NoAdd EXCEPT !.refs = h] \in Additions
  BY HyalineAssumption DEF NoAdd, Additions
<1>2. CASE Full(batch)
  <2>1. Len(batch) # 0
    <3>1. batch_size * N \in Nat
      BY HyalineAssumption
    <3>2. Len(batch) \in Nat /\ Len(batch) > batch_size * N
      BY <1>2, SeqView, Zenon DEF Full
    <3> QED BY <3>1, <3>2
  <2>2. Refs(batch) \in Entries
    BY <2>1, EmptySeq, SeqElements, Zenon
  <2>3. ListTypes /\ AddTypes
    BY TypeParts, Zenon
  <2>4. /\ local_batch' = [local_batch EXCEPT ![t] = <<>>]
        /\ members' = [members EXCEPT ![Refs(batch)] = batch]
        /\ \E a \in Additions : add' = [add EXCEPT ![t] = a]
    BY <1>1, <1>2, <2>2, Zenon DEF StartAdding
  <2> QED BY <2>2, <2>3, <2>4 DEF ListTypes, AddTypes
<1>3. CASE ~Full(batch)
  <2>1. ListTypes /\ AddTypes
    BY TypeParts, Zenon
  <2> QED BY <1>1, <1>3, <2>1, Zenon DEF StartAdding, ListTypes, AddTypes
<1> QED BY <1>2, <1>3, Zenon

LEMMA NextTypes == IInv /\ [Next]_vars => TypeOK'
<1> SUFFICES ASSUME TypeOK, Sections, Adding, [Next]_vars PROVE TypeOK'
  BY Zenon DEF IInv
<1> USE HyalineAssumption DEF entry_vars, batch_vars
<1>0. ListTypes /\ PlainTypes /\ AddTypes
  BY TypeParts, Zenon
<1>1. CASE UNCHANGED vars
  BY <1>1, Zenon DEF TypeOK, vars
<1>2. ASSUME NEW t \in Threads, BeginCriticalSection(t) PROVE TypeOK'
  BY <1>2 DEF BeginCriticalSection, TypeOK
<1>3. ASSUME NEW t \in Threads, BeginNested(t) \/ EndNested(t) \/ TraverseDone(t) PROVE TypeOK'
  <2>1. ListTypes' /\ AddTypes'
    BY <1>0, <1>3, Zenon DEF BeginNested, EndNested, TraverseDone, ListTypes, AddTypes
  <2>2. guards' \in [Threads -> 0..MaxGuards]
    <3>1. guards \in [Threads -> 0..MaxGuards] /\ guards[t] \in 0..MaxGuards
      BY <1>0, Zenon DEF PlainTypes
    <3>2. CASE BeginNested(t)
      <4>1. guards[t] + 1 \in 0..MaxGuards /\ guards' = [guards EXCEPT ![t] = guards[t] + 1]
        BY <3>1, <3>2 DEF BeginNested
      <4> QED BY <3>1, <4>1, Zenon
    <3>3. CASE EndNested(t)
      <4>1. guards[t] - 1 \in 0..MaxGuards /\ guards' = [guards EXCEPT ![t] = guards[t] - 1]
        BY <3>1, <3>3 DEF EndNested
      <4> QED BY <3>1, <4>1, Zenon
    <3>4. CASE TraverseDone(t)
      <4>1. 0 \in 0..MaxGuards /\ guards' = [guards EXCEPT ![t] = 0]
        BY <3>4 DEF TraverseDone
      <4> QED BY <3>1, <4>1, Zenon
    <3> QED BY <1>3, <3>2, <3>3, <3>4, Zenon
  <2>3. PlainTypes'
    BY <1>0, <1>3, <2>2, Zenon DEF BeginNested, EndNested, TraverseDone, PlainTypes
  <2> QED BY <2>1, <2>3, TypeParts, Zenon
<1>5. ASSUME NEW t \in Threads, EndCriticalSection(t) PROVE TypeOK'
  <2>1. list[t] \in Seq(Entries)
    BY <1>5, ListView DEF EndCriticalSection, CanCall, Sections
  <2> QED BY <1>5, <2>1, Zenon DEF EndCriticalSection, TypeOK
<1>6. ASSUME NEW t \in Threads, Traverse(t) PROVE TypeOK'
  <2>1. Head(todo[t]) \in Entries /\ Tail(todo[t]) \in Seq(Entries)
    BY <1>6, HeadTailProperties, Zenon DEF Traverse, TypeOK
  <2>2. FetchAdd(t, Head(todo[t]), -1) /\ -1 \in Int
    BY <1>6 DEF Traverse
  <2>3. /\ members' \in [Entries -> Seq(Entries)]
        /\ refc' \in [Entries -> Int]
        /\ freeing' \in [Threads -> [1..2 -> Seq(Entries)]]
    BY <2>1, <2>2, TypesFetchAdd, Zenon
  <2> QED BY <1>6, <2>1, <2>3, Zenon DEF Traverse, TypeOK
<1>8. ASSUME NEW t \in Threads, AddSlot(t) PROVE TypeOK'
  <2> DEFINE i == add[t].slot
  <2> DEFINE r == add[t].refs
  <2>1. i \in Threads /\ r \in Entries /\ in_progress(t) /\ add[t].cnt \in 0..N
    BY <1>8, AddView DEF AddSlot, Threads
  <2>2. add[t].cnt < i
    <3>1. i <= N + 1
      BY <2>1 DEF Threads
    <3> QED BY <2>1, <3>1, Zenon DEF Adding, Adds
  <2>3. i + 1 \in 1..(N + 2) /\ add[t].cnt + 1 \in 0..N
    BY <2>1, <2>2 DEF Threads
  <2>4. list[i] # invptr => <<r>> \o list[i] \in Seq(Entries)
    BY <2>1, SeqPush, ListView, Zenon
  <2>5. list' \in [Threads -> Seq(Entries) \cup {invptr}]
    BY <1>8, <2>1, <2>4, Zenon DEF AddSlot, TypeOK
  <2>6. \/ add' = [add EXCEPT ![t] = [add[t] EXCEPT !.slot = i + 1]]
        \/ add' = [add EXCEPT ![t] = [add[t] EXCEPT !.slot = i + 1, !.cnt = add[t].cnt + 1]]
    BY <1>8, Zenon DEF AddSlot
  <2>7. AddTypes'
    <3>1. /\ [add[t] EXCEPT !.slot = i + 1] \in Additions
          /\ [add[t] EXCEPT !.slot = i + 1, !.cnt = add[t].cnt + 1] \in Additions
      BY <2>3, AddView, AddStep, Zenon
    <3> QED BY <1>0, <2>6, <3>1, Zenon DEF AddTypes
  <2>8. ListTypes'
    BY <1>0, <1>8, <2>5, Zenon DEF AddSlot, ListTypes
  <2>9. PlainTypes'
    BY <1>0, <1>8, Zenon DEF AddSlot, PlainTypes
  <2> QED BY <2>7, <2>8, <2>9, TypeParts, Zenon
<1>9. ASSUME NEW t \in Threads, AddCount(t) PROVE TypeOK'
  <2>1. add[t].refs \in Entries /\ add[t].cnt - REFC_PROTECT \in Int
    BY <1>9, AddView DEF AddCount
  <2>2. /\ members' \in [Entries -> Seq(Entries)]
        /\ refc' \in [Entries -> Int]
        /\ freeing' \in [Threads -> [1..2 -> Seq(Entries)]]
    BY <1>9, <2>1, TypesFetchAdd, Zenon DEF AddCount
  <2>3. add' = [add EXCEPT ![t] = [add[t] EXCEPT !.slot = N + 2]]
    BY <1>9, Zenon DEF AddCount
  <2>4. N + 2 \in 1..(N + 2) /\ 0 \in 0..N
    OBVIOUS
  <2>5. AddTypes'
    <3>1. [add[t] EXCEPT !.slot = N + 2] \in Additions
      BY <2>4, AddView, AddStep, Zenon
    <3> QED BY <1>0, <2>3, <3>1, Zenon DEF AddTypes
  <2> QED BY <1>9, <2>2, <2>5, Zenon DEF AddCount, TypeOK, AddTypes
<1>10. ASSUME NEW t \in Threads, AddDone(t) PROVE TypeOK'
  <2>1. /\ local_batch' \in [Threads -> Seq(Entries)]
        /\ members' \in [Entries -> Seq(Entries)]
        /\ add' \in [Threads -> Additions]
    BY <1>10, ListView, TypesStartAdding, Zenon DEF AddDone
  <2> QED BY <1>10, <2>1, Zenon DEF AddDone, TypeOK
<1>11. ASSUME NEW t \in Threads, Eject(t) PROVE TypeOK'
  <2>1. Left(t) \in Seq(Entries) /\ Left(t) # <<>> /\ Frame(t) \in 1..2
    BY <1>11, FrameView, ListView DEF Eject
  <2>2. Head(Left(t)) \in Entries /\ Tail(Left(t)) \in Seq(Entries)
    BY <2>1, HeadTailProperties, Zenon
  <2>3. freeing' = [freeing EXCEPT ![t] = [freeing[t] EXCEPT ![Frame(t)] = Tail(Left(t))]]
    BY <1>11, FrameView, Zenon DEF Eject
  <2>4. ListTypes'
    <3>1. freeing' \in [Threads -> [1..2 -> Seq(Entries)]]
      <4> HIDE HyalineAssumption
      <4>1. freeing \in [Threads -> [1..2 -> Seq(Entries)]]
        BY <1>0, Zenon DEF ListTypes
      <4> QED BY <2>1, <2>2, <2>3, <4>1, Zenon
    <3> QED BY <1>0, <1>11, <3>1, Zenon DEF Eject, ListTypes
  <2>5. PlainTypes' /\ AddTypes'
    BY <1>0, <1>11, <2>2 DEF Eject, PlainTypes, AddTypes
  <2> QED BY <2>4, <2>5, TypeParts, Zenon
<1>12. ASSUME NEW t \in Threads, NEW x \in Entries, Create(t, x) PROVE TypeOK'
  BY <1>12, Zenon DEF Create, TypeOK
<1>13. ASSUME NEW t \in Threads, NEW x \in Entries, Acquire(t, x) PROVE TypeOK'
  BY <1>13, Zenon DEF Acquire, TypeOK
<1>14. ASSUME NEW t \in Threads, NEW x \in Entries, Retire(t, x) PROVE TypeOK'
  <2> DEFINE batch == <<x>> \o local_batch[t]
  <2>1. batch \in Seq(Entries)
    BY ListView, SeqPush, Zenon
  <2>2. /\ local_batch' \in [Threads -> Seq(Entries)]
        /\ members' \in [Entries -> Seq(Entries)]
        /\ add' \in [Threads -> Additions]
    <3>1. CASE in_progress(t) \/ phase[t] = "drain"
      <4>1. local_batch' = [local_batch EXCEPT ![t] = batch] /\ UNCHANGED <<members, add>>
        BY <1>14, <3>1, Zenon DEF Retire
      <4> HIDE DEF batch
      <4> QED BY <1>0, <2>1, <4>1, Zenon DEF ListTypes, AddTypes
    <3>2. CASE ~(in_progress(t) \/ phase[t] = "drain")
      BY <1>14, <2>1, <3>2, TypesStartAdding, Zenon DEF Retire
    <3> QED BY <3>1, <3>2, Zenon
  <2>3. refc' \in [Entries -> Int]
    BY <1>14 DEF Retire, TypeOK
  <2>4. ListTypes' /\ AddTypes'
    BY <1>0, <1>14, <2>2, Zenon DEF Retire, ListTypes, AddTypes
  <2>5. PlainTypes'
    BY <1>0, <1>14, <2>3, Zenon DEF Retire, PlainTypes
  <2> QED BY <2>4, <2>5, TypeParts, Zenon
<1>15. ASSUME NEW i \in Threads, DrainBatch(i) PROVE TypeOK'
  <2>1. local_batch[i] \in Seq(Entries) /\ 1 \in Threads
    BY ListView DEF Threads
  <2>2. freeing' = [freeing EXCEPT ![1] = [freeing[1] EXCEPT ![1] = local_batch[i]]]
    BY <1>15, Zenon DEF DrainBatch
  <2>3. ListTypes'
    BY <1>0, <1>15, <2>1, <2>2 DEF DrainBatch, ListTypes
  <2>4. PlainTypes' /\ AddTypes'
    BY <1>0, <1>15, <2>1, Zenon DEF DrainBatch, PlainTypes, AddTypes
  <2> QED BY <2>3, <2>4, TypeParts, Zenon
<1>16. CASE DrainStart
  BY <1>16, Zenon DEF DrainStart, TypeOK
<1>17. CASE DrainDone
  BY <1>17, Zenon DEF DrainDone, TypeOK
<1> QED
  BY <1>1, <1>2, <1>3, <1>5, <1>6, <1>8, <1>9, <1>10, <1>11, <1>12, <1>13,
     <1>14, <1>15, <1>16, <1>17, Zenon DEF Next, ThreadStep, Ended

-----------------------------------------------------------------------------
\* Critical sections.

\* Whether a batch is added or not, in_progress tells.
LEMMA AddingStarts ==
  ASSUME NEW t \in Threads, NEW batch, AddTypes, StartAdding(t, batch)
  PROVE  /\ \A u \in Threads \ {t} : add'[u] = add[u]
         /\ add'[t].slot = 1 /\ add'[t].cnt = 0
         /\ add'[t].refs = IF Full(batch) THEN Refs(batch) ELSE none
BY DEF StartAdding, AddTypes, NoAdd

\* What fetch_add, and free_batch after it, change.
LEMMA Fetched ==
  ASSUME TypeOK, NEW t \in Threads, NEW r \in Entries, NEW n \in Int, FetchAdd(t, r, n)
  PROVE  /\ refc'[r] = refc[r] + n
         /\ \A q \in Entries \ {r} : refc'[q] = refc[q] /\ members'[q] = members[q]
         /\ \A u \in Threads, k \in 1..2 :
              u # t \/ k # Frame(t) => freeing'[u][k] = freeing[u][k]
         /\ refc[r] # -n => members' = members /\ freeing' = freeing
         /\ refc[r] = -n => members'[r] = <<>> /\ freeing'[t][Frame(t)] = members[r]
<1>1. /\ members \in [Entries -> Seq(Entries)] /\ refc \in [Entries -> Int]
      /\ freeing \in [Threads -> [1..2 -> Seq(Entries)]] /\ Frame(t) \in 1..2
  BY FrameView, Zenon DEF TypeOK
<1>2. CASE refc[r] = -n
  <2>1. /\ refc' = [refc EXCEPT ![r] = refc[r] + n]
        /\ members' = [members EXCEPT ![r] = <<>>]
        /\ freeing' = [freeing EXCEPT ![t] = [freeing[t] EXCEPT ![Frame(t)] = members[r]]]
    BY <1>2, Zenon DEF FetchAdd
  <2> QED BY <1>1, <1>2, <2>1, Zenon
<1>3. CASE refc[r] # -n
  <2>1. /\ refc' = [refc EXCEPT ![r] = refc[r] + n]
        /\ members' = members /\ freeing' = freeing
    BY <1>3, Zenon DEF FetchAdd
  <2> QED BY <1>1, <1>3, <2>1, Zenon
<1> QED BY <1>2, <1>3, Zenon

\* One turn of traverse.
LEMMA Traversed ==
  ASSUME TypeOK, NEW t \in Threads, Traverse(t)
  PROVE  /\ Head(todo[t]) \in Entries /\ Frame(t) = 1 /\ freeing[t][1] = <<>>
         /\ FetchAdd(t, Head(todo[t]), -1)
         /\ todo[t] # <<>> /\ todo'[t] = Tail(todo[t])
         /\ \A u \in Threads \ {t} : todo'[u] = todo[u]
         /\ \A u \in Threads : freeing'[u][2] = freeing[u][2]
         /\ \A u \in Threads \ {t} : freeing'[u][1] = freeing[u][1]
<1>1. /\ FetchAdd(t, Head(todo[t]), -1)
      /\ todo[t] # <<>> /\ Frame(t) = 1 /\ freeing[t][1] = <<>>
      /\ todo' = [todo EXCEPT ![t] = Tail(todo[t])]
  BY FrameView, Zenon DEF Traverse
<1>2. todo \in [Threads -> Seq(Entries)] /\ -1 \in Int
  BY DEF TypeOK
<1>3. Head(todo[t]) \in Entries
  BY <1>1, <1>2, HeadTailProperties, Zenon
<1>4. \A u \in Threads, k \in 1..2 : u # t \/ k # 1 => freeing'[u][k] = freeing[u][k]
  BY <1>1, <1>2, <1>3, Fetched
<1> QED BY <1>1, <1>2, <1>3, <1>4

\* One turn of the loop of add_batch.
LEMMA SlotAdded ==
  ASSUME TypeOK, NEW t \in Threads, AddSlot(t)
  PROVE  LET i == add[t].slot  r == add[t].refs IN
         /\ i \in Threads /\ r \in Entries
         /\ \A u \in Threads \ {t} : add'[u] = add[u]
         /\ add'[t].refs = r /\ add'[t].slot = i + 1
         /\ list[i] = invptr => list' = list /\ add'[t].cnt = add[t].cnt
         /\ list[i] # invptr => /\ add'[t].cnt = add[t].cnt + 1
                               /\ list[i] \in Seq(Entries) /\ list'[i] = <<r>> \o list[i]
                               /\ \A u \in Threads \ {i} : list'[u] = list[u]
<1>1. add \in [Threads -> Additions] /\ add[t] \in Additions
  BY Zenon DEF TypeOK
<1>2. /\ add[t].slot \in Threads /\ add[t].refs \in Entries
      /\ list \in [Threads -> Seq(Entries) \cup {invptr}]
  <2>1. in_progress(t) /\ add[t].slot <= N
    BY Zenon DEF AddSlot
  <2>2. /\ add[t].slot \in Nat /\ 1 <= add[t].slot
        /\ add[t].refs \in Entries
    BY <2>1, AddView, Zenon
  <2>3. add[t].slot \in Threads
    BY <2>1, <2>2, HyalineAssumption DEF Threads
  <2> QED BY <2>2, <2>3, Zenon DEF TypeOK
<1>3. CASE list[add[t].slot] = invptr
  <2>1. add' = [add EXCEPT ![t] = [add[t] EXCEPT !.slot = add[t].slot + 1]] /\ list' = list
    BY <1>3, Zenon DEF AddSlot
  <2> QED BY <1>1, <1>2, <1>3, <2>1, Zenon DEF Additions
<1>4. CASE list[add[t].slot] # invptr
  <2>1. /\ add' = [add EXCEPT ![t] = [add[t] EXCEPT !.slot = add[t].slot + 1,
                                                  !.cnt = add[t].cnt + 1]]
        /\ list' = [list EXCEPT ![add[t].slot] = <<add[t].refs>> \o list[add[t].slot]]
    BY <1>4, Zenon DEF AddSlot
  <2> QED BY <1>1, <1>2, <1>4, <2>1, Zenon DEF Additions
<1> QED BY <1>3, <1>4, Zenon

\* add_batch counts.
LEMMA BatchCounted ==
  ASSUME TypeOK, NEW t \in Threads, AddCount(t)
  PROVE  /\ add[t].refs \in Entries /\ Frame(t) = 2 /\ add[t].slot = N + 1
         /\ add[t].cnt \in Nat /\ add[t].cnt <= N
         /\ FetchAdd(t, add[t].refs, add[t].cnt - REFC_PROTECT)
         /\ \A u \in Threads \ {t} : add'[u] = add[u]
         /\ add'[t].refs = add[t].refs /\ add'[t].slot = N + 2 /\ add'[t].cnt = add[t].cnt
         /\ \A u \in Threads : freeing'[u][1] = freeing[u][1]
         /\ \A u \in Threads \ {t} : freeing'[u][2] = freeing[u][2]
<1>1. add \in [Threads -> Additions] /\ add[t] \in Additions
  BY Zenon DEF TypeOK
<1>2. /\ add' = [add EXCEPT ![t] = [add[t] EXCEPT !.slot = N + 2]]
      /\ FetchAdd(t, add[t].refs, add[t].cnt - REFC_PROTECT)
      /\ in_progress(t) /\ add[t].slot = N + 1
  BY Zenon DEF AddCount
<1>3. /\ add[t].refs \in Entries /\ Frame(t) = 2
      /\ add[t].cnt \in Nat /\ add[t].cnt <= N
  BY <1>2, AddView, FrameView, Zenon
<1>4. add[t].cnt - REFC_PROTECT \in Int
  BY <1>3, HyalineAssumption
<1>5. \A u \in Threads, k \in 1..2 : u # t \/ k # 2 => freeing'[u][k] = freeing[u][k]
  BY <1>2, <1>3, <1>4, Fetched
<1> QED BY <1>1, <1>2, <1>3, <1>5 DEF Additions

LEMMA NextSections == IInv /\ [Next]_vars => Sections'
<1> SUFFICES ASSUME TypeOK, Sections, Draining, [Next]_vars PROVE Sections'
  BY Zenon DEF IInv
<1> USE DEF entry_vars, batch_vars
<1>0. ListTypes /\ PlainTypes /\ AddTypes
  BY TypeParts, Zenon
<1> DEFINE S(t) ==
      /\ guards[t] = 0 \/ phase[t] = "traverse" => list[t] = invptr /\ held[t] = {}
      /\ guards[t] > 0 /\ phase[t] # "traverse" => list[t] # invptr
      /\ todo[t] # <<>> => phase[t] = "traverse"
      /\ destructing[t] => in_progress(t) \/ phase[t] \in {"traverse", "drain"}
      /\ freeing[t][1] # <<>> => phase[t] \in {"traverse", "drain"}
      /\ freeing[t][2] # <<>> => in_progress(t) /\ add[t].slot = N + 2
<1>1. SUFFICES ASSUME NEW s \in Threads PROVE S(s)'
  BY Zenon DEF Sections
<1>2. \A t \in Threads : S(t)
  BY Zenon DEF Sections
<1>3. CASE UNCHANGED vars
  BY <1>2, <1>3, Zenon DEF vars, in_progress
<1>4. ASSUME NEW t \in Threads, BeginCriticalSection(t) PROVE S(s)'
  BY <1>0, <1>2, <1>4, InvPtr DEF BeginCriticalSection, ListTypes, PlainTypes, CanCall, in_progress
<1>5. ASSUME NEW t \in Threads, BeginNested(t) PROVE S(s)'
  BY <1>0, <1>2, <1>5 DEF BeginNested, PlainTypes, in_progress
<1>6. ASSUME NEW t \in Threads, EndNested(t) PROVE S(s)'
  BY <1>0, <1>2, <1>6 DEF EndNested, PlainTypes, in_progress
<1>7. ASSUME NEW t \in Threads, EndCriticalSection(t) PROVE S(s)'
  BY <1>0, <1>2, <1>7, Zenon DEF EndCriticalSection, ListTypes, PlainTypes, CanCall, in_progress
<1>8. ASSUME NEW t \in Threads, Traverse(t) PROVE S(s)'
  <2>1. freeing'[s][2] = freeing[s][2] /\ (s # t => freeing'[s][1] = freeing[s][1])
    BY <1>8, Traversed
  <2>2. todo'[s] # <<>> => s = t \/ todo[s] # <<>>
    BY <1>8, Traversed, Zenon
  <2>3. destructing'[s] => destructing[s]
    BY <1>0, <1>8, Zenon DEF Traverse, PlainTypes
  <2> QED BY <1>2, <1>8, <2>1, <2>2, <2>3, Zenon DEF Traverse, in_progress
<1>9. ASSUME NEW t \in Threads, TraverseDone(t) PROVE S(s)'
  BY <1>0, <1>2, <1>9, FrameView DEF TraverseDone, PlainTypes, in_progress
<1>10. ASSUME NEW t \in Threads, AddSlot(t) PROVE S(s)'
  <2>1. /\ s # t => add'[s] = add[s]
        /\ add'[s].refs = add[s].refs
    BY <1>10, SlotAdded, Zenon
  <2>2. freeing[t][2] = <<>>
    BY <1>2, <1>10, HyalineAssumption DEF AddSlot
  <2>3. list'[s] = invptr <=> list[s] = invptr
    <3>1. \A q \in Seq(Entries) : <<add[t].refs>> \o q # invptr
      BY <1>10, SlotAdded, SeqPush, InvPtr, Zenon
    <3>2. \/ list' = list
          \/ \E i \in Threads : /\ list[i] # invptr /\ list[i] \in Seq(Entries)
                                /\ list'[i] = <<add[t].refs>> \o list[i]
                                /\ \A u \in Threads \ {i} : list'[u] = list[u]
      BY <1>10, SlotAdded, Zenon
    <3> QED BY <3>1, <3>2, Zenon
  <2> QED BY <1>2, <1>10, <2>1, <2>2, <2>3, Zenon DEF AddSlot, in_progress
<1>11. ASSUME NEW t \in Threads, AddCount(t) PROVE S(s)'
  <2>1. /\ freeing'[s][1] = freeing[s][1] /\ (s # t => freeing'[s][2] = freeing[s][2])
        /\ add'[s].refs = add[s].refs /\ (s # t => add'[s] = add[s])
        /\ add'[t].slot = N + 2
    BY <1>11, BatchCounted, Zenon
  <2> QED BY <1>2, <1>11, <2>1, Zenon DEF AddCount, in_progress
<1>12. ASSUME NEW t \in Threads, AddDone(t) PROVE S(s)'
  <2>1. s # t => add'[s] = add[s]
    BY <1>0, <1>12, AddingStarts, Zenon DEF AddDone
  <2>2. freeing[t][2] = <<>>
    BY <1>12, FrameView, Zenon DEF AddDone
  <2>3. destructing'[s] => s # t /\ destructing[s]
    BY <1>0, <1>12, Zenon DEF AddDone, PlainTypes
  <2> QED BY <1>2, <1>12, <2>1, <2>2, <2>3, Zenon DEF AddDone, in_progress
<1>13. ASSUME NEW t \in Threads, Eject(t) PROVE S(s)'
  <2>1. Left(t) # <<>> /\ Left(t) = freeing[t][Frame(t)]
    BY <1>13, FrameView, Zenon DEF Eject
  <2>2. \A k \in 1..2 : freeing'[s][k] # <<>> => freeing[s][k] # <<>>
    BY <1>0, <1>13, <2>1, FrameView, Zenon DEF Eject, ListTypes
  <2>3. destructing'[s] => s = t \/ destructing[s]
    BY <1>0, <1>13, Zenon DEF Eject, PlainTypes
  <2>4. in_progress(t) \/ phase[t] \in {"traverse", "drain"}
    BY <1>2, <2>1, FrameView, Zenon
  <2> QED BY <1>2, <1>13, <2>2, <2>3, <2>4 DEF Eject, in_progress
<1>14. ASSUME NEW t \in Threads, NEW x \in Entries, Create(t, x) PROVE S(s)'
  BY <1>2, <1>14, Zenon DEF Create, in_progress
<1>15. ASSUME NEW t \in Threads, NEW x \in Entries, Acquire(t, x) PROVE S(s)'
  BY <1>0, <1>2, <1>15, Zenon DEF Acquire, CanCall, PlainTypes, in_progress
<1>16. ASSUME NEW t \in Threads, NEW x \in Entries, Retire(t, x) PROVE S(s)'
  <2>1. /\ s # t => add'[s] = add[s]
        /\ in_progress(t) => add' = add
    BY <1>0, <1>16, AddingStarts, Zenon DEF Retire
  <2>2. destructing'[s] => s # t /\ destructing[s]
    BY <1>0, <1>16, Zenon DEF Retire, PlainTypes
  <2> QED BY <1>2, <1>16, <2>1, <2>2, Zenon DEF Retire, in_progress
<1>17. ASSUME NEW i \in Threads, DrainBatch(i) PROVE S(s)'
  <2>1. freeing'[s][2] = freeing[s][2] /\ (s # 1 => freeing'[s][1] = freeing[s][1])
    BY <1>0, <1>17 DEF DrainBatch, ListTypes
  <2>2. destructing'[s] => destructing[s]
    BY <1>0, <1>17, Zenon DEF DrainBatch, PlainTypes
  <2> QED BY <1>2, <1>17, <2>1, <2>2, Zenon DEF DrainBatch, in_progress
<1>18. CASE DrainStart
  BY <1>0, <1>2, <1>18, Zenon DEF DrainStart, CanCall, PlainTypes, in_progress
<1>19. CASE DrainDone
  <2>1. 1 \in Threads
    BY HyalineAssumption DEF Threads
  <2>2. ~in_progress(1) /\ guards[1] = 0
    BY <1>19, <2>1, Zenon DEF DrainDone, Draining
  <2>3. freeing[1][1] = <<>>
    BY <1>19, <2>2, FrameView, Zenon DEF DrainDone
  <2>4. destructing'[s] => s # 1 /\ destructing[s]
    BY <1>0, <1>19, Zenon DEF DrainDone, PlainTypes
  <2>5. s # 1 => phase'[s] = phase[s]
    BY <1>0, <1>19, Zenon DEF DrainDone, PlainTypes
  <2> QED BY <1>0, <1>2, <1>19, <2>1, <2>2, <2>3, <2>4, <2>5, Zenon
            DEF DrainDone, PlainTypes, in_progress
<1> QED
  BY <1>3, <1>4, <1>5, <1>6, <1>7, <1>8, <1>9, <1>10, <1>11, <1>12, <1>13, <1>14, <1>15,
     <1>16, <1>17, <1>18, <1>19, Zenon DEF Next, ThreadStep, Ended

LEMMA NextDraining == IInv /\ [Next]_vars => Draining'
<1> SUFFICES ASSUME TypeOK, Sections, Draining, Listed, Counted, [Next]_vars PROVE Draining'
  BY Zenon DEF IInv
<1> USE DEF entry_vars, batch_vars
<1>0. ListTypes /\ PlainTypes /\ AddTypes
  BY TypeParts, Zenon
<1>1. 1 \in Threads
  BY HyalineAssumption DEF Threads
<1>2. CASE UNCHANGED vars
  BY <1>2, Zenon DEF vars, Draining, in_progress
<1>3. ASSUME NEW t \in Threads, ThreadStep(t) PROVE Draining'
  <2>1. CASE phase[1] \in {"drain", "gone"}
    <3>1. phase[t] # "off" /\ phase[t] # "traverse" /\ ~in_progress(t)
      BY <1>1, <2>1, Zenon DEF Draining
    <3>2. phase[t] = "drain" => t = 1
      BY Zenon DEF Draining
    <3>3. ASSUME NEW x \in Entries, Retire(t, x) PROVE Draining'
      <4>1. phase[t] = "drain" /\ phase[1] = "drain"
        BY <1>1, <3>1, <3>2, <3>3, Zenon DEF Retire, CanCall, Sections
      <4> QED BY <3>3, <4>1, Zenon DEF Retire, Draining, in_progress
    <3>4. CASE Eject(t)
      <4>1. freeing[t][1] # <<>>
        BY <3>1, <3>4, FrameView, Zenon DEF Eject
      <4>2. phase[1] = "drain"
        BY <3>1, <3>2, <4>1, Zenon DEF Sections
      <4> QED BY <3>4, <4>2, Zenon DEF Eject, Draining, in_progress
    <3> QED BY <1>3, <3>1, <3>3, <3>4, Zenon
          DEF ThreadStep, BeginCriticalSection, BeginNested, EndNested, EndCriticalSection,
              Traverse, TraverseDone, AddSlot, AddCount, AddDone, Create, Acquire, CanCall
  <2>2. CASE phase[1] \notin {"drain", "gone"}
    <3>1. phase[t] \in {"off", "traverse"}
      BY <1>0, <1>1, <2>2, Zenon DEF Draining, PlainTypes
    <3>2. \/ phase' = phase
          \/ \E p \in {"off", "traverse"} : phase' = [phase EXCEPT ![t] = p]
      BY <1>3, Zenon DEF ThreadStep, BeginCriticalSection, BeginNested, EndNested,
           EndCriticalSection, Traverse, TraverseDone, AddSlot, AddCount, AddDone, Eject,
           Create, Acquire, Retire
    <3> QED BY <1>0, <1>1, <2>2, <3>1, <3>2, Zenon DEF Draining, PlainTypes
  <2> QED BY <2>1, <2>2, Zenon
<1>4. ASSUME NEW i \in Threads, DrainBatch(i) PROVE Draining'
  BY <1>1, <1>4, Zenon DEF DrainBatch, Draining, in_progress
<1>5. CASE DrainStart
  <2>1. \A t \in Threads : ~in_progress(t) /\ guards[t] = 0 /\ phase[t] = "off"
    BY <1>5, Zenon DEF DrainStart, CanCall
  <2>2. \A t \in Threads : list[t] = invptr /\ todo[t] = <<>>
    BY <2>1, Zenon DEF Sections
  <2>3. ASSUME NEW r \in Entries PROVE members[r] = <<>>
    <3>1. r \notin Range(invptr) /\ r \notin Range(<<>>)
      BY InvPtr, EmptyElements, Zenon
    <3>2. Shares(r) = {}
      BY <2>2, <3>1, Zenon DEF Shares
    <3>3. Cardinality(Shares(r)) = 0
      BY <3>2, FS_EmptySet, Zenon
    <3>4. \A u \in Threads : ~Adds(u, r)
      BY <2>1, HyalineAssumption, Zenon DEF Adds, in_progress
    <3> QED BY <3>3, <3>4 DEF Counted
  <2> QED BY <1>1, <1>5, <2>1, <2>3, Zenon DEF DrainStart, Draining, in_progress
<1>6. CASE DrainDone
  <2>1. \A t \in Threads : ~in_progress(t) /\ (t # 1 => phase[t] = "gone")
    BY <1>6, Zenon DEF DrainDone, Draining
  <2>2. \A t \in Threads : freeing[t][1] = <<>>
    BY <1>1, <1>6, <2>1, FrameView, Zenon DEF DrainDone, Sections
  <2>3. phase' = [phase EXCEPT ![1] = "gone"]
    BY <1>6, Zenon DEF DrainDone
  <2>4. \A t \in Threads : phase'[t] = "gone"
    BY <1>0, <1>1, <2>1, <2>3, Zenon DEF PlainTypes
  <2> QED BY <1>1, <1>6, <2>2, <2>4, Zenon DEF DrainDone, Draining, in_progress
<1> QED
  BY <1>2, <1>3, <1>4, <1>5, <1>6, Zenon DEF Next, Ended

-----------------------------------------------------------------------------
\* Where the retired entries are.

LEMMA BoxCases ==
  /\ \A t \in Threads, k \in {"local", "outer", "inner"} : <<t, k>> \in Boxes
  /\ \A r \in Entries : <<r, "batch">> \in Boxes
  /\ \A b \in Boxes : \/ \E t \in Threads : b \in {<<t, "local">>, <<t, "outer">>, <<t, "inner">>}
                      \/ \E r \in Entries : b = <<r, "batch">>
BY DEF Boxes

\* A box that a step leaves alone.
LEMMA ContentSame ==
  ASSUME NEW lb, NEW mem, NEW fr, NEW lb2, NEW mem2, NEW fr2, NEW d \in Boxes,
         \A u \in Threads : /\ d = <<u, "local">> => lb2[u] = lb[u]
                            /\ d = <<u, "outer">> => fr2[u][1] = fr[u][1]
                            /\ d = <<u, "inner">> => fr2[u][2] = fr[u][2],
         \A q \in Entries : d = <<q, "batch">> => mem2[q] = mem[q]
  PROVE  Content(lb2, mem2, fr2, d) = Content(lb, mem, fr, d)
<1>1. ASSUME NEW u \in Threads, d \in {<<u, "local">>, <<u, "outer">>, <<u, "inner">>}
      PROVE  Content(lb2, mem2, fr2, d) = Content(lb, mem, fr, d)
  BY <1>1 DEF Content
<1>2. ASSUME NEW q \in Entries, d = <<q, "batch">>
      PROVE  Content(lb2, mem2, fr2, d) = Content(lb, mem, fr, d)
  BY <1>2, Zenon DEF Content
<1> QED BY <1>1, <1>2, BoxCases, Zenon

\* The content of a box moves to an empty one.
LEMMA PartitionMove ==
  ASSUME NEW lb, NEW mem, NEW fr, NEW lb2, NEW mem2, NEW fr2, NEW R,
         NEW b \in Boxes, NEW c \in Boxes, b # c,
         Partition(lb, mem, fr, R),
         Content(lb, mem, fr, c) = {}, Content(lb2, mem2, fr2, b) = {},
         Content(lb2, mem2, fr2, c) = Content(lb, mem, fr, b),
         \A d \in Boxes \ {b, c} : Content(lb2, mem2, fr2, d) = Content(lb, mem, fr, d)
  PROVE  Partition(lb2, mem2, fr2, R)
<1> DEFINE C(d) == Content(lb, mem, fr, d)
<1> DEFINE D(d) == Content(lb2, mem2, fr2, d)
<1>1. \A d, e \in Boxes : d # e => D(d) \cap D(e) = {}
  BY DEF Partition
<1>2. \A d \in Boxes : D(d) \subseteq R
  BY Zenon DEF Partition
<1>3. ASSUME NEW x \in R PROVE \E d \in Boxes : x \in D(d)
  <2>1. PICK d \in Boxes : x \in C(d)
    BY Zenon DEF Partition
  <2> QED BY <2>1, Zenon
<1> QED BY <1>1, <1>2, <1>3, Zenon DEF Partition

\* A box gets a new element.
LEMMA PartitionGrow ==
  ASSUME NEW lb, NEW mem, NEW fr, NEW lb2, NEW mem2, NEW fr2, NEW R,
         NEW b \in Boxes, NEW x, x \notin R,
         Partition(lb, mem, fr, R),
         Content(lb2, mem2, fr2, b) = Content(lb, mem, fr, b) \cup {x},
         \A d \in Boxes \ {b} : Content(lb2, mem2, fr2, d) = Content(lb, mem, fr, d)
  PROVE  Partition(lb2, mem2, fr2, R \cup {x})
<1> DEFINE D(d) == Content(lb2, mem2, fr2, d)
<1>1. \A d, e \in Boxes : d # e => D(d) \cap D(e) = {}
  BY DEF Partition
<1>2. \A d \in Boxes : D(d) \subseteq R \cup {x}
  BY Zenon DEF Partition
<1>3. ASSUME NEW y \in R \cup {x} PROVE \E d \in Boxes : y \in D(d)
  BY Zenon DEF Partition
<1> QED BY <1>1, <1>2, <1>3, Zenon DEF Partition

\* A box loses an element.
LEMMA PartitionShrink ==
  ASSUME NEW lb, NEW mem, NEW fr, NEW lb2, NEW mem2, NEW fr2, NEW R,
         NEW b \in Boxes, NEW x \in Content(lb, mem, fr, b),
         Partition(lb, mem, fr, R),
         Content(lb2, mem2, fr2, b) = Content(lb, mem, fr, b) \ {x},
         \A d \in Boxes \ {b} : Content(lb2, mem2, fr2, d) = Content(lb, mem, fr, d)
  PROVE  Partition(lb2, mem2, fr2, R \ {x})
<1> DEFINE D(d) == Content(lb2, mem2, fr2, d)
<1>1. \A d, e \in Boxes : d # e => D(d) \cap D(e) = {}
  BY Zenon DEF Partition
<1>2. \A d \in Boxes : D(d) \subseteq R \ {x}
  BY DEF Partition
<1>3. ASSUME NEW y \in R \ {x} PROVE \E d \in Boxes : y \in D(d)
  BY Zenon DEF Partition
<1> QED BY <1>1, <1>2, <1>3, Zenon DEF Partition

\* What is in one place is in no other.
LEMMA Apart ==
  ASSUME Placed
  PROVE  /\ \A t \in Threads : Range(local_batch[t]) \subseteq retired
         /\ \A r \in Entries : Range(members[r]) \subseteq retired
         /\ \A t \in Threads, k \in 1..2 : Range(freeing[t][k]) \subseteq retired
         /\ \A t \in Threads, r \in Entries : Range(local_batch[t]) \cap Range(members[r]) = {}
         /\ \A t, u \in Threads : t # u => Range(local_batch[t]) \cap Range(local_batch[u]) = {}
         /\ \A t, u \in Threads, k \in 1..2 : Range(local_batch[t]) \cap Range(freeing[u][k]) = {}
         /\ \A t \in Threads, r \in Entries, k \in 1..2 :
              Range(freeing[t][k]) \cap Range(members[r]) = {}
         /\ \A q, r \in Entries : q # r => Range(members[q]) \cap Range(members[r]) = {}
<1> DEFINE C(b) == Content(local_batch, members, freeing, b)
<1>1. Partition(local_batch, members, freeing, retired)
  BY Zenon DEF Placed
<1>2. /\ \A t \in Threads : /\ C(<<t, "local">>) = Range(local_batch[t])
                            /\ C(<<t, "outer">>) = Range(freeing[t][1])
                            /\ C(<<t, "inner">>) = Range(freeing[t][2])
      /\ \A r \in Entries : C(<<r, "batch">>) = Range(members[r])
  BY Zenon DEF Content
<1>3. 1..2 = {1, 2}
  OBVIOUS
<1>4. /\ \A b \in Boxes : C(b) \subseteq retired
      /\ \A b, c \in Boxes : b # c => C(b) \cap C(c) = {}
  BY <1>1, Zenon DEF Partition
<1> HIDE DEF C
<1>5. /\ \A t \in Threads : /\ Range(local_batch[t]) \subseteq retired
                            /\ Range(freeing[t][1]) \subseteq retired
                            /\ Range(freeing[t][2]) \subseteq retired
      /\ \A r \in Entries : Range(members[r]) \subseteq retired
  BY <1>2, <1>4, BoxCases, Zenon
<1>6. \A t \in Threads, r \in Entries :
        /\ <<t, "local">> # <<r, "batch">>
        /\ <<t, "outer">> # <<r, "batch">>
        /\ <<t, "inner">> # <<r, "batch">>
  BY Zenon
<1>7. \A t, u \in Threads :
        /\ t # u => <<t, "local">> # <<u, "local">>
        /\ <<t, "local">> # <<u, "outer">>
        /\ <<t, "local">> # <<u, "inner">>
  BY Zenon
<1>8. \A q, r \in Entries : q # r => <<q, "batch">> # <<r, "batch">>
  BY Zenon
<1>9. \A t \in Threads, r \in Entries :
        /\ Range(local_batch[t]) \cap Range(members[r]) = {}
        /\ Range(freeing[t][1]) \cap Range(members[r]) = {}
        /\ Range(freeing[t][2]) \cap Range(members[r]) = {}
  BY <1>2, <1>4, <1>6, BoxCases, ZenonT(60)
<1>10. \A t, u \in Threads :
         /\ t # u => Range(local_batch[t]) \cap Range(local_batch[u]) = {}
         /\ Range(local_batch[t]) \cap Range(freeing[u][1]) = {}
         /\ Range(local_batch[t]) \cap Range(freeing[u][2]) = {}
  <2> SUFFICES ASSUME NEW t \in Threads, NEW u \in Threads
               PROVE  /\ t # u => Range(local_batch[t]) \cap Range(local_batch[u]) = {}
                      /\ Range(local_batch[t]) \cap Range(freeing[u][1]) = {}
                      /\ Range(local_batch[t]) \cap Range(freeing[u][2]) = {}
    BY Zenon
  <2>1. /\ <<t, "local">> \in Boxes /\ <<u, "local">> \in Boxes
        /\ <<u, "outer">> \in Boxes /\ <<u, "inner">> \in Boxes
    BY BoxCases, Zenon
  <2>2. /\ t # u => C(<<t, "local">>) \cap C(<<u, "local">>) = {}
        /\ C(<<t, "local">>) \cap C(<<u, "outer">>) = {}
        /\ C(<<t, "local">>) \cap C(<<u, "inner">>) = {}
    BY <1>4, <1>7, <2>1, Zenon
  <2> QED BY <1>2, <2>2, Zenon
<1>11. \A q, r \in Entries : q # r => Range(members[q]) \cap Range(members[r]) = {}
  BY <1>2, <1>4, <1>8, BoxCases, Zenon
<1> QED BY <1>3, <1>5, <1>9, <1>10, <1>11, Zenon

\* A full batch is not empty.
LEMMA FullBatch ==
  ASSUME NEW batch \in Seq(Entries), Full(batch)
  PROVE  /\ batch # <<>> /\ Refs(batch) \in Entries /\ Refs(batch) \in Range(batch)
<1>1. batch_size * N \in Nat
  BY HyalineAssumption
<1>2. Len(batch) \in Nat /\ Len(batch) > batch_size * N
  BY SeqView, Zenon DEF Full
<1>3. Len(batch) # 0
  BY <1>1, <1>2
<1>4. batch # <<>>
  BY <1>3, EmptySeq, Zenon
<1> QED BY <1>4, SeqElements, Zenon

\* A local batch that is not on its way yet is on no list and not added.
LEMMA NewBatch ==
  ASSUME TypeOK, Placed, Listed, Adding,
         NEW batch \in Seq(Entries), Full(batch),
         \A r \in Entries : Range(batch) \cap Range(members[r]) = {}
  PROVE  /\ members[Refs(batch)] = <<>> /\ Shares(Refs(batch)) = {}
         /\ \A u \in Threads : ~Adds(u, Refs(batch))
<1>1. Refs(batch) \in Entries /\ Refs(batch) \in Range(batch)
  BY FullBatch, Zenon
<1>2. members[Refs(batch)] = <<>>
  BY <1>1, Zenon DEF Placed, Distinct
<1> QED BY <1>1, <1>2, Zenon DEF Listed, Adding

\* free_batch takes over the batch whose counter has come to zero.
LEMMA PlacedFetchAdd ==
  ASSUME TypeOK, Placed, NEW t \in Threads, NEW r \in Entries, NEW n \in Int,
         FetchAdd(t, r, n), freeing[t][Frame(t)] = <<>>,
         UNCHANGED <<local_batch, linked, retired>>
  PROVE  Placed'
<1>0. /\ \A q \in Entries \ {r} : members'[q] = members[q]
      /\ \A u \in Threads, k \in 1..2 :
           u # t \/ k # Frame(t) => freeing'[u][k] = freeing[u][k]
      /\ refc[r] # -n => members' = members /\ freeing' = freeing
      /\ refc[r] = -n => members'[r] = <<>> /\ freeing'[t][Frame(t)] = members[r]
  BY Fetched, Zenon
<1>1. CASE refc[r] # -n
  BY <1>0, <1>1, Zenon DEF Placed
<1>2. CASE refc[r] = -n
  <2> DEFINE b == <<r, "batch">>
  <2> DEFINE c == <<t, IF Frame(t) = 1 THEN "outer" ELSE "inner">>
  <2> DEFINE C(d) == Content(local_batch, members, freeing, d)
  <2> DEFINE D(d) == Content(local_batch', members', freeing', d)
  <2>1. Frame(t) \in {1, 2} /\ 1..2 = {1, 2}
    BY FrameView
  <2>2. b \in Boxes /\ c \in Boxes /\ b # c
    BY <2>1, BoxCases, Zenon
  <2>3. Range(<<>>) = {} /\ IsInjective(<<>>)
    BY EmptyElements, Zenon
  <2>4. /\ \A u \in Threads : /\ C(<<u, "local">>) = Range(local_batch[u])
                              /\ C(<<u, "outer">>) = Range(freeing[u][1])
                              /\ C(<<u, "inner">>) = Range(freeing[u][2])
        /\ \A q \in Entries : C(<<q, "batch">>) = Range(members[q])
    BY Zenon DEF Content
  <2>5. /\ \A u \in Threads : /\ D(<<u, "local">>) = Range(local_batch'[u])
                              /\ D(<<u, "outer">>) = Range(freeing'[u][1])
                              /\ D(<<u, "inner">>) = Range(freeing'[u][2])
        /\ \A q \in Entries : D(<<q, "batch">>) = Range(members'[q])
    BY Zenon DEF Content
  <2>6. Partition(local_batch, members, freeing, retired)
    BY Zenon DEF Placed
  <2> HIDE DEF C, D
  <2>7. C(c) = {} /\ D(c) = C(b) /\ D(b) = {}
    <3>1. C(b) = Range(members[r]) /\ D(b) = Range(members'[r])
      BY <2>4, <2>5, Zenon
    <3>2. C(c) = Range(freeing[t][Frame(t)]) /\ D(c) = Range(freeing'[t][Frame(t)])
      <4>1. CASE Frame(t) = 1
        BY <2>4, <2>5, <4>1, Zenon
      <4>2. CASE Frame(t) = 2
        BY <2>4, <2>5, <4>2, Zenon
      <4> QED BY <2>1, <4>1, <4>2, Zenon
    <3> HIDE DEF b, c
    <3> QED BY <1>0, <1>2, <2>3, <3>1, <3>2, Zenon
  <2>8. ASSUME NEW d \in Boxes \ {b, c} PROVE D(d) = C(d)
    <3>1. ASSUME NEW u \in Threads
          PROVE  /\ d = <<u, "local">> => local_batch'[u] = local_batch[u]
                 /\ d = <<u, "outer">> => freeing'[u][1] = freeing[u][1]
                 /\ d = <<u, "inner">> => freeing'[u][2] = freeing[u][2]
      <4>1. d = <<u, "outer">> => u # t \/ Frame(t) # 1
        BY Zenon
      <4>2. d = <<u, "inner">> => u # t \/ Frame(t) # 2
        OBVIOUS
      <4> HIDE DEF b, c
      <4> QED BY <1>0, <2>1, <4>1, <4>2
    <3>2. ASSUME NEW q \in Entries, d = <<q, "batch">> PROVE members'[q] = members[q]
      BY <1>0, <3>2, Zenon
    <3> QED BY <3>1, <3>2, ContentSame DEF C, D
  <2> HIDE DEF b, c
  <2>9. Partition(local_batch', members', freeing', retired)
    BY <2>2, <2>6, <2>7, <2>8, PartitionMove DEF C, D
  <2>10. \A u \in Threads : \A k \in 1..2 : IsInjective(freeing'[u][k])
    BY <1>0, <1>2, <2>1 DEF Placed, Distinct
  <2>11. \A q \in Entries : /\ IsInjective(members'[q])
                            /\ members'[q] # <<>> => q \in Range(members'[q])
    BY <1>0, <1>2, <2>3, Zenon DEF Placed, Distinct
  <2>12. Distinct(local_batch', members', freeing')
    BY <2>10, <2>11, Zenon DEF Placed, Distinct
  <2> QED BY <2>9, <2>12, Zenon DEF Placed
<1> QED BY <1>1, <1>2, Zenon

\* The head of the loop of retire starts a full batch on its way.
LEMMA Started ==
  ASSUME TypeOK, NEW t \in Threads, NEW batch \in Seq(Entries), StartAdding(t, batch)
  PROVE  /\ \A u \in Threads \ {t} : local_batch'[u] = local_batch[u]
         /\ Full(batch) => /\ local_batch'[t] = <<>> /\ members'[Refs(batch)] = batch
                           /\ \A r \in Entries \ {Refs(batch)} : members'[r] = members[r]
         /\ ~Full(batch) => local_batch'[t] = batch /\ members' = members
<1>1. local_batch \in [Threads -> Seq(Entries)] /\ members \in [Entries -> Seq(Entries)]
  BY Zenon DEF TypeOK
<1>2. CASE Full(batch)
  <2>1. Refs(batch) \in Entries
    BY <1>2, FullBatch, Zenon
  <2>2. /\ local_batch' = [local_batch EXCEPT ![t] = <<>>]
        /\ members' = [members EXCEPT ![Refs(batch)] = batch]
    BY <1>2, Zenon DEF StartAdding
  <2> QED BY <1>1, <1>2, <2>1, <2>2, Zenon
<1>3. CASE ~Full(batch)
  <2>1. local_batch' = [local_batch EXCEPT ![t] = batch] /\ members' = members
    BY <1>3, Zenon DEF StartAdding
  <2> QED BY <1>1, <1>3, <2>1, Zenon
<1> QED BY <1>2, <1>3, Zenon

LEMMA PlacedStart ==
  ASSUME TypeOK, NEW t \in Threads, NEW batch \in Seq(Entries),
         NEW lb, NEW R, lb[t] = batch,
         \A u \in Threads \ {t} : lb[u] = local_batch[u],
         Distinct(lb, members, freeing),
         Partition(lb, members, freeing, R),
         StartAdding(t, batch), UNCHANGED freeing
  PROVE  /\ Partition(local_batch', members', freeing', R)
         /\ Distinct(local_batch', members', freeing')
<1>0. /\ \A u \in Threads \ {t} : local_batch'[u] = local_batch[u]
      /\ Full(batch) => /\ local_batch'[t] = <<>> /\ members'[Refs(batch)] = batch
                        /\ \A r \in Entries \ {Refs(batch)} : members'[r] = members[r]
      /\ ~Full(batch) => local_batch'[t] = batch /\ members' = members
  BY Started, Zenon
<1> DEFINE C(d) == Content(lb, members, freeing, d)
<1> DEFINE D(d) == Content(local_batch', members', freeing', d)
<1>1. \A u \in Threads : /\ IsInjective(local_batch'[u])
                         /\ \A k \in 1..2 : IsInjective(freeing'[u][k])
  BY <1>0, EmptyElements, Zenon DEF Distinct
<1>2. CASE ~Full(batch)
  <2>1. \A u \in Threads : local_batch'[u] = lb[u]
    BY <1>0, <1>2, Zenon
  <2>2. ASSUME NEW d \in Boxes PROVE D(d) = C(d)
    BY <1>0, <1>2, <2>1, ContentSame
  <2> HIDE DEF C, D
  <2>3. Partition(local_batch', members', freeing', R)
    BY <2>2, Zenon DEF Partition, C, D
  <2>4. Distinct(local_batch', members', freeing')
    BY <1>0, <1>1, <1>2, Zenon DEF Distinct
  <2> QED BY <2>3, <2>4, Zenon
<1>3. CASE Full(batch)
  <2> DEFINE r == Refs(batch)
  <2> DEFINE b == <<t, "local">>
  <2> DEFINE c == <<r, "batch">>
  <2>1. r \in Entries /\ r \in Range(batch)
    BY <1>3, FullBatch, Zenon
  <2>2. b \in Boxes /\ c \in Boxes /\ b # c
    BY <2>1, BoxCases, Zenon
  <2>3. C(b) = Range(batch) /\ C(c) = Range(members[r])
    BY <2>1, Zenon DEF Content
  <2>4. D(b) = Range(local_batch'[t]) /\ D(c) = Range(members'[r])
    BY <2>1, Zenon DEF Content
  <2>5. Partition(lb, members, freeing, R)
    BY Zenon
  <2>6. ASSUME NEW d \in Boxes \ {b, c} PROVE D(d) = C(d)
    <3>1. \A u \in Threads : d = <<u, "local">> => local_batch'[u] = lb[u]
      BY <1>0, Zenon
    <3>2. \A q \in Entries : d = <<q, "batch">> => members'[q] = members[q]
      BY <1>0, <1>3, Zenon
    <3> QED BY <3>1, <3>2, ContentSame
  <2> HIDE DEF C, D, b, c
  <2>7. C(b) \cap C(c) = {}
    BY <2>2, <2>5, Zenon DEF Partition, C
  <2>8. members[r] = <<>>
    BY <2>1, <2>3, <2>7, Zenon DEF Distinct
  <2>9. C(c) = {} /\ D(c) = C(b) /\ D(b) = {}
    BY <1>0, <1>3, <2>3, <2>4, <2>8, EmptyElements, Zenon
  <2>10. Partition(local_batch', members', freeing', R)
    BY <2>2, <2>5, <2>6, <2>9, PartitionMove DEF C, D
  <2>11. ASSUME NEW q \in Entries
         PROVE  IsInjective(members'[q]) /\ (members'[q] # <<>> => q \in Range(members'[q]))
    <3>1. CASE q = r
      BY <1>0, <1>3, <2>1, <3>1, Zenon DEF Distinct
    <3>2. CASE q # r
      BY <1>0, <1>3, <3>2, Zenon DEF Distinct
    <3> QED BY <3>1, <3>2, Zenon
  <2>12. Distinct(local_batch', members', freeing')
    BY <1>1, <2>11, Zenon DEF Distinct
  <2> QED BY <2>10, <2>12, Zenon
<1> QED BY <1>2, <1>3, Zenon

LEMMA NextPlaced == IInv /\ [Next]_vars => Placed'
<1> SUFFICES ASSUME TypeOK, Sections, Draining, Placed, [Next]_vars PROVE Placed'
  BY Zenon DEF IInv
<1> USE DEF entry_vars, batch_vars
<1>0. /\ Partition(local_batch, members, freeing, retired)
      /\ Distinct(local_batch, members, freeing)
      /\ linked \cap retired = {}
  BY Zenon DEF Placed
<1>1. CASE UNCHANGED <<local_batch, members, freeing, linked, retired>>
  BY <1>0, <1>1, Zenon DEF Placed
<1>2. ASSUME NEW t \in Threads,
             \/ BeginCriticalSection(t) \/ BeginNested(t) \/ EndNested(t)
             \/ EndCriticalSection(t) \/ TraverseDone(t) \/ AddSlot(t)
      PROVE  Placed'
  BY <1>1, <1>2, Zenon DEF BeginCriticalSection, BeginNested, EndNested, EndCriticalSection,
       TraverseDone, AddSlot
<1>3. ASSUME NEW t \in Threads, Traverse(t) PROVE Placed'
  <2>1. /\ Head(todo[t]) \in Entries /\ freeing[t][Frame(t)] = <<>>
        /\ FetchAdd(t, Head(todo[t]), -1) /\ -1 \in Int
    BY <1>3, Traversed
  <2>2. UNCHANGED <<local_batch, linked, retired>>
    BY <1>3, Zenon DEF Traverse
  <2> QED BY <2>1, <2>2, PlacedFetchAdd, Zenon
<1>4. ASSUME NEW t \in Threads, AddCount(t) PROVE Placed'
  <2>1. /\ add[t].refs \in Entries /\ Frame(t) = 2 /\ add[t].slot = N + 1 /\ add[t].cnt \in Nat
        /\ FetchAdd(t, add[t].refs, add[t].cnt - REFC_PROTECT)
    BY <1>4, BatchCounted, Zenon
  <2>2. add[t].slot # N + 2 /\ add[t].cnt - REFC_PROTECT \in Int
    BY <2>1, HyalineAssumption
  <2>3. freeing[t][Frame(t)] = <<>>
    BY <2>1, <2>2, Zenon DEF Sections
  <2>4. UNCHANGED <<local_batch, linked, retired>>
    BY <1>4, Zenon DEF AddCount
  <2> QED BY <2>1, <2>2, <2>3, <2>4, PlacedFetchAdd, Zenon
<1>5. ASSUME NEW t \in Threads, AddDone(t) PROVE Placed'
  <2>1. StartAdding(t, local_batch[t]) /\ UNCHANGED <<freeing, linked, retired>>
    BY <1>5, Zenon DEF AddDone
  <2>2. local_batch[t] \in Seq(Entries)
    BY ListView, Zenon
  <2>3. /\ Partition(local_batch', members', freeing', retired)
        /\ Distinct(local_batch', members', freeing')
    BY <1>0, <2>1, <2>2, PlacedStart, Zenon
  <2> QED BY <1>0, <2>1, <2>3, Zenon DEF Placed
<1>6. ASSUME NEW t \in Threads, Eject(t) PROVE Placed'
  <2> DEFINE entry == Head(Left(t))
  <2> DEFINE b == <<t, IF Frame(t) = 1 THEN "outer" ELSE "inner">>
  <2>1. Frame(t) \in {1, 2} /\ 1..2 = {1, 2} /\ Left(t) = freeing[t][Frame(t)]
    BY FrameView
  <2>2. Left(t) \in Seq(Entries) /\ Left(t) # <<>> /\ IsInjective(Left(t))
    BY <1>0, <1>6, <2>1, ListView, Zenon DEF Eject, Distinct
  <2>3. /\ entry \in Range(Left(t)) /\ IsInjective(Tail(Left(t)))
        /\ Range(Tail(Left(t))) = Range(Left(t)) \ {entry}
    BY <2>2, SeqElements, SeqTail, Zenon
  <2>4. /\ freeing' = [freeing EXCEPT ![t] = [freeing[t] EXCEPT ![Frame(t)] = Tail(Left(t))]]
        /\ retired' = retired \ {entry}
        /\ UNCHANGED <<local_batch, members, linked>>
    BY <1>6, <2>1, Zenon DEF Eject
  <2>5. freeing \in [Threads -> [1..2 -> Seq(Entries)]]
    BY Zenon DEF TypeOK
  <2>6. /\ freeing'[t][Frame(t)] = Tail(Left(t))
        /\ \A u \in Threads, k \in 1..2 : u # t \/ k # Frame(t) => freeing'[u][k] = freeing[u][k]
    BY <2>1, <2>4, <2>5, Zenon
  <2>7. b \in Boxes
    BY <2>1, BoxCases, Zenon
  <2>8. /\ Content(local_batch, members, freeing, b) = Range(Left(t))
        /\ Content(local_batch', members', freeing', b) = Range(Tail(Left(t)))
    <3>1. CASE Frame(t) = 1
      BY <2>1, <2>6, <3>1, Zenon DEF Content
    <3>2. CASE Frame(t) = 2
      BY <2>1, <2>6, <3>2, Zenon DEF Content
    <3> QED BY <2>1, <3>1, <3>2, Zenon
  <2>9. ASSUME NEW d \in Boxes \ {b}
        PROVE  Content(local_batch', members', freeing', d) = Content(local_batch, members, freeing, d)
    <3>1. ASSUME NEW u \in Threads
          PROVE  /\ d = <<u, "outer">> => freeing'[u][1] = freeing[u][1]
                 /\ d = <<u, "inner">> => freeing'[u][2] = freeing[u][2]
      <4>1. d = <<u, "outer">> => u # t \/ Frame(t) # 1
        BY Zenon
      <4>2. d = <<u, "inner">> => u # t \/ Frame(t) # 2
        OBVIOUS
      <4> HIDE DEF b
      <4> QED BY <2>1, <2>6, <4>1, <4>2, Zenon
    <3>2. /\ \A u \in Threads : d = <<u, "local">> => local_batch'[u] = local_batch[u]
          /\ \A q \in Entries : d = <<q, "batch">> => members'[q] = members[q]
      BY <2>4, Zenon
    <3> HIDE DEF b
    <3> QED BY <3>1, <3>2, ContentSame
  <2> HIDE DEF entry, b
  <2>10. Partition(local_batch', members', freeing', retired')
    <3>1. /\ entry \in Content(local_batch, members, freeing, b)
          /\ Content(local_batch', members', freeing', b)
               = Content(local_batch, members, freeing, b) \ {entry}
      BY <2>3, <2>8, Zenon
    <3>2. Partition(local_batch', members', freeing', retired \ {entry})
      BY <1>0, <2>7, <2>9, <3>1, PartitionShrink, Zenon
    <3> QED BY <2>4, <3>2, Zenon
  <2>11. Distinct(local_batch', members', freeing')
    BY <1>0, <2>1, <2>3, <2>4, <2>6 DEF Distinct
  <2> QED BY <1>0, <2>4, <2>10, <2>11, Zenon DEF Placed
<1>7. ASSUME NEW t \in Threads, NEW x \in Entries, Create(t, x) PROVE Placed'
  BY <1>0, <1>7, Zenon DEF Create, Placed
<1>8. ASSUME NEW t \in Threads, NEW x \in Entries, Acquire(t, x) PROVE Placed'
  BY <1>1, <1>8, Zenon DEF Acquire
<1>9. ASSUME NEW t \in Threads, NEW x \in Entries, Retire(t, x) PROVE Placed'
  <2> DEFINE batch == <<x>> \o local_batch[t]
  <2> DEFINE lb == [local_batch EXCEPT ![t] = batch]
  <2> DEFINE b == <<t, "local">>
  <2>1. /\ x \in linked /\ linked' = linked \ {x} /\ retired' = retired \cup {x}
        /\ freeing' = freeing
    BY <1>9, Zenon DEF Retire
  <2>2. x \notin retired
    BY <1>0, <2>1, Zenon
  <2>3. local_batch[t] \in Seq(Entries) /\ IsInjective(local_batch[t]) /\ x \notin Range(local_batch[t])
    BY <1>0, <2>2, ListView, Apart, Zenon DEF Distinct
  <2>4. batch \in Seq(Entries) /\ Range(batch) = Range(local_batch[t]) \cup {x} /\ IsInjective(batch)
    BY <2>3, SeqPush
  <2> HIDE DEF batch
  <2>5. lb[t] = batch /\ \A u \in Threads \ {t} : lb[u] = local_batch[u]
    BY Zenon DEF TypeOK
  <2> HIDE DEF lb
  <2>6. b \in Boxes
    BY BoxCases, Zenon
  <2>7. Content(lb, members, freeing, b) = Content(local_batch, members, freeing, b) \cup {x}
    BY <2>4, <2>5, Zenon DEF Content
  <2>8. ASSUME NEW d \in Boxes \ {b}
        PROVE  Content(lb, members, freeing, d) = Content(local_batch, members, freeing, d)
    BY <2>5, ContentSame
  <2> HIDE DEF b
  <2>9. Partition(lb, members, freeing, retired')
    BY <1>0, <2>1, <2>2, <2>6, <2>7, <2>8, PartitionGrow, Zenon
  <2>10. Distinct(lb, members, freeing)
    BY <1>0, <2>4, <2>5, Zenon DEF Distinct
  <2>11. /\ Partition(local_batch', members', freeing', retired')
         /\ Distinct(local_batch', members', freeing')
    <3>1. CASE in_progress(t) \/ phase[t] = "drain"
      <4>1. local_batch' = lb /\ members' = members
        BY <1>9, <3>1, Zenon DEF Retire, lb, batch
      <4> QED BY <2>1, <2>9, <2>10, <4>1, Zenon
    <3>2. CASE ~(in_progress(t) \/ phase[t] = "drain")
      <4>1. StartAdding(t, batch)
        BY <1>9, <3>2, Zenon DEF Retire, batch
      <4> QED BY <2>1, <2>4, <2>5, <2>9, <2>10, <4>1, PlacedStart, Zenon
    <3> QED BY <3>1, <3>2, Zenon
  <2> QED BY <1>0, <2>1, <2>11, Zenon DEF Placed
<1>10. ASSUME NEW i \in Threads, DrainBatch(i) PROVE Placed'
  <2> DEFINE b == <<i, "local">>
  <2> DEFINE c == <<1, "outer">>
  <2>1. 1 \in Threads
    BY HyalineAssumption DEF Threads
  <2>2. freeing[1][1] = <<>>
    BY <1>10, <2>1, FrameView, Zenon DEF DrainBatch, Draining
  <2>3. /\ freeing' = [freeing EXCEPT ![1] = [freeing[1] EXCEPT ![1] = local_batch[i]]]
        /\ local_batch' = [local_batch EXCEPT ![i] = <<>>]
        /\ UNCHANGED <<members, linked, retired>>
    BY <1>10, Zenon DEF DrainBatch
  <2>4. /\ freeing \in [Threads -> [1..2 -> Seq(Entries)]]
        /\ local_batch \in [Threads -> Seq(Entries)]
        /\ 1..2 = {1, 2}
    BY DEF TypeOK
  <2>5. /\ freeing'[1][1] = local_batch[i] /\ freeing'[1][2] = freeing[1][2]
        /\ \A u \in Threads \ {1} : freeing'[u] = freeing[u]
        /\ local_batch'[i] = <<>>
        /\ \A u \in Threads \ {i} : local_batch'[u] = local_batch[u]
    BY <2>1, <2>3, <2>4
  <2>6. b \in Boxes /\ c \in Boxes /\ b # c
    BY <2>1, BoxCases, Zenon
  <2>7. /\ Content(local_batch, members, freeing, c) = {}
        /\ Content(local_batch', members', freeing', b) = {}
        /\ Content(local_batch', members', freeing', c) = Content(local_batch, members, freeing, b)
    BY <2>2, <2>5, EmptyElements, Zenon DEF Content
  <2>8. ASSUME NEW d \in Boxes \ {b, c}
        PROVE  Content(local_batch', members', freeing', d) = Content(local_batch, members, freeing, d)
    <3>1. ASSUME NEW u \in Threads
          PROVE  /\ d = <<u, "local">> => local_batch'[u] = local_batch[u]
                 /\ d = <<u, "outer">> => freeing'[u][1] = freeing[u][1]
                 /\ d = <<u, "inner">> => freeing'[u][2] = freeing[u][2]
      <4>1. /\ d = <<u, "local">> => u # i
            /\ d = <<u, "outer">> => u # 1
        BY Zenon
      <4>2. freeing'[u][2] = freeing[u][2] /\ (u # 1 => freeing'[u][1] = freeing[u][1])
        BY <2>5, Zenon
      <4> HIDE DEF b, c
      <4> QED BY <2>5, <4>1, <4>2, Zenon
    <3>2. \A q \in Entries : d = <<q, "batch">> => members'[q] = members[q]
      BY <2>3, Zenon
    <3> HIDE DEF b, c
    <3> QED BY <3>1, <3>2, ContentSame
  <2> HIDE DEF b, c
  <2>9. Partition(local_batch', members', freeing', retired')
    <3>1. Partition(local_batch', members', freeing', retired)
      BY <1>0, <2>6, <2>7, <2>8, PartitionMove
    <3> QED BY <2>3, <3>1, Zenon
  <2>10. \A u \in Threads : IsInjective(local_batch'[u]) /\ \A k \in 1..2 : IsInjective(freeing'[u][k])
    BY <1>0, <2>4, <2>5, EmptyElements, Zenon DEF Distinct
  <2>11. Distinct(local_batch', members', freeing')
    BY <1>0, <2>3, <2>10, Zenon DEF Distinct
  <2> QED BY <1>0, <2>3, <2>9, <2>11, Zenon DEF Placed
<1>11. CASE DrainStart \/ DrainDone \/ Ended \/ UNCHANGED vars
  BY <1>1, <1>11, Zenon DEF DrainStart, DrainDone, Ended, vars
<1> QED
  BY <1>2, <1>3, <1>4, <1>5, <1>6, <1>7, <1>8, <1>9, <1>10, <1>11, Zenon DEF Next, ThreadStep

-----------------------------------------------------------------------------
\* Shares.

\* Sets of threads are finite.
LEMMA ThreadSets ==
  ASSUME NEW S \in SUBSET Threads
  PROVE  /\ Cardinality(S) \in Nat
         /\ Cardinality(S) = 0 <=> S = {}
         /\ \A i \in Threads \ S : Cardinality(S \cup {i}) = Cardinality(S) + 1
         /\ \A i \in S : Cardinality(S \ {i}) = Cardinality(S) - 1
         /\ \A i \in S : Cardinality(S) = 1 => S = {i}
<1>1. IsFiniteSet(Threads)
  BY HyalineAssumption, FS_Interval DEF Threads
<1>2. IsFiniteSet(S)
  BY <1>1, FS_Subset, Zenon
<1>3. Cardinality(S) \in Nat
  BY <1>2, FS_CardinalityType, Zenon
<1>4. Cardinality(S) = 0 <=> S = {}
  BY <1>2, FS_EmptySet, Zenon
<1>5. ASSUME NEW i \in Threads \ S PROVE Cardinality(S \cup {i}) = Cardinality(S) + 1
  BY <1>2, <1>5, FS_AddElement, Zenon
<1>6. ASSUME NEW i \in S
      PROVE  IsFiniteSet(S \ {i}) /\ Cardinality(S \ {i}) = Cardinality(S) - 1
  BY <1>2, FS_RemoveElement, Zenon
<1>7. ASSUME NEW i \in S, Cardinality(S) = 1 PROVE S = {i}
  <2>1. Cardinality(S \ {i}) = 0
    BY <1>6, <1>7
  <2>2. S \ {i} = {}
    BY <1>6, <2>1, FS_EmptySet, Zenon
  <2> QED BY <2>2, Zenon
<1> QED BY <1>3, <1>4, <1>5, <1>6, <1>7, Zenon

\* A critical section begins or ends: the list is exchanged as a whole.
LEMMA SharesSection ==
  ASSUME TypeOK, Sections, NEW t \in Threads,
         BeginCriticalSection(t) \/ EndCriticalSection(t), NEW r \in Entries
  PROVE  Shares(r)' = Shares(r)
<1>0. /\ list \in [Threads -> Seq(Entries) \cup {invptr}]
      /\ todo \in [Threads -> Seq(Entries)]
  BY Zenon DEF TypeOK
<1>1. r \notin Range(invptr) /\ r \notin Range(<<>>)
  BY InvPtr, EmptyElements, Zenon
<1>2. CASE BeginCriticalSection(t)
  <2>1. list' = [list EXCEPT ![t] = <<>>] /\ todo' = todo
    BY <1>2, Zenon DEF BeginCriticalSection, batch_vars
  <2>2. list[t] = invptr
    BY <1>2, Zenon DEF BeginCriticalSection, Sections
  <2> QED BY <1>0, <1>1, <2>1, <2>2, Zenon DEF Shares
<1>3. CASE EndCriticalSection(t)
  <2>1. list' = [list EXCEPT ![t] = invptr] /\ todo' = [todo EXCEPT ![t] = list[t]]
    BY <1>3, Zenon DEF EndCriticalSection
  <2>2. todo[t] = <<>>
    BY <1>3, Zenon DEF EndCriticalSection, CanCall, Sections
  <2>3. \A u \in Threads : /\ list'[u] = IF u = t THEN invptr ELSE list[u]
                           /\ todo'[u] = IF u = t THEN list[t] ELSE todo[u]
    BY <1>0, <2>1, Zenon
  <2> QED BY <1>1, <2>2, <2>3, Zenon DEF Shares
<1> QED BY <1>2, <1>3, Zenon

\* One turn of traverse gives up one share.
LEMMA SharesTraverse ==
  ASSUME TypeOK, Sections, Listed, NEW t \in Threads, Traverse(t),
         NEW h, h = Head(todo[t])
  PROVE  /\ t \in Shares(h) /\ Shares(h)' = Shares(h) \ {t}
         /\ \A r \in Entries \ {h} : Shares(r)' = Shares(r)
         /\ list[t] = invptr
<1>1. /\ h \in Entries /\ todo[t] # <<>> /\ todo'[t] = Tail(todo[t])
      /\ \A u \in Threads \ {t} : todo'[u] = todo[u]
  BY Traversed, Zenon
<1>2. list' = list /\ list[t] = invptr
  BY Zenon DEF Traverse, Sections
<1>3. todo[t] \in Seq(Entries) /\ IsInjective(todo[t])
  BY ListView, Zenon DEF Listed
<1>4. h \in Range(todo[t]) /\ Range(todo'[t]) = Range(todo[t]) \ {h}
  BY <1>1, <1>3, SeqElements, SeqTail, Zenon
<1>5. \A r \in Entries : r \notin Range(list[t])
  BY <1>2, InvPtr, Zenon
<1>6. t \in Shares(h)
  BY <1>4, Zenon DEF Shares
<1>7. Shares(h)' = Shares(h) \ {t}
  <2>1. \A u \in Threads : u \in Shares(h)' <=> h \in Range(list'[u]) \cup Range(todo'[u])
    BY Zenon DEF Shares
  <2>2. \A u \in Threads : u \in Shares(h) <=> h \in Range(list[u]) \cup Range(todo[u])
    BY Zenon DEF Shares
  <2>3. Shares(h)' \subseteq Threads /\ Shares(h) \subseteq Threads
    BY Zenon DEF Shares
  <2> QED BY <1>1, <1>2, <1>4, <1>5, <2>1, <2>2, <2>3, Zenon
<1>8. ASSUME NEW r \in Entries \ {h} PROVE Shares(r)' = Shares(r)
  BY <1>1, <1>2, <1>4, Zenon DEF Shares
<1> QED BY <1>2, <1>6, <1>7, <1>8, Zenon

\* One turn of the loop of add_batch adds a share, or finds no critical section.
LEMMA SharesAddSlot ==
  ASSUME TypeOK, Listed, Adding, NEW t \in Threads, AddSlot(t),
         NEW i, i = add[t].slot, NEW r, r = add[t].refs
  PROVE  /\ Adds(t, r) /\ i \notin Shares(r)
         /\ Shares(r)' = IF list[i] = invptr THEN Shares(r) ELSE Shares(r) \cup {i}
         /\ \A q \in Entries \ {r} : Shares(q)' = Shares(q)
<1>1. /\ i \in Threads /\ r \in Entries
      /\ list[i] = invptr => list' = list
      /\ list[i] # invptr => /\ list[i] \in Seq(Entries) /\ list'[i] = <<r>> \o list[i]
                             /\ \A u \in Threads \ {i} : list'[u] = list[u]
  BY SlotAdded, Zenon
<1>2. todo' = todo
  BY Zenon DEF AddSlot
<1>3. Adds(t, r)
  <2>1. i <= N + 1
    BY <1>1, HyalineAssumption DEF Threads
  <2> QED BY <2>1, Zenon DEF Adds
<1>4. i \notin Shares(r)
  <2>1. \A u \in Shares(r) : u < i
    BY <1>1, <1>3, Zenon DEF Adding
  <2>2. ~(i < i)
    BY <1>1, HyalineAssumption DEF Threads
  <2> QED BY <2>1, <2>2, Zenon
<1>5. CASE list[i] = invptr
  <2>1. \A q \in Entries : Shares(q)' = Shares(q)
    BY <1>1, <1>2, <1>5, Zenon DEF Shares
  <2> QED BY <1>1, <1>3, <1>4, <1>5, <2>1, Zenon
<1>6. CASE list[i] # invptr
  <2>0. list[i] \in Seq(Entries) /\ r \in Entries
    BY <1>1, <1>6, Zenon
  <2>1. Range(list'[i]) = Range(list[i]) \cup {r}
    <3>1. Range(<<r>> \o list[i]) = Range(list[i]) \cup {r}
      BY <2>0, SeqPush
    <3> QED BY <1>1, <1>6, <3>1, Zenon
  <2>2. ASSUME NEW q \in Entries
        PROVE  Shares(q)' = IF q = r THEN Shares(q) \cup {i} ELSE Shares(q)
    <3>1. \A u \in Threads : u \in Shares(q)' <=> q \in Range(list'[u]) \cup Range(todo'[u])
      BY Zenon DEF Shares
    <3>2. \A u \in Threads : u \in Shares(q) <=> q \in Range(list[u]) \cup Range(todo[u])
      BY Zenon DEF Shares
    <3>3. Shares(q)' \subseteq Threads /\ Shares(q) \subseteq Threads
      BY Zenon DEF Shares
    <3> QED BY <1>1, <1>2, <1>6, <2>1, <3>1, <3>2, <3>3, ZenonT(60)
  <2> QED BY <1>1, <1>3, <1>4, <1>6, <2>2, Zenon
<1> QED BY <1>5, <1>6, Zenon

\* Who brings the counter to zero has the last share: nobody adds the batch
\* any more, and no other list has it.
LEMMA LastShare ==
  ASSUME TypeOK, Sections, Listed, Adding, Counted, NEW t \in Threads, Traverse(t),
         NEW h, h = Head(todo[t])
  PROVE  /\ members[h] # <<>>
         /\ refc[h] = 1 => Shares(h) = {t} /\ \A u \in Threads : ~Adds(u, h)
<1>1. h \in Entries /\ t \in Shares(h)
  BY Traversed, SharesTraverse, Zenon
<1>2. members[h] # <<>>
  BY <1>1, Zenon DEF Listed
<1>3. ASSUME refc[h] = 1 PROVE Shares(h) = {t} /\ \A u \in Threads : ~Adds(u, h)
  <2>0. Shares(h) \in SUBSET Threads
    BY Zenon DEF Shares
  <2>1. Cardinality(Shares(h)) \in Nat /\ Cardinality(Shares(h)) # 0
    BY <1>1, <2>0, ThreadSets, Zenon
  <2>2. ASSUME NEW u \in Threads, Adds(u, h) PROVE FALSE
    <3>1. refc[h] = Cardinality(Shares(h)) + REFC_PROTECT - add[u].cnt
      BY <1>1, <1>2, <2>2, Zenon DEF Counted
    <3>2. add[u].cnt \in Nat /\ add[u].cnt <= N
      BY AddView, Zenon
    <3> QED BY <1>3, <2>1, <3>1, <3>2, HyalineAssumption
  <2>3. Cardinality(Shares(h)) = 1
    BY <1>1, <1>2, <1>3, <2>2, Zenon DEF Counted
  <2> QED BY <1>1, <2>0, <2>2, <2>3, ThreadSets, Zenon
<1> QED BY <1>2, <1>3, Zenon

\* add_batch brings the counter to zero when all shares are given up already.
LEMMA NoShare ==
  ASSUME TypeOK, Listed, Adding, Counted, NEW t \in Threads, AddCount(t),
         NEW r, r = add[t].refs
  PROVE  /\ Adds(t, r) /\ members[r] # <<>>
         /\ refc[r] = Cardinality(Shares(r)) + REFC_PROTECT - add[t].cnt
         /\ refc[r] = -(add[t].cnt - REFC_PROTECT) <=> Shares(r) = {}
<1>1. r \in Entries /\ add[t].slot = N + 1 /\ add[t].cnt \in Nat
  BY BatchCounted, Zenon
<1>2. Adds(t, r)
  BY <1>1, HyalineAssumption DEF Adds
<1>3. members[r] # <<>> /\ refc[r] = Cardinality(Shares(r)) + REFC_PROTECT - add[t].cnt
  BY <1>1, <1>2, Zenon DEF Adding, Counted
<1>4. Shares(r) \in SUBSET Threads
  BY Zenon DEF Shares
<1>5. Cardinality(Shares(r)) \in Nat /\ (Cardinality(Shares(r)) = 0 <=> Shares(r) = {})
  BY <1>4, ThreadSets, Zenon
<1>6. refc[r] = -(add[t].cnt - REFC_PROTECT) <=> Cardinality(Shares(r)) = 0
  BY <1>1, <1>3, <1>5, HyalineAssumption
<1> QED BY <1>2, <1>3, <1>5, <1>6, Zenon

-----------------------------------------------------------------------------
\* Lists, batches on their way and their counters, action by action.

Batches == Listed /\ Adding /\ Counted

\* The REFS node of a batch on its way is in no local batch.
LEMMA RefsApart ==
  ASSUME TypeOK, Placed
  PROVE  /\ \A r \in Entries, t \in Threads :
              members[r] # <<>> /\ local_batch[t] # <<>> => Refs(local_batch[t]) # r
         /\ \A r \in Entries : members[r] # <<>> => r \in Range(members[r]) /\ r \in retired
         /\ \A t \in Threads : local_batch[t] # <<>> =>
              Refs(local_batch[t]) \in Range(local_batch[t]) /\ Refs(local_batch[t]) \in Entries
<1>1. \A r \in Entries : members[r] # <<>> => r \in Range(members[r])
  BY Zenon DEF Placed, Distinct
<1>2. \A t \in Threads : local_batch[t] # <<>> =>
        Refs(local_batch[t]) \in Range(local_batch[t]) /\ Refs(local_batch[t]) \in Entries
  BY ListView, SeqElements
<1>3. /\ \A t \in Threads, r \in Entries : Range(local_batch[t]) \cap Range(members[r]) = {}
      /\ \A r \in Entries : Range(members[r]) \subseteq retired
  BY Apart, Zenon
<1> QED BY <1>1, <1>2, <1>3, Zenon

\* A step that leaves lists and batches on their way alone.
LEMMA BatchesCounters ==
  ASSUME Batches, UNCHANGED <<list, todo, members, add>>,
         \A r \in Entries : members[r] # <<>> => refc'[r] = refc[r],
         \A t \in Threads : local_batch'[t] # <<>> => refc'[Refs(local_batch'[t])] = REFC_PROTECT
  PROVE  Batches'
<1>1. /\ \A r \in Entries : Shares(r)' = Shares(r)
      /\ \A u \in Threads, r \in Entries : Adds(u, r)' <=> Adds(u, r)
  BY Zenon DEF Shares, Adds
<1>2. Listed'
  BY <1>1, Zenon DEF Batches, Listed
<1>3. Adding'
  BY <1>1, Zenon DEF Batches, Adding
<1>4. Counted'
  BY <1>1, Zenon DEF Batches, Counted, Refs
<1> QED BY <1>2, <1>3, <1>4, Zenon DEF Batches

LEMMA BatchesSame ==
  ASSUME Batches, UNCHANGED <<list, todo, members, add, refc, local_batch>>
  PROVE  Batches'
BY BatchesCounters, Zenon DEF Batches, Counted

LEMMA BatchesSection ==
  ASSUME TypeOK, Sections, Batches, NEW t \in Threads,
         BeginCriticalSection(t) \/ EndCriticalSection(t)
  PROVE  Batches'
<1> USE DEF batch_vars
<1>1. \A r \in Entries : Shares(r)' = Shares(r)
  BY SharesSection, Zenon
<1>2. UNCHANGED <<members, add, refc, local_batch>>
  BY Zenon DEF BeginCriticalSection, EndCriticalSection
<1>3. \A u \in Threads, r \in Entries : Adds(u, r)' <=> Adds(u, r)
  BY <1>2, Zenon DEF Adds
<1>4. \A u \in Threads : IsInjective(list'[u]) /\ IsInjective(todo'[u])
  <2>1. /\ list \in [Threads -> Seq(Entries) \cup {invptr}]
        /\ todo \in [Threads -> Seq(Entries)]
    BY Zenon DEF TypeOK
  <2>2. IsInjective(invptr) /\ IsInjective(<<>>)
    BY InvPtr, EmptyElements, Zenon
  <2>3. CASE BeginCriticalSection(t)
    BY <2>1, <2>2, <2>3, Zenon DEF BeginCriticalSection, Batches, Listed
  <2>4. CASE EndCriticalSection(t)
    BY <2>1, <2>2, <2>4, Zenon DEF EndCriticalSection, Batches, Listed
  <2> QED BY <2>3, <2>4, Zenon
<1>5. Listed'
  BY <1>1, <1>2, <1>4, Zenon DEF Batches, Listed
<1>6. Adding'
  BY <1>1, <1>2, <1>3, Zenon DEF Batches, Adding
<1>7. Counted'
  BY <1>1, <1>2, <1>3, Zenon DEF Batches, Counted, Refs
<1> QED BY <1>5, <1>6, <1>7, Zenon DEF Batches

LEMMA BatchesTraverse ==
  ASSUME TypeOK, Sections, Placed, Batches, NEW t \in Threads, Traverse(t)
  PROVE  Batches'
<1>0. Listed /\ Adding /\ Counted
  BY Zenon DEF Batches
<1>1. PICK h \in Entries : h = Head(todo[t])
  BY Traversed, Zenon
<1>2. /\ FetchAdd(t, h, -1) /\ todo[t] # <<>> /\ todo'[t] = Tail(todo[t])
      /\ \A u \in Threads \ {t} : todo'[u] = todo[u]
  BY <1>1, Traversed, Zenon
<1>3. /\ refc'[h] = refc[h] + (-1)
      /\ \A q \in Entries \ {h} : refc'[q] = refc[q] /\ members'[q] = members[q]
      /\ refc[h] # -(-1) => members' = members
      /\ refc[h] = -(-1) => members'[h] = <<>>
  BY <1>2, Fetched
<1>4. UNCHANGED <<list, add, local_batch>>
  BY Zenon DEF Traverse
<1>5. /\ t \in Shares(h) /\ Shares(h)' = Shares(h) \ {t}
      /\ \A r \in Entries \ {h} : Shares(r)' = Shares(r)
  BY <1>0, <1>1, SharesTraverse, Zenon
<1>6. /\ members[h] # <<>>
      /\ refc[h] = 1 => Shares(h) = {t} /\ \A u \in Threads : ~Adds(u, h)
  BY <1>0, <1>1, LastShare, Zenon
<1>7. \A u \in Threads, r \in Entries : Adds(u, r)' <=> Adds(u, r)
  BY <1>4, Zenon DEF Adds
<1>8. refc[h] \in Int
  BY Zenon DEF TypeOK
<1>9. Listed'
  <2>1. IsInjective(Tail(todo[t]))
    <3>1. todo[t] \in Seq(Entries) /\ IsInjective(todo[t])
      BY <1>0, ListView, Zenon DEF Listed
    <3> QED BY <1>2, <3>1, SeqTail, Zenon
  <2>2. \A u \in Threads : IsInjective(list'[u]) /\ IsInjective(todo'[u])
    BY <1>0, <1>2, <1>4, <2>1, Zenon DEF Listed
  <2>3. ASSUME NEW r \in Entries, members'[r] = <<>> PROVE Shares(r)' = {}
    <3>1. CASE r = h
      BY <1>3, <1>5, <1>6, <2>3, <3>1
    <3>2. CASE r # h
      BY <1>0, <1>3, <1>5, <2>3, <3>2, Zenon DEF Listed
    <3> QED BY <3>1, <3>2, Zenon
  <2> QED BY <2>2, <2>3, Zenon DEF Listed
<1>10. Adding'
  <2> SUFFICES ASSUME NEW u \in Threads, NEW r \in Entries, Adds(u, r)'
               PROVE  /\ members'[r] # <<>>
                      /\ add'[u].cnt < add'[u].slot
                      /\ \A s \in Shares(r)' : s < add'[u].slot
                      /\ \A v \in Threads : Adds(v, r)' => v = u
    BY Zenon DEF Adding
  <2>1. Adds(u, r)
    BY <1>7, Zenon
  <2>2. members'[r] # <<>>
    BY <1>0, <1>3, <1>6, <2>1 DEF Adding
  <2>3. Shares(r)' \subseteq Shares(r)
    BY <1>5, Zenon
  <2> QED BY <1>0, <1>4, <1>7, <2>1, <2>2, <2>3, Zenon DEF Adding
<1>11. Counted'
  <2>1. \A u \in Threads : local_batch'[u] # <<>> => refc'[Refs(local_batch'[u])] = REFC_PROTECT
    BY <1>0, <1>3, <1>4, <1>6, RefsApart, Zenon DEF Counted
  <2>2. ASSUME NEW r \in Entries, members'[r] # <<>>
        PROVE  /\ \A u \in Threads : Adds(u, r)' =>
                    refc'[r] = Cardinality(Shares(r)') + REFC_PROTECT - add'[u].cnt
               /\ (\A u \in Threads : ~Adds(u, r)') =>
                    refc'[r] = Cardinality(Shares(r)') /\ refc'[r] > 0
    <3>1. CASE r # h
      BY <1>0, <1>3, <1>4, <1>5, <1>7, <2>2, <3>1, Zenon DEF Counted
    <3>2. CASE r = h
      <4>1. refc[h] # 1
        BY <1>3, <2>2, <3>2
      <4>2. Shares(h) \in SUBSET Threads
        BY Zenon DEF Shares
      <4>3. Cardinality(Shares(h)) \in Nat /\ Cardinality(Shares(h)') = Cardinality(Shares(h)) - 1
        BY <1>5, <4>2, ThreadSets
      <4>4. ASSUME NEW u \in Threads, Adds(u, h)
            PROVE  refc'[h] = Cardinality(Shares(h)') + REFC_PROTECT - add'[u].cnt
        <5>1. refc[h] = Cardinality(Shares(h)) + REFC_PROTECT - add[u].cnt
          BY <1>0, <1>6, <4>4, Zenon DEF Counted
        <5>2. add[u].cnt \in Nat
          BY AddView, Zenon
        <5> QED BY <1>3, <1>4, <4>3, <5>1, <5>2, HyalineAssumption, SMTT(30)
      <4>5. ASSUME \A u \in Threads : ~Adds(u, h)
            PROVE  refc'[h] = Cardinality(Shares(h)') /\ refc'[h] > 0
        <5>1. refc[h] = Cardinality(Shares(h)) /\ refc[h] > 0
          BY <1>0, <1>6, <4>5, Zenon DEF Counted
        <5> QED BY <1>3, <4>1, <4>3, <5>1
      <4> QED BY <1>7, <3>2, <4>4, <4>5, Zenon
    <3> QED BY <3>1, <3>2, Zenon
  <2> QED BY <2>1, <2>2, Zenon DEF Counted, Refs
<1> QED BY <1>9, <1>10, <1>11, Zenon DEF Batches
=============================================================================
