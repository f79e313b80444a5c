------------------------ MODULE AcquireRetireProofs -------------------------
(***************************************************************************)
(* What the proofs about the clients of AcquireRetire rest on: sums over   *)
(* threads, the slots that a scan reads, and what retiring and collecting  *)
(* do to the list of a thread.                                             *)
(***************************************************************************)
EXTENDS AcquireRetire, FiniteSetTheorems, WellFoundedInduction, TLAPS

-----------------------------------------------------------------------------
\* SumFunction, which is defined by recursion over the domain, is a cardinality.

\* f[t] tokens for each t in S.
Tokens(f, S) == UNION {{t} \X (1..f[t]) : t \in S}

LEMMA TokensFinite ==
  ASSUME NEW S, IsFiniteSet(S), NEW f, \A t \in S : f[t] \in Nat
  PROVE  IsFiniteSet(Tokens(f, S)) /\ Cardinality(Tokens(f, S)) \in Nat
<1> DEFINE g == [t \in S |-> {t} \X (1..f[t])]
           T == {{t} \X (1..f[t]) : t \in S}
<1>1. g \in Surjection(S, T)
  BY Zenon DEF Surjection
<1>2. IsFiniteSet(T)
  BY <1>1, FS_Surjection, Zenon
<1>3. ASSUME NEW X \in T PROVE IsFiniteSet(X)
  <2>1. PICK t \in S : X = {t} \X (1..f[t])
    BY Zenon
  <2>2. IsFiniteSet({t}) /\ IsFiniteSet(1..f[t])
    <3>1. 1 \in Int /\ f[t] \in Int
      OBVIOUS
    <3> QED BY <3>1, FS_Singleton, FS_Interval, Zenon
  <2> QED BY <2>1, <2>2, FS_Product, Zenon
<1>4. IsFiniteSet(UNION T)
  BY <1>2, <1>3, FS_UNION, Zenon
<1>5. IsFiniteSet(Tokens(f, S))
  BY <1>4, Zenon DEF Tokens
<1> QED BY <1>5, FS_CardinalityType, Zenon

LEMMA TokensSplit ==
  ASSUME NEW S, IsFiniteSet(S), NEW f, \A t \in S : f[t] \in Nat, NEW x \in S
  PROVE  Cardinality(Tokens(f, S)) = f[x] + Cardinality(Tokens(f, S \ {x}))
<1> DEFINE A == {x} \X (1..f[x])
           B == Tokens(f, S \ {x})
<1>1. IsFiniteSet(S \ {x}) /\ \A t \in S \ {x} : f[t] \in Nat
  BY FS_RemoveElement, Zenon
<1>2. IsFiniteSet(B) /\ Cardinality(B) \in Nat
  BY <1>1, TokensFinite, Zenon
<1>3. IsFiniteSet({x}) /\ Cardinality({x}) = 1
  BY FS_Singleton, Zenon
<1>4. IsFiniteSet(1..f[x]) /\ Cardinality(1..f[x]) = f[x]
  BY FS_Interval
<1>5. IsFiniteSet(A) /\ Cardinality(A) = f[x]
  BY <1>3, <1>4, FS_Product
<1>6. A \cap B = {}
  BY DEF Tokens
<1>7. Tokens(f, S) = A \cup B
  BY Zenon DEF Tokens
<1>8. Cardinality(A \cap B) = 0
  BY <1>6, FS_EmptySet, Zenon
<1> HIDE DEF A, B
<1>9. Cardinality(A \cup B) = Cardinality(A) + Cardinality(B) - Cardinality(A \cap B)
  BY <1>2, <1>5, FS_Union, Zenon
<1> QED BY <1>2, <1>5, <1>7, <1>8, <1>9 DEF B

LEMMA SumIsCardinality ==
  ASSUME NEW S, IsFiniteSet(S), NEW f, \A t \in S : f[t] \in Nat
  PROVE  SumFunctionOnSet(f, S) = Cardinality(Tokens(f, S))
<1> DEFINE ch(s) == CHOOSE x \in s : TRUE
           Eqn(g) == g = [s \in SUBSET S |-> IF s = {} THEN 0 ELSE f[ch(s)] + g[s \ {ch(s)}]]
           G == [s \in SUBSET S |-> Cardinality(Tokens(f, s))]
           It == CHOOSE g : Eqn(g)
<1>1. \A s \in SUBSET S : IsFiniteSet(s) /\ Cardinality(s) \in Nat
  BY FS_Subset, FS_CardinalityType, Zenon
<1>2. \A s \in SUBSET S : s # {} => ch(s) \in s
  BY Zenon
<1>3. \A s \in SUBSET S : s # {} => Cardinality(Tokens(f, s)) = f[ch(s)] + Cardinality(Tokens(f, s \ {ch(s)}))
  <2> TAKE s \in SUBSET S
  <2> HAVE s # {}
  <2> DEFINE x == ch(s)
  <2>1. x \in s /\ IsFiniteSet(s) /\ \A t \in s : f[t] \in Nat
    BY <1>1, <1>2, Zenon
  <2> HIDE DEF x
  <2>2. Cardinality(Tokens(f, s)) = f[x] + Cardinality(Tokens(f, s \ {x}))
    BY <2>1, TokensSplit, Zenon
  <2> QED BY <2>2, Zenon DEF x
<1>4. Cardinality(Tokens(f, {})) = 0
  <2>1. Tokens(f, {}) = {}
    BY Zenon DEF Tokens
  <2> QED BY <2>1, FS_EmptySet, Zenon
<1>5. Eqn(G)
  <2>1. ASSUME NEW s \in SUBSET S
        PROVE  G[s] = IF s = {} THEN 0 ELSE f[ch(s)] + G[s \ {ch(s)}]
    <3> HIDE DEF ch
    <3>1. s \ {ch(s)} \in SUBSET S
      BY Zenon
    <3> QED BY <1>3, <1>4, <3>1, Zenon
  <2> QED BY <2>1, Zenon
<1>6. Eqn(It)
  <2> HIDE DEF Eqn, G
  <2> QED BY <1>5, Zenon
<1>7. SumFunctionOnSet(f, S) = It[S]
  BY Zenon DEF SumFunctionOnSet, FoldFunctionOnSet, MapThenFoldSet
<1> HIDE DEF It, ch
<1>8. \A s \in SUBSET S : It[s] = IF s = {} THEN 0 ELSE f[ch(s)] + It[s \ {ch(s)}]
  BY <1>6, Zenon
<1>9. \A s \in SUBSET S : G[s] = IF s = {} THEN 0 ELSE f[ch(s)] + G[s \ {ch(s)}]
  BY <1>5, Zenon
<1> HIDE DEF G
<1>10. ASSUME NEW s \in SUBSET S, It[s] # G[s]
       PROVE  s # {} /\ It[s \ {ch(s)}] # G[s \ {ch(s)}]
  BY <1>8, <1>9, <1>10, Zenon
<1>11. \A s \in SUBSET S : It[s] = G[s]
  <2> DEFINE Bad == {s \in SUBSET S : It[s] # G[s]}
             R == StrictSubsetOrdering(S)
  <2>1. FiniteSubsetsOf(S) = SUBSET S
    BY <1>1, Zenon DEF FiniteSubsetsOf
  <2>2. IsWellFoundedOn(R, SUBSET S)
    BY <2>1, FS_StrictSubsetOrderingWellFounded, Zenon
  <2>3. SUFFICES ASSUME Bad # {} PROVE FALSE
    BY Zenon
  <2>4. PICK s \in Bad : \A r \in Bad : <<r, s>> \notin R
    <3> HIDE DEF Bad, R
    <3>1. Bad \subseteq SUBSET S
      BY Zenon DEF Bad
    <3> QED BY <2>2, <2>3, <3>1, WFMin, Zenon
  <2>5. s \ {ch(s)} \in Bad
    BY <1>10, Zenon
  <2>6. ch(s) \in s
    BY <1>2, <1>10, Zenon
  <2> QED BY <2>4, <2>5, <2>6, Zenon DEF StrictSubsetOrdering
<1> QED BY <1>7, <1>11, Zenon DEF G

LEMMA SumSplit ==
  ASSUME NEW S, IsFiniteSet(S), NEW f \in [S -> Nat], NEW x \in S
  PROVE  SumFunction(f) = f[x] + Cardinality(Tokens(f, S \ {x}))
BY SumIsCardinality, TokensSplit DEF SumFunction

LEMMA SumUpdate ==
  ASSUME NEW S, IsFiniteSet(S), NEW f \in [S -> Nat], NEW g \in [S -> Nat], NEW x \in S,
         \A u \in S \ {x} : f[u] = g[u]
  PROVE  SumFunction(f) \in Nat /\ SumFunction(g) \in Nat /\ f[x] <= SumFunction(f)
         /\ SumFunction(g) = SumFunction(f) + g[x] - f[x]
<1>1. Tokens(f, S \ {x}) = Tokens(g, S \ {x})
  BY Zenon DEF Tokens
<1>2. Cardinality(Tokens(f, S \ {x})) \in Nat
  BY FS_RemoveElement, TokensFinite, Zenon
<1>3. SumFunction(f) = f[x] + Cardinality(Tokens(f, S \ {x}))
  BY SumSplit, Zenon
<1>4. SumFunction(g) = g[x] + Cardinality(Tokens(g, S \ {x}))
  BY SumSplit, Zenon
<1>5. f[x] \in Nat /\ g[x] \in Nat
  BY Zenon
<1> QED BY <1>1, <1>2, <1>3, <1>4, <1>5

LEMMA SumMonotonic ==
  ASSUME NEW S, IsFiniteSet(S), NEW f \in [S -> Nat], NEW g \in [S -> Nat], NEW x \in S,
         NEW d \in Nat, \A u \in S : f[u] <= g[u], f[x] + d <= g[x]
  PROVE  SumFunction(f) \in Nat /\ SumFunction(g) \in Nat /\ SumFunction(f) + d <= SumFunction(g)
<1> DEFINE h == [g EXCEPT ![x] = @ - d]
<1>1. /\ h \in [S -> Nat] /\ h[x] = g[x] - d
      /\ \A u \in S \ {x} : h[u] = g[u]
      /\ \A u \in S : f[u] <= h[u]
  OBVIOUS
<1> HIDE DEF h
<1>2. SumFunction(g) \in Nat /\ SumFunction(h) \in Nat /\ SumFunction(g) = SumFunction(h) + d
  BY <1>1, SumUpdate
<1>3. /\ SumFunction(f) = Cardinality(Tokens(f, S)) /\ SumFunction(h) = Cardinality(Tokens(h, S))
      /\ IsFiniteSet(Tokens(h, S)) /\ Cardinality(Tokens(f, S)) \in Nat
  BY <1>1, SumIsCardinality, TokensFinite, Zenon DEF SumFunction
<1>4. Tokens(f, S) \subseteq Tokens(h, S)
  BY <1>1 DEF Tokens
<1>5. Cardinality(Tokens(f, S)) <= Cardinality(Tokens(h, S))
  BY <1>3, <1>4, FS_Subset, Zenon
<1> QED BY <1>2, <1>3, <1>5

LEMMA SumOfOne ==
  ASSUME NEW S, IsFiniteSet(S), NEW f \in [S -> Nat], NEW x \in S, \A u \in S \ {x} : f[u] = 0
  PROVE  SumFunction(f) = f[x]
<1>1. Tokens(f, S \ {x}) = {}
  BY DEF Tokens
<1>2. SumFunction(f) = f[x] + Cardinality(Tokens(f, S \ {x}))
  BY SumSplit, Zenon
<1>3. Cardinality(Tokens(f, S \ {x})) = 0 /\ f[x] \in Nat
  BY <1>1, FS_EmptySet, Zenon
<1> QED BY <1>2, <1>3

Bit(b) == IF b THEN 1 ELSE 0

\* Two sets that differ at most in x.
LEMMA SetStep ==
  ASSUME NEW S, IsFiniteSet(S), NEW T, NEW x, S \ {x} = T \ {x}
  PROVE  /\ IsFiniteSet(T) /\ Cardinality(S) \in Nat /\ Cardinality(T) \in Nat
         /\ Cardinality(T) = Cardinality(S) + Bit(x \in T) - Bit(x \in S)
<1>1. Cardinality(S) \in Nat
  BY FS_CardinalityType, Zenon
<1>2. IsFiniteSet(S \ {x}) /\ Cardinality(S \ {x}) = Cardinality(S) - Bit(x \in S)
  BY <1>1, FS_RemoveElement DEF Bit
<1>3. IsFiniteSet(T)
  <2>1. T = S \ {x} \/ T = (S \ {x}) \cup {x}
    BY Zenon
  <2> QED BY <1>2, <2>1, FS_AddElement
<1>4. Cardinality(T) \in Nat
  BY <1>3, FS_CardinalityType, Zenon
<1>5. Cardinality(T \ {x}) = Cardinality(T) - Bit(x \in T)
  BY <1>3, <1>4, FS_RemoveElement DEF Bit
<1>6. Cardinality(S) - Bit(x \in S) = Cardinality(T) - Bit(x \in T)
  BY <1>2, <1>5, Zenon
<1>7. Bit(x \in S) \in Nat /\ Bit(x \in T) \in Nat
  BY Zenon DEF Bit
<1> QED BY <1>1, <1>3, <1>4, <1>6, <1>7

-----------------------------------------------------------------------------
\* The slots in the order of the scan.

SlotThread(i) == 1 + (i - 1) \div (1 + snapshot_slots)
SlotNumber(i) == (i - 1) % (1 + snapshot_slots)

LEMMA TimesMonotonic ==
  ASSUME NEW a \in Nat, NEW b \in Nat, NEW k \in Nat, a < b
  PROVE  a * k \in Nat /\ a * k + k <= b * k
<1>1. PICK d \in Nat : b = a + 1 + d
  <2>1. b - a - 1 \in Nat /\ b = a + 1 + (b - a - 1)
    OBVIOUS
  <2> QED BY <2>1, Zenon
<1>2. b * k = a * k + k + d * k
  BY <1>1
<1>3. a * k \in Nat /\ d * k \in Nat
  OBVIOUS
<1> QED BY <1>2, <1>3

LEMMA Division ==
  ASSUME NEW q \in Nat, NEW k \in Nat \ {0}, NEW s \in 0..(k - 1), NEW n, n = q * k + s
  PROVE  n \div k = q /\ n % k = s
<1> DEFINE p == n \div k
           r == n % k
<1>1. n \in Nat /\ q * k \in Nat
  OBVIOUS
<1>2. p \in Nat /\ r \in 0..(k - 1) /\ n = p * k + r
  BY <1>1
<1> HIDE DEF p, r
<1>3. ~(p < q)
  BY <1>1, <1>2, TimesMonotonic
<1>4. ~(q < p)
  BY <1>1, <1>2, TimesMonotonic
<1>5. p = q
  BY <1>2, <1>3, <1>4
<1>6. r = s
  BY <1>1, <1>2, <1>5
<1> QED BY <1>5, <1>6, Zenon DEF p, r

\* The scan reads every slot of every thread.
LEMMA SlotView ==
  /\ ScanLength \in Nat
  /\ \A i \in 1..ScanLength : SlotThread(i) \in Threads /\ SlotNumber(i) \in 0..snapshot_slots
  /\ \A t \in Threads, s \in 0..snapshot_slots :
       \E i \in 1..ScanLength : SlotThread(i) = t /\ SlotNumber(i) = s
<1> DEFINE K == 1 + snapshot_slots
<1>0. N \in Nat /\ K \in Nat \ {0} /\ ScanLength = N * K
  BY ManagerAssumption DEF ScanLength
<1> HIDE DEF K
<1>1. ScanLength \in Nat
  BY <1>0
<1>2. ASSUME NEW i \in 1..ScanLength
      PROVE  SlotThread(i) \in Threads /\ SlotNumber(i) \in 0..snapshot_slots
  <2> DEFINE q == (i - 1) \div K
             r == (i - 1) % K
  <2>1. q \in Nat /\ r \in 0..(K - 1) /\ i - 1 = q * K + r
    BY <1>0, <1>1
  <2>2. q * K < N * K
    BY <1>0, <2>1
  <2>3. q < N
    BY <1>0, <2>1, <2>2
  <2> QED BY <2>1, <2>3, <1>0, ManagerAssumption DEF SlotThread, SlotNumber, Threads, K
<1>3. ASSUME NEW t \in Threads, NEW s \in 0..snapshot_slots
      PROVE  \E i \in 1..ScanLength : SlotThread(i) = t /\ SlotNumber(i) = s
  <2>1. PICK q \in Nat : t = q + 1 /\ q < N
    <3>1. t - 1 \in Nat /\ t = (t - 1) + 1 /\ t - 1 < N
      BY ManagerAssumption DEF Threads
    <3> QED BY <3>1, Zenon
  <2> DEFINE i == q * K + s + 1
  <2>2. s \in 0..(K - 1)
    BY ManagerAssumption DEF K
  <2>3. q * K \in Nat /\ q * K + K <= N * K
    BY <1>0, <2>1, TimesMonotonic, Zenon
  <2>4. i \in 1..ScanLength /\ i - 1 = q * K + s
    BY <1>0, <2>2, <2>3
  <2>5. (i - 1) \div K = q /\ (i - 1) % K = s
    BY <1>0, <2>2, <2>4, Division
  <2> QED BY <2>1, <2>4, <2>5 DEF SlotThread, SlotNumber, K
<1> QED BY <1>1, <1>2, <1>3, Zenon

-----------------------------------------------------------------------------
\* Lists of deferred actions, and what a collection will leave of them.

LEMMA MinOfTwo ==
  ASSUME NEW a \in Nat, NEW b \in Nat
  PROVE  Min({a, b}) = IF a <= b THEN a ELSE b
<1> DEFINE m == IF a <= b THEN a ELSE b
<1>1. m \in {a, b} /\ \A x \in {a, b} : m <= x
  OBVIOUS
<1>2. \A y \in {a, b} : (\A x \in {a, b} : y <= x) => y = m
  OBVIOUS
<1> QED BY <1>1, <1>2, Zenon DEF Min

\* How many equal entries for o a scan will protect when the slots in Q keep
\* announcing it.
Cap(m, Q, o) ==
  LET ahead == Cardinality({i \in Q : i >= m.at}) IN
  m.announced[o] + ahead + Bit(m.announced[o] = 0 /\ ahead > 0)

\* The entries equal to e that the thread has, and those that a collection
\* leaves as long as the slots in Q announce the object.
Total(m, e) == m.deferred[e] + m.deferred_destructs[e]
KeptOf(m, Q, e) ==
  m.deferred_destructs[e]
  + (IF m.phase = "scan" THEN Min({m.deferred[e], Cap(m, Q, e[1])}) ELSE 0)

\* The local state of a thread between two steps.
LocalOK(m) ==
  /\ m \in Local
  /\ IF m.phase = "scan" THEN m.at # 0 ELSE m.announced = EmptyBag
  /\ m.phase = "off" => m.deferred = NoEntries

Ending(m) == m.phase \in {"drain", "drained"}

SlotSets == {Q \in SUBSET (1..ScanLength) : Q # {}}

\* From m to n the thread has retired e, or nothing when e is not an entry,
\* and may have started or finished a collection.
Retired(m, n, e) ==
  /\ LocalOK(n)
  /\ Ending(m) \/ Ending(n) => m.phase = n.phase /\ m.deferred = n.deferred
  /\ \A d \in Entries : Total(n, d) = Total(m, d) + Bit(d = e)
  /\ \A d \in Entries, Q \in SlotSets :
       \/ KeptOf(n, Q, d) >= KeptOf(m, Q, d) + Bit(d = e)
       \/ KeptOf(n, Q, d) > Cardinality(Q)

LEMMA AheadFinite ==
  ASSUME NEW Q \in SUBSET (1..ScanLength), NEW k
  PROVE  /\ IsFiniteSet(Q) /\ Cardinality(Q) \in Nat
         /\ IsFiniteSet({i \in Q : i >= k}) /\ Cardinality({i \in Q : i >= k}) \in Nat
<1>1. IsFiniteSet(1..ScanLength)
  BY SlotView, FS_Interval
<1>2. IsFiniteSet(Q) /\ IsFiniteSet({i \in Q : i >= k})
  BY <1>1, FS_Subset, Zenon
<1> QED BY <1>2, FS_CardinalityType, Zenon

LEMMA KeptView ==
  ASSUME NEW m, m \in Local, NEW Q \in SUBSET (1..ScanLength), NEW e \in Entries
  PROVE  /\ e[1] \in Objects
         /\ m.deferred[e] \in Nat /\ m.deferred_destructs[e] \in Nat
         /\ m.announced[e[1]] \in Nat /\ Total(m, e) \in Nat
         /\ Cap(m, Q, e[1]) \in Nat /\ KeptOf(m, Q, e) \in Nat
         /\ m.phase # "scan" => KeptOf(m, Q, e) = m.deferred_destructs[e]
         /\ m.phase = "scan" =>
              KeptOf(m, Q, e) = m.deferred_destructs[e]
                + (IF m.deferred[e] <= Cap(m, Q, e[1]) THEN m.deferred[e] ELSE Cap(m, Q, e[1]))
<1>1. e[1] \in Objects
  BY Zenon DEF Entries
<1>2. m.deferred[e] \in Nat /\ m.deferred_destructs[e] \in Nat /\ m.announced[e[1]] \in Nat
  BY <1>1, Zenon DEF Local
<1>3. Cardinality({i \in Q : i >= m.at}) \in Nat
  BY AheadFinite, Zenon
<1>4. Cap(m, Q, e[1]) \in Nat
  BY <1>2, <1>3 DEF Cap, Bit
<1>5. Min({m.deferred[e], Cap(m, Q, e[1])}) =
        IF m.deferred[e] <= Cap(m, Q, e[1]) THEN m.deferred[e] ELSE Cap(m, Q, e[1])
  BY <1>2, <1>4, MinOfTwo, Zenon
<1> QED BY <1>1, <1>2, <1>4, <1>5 DEF KeptOf, Total

LEMMA KeptMonotonic ==
  ASSUME NEW m, m \in Local, NEW e \in Entries,
         NEW Q \in SUBSET (1..ScanLength), NEW P \in SUBSET Q
  PROVE  KeptOf(m, P, e) <= KeptOf(m, Q, e)
<1> DEFINE A(S) == {i \in S : i >= m.at}
<1>1. /\ IsFiniteSet(A(Q)) /\ Cardinality(A(Q)) \in Nat /\ Cardinality(A(P)) \in Nat
      /\ P \in SUBSET (1..ScanLength)
  BY AheadFinite, Zenon
<1>2. A(P) \subseteq A(Q)
  BY Zenon
<1>3. Cardinality(A(P)) <= Cardinality(A(Q))
  BY <1>1, <1>2, FS_Subset, Zenon
<1>4. m.announced[e[1]] \in Nat
  BY KeptView, Zenon
<1>5. Cap(m, P, e[1]) <= Cap(m, Q, e[1])
  BY <1>1, <1>3, <1>4 DEF Cap, Bit
<1> QED BY <1>1, <1>5, KeptView

\* Reading a slot loses nothing of what the slots in Q keep.
LEMMA ScanKeeps ==
  ASSUME NEW m, LocalOK(m), m.phase = "scan", m.at \in 1..ScanLength, NEW p \in Ptrs,
         NEW n, n \in Local, n.phase = "scan", n.at = m.at + 1,
         n.announced = Announce(m.announced, p),
         n.deferred = m.deferred, n.deferred_destructs = m.deferred_destructs
  PROVE  /\ LocalOK(n) /\ n.phase = "scan"
         /\ \A e \in Entries : Total(n, e) = Total(m, e)
         /\ \A e \in Entries, Q \in SlotSets :
              (m.at \in Q => p = e[1]) => KeptOf(n, Q, e) >= KeptOf(m, Q, e)
<1> DEFINE ann == Announce(m.announced, p)
<1>0. /\ m \in Local /\ ann \in [Objects -> Nat]
      /\ \A o \in Objects :
           ann[o] = IF p # o THEN m.announced[o]
                    ELSE IF m.announced[o] = 0 THEN 2 ELSE m.announced[o] + 1
  BY ManagerAssumption, Zenon DEF LocalOK, Local, Announce, Ptrs
<1> HIDE DEF ann
<1>1. n.announced = ann
  BY Zenon DEF ann
<1>2. LocalOK(n) /\ \A e \in Entries : Total(n, e) = Total(m, e)
  BY <1>0, <1>1 DEF LocalOK, Total, Local
<1>3. ASSUME NEW e \in Entries, NEW Q \in SlotSets, m.at \in Q => p = e[1]
      PROVE  KeptOf(n, Q, e) >= KeptOf(m, Q, e)
  <2> DEFINE A == {i \in Q : i >= m.at}
             B == {i \in Q : i >= n.at}
  <2>1. /\ Q \in SUBSET (1..ScanLength) /\ Q \in SUBSET Int /\ IsFiniteSet(A)
        /\ Cardinality(A) \in Nat /\ Cardinality(B) \in Nat
    <3>1. Q \in SUBSET (1..ScanLength) /\ ScanLength \in Nat
      BY SlotView, Zenon DEF SlotSets
    <3>2. Q \in SUBSET Int
      BY <3>1
    <3> QED BY <3>1, <3>2, AheadFinite, Zenon
  <2>2. A \ {m.at} = B \ {m.at} /\ m.at \notin B /\ (m.at \in A <=> m.at \in Q)
    <3>1. m.at \in Int /\ n.at = m.at + 1
      BY <1>0 DEF Local
    <3>2. \A i \in Int : i >= n.at <=> i >= m.at /\ i # m.at
      BY <3>1
    <3>3. \A i \in Q : i \in B <=> i \in A /\ i # m.at
      BY <2>1, <3>2, Zenon
    <3>4. m.at \in Int => (m.at >= m.at /\ ~(m.at >= n.at))
      BY <3>1
    <3>5. m.at \notin B /\ (m.at \in A <=> m.at \in Q)
      BY <3>1, <3>4, Zenon
    <3> QED BY <3>3, <3>5, Zenon
  <2>3. Cardinality(B) = Cardinality(A) - Bit(m.at \in Q)
    <3> HIDE DEF A, B
    <3> QED BY <2>1, <2>2, SetStep DEF Bit
  <2>4. e[1] \in Objects /\ m.announced[e[1]] \in Nat
    BY <1>0, <2>1, KeptView, Zenon
  <2>5. m.at \in Q => Cardinality(A) > 0
    BY <2>1, <2>3 DEF Bit
  <2> HIDE DEF A, B
  <2>6. /\ Cap(m, Q, e[1]) = m.announced[e[1]] + Cardinality(A)
                             + Bit(m.announced[e[1]] = 0 /\ Cardinality(A) > 0)
        /\ Cap(n, Q, e[1]) = n.announced[e[1]] + Cardinality(B)
                             + Bit(n.announced[e[1]] = 0 /\ Cardinality(B) > 0)
    BY Zenon DEF Cap, A, B
  <2>7. Cap(n, Q, e[1]) >= Cap(m, Q, e[1])
    BY <1>0, <1>1, <1>3, <2>1, <2>3, <2>4, <2>5, <2>6 DEF Bit
  <2>8. /\ KeptOf(m, Q, e) = m.deferred_destructs[e]
             + (IF m.deferred[e] <= Cap(m, Q, e[1]) THEN m.deferred[e] ELSE Cap(m, Q, e[1]))
        /\ m.deferred[e] \in Nat /\ m.deferred_destructs[e] \in Nat /\ Cap(m, Q, e[1]) \in Nat
    BY <1>0, <2>1, KeptView, Zenon
  <2>9. /\ KeptOf(n, Q, e) = n.deferred_destructs[e]
             + (IF n.deferred[e] <= Cap(n, Q, e[1]) THEN n.deferred[e] ELSE Cap(n, Q, e[1]))
        /\ Cap(n, Q, e[1]) \in Nat
    BY <1>1, <2>1, KeptView, Zenon
  <2> QED BY <1>1, <2>7, <2>8, <2>9
<1> QED BY <1>1, <1>2, <1>3, Zenon

LEMMA RetiredNothing ==
  ASSUME NEW m, NEW k, NEW n, NEW e, NEW d, m \in Local, d \notin Entries,
         Retired(m, k, e), Retired(k, n, d)
  PROVE  Retired(m, n, e)
<1>1. m \in Local /\ k \in Local /\ n \in Local
  BY Zenon DEF Retired, LocalOK
<1>2. \A x \in Entries : Bit(x = d) = 0 /\ Bit(x = e) \in Nat
  BY Zenon DEF Bit
<1>3. \A x \in Entries : Total(n, x) = Total(m, x) + Bit(x = e)
  <2> TAKE x \in Entries
  <2>1. Total(m, x) \in Nat
    <3>1. {} \in SUBSET (1..ScanLength)
      BY Zenon
    <3> QED BY <1>1, <3>1, KeptView, Zenon
  <2> QED BY <1>2, <2>1 DEF Retired
<1>4. ASSUME NEW x \in Entries, NEW Q \in SlotSets
      PROVE  \/ KeptOf(n, Q, x) >= KeptOf(m, Q, x) + Bit(x = e)
             \/ KeptOf(n, Q, x) > Cardinality(Q)
  <2>1. Q \in SUBSET (1..ScanLength) /\ Cardinality(Q) \in Nat
    BY AheadFinite, Zenon DEF SlotSets
  <2>2. KeptOf(m, Q, x) \in Nat /\ KeptOf(k, Q, x) \in Nat /\ KeptOf(n, Q, x) \in Nat
    BY <1>1, <2>1, KeptView, Zenon
  <2>3. KeptOf(k, Q, x) >= KeptOf(m, Q, x) + Bit(x = e) \/ KeptOf(k, Q, x) > Cardinality(Q)
    BY Zenon DEF Retired
  <2>4. KeptOf(n, Q, x) >= KeptOf(k, Q, x) + Bit(x = d) \/ KeptOf(n, Q, x) > Cardinality(Q)
    BY Zenon DEF Retired
  <2> QED BY <1>2, <2>1, <2>2, <2>3, <2>4
<1>5. Ending(m) \/ Ending(n) => m.phase = n.phase /\ m.deferred = n.deferred
  BY Zenon DEF Retired, Ending
<1>6. LocalOK(n)
  BY Zenon DEF Retired
<1> QED BY <1>3, <1>4, <1>5, <1>6, Zenon DEF Retired

\* StartCollecting moves the list into a collection, which no slot has been
\* read for yet.
LEMMA StartRetires ==
  ASSUME NEW m, LocalOK(m), NEW e, e \notin Entries
  PROVE  Retired(m, StartCollecting(m), e)
<1> DEFINE n == StartCollecting(m)
<1> SUFFICES Retired(m, n, e)
  BY Zenon
<1>1. m \in Local /\ (\A d \in Entries : Bit(d = e) = 0)
  BY Zenon DEF LocalOK, Bit
<1>2. CASE n = m
  <2>1. \A d \in Entries : Total(m, d) \in Nat /\ \A Q \in SlotSets : KeptOf(m, Q, d) \in Nat
    <3>1. {} \in SUBSET (1..ScanLength)
      BY Zenon
    <3> QED BY <1>1, <3>1, KeptView, Zenon DEF SlotSets
  <2> QED BY <1>1, <1>2, <2>1 DEF Retired
<1>3. CASE n = [m EXCEPT !.amortized_work = 0] /\ m.phase = "off"
  <2>1. /\ n \in Local /\ n.phase = m.phase /\ n.announced = m.announced /\ n.at = m.at
        /\ n.deferred = m.deferred /\ n.deferred_destructs = m.deferred_destructs
    BY <1>1, <1>3 DEF Local
  <2>2. \A d \in Entries : Total(m, d) \in Nat /\ \A Q \in SlotSets : KeptOf(m, Q, d) \in Nat
    <3>1. {} \in SUBSET (1..ScanLength)
      BY Zenon
    <3> QED BY <1>1, <3>1, KeptView, Zenon DEF SlotSets
  <2>3. \A d \in Entries : Total(n, d) = Total(m, d) /\ \A Q \in SlotSets : KeptOf(n, Q, d) = KeptOf(m, Q, d)
    BY <2>1, Zenon DEF Total, KeptOf, Cap
  <2>4. LocalOK(n)
    BY <2>1, Zenon DEF LocalOK
  <2> HIDE DEF n
  <2> QED BY <1>1, <2>1, <2>2, <2>3, <2>4 DEF Retired
<1>4. CASE /\ m.phase = "off"
           /\ n = [m EXCEPT !.amortized_work = 0, !.phase = "scan", !.at = 1,
                            !.deferred = m.deferred_destructs, !.deferred_destructs = NoEntries]
  <2>0. NoEntries \in [Entries -> Nat] /\ \A d \in Entries : NoEntries[d] = 0
    BY Zenon DEF NoEntries
  <2>1. /\ n \in Local /\ n.phase = "scan" /\ n.announced = m.announced /\ n.at = 1
        /\ n.deferred = m.deferred_destructs /\ n.deferred_destructs = NoEntries
    <3>1. n \in Local
      <4>1. n = [deferred_destructs |-> NoEntries, amortized_work |-> 0, phase |-> "scan", at |-> 1,
                 announced |-> m.announced, deferred |-> m.deferred_destructs]
        BY <1>1, <1>4, Zenon DEF Local
      <4>2. m.announced \in [Objects -> Nat] /\ m.deferred_destructs \in [Entries -> Nat]
        BY <1>1, Zenon DEF Local
      <4> HIDE DEF n
      <4> QED BY <2>0, <4>1, <4>2, Zenon DEF Local
    <3>2. n.phase = "scan" /\ n.announced = m.announced /\ n.at = 1
      BY <1>1, <1>4, <2>0, Zenon DEF Local
    <3>3. n.deferred = m.deferred_destructs /\ n.deferred_destructs = NoEntries
      BY <1>1, <1>4, <2>0, Zenon DEF Local
    <3> QED BY <3>1, <3>2, <3>3, Zenon
  <2>2. m.deferred = NoEntries /\ m.announced = EmptyBag
    BY <1>4, Zenon DEF LocalOK
  <2> HIDE DEF n
  <2>3. LocalOK(n) /\ ~Ending(m) /\ ~Ending(n)
    BY <1>4, <2>1 DEF LocalOK, Ending
  <2>4. ASSUME NEW d \in Entries PROVE Total(n, d) = Total(m, d)
    <3>1. m.deferred_destructs[d] \in Nat
      BY <1>1, Zenon DEF Local
    <3> QED BY <2>0, <2>1, <2>2, <3>1 DEF Total
  <2>5. ASSUME NEW d \in Entries, NEW Q \in SlotSets
        PROVE  KeptOf(n, Q, d) >= KeptOf(m, Q, d) \/ KeptOf(n, Q, d) > Cardinality(Q)
    <3>1. Q \in SUBSET (1..ScanLength) /\ Q # {}
      BY Zenon DEF SlotSets
    <3>2. IsFiniteSet(Q) /\ Cardinality(Q) \in Nat
      BY <3>1, AheadFinite, Zenon
    <3>3. Cardinality(Q) > 0
      BY <3>1, <3>2, FS_EmptySet
    <3>4. {i \in Q : i >= n.at} = Q
      <4>1. \A i \in 1..ScanLength : i >= 1
        BY SlotView
      <4> QED BY <2>1, <3>1, <4>1, Zenon
    <3>5. d[1] \in Objects /\ n.announced[d[1]] = 0
      BY <2>1, <2>2, Zenon DEF Entries, EmptyBag
    <3>6. Cap(n, Q, d[1]) = Cardinality(Q) + 1
      BY <3>2, <3>3, <3>4, <3>5 DEF Cap, Bit
    <3>7. KeptOf(m, Q, d) = m.deferred_destructs[d] /\ m.deferred_destructs[d] \in Nat
      BY <1>1, <1>4, <3>1, KeptView, Zenon
    <3>8. KeptOf(n, Q, d) = IF m.deferred_destructs[d] <= Cardinality(Q) + 1
                            THEN m.deferred_destructs[d] ELSE Cardinality(Q) + 1
      BY <2>0, <2>1, <3>1, <3>2, <3>6, <3>7, KeptView
    <3> QED BY <3>2, <3>7, <3>8
  <2>6. \A d \in Entries : Total(m, d) \in Nat /\ \A Q \in SlotSets : KeptOf(m, Q, d) \in Nat
    <3>1. {} \in SUBSET (1..ScanLength)
      BY Zenon
    <3> QED BY <1>1, <3>1, KeptView, Zenon DEF SlotSets
  <2> QED BY <1>1, <2>3, <2>4, <2>5, <2>6 DEF Retired
<1> QED BY <1>2, <1>3, <1>4, Zenon DEF StartCollecting

LEMMA LocalView ==
  ASSUME NEW m, LocalOK(m)
  PROVE  /\ m \in Local
         /\ \A d \in Entries : Total(m, d) \in Nat /\ \A Q \in SlotSets : KeptOf(m, Q, d) \in Nat
<1>1. m \in Local /\ {} \in SUBSET (1..ScanLength)
  BY Zenon DEF LocalOK
<1> QED BY <1>1, KeptView, Zenon DEF SlotSets

\* Nothing but the number that StartCollecting looks at and, between two
\* collections, the phase.
LEMMA SameLists ==
  ASSUME NEW m, NEW n, NEW e, LocalOK(m), LocalOK(n), e \notin Entries,
         n.deferred = m.deferred, n.deferred_destructs = m.deferred_destructs,
         n.phase = m.phase \/ (m.phase = "eject" /\ n.phase = "off"),
         n.announced = m.announced, n.at = m.at
  PROVE  Retired(m, n, e)
<1>1. \A d \in Entries : Bit(d = e) = 0
  BY Zenon DEF Bit
<1>2. \A d \in Entries : Total(n, d) = Total(m, d) /\ \A Q \in SlotSets : KeptOf(n, Q, d) = KeptOf(m, Q, d)
  BY Zenon DEF Total, KeptOf, Cap
<1>3. Ending(m) \/ Ending(n) => m.phase = n.phase
  BY Zenon DEF Ending
<1> QED BY <1>1, <1>2, <1>3, LocalView DEF Retired

LEMMA RetireRetires ==
  ASSUME NEW m, LocalOK(m), NEW p \in Ptrs, NEW type \in RetireType
  PROVE  Retired(m, Retire(m, p, type), <<p, type>>)
<1> DEFINE none == <<null, type>>
           e == <<p, type>>
<1>0. m \in Local /\ none \notin Entries
  BY ManagerAssumption, Zenon DEF LocalOK, Entries
<1>1. CASE p = null
  <2>1. Retire(m, p, type) = m
    BY <1>1, Zenon DEF Retire
  <2> QED BY <1>0, <1>1, <2>1, SameLists, Zenon
<1>2. CASE p # null
  <2> DEFINE dd == AddTo(m.deferred_destructs, e)
             k == [m EXCEPT !.deferred_destructs = AddTo(@, <<p, type>>), !.amortized_work = @ + 1]
  <2>0. e \in Entries /\ p \in Objects
    BY <1>2, Zenon DEF Entries, Ptrs
  <2>1. dd \in [Entries -> Nat] /\ \A d \in Entries : dd[d] = m.deferred_destructs[d] + Bit(d = e)
    BY <1>0, <2>0 DEF Local, AddTo, Bit
  <2>2. /\ k \in Local /\ k.phase = m.phase /\ k.announced = m.announced /\ k.at = m.at
        /\ k.deferred = m.deferred /\ k.deferred_destructs = dd
    <3>1. k = [m EXCEPT !.deferred_destructs = dd, !.amortized_work = m.amortized_work + 1]
      BY Zenon
    <3>2. m.amortized_work + 1 \in Nat
      BY <1>0 DEF Local
    <3> HIDE DEF k, dd
    <3> QED BY <1>0, <2>1, <3>1, <3>2, Zenon DEF Local
  <2>3. Retire(m, p, type) = StartCollecting(k)
    BY <1>2, Zenon DEF Retire
  <2> HIDE DEF k, dd, e, none
  <2>4. LocalOK(k)
    BY <2>2, Zenon DEF LocalOK
  <2>5. Retired(m, k, e)
    <3>1. \A d \in Entries : Total(k, d) = Total(m, d) + Bit(d = e)
      <4> TAKE d \in Entries
      <4>1. m.deferred[d] \in Nat /\ m.deferred_destructs[d] \in Nat /\ Bit(d = e) \in Nat
        BY <1>0, Zenon DEF Local, Bit
      <4> QED BY <2>1, <2>2, <4>1 DEF Total
    <3>2. ASSUME NEW d \in Entries, NEW Q \in SlotSets
          PROVE  KeptOf(k, Q, d) >= KeptOf(m, Q, d) + Bit(d = e)
      <4>1. Q \in SUBSET (1..ScanLength) /\ Cap(k, Q, d[1]) = Cap(m, Q, d[1]) /\ Bit(d = e) \in Nat
        BY <2>2, Zenon DEF SlotSets, Cap, Bit
      <4>2. /\ KeptOf(k, Q, d) = KeptOf(m, Q, d) + k.deferred_destructs[d] - m.deferred_destructs[d]
            /\ KeptOf(m, Q, d) \in Nat /\ m.deferred_destructs[d] \in Nat
        BY <1>0, <2>2, <4>1, KeptView
      <4> QED BY <2>1, <2>2, <4>1, <4>2
    <3>3. Ending(m) \/ Ending(k) => m.phase = k.phase /\ m.deferred = k.deferred
      BY <2>2, Zenon
    <3> QED BY <2>4, <3>1, <3>2, <3>3, Zenon DEF Retired
  <2>6. Retired(k, StartCollecting(k), none)
    BY <1>0, <2>4, StartRetires, Zenon
  <2> QED BY <1>0, <2>3, <2>5, <2>6, RetiredNothing, Zenon DEF e
<1> QED BY <1>1, <1>2, Zenon

LEMMA FinishRetires ==
  ASSUME NEW m, LocalOK(m), NEW e, e \notin Entries
  PROVE  Retired(m, FinishCollecting(m), e)
<1>1. CASE m.phase = "eject" /\ m.deferred = NoEntries
  <2> DEFINE k == [m EXCEPT !.phase = "off"]
  <2>1. /\ k \in Local /\ k.phase = "off" /\ k.announced = m.announced /\ k.at = m.at
        /\ k.deferred = m.deferred /\ k.deferred_destructs = m.deferred_destructs
    BY <1>1, Zenon DEF LocalOK, Local
  <2>2. FinishCollecting(m) = StartCollecting(k)
    BY <1>1, Zenon DEF FinishCollecting
  <2> HIDE DEF k
  <2>3. LocalOK(k)
    BY <1>1, <2>1, Zenon DEF LocalOK
  <2>4. Retired(m, k, e)
    BY <1>1, <2>1, <2>3, SameLists, Zenon
  <2>5. Retired(k, StartCollecting(k), e)
    BY <2>3, StartRetires, Zenon
  <2> QED BY <2>2, <2>4, <2>5, LocalView, RetiredNothing, Zenon
<1>2. CASE ~(m.phase = "eject" /\ m.deferred = NoEntries)
  <2>1. FinishCollecting(m) = m
    BY <1>2, Zenon DEF FinishCollecting
  <2> QED BY <2>1, SameLists, Zenon
<1> QED BY <1>1, <1>2, Zenon

\* What the filter keeps is what the slots announce.
LEMMA FilterRetires ==
  ASSUME NEW m, LocalOK(m), m.phase = "scan", m.at > ScanLength, NEW e, e \notin Entries
  PROVE  Retired(m, Filter(m), e)
<1> DEFINE kept == [d \in Entries |-> Min({m.deferred[d], m.announced[d[1]]})]
           left == [d \in Entries |-> m.deferred[d] - kept[d]]
           dd == [d \in Entries |-> m.deferred_destructs[d] + kept[d]]
           k == [m EXCEPT !.phase = "eject", !.at = 0, !.announced = EmptyBag,
                          !.deferred = left, !.deferred_destructs = dd]
<1>0. m \in Local
  BY Zenon DEF LocalOK
<1>1. ASSUME NEW d \in Entries
      PROVE  /\ m.deferred[d] \in Nat /\ m.deferred_destructs[d] \in Nat /\ m.announced[d[1]] \in Nat
             /\ kept[d] = IF m.deferred[d] <= m.announced[d[1]] THEN m.deferred[d] ELSE m.announced[d[1]]
  <2>1. m.deferred[d] \in Nat /\ m.deferred_destructs[d] \in Nat /\ m.announced[d[1]] \in Nat
    BY <1>0, Zenon DEF Local, Entries
  <2> QED BY <2>1, MinOfTwo, Zenon
<1> HIDE DEF kept
<1>2. left \in [Entries -> Nat] /\ dd \in [Entries -> Nat] /\ EmptyBag \in [Objects -> Nat]
  BY <1>1 DEF EmptyBag
<1>3. Filter(m) = FinishCollecting(k)
  BY Zenon DEF Filter, kept
<1>4. /\ \A d \in Entries : left[d] = m.deferred[d] - kept[d]
      /\ \A d \in Entries : dd[d] = m.deferred_destructs[d] + kept[d]
  BY Zenon
<1> HIDE DEF left, dd
<1>5. /\ k.phase = "eject" /\ k.announced = EmptyBag
      /\ k.deferred = left /\ k.deferred_destructs = dd
  BY <1>0, Zenon DEF Local
<1>6. k \in Local
  <2> DEFINE l == [m EXCEPT !.phase = "eject", !.at = 0, !.announced = EmptyBag]
  <2>1. l \in Local
    BY <1>0, <1>2, Zenon DEF Local
  <2>2. k = [l EXCEPT !.deferred = left, !.deferred_destructs = dd]
    BY Zenon
  <2> HIDE DEF k, l
  <2> QED BY <1>2, <2>1, <2>2, Zenon DEF Local
<1> HIDE DEF k
<1>7. LocalOK(k) /\ ~Ending(m) /\ ~Ending(k)
  BY <1>5, <1>6, Zenon DEF LocalOK, Ending
<1>8. ASSUME NEW d \in Entries
      PROVE  /\ Total(k, d) = Total(m, d) + Bit(d = e)
             /\ \A Q \in SlotSets : KeptOf(k, Q, d) >= KeptOf(m, Q, d) + Bit(d = e)
  <2>1. Bit(d = e) = 0
    BY Zenon DEF Bit
  <2>2. Total(k, d) = Total(m, d) + Bit(d = e)
    BY <1>1, <1>4, <1>5, <2>1 DEF Total
  <2>3. ASSUME NEW Q \in SlotSets PROVE KeptOf(k, Q, d) >= KeptOf(m, Q, d)
    <3>1. Q \in SUBSET (1..ScanLength) /\ m.at \in Int
      BY <1>0 DEF SlotSets, Local
    <3>2. {i \in Q : i >= m.at} = {}
      <4>1. \A i \in 1..ScanLength : ~(i >= m.at)
        BY <3>1, SlotView
      <4> QED BY <3>1, <4>1, Zenon
    <3>3. Cap(m, Q, d[1]) = m.announced[d[1]]
      <4>1. Cardinality({i \in Q : i >= m.at}) = 0
        BY <3>2, FS_EmptySet, Zenon
      <4> QED BY <1>1, <4>1 DEF Cap, Bit
    <3>4. /\ KeptOf(m, Q, d) = m.deferred_destructs[d]
               + (IF m.deferred[d] <= Cap(m, Q, d[1]) THEN m.deferred[d] ELSE Cap(m, Q, d[1]))
          /\ KeptOf(k, Q, d) = k.deferred_destructs[d]
      BY <1>0, <1>5, <1>6, <3>1, KeptView, Zenon
    <3> QED BY <1>1, <1>4, <1>5, <3>3, <3>4
  <2> QED BY <1>7, <2>1, <2>2, <2>3, LocalView
<1>9. Retired(m, k, e)
  BY <1>7, <1>8, Zenon DEF Retired
<1>10. Retired(k, FinishCollecting(k), e)
  BY <1>7, FinishRetires, Zenon
<1> QED BY <1>0, <1>3, <1>9, <1>10, RetiredNothing, Zenon

LEMMA ThreadsFinite == IsFiniteSet(Threads) /\ 1 \in Threads
BY ManagerAssumption, FS_Interval DEF Threads

-----------------------------------------------------------------------------
\* How long the list of a thread can get.

\* The list of a thread is paid for by its work, but for what its last
\* collection had to keep; a scan protects at most two entries per slot read.
Bounded(m) ==
  /\ m.phase = "off" => m.amortized_work < threshold
  /\ m.phase = "scan" => /\ m.at \in 1..(ScanLength + 1)
                         /\ BagSize(m.announced) <= 2 * (m.at - 1)
                         /\ m.deferred_destructs = NoEntries
  /\ BagSize(m.deferred_destructs) <= m.amortized_work + 2 * ScanLength

\* There are finitely many entries, and a collection is due after a positive
\* amount of work.
LEMMA Finite ==
  IsFiniteSet(Objects) /\ IsFiniteSet(Entries) /\ threshold \in Nat \ {0} /\ ScanLength \in Nat
<1>2. IsFiniteSet(Entries)
  BY ManagerAssumption, FS_Product, Zenon DEF Entries
<1>3. PICK a, b : a = min_ejects /\ b = eject_delay * N
  BY Zenon
<1>4. a \in Nat \ {0} /\ b \in Nat
  BY <1>3, ManagerAssumption
<1>5. \E x \in {a, b} : \A y \in {a, b} : x >= y
  BY <1>4
<1>6. Max({a, b}) \in {a, b} /\ Max({a, b}) >= a
  BY <1>5, Zenon DEF Max
<1>7. threshold \in Nat \ {0}
  BY <1>3, <1>4, <1>6 DEF threshold
<1> QED BY <1>2, <1>7, SlotView, ManagerAssumption, Zenon

\* The length of a list is a number, and zero only of the empty list.
LEMMA Sizes ==
  ASSUME NEW S, IsFiniteSet(S), NEW bag \in [S -> Nat]
  PROVE  /\ BagSize(bag) \in Nat
         /\ BagSize([x \in S |-> 0]) = 0
         /\ \A x : AddTo(bag, x) \in [S -> Nat] /\ BagSize(AddTo(bag, x)) <= BagSize(bag) + 1
<1>1. BagSize(bag) = Cardinality(Tokens(bag, S)) /\ Cardinality(Tokens(bag, S)) \in Nat
  BY SumIsCardinality, TokensFinite, Zenon DEF BagSize, SumFunction
<1>2. BagSize([x \in S |-> 0]) = 0
  <2> DEFINE z == [x \in S |-> 0]
  <2>1. Tokens(z, S) = {}
    BY DEF Tokens
  <2>2. BagSize(z) = Cardinality(Tokens(z, S))
    <3>1. DOMAIN z = S /\ \A x \in S : z[x] \in Nat
      OBVIOUS
    <3> HIDE DEF z
    <3> QED BY <3>1, SumIsCardinality, Zenon DEF BagSize, SumFunction
  <2> QED BY <2>1, <2>2, FS_EmptySet, Zenon
<1>3. ASSUME NEW x PROVE AddTo(bag, x) \in [S -> Nat] /\ BagSize(AddTo(bag, x)) <= BagSize(bag) + 1
  <2> DEFINE g == AddTo(bag, x)
  <2>1. CASE x \in S
    <3>1. /\ g \in [S -> Nat] /\ g[x] = bag[x] + 1 /\ bag[x] \in Nat
          /\ \A u \in S \ {x} : bag[u] = g[u]
      BY <2>1 DEF AddTo
    <3> HIDE DEF g
    <3>2. SumFunction(bag) \in Nat /\ SumFunction(g) = SumFunction(bag) + g[x] - bag[x]
      BY <2>1, <3>1, SumUpdate, Zenon
    <3> QED BY <3>1, <3>2 DEF BagSize, g
  <2>2. CASE x \notin S
    <3>1. g = bag
      BY <2>2 DEF AddTo
    <3> QED BY <1>1, <3>1
  <2> QED BY <2>1, <2>2, Zenon
<1> QED BY <1>1, <1>2, <1>3, Zenon

\* A pair of nulls, which no list has.
LEMMA NoEntry == <<null, null>> \notin Entries
BY ManagerAssumption, Zenon DEF Entries

\* The head of the loop of work_toward_deferred_decrements.
LEMMA StartBounded ==
  ASSUME NEW m, LocalOK(m), m.phase # "scan",
         BagSize(m.deferred_destructs) <= m.amortized_work + 2 * ScanLength
  PROVE  LocalOK(StartCollecting(m)) /\ Bounded(StartCollecting(m))
<1>0. LocalOK(StartCollecting(m))
  BY StartRetires, NoEntry, Zenon DEF Retired
<1>1. /\ m \in Local /\ m.announced = EmptyBag /\ m.amortized_work \in Nat
      /\ m.deferred_destructs \in [Entries -> Nat]
  BY Zenon DEF LocalOK, Local
<1>2. BagSize(NoEntries) = 0 /\ BagSize(EmptyBag) = 0
  <2>1. EmptyBag \in [Objects -> Nat]
    BY DEF EmptyBag
  <2> QED BY <1>1, <2>1, Finite, Sizes, Zenon DEF NoEntries, EmptyBag
<1>3. CASE m.phase # "off" \/ m.amortized_work < threshold
  BY <1>0, <1>3, Zenon DEF StartCollecting, Bounded
<1>4. CASE m.phase = "off" /\ ~(m.amortized_work < threshold) /\ m.deferred_destructs = NoEntries
  <2> DEFINE n == [m EXCEPT !.amortized_work = 0]
  <2>1. /\ n.phase = "off" /\ n.amortized_work = 0 /\ n.deferred_destructs = NoEntries
    BY <1>1, <1>4, Zenon DEF Local
  <2>2. StartCollecting(m) = n
    BY <1>4, Zenon DEF StartCollecting
  <2> HIDE DEF n
  <2> QED BY <1>0, <1>2, <2>1, <2>2, Finite DEF Bounded
<1>5. CASE m.phase = "off" /\ ~(m.amortized_work < threshold) /\ m.deferred_destructs # NoEntries
  <2> DEFINE n == [m EXCEPT !.amortized_work = 0, !.phase = "scan", !.at = 1,
                            !.deferred = m.deferred_destructs, !.deferred_destructs = NoEntries]
  <2>1. /\ n.phase = "scan" /\ n.amortized_work = 0 /\ n.deferred_destructs = NoEntries
        /\ n.at = 1 /\ n.announced = EmptyBag
    BY <1>1, <1>5, Zenon DEF Local
  <2>2. StartCollecting(m) = n
    BY <1>5, Zenon DEF StartCollecting
  <2> HIDE DEF n
  <2> QED BY <1>0, <1>2, <2>1, <2>2, Finite DEF Bounded
<1> QED BY <1>3, <1>4, <1>5, Zenon

\* retire pays for the entry it adds with a unit of work.
LEMMA RetireBounded ==
  ASSUME NEW m, LocalOK(m), m.phase # "scan", Bounded(m), NEW p, NEW type
  PROVE  LocalOK(Retire(m, p, type)) /\ Bounded(Retire(m, p, type))
<1>1. CASE p = null
  BY <1>1, Zenon DEF Retire
<1>2. CASE p # null
  <2> DEFINE e == <<p, type>>
             dd == AddTo(m.deferred_destructs, e)
             n == [m EXCEPT !.deferred_destructs = AddTo(@, <<p, type>>),
                            !.amortized_work = @ + 1]
  <2>1. m \in Local /\ m.deferred_destructs \in [Entries -> Nat] /\ m.amortized_work \in Nat
    BY Zenon DEF LocalOK, Local
  <2>2. /\ dd \in [Entries -> Nat] /\ BagSize(dd) <= BagSize(m.deferred_destructs) + 1
        /\ BagSize(m.deferred_destructs) \in Nat /\ BagSize(dd) \in Nat
    BY <2>1, Finite, Sizes, Zenon
  <2>3. m.amortized_work + 1 \in Nat
    BY <2>1
  <2>4. /\ n \in Local /\ n.phase = m.phase /\ n.announced = m.announced /\ n.deferred = m.deferred
        /\ n.deferred_destructs = dd /\ n.amortized_work = m.amortized_work + 1
    BY <2>1, <2>2, <2>3, Zenon DEF Local
  <2>5. Retire(m, p, type) = StartCollecting(n)
    BY <1>2, Zenon DEF Retire
  <2> HIDE DEF n, dd
  <2>6. LocalOK(n) /\ n.phase # "scan"
    BY <2>4, Zenon DEF LocalOK
  <2>7. BagSize(n.deferred_destructs) <= n.amortized_work + 2 * ScanLength
    BY <2>1, <2>2, <2>4, Finite DEF Bounded
  <2> QED BY <2>5, <2>6, <2>7, StartBounded, Zenon
<1> QED BY <1>1, <1>2, Zenon

\* The end of a collection.
LEMMA FinishBounded ==
  ASSUME NEW m, LocalOK(m), Bounded(m)
  PROVE  LocalOK(FinishCollecting(m)) /\ Bounded(FinishCollecting(m))
<1>1. LocalOK(FinishCollecting(m))
  BY FinishRetires, NoEntry, Zenon DEF Retired
<1>2. CASE m.phase = "eject" /\ m.deferred = NoEntries
  <2> DEFINE n == [m EXCEPT !.phase = "off"]
  <2>1. /\ n \in Local /\ n.phase = "off" /\ n.announced = m.announced /\ n.deferred = m.deferred
        /\ n.deferred_destructs = m.deferred_destructs /\ n.amortized_work = m.amortized_work
    BY Zenon DEF LocalOK, Local
  <2>2. FinishCollecting(m) = StartCollecting(n)
    BY <1>2, Zenon DEF FinishCollecting
  <2> HIDE DEF n
  <2>3. LocalOK(n) /\ n.phase # "scan" /\ BagSize(n.deferred_destructs) <= n.amortized_work + 2 * ScanLength
    BY <1>2, <2>1, Zenon DEF LocalOK, Bounded
  <2> QED BY <1>1, <2>2, <2>3, StartBounded, Zenon
<1>3. CASE ~(m.phase = "eject" /\ m.deferred = NoEntries)
  BY <1>1, <1>3, Zenon DEF FinishCollecting
<1> QED BY <1>2, <1>3, Zenon

\* The client defers one kind of action only.
OneKind == \A d, e \in Entries : d[1] = e[1] => d = e

\* The filter keeps no more entries than the scan told it to.
LEMMA KeptSize ==
  ASSUME OneKind, NEW bag \in [Objects -> Nat], NEW kept \in [Entries -> Nat],
         \A e \in Entries : kept[e] <= bag[e[1]]
  PROVE  BagSize(kept) <= BagSize(bag)
<1> DEFINE K == Tokens(kept, Entries)
           B == Tokens(bag, Objects)
           f == [k \in K |-> <<k[1][1], k[2]>>]
<1>1. /\ BagSize(kept) = Cardinality(K) /\ BagSize(bag) = Cardinality(B)
      /\ IsFiniteSet(B)
  BY Finite, SumIsCardinality, TokensFinite, Zenon DEF BagSize, SumFunction
<1>2. ASSUME NEW k \in K PROVE /\ f[k] \in B /\ k = <<k[1], k[2]>> /\ k[1] \in Entries
  <2>0. PICK e \in Entries : k \in {e} \X (1..kept[e])
    BY Zenon DEF Tokens
  <2>1. PICK i \in 1..kept[e] : k = <<e, i>>
    BY <2>0
  <2>2. e[1] \in Objects /\ kept[e] \in Nat /\ bag[e[1]] \in Nat /\ kept[e] <= bag[e[1]]
    BY Zenon DEF Entries
  <2>3. i \in 1..bag[e[1]]
    BY <2>2
  <2>4. f[k] = <<e[1], i>>
    BY <2>1, Zenon
  <2>5. <<e[1], i>> \in {e[1]} \X (1..bag[e[1]])
    BY <2>3
  <2>6. <<e[1], i>> \in B
    BY <2>2, <2>5, Zenon DEF Tokens
  <2>7. k = <<k[1], k[2]>> /\ k[1] \in Entries
    BY <2>1
  <2> HIDE DEF B, f
  <2> QED BY <2>4, <2>6, <2>7, Zenon
<1>3. \A k, l \in K : f[k] = f[l] => k = l
  <2> SUFFICES ASSUME NEW k \in K, NEW l \in K, f[k] = f[l] PROVE k = l
    BY Zenon
  <2>1. k[1][1] = l[1][1] /\ k[2] = l[2]
    BY Zenon
  <2>2. k[1] = l[1]
    <3>1. k[1] \in Entries /\ l[1] \in Entries
      BY <1>2, Zenon
    <3> QED BY <2>1, <3>1, Zenon DEF OneKind
  <2> QED BY <1>2, <2>1, <2>2, Zenon
<1>4. f \in Injection(K, B)
  <2>1. DOMAIN f = K /\ f \in [K -> B]
    BY <1>2, Zenon
  <2> HIDE DEF f, K, B
  <2> QED BY <1>3, <2>1, Zenon DEF Injection, IsInjective
<1> QED BY <1>1, <1>4, FS_Injection, Zenon

\* scan_slots reads a slot.
LEMMA ScanBounded ==
  ASSUME NEW m, LocalOK(m), Bounded(m), m.phase = "scan", m.at <= ScanLength, NEW p, NEW n,
         n = [m EXCEPT !.announced = Announce(@, p), !.at = @ + 1]
  PROVE  LocalOK(n) /\ Bounded(n)
<1>1. /\ m \in Local /\ m.announced \in [Objects -> Nat] /\ m.at \in Nat /\ m.at # 0
      /\ m.amortized_work \in Nat
  BY Zenon DEF LocalOK, Local
<1> DEFINE a == Announce(m.announced, p)
<1>2. /\ a \in [Objects -> Nat] /\ BagSize(a) <= BagSize(m.announced) + 2
      /\ BagSize(m.announced) \in Nat /\ BagSize(a) \in Nat
  <2> DEFINE b == AddTo(m.announced, p)
             c == AddTo(b, p)
  <2>1. a \in {m.announced, b, c}
    <3>1. CASE p \in Objects
      BY <1>1, <3>1 DEF Announce, AddTo
    <3>2. CASE p \notin Objects
      BY <1>1, <3>2 DEF Announce
    <3> QED BY <3>1, <3>2, Zenon
  <2>2. b \in [Objects -> Nat] /\ BagSize(b) <= BagSize(m.announced) + 1 /\ BagSize(m.announced) \in Nat
    BY <1>1, Finite, Sizes, Zenon
  <2>3. c \in [Objects -> Nat] /\ BagSize(c) <= BagSize(b) + 1 /\ BagSize(b) \in Nat
    <3> HIDE DEF b
    <3> QED BY <2>2, Finite, Sizes, Zenon
  <2>4. BagSize(c) \in Nat
    <3> HIDE DEF b, c
    <3> QED BY <2>3, Finite, Sizes, Zenon
  <2> HIDE DEF a, b, c
  <2> QED BY <1>1, <2>1, <2>2, <2>3, <2>4
<1>3. /\ n \in Local /\ n.phase = "scan" /\ n.at = m.at + 1 /\ n.announced = a
      /\ n.deferred_destructs = m.deferred_destructs /\ n.amortized_work = m.amortized_work
  <2>1. m.at + 1 \in Nat
    BY <1>1
  <2> HIDE DEF a
  <2>2. n = [m EXCEPT !.announced = a, !.at = m.at + 1]
    BY Zenon DEF a
  <2> QED BY <1>1, <1>2, <2>1, <2>2, Zenon DEF Local
<1> HIDE DEF a
<1>4. LocalOK(n)
  BY <1>1, <1>3 DEF LocalOK
<1> QED BY <1>1, <1>2, <1>3, <1>4, Finite DEF Bounded

\* The filter, at the end of the scan.
LEMMA FilterBounded ==
  ASSUME OneKind, NEW m, LocalOK(m), Bounded(m), m.phase = "scan", m.at > ScanLength
  PROVE  LocalOK(Filter(m)) /\ Bounded(Filter(m))
<1> DEFINE kept == [d \in Entries |-> Min({m.deferred[d], m.announced[d[1]]})]
           left == [d \in Entries |-> m.deferred[d] - kept[d]]
           dd == [d \in Entries |-> m.deferred_destructs[d] + kept[d]]
           l == [m EXCEPT !.phase = "eject", !.at = 0, !.announced = EmptyBag]
           k == [m EXCEPT !.phase = "eject", !.at = 0, !.announced = EmptyBag,
                          !.deferred = left, !.deferred_destructs = dd]
<1>1. /\ m \in Local /\ m.announced \in [Objects -> Nat] /\ m.amortized_work \in Nat
      /\ m.deferred_destructs = NoEntries
  BY Zenon DEF LocalOK, Local, Bounded
<1>2. ASSUME NEW d \in Entries
      PROVE  /\ m.deferred[d] \in Nat /\ m.deferred_destructs[d] = 0 /\ m.announced[d[1]] \in Nat
             /\ kept[d] \in Nat /\ kept[d] <= m.deferred[d] /\ kept[d] <= m.announced[d[1]]
  <2>1. m.deferred[d] \in Nat /\ m.announced[d[1]] \in Nat /\ m.deferred_destructs[d] = 0
    BY <1>1, Zenon DEF Local, Entries, NoEntries
  <2>2. kept[d] = IF m.deferred[d] <= m.announced[d[1]] THEN m.deferred[d] ELSE m.announced[d[1]]
    BY <2>1, MinOfTwo, Zenon
  <2> HIDE DEF kept
  <2> QED BY <2>1, <2>2
<1>3. kept \in [Entries -> Nat]
  BY <1>2, Zenon
<1> HIDE DEF kept
<1>4. left \in [Entries -> Nat] /\ dd = kept /\ EmptyBag \in [Objects -> Nat]
  BY <1>2, <1>3 DEF EmptyBag
<1>5. BagSize(dd) <= m.amortized_work + 2 * ScanLength
  <2>1. BagSize(kept) <= BagSize(m.announced)
    BY <1>1, <1>2, <1>3, KeptSize, Zenon
  <2>2. BagSize(m.announced) \in Nat /\ BagSize(kept) \in Nat
    BY <1>1, <1>3, Finite, Sizes, Zenon
  <2>3. m.at \in 1..(ScanLength + 1) /\ BagSize(m.announced) <= 2 * (m.at - 1)
    BY Zenon DEF Bounded
  <2> HIDE DEF dd
  <2> QED BY <1>1, <1>4, <2>1, <2>2, <2>3, Finite
<1>6. Filter(m) = FinishCollecting(k)
  BY Zenon DEF Filter, kept
<1> HIDE DEF left, dd
<1>7. l \in Local
  BY <1>1, <1>4, Zenon DEF Local
<1>8. k = [l EXCEPT !.deferred = left, !.deferred_destructs = dd]
  BY Zenon
<1>9. /\ k.phase = "eject" /\ k.announced = EmptyBag /\ k.deferred_destructs = dd
      /\ k.amortized_work = m.amortized_work
  BY <1>1, Zenon DEF Local
<1> HIDE DEF k, l
<1>10. k \in Local
  BY <1>3, <1>4, <1>7, <1>8, Zenon DEF Local
<1>11. LocalOK(k) /\ Bounded(k)
  BY <1>5, <1>9, <1>10, Zenon DEF LocalOK, Bounded
<1> QED BY <1>6, <1>9, <1>11, FinishBounded, Zenon
=============================================================================
