------------------------------ MODULE RevtrProofs ------------------------------
(***************************************************************************)
(* Proofs about the engine of Revtr, for any network, any number of        *)
(* vantage points and any answers of the services.                         *)
(***************************************************************************)
EXTENDS Revtr, RRPacket, FiniteSetTheorems, WellFoundedInduction, TLAPS

\* A segment is not empty and does not end in an unknown hop; one that a
\* spoofed ping found names its vantage point.
Seg ==
  {s \in Segments : s.hops # <<>> /\ LastHop(s) # Zero /\ (s.type = "spoofrr" => s.spf \in VP)}

Path == Seq(Seg) \ {<<>>}

\* What NoHopTwice says of one path.
LoopFree(p) ==
  \A j \in 2..Len(p) :
    p[j].type # "sym" => Range(p[j].hops) \cap HopSet(SubSeq(p, 1, j - 1)) = {}

\* What is left for a hop: vantage points, perhaps the direct probe before them.
VPLists == {list \in Seq(VP \cup {NonSpoofed}) : \A i \in 2..Len(list) : list[i] \in VP}

TypeInv ==
  /\ ctxDone \in BOOLEAN /\ backoffEndhost \in BOOLEAN
  /\ pc \in {"select", "loop", "checkbg"} \cup Stopped
  /\ step \in Steps
  /\ paths \in Seq(Path)
  /\ deadEnd \subseteq Hop
  /\ vpsLeft \in [Hop -> VPLists \cup {Uninit}]
  /\ rrResponsive \in [Hop -> Int]
  /\ adjsLeft \in [Hop -> Seq(Addr) \cup {Uninit}]
  /\ tsResponsive \subseteq Hop /\ stampsZero \subseteq Hop
  /\ sendSpoofed \in [Hop -> {"unset", "no", "yes"}]
  /\ tokens \subseteq Hop /\ strayed \in BOOLEAN
  /\ stopReason \in {"", "REACHES", "TRIVIAL", "FAILED", "CANCELED"}
  /\ sent \in [Hop -> [VP \cup {NonSpoofed} -> Nat]]

\* The destination alone is at the bottom of the stack until the run fails.  A
\* run that backs off from the end host has on top of it, from its first step
\* on, a path that ends in an assumption.
StackInv ==
  /\ \A i \in DOMAIN paths : LoopFree(paths[i])
  /\ Running => paths # <<>> /\ paths[1] = NewReversePath
  /\ Running /\ backoffEndhost =>
       \/ step = "backoffEndhost" /\ pc = "select" /\ paths = <<NewReversePath>>
       \/ Len(paths) >= 2 /\ Last(paths[2]).type = "sym"

\* Whoever assumes a link, or asks the atlas, does so without tokens.
TokenInv ==
  Running => /\ tokens \subseteq HopSet(CurrPath)
             /\ step \in {"trToSource", "assumeSymmetric", "backoffEndhost"} /\ pc = "select"
                  => tokens = {}

EngineInv == TypeInv /\ StackInv /\ TokenInv /\ Outcome

-----------------------------------------------------------------------------
(* Least and largest elements                                              *)

LEMMA Least ==
  ASSUME NEW S \in SUBSET Nat, S # {}
  PROVE  \E m \in S : \A x \in S : m <= x
<1>1. OpToRel(<, Nat) = {ss \in Nat \X Nat : ss[1] < ss[2]}
  BY Zenon DEF OpToRel
<1>2. PICK R : R = {ss \in Nat \X Nat : ss[1] < ss[2]} /\ IsWellFoundedOn(R, Nat)
  BY <1>1, NatLessThanWellFounded, Zenon
<1>3. \A x, y \in Nat : <<x, y>> \in R <=> x < y
  BY <1>2
<1>4. PICK m \in S : \A y \in S : ~(<<y, m>> \in R)
  BY <1>2, WFMin
<1>5. ASSUME NEW x \in S PROVE m <= x
  <2>1. x \in Nat /\ m \in Nat
    OBVIOUS
  <2>2. ~(x < m)
    BY <1>3, <1>4, <2>1
  <2> QED
    BY <2>1, <2>2
<1> QED
  BY <1>5

LEMMA MinIs ==
  ASSUME NEW S \in SUBSET Nat, S # {}
  PROVE  Min(S) \in S /\ \A x \in S : Min(S) <= x
BY Least DEF Min

LEMMA MaxIs ==
  ASSUME NEW n \in Nat, NEW S \in SUBSET (0..n), S # {}
  PROVE  Max(S) \in S /\ \A x \in S : x <= Max(S)
<1> DEFINE bounds == {k \in Nat : \A x \in S : x <= k}
<1>1. n \in bounds
  OBVIOUS
<1>2. PICK m \in bounds : \A k \in bounds : m <= k
  BY <1>1, Least
<1>3. m \in S
  <2> SUFFICES ASSUME m \notin S PROVE FALSE
    OBVIOUS
  <2>1. m \in Nat /\ \A x \in S : x \in Nat /\ x <= m
    BY <1>2
  <2>2. \A x \in S : x <= m - 1
    <3> SUFFICES ASSUME NEW x \in S PROVE x <= m - 1
      OBVIOUS
    <3>1. x # m
      OBVIOUS
    <3> QED
      BY <2>1, <3>1
  <2>3. m - 1 >= 0
    <3>1. PICK y \in S : TRUE
      OBVIOUS
    <3> QED
      BY <2>1, <2>2, <3>1
  <2>4. m - 1 \in bounds
    BY <2>1, <2>2, <2>3
  <2> QED
    BY <1>2, <2>4, <2>1
<1>4. \E x \in S : \A y \in S : x >= y
  BY <1>2, <1>3
<1> HIDE DEF bounds
<1> QED
  BY <1>4 DEF Max

LEMMA MinOfTwo ==
  ASSUME NEW m \in Nat, NEW n \in Nat
  PROVE  Min({m, n}) = IF m <= n THEN m ELSE n
<1>1. {m, n} \in SUBSET Nat /\ {m, n} # {}
  OBVIOUS
<1>2. Min({m, n}) \in {m, n} /\ \A x \in {m, n} : Min({m, n}) <= x
  BY <1>1, MinIs
<1> QED
  BY <1>2

-----------------------------------------------------------------------------
(* Sequences picked from sequences                                         *)

LEMMA SubintervalFinite ==
  ASSUME NEW n \in Nat, NEW S \in SUBSET (1..n)
  PROVE  IsFiniteSet(S) /\ Cardinality(S) \in Nat
<1>1. n \in Int /\ 1 \in Int
  OBVIOUS
<1>2. IsFiniteSet(1..n)
  BY <1>1, FS_Interval, Zenon
<1> QED
  BY <1>2, FS_Subset, FS_CardinalityType, Zenon

LEMMA IncreasingExists ==
  ASSUME NEW n \in Nat, NEW S \in SUBSET (1..n)
  PROVE  Increasing(S) # {}
<1> DEFINE Bad == {k \in Nat : \E T \in SUBSET (1..k) : Increasing(T) = {}}
<1> SUFFICES ASSUME n \in Bad PROVE FALSE
  OBVIOUS
<1>1. PICK m \in Bad : \A k \in Bad : m <= k
  <2>1. Bad \in SUBSET Nat /\ Bad # {}
    OBVIOUS
  <2> HIDE DEF Bad
  <2> QED
    BY <2>1, Least
<1>2. m \in Nat /\ \A k \in 0..m - 1 : \A T \in SUBSET (1..k) : Increasing(T) # {}
  BY <1>1
<1>3. PICK T \in SUBSET (1..m) : Increasing(T) = {}
  BY <1>1
<1>4. CASE m \notin T
  <2>1. m > 0
    <3> SUFFICES ASSUME m = 0 PROVE FALSE
      BY <1>2
    <3>1. T = {}
      OBVIOUS
    <3>2. Cardinality(T) = 0
      BY <3>1, FS_EmptySet, Zenon
    <3>3. [i \in 1..0 |-> i] \in Increasing(T)
      BY <3>1, <3>2 DEF Increasing
    <3> QED
      BY <1>3, <3>3
  <2>2. T \in SUBSET (1..m - 1) /\ m - 1 \in 0..m - 1
    <3>1. \A x \in T : x \in 1..m /\ x # m
      BY <1>4
    <3> QED
      BY <1>2, <2>1, <3>1
  <2> QED
    BY <1>2, <1>3, <2>2
<1>5. CASE m \in T
  <2>1. PICK U : U = T \ {m}
    OBVIOUS
  <2>2. U \in SUBSET (1..m - 1) /\ m - 1 \in 0..m - 1
    <3>1. \A x \in U : x \in 1..m /\ x # m
      BY <2>1
    <3> QED
      BY <1>2, <1>5, <3>1
  <2>3. PICK c \in Nat : c = Cardinality(U) /\ Cardinality(T) = c + 1
    <3>1. IsFiniteSet(U) /\ Cardinality(U) \in Nat
      <4>1. m - 1 \in Nat
        BY <1>2, <2>2
      <4> QED
        BY <2>2, <4>1, SubintervalFinite
    <3>2. T = U \cup {m} /\ m \notin U
      BY <1>5, <2>1
    <3> QED
      BY <3>1, <3>2, FS_AddElement
  <2>4. PICK g : g \in Increasing(U)
    BY <1>2, <2>2
  <2>5. g \in [1..c -> U] /\ \A i, j \in 1..c : i < j => g[i] < g[j]
    BY <2>3, <2>4 DEF Increasing
  <2>6. PICK f : f = [i \in 1..c + 1 |-> IF i = c + 1 THEN m ELSE g[i]]
    OBVIOUS
  <2>7. f \in [1..c + 1 -> T]
    <3> SUFFICES ASSUME NEW i \in 1..c + 1 PROVE f[i] \in T
      BY <2>6
    <3>1. CASE i = c + 1
      BY <1>5, <2>6, <3>1
    <3>2. CASE i # c + 1
      <4>1. i \in 1..c
        BY <3>2
      <4> QED
        BY <2>1, <2>5, <2>6, <4>1
    <3> QED
      BY <3>1, <3>2
  <2>8. ASSUME NEW i \in 1..c + 1, NEW j \in 1..c + 1, i < j PROVE f[i] < f[j]
    <3>1. i \in 1..c
      BY <2>8
    <3>2. f[i] = g[i]
      BY <2>6, <3>1
    <3>3. g[i] \in U
      BY <2>5, <3>1
    <3>4. g[i] \in 1..m - 1
      BY <2>2, <3>3
    <3>5. CASE j = c + 1
      BY <1>2, <2>6, <3>2, <3>4, <3>5
    <3>6. CASE j # c + 1
      <4>1. j \in 1..c
        BY <3>6
      <4> QED
        BY <2>5, <2>6, <2>8, <3>1, <4>1
    <3> QED
      BY <3>5, <3>6
  <2>9. f \in Increasing(T)
    BY <2>3, <2>7, <2>8 DEF Increasing
  <2> QED
    BY <1>3, <2>9
<1> QED
  BY <1>4, <1>5

LEMMA PickedIs ==
  ASSUME NEW T, NEW seq \in Seq(T), NEW S \in SUBSET DOMAIN seq
  PROVE  Picked(seq, S) \in Seq(T)
<1>1. Len(seq) \in Nat /\ DOMAIN seq = 1..Len(seq)
  OBVIOUS
<1>2. Cardinality(S) \in Nat
  BY <1>1, SubintervalFinite
<1>3. PICK at : at = (CHOOSE f \in Increasing(S) : TRUE)
  OBVIOUS
<1>4. at \in Increasing(S)
  BY <1>1, <1>3, IncreasingExists
<1>5. at \in [1..Cardinality(S) -> S]
  BY <1>4 DEF Increasing
<1>6. Picked(seq, S) = [k \in DOMAIN at |-> seq[at[k]]]
  BY <1>3 DEF Picked
<1>7. \A k \in 1..Cardinality(S) : seq[at[k]] \in T
  BY <1>5
<1> QED
  BY <1>2, <1>5, <1>6, <1>7, SMTT(40)

-----------------------------------------------------------------------------
(* Record route replies                                                    *)

\* The recursion of RemoveClusterLoops on n hops, with last[i] for the index it
\* goes on after.
RemovesLoops(f, n, hops, last) ==
  f = [i \in 1..n + 1 |-> IF i > n THEN <<>> ELSE <<hops[last[i]]>> \o f[last[i] + 1]]

\* A function that satisfies it exists.
LEMMA LoopsRemovedExist ==
  ASSUME NEW n \in Nat, NEW hops, NEW last \in [1..n -> 1..n], \A i \in 1..n : last[i] >= i
  PROVE  \E f : RemovesLoops(f, n, hops, last)
<1> DEFINE Rec(f, k) ==
      f = [i \in n + 1 - k..n + 1 |-> IF i > n THEN <<>> ELSE <<hops[last[i]]>> \o f[last[i] + 1]]
<1> DEFINE Bad == {k \in 0..n : ~\E f : Rec(f, k)}
<1>1. Bad = {}
  <2> SUFFICES ASSUME Bad # {} PROVE FALSE
    OBVIOUS
  <2>1. PICK m \in Bad : \A k \in Bad : m <= k
    <3>1. Bad \in SUBSET Nat
      OBVIOUS
    <3> HIDE DEF Bad
    <3> QED
      BY <3>1, Least
  <2>2. m \in 0..n /\ ~\E f : Rec(f, m)
    BY <2>1
  <2>3. CASE m = 0
    <3>1. PICK f : f = [i \in n + 1..n + 1 |-> <<>>]
      OBVIOUS
    <3>2. Rec(f, 0)
      BY <3>1
    <3> QED
      BY <2>2, <2>3, <3>2
  <2>4. CASE m # 0
    <3>1. m - 1 \in 0..n /\ ~(m <= m - 1)
      BY <2>2, <2>4
    <3>2. m - 1 \notin Bad
      <4> HIDE DEF Bad
      <4> QED
        BY <2>1, <3>1
    <3>3. PICK f : Rec(f, m - 1)
      BY <3>1, <3>2
    <3>4. PICK j : j = n + 1 - m
      OBVIOUS
    <3>5. j \in 1..n /\ last[j] + 1 \in j + 1..n + 1
      BY <2>2, <2>4, <3>4
    <3>6. f = [i \in j + 1..n + 1 |-> IF i > n THEN <<>> ELSE <<hops[last[i]]>> \o f[last[i] + 1]]
      <4>1. n + 1 - (m - 1) = j + 1
        BY <2>2, <3>4
      <4> QED
        BY <3>3, <4>1
    <3>7. PICK g : g = [i \in j..n + 1 |-> IF i = j THEN <<hops[last[j]]>> \o f[last[j] + 1] ELSE f[i]]
      OBVIOUS
    <3>8. \A i \in j + 1..n + 1 : g[i] = f[i]
      BY <3>5, <3>7
    <3>9. ASSUME NEW i \in j..n + 1
          PROVE  g[i] = IF i > n THEN <<>> ELSE <<hops[last[i]]>> \o g[last[i] + 1]
      <4>1. CASE i = j
        <5>1. g[j] = <<hops[last[j]]>> \o f[last[j] + 1]
          BY <3>5, <3>7, SMTT(40)
        <5>2. g[last[j] + 1] = f[last[j] + 1]
          BY <3>5, <3>8
        <5>3. ~(j > n)
          BY <3>5
        <5> QED
          BY <4>1, <5>1, <5>2, <5>3, Zenon
      <4>2. CASE i # j
        <5>1. i \in j + 1..n + 1
          BY <3>5, <4>2
        <5>2. f[i] = IF i > n THEN <<>> ELSE <<hops[last[i]]>> \o f[last[i] + 1]
          BY <3>6, <5>1
        <5>3. ~(i > n) => last[i] + 1 \in j + 1..n + 1
          <6> SUFFICES ASSUME ~(i > n) PROVE last[i] + 1 \in j + 1..n + 1
            OBVIOUS
          <6>1. i \in 1..n /\ i >= j + 1
            BY <3>5, <5>1
          <6>2. last[i] \in 1..n /\ last[i] >= i
            BY <6>1
          <6>3. j \in Nat /\ i \in Nat /\ last[i] \in Nat
            BY <3>5, <6>1, <6>2
          <6> QED
            BY <6>1, <6>2, <6>3
        <5> QED
          BY <3>8, <5>1, <5>2, <5>3
      <4> QED
        BY <4>1, <4>2
    <3>10. g = [i \in j..n + 1 |-> IF i > n THEN <<>> ELSE <<hops[last[i]]>> \o g[last[i] + 1]]
      <4>1. g = [i \in j..n + 1 |-> g[i]]
        BY <3>7
      <4> QED
        BY <3>9, <4>1, Zenon
    <3>11. Rec(g, m)
      BY <3>4, <3>10
    <3> QED
      BY <2>2, <3>11
  <2> QED
    BY <2>3, <2>4
<1>2. PICK f : Rec(f, n)
  <2>1. n \in 0..n
    OBVIOUS
  <2>2. n \notin Bad
    <3> HIDE DEF Bad
    <3> QED
      BY <1>1
  <2> QED
    BY <2>1, <2>2
<1>3. n + 1 - n = 1
  OBVIOUS
<1>4. f = [i \in 1..n + 1 |-> IF i > n THEN <<>> ELSE <<hops[last[i]]>> \o f[last[i] + 1]]
  BY <1>2, <1>3, Zenon
<1> QED
  BY <1>4, Zenon DEF RemovesLoops

\* What RemoveClusterLoops leaves of the hops from the i-th on: it names no
\* router twice and shows the way from the router of the i-th to the last hop.
Reduced(out, hops, i) ==
  /\ out \in Seq(Hop) /\ Range(out) \subseteq {hops[j] : j \in i..Len(hops)}
  /\ \A k, l \in DOMAIN out : k # l => Cluster[out[k]] # Cluster[out[l]]
  /\ i \in DOMAIN hops => /\ out # <<>> /\ out[Len(out)] = hops[Len(hops)]
                          /\ Cluster[out[1]] = Cluster[hops[i]]

LEMMA ConsReduces ==
  ASSUME NEW hops \in Seq(Hop), NEW i \in 1..Len(hops), NEW r \in i..Len(hops),
         Cluster[hops[r]] = Cluster[hops[i]],
         \A j \in r + 1..Len(hops) : Cluster[hops[j]] # Cluster[hops[i]],
         NEW t, Reduced(t, hops, r + 1)
  PROVE  Reduced(<<hops[r]>> \o t, hops, i)
<1>1. PICK n \in Nat, h \in Hop : n = Len(hops) /\ h = hops[r] /\ DOMAIN hops = 1..n
  OBVIOUS
<1>2. t \in Seq(Hop) /\ Range(t) \subseteq {hops[j] : j \in r + 1..n}
  BY <1>1 DEF Reduced
<1>3. PICK out : out = <<h>> \o t
  OBVIOUS
<1>4. /\ out \in Seq(Hop) /\ Len(out) = Len(t) + 1 /\ out[1] = h /\ DOMAIN out = 1..Len(t) + 1
      /\ \A k \in 2..Len(t) + 1 : k - 1 \in DOMAIN t /\ out[k] = t[k - 1]
  BY <1>2, <1>3
<1>5. ASSUME NEW k \in 2..Len(t) + 1
      PROVE  \E j \in r + 1..n : out[k] = hops[j] /\ j \in i..n /\ Cluster[out[k]] # Cluster[h]
  <2>1. k - 1 \in DOMAIN t /\ out[k] = t[k - 1]
    BY <1>4
  <2>2. t[k - 1] \in Range(t)
    BY <2>1 DEF Range
  <2>3. PICK j \in r + 1..n : t[k - 1] = hops[j]
    BY <1>2, <2>2
  <2>4. j \in i..n
    BY <1>1
  <2> QED
    BY <1>1, <2>1, <2>3, <2>4
<1>6. Range(out) \subseteq {hops[j] : j \in i..n}
  <2> SUFFICES ASSUME NEW k \in 1..Len(t) + 1 PROVE \E j \in i..n : out[k] = hops[j]
    BY <1>4 DEF Range
  <2>1. CASE k = 1
    BY <1>1, <1>4, <2>1
  <2>2. CASE k # 1
    <3>1. k \in 2..Len(t) + 1
      BY <1>2, <2>2
    <3> QED
      BY <1>5, <3>1
  <2> QED
    BY <2>1, <2>2
<1>7. ASSUME NEW k \in 1..Len(t) + 1, NEW l \in 1..Len(t) + 1, k # l
      PROVE  Cluster[out[k]] # Cluster[out[l]]
  <2>1. CASE k = 1
    <3>1. l \in 2..Len(t) + 1
      BY <1>2, <1>7, <2>1
    <3> QED
      BY <1>4, <1>5, <2>1, <3>1
  <2>2. CASE l = 1
    <3>1. k \in 2..Len(t) + 1
      BY <1>2, <1>7, <2>2
    <3> QED
      BY <1>4, <1>5, <2>2, <3>1
  <2>3. CASE k # 1 /\ l # 1
    <3>1. k \in 2..Len(t) + 1 /\ l \in 2..Len(t) + 1
      BY <1>2, <2>3
    <3>2. k - 1 \in DOMAIN t /\ out[k] = t[k - 1] /\ l - 1 \in DOMAIN t /\ out[l] = t[l - 1]
      BY <1>4, <3>1
    <3>3. k - 1 # l - 1
      BY <1>7, <3>1
    <3> QED
      BY <3>2, <3>3 DEF Reduced
  <2> QED
    BY <2>1, <2>2, <2>3
<1>8. out # <<>> /\ Cluster[out[1]] = Cluster[hops[i]]
  BY <1>1, <1>2, <1>4
<1>9. out[Len(out)] = hops[n]
  <2>1. CASE r = n
    <3>1. Range(t) = {}
      BY <1>1, <1>2, <2>1
    <3>2. t = <<>>
      <4>1. DOMAIN t = {}
        BY <3>1 DEF Range
      <4> QED
        BY <1>2, <4>1
    <3> QED
      BY <1>1, <1>4, <2>1, <3>2
  <2>2. CASE r # n
    <3>1. r + 1 \in DOMAIN hops
      BY <1>1, <2>2
    <3>2. t # <<>> /\ t[Len(t)] = hops[n]
      BY <1>1, <3>1 DEF Reduced
    <3>3. Len(t) + 1 \in 2..Len(t) + 1 /\ Len(t) + 1 - 1 = Len(t)
      BY <1>2, <3>2
    <3> QED
      BY <1>4, <3>2, <3>3
  <2> QED
    BY <2>1, <2>2
<1> QED
  BY <1>1, <1>3, <1>4, <1>6, <1>7, <1>8, <1>9 DEF Reduced

LEMMA NothingReduced == ASSUME NEW hops \in Seq(Hop) PROVE Reduced(<<>>, hops, Len(hops) + 1)
BY DEF Reduced, Range

LEMMA LastOfClusterIs ==
  ASSUME NEW hops \in Seq(Hop), NEW i \in 1..Len(hops)
  PROVE  LET r == LastOfCluster(hops, i)
         IN  /\ r \in i..Len(hops) /\ Cluster[hops[r]] = Cluster[hops[i]]
             /\ \A j \in r + 1..Len(hops) : Cluster[hops[j]] # Cluster[hops[i]]
<1>1. PICK n \in Nat : n = Len(hops) /\ DOMAIN hops = 1..n
  OBVIOUS
<1>2. PICK J : J = {j \in DOMAIN hops : Cluster[hops[j]] = Cluster[hops[i]]}
  OBVIOUS
<1>3. J \in SUBSET (0..n) /\ i \in J /\ J \subseteq 1..n
  BY <1>1, <1>2
<1>4. PICK r \in J : r = Max(J) /\ \A x \in J : x <= r
  BY <1>3, MaxIs
<1>5. r = LastOfCluster(hops, i)
  BY <1>2, <1>4 DEF LastOfCluster
<1>6. r \in i..n /\ Cluster[hops[r]] = Cluster[hops[i]]
  BY <1>2, <1>3, <1>4
<1>7. ASSUME NEW j \in r + 1..n PROVE Cluster[hops[j]] # Cluster[hops[i]]
  <2>1. j \in DOMAIN hops /\ ~(j <= r)
    BY <1>1, <1>6
  <2> QED
    BY <1>2, <1>4, <2>1
<1> QED
  BY <1>1, <1>5, <1>6, <1>7

LEMMA LoopsRemovedIs ==
  ASSUME NEW hops \in Seq(Hop)
  PROVE  Reduced(RemoveClusterLoops(hops), hops, 1)
<1>1. PICK n \in Nat : n = Len(hops) /\ DOMAIN hops = 1..n
  OBVIOUS
<1>2. PICK last : last = [i \in 1..n |-> LastOfCluster(hops, i)]
  OBVIOUS
<1>3. ASSUME NEW i \in 1..n
      PROVE  /\ last[i] \in i..n /\ Cluster[hops[last[i]]] = Cluster[hops[i]]
             /\ \A j \in last[i] + 1..n : Cluster[hops[j]] # Cluster[hops[i]]
  BY <1>1, <1>2, LastOfClusterIs
<1>4. last \in [1..n -> 1..n] /\ \A i \in 1..n : last[i] >= i
  BY <1>2, <1>3
<1>5. PICK from : from = CHOOSE f : RemovesLoops(f, n, hops, last)
  OBVIOUS
<1>6. RemovesLoops(from, n, hops, last)
  <2>1. \E f : RemovesLoops(f, n, hops, last)
    BY <1>4, LoopsRemovedExist, Zenon
  <2> QED
    BY <1>5, <2>1, Zenon
<1>7. RemoveClusterLoops(hops) = from[1]
  <2>1. \A f : RemovesLoops(f, n, hops, last) <=>
          f = [i \in 1..Len(hops) + 1 |->
                 IF i > Len(hops) THEN <<>>
                 ELSE LET r == LastOfCluster(hops, i) IN <<hops[r]>> \o f[r + 1]]
    <3> SUFFICES ASSUME NEW f
                 PROVE  [i \in 1..n + 1 |-> IF i > n THEN <<>> ELSE <<hops[last[i]]>> \o f[last[i] + 1]]
                        = [i \in 1..n + 1 |->
                             IF i > n THEN <<>>
                             ELSE LET r == LastOfCluster(hops, i) IN <<hops[r]>> \o f[r + 1]]
      BY <1>1, ZenonT(60) DEF RemovesLoops
    <3>1. ASSUME NEW i \in 1..n + 1, ~(i > n) PROVE last[i] = LastOfCluster(hops, i)
      BY <1>2, <3>1
    <3> QED
      BY <3>1
  <2> QED
    BY <1>5, <2>1, Zenon DEF RemoveClusterLoops
<1>8. Reduced(from[1], hops, 1)
  <2>1. PICK f : /\ f = from
                 /\ f = [i \in 1..n + 1 |->
                           IF i > n THEN <<>> ELSE <<hops[last[i]]>> \o f[last[i] + 1]]
    BY <1>6, Zenon DEF RemovesLoops
  <2>2. ASSUME NEW i \in 1..n
        PROVE  f[i] = <<hops[last[i]]>> \o f[last[i] + 1]
    <3>1. i \in 1..n + 1 /\ ~(i > n)
      OBVIOUS
    <3>2. f[i] = IF i > n THEN <<>> ELSE <<hops[last[i]]>> \o f[last[i] + 1]
      BY <2>1, <3>1
    <3> QED
      BY <3>1, <3>2
  <2>3. f[n + 1] = <<>>
    <3>1. n + 1 \in 1..n + 1 /\ n + 1 > n
      OBVIOUS
    <3> QED
      BY <2>1, <3>1
  <2> DEFINE Bad == {k \in 0..n : ~Reduced(f[n + 1 - k], hops, n + 1 - k)}
  <2>4. Bad = {}
    <3> SUFFICES ASSUME Bad # {} PROVE FALSE
      OBVIOUS
    <3>1. PICK m \in Bad : \A k \in Bad : m <= k
      <4>1. Bad \in SUBSET Nat
        OBVIOUS
      <4> HIDE DEF Bad
      <4> QED
        BY <4>1, Least
    <3>2. m \in 0..n /\ ~Reduced(f[n + 1 - m], hops, n + 1 - m)
      BY <3>1
    <3>3. m # 0
      <4> SUFFICES ASSUME m = 0 PROVE FALSE
        OBVIOUS
      <4>1. n + 1 - m = n + 1
        OBVIOUS
      <4>2. ~Reduced(<<>>, hops, n + 1)
        BY <2>3, <3>2, <4>1
      <4> QED
        BY <1>1, <4>2, NothingReduced
    <3>4. PICK i \in 1..n : i = n + 1 - m
      BY <3>2, <3>3
    <3>5. PICK k \in 0..m - 1 : n + 1 - k = last[i] + 1
      <4>1. last[i] \in i..n
        BY <1>3
      <4>2. n - last[i] \in 0..m - 1 /\ n + 1 - (n - last[i]) = last[i] + 1
        BY <3>2, <3>4, <4>1
      <4> QED
        BY <4>2
    <3>6. k \notin Bad
      <4>1. k < m
        BY <3>2, <3>5
      <4> HIDE DEF Bad
      <4> QED
        BY <3>1, <3>2, <4>1
    <3>7. Reduced(f[last[i] + 1], hops, last[i] + 1)
      <4>1. k \in 0..n
        BY <3>2, <3>5
      <4> QED
        BY <3>5, <3>6, <4>1
    <3>8. Reduced(f[i], hops, i)
      <4>1. PICK r \in i..n : /\ r = last[i] /\ Cluster[hops[r]] = Cluster[hops[i]]
                              /\ \A j \in r + 1..n : Cluster[hops[j]] # Cluster[hops[i]]
        BY <1>3
      <4>2. PICK t : t = f[r + 1] /\ Reduced(t, hops, r + 1)
        BY <3>7, <4>1
      <4>3. Reduced(<<hops[r]>> \o t, hops, i)
        BY <1>1, <4>1, <4>2, ConsReduces
      <4> QED
        BY <2>2, <4>1, <4>2, <4>3
    <3> QED
      BY <3>2, <3>4, <3>8
  <2>5. n \in 0..n /\ n + 1 - n = 1
    OBVIOUS
  <2>6. n \notin Bad
    <3> HIDE DEF Bad
    <3> QED
      BY <2>4
  <2> QED
    BY <2>1, <2>5, <2>6
<1> QED
  BY <1>7, <1>8

\* Where the reply goes on beyond the target.
Beyond(reply, target) ==
  {k \in 1..Len(reply) - 1 : /\ Cluster[reply[k]] = Cluster[target]
                             /\ \A l \in k + 1..Len(reply) : Cluster[reply[l]] # Cluster[target]}

LEMMA ProcessRRIs ==
  ASSUME NEW reply \in Seq(Hop), NEW target
  PROVE  LET found == ProcessRR(reply, target)
         IN  \/ found = <<>> /\ Beyond(reply, target) = {}
             \/ \E m \in 1..Len(reply) - 1 :
                  /\ Beyond(reply, target) = {m}
                  /\ Reduced(found, SubSeq(reply, m + 1, Len(reply)), 1)
<1>1. PICK n \in Nat : n = Len(reply) /\ DOMAIN reply = 1..n
  OBVIOUS
<1>2. PICK T : T = {i \in DOMAIN reply : Cluster[reply[i]] = Cluster[target]}
  OBVIOUS
<1>3. T \in SUBSET (0..n) /\ T \subseteq 1..n /\ \A i \in 1..n : i \in T <=> Cluster[reply[i]] = Cluster[target]
  BY <1>1, <1>2
<1>4. Beyond(reply, target) = {k \in 1..n - 1 : k \in T /\ \A l \in k + 1..n : l \notin T}
  <2>1. \A k \in 1..n - 1 : k \in 1..n /\ \A l \in k + 1..n : l \in 1..n
    BY <1>1
  <2> QED
    BY <1>1, <1>3, <2>1 DEF Beyond
<1>5. CASE T = {}
  BY <1>2, <1>4, <1>5 DEF ProcessRR
<1>6. CASE n \in T
  <2>1. Beyond(reply, target) = {}
    <3> SUFFICES ASSUME NEW k \in 1..n - 1, \A l \in k + 1..n : l \notin T PROVE FALSE
      BY <1>4
    <3>1. n \in k + 1..n
      BY <1>1
    <3> QED
      BY <1>6, <3>1
  <2> QED
    BY <1>1, <1>2, <1>6, <2>1 DEF ProcessRR
<1>7. CASE T # {} /\ n \notin T
  <2>1. PICK m \in T : m = Max(T) /\ \A x \in T : x <= m
    BY <1>3, <1>7, MaxIs
  <2>2. m \in 1..n - 1
    BY <1>1, <1>3, <1>7
  <2>3. Beyond(reply, target) = {m}
    <3>1. \A l \in m + 1..n : l \notin T
      BY <1>1, <2>1, <2>2
    <3>2. m \in Beyond(reply, target)
      BY <1>4, <2>1, <2>2, <3>1
    <3>3. ASSUME NEW k \in Beyond(reply, target) PROVE k = m
      <4>1. k \in 1..n - 1 /\ k \in T /\ k <= m /\ \A l \in k + 1..n : l \notin T
        BY <1>4, <2>1
      <4>2. ~(m \in k + 1..n)
        BY <2>1, <4>1
      <4> QED
        BY <1>1, <2>2, <4>1, <4>2
    <3> QED
      BY <3>2, <3>3
  <2>4. PICK rest : rest = SubSeq(reply, m + 1, n)
    OBVIOUS
  <2>5. rest \in Seq(Hop)
    BY <1>1, <2>2, <2>4
  <2>6. ProcessRR(reply, target) = RemoveClusterLoops(rest)
    BY <1>1, <1>2, <1>7, <2>1, <2>4 DEF ProcessRR
  <2>7. Reduced(RemoveClusterLoops(rest), rest, 1)
    BY <2>5, LoopsRemovedIs
  <2> QED
    BY <1>1, <2>2, <2>3, <2>4, <2>6, <2>7
<1> QED
  BY <1>5, <1>6, <1>7

\* What a reply shows are hops of it beyond the target, no router twice, up to
\* the last one.
LEMMA ReplyIs ==
  ASSUME NEW reply \in Seq(Hop), NEW target
  PROVE  LET found == ProcessRR(reply, target)
         IN  /\ found \in Seq(Hop) /\ Range(found) \subseteq Range(reply)
             /\ \A i, j \in DOMAIN found :
                  /\ Cluster[found[i]] # Cluster[target]
                  /\ i # j => Cluster[found[i]] # Cluster[found[j]]
             /\ IF Beyond(reply, target) = {} THEN found = <<>>
                ELSE /\ found # <<>> /\ found[Len(found)] = reply[Len(reply)]
                     /\ Cluster[found[1]] = Cluster[reply[Max(Beyond(reply, target)) + 1]]
<1>1. PICK n \in Nat : n = Len(reply) /\ DOMAIN reply = 1..n
  OBVIOUS
<1>2. PICK found : found = ProcessRR(reply, target)
  OBVIOUS
<1>3. CASE found = <<>> /\ Beyond(reply, target) = {}
  BY <1>2, <1>3 DEF Range
<1>4. CASE \E m \in 1..n - 1 : Beyond(reply, target) = {m} /\ Reduced(found, SubSeq(reply, m + 1, n), 1)
  <2>1. PICK m \in 1..n - 1 : Beyond(reply, target) = {m} /\ Reduced(found, SubSeq(reply, m + 1, n), 1)
    BY <1>4
  <2>2. PICK rest : rest = SubSeq(reply, m + 1, n)
    OBVIOUS
  <2>3. /\ rest \in Seq(Hop) /\ Len(rest) = n - m /\ DOMAIN rest = 1..n - m
        /\ \A i \in 1..n - m : m + i \in m + 1..n /\ rest[i] = reply[m + i]
    BY <1>1, <2>2
  <2>4. n - m \in 1..n - m /\ 1 \in 1..n - m /\ m + (n - m) = n
    BY <1>1
  <2>5. rest[Len(rest)] = reply[n] /\ rest[1] = reply[m + 1]
    BY <2>3, <2>4
  <2>6. /\ found \in Seq(Hop) /\ Range(found) \subseteq {rest[i] : i \in 1..n - m}
        /\ \A i, j \in DOMAIN found : i # j => Cluster[found[i]] # Cluster[found[j]]
        /\ found # <<>> /\ found[Len(found)] = reply[n] /\ Cluster[found[1]] = Cluster[reply[m + 1]]
    BY <2>1, <2>2, <2>3, <2>4, <2>5 DEF Reduced
  <2>7. \A l \in m + 1..n : l \in DOMAIN reply /\ Cluster[reply[l]] # Cluster[target]
    <3>1. m \in Beyond(reply, target)
      BY <2>1
    <3> QED
      BY <1>1, <3>1 DEF Beyond
  <2>8. ASSUME NEW i \in DOMAIN found
        PROVE  found[i] \in Range(reply) /\ Cluster[found[i]] # Cluster[target]
    <3>1. found[i] \in Range(found)
      BY DEF Range
    <3>2. PICK j \in 1..n - m : found[i] = rest[j]
      BY <2>6, <3>1
    <3>3. found[i] = reply[m + j] /\ m + j \in m + 1..n
      BY <2>3, <3>2
    <3> QED
      BY <2>7, <3>3 DEF Range
  <2>9. Max(Beyond(reply, target)) = m
    <3>1. {m} \in SUBSET (0..n)
      BY <1>1
    <3> QED
      BY <2>1, <3>1, MaxIs
  <2>10. Range(found) \subseteq Range(reply)
    BY <2>8 DEF Range
  <2> QED
    BY <1>1, <1>2, <2>1, <2>6, <2>8, <2>9, <2>10
<1> QED
  BY <1>1, <1>2, <1>3, <1>4, ProcessRRIs

LEMMA FiniteImage ==
  ASSUME NEW S, IsFiniteSet(S), NEW f, DOMAIN f = S
  PROVE  IsFiniteSet({f[x] : x \in S})
<1>1. PICK T : T = {f[x] : x \in S}
  OBVIOUS
<1>2. PICK g : g = [x \in S |-> f[x]]
  OBVIOUS
<1>3. g \in Surjection(S, T)
  BY <1>1, <1>2 DEF Surjection
<1> QED
  BY <1>1, <1>3, FS_Surjection

LEMMA RRSegmentsAre ==
  ASSUME NEW type \in SegTypes, NEW hops \in Seq(Hop), NEW target \in Addr, NEW vp \in VP \cup {NoVP},
         type = "spoofrr" => vp \in VP
  PROVE  LET segs == RRSegments(type, hops, target, vp)
         IN  segs \in SUBSET Seg /\ IsFiniteSet(segs) /\ \A s \in segs : s.type = type
<1>1. PICK J : J = {j \in DOMAIN hops : hops[j] # Zero}
  OBVIOUS
<1>2. J \in SUBSET (1..Len(hops)) /\ Len(hops) \in Nat
  BY <1>1
<1>3. IsFiniteSet(J)
  BY <1>2, SubintervalFinite
<1>4. PICK f : f = [i \in J |-> [Segment(type, SubSeq(hops, 1, i), target) EXCEPT !.spf = vp]]
  OBVIOUS
<1>5. RRSegments(type, hops, target, vp) = {f[i] : i \in J}
  BY <1>1, <1>4, Zenon DEF RRSegments
<1>6. ASSUME NEW i \in J PROVE f[i] \in Seg /\ f[i].type = type
  <2>1. f[i] = [type |-> type, hops |-> SubSeq(hops, 1, i), hop |-> target,
                tr |-> <<>>, num |-> 0, spf |-> vp]
    BY <1>4 DEF Segment
  <2>2. SubSeq(hops, 1, i) \in Seq(Hop) /\ SubSeq(hops, 1, i) # <<>>
        /\ Len(SubSeq(hops, 1, i)) = i /\ SubSeq(hops, 1, i)[i] = hops[i] /\ hops[i] # Zero
    BY <1>1, <1>2
  <2> QED
    BY <2>1, <2>2 DEF Seg, Segments, LastHop
<1> QED
  BY <1>3, <1>4, <1>5, <1>6, FiniteImage

-----------------------------------------------------------------------------
(* AddSegments                                                             *)

LEMMA CutLoopsIs ==
  ASSUME NEW hops \in Seq(Hop), NEW seen
  PROVE  LET cut == CutLoops(hops, seen)
         IN  /\ cut \in Seq(Hop) /\ Range(cut) \subseteq Range(hops)
             /\ cut # <<>> => hops # <<>> /\ cut[Len(cut)] = hops[Len(hops)]
<1>1. PICK common : common = (Range(hops) \cap seen) \ {Zero}
  OBVIOUS
<1>2. PICK revisit : revisit = {i \in DOMAIN hops : \E h \in common : Cluster[h] = Cluster[hops[i]]}
  OBVIOUS
<1>3. CutLoops(hops, seen) = IF revisit = {} THEN hops ELSE SubSeq(hops, Max(revisit) + 1, Len(hops))
  BY <1>1, <1>2 DEF CutLoops
<1>4. CASE revisit = {}
  BY <1>3, <1>4
<1>5. CASE revisit # {}
  <2>1. revisit \in SUBSET (0..Len(hops)) /\ revisit \subseteq 1..Len(hops) /\ Len(hops) \in Nat
    BY <1>2
  <2>2. Max(revisit) \in 1..Len(hops)
    BY <1>5, <2>1, MaxIs
  <2>3. PICK m \in 1..Len(hops) : CutLoops(hops, seen) = SubSeq(hops, m + 1, Len(hops))
    BY <1>3, <1>5, <2>2
  <2>4. CASE m = Len(hops)
    <3>1. CutLoops(hops, seen) = <<>>
      BY <2>1, <2>3, <2>4
    <3> QED
      BY <3>1 DEF Range
  <2>5. CASE m # Len(hops)
    <3>1. PICK cut : cut = SubSeq(hops, m + 1, Len(hops))
      OBVIOUS
    <3>2. cut \in Seq(Hop) /\ Len(cut) = Len(hops) - m /\ \A i \in 1..Len(hops) - m : cut[i] = hops[m + i]
      BY <2>1, <3>1
    <3>3. Len(hops) - m \in 1..Len(hops) - m /\ m + (Len(hops) - m) = Len(hops)
      BY <2>1, <2>5
    <3>4. cut[Len(cut)] = hops[Len(hops)] /\ hops # <<>>
      BY <2>1, <3>2, <3>3
    <3>5. Range(cut) \subseteq Range(hops)
      <4>1. \A i \in 1..Len(hops) - m : m + i \in DOMAIN hops
        BY <2>1
      <4>2. DOMAIN cut = 1..Len(hops) - m
        BY <2>1, <3>2
      <4> QED
        BY <3>2, <4>1, <4>2, Zenon DEF Range
    <3> QED
      BY <2>3, <3>1, <3>2, <3>4, <3>5
  <2> QED
    BY <2>4, <2>5
<1> QED
  BY <1>4, <1>5

\* What loop removal leaves of a segment: the end of it.
EndOf(s, t) ==
  /\ s.type = t.type /\ s.hop = t.hop /\ s.tr = t.tr
  /\ LastHop(s) = LastHop(t) /\ Range(s.hops) \subseteq Range(t.hops)

\* What AddSegments makes of a stack: the paths it had, and on top of them the
\* last one continued in a way that visits nothing twice.
Extends(r, stack, segs) ==
  /\ r.paths \in Seq(Path)
  /\ Len(r.paths) >= Len(stack)
  /\ r.added => Len(r.paths) > Len(stack)
  /\ \A i \in 1..Len(stack) : r.paths[i] = stack[i]
  /\ \A i \in Len(stack) + 1..Len(r.paths) : \E s \in Seg :
       /\ r.paths[i] = Append(Last(stack), s)
       /\ Range(s.hops) \cap HopSet(Last(stack)) = {}
       /\ \E t \in segs : EndOf(s, t)

\* The segments that AddSegments tries and that loop removal does not empty.
Addable(stack, dead, segs) ==
  {t \in segs : LastHop(t) \notin dead /\ CutLoops(t.hops, HopSet(Last(stack))) # <<>>}

LEMMA AddSegmentsAdds ==
  ASSUME NEW stack \in Seq(Path), stack # <<>>, NEW dead,
         NEW segs \in SUBSET Seg, IsFiniteSet(segs),
         NEW r \in AddSegments(stack, dead, segs)
  PROVE  Extends(r, stack, Addable(stack, dead, segs))
<1>1. PICK q \in Sorted(segs) : r \in AddSegmentsInOrder(stack, dead, q)
  BY DEF AddSegments
<1>2. PICK c \in Nat : c = Cardinality(segs) /\ q \in [1..c -> segs] /\ DOMAIN q = 1..c
  BY <1>1, FS_CardinalityType DEF Sorted, SetToSeqs
<1>3. PICK base, seen : base = Last(stack) /\ seen = HopSet(base)
  OBVIOUS
<1>4. base \in Path /\ base \in Seq(Seg)
  BY <1>3 DEF Path, Last
<1>5. PICK live : live = {i \in DOMAIN q : LastHop(q[i]) \notin dead}
  OBVIOUS
<1>6. PICK failing : failing = {i \in live : StillLoops(q[i].hops, seen)}
  OBVIOUS
<1>7. PICK kept : kept = {i \in live : /\ \A j \in failing : i < j
                                       /\ CutLoops(q[i].hops, seen) # <<>>}
  OBVIOUS
<1>8. PICK f \in Increasing(kept) :
        r = [paths |-> stack \o [k \in DOMAIN f |->
                         Append(base, [q[f[k]] EXCEPT !.hops = CutLoops(@, seen)])],
             added |-> failing = {} /\ kept # {}]
  BY <1>1, <1>3, <1>5, <1>6, <1>7, Zenon DEF AddSegmentsInOrder
<1>9. PICK n \in Nat : /\ n = Cardinality(kept) /\ f \in [1..n -> kept] /\ DOMAIN f = 1..n
                       /\ IsFiniteSet(kept)
  <2>1. kept \in SUBSET (1..c)
    BY <1>2, <1>5, <1>7
  <2> QED
    BY <1>8, <2>1, SubintervalFinite DEF Increasing
<1>10. PICK new : new = [k \in 1..n |-> Append(base, [q[f[k]] EXCEPT !.hops = CutLoops(@, seen)])]
  OBVIOUS
<1>11. ASSUME NEW k \in 1..n
       PROVE  \E s \in Seg : /\ new[k] = Append(base, s)
                             /\ Range(s.hops) \cap seen = {}
                             /\ \E t \in Addable(stack, dead, segs) : EndOf(s, t)
  <2>1. f[k] \in kept /\ f[k] \in DOMAIN q
    BY <1>5, <1>7, <1>9
  <2>2. PICK t \in segs : t = q[f[k]]
    BY <1>2, <2>1
  <2>3. PICK cut : cut = CutLoops(t.hops, seen)
    OBVIOUS
  <2>4. PICK s : s = [t EXCEPT !.hops = cut]
    OBVIOUS
  <2>5. new[k] = Append(base, s)
    BY <1>10, <2>2, <2>3, <2>4
  <2>6. t \in Seg /\ t.hops \in Seq(Hop) /\ t.hops # <<>>
    BY DEF Seg, Segments
  <2>7. cut # <<>>
    BY <1>7, <2>1, <2>2, <2>3
  <2>8. cut \in Seq(Hop) /\ cut[Len(cut)] = t.hops[Len(t.hops)] /\ Range(cut) \subseteq Range(t.hops)
    BY <2>3, <2>6, <2>7, CutLoopsIs
  <2>9. EndOf(s, t) /\ s.hops = cut
    <3>1. s.type = t.type /\ s.hop = t.hop /\ s.tr = t.tr /\ s.hops = cut
      BY <2>4, <2>6 DEF Seg, Segments
    <3> QED
      BY <2>8, <3>1 DEF EndOf, LastHop
  <2>10. s \in Seg
    BY <2>4, <2>6, <2>7, <2>8 DEF Seg, Segments, LastHop
  <2>11. Range(cut) \cap seen = {}
    <3>1. f[k] \notin failing
      <4>1. \A j \in failing : f[k] < j
        BY <1>7, <2>1
      <4>2. f[k] \in Nat
        BY <1>2, <2>1
      <4> QED
        BY <4>1, <4>2
    <3>2. ~StillLoops(t.hops, seen)
      BY <1>6, <1>7, <2>1, <2>2, <3>1
    <3> QED
      BY <2>3, <3>2 DEF StillLoops
  <2>12. t \in Addable(stack, dead, segs)
    BY <1>3, <1>5, <1>7, <2>1, <2>2, <2>3, <2>7 DEF Addable
  <2> QED
    BY <2>5, <2>9, <2>10, <2>11, <2>12
<1>12. new \in Seq(Path) /\ Len(new) = n
  <2>1. ASSUME NEW k \in 1..n PROVE new[k] \in Path
    <3>1. PICK s \in Seg : new[k] = Append(base, s)
      BY <1>11
    <3>2. Append(base, s) \in Seq(Seg) /\ Append(base, s) # <<>>
      BY <1>4
    <3> QED
      BY <3>1, <3>2 DEF Path
  <2> QED
    BY <1>10, <2>1
<1>13. r.paths = stack \o new /\ (r.added => kept # {})
  BY <1>8, <1>9, <1>10
<1>14. kept # {} => n > 0
  <2>1. n = 0 => kept = {}
    BY <1>9, FS_EmptySet
  <2> QED
    BY <2>1
<1>15. /\ stack \o new \in Seq(Path) /\ Len(stack \o new) = Len(stack) + n
       /\ \A i \in 1..Len(stack) : (stack \o new)[i] = stack[i]
       /\ \A i \in Len(stack) + 1..Len(stack) + n :
            i - Len(stack) \in 1..n /\ (stack \o new)[i] = new[i - Len(stack)]
  BY <1>12
<1>16. PICK used : used = Addable(stack, dead, segs)
  OBVIOUS
<1>17. \A k \in 1..n : \E s \in Seg : /\ new[k] = Append(base, s)
                                      /\ Range(s.hops) \cap seen = {}
                                      /\ \E t \in used : EndOf(s, t)
  BY <1>11, <1>16
<1> QED
  BY <1>3, <1>13, <1>14, <1>15, <1>16, <1>17 DEF Extends

LEMMA AddSegmentsExtends ==
  ASSUME NEW stack \in Seq(Path), stack # <<>>, NEW dead,
         NEW segs \in SUBSET Seg, IsFiniteSet(segs),
         NEW r \in AddSegments(stack, dead, segs)
  PROVE  Extends(r, stack, segs)
BY AddSegmentsAdds DEF Extends, Addable

-----------------------------------------------------------------------------
(* Paths that visit no address twice                                       *)

LEMMA PrefixLoopFree ==
  ASSUME NEW p \in Seq(Seg), LoopFree(p), NEW n \in 0..Len(p)
  PROVE  SubSeq(p, 1, n) \in Seq(Seg) /\ LoopFree(SubSeq(p, 1, n))
<1>1. PICK t : t = SubSeq(p, 1, n)
  OBVIOUS
<1>2. t \in Seq(Seg) /\ Len(t) = n /\ \A i \in 1..n : t[i] = p[i]
  BY <1>1
<1>3. ASSUME NEW j \in 2..n PROVE SubSeq(t, 1, j - 1) = SubSeq(p, 1, j - 1) /\ t[j] = p[j]
  <2>1. SubSeq(t, 1, j - 1) \in Seq(Seg) /\ SubSeq(p, 1, j - 1) \in Seq(Seg)
        /\ Len(SubSeq(t, 1, j - 1)) = j - 1 /\ Len(SubSeq(p, 1, j - 1)) = j - 1
        /\ \A i \in 1..j - 1 : SubSeq(t, 1, j - 1)[i] = t[i] /\ SubSeq(p, 1, j - 1)[i] = p[i]
    BY <1>2
  <2> QED
    BY <1>2, <2>1
<1>4. LoopFree(t)
  <2>1. \A j \in 2..n : j \in 2..Len(p)
    OBVIOUS
  <2> QED
    BY <1>2, <1>3, <2>1 DEF LoopFree
<1> QED
  BY <1>1, <1>2, <1>4

LEMMA AppendLoopFree ==
  ASSUME NEW p \in Seq(Seg), LoopFree(p), NEW s \in Seg,
         s.type = "sym" \/ Range(s.hops) \cap HopSet(p) = {}
  PROVE  Append(p, s) \in Path /\ LoopFree(Append(p, s))
<1>1. PICK t : t = Append(p, s)
  OBVIOUS
<1>2. PICK n \in Nat : n = Len(p)
  OBVIOUS
<1>3. t \in Seq(Seg) /\ t # <<>> /\ Len(t) = n + 1 /\ t[n + 1] = s /\ \A i \in 1..n : t[i] = p[i]
  BY <1>1, <1>2
<1>4. ASSUME NEW j \in 2..n + 1 PROVE SubSeq(t, 1, j - 1) = SubSeq(p, 1, j - 1)
  <2>1. SubSeq(t, 1, j - 1) \in Seq(Seg) /\ SubSeq(p, 1, j - 1) \in Seq(Seg)
        /\ Len(SubSeq(t, 1, j - 1)) = j - 1 /\ Len(SubSeq(p, 1, j - 1)) = j - 1
        /\ \A i \in 1..j - 1 : SubSeq(t, 1, j - 1)[i] = t[i] /\ SubSeq(p, 1, j - 1)[i] = p[i]
    BY <1>2, <1>3
  <2> QED
    BY <1>3, <2>1
<1>5. SubSeq(p, 1, n) = p
  BY <1>2
<1>6. ASSUME NEW j \in 2..n + 1, t[j].type # "sym"
      PROVE  Range(t[j].hops) \cap HopSet(SubSeq(t, 1, j - 1)) = {}
  <2>1. CASE j = n + 1
    <3>1. t[j] = s /\ j - 1 = n
      BY <1>3, <2>1
    <3>2. SubSeq(t, 1, j - 1) = p
      BY <1>4, <1>5, <3>1
    <3> QED
      BY <1>6, <3>1, <3>2
  <2>2. CASE j # n + 1
    <3>1. j \in 2..n /\ t[j] = p[j]
      BY <1>3, <2>2
    <3> QED
      BY <1>2, <1>4, <1>6, <3>1 DEF LoopFree
  <2> QED
    BY <2>1, <2>2
<1> QED
  BY <1>1, <1>3, <1>6 DEF LoopFree, Path

\* AddHop and NewDstSymRevSegment take the first hops of a traceroute, up to a
\* known one that is not ignored, or all.
LEMMA SelectIs ==
  ASSUME NEW tr \in Seq(Hop), tr # <<>>, tr[Len(tr)] # Zero, NEW n, NEW ignore
  PROVE  LET hops == SelectNonzeroHops(tr, n, ignore)
         IN  /\ hops \in Seq(Hop) /\ hops # <<>> /\ hops[Len(hops)] # Zero
             /\ \E m \in 1..Len(tr) : hops = SubSeq(tr, 1, m) /\ (m = Len(tr) \/ tr[m] \notin ignore)
<1>1. PICK valid : valid = {i \in DOMAIN tr : tr[i] # Zero /\ tr[i] \notin ignore}
  OBVIOUS
<1>2. PICK upto : upto = {i \in valid : Cardinality({j \in valid : j <= i}) = n}
  OBVIOUS
<1>3. PICK known : known = {i \in DOMAIN tr : tr[i] # Zero}
  OBVIOUS
<1>4. SelectNonzeroHops(tr, n, ignore) =
        IF upto # {} THEN SubSeq(tr, 1, Max(upto)) ELSE SubSeq(tr, 1, Max(known))
  BY <1>1, <1>2, <1>3, Zenon DEF SelectNonzeroHops
<1>5. /\ Len(tr) \in Nat /\ known \in SUBSET (0..Len(tr)) /\ upto \subseteq known
      /\ known \subseteq 1..Len(tr) /\ Len(tr) \in known
  BY <1>1, <1>2, <1>3
<1>6. PICK m \in known : /\ SelectNonzeroHops(tr, n, ignore) = SubSeq(tr, 1, m)
                         /\ m = Len(tr) \/ tr[m] \notin ignore
  <2>1. CASE upto # {}
    <3>1. Max(upto) \in upto
      BY <1>5, <2>1, MaxIs
    <3>2. tr[Max(upto)] \notin ignore
      BY <1>1, <1>2, <3>1
    <3> QED
      BY <1>4, <1>5, <2>1, <3>1, <3>2
  <2>2. CASE upto = {}
    <3>1. Max(known) \in known /\ Max(known) = Len(tr)
      <4>1. Max(known) \in known /\ \A i \in known : i <= Max(known)
        BY <1>5, MaxIs
      <4>2. Max(known) \in 1..Len(tr) /\ Len(tr) <= Max(known)
        BY <1>5, <4>1
      <4> QED
        BY <1>5, <4>1, <4>2
    <3> QED
      BY <1>4, <2>2, <3>1
  <2> QED
    BY <2>1, <2>2
<1>7. m \in 1..Len(tr) /\ tr[m] # Zero
  BY <1>3, <1>5
<1>8. SubSeq(tr, 1, m) \in Seq(Hop) /\ Len(SubSeq(tr, 1, m)) = m /\ SubSeq(tr, 1, m)[m] = tr[m]
  BY <1>5, <1>7
<1> QED
  BY <1>6, <1>7, <1>8

LEMMA BackwardsIs ==
  ASSUME NEW tr \in Seq(Hop)
  PROVE  LET b == Backwards(tr)
         IN  /\ b \in Seq(Hop) /\ b # <<>> /\ b[Len(b)] # Zero /\ b[Len(b)] = Src
             /\ \A i \in 1..Len(b) - 1 : b[i] \in Range(Front(tr))
<1>1. PICK s : s = <<Src>> \o Front(tr)
  OBVIOUS
<1>2. s \in Seq(Hop) /\ Len(s) >= 1 /\ s[1] = Src
  <2>1. Front(tr) \in Seq(Hop)
    BY DEF Front
  <2>2. PICK t \in Seq(Hop) : t = Front(tr)
    BY <2>1
  <2>3. Src \in Hop
    BY PathAssumption DEF Hop
  <2> QED
    BY <1>1, <2>2, <2>3
<1>3. Backwards(tr) = [i \in 1..Len(s) |-> s[(Len(s) - i) + 1]]
  BY <1>1 DEF Backwards, Reverse
<1>4. PICK b : b = [i \in 1..Len(s) |-> s[(Len(s) - i) + 1]]
  OBVIOUS
<1>5. \A i \in 1..Len(s) : (Len(s) - i) + 1 \in 1..Len(s)
  BY <1>2
<1>6. b \in Seq(Hop) /\ Len(b) = Len(s) /\ b[Len(s)] = s[1]
  BY <1>2, <1>4, <1>5
<1>7. ASSUME NEW i \in 1..Len(s) - 1 PROVE b[i] \in Range(Front(tr))
  <2>1. PICK front \in Seq(Hop) : front = Front(tr)
    <3>1. Front(tr) \in Seq(Hop)
      BY DEF Front
    <3> QED
      BY <3>1
  <2>2. PICK n \in Nat : n = Len(front) /\ Len(s) = n + 1 /\ DOMAIN front = 1..n
    BY <1>1, <2>1
  <2>3. i \in 1..n /\ n + 1 - i \in 1..n /\ i \in 1..Len(s)
    BY <2>2
  <2>4. s[n + 1 - i + 1] = front[n + 1 - i]
    BY <1>1, <2>1, <2>2, <2>3
  <2>5. b[i] = s[n + 1 - i + 1]
    BY <1>4, <2>2, <2>3
  <2> QED
    BY <2>1, <2>2, <2>3, <2>4, <2>5 DEF Range
<1>8. /\ b \in Seq(Hop) /\ b # <<>> /\ b[Len(b)] # Zero /\ b[Len(b)] = Src
      /\ \A i \in 1..Len(b) - 1 : b[i] \in Range(Front(tr))
  BY <1>2, <1>6, <1>7, PathAssumption
<1> QED
  BY <1>3, <1>4, <1>8

\* TrimHops keeps hops of a segment only, and ends at a known one.
LEMMA TrimHopsIs ==
  ASSUME NEW hops \in Seq(Hop), hops # <<>>, hops[Len(hops)] # Zero,
         NEW h, Cluster[h] # Cluster[Zero], Range(hops) \cap SameCluster(h) # {}
  PROVE  LET cut == TrimHops(hops, JoinHop(hops, h), h)
         IN  /\ cut \in Seq(Hop) /\ cut # <<>> /\ cut[Len(cut)] # Zero
             /\ Range(cut) \subseteq Range(hops)
<1>1. PICK at : at = {i \in DOMAIN hops : hops[i] \in SameCluster(h)}
  OBVIOUS
<1>2. at \in SUBSET Nat /\ at # {} /\ at \subseteq 1..Len(hops) /\ Len(hops) \in Nat
  BY <1>1 DEF Range
<1>3. PICK n \in at : n = JoinHop(hops, h)
  BY <1>1, <1>2, MinIs DEF JoinHop
<1>4. n \in 1..Len(hops) /\ hops[n] # Zero
  BY <1>1, <1>2 DEF SameCluster
<1>5. PICK cut : cut = TrimHops(hops, n, h)
  OBVIOUS
<1>6. CASE cut = SubSeq(hops, 1, n)
  <2>1. cut \in Seq(Hop) /\ Len(cut) = n /\ \A i \in 1..n : cut[i] = hops[i]
    BY <1>2, <1>4, <1>6
  <2> QED
    BY <1>2, <1>3, <1>4, <1>5, <2>1 DEF Range
<1>7. CASE cut = SubSeq(hops, Len(hops) - n + 1, Len(hops))
  <2>1. PICK k \in Nat : k = Len(hops) - n
    BY <1>2, <1>4
  <2>2. cut = SubSeq(hops, k + 1, Len(hops)) /\ Len(hops) = k + n /\ n \in 1..n /\ n > 0
    BY <1>2, <1>4, <1>7, <2>1
  <2>3. cut \in Seq(Hop) /\ Len(cut) = n /\ \A i \in 1..n : cut[i] = hops[k + i] /\ k + i \in 1..Len(hops)
    BY <1>2, <1>4, <2>1, <2>2
  <2>4. cut[n] = hops[Len(hops)] /\ cut # <<>>
    <3>1. cut[n] = hops[k + n]
      BY <2>2, <2>3, Zenon
    <3>2. Len(cut) # 0
      BY <2>2, <2>3
    <3> QED
      BY <2>2, <2>3, <3>1, <3>2
  <2> QED
    BY <1>2, <1>3, <1>5, <2>3, <2>4 DEF Range
<1> QED
  BY <1>5, <1>6, <1>7 DEF TrimHops

LEMMA TrimPathIs ==
  ASSUME NEW p \in Path, LoopFree(p),
         NEW h, Cluster[h] # Cluster[Zero], HopSet(p) \cap SameCluster(h) # {}
  PROVE  TrimPath(p, h) \in Path /\ LoopFree(TrimPath(p, h))
<1>1. PICK at : at = {j \in DOMAIN p : Range(p[j].hops) \cap SameCluster(h) # {}}
  OBVIOUS
<1>2. p \in Seq(Seg) /\ Len(p) \in Nat /\ DOMAIN p = 1..Len(p)
  BY DEF Path
<1>3. at \in SUBSET Nat /\ at # {} /\ at \subseteq 1..Len(p)
  <2>1. PICK g \in SameCluster(h) : g \in HopSet(p)
    OBVIOUS
  <2>2. PICK j \in DOMAIN p : g \in Range(p[j].hops)
    BY <2>1 DEF HopSet
  <2> QED
    BY <1>1, <1>2, <2>1, <2>2
<1>4. PICK j \in at : j = JoinSegment(p, h)
  BY <1>1, <1>3, MinIs DEF JoinSegment
<1>5. PICK seg \in Seg : seg = p[j]
  BY <1>2, <1>3
<1>6. j \in 1..Len(p) /\ Range(seg.hops) \cap SameCluster(h) # {}
  BY <1>1, <1>3, <1>5
<1>7. PICK hops : hops = TrimHops(seg.hops, JoinHop(seg.hops, h), h)
  OBVIOUS
<1>8. /\ seg.hops \in Seq(Hop) /\ seg.hops # <<>> /\ seg.hops[Len(seg.hops)] # Zero
  BY DEF Seg, Segments, LastHop
<1>9. hops \in Seq(Hop) /\ hops # <<>> /\ hops[Len(hops)] # Zero /\ Range(hops) \subseteq Range(seg.hops)
  BY <1>6, <1>7, <1>8, TrimHopsIs, Zenon
<1>10. PICK s : s = [seg EXCEPT !.hops = hops]
  OBVIOUS
<1>11. s \in Seg /\ s.type = seg.type /\ s.hops = hops
  BY <1>9, <1>10 DEF Seg, Segments, LastHop
<1>12. PICK front : front = SubSeq(p, 1, j - 1)
  OBVIOUS
<1>13. front \in Seq(Seg) /\ LoopFree(front)
  <2>1. j - 1 \in 0..Len(p)
    BY <1>6
  <2> QED
    BY <1>2, <1>12, <2>1, PrefixLoopFree
<1>14. s.type = "sym" \/ Range(s.hops) \cap HopSet(front) = {}
  <2>1. CASE j = 1
    <3>1. front = <<>>
      BY <1>2, <1>12, <2>1
    <3>2. HopSet(front) = {}
      BY <3>1 DEF HopSet
    <3> QED
      BY <3>2
  <2>2. CASE j # 1
    <3>1. j \in 2..Len(p)
      BY <1>6, <2>2
    <3> QED
      BY <1>5, <1>9, <1>11, <1>12, <3>1 DEF LoopFree
  <2> QED
    BY <2>1, <2>2
<1>15. TrimPath(p, h) = Append(front, s)
  <2>1. TrimPath(p, h) = Append(SubSeq(p, 1, j - 1),
                                [p[j] EXCEPT !.hops = TrimHops(@, JoinHop(@, h), h)])
    BY <1>4, Zenon DEF TrimPath
  <2>2. [p[j] EXCEPT !.hops = TrimHops(@, JoinHop(@, h), h)] = s
    BY <1>5, <1>7, <1>10
  <2> QED
    BY <1>12, <2>1, <2>2, Zenon
<1> QED
  BY <1>11, <1>13, <1>14, <1>15, AppendLoopFree

-----------------------------------------------------------------------------
(* Stacks that grow                                                        *)

Grown(stack, new) ==
  /\ new \in Seq(Path)
  /\ Len(new) >= Len(stack)
  /\ \A i \in 1..Len(stack) : new[i] = stack[i]
  /\ \A i \in 1..Len(new) : LoopFree(new[i])

LEMMA HopSetGrows ==
  ASSUME NEW p \in Seq(Seg), NEW s
  PROVE  HopSet(p) \subseteq HopSet(Append(p, s))
<1>1. PICK t : t = Append(p, s)
  OBVIOUS
<1>2. \A i \in DOMAIN p : i \in DOMAIN t /\ t[i] = p[i]
  BY <1>1
<1> QED
  BY <1>1, <1>2 DEF HopSet

LEMMA ExtendsGrows ==
  ASSUME NEW stack \in Seq(Path), stack # <<>>, \A i \in 1..Len(stack) : LoopFree(stack[i]),
         NEW segs, NEW r, Extends(r, stack, segs)
  PROVE  /\ Grown(stack, r.paths)
         /\ HopSet(Last(stack)) \subseteq HopSet(Last(r.paths))
         /\ \A i \in Len(stack) + 1..Len(r.paths) : \E t \in segs : Last(r.paths[i]).type = t.type
<1>1. PICK n \in Nat, m \in Nat : n = Len(stack) /\ m = Len(r.paths) /\ n >= 1 /\ m >= n
  BY DEF Extends
<1>2. PICK base : base = Last(stack) /\ base = stack[n]
  BY <1>1 DEF Last
<1>3. base \in Path /\ base \in Seq(Seg) /\ LoopFree(base)
  BY <1>1, <1>2 DEF Path
<1>4. ASSUME NEW i \in n + 1..m
      PROVE  /\ LoopFree(r.paths[i])
             /\ HopSet(base) \subseteq HopSet(r.paths[i])
             /\ \E t \in segs : Last(r.paths[i]).type = t.type
  <2>1. PICK s \in Seg : /\ r.paths[i] = Append(base, s)
                         /\ Range(s.hops) \cap HopSet(base) = {}
                         /\ \E t \in segs : EndOf(s, t)
    BY <1>1, <1>2 DEF Extends
  <2>2. LoopFree(r.paths[i])
    BY <1>3, <2>1, AppendLoopFree
  <2>3. HopSet(base) \subseteq HopSet(r.paths[i])
    BY <1>3, <2>1, HopSetGrows
  <2>4. Last(r.paths[i]) = s
    BY <1>3, <2>1 DEF Last
  <2> QED
    BY <2>1, <2>2, <2>3, <2>4 DEF EndOf
<1>5. \A i \in 1..n : r.paths[i] = stack[i]
  BY <1>1 DEF Extends
<1>6. ASSUME NEW i \in 1..m PROVE LoopFree(r.paths[i])
  <2>1. CASE i \in 1..n
    BY <1>1, <1>5, <2>1
  <2>2. CASE i \notin 1..n
    <3>1. i \in n + 1..m
      BY <1>1, <2>2
    <3> QED
      BY <1>4, <3>1
  <2> QED
    BY <2>1, <2>2
<1>7. HopSet(base) \subseteq HopSet(r.paths[m])
  <2>1. CASE m = n
    BY <1>1, <1>2, <1>5, <2>1
  <2>2. CASE m # n
    <3>1. m \in n + 1..m
      BY <1>1, <2>2
    <3> QED
      BY <1>4, <3>1
  <2> QED
    BY <2>1, <2>2
<1>8. Last(r.paths) = r.paths[m]
  BY <1>1 DEF Last
<1> QED
  BY <1>1, <1>2, <1>4, <1>5, <1>6, <1>7, <1>8 DEF Grown, Extends

LEMMA StackGrows ==
  ASSUME TypeInv, StackInv, Running, Grown(paths, paths'), backoffEndhost' = backoffEndhost,
         step # "backoffEndhost" \/ pc # "select"
  PROVE  StackInv'
<1>1. paths # <<>> /\ paths[1] = NewReversePath /\ paths \in Seq(Path)
  BY DEF StackInv, TypeInv
<1>2. paths' # <<>> /\ paths'[1] = paths[1] /\ DOMAIN paths' = 1..Len(paths')
  <2>1. Len(paths) >= 1
    BY <1>1
  <2> QED
    BY <1>1, <2>1 DEF Grown
<1>3. backoffEndhost => Len(paths') >= 2 /\ Last(paths'[2]).type = "sym"
  <2> SUFFICES ASSUME backoffEndhost PROVE Len(paths') >= 2 /\ Last(paths'[2]).type = "sym"
    OBVIOUS
  <2>1. Len(paths) >= 2 /\ Last(paths[2]).type = "sym"
    BY DEF StackInv
  <2>2. Len(paths') >= 2 /\ paths'[2] = paths[2]
    BY <1>1, <2>1 DEF Grown
  <2> QED
    BY <2>1, <2>2
<1> QED
  BY <1>1, <1>2, <1>3 DEF StackInv, Grown

-----------------------------------------------------------------------------
(* How a step ends                                                         *)

\* The run goes on, or panics.
Proceeds == pc' \in {"select", "loop", "checkbg"} \cup Panics /\ UNCHANGED stopReason

\* It stops because the path arrived.
Arrives(reason) == pc' = "returned" /\ stopReason' = reason /\ PathReaches(Last(paths'))

LEMMA OutcomeOfProgress ==
  ASSUME TypeInv, Running, Outcome,
         Proceeds \/ Arrives("REACHES") \/ Arrives("TRIVIAL")
  PROVE  Outcome'
<1>1. stopReason = ""
  BY DEF Outcome, Running, Stopped
<1>2. CASE Proceeds
  <2>1. stopReason' = "" /\ pc' # "returned"
    BY <1>1, <1>2 DEF Proceeds, Panics
  <2> QED
    BY <2>1 DEF Outcome
<1>3. CASE Arrives("REACHES") \/ Arrives("TRIVIAL")
  <2>1. /\ stopReason' \in {"REACHES", "TRIVIAL"} /\ pc' = "returned"
        /\ PathReaches(CurrPath)'
    BY <1>3 DEF Arrives, CurrPath, PathReaches
  <2> QED
    BY <2>1 DEF Outcome
<1> QED
  BY <1>2, <1>3

LEMMA PathsAre ==
  ASSUME TypeInv, StackInv
  PROVE  paths \in Seq(Path) /\ \A i \in 1..Len(paths) : LoopFree(paths[i])
<1>1. paths \in Seq(Path)
  BY DEF TypeInv
<1>2. DOMAIN paths = 1..Len(paths)
  BY <1>1
<1>3. \A i \in DOMAIN paths : LoopFree(paths[i])
  BY Zenon DEF StackInv
<1> QED
  BY <1>1, <1>2, <1>3, Zenon

LEMMA StackIs ==
  ASSUME TypeInv, StackInv, Running
  PROVE  /\ paths \in Seq(Path) /\ paths # <<>>
         /\ CurrPath \in Path /\ CurrPath \in Seq(Seg) /\ CurrPath # <<>> /\ LoopFree(CurrPath)
         /\ LastSeg \in Seg /\ LastSeg.hops \in Seq(Hop) /\ LastSeg.hops # <<>>
         /\ LastHop(LastSeg) \in Addr
         /\ Range(LastSeg.hops) \subseteq HopSet(CurrPath)
<1>1. paths \in Seq(Path) /\ paths # <<>> /\ \A i \in DOMAIN paths : LoopFree(paths[i])
  BY DEF TypeInv, StackInv
<1>2. CurrPath \in Path /\ LoopFree(CurrPath)
  <2>1. Len(paths) \in DOMAIN paths
    BY <1>1
  <2> QED
    BY <1>1, <2>1 DEF CurrPath, Last
<1>3. PICK p : p = CurrPath
  OBVIOUS
<1>4. p \in Seq(Seg) /\ p # <<>> /\ Len(p) \in DOMAIN p
  BY <1>2, <1>3 DEF Path
<1>5. PICK seg \in Seg : seg = LastSeg /\ seg = p[Len(p)]
  BY <1>3, <1>4 DEF LastSeg, Last
<1>6. seg.hops \in Seq(Hop) /\ seg.hops # <<>> /\ LastHop(seg) # Zero
  BY DEF Seg, Segments
<1>7. LastHop(seg) \in Hop
  BY <1>6 DEF LastHop
<1>8. Range(seg.hops) \subseteq HopSet(p)
  BY <1>4, <1>5 DEF HopSet
<1> QED
  BY <1>1, <1>2, <1>3, <1>4, <1>5, <1>6, <1>7, <1>8 DEF Hop

LEMMA ExtendWithIs ==
  ASSUME TypeInv, StackInv, Running, NEW segs \in SUBSET Seg, IsFiniteSet(segs), NEW next,
         ExtendWith(segs, next)
  PROVE  /\ Grown(paths, paths') /\ HopSet(CurrPath) \subseteq HopSet(CurrPath')
         /\ \/ pc' = "loop" /\ step' = step /\ Proceeds
            \/ pc' = "checkbg" /\ step' = next /\ Proceeds
            \/ step' = step /\ Arrives("REACHES")
<1>1. PICK r \in AddSegments(paths, deadEnd, segs) :
        /\ paths' = r.paths
        /\ \/ Loop
           \/ r.added /\ PathReaches(Last(r.paths)) /\ Return("REACHES")
           \/ pc' = "checkbg" /\ step' = next /\ UNCHANGED stopReason
  <2>1. PICK r \in AddSegments(paths, deadEnd, segs) :
          /\ paths' = r.paths
          /\ CASE ~r.added                     -> Loop
               [] r.added /\ PathReaches(Last(r.paths))  -> Return("REACHES")
               [] r.added /\ ~PathReaches(Last(r.paths)) ->
                    pc' = "checkbg" /\ step' = next /\ UNCHANGED stopReason
    BY DEF ExtendWith
  <2>2. CASE ~r.added
    BY <2>1, <2>2
  <2>3. CASE r.added /\ PathReaches(Last(r.paths))
    BY <2>1, <2>3
  <2>4. CASE r.added /\ ~PathReaches(Last(r.paths))
    BY <2>1, <2>4
  <2> QED
    BY <2>2, <2>3, <2>4
<1>2. paths \in Seq(Path) /\ paths # <<>> /\ \A i \in 1..Len(paths) : LoopFree(paths[i])
  BY StackIs, PathsAre
<1>3. Extends(r, paths, segs)
  BY <1>2, AddSegmentsExtends
<1>4. Grown(paths, r.paths) /\ HopSet(Last(paths)) \subseteq HopSet(Last(r.paths))
  BY <1>2, <1>3, ExtendsGrows
<1>5. \/ pc' = "loop" /\ step' = step /\ Proceeds
      \/ pc' = "checkbg" /\ step' = next /\ Proceeds
      \/ step' = step /\ Arrives("REACHES")
  BY <1>1 DEF Loop, Return, Proceeds, Arrives
<1> QED
  BY <1>1, <1>4, <1>5 DEF CurrPath

LEMMA UnchangedGrows ==
  ASSUME TypeInv, StackInv, Running, UNCHANGED paths
  PROVE  Grown(paths, paths') /\ HopSet(CurrPath) \subseteq HopSet(CurrPath')
<1>1. paths \in Seq(Path) /\ \A i \in 1..Len(paths) : LoopFree(paths[i])
  BY PathsAre
<1> QED
  BY <1>1 DEF Grown, CurrPath

\* What the atlas answers with, stray or not.
Answers == AtlasTraces \cup StrayTraces

\* The ways in which a traceroute of the atlas, from the router with addr on,
\* is added to the stack.
Joins(hops, addr) ==
  \/ Joinable(paths, hops[1]) = {} /\ Panic("not possible") /\ UNCHANGED paths
  \/ \E p \in 1..Len(paths) :
       /\ p = Min(Joinable(paths, hops[1]))
       /\ HopSet(paths[p]) \cap SameCluster(hops[1]) # {}
       /\ \/ /\ TrimPathPanics(paths[p], hops[1])
             /\ Panic("slice bounds out of range") /\ UNCHANGED paths
          \/ \E r \in AddSegments(Append(paths, TrimPath(paths[p], hops[1])), deadEnd,
                                  {Segment("tr", hops, addr)}) :
               \/ ~r.added /\ Panic("not possible") /\ UNCHANGED paths
               \/ /\ r.added /\ paths' = r.paths
                  /\ \/ PathReaches(Last(paths')) /\ Return("REACHES")
                     \/ ~PathReaches(Last(paths')) /\ Panic("did not reach")

LEMMA JoinTraceCases ==
  ASSUME TypeInv, StackInv, NEW trace \in Answers, NEW addr \in Addr,
         addr \in Range(trace), JoinTrace(trace, addr)
  PROVE  \E hops \in Seq(Hop) :
           /\ hops # <<>> /\ hops[Len(hops)] = Last(trace)
           /\ hops[1] = Meeting(trace, addr) /\ hops[1] \in SameCluster(addr)
           /\ Range(hops) \subseteq Range(trace)
           /\ Segment("tr", hops, addr) \in Seg
           /\ Joins(hops, addr)
<1> DEFINE at    == {i \in DOMAIN trace : trace[i] \in SameCluster(addr)}
           hops  == SubSeq(trace, Min(at), Len(trace))
           segs  == {Segment("tr", hops, addr)}
           h     == hops[1]
           p     == Min(Joinable(paths, h))
           found == TrimPath(paths[p], h)
<1>1. trace \in Seq(Hop) /\ Len(trace) >= 1 /\ trace[Len(trace)] = Last(trace) /\ Last(trace) # Zero
  <2>1. trace \in Seq(Hop) /\ trace # <<>> /\ Last(trace) # Zero
    BY RevtrAssumption, PathAssumption DEF Answers
  <2> QED
    BY <2>1 DEF Last
<1>2. Min(at) \in at /\ Min(at) \in 1..Len(trace)
  <2>1. at \in SUBSET Nat /\ at # {} /\ at \subseteq 1..Len(trace)
    <3>1. addr \in SameCluster(addr)
      BY DEF SameCluster, Hop
    <3> QED
      BY <1>1, <3>1 DEF Range
  <2> HIDE DEF at
  <2> QED
    BY <2>1, MinIs
<1>3. /\ hops \in Seq(Hop) /\ hops # <<>> /\ hops[Len(hops)] = Last(trace)
      /\ h = Meeting(trace, addr) /\ h \in SameCluster(addr) /\ Range(hops) \subseteq Range(trace)
  <2>1. PICK m \in 1..Len(trace) : m = Min(at) /\ trace[m] \in SameCluster(addr)
    BY <1>2
  <2>2. PICK t : t = SubSeq(trace, m, Len(trace))
    OBVIOUS
  <2>3. t \in Seq(Hop) /\ Len(t) = Len(trace) - m + 1 /\ \A i \in 1..Len(t) : t[i] = trace[m + i - 1]
    BY <1>1, <2>2
  <2>4. PICK k \in Nat : k = Len(trace) - m
    BY <1>1
  <2>5. Len(t) = k + 1 /\ 1 \in 1..Len(t) /\ Len(t) \in 1..Len(t)
        /\ m + 1 - 1 = m /\ m + Len(t) - 1 = Len(trace)
    BY <1>1, <2>3, <2>4
  <2>6. t[1] = trace[m] /\ t[Len(t)] = trace[Len(trace)] /\ t # <<>>
    BY <2>3, <2>5
  <2>7. t = hops
    BY <2>1, <2>2
  <2>8. Range(t) \subseteq Range(trace)
    <3>1. \A i \in 1..Len(t) : m + i - 1 \in DOMAIN trace
      BY <1>1, <2>3
    <3>2. DOMAIN t = 1..Len(t)
      BY <2>3
    <3> QED
      BY <2>3, <3>1, <3>2, Zenon DEF Range
  <2>9. h = Meeting(trace, addr)
    BY <2>1, <2>6, <2>7 DEF Meeting
  <2> QED
    BY <1>1, <2>1, <2>3, <2>6, <2>7, <2>8, <2>9
<1>4. Segment("tr", hops, addr) \in Seg
  <2>1. PICK t : t = hops
    OBVIOUS
  <2>2. t \in Seq(Hop) /\ t # <<>> /\ t[Len(t)] # Zero
    BY <1>1, <1>3, <2>1
  <2>3. Segment("tr", t, addr) \in Seg
    BY <2>2 DEF Segment, Seg, Segments, SegTypes, LastHop
  <2> QED
    BY <2>1, <2>3
<1>5. IF Joinable(paths, h) = {} THEN Panic("not possible") /\ UNCHANGED paths
      ELSE IF TrimPathPanics(paths[p], h) THEN Panic("slice bounds out of range") /\ UNCHANGED paths
      ELSE \E r \in AddSegments(Append(paths, found), deadEnd, segs) :
             IF r.added
             THEN /\ paths' = r.paths
                  /\ IF PathReaches(Last(r.paths)) THEN Return("REACHES")
                     ELSE Panic("did not reach")
             ELSE Panic("not possible") /\ UNCHANGED paths
  BY Zenon DEF JoinTrace
<1>6. Joins(hops, addr)
  <2> HIDE DEF hops, h, p
  <2>1. CASE Joinable(paths, h) = {}
    BY <1>5, <2>1 DEF Joins, h
  <2>2. CASE Joinable(paths, h) # {}
    <3>1. p \in 1..Len(paths) /\ HopSet(paths[p]) \cap SameCluster(h) # {} /\ p = Min(Joinable(paths, h))
      <4>1. paths \in Seq(Path)
        BY DEF TypeInv
      <4>2. Joinable(paths, h) \in SUBSET Nat /\ Joinable(paths, h) \subseteq 1..Len(paths)
        BY <4>1 DEF Joinable
      <4>3. p \in Joinable(paths, h)
        BY <2>2, <4>2, MinIs DEF p
      <4> QED
        BY <4>2, <4>3 DEF Joinable, p
    <3>2. CASE TrimPathPanics(paths[p], h)
      BY <1>5, <2>2, <3>1, <3>2, Zenon DEF Joins, h
    <3>3. CASE ~TrimPathPanics(paths[p], h)
      <4>1. PICK r \in AddSegments(Append(paths, found), deadEnd, segs) :
              IF r.added
              THEN /\ paths' = r.paths
                   /\ IF PathReaches(Last(r.paths)) THEN Return("REACHES")
                      ELSE Panic("did not reach")
              ELSE Panic("not possible") /\ UNCHANGED paths
        BY <1>5, <2>2, <3>3
      <4>2. \/ ~r.added /\ Panic("not possible") /\ UNCHANGED paths
            \/ /\ r.added /\ paths' = r.paths
               /\ \/ PathReaches(Last(paths')) /\ Return("REACHES")
                  \/ ~PathReaches(Last(paths')) /\ Panic("did not reach")
        BY <4>1, Zenon
      <4> QED
        BY <3>1, <4>1, <4>2, Zenon DEF Joins, h
    <3> QED
      BY <3>2, <3>3
  <2> QED
    BY <2>1, <2>2
<1> QED
  BY <1>3, <1>4, <1>6

\* A traceroute of the atlas is added to the stack, or the run panics.
LEMMA JoinTraceIs ==
  ASSUME TypeInv, StackInv, Running, NEW trace \in Answers, NEW addr \in Addr,
         addr \in Range(trace), JoinTrace(trace, addr)
  PROVE  /\ Grown(paths, paths') /\ step' = step
         /\ \/ pc' \in Panics /\ UNCHANGED stopReason
            \/ Arrives("REACHES")
<1>1. PICK hops \in Seq(Hop) : /\ hops # <<>> /\ hops[1] \in SameCluster(addr)
                               /\ Segment("tr", hops, addr) \in Seg
                               /\ Joins(hops, addr)
  BY JoinTraceCases
<1>2. PICK h : h = hops[1] /\ Cluster[h] # Cluster[Zero]
  BY <1>1, PathAssumption DEF SameCluster
<1>3. paths \in Seq(Path) /\ paths # <<>> /\ \A i \in 1..Len(paths) : LoopFree(paths[i])
  BY StackIs, PathsAre
<1>4. CASE \E x \in {"not possible", "slice bounds out of range"} : Panic(x) /\ UNCHANGED paths
  <2>1. pc' \in Panics /\ UNCHANGED <<step, stopReason>>
    BY <1>4 DEF Panic, Panics
  <2> QED
    BY <1>4, <2>1, UnchangedGrows
<1>5. CASE ~\E x \in {"not possible", "slice bounds out of range"} : Panic(x) /\ UNCHANGED paths
  <2>1. PICK segs : segs = {Segment("tr", hops, addr)}
    OBVIOUS
  <2>2. segs \in SUBSET Seg /\ IsFiniteSet(segs)
    BY <1>1, <2>1, FS_Singleton
  <2>3. PICK p \in 1..Len(paths) :
          /\ HopSet(paths[p]) \cap SameCluster(h) # {}
          /\ \E r \in AddSegments(Append(paths, TrimPath(paths[p], h)), deadEnd, segs) :
               /\ paths' = r.paths
               /\ \/ PathReaches(Last(paths')) /\ Return("REACHES")
                  \/ Panic("did not reach")
    BY <1>1, <1>2, <1>5, <2>1 DEF Joins
  <2>4. PICK found : found = TrimPath(paths[p], h)
    OBVIOUS
  <2>5. found \in Path /\ LoopFree(found)
    <3>1. paths[p] \in Path
      <4>1. paths \in Seq(Path) /\ p \in 1..Len(paths)
        BY <1>3
      <4> QED
        BY ONLY <4>1
    <3>2. LoopFree(paths[p]) /\ HopSet(paths[p]) \cap SameCluster(h) # {}
      BY <1>3, <2>3, Zenon
    <3> QED
      BY <1>2, <2>4, <3>1, <3>2, TrimPathIs, Zenon
  <2>6. PICK stack : stack = Append(paths, found)
    OBVIOUS
  <2>7. stack \in Seq(Path) /\ stack # <<>> /\ Len(stack) = Len(paths) + 1
        /\ \A i \in 1..Len(paths) : stack[i] = paths[i]
    BY <1>3, <2>5, <2>6
  <2>8. \A i \in 1..Len(stack) : LoopFree(stack[i])
    BY <1>3, <2>5, <2>6
  <2>9. PICK r \in AddSegments(stack, deadEnd, segs) :
          /\ paths' = r.paths
          /\ \/ PathReaches(Last(paths')) /\ Return("REACHES")
             \/ Panic("did not reach")
    BY <2>3, <2>4, <2>6
  <2>10. Grown(stack, r.paths)
    <3>1. Extends(r, stack, segs)
      BY <2>2, <2>7, <2>9, AddSegmentsExtends
    <3> QED
      BY <2>7, <2>8, <3>1, ExtendsGrows
  <2>11. Grown(paths, paths')
    <3>1. \A i \in 1..Len(paths) : i \in 1..Len(stack)
      BY <1>3, <2>7
    <3>2. \A i \in 1..Len(paths) : r.paths[i] = paths[i]
      BY <2>7, <2>10, <3>1 DEF Grown
    <3>3. Len(r.paths) >= Len(paths) /\ r.paths \in Seq(Path)
      BY <1>3, <2>7, <2>10 DEF Grown
    <3> QED
      BY <2>9, <2>10, <3>2, <3>3 DEF Grown
  <2>12. \/ pc' \in Panics /\ UNCHANGED <<step, stopReason>>
         \/ step' = step /\ Arrives("REACHES")
    BY <2>9 DEF Return, Panic, Panics, Arrives
  <2> QED
    BY <2>11, <2>12
<1> QED
  BY <1>4, <1>5

-----------------------------------------------------------------------------
(* trToSource and backgroundTRS                                            *)

LEMMA AnswerIs ==
  ASSUME NEW ta \in Through(Answers)
  PROVE  ta[1] \in Answers /\ ta[2] \in Addr /\ ta[2] \in Range(ta[1])
BY DEF Through

\* A traceroute that the atlas answers with is a stray one, or it meets one of
\* the hops.
LEMMA JoinAnswerIs ==
  ASSUME NEW hops, NEW strays \in SUBSET Through(StrayTraces), JoinAnswer(hops, strays)
  PROVE  \E ta \in Through(Answers) :
           JoinTrace(ta[1], ta[2]) /\ strayed' \in BOOLEAN /\ (strayed' \/ ta \in Intersecting(hops))
<1>1. PICK ta \in Intersecting(hops) \cup strays :
        JoinTrace(ta[1], ta[2]) /\ strayed' = (ta \notin Intersecting(hops))
  BY DEF JoinAnswer
<1>2. ta \in Through(Answers)
  <2>1. Intersecting(hops) \subseteq Through(AtlasTraces)
    BY DEF Intersecting
  <2> QED
    BY <2>1 DEF Through, Answers
<1> QED
  BY <1>1, <1>2

LEMMA HopSetIs == ASSUME NEW p \in Path PROVE HopSet(p) \subseteq Hop
<1> SUFFICES ASSUME NEW i \in DOMAIN p PROVE Range(p[i].hops) \subseteq Hop
  BY DEF HopSet
<1>1. p[i] \in Seg
  BY DEF Path
<1>2. p[i].hops \in Seq(Hop)
  BY <1>1 DEF Seg, Segments
<1> QED
  BY <1>2 DEF Range

\* A step whose run stops with a traceroute of the atlas.
LEMMA JoinStep ==
  ASSUME EngineInv, Running, step # "backoffEndhost" \/ pc # "select",
         NEW ta \in Through(Answers), JoinTrace(ta[1], ta[2]), strayed' \in BOOLEAN,
         tokens' \subseteq tokens, UNCHANGED <<batchVars, deadEnd, rrVars, tsVars>>
  PROVE  EngineInv'
<1> USE DEF EngineInv
<1>1. /\ Grown(paths, paths') /\ step' = step
      /\ \/ pc' \in Panics /\ UNCHANGED stopReason
         \/ Arrives("REACHES")
  BY AnswerIs, JoinTraceIs
<1>2. Outcome'
  <2>1. Proceeds \/ Arrives("REACHES")
    BY <1>1 DEF Proceeds
  <2> QED
    BY <2>1, OutcomeOfProgress
<1>3. StackInv'
  BY <1>1, StackGrows DEF batchVars
<1>4. ~Running' /\ pc' \in Stopped
  BY <1>1 DEF Running, Stopped, Arrives
<1>5. TypeInv'
  BY <1>1, <1>4 DEF TypeInv, Grown, Arrives, batchVars, rrVars, tsVars
<1>6. TokenInv'
  BY <1>4 DEF TokenInv
<1> QED
  BY <1>2, <1>3, <1>5, <1>6

LEMMA TrToSourceStep == EngineInv /\ TrToSource => EngineInv'
<1> SUFFICES ASSUME EngineInv, TrToSource PROVE EngineInv'
  OBVIOUS
<1>1. Running /\ step = "trToSource" /\ pc = "select" /\ tokens = {}
  BY DEF TrToSource, Calls, Running, Stopped, Panics, EngineInv, TokenInv
<1>2. CASE JoinAnswer(Range(LastSeg.hops) \ {Zero}, Mistaken) /\ UNCHANGED tokens
  <2>1. PICK ta \in Through(Answers) : JoinTrace(ta[1], ta[2]) /\ strayed' \in BOOLEAN
    BY <1>2, JoinAnswerIs DEF Mistaken
  <2>2. step # "backoffEndhost" /\ tokens' \subseteq tokens /\ UNCHANGED <<batchVars, deadEnd, rrVars, tsVars>>
    BY <1>1, <1>2 DEF TrToSource
  <2> QED
    BY <1>1, <2>1, <2>2, JoinStep
<1>3. CASE /\ Goto("recordRoute") /\ UNCHANGED <<strayed, paths>>
           /\ tokens' = {} \/ tokens' \in SUBSET (Range(LastSeg.hops) \ {Zero})
  <2>1. tokens' \subseteq HopSet(CurrPath) /\ HopSet(CurrPath) \subseteq Hop /\ CurrPath' = CurrPath
    BY <1>1, <1>3, StackIs, HopSetIs DEF EngineInv, CurrPath
  <2>2. pc' = "select" /\ step' = "recordRoute" /\ Proceeds
    BY <1>3 DEF Goto, Proceeds
  <2>3. TypeInv'
    BY <1>3, <2>1, <2>2 DEF EngineInv, TypeInv, TrToSource, batchVars, rrVars, tsVars, Steps, Proceeds
  <2>4. StackInv'
    <3>1. Grown(paths, paths')
      BY <1>1, <1>3, UnchangedGrows DEF EngineInv
    <3> QED
      BY <1>1, <3>1, StackGrows DEF EngineInv, TrToSource, batchVars
  <2>5. TokenInv'
    BY <2>1, <2>2 DEF TokenInv
  <2>6. Outcome'
    BY <1>1, <2>2, OutcomeOfProgress DEF EngineInv
  <2> QED
    BY <2>3, <2>4, <2>5, <2>6 DEF EngineInv
<1> QED
  BY <1>1, <1>2, <1>3 DEF TrToSource, atlasVars

LEMMA BackgroundStep == EngineInv /\ (BackgroundTRS \/ CheckBgTRs) => EngineInv'
<1> SUFFICES ASSUME EngineInv, BackgroundTRS \/ CheckBgTRs PROVE EngineInv'
  OBVIOUS
<1>1. Running /\ (step # "backoffEndhost" \/ pc # "select")
  BY DEF BackgroundTRS, CheckBgTRs, Calls, Running, Stopped, Panics
<1>2. PICK next \in Steps : /\ tokens' = {}
                            /\ \/ Goto(next) /\ UNCHANGED <<strayed, paths>>
                               \/ JoinAnswer(tokens, Through(StrayTraces))
                            /\ UNCHANGED <<batchVars, deadEnd, rrVars, tsVars>>
  <2>1. step \in Steps /\ "assumeSymmetric" \in Steps
    BY DEF EngineInv, TypeInv, Steps
  <2> QED
    BY <2>1 DEF BackgroundTRS, CheckBgTRs, RetrieveTraceroutes
<1>3. CASE JoinAnswer(tokens, Through(StrayTraces))
  <2>1. PICK ta \in Through(Answers) : JoinTrace(ta[1], ta[2]) /\ strayed' \in BOOLEAN
    BY <1>3, JoinAnswerIs
  <2> QED
    BY <1>1, <1>2, <2>1, JoinStep
<1>4. CASE Goto(next) /\ UNCHANGED <<strayed, paths>>
  <2>1. pc' = "select" /\ step' = next /\ Proceeds
    BY <1>4 DEF Goto, Proceeds
  <2>2. TypeInv'
    BY <1>2, <1>4, <2>1 DEF EngineInv, TypeInv, batchVars, rrVars, tsVars, Proceeds
  <2>3. StackInv'
    <3>1. Grown(paths, paths')
      BY <1>1, <1>4, UnchangedGrows DEF EngineInv
    <3> QED
      BY <1>1, <1>2, <3>1, StackGrows DEF EngineInv, batchVars
  <2>4. TokenInv'
    BY <1>2 DEF TokenInv
  <2>5. Outcome'
    BY <1>1, <2>1, OutcomeOfProgress DEF EngineInv
  <2> QED
    BY <2>2, <2>3, <2>4, <2>5 DEF EngineInv
<1> QED
  BY <1>2, <1>3, <1>4

-----------------------------------------------------------------------------
(* recordRoute                                                             *)

\* The end of a step that may have added segments and does not touch tokens.
LEMMA ProbeStep ==
  ASSUME EngineInv, Running, step \in {"recordRoute", "timestamp"},
         Grown(paths, paths'), HopSet(CurrPath) \subseteq HopSet(CurrPath'),
         \/ pc' = "loop" /\ step' = step /\ Proceeds
         \/ pc' = "select" /\ step' \in {"timestamp", "backgroundTRS"} /\ Proceeds
         \/ pc' = "checkbg" /\ step' \in Steps /\ Proceeds
         \/ pc' \in Panics /\ step' = step /\ Proceeds
         \/ step' = step /\ Arrives("REACHES"),
         UNCHANGED <<batchVars, deadEnd, atlasVars>>
  PROVE  /\ StackInv' /\ TokenInv' /\ Outcome'
         /\ pc' \in {"select", "loop", "checkbg"} \cup Stopped /\ step' \in Steps
         /\ paths' \in Seq(Path)
         /\ stopReason' \in {"", "REACHES", "TRIVIAL", "FAILED", "CANCELED"}
<1> USE DEF EngineInv
<1>1. StackInv'
  BY StackGrows DEF batchVars
<1>2. Outcome'
  BY OutcomeOfProgress
<1>3. TokenInv'
  <2>1. tokens' \subseteq HopSet(CurrPath')
    BY DEF TokenInv, atlasVars
  <2>2. Running' /\ pc' = "select" => step' \in {"recordRoute", "timestamp", "backgroundTRS"}
    BY DEF Arrives, Panics
  <2> QED
    BY <2>1, <2>2 DEF TokenInv
<1> QED
  BY <1>1, <1>2, <1>3 DEF TypeInv, Grown, Arrives, Proceeds, Stopped, Panics, Steps

LEMMA TakeIs ==
  ASSUME NEW T, NEW seq \in Seq(T), NEW n \in Nat
  PROVE  LET batch == Take(seq, n)
         IN  /\ batch.vps \in Seq(T) /\ batch.rest \in Seq(T)
             /\ batch = [vps |-> batch.vps, rest |-> batch.rest]
             /\ n >= 1 /\ seq # <<>> => batch.vps # <<>> /\ batch.vps[1] = seq[1]
             /\ n = 1 /\ seq # <<>> => Len(batch.vps) = 1 /\ batch.rest = Tail(seq)
<1>1. PICK m \in Nat : m = Min({n, Len(seq)}) /\ m = IF n <= Len(seq) THEN n ELSE Len(seq)
  BY MinOfTwo
<1>2. m <= Len(seq) /\ (n >= 1 /\ seq # <<>> => m >= 1) /\ (n = 1 /\ seq # <<>> => m = 1)
  BY <1>1
<1>3. PICK v : v = SubSeq(seq, 1, m)
  OBVIOUS
<1>4. PICK w : w = SubSeq(seq, m + 1, Len(seq))
  OBVIOUS
<1>5. v \in Seq(T) /\ Len(v) = m /\ (m >= 1 => v[1] = seq[1])
  BY <1>2, <1>3
<1>6. w \in Seq(T) /\ (m = 1 => w = Tail(seq))
  <2>1. w \in Seq(T)
    BY <1>2, <1>4
  <2>2. CASE m = 1
    BY <1>2, <1>4, <2>1, <2>2
  <2> QED
    BY <2>1, <2>2
<1>7. Take(seq, n) = [vps |-> v, rest |-> w]
  BY <1>1, <1>3, <1>4 DEF Take
<1>8. n >= 1 /\ seq # <<>> => v # <<>> /\ v[1] = seq[1]
  BY <1>2, <1>5
<1>9. n = 1 /\ seq # <<>> => Len(v) = 1 /\ w = Tail(seq)
  BY <1>2, <1>5, <1>6
<1>10. Take(seq, n).vps = v /\ Take(seq, n).rest = w
  BY <1>7
<1> QED
  BY <1>5, <1>6, <1>7, <1>8, <1>9, <1>10, Zenon

LEMMA VPListsAre ==
  /\ Seq(VP) \subseteq VPLists
  /\ \A list \in VPLists : list # <<>> => Tail(list) \in Seq(VP)
  /\ \A list \in VPLists : list # <<>> /\ list[1] \in VP => list \in Seq(VP)
  /\ \A list \in Seq(VP) : <<NonSpoofed>> \o list \in VPLists
<1>1. ASSUME NEW list \in Seq(VP) PROVE list \in VPLists /\ <<NonSpoofed>> \o list \in VPLists
  <2>1. PICK t : t = <<NonSpoofed>> \o list
    OBVIOUS
  <2>2. t \in Seq(VP \cup {NonSpoofed}) /\ Len(t) = Len(list) + 1
        /\ \A i \in 2..Len(t) : t[i] = list[i - 1] /\ i - 1 \in 1..Len(list)
    BY <2>1
  <2>3. list \in Seq(VP \cup {NonSpoofed}) /\ \A i \in 1..Len(list) : list[i] \in VP
    OBVIOUS
  <2>4. \A i \in 2..Len(list) : list[i] \in VP
    BY <2>3
  <2>5. \A i \in 2..Len(t) : t[i] \in VP
    BY <2>2, <2>3, Zenon
  <2> QED
    BY <2>1, <2>2, <2>3, <2>4, <2>5, Zenon DEF VPLists
<1>2. ASSUME NEW list \in VPLists, list # <<>>
      PROVE  Tail(list) \in Seq(VP) /\ (list[1] \in VP => list \in Seq(VP))
  <2>1. list \in Seq(VP \cup {NonSpoofed}) /\ \A i \in 2..Len(list) : list[i] \in VP
    BY DEF VPLists
  <2>2. PICK t : t = Tail(list)
    OBVIOUS
  <2>3. t \in Seq(VP \cup {NonSpoofed}) /\ Len(t) = Len(list) - 1
        /\ \A i \in 1..Len(t) : t[i] = list[i + 1] /\ i + 1 \in 2..Len(list)
    BY <1>2, <2>1, <2>2
  <2>4. t \in Seq(VP)
    BY <2>1, <2>3
  <2>5. list[1] \in VP => \A i \in 1..Len(list) : list[i] \in VP
    BY <2>1
  <2> QED
    BY <2>1, <2>2, <2>4, <2>5
<1> QED
  BY <1>1, <1>2

\* A batch is the direct probe, or goes to vantage points.
LEMMA NextBatchIs ==
  ASSUME TypeInv, StackInv, Running, NEW left \in VPLists, left # <<>>
  PROVE  LET batch == NextBatch(left)
         IN  batch.rest \in VPLists /\ (batch.vps = <<NonSpoofed>> \/ batch.vps \in Seq(VP))
<1>1. left \in Seq(VP \cup {NonSpoofed}) /\ RateLimit \in Nat /\ RateLimit >= 1 /\ RateLimit - 1 \in Nat
  BY RevtrAssumption DEF VPLists
<1>2. CASE NonSpoofed \in Range(Take(left, RateLimit).vps)
  <2>1. PICK v \in Seq(VP \cup {NonSpoofed}) :
          /\ Take(left, 1).vps = v /\ Take(left, 1).rest = Tail(left)
          /\ v # <<>> /\ v[1] = left[1] /\ Len(v) = 1
    <3>1. 1 \in Nat /\ 1 >= 1
      OBVIOUS
    <3>2. /\ Take(left, 1).vps \in Seq(VP \cup {NonSpoofed})
          /\ Take(left, 1).rest = Tail(left) /\ Len(Take(left, 1).vps) = 1
          /\ Take(left, 1).vps # <<>> /\ Take(left, 1).vps[1] = left[1]
      BY <1>1, <3>1, TakeIs
    <3> QED
      BY <3>2
  <2>2. NextBatch(left) = Take(left, 1)
    BY <1>2 DEF NextBatch
  <2>3. Tail(left) \in VPLists
    BY VPListsAre
  <2>4. v = <<NonSpoofed>> \/ v \in Seq(VP)
    <3>1. v[1] = NonSpoofed \/ v[1] \in VP
      BY <2>1
    <3>2. PICK x : x = v[1]
      OBVIOUS
    <3>3. v = <<x>>
      BY <2>1, <3>2
    <3>4. x \in VP => <<x>> \in Seq(VP)
      OBVIOUS
    <3> QED
      BY <3>1, <3>2, <3>3, <3>4
  <2> QED
    BY <2>1, <2>2, <2>3, <2>4
<1>3. CASE NonSpoofed \notin Range(Take(left, RateLimit).vps)
  <2>1. left \in Seq(VP)
    <3>1. PICK v \in Seq(VP \cup {NonSpoofed}) :
            v = Take(left, RateLimit).vps /\ v # <<>> /\ v[1] = left[1]
      BY <1>1, TakeIs
    <3>2. left[1] # NonSpoofed
      BY <1>3, <3>1 DEF Range
    <3>3. left[1] \in VP
      BY <1>1, <3>2
    <3> QED
      BY <3>3, VPListsAre
  <2>2. CASE LastSeg.type = "spoofrr"
    <3>1. PICK others : others = Picked(left, {i \in DOMAIN left : left[i] # LastSeg.spf})
      OBVIOUS
    <3>2. others \in Seq(VP)
      <4>1. {i \in DOMAIN left : left[i] # LastSeg.spf} \in SUBSET DOMAIN left
        OBVIOUS
      <4> QED
        BY <2>1, <3>1, <4>1, PickedIs
    <3>3. PICK v \in Seq(VP), w \in Seq(VP) :
            Take(others, RateLimit - 1) = [vps |-> v, rest |-> w]
      BY <1>1, <3>2, TakeIs
    <3>4. NextBatch(left) = [[vps |-> v, rest |-> w] EXCEPT !.vps = <<LastSeg.spf>> \o @]
      BY <1>3, <2>2, <3>1, <3>3, Zenon DEF NextBatch
    <3>5. LastSeg.spf \in VP
      BY <2>2, StackIs DEF Seg
    <3>6. NextBatch(left).rest = w /\ NextBatch(left).vps = <<LastSeg.spf>> \o v
      BY <3>4
    <3> QED
      BY <3>5, <3>6, VPListsAre
  <2>3. CASE LastSeg.type # "spoofrr"
    <3>1. PICK v \in Seq(VP), w \in Seq(VP) : Take(left, RateLimit) = [vps |-> v, rest |-> w]
      BY <1>1, <2>1, TakeIs
    <3>2. NextBatch(left) = [vps |-> v, rest |-> w]
      BY <1>3, <2>3, <3>1, Zenon DEF NextBatch
    <3> QED
      BY <3>2, VPListsAre
  <2> QED
    BY <2>2, <2>3
<1> QED
  BY <1>2, <1>3

LEMMA RRHopsAre ==
  ASSUME NEW target \in Hop, NEW hops \in RRHops(target)
  PROVE  target \in Addr /\ hops \in Seq(Hop)
<1>1. target # Zero
  BY DEF RRHops
<1>2. PICK raw \in RRReplies : hops = ProcessRR(raw, target)
  BY <1>1 DEF RRHops
<1>3. raw \in Seq(Hop)
  BY RevtrAssumption
<1> QED
  BY <1>1, <1>2, <1>3, ReplyIs, Zenon DEF Hop

\* The segments of the replies to a batch of spoofed pings.
SpoofedSegments(hops, target, answering) ==
  UNION {RRSegments("spoofrr", hops[v], target, v) : v \in answering}

LEMMA SpoofedSegmentsAre ==
  ASSUME NEW target \in Hop, NEW vps \in Seq(VP), NEW answering \in SUBSET Range(vps),
         NEW hops \in [answering -> RRHops(target)]
  PROVE  LET segs == SpoofedSegments(hops, target, answering)
         IN  segs \in SUBSET Seg /\ IsFiniteSet(segs)
<1>1. IsFiniteSet(answering) /\ answering \subseteq VP
  <2>1. IsFiniteSet(Range(vps)) /\ Range(vps) \subseteq VP
    <3>1. PICK D : D = 1..Len(vps) /\ DOMAIN vps = D /\ Len(vps) \in Nat
      OBVIOUS
    <3>2. IsFiniteSet(D)
      BY <3>1, SubintervalFinite
    <3>3. IsFiniteSet({vps[i] : i \in D})
      BY <3>1, <3>2, FiniteImage
    <3>4. {vps[i] : i \in D} = Range(vps)
      BY <3>1, Zenon DEF Range
    <3>5. \A i \in D : vps[i] \in VP
      BY <3>1
    <3> QED
      BY <3>3, <3>4, <3>5, Zenon
  <2> QED
    BY <2>1, FS_Subset
<1>2. PICK f : f = [v \in answering |-> RRSegments("spoofrr", hops[v], target, v)]
  OBVIOUS
<1>3. ASSUME NEW v \in answering PROVE f[v] \in SUBSET Seg /\ IsFiniteSet(f[v])
  <2>1. hops[v] \in Seq(Hop) /\ target \in Addr /\ v \in VP
    BY <1>1, RRHopsAre
  <2>2. "spoofrr" \in SegTypes
    BY DEF SegTypes
  <2>3. RRSegments("spoofrr", hops[v], target, v) \in SUBSET Seg
        /\ IsFiniteSet(RRSegments("spoofrr", hops[v], target, v))
    BY <2>1, <2>2, RRSegmentsAre, Zenon
  <2> QED
    BY <1>2, <2>3
<1>4. PICK S : S = {f[v] : v \in answering}
  OBVIOUS
<1>5. IsFiniteSet(S)
  BY <1>1, <1>2, <1>4, FiniteImage
<1>6. UNION S \in SUBSET Seg /\ IsFiniteSet(UNION S)
  BY <1>3, <1>4, <1>5, FS_UNION
<1>7. S = {RRSegments("spoofrr", hops[v], target, v) : v \in answering}
  BY <1>2, <1>4
<1> QED
  BY <1>6, <1>7, Zenon DEF SpoofedSegments

\* What a round of recordRoute does to the stack and to the step.
LEMMA RoundIs ==
  ASSUME TypeInv, StackInv, Running, NEW target \in Hop, NEW vps,
         \/ vps = <<NonSpoofed>> /\ DirectRR(target)
         \/ vps \in Seq(VP) /\ SpoofedRR(target, vps)
  PROVE  /\ Grown(paths, paths') /\ HopSet(CurrPath) \subseteq HopSet(CurrPath')
         /\ \/ pc' = "loop" /\ step' = step /\ Proceeds
            \/ pc' = "checkbg" /\ step' \in Steps /\ Proceeds
            \/ step' = step /\ Arrives("REACHES")
         /\ rrResponsive' \in [Hop -> Int]
<1>1. CASE vps = <<NonSpoofed>> /\ DirectRR(target)
  <2>1. rrResponsive' \in [Hop -> Int]
    BY <1>1 DEF DirectRR, TypeInv
  <2>2. CASE Loop /\ UNCHANGED paths
    <3>1. pc' = "loop" /\ step' = step /\ Proceeds
      BY <2>2 DEF Loop, Proceeds
    <3> QED
      BY <2>1, <2>2, <3>1, UnchangedGrows
  <2>3. CASE \E hops \in RRHops(target) :
               ExtendWith(RRSegments("rr", hops, target, NoVP), "trToSource")
    <3>1. PICK hops \in RRHops(target) :
                 ExtendWith(RRSegments("rr", hops, target, NoVP), "trToSource")
      BY <2>3
    <3>2. target \in Addr /\ hops \in Seq(Hop)
      BY RRHopsAre
    <3>3. "rr" \in SegTypes /\ NoVP \in VP \cup {NoVP} /\ ("rr" = "spoofrr" => NoVP \in VP)
      BY DEF SegTypes
    <3>4. PICK segs : segs = RRSegments("rr", hops, target, NoVP)
      OBVIOUS
    <3>5. segs \in SUBSET Seg /\ IsFiniteSet(segs)
      BY <3>2, <3>3, <3>4, RRSegmentsAre, Zenon
    <3>6. ExtendWith(segs, "trToSource")
      BY <3>1, <3>4
    <3>7. /\ Grown(paths, paths') /\ HopSet(CurrPath) \subseteq HopSet(CurrPath')
          /\ \/ pc' = "loop" /\ step' = step /\ Proceeds
             \/ pc' = "checkbg" /\ step' = "trToSource" /\ Proceeds
             \/ step' = step /\ Arrives("REACHES")
      BY <3>5, <3>6, ExtendWithIs
    <3> QED
      BY <2>1, <3>7 DEF Steps
  <2> QED
    BY <1>1, <2>2, <2>3 DEF DirectRR
<1>2. CASE vps \in Seq(VP) /\ SpoofedRR(target, vps)
  <2>1. PICK answering \in SUBSET Range(vps) : \E hops \in [answering -> RRHops(target)] :
          /\ rrResponsive' =
               [rrResponsive EXCEPT ![target] =
                  IF answering # {} THEN -1 ELSE IF @ = -1 THEN -1 ELSE @ + Len(vps)]
          /\ ExtendWith(UNION {RRSegments("spoofrr", hops[v], target, v) : v \in answering},
                        "timestamp")
    BY <1>2, Zenon DEF SpoofedRR
  <2>2. PICK hops \in [answering -> RRHops(target)] :
          ExtendWith(UNION {RRSegments("spoofrr", hops[v], target, v) : v \in answering}, "timestamp")
    BY <2>1, Zenon
  <2>3. rrResponsive' \in [Hop -> Int]
    <3>1. rrResponsive' =
            [rrResponsive EXCEPT ![target] =
               IF answering # {} THEN -1 ELSE IF @ = -1 THEN -1 ELSE @ + Len(vps)]
      BY <2>1, Zenon
    <3>2. rrResponsive \in [Hop -> Int]
      BY DEF TypeInv
    <3>3. Len(vps) \in Nat
      BY <1>2
    <3> QED
      BY <3>1, <3>2, <3>3
  <2>4. PICK segs : segs = SpoofedSegments(hops, target, answering)
    OBVIOUS
  <2>5. segs \in SUBSET Seg /\ IsFiniteSet(segs)
    BY <1>2, <2>4, SpoofedSegmentsAre, Zenon
  <2>6. ExtendWith(segs, "timestamp")
    BY <2>2, <2>4, Zenon DEF SpoofedSegments
  <2>7. /\ Grown(paths, paths') /\ HopSet(CurrPath) \subseteq HopSet(CurrPath')
        /\ \/ pc' = "loop" /\ step' = step /\ Proceeds
           \/ pc' = "checkbg" /\ step' = "timestamp" /\ Proceeds
           \/ step' = step /\ Arrives("REACHES")
    BY <2>5, <2>6, ExtendWithIs
  <2> QED
    BY <2>3, <2>7 DEF Steps
<1> QED
  BY <1>1, <1>2

LEMMA RRVPsAre ==
  ASSUME TypeInv, NEW D \in SUBSET Hop, NEW answer \in [D -> SpooferLists \cup {Uninit}]
  PROVE  RRVPs(answer) \in [Hop -> VPLists \cup {Uninit}]
<1> SUFFICES ASSUME NEW h \in Hop
             PROVE  (IF h \notin DOMAIN answer THEN vpsLeft[h]
                     ELSE IF answer[h] = Uninit THEN Uninit
                     ELSE <<NonSpoofed>> \o answer[h]) \in VPLists \cup {Uninit}
  BY Zenon DEF RRVPs
<1>1. CASE h \notin DOMAIN answer
  BY <1>1 DEF TypeInv
<1>2. CASE h \in DOMAIN answer /\ answer[h] = Uninit
  BY <1>2
<1>3. CASE h \in DOMAIN answer /\ answer[h] # Uninit
  <2>1. answer[h] \in Seq(VP)
    BY <1>3, RevtrAssumption
  <2>2. <<NonSpoofed>> \o answer[h] \in VPLists
    BY <2>1, VPListsAre
  <2> QED
    BY <1>3, <2>2
<1> QED
  BY <1>1, <1>2, <1>3

LEMMA RecordRouteStep == EngineInv /\ RecordRoute => EngineInv'
<1> SUFFICES ASSUME EngineInv, RecordRoute PROVE EngineInv'
  OBVIOUS
<1>1. Running /\ step = "recordRoute" /\ TypeInv /\ StackInv
  BY DEF RecordRoute, In, Calls, Running, Stopped, Panics, EngineInv
<1>2. UNCHANGED <<batchVars, deadEnd, tsVars, atlasVars>>
  BY DEF RecordRoute
<1>3. PICK answer \in [{h \in Range(LastSeg.hops) : vpsLeft[h] = Uninit}
                          -> SpooferLists \cup {Uninit}] :
        LET left   == RRVPs(answer)
            target == LastSeg.hops[Max(Usable(left))]
            batch  == NextBatch(left[target])
        IN  IF Usable(left) = {}
            THEN /\ vpsLeft' = left
                 /\ Goto("timestamp") /\ UNCHANGED <<paths, rrResponsive, sent>>
            ELSE /\ vpsLeft' = [left EXCEPT ![target] = batch.rest]
                 /\ sent' = [sent EXCEPT ![target] =
                      [v \in DOMAIN @ |-> IF v \in Range(batch.vps) THEN @[v] + 1 ELSE @[v]]]
                 /\ IF batch.vps = <<NonSpoofed>> THEN DirectRR(target)
                    ELSE SpoofedRR(target, batch.vps)
  BY Zenon DEF RecordRoute
<1>4. PICK left : left = RRVPs(answer)
  OBVIOUS
<1>5. PICK target : target = LastSeg.hops[Max(Usable(left))]
  OBVIOUS
<1>6. PICK batch : batch = NextBatch(left[target])
  OBVIOUS
<1>7. IF Usable(left) = {}
      THEN /\ vpsLeft' = left
           /\ Goto("timestamp") /\ UNCHANGED <<paths, rrResponsive, sent>>
      ELSE /\ vpsLeft' = [left EXCEPT ![target] = batch.rest]
           /\ sent' = [sent EXCEPT ![target] =
                [v \in DOMAIN @ |-> IF v \in Range(batch.vps) THEN @[v] + 1 ELSE @[v]]]
           /\ IF batch.vps = <<NonSpoofed>> THEN DirectRR(target)
              ELSE SpoofedRR(target, batch.vps)
  BY <1>3, <1>4, <1>5, <1>6, Zenon
<1>8. left \in [Hop -> VPLists \cup {Uninit}]
  <2>1. {h \in Range(LastSeg.hops) : vpsLeft[h] = Uninit} \in SUBSET Hop
    BY <1>1, StackIs DEF Range
  <2> QED
    BY <1>1, <1>4, <2>1, RRVPsAre
<1>9. /\ Grown(paths, paths') /\ HopSet(CurrPath) \subseteq HopSet(CurrPath')
      /\ \/ pc' = "loop" /\ step' = step /\ Proceeds
         \/ pc' = "select" /\ step' = "timestamp" /\ Proceeds
         \/ pc' = "checkbg" /\ step' \in Steps /\ Proceeds
         \/ step' = step /\ Arrives("REACHES")
      /\ rrResponsive' \in [Hop -> Int]
      /\ vpsLeft' \in [Hop -> VPLists \cup {Uninit}]
      /\ sent' \in [Hop -> [VP \cup {NonSpoofed} -> Nat]]
  <2>1. CASE Usable(left) = {}
    <3>1. pc' = "select" /\ step' = "timestamp" /\ Proceeds
      BY <1>7, <2>1 DEF Goto, Proceeds
    <3>2. Grown(paths, paths') /\ HopSet(CurrPath) \subseteq HopSet(CurrPath')
      BY <1>1, <1>7, <2>1, UnchangedGrows
    <3> QED
      BY <1>1, <1>7, <1>8, <2>1, <3>1, <3>2 DEF TypeInv
  <2>2. CASE Usable(left) # {}
    <3>1. target \in Hop /\ left[target] \in VPLists /\ left[target] # <<>>
      <4>1. PICK hops \in Seq(Hop) : hops = LastSeg.hops
        BY <1>1, StackIs
      <4>2. Usable(left) \in SUBSET (0..Len(hops)) /\ Len(hops) \in Nat
        BY <4>1 DEF Usable
      <4>3. Max(Usable(left)) \in Usable(left)
        BY <2>2, <4>2, MaxIs
      <4>4. target \in Hop /\ LeftFor(left, target) # <<>>
        <5>1. PICK i \in DOMAIN hops : target = hops[i] /\ LeftFor(left, hops[i]) # <<>>
          BY <1>5, <4>1, <4>3 DEF Usable
        <5> QED
          BY <5>1
      <4> QED
        BY <1>8, <4>4 DEF LeftFor
    <3>2. batch.rest \in VPLists /\ (batch.vps = <<NonSpoofed>> \/ batch.vps \in Seq(VP))
      BY <1>1, <1>6, <3>1, NextBatchIs
    <3>3. \/ batch.vps = <<NonSpoofed>> /\ DirectRR(target)
          \/ batch.vps \in Seq(VP) /\ SpoofedRR(target, batch.vps)
      BY <1>7, <2>2, <3>2
    <3>4. PICK vps : vps = batch.vps
      OBVIOUS
    <3>5. /\ Grown(paths, paths') /\ HopSet(CurrPath) \subseteq HopSet(CurrPath')
          /\ \/ pc' = "loop" /\ step' = step /\ Proceeds
             \/ pc' = "checkbg" /\ step' \in Steps /\ Proceeds
             \/ step' = step /\ Arrives("REACHES")
          /\ rrResponsive' \in [Hop -> Int]
      BY <1>1, <3>1, <3>3, <3>4, RoundIs
    <3>6. vpsLeft' \in [Hop -> VPLists \cup {Uninit}]
      BY <1>7, <1>8, <2>2, <3>2
    <3>7. sent' \in [Hop -> [VP \cup {NonSpoofed} -> Nat]]
      <4>1. sent \in [Hop -> [VP \cup {NonSpoofed} -> Nat]]
        BY <1>1 DEF TypeInv
      <4>2. PICK g : g = sent[target]
        OBVIOUS
      <4>3. g \in [VP \cup {NonSpoofed} -> Nat]
        BY <3>1, <4>1, <4>2
      <4>4. PICK k : k = [v \in DOMAIN g |-> IF v \in Range(vps) THEN g[v] + 1 ELSE g[v]]
        OBVIOUS
      <4>5. k \in [VP \cup {NonSpoofed} -> Nat]
        BY <4>3, <4>4
      <4>6. sent' = [sent EXCEPT ![target] = k]
        BY <1>7, <2>2, <3>4, <4>2, <4>4
      <4> QED
        BY <4>1, <4>5, <4>6
    <3> QED
      BY <3>5, <3>6, <3>7
  <2> QED
    BY <2>1, <2>2
<1>10. /\ StackInv' /\ TokenInv' /\ Outcome'
       /\ pc' \in {"select", "loop", "checkbg"} \cup Stopped /\ step' \in Steps
       /\ paths' \in Seq(Path)
       /\ stopReason' \in {"", "REACHES", "TRIVIAL", "FAILED", "CANCELED"}
  BY <1>1, <1>2, <1>9, ProbeStep
<1>11. TypeInv'
  BY <1>1, <1>2, <1>9, <1>10 DEF TypeInv, batchVars, tsVars, atlasVars
<1> QED
  BY <1>10, <1>11 DEF EngineInv

-----------------------------------------------------------------------------
(* timestamp                                                               *)

\* A round of timestamp pings shows the adjacency or nothing.
LEMMA ProbeAdjacentCases ==
  ASSUME NEW target, NEW adj, ProbeAdjacent(target, adj)
  PROVE  /\ \/ Loop /\ UNCHANGED paths
            \/ Goto("backgroundTRS") /\ UNCHANGED paths
            \/ Panic("index out of range") /\ UNCHANGED paths
            \/ ExtendWith({Segment("ts", <<adj>>, target)}, "trToSource")
         /\ tsResponsive' \in {tsResponsive, tsResponsive \ {target}}
         /\ stampsZero' \in {stampsZero, stampsZero \cup {target}}
         /\ \/ UNCHANGED sendSpoofed
            \/ sendSpoofed' = [sendSpoofed EXCEPT ![target] = "no"]
            \/ sendSpoofed' = [sendSpoofed EXCEPT ![target] = "yes"]
<1>1. CASE target \in stampsZero
  BY <1>1 DEF ProbeAdjacent, NoTSReply
<1>2. CASE target \notin stampsZero /\ sendSpoofed[target] # "yes"
  BY <1>2, Zenon DEF ProbeAdjacent, AnsweredTS, SpoofedTS, NoTSReply
<1>3. CASE target \notin stampsZero /\ sendSpoofed[target] = "yes"
  BY <1>3, Zenon DEF ProbeAdjacent, SpoofedTS
<1> QED
  BY <1>1, <1>2, <1>3

\* What a round of timestamp pings does to the stack and to the step.
LEMMA ProbeAdjacentIs ==
  ASSUME TypeInv, StackInv, Running, NEW target \in Addr, NEW adj \in Addr,
         ProbeAdjacent(target, adj)
  PROVE  /\ Grown(paths, paths') /\ HopSet(CurrPath) \subseteq HopSet(CurrPath')
         /\ \/ pc' = "loop" /\ step' = step /\ Proceeds
            \/ pc' = "select" /\ step' = "backgroundTRS" /\ Proceeds
            \/ pc' = "checkbg" /\ step' \in Steps /\ Proceeds
            \/ pc' \in Panics /\ step' = step /\ Proceeds
            \/ step' = step /\ Arrives("REACHES")
         /\ tsResponsive' \subseteq tsResponsive
         /\ stampsZero' \subseteq stampsZero \cup {target}
         /\ \/ UNCHANGED sendSpoofed
            \/ \E answer \in {"no", "yes"} : sendSpoofed' = [sendSpoofed EXCEPT ![target] = answer]
<1>1. /\ \/ Loop /\ UNCHANGED paths
         \/ Goto("backgroundTRS") /\ UNCHANGED paths
         \/ Panic("index out of range") /\ UNCHANGED paths
         \/ ExtendWith({Segment("ts", <<adj>>, target)}, "trToSource")
      /\ tsResponsive' \in {tsResponsive, tsResponsive \ {target}}
      /\ stampsZero' \in {stampsZero, stampsZero \cup {target}}
      /\ \/ UNCHANGED sendSpoofed
         \/ sendSpoofed' = [sendSpoofed EXCEPT ![target] = "no"]
         \/ sendSpoofed' = [sendSpoofed EXCEPT ![target] = "yes"]
  BY ProbeAdjacentCases
<1>2. CASE /\ Loop \/ Goto("backgroundTRS") \/ Panic("index out of range")
           /\ UNCHANGED paths
  <2>1. Grown(paths, paths') /\ HopSet(CurrPath) \subseteq HopSet(CurrPath')
    BY <1>2, UnchangedGrows
  <2>2. \/ pc' = "loop" /\ step' = step /\ Proceeds
        \/ pc' = "select" /\ step' = "backgroundTRS" /\ Proceeds
        \/ pc' \in Panics /\ step' = step /\ Proceeds
    BY <1>2 DEF Loop, Goto, Panic, Panics, Proceeds
  <2> QED
    BY <1>1, <2>1, <2>2, Zenon
<1>3. CASE ExtendWith({Segment("ts", <<adj>>, target)}, "trToSource")
  <2>1. PICK segs : segs = {Segment("ts", <<adj>>, target)}
    OBVIOUS
  <2>2. segs \in SUBSET Seg /\ IsFiniteSet(segs)
    <3>1. PICK hops : hops = <<adj>>
      OBVIOUS
    <3>2. hops \in Seq(Hop) /\ hops # <<>> /\ hops[Len(hops)] = adj /\ adj # Zero
      BY <3>1, PathAssumption DEF Hop
    <3>3. Segment("ts", hops, target) \in Seg
      BY <3>2 DEF Segment, Seg, Segments, SegTypes, LastHop
    <3> QED
      BY <2>1, <3>1, <3>3, FS_Singleton
  <2>3. /\ Grown(paths, paths') /\ HopSet(CurrPath) \subseteq HopSet(CurrPath')
        /\ \/ pc' = "loop" /\ step' = step /\ Proceeds
           \/ pc' = "checkbg" /\ step' = "trToSource" /\ Proceeds
           \/ step' = step /\ Arrives("REACHES")
    BY <1>3, <2>1, <2>2, ExtendWithIs
  <2>4. "trToSource" \in Steps
    BY DEF Steps
  <2> QED
    BY <1>1, <2>3, <2>4, Zenon
<1> QED
  BY <1>1, <1>2, <1>3

LEMMA TimestampStep == EngineInv /\ Timestamp => EngineInv'
<1> SUFFICES ASSUME EngineInv, Timestamp PROVE EngineInv'
  OBVIOUS
<1>1. TypeInv /\ StackInv /\ Running /\ step = "timestamp"
  BY DEF Timestamp, In, Calls, Running, Stopped, Panics, EngineInv
<1>2. UNCHANGED <<batchVars, deadEnd, rrVars, atlasVars>>
  BY DEF Timestamp
<1>3. PICK target \in Addr : target = LastHop(LastSeg)
  BY <1>1, StackIs
<1>4. \/ Goto("backgroundTRS") /\ UNCHANGED <<paths, tsVars>>
      \/ \E answer \in AdjacencyLists \cup {Uninit} :
           LET list == IF adjsLeft[target] = Uninit THEN answer ELSE adjsLeft[target]
           IN  IF list \in {Uninit, <<>>}
               THEN /\ adjsLeft' = [adjsLeft EXCEPT ![target] = list]
                    /\ Goto("backgroundTRS")
                    /\ UNCHANGED <<paths, tsResponsive, stampsZero, sendSpoofed>>
               ELSE /\ adjsLeft' = [adjsLeft EXCEPT ![target] = Tail(list)]
                    /\ ProbeAdjacent(target, Head(list))
  BY <1>3, Zenon DEF Timestamp
<1>5. /\ Grown(paths, paths') /\ HopSet(CurrPath) \subseteq HopSet(CurrPath')
      /\ \/ pc' = "loop" /\ step' = step /\ Proceeds
         \/ pc' = "select" /\ step' = "backgroundTRS" /\ Proceeds
         \/ pc' = "checkbg" /\ step' \in Steps /\ Proceeds
         \/ pc' \in Panics /\ step' = step /\ Proceeds
         \/ step' = step /\ Arrives("REACHES")
      /\ tsResponsive' \subseteq Hop /\ stampsZero' \subseteq Hop
      /\ sendSpoofed' \in [Hop -> {"unset", "no", "yes"}]
      /\ adjsLeft' \in [Hop -> Seq(Addr) \cup {Uninit}]
  <2>1. /\ adjsLeft \in [Hop -> Seq(Addr) \cup {Uninit}]
        /\ tsResponsive \subseteq Hop /\ stampsZero \subseteq Hop
        /\ sendSpoofed \in [Hop -> {"unset", "no", "yes"}]
        /\ target \in Hop
    BY <1>1 DEF TypeInv, Hop
  <2>2. ASSUME Goto("backgroundTRS"), UNCHANGED paths
        PROVE  /\ Grown(paths, paths') /\ HopSet(CurrPath) \subseteq HopSet(CurrPath')
               /\ pc' = "select" /\ step' = "backgroundTRS" /\ Proceeds
    <3>1. Grown(paths, paths') /\ HopSet(CurrPath) \subseteq HopSet(CurrPath')
      BY <1>1, <2>2, UnchangedGrows
    <3>2. pc' = "select" /\ step' = "backgroundTRS" /\ Proceeds
      BY <2>2 DEF Goto, Proceeds
    <3> QED
      BY <3>1, <3>2
  <2>3. CASE Goto("backgroundTRS") /\ UNCHANGED <<paths, tsVars>>
    BY <2>1, <2>2, <2>3 DEF tsVars
  <2>4. CASE \E answer \in AdjacencyLists \cup {Uninit} :
               LET list == IF adjsLeft[target] = Uninit THEN answer ELSE adjsLeft[target]
               IN  IF list \in {Uninit, <<>>}
                   THEN /\ adjsLeft' = [adjsLeft EXCEPT ![target] = list]
                        /\ Goto("backgroundTRS")
                        /\ UNCHANGED <<paths, tsResponsive, stampsZero, sendSpoofed>>
                   ELSE /\ adjsLeft' = [adjsLeft EXCEPT ![target] = Tail(list)]
                        /\ ProbeAdjacent(target, Head(list))
    <3>1. PICK list \in Seq(Addr) \cup {Uninit} :
            \/ /\ list \in {Uninit, <<>>}
               /\ adjsLeft' = [adjsLeft EXCEPT ![target] = list]
               /\ Goto("backgroundTRS")
               /\ UNCHANGED <<paths, tsResponsive, stampsZero, sendSpoofed>>
            \/ /\ list \notin {Uninit, <<>>}
               /\ adjsLeft' = [adjsLeft EXCEPT ![target] = Tail(list)]
               /\ ProbeAdjacent(target, Head(list))
      <4>1. \A answer \in AdjacencyLists \cup {Uninit} :
              (IF adjsLeft[target] = Uninit THEN answer ELSE adjsLeft[target])
                \in Seq(Addr) \cup {Uninit}
        BY <2>1, RevtrAssumption
      <4> QED
        BY <2>4, <4>1, Zenon
    <3>2. CASE list \in {Uninit, <<>>}
      <4>1. /\ adjsLeft' = [adjsLeft EXCEPT ![target] = list]
            /\ Goto("backgroundTRS")
            /\ UNCHANGED <<paths, tsResponsive, stampsZero, sendSpoofed>>
        BY <3>1, <3>2
      <4>2. adjsLeft' \in [Hop -> Seq(Addr) \cup {Uninit}]
        BY <2>1, <4>1
      <4> QED
        BY <2>1, <2>2, <4>1, <4>2
    <3>3. CASE list \notin {Uninit, <<>>}
      <4>1. adjsLeft' = [adjsLeft EXCEPT ![target] = Tail(list)] /\ ProbeAdjacent(target, Head(list))
        BY <3>1, <3>3
      <4>2. list \in Seq(Addr) /\ list # <<>> /\ Head(list) \in Addr /\ Tail(list) \in Seq(Addr)
        BY <3>3
      <4>3. PICK rest \in Seq(Addr) : rest = Tail(list)
        BY <4>2
      <4>4. adjsLeft' \in [Hop -> Seq(Addr) \cup {Uninit}]
        BY <2>1, <4>1, <4>3
      <4>5. PICK adj \in Addr : adj = Head(list)
        BY <4>2
      <4>6. /\ Grown(paths, paths') /\ HopSet(CurrPath) \subseteq HopSet(CurrPath')
            /\ \/ pc' = "loop" /\ step' = step /\ Proceeds
               \/ pc' = "select" /\ step' = "backgroundTRS" /\ Proceeds
               \/ pc' = "checkbg" /\ step' \in Steps /\ Proceeds
               \/ pc' \in Panics /\ step' = step /\ Proceeds
               \/ step' = step /\ Arrives("REACHES")
            /\ tsResponsive' \subseteq tsResponsive
            /\ stampsZero' \subseteq stampsZero \cup {target}
            /\ \/ UNCHANGED sendSpoofed
               \/ \E answer \in {"no", "yes"} : sendSpoofed' = [sendSpoofed EXCEPT ![target] = answer]
        BY <1>1, <4>1, <4>5, ProbeAdjacentIs
      <4>7. sendSpoofed' \in [Hop -> {"unset", "no", "yes"}]
        BY <2>1, <4>6
      <4>8. tsResponsive' \subseteq Hop /\ stampsZero' \subseteq Hop
        BY <2>1, <4>6
      <4> QED
        BY <4>4, <4>6, <4>7, <4>8, Zenon
    <3> QED
      BY <3>2, <3>3
  <2> QED
    BY <1>4, <2>3, <2>4
<1>6. /\ StackInv' /\ TokenInv' /\ Outcome'
      /\ pc' \in {"select", "loop", "checkbg"} \cup Stopped /\ step' \in Steps
      /\ paths' \in Seq(Path)
      /\ stopReason' \in {"", "REACHES", "TRIVIAL", "FAILED", "CANCELED"}
  BY <1>1, <1>2, <1>5, ProbeStep
<1>7. TypeInv'
  BY <1>1, <1>2, <1>5, <1>6 DEF TypeInv, batchVars, rrVars, atlasVars
<1> QED
  BY <1>6, <1>7 DEF EngineInv

-----------------------------------------------------------------------------
(* assumeSymmetric                                                         *)

LEMMA NewReversePathIs ==
  /\ NewReversePath \in Path /\ Len(NewReversePath) = 1 /\ IsInitial(NewReversePath)
  /\ Last(NewReversePath).type = "dst" /\ PathLastHop(NewReversePath) = Dst
  /\ ~PathReaches(NewReversePath) /\ LoopFree(NewReversePath)
<1>1. PICK hops : hops = <<Dst>>
  OBVIOUS
<1>2. hops \in Seq(Hop) /\ hops # <<>> /\ Len(hops) = 1 /\ hops[1] = Dst /\ Dst # Zero
  BY <1>1, PathAssumption DEF Hop
<1>3. PICK s : s = Segment("dst", hops, Dst)
  OBVIOUS
<1>4. s \in Seg /\ s.type = "dst" /\ LastHop(s) = Dst /\ s.hops = hops
  <2>1. s = [type |-> "dst", hops |-> hops, hop |-> Dst, tr |-> <<>>, num |-> 0, spf |-> NoVP]
    BY <1>3 DEF Segment
  <2>2. s.type = "dst" /\ s.hops = hops
    BY <2>1
  <2>3. s \in Segments
    BY <1>2, <2>1, PathAssumption DEF Segments, SegTypes
  <2>4. LastHop(s) = Dst
    BY <1>2, <2>2 DEF LastHop
  <2> QED
    BY <1>2, <2>2, <2>3, <2>4 DEF Seg
<1>5. PICK p : p = <<s>>
  OBVIOUS
<1>6. p \in Path /\ Len(p) = 1 /\ p[1] = s /\ Last(p) = s
  BY <1>4, <1>5 DEF Path, Last
<1>7. NewReversePath = p
  BY <1>1, <1>3, <1>5 DEF NewReversePath
<1>8. ~PathReaches(p)
  BY <1>4, <1>6, PathAssumption DEF PathReaches, SegReaches
<1>9. IsInitial(p) /\ PathLastHop(p) = Dst /\ Last(p).type = "dst"
  BY <1>4, <1>6 DEF IsInitial, PathLastHop
<1>10. LoopFree(p)
  BY <1>6 DEF LoopFree
<1> QED
  BY <1>6, <1>7, <1>8, <1>9, <1>10

\* FailCurrPath keeps the bottom of the stack.
LEMMA AfterFailIs ==
  ASSUME NEW stack \in Seq(Path), NEW dead
  PROVE  \E n \in 0..Len(stack) :
           /\ AfterFail(stack, dead) = SubSeq(stack, 1, n)
           /\ \A i \in 1..Len(stack) : StaysOnTop(stack[i], dead) => i <= n
<1>1. PICK S : S = {0} \cup {n \in DOMAIN stack : \/ StaysOnTop(stack[n], dead)
                                                  \/ Failed(SubSeq(stack, 1, n))}
  OBVIOUS
<1>2. S \in SUBSET (0..Len(stack)) /\ S # {} /\ Len(stack) \in Nat
  BY <1>1
<1>3. PICK n \in 0..Len(stack) : n = Max(S) /\ \A x \in S : x <= n
  BY <1>2, MaxIs
<1>4. AfterFail(stack, dead) = SubSeq(stack, 1, n)
  BY <1>1, <1>3 DEF AfterFail
<1>5. \A i \in 1..Len(stack) : StaysOnTop(stack[i], dead) => i \in S
  BY <1>1
<1> QED
  BY <1>3, <1>4, <1>5

LEMMA PrefixOfStackIs ==
  ASSUME NEW stack \in Seq(Path), NEW n \in 0..Len(stack)
  PROVE  LET kept == SubSeq(stack, 1, n)
         IN  /\ kept \in Seq(Path) /\ Len(kept) = n /\ DOMAIN kept = 1..n
             /\ \A i \in 1..n : i \in DOMAIN stack /\ kept[i] = stack[i]
OBVIOUS

\* Either the destination itself is given up, or a path is left to go on with.
LEMMA FailIs ==
  ASSUME TypeInv, StackInv, Running, FailCurrPath, backoffEndhost' = backoffEndhost
  PROVE  /\ paths' \in Seq(Path) /\ deadEnd' \subseteq Hop /\ step' \in {step, "trToSource"}
         /\ StackInv'
         /\ \/ /\ pc' = "returned" /\ stopReason' = "FAILED" /\ step' = step
               /\ Dst \in deadEnd' /\ ~\E p \in Range(paths') : PathReaches(p)
            \/ pc' = "select" /\ step' = "trToSource" /\ Proceeds
<1>1. paths \in Seq(Path) /\ \A i \in 1..Len(paths) : LoopFree(paths[i])
  BY PathsAre
<1>2. paths # <<>> /\ paths[1] = NewReversePath /\ Len(paths) >= 1
  BY <1>1 DEF StackInv
<1>3. PICK hop \in Addr : hop = LastHop(LastSeg)
  BY StackIs
<1>4. PICK dead : dead = deadEnd \cup {hop}
  OBVIOUS
<1>5. deadEnd' = dead /\ dead \subseteq Hop
  BY <1>3, <1>4 DEF FailCurrPath, TypeInv, Hop
<1>6. PICK n \in 0..Len(paths) :
        /\ AfterFail(paths, dead) = SubSeq(paths, 1, n)
        /\ \A i \in 1..Len(paths) : StaysOnTop(paths[i], dead) => i <= n
  BY <1>1, AfterFailIs
<1>7. PICK kept : kept = SubSeq(paths, 1, n)
  OBVIOUS
<1>8. /\ kept \in Seq(Path) /\ Len(kept) = n /\ DOMAIN kept = 1..n
      /\ \A i \in 1..n : i \in 1..Len(paths) /\ kept[i] = paths[i]
  BY <1>1, <1>7, PrefixOfStackIs
<1>9. paths' = kept
  BY <1>5, <1>6, <1>7 DEF FailCurrPath
<1>10. IF Failed(kept) THEN Return("FAILED") ELSE Goto("trToSource")
  BY <1>9, Zenon DEF FailCurrPath
<1>11. backoffEndhost /\ n >= 1 =>
         \/ paths = <<NewReversePath>> /\ n = 1
         \/ Len(paths) >= 2 /\ Last(paths[2]).type = "sym" /\ n >= 2
  <2> SUFFICES ASSUME backoffEndhost, n >= 1
               PROVE  \/ paths = <<NewReversePath>> /\ n = 1
                      \/ Len(paths) >= 2 /\ Last(paths[2]).type = "sym" /\ n >= 2
    OBVIOUS
  <2>1. CASE paths = <<NewReversePath>>
    <3>1. Len(paths) = 1
      BY <2>1
    <3> QED
      BY <2>1, <3>1
  <2>2. CASE Len(paths) >= 2 /\ Last(paths[2]).type = "sym"
    <3>1. StaysOnTop(paths[2], dead)
      BY <2>2 DEF StaysOnTop
    <3>2. 2 \in 1..Len(paths)
      BY <1>1, <2>2
    <3> QED
      BY <1>6, <2>2, <3>1, <3>2
  <2> QED
    BY <2>1, <2>2 DEF StackInv
<1>12. CASE Failed(kept)
  <2>1. pc' = "returned" /\ stopReason' = "FAILED" /\ step' = step
    BY <1>10, <1>12 DEF Return
  <2>2. n = 0 \/ (backoffEndhost /\ n = 1 /\ kept[1] = NewReversePath)
    <3>1. kept = <<>> \/ (backoffEndhost /\ Len(kept) = 1)
      BY <1>12 DEF Failed
    <3>2. kept = <<>> => n = 0
      BY <1>8
    <3>3. n = 1 => kept[1] = NewReversePath
      BY <1>2, <1>8
    <3> QED
      BY <1>8, <3>1, <3>2, <3>3
  <2>3. Dst \in dead
    <3>1. CASE n = 0
      <4>1. ~StaysOnTop(paths[1], dead)
        BY <1>2, <1>6, <3>1
      <4> QED
        BY <1>2, <4>1, NewReversePathIs DEF StaysOnTop
    <3>2. CASE backoffEndhost /\ n = 1
      <4>1. paths = <<NewReversePath>>
        BY <1>11, <3>2
      <4>2. Last(paths) = NewReversePath
        BY <4>1 DEF Last
      <4>3. hop = Dst
        BY <1>3, <4>2, NewReversePathIs, Zenon DEF LastSeg, CurrPath, PathLastHop
      <4> QED
        BY <1>4, <4>3
    <3> QED
      BY <2>2, <3>1, <3>2
  <2>4. ~\E p \in Range(kept) : PathReaches(p)
    <3> SUFFICES ASSUME NEW i \in DOMAIN kept PROVE ~PathReaches(kept[i])
      BY Zenon DEF Range
    <3>1. i = 1 /\ kept[i] = NewReversePath
      BY <1>8, <2>2
    <3> QED
      BY <3>1, NewReversePathIs
  <2>5. StackInv'
    <3>1. ~Running'
      BY <2>1 DEF Running, Stopped
    <3>2. \A i \in DOMAIN kept : LoopFree(kept[i])
      BY <1>1, <1>8
    <3> QED
      BY <1>9, <3>1, <3>2 DEF StackInv
  <2> QED
    BY <1>5, <1>8, <1>9, <2>1, <2>3, <2>4, <2>5
<1>13. CASE ~Failed(kept)
  <2>1. pc' = "select" /\ step' = "trToSource" /\ Proceeds
    BY <1>10, <1>13 DEF Goto, Proceeds
  <2>2. n >= 1
    <3>1. kept # <<>>
      BY <1>13 DEF Failed
    <3> QED
      BY <1>8, <3>1
  <2>3. kept # <<>> /\ kept[1] = NewReversePath
    BY <1>2, <1>8, <2>2
  <2>4. backoffEndhost => Len(kept) >= 2 /\ Last(kept[2]).type = "sym"
    <3> SUFFICES ASSUME backoffEndhost PROVE Len(kept) >= 2 /\ Last(kept[2]).type = "sym"
      OBVIOUS
    <3>1. n # 1
      BY <1>8, <1>13, <2>3, NewReversePathIs DEF Failed
    <3>2. n >= 2 /\ Last(paths[2]).type = "sym"
      BY <1>11, <2>2, <3>1
    <3> QED
      BY <1>8, <3>2
  <2>5. StackInv'
    <3>1. \A i \in DOMAIN kept : LoopFree(kept[i])
      BY <1>1, <1>8
    <3> QED
      BY <1>9, <2>3, <2>4, <3>1 DEF StackInv
  <2> QED
    BY <1>5, <1>8, <1>9, <2>1, <2>5
<1> QED
  BY <1>12, <1>13

\* A path with an assumption at its end is pushed.
LEMMA StackGrowsByAssumption ==
  ASSUME TypeInv, StackInv, Running, backoffEndhost' = backoffEndhost,
         Grown(paths, paths'), Len(paths') > Len(paths),
         paths = <<NewReversePath>> =>
           \A i \in Len(paths) + 1..Len(paths') : Last(paths'[i]).type = "sym"
  PROVE  StackInv'
<1>1. paths # <<>> /\ paths[1] = NewReversePath /\ paths \in Seq(Path)
  BY DEF StackInv, TypeInv
<1>2. Len(paths) >= 1 /\ Len(paths) \in Nat /\ Len(paths') \in Nat
  BY <1>1 DEF Grown
<1>3. paths' # <<>> /\ paths'[1] = NewReversePath
  <2>1. 1 \in 1..Len(paths)
    BY <1>2
  <2> QED
    BY <1>1, <1>2, <2>1 DEF Grown
<1>4. backoffEndhost => Len(paths') >= 2 /\ Last(paths'[2]).type = "sym"
  <2> SUFFICES ASSUME backoffEndhost PROVE Len(paths') >= 2 /\ Last(paths'[2]).type = "sym"
    OBVIOUS
  <2>1. CASE paths = <<NewReversePath>>
    <3>1. Len(paths) = 1
      BY <2>1
    <3>2. Len(paths') >= 2 /\ 2 \in Len(paths) + 1..Len(paths')
      BY <1>2, <3>1
    <3> QED
      BY <2>1, <3>2
  <2>2. CASE Len(paths) >= 2 /\ Last(paths[2]).type = "sym"
    <3>1. 2 \in 1..Len(paths) /\ Len(paths') >= 2
      BY <1>2, <2>2
    <3>2. paths'[2] = paths[2]
      BY <3>1 DEF Grown
    <3> QED
      BY <2>2, <3>1, <3>2
  <2> QED
    BY <2>1, <2>2 DEF StackInv
<1>5. \A i \in DOMAIN paths' : LoopFree(paths'[i])
  BY DEF Grown
<1> QED
  BY <1>3, <1>4, <1>5 DEF StackInv

\* How an assumption ends.
Assumed(reason) ==
  /\ paths' \in Seq(Path) /\ deadEnd' \subseteq Hop
  /\ StackInv'
  /\ \/ /\ pc' = "returned" /\ stopReason' = "FAILED" /\ step' = step
        /\ Dst \in deadEnd' /\ ~\E p \in Range(paths') : PathReaches(p)
     \/ pc' = "select" /\ step' = "trToSource" /\ Proceeds
     \/ pc' \in Panics /\ step' = step /\ Proceeds
     \/ step' = step /\ Arrives(reason)

\* AddHop and NewDstSymRevSegment make symmetric segments of a traceroute.
LEMMA AddHopIs ==
  ASSUME NEW seg \in Seg, NEW ignore
  PROVE  LET new == AddHop(seg, ignore)
         IN  /\ new \in Seg /\ new.type = seg.type /\ new.tr = seg.tr
             /\ new.hops = SelectNonzeroHops(Backwards(seg.tr), seg.num + 1, ignore)
<1>1. PICK new : new = AddHop(seg, ignore)
  OBVIOUS
<1>2. seg \in Segments /\ seg.tr \in Seq(Hop) /\ seg.num \in Nat
  BY DEF Seg, Segments
<1>3. PICK back : back = Backwards(seg.tr) /\ back \in Seq(Hop) /\ back # <<>> /\ back[Len(back)] # Zero
  BY <1>2, BackwardsIs
<1>4. PICK hops : /\ hops = SelectNonzeroHops(back, seg.num + 1, ignore)
                  /\ hops \in Seq(Hop) /\ hops # <<>> /\ hops[Len(hops)] # Zero
  BY <1>3, SelectIs
<1>5. new = [seg EXCEPT !.num = @ + 1, !.hops = hops]
  BY <1>1, <1>3, <1>4 DEF AddHop
<1>6. PICK num \in Nat : num = seg.num + 1
  BY <1>2
<1>7. seg = [type |-> seg.type, hops |-> seg.hops, hop |-> seg.hop,
             tr |-> seg.tr, num |-> seg.num, spf |-> seg.spf]
  BY <1>2 DEF Segments
<1>8. new = [type |-> seg.type, hops |-> hops, hop |-> seg.hop,
             tr |-> seg.tr, num |-> num, spf |-> seg.spf]
  BY <1>5, <1>6, <1>7
<1>9. seg.type \in SegTypes /\ seg.hop \in Addr /\ seg.tr \in Seq(Hop) /\ seg.spf \in VP \cup {NoVP}
  BY <1>2 DEF Segments
<1>10. new \in Segments /\ new.hops = hops /\ new.type = seg.type /\ new.tr = seg.tr /\ new.spf = seg.spf
  BY <1>4, <1>8, <1>9 DEF Segments
<1> QED
  BY <1>1, <1>3, <1>4, <1>10 DEF Seg, LastHop

LEMMA NewSymIs ==
  ASSUME NEW from \in Addr, NEW trace \in Seq(Hop), NEW ignore
  PROVE  LET new == NewDstSymRevSegment(from, trace, ignore)
         IN  /\ new \in Seg /\ new.type = "sym" /\ new.tr = trace
             /\ new.hops = SelectNonzeroHops(Backwards(trace), 1, ignore)
<1>1. PICK new : new = NewDstSymRevSegment(from, trace, ignore)
  OBVIOUS
<1>2. PICK back : back = Backwards(trace) /\ back \in Seq(Hop) /\ back # <<>> /\ back[Len(back)] # Zero
  BY BackwardsIs
<1>3. PICK hops : /\ hops = SelectNonzeroHops(back, 1, ignore)
                  /\ hops \in Seq(Hop) /\ hops # <<>> /\ hops[Len(hops)] # Zero
  BY <1>2, SelectIs
<1>4. new = [type |-> "sym", hops |-> hops, hop |-> from, tr |-> trace, num |-> 1, spf |-> NoVP]
  BY <1>1, <1>2, <1>3 DEF NewDstSymRevSegment, Segment
<1>5. new \in Segments /\ new.hops = hops /\ new.type = "sym" /\ new.tr = trace
  BY <1>3, <1>4 DEF Segments, SegTypes
<1> QED
  BY <1>1, <1>2, <1>3, <1>5 DEF Seg, LastHop

\* The last segment, an assumption, is replaced by a longer one.
LEMMA ExtendSymmetricIs ==
  ASSUME TypeInv, StackInv, Running, backoffEndhost' = backoffEndhost,
         LastSeg.type = "sym", NEW reason, ExtendSymmetric(reason)
  PROVE  Assumed(reason)
<1>1. PICK path \in Path : path = CurrPath /\ path \in Seq(Seg) /\ path # <<>> /\ LoopFree(path)
  BY StackIs
<1>2. PICK seg \in Seg : seg = LastSeg /\ seg.type = "sym"
  BY StackIs
<1>3. PICK ignore : ignore = HopsButLastSeg \cup deadEnd
  OBVIOUS
<1>4. PICK new : new = AddHop(seg, ignore)
  OBVIOUS
<1>5. new \in Seg /\ new.type = "sym"
  BY <1>2, <1>4, AddHopIs
<1>6. PICK front : front = Front(path)
  OBVIOUS
<1>7. front \in Seq(Seg) /\ LoopFree(front)
  <2>1. Len(path) - 1 \in 0..Len(path) /\ front = SubSeq(path, 1, Len(path) - 1)
    BY <1>1, <1>6 DEF Front
  <2> QED
    BY <1>1, <2>1, PrefixLoopFree
<1>8. PICK longer \in Path : longer = Append(front, new) /\ LoopFree(longer) /\ Last(longer) = new
  <2>1. Append(front, new) \in Path /\ LoopFree(Append(front, new))
    BY <1>5, <1>7, AppendLoopFree
  <2>2. Last(Append(front, new)) = new
    BY <1>7 DEF Last
  <2> QED
    BY <2>1, <2>2
<1>9. IF LastHop(new) \in deadEnd
      THEN Panic("should never get here") /\ UNCHANGED <<paths, deadEnd>>
      ELSE /\ paths' = Append(paths, longer)
           /\ IF SegReaches(new) THEN Return(reason) ELSE Goto("trToSource")
           /\ UNCHANGED deadEnd
  BY <1>1, <1>2, <1>3, <1>4, <1>6, <1>8, Zenon DEF ExtendSymmetric
<1>10. paths \in Seq(Path) /\ deadEnd \subseteq Hop /\ \A i \in 1..Len(paths) : LoopFree(paths[i])
  BY PathsAre DEF TypeInv
<1>11. CASE LastHop(new) \in deadEnd
  <2>1. pc' \in Panics /\ step' = step /\ Proceeds /\ UNCHANGED <<paths, deadEnd>>
    BY <1>9, <1>11 DEF Panic, Panics, Proceeds
  <2>2. ~Running'
    BY <2>1 DEF Running, Stopped
  <2>3. StackInv'
    BY <2>1, <2>2 DEF StackInv
  <2> QED
    BY <1>10, <2>1, <2>3 DEF Assumed
<1>12. CASE LastHop(new) \notin deadEnd
  <2>1. PICK stack : stack = Append(paths, longer) /\ stack = paths'
    BY <1>9, <1>12
  <2>2. /\ stack \in Seq(Path) /\ Len(stack) = Len(paths) + 1 /\ Last(stack) = longer
        /\ stack[Len(paths) + 1] = longer /\ \A i \in 1..Len(paths) : stack[i] = paths[i]
    <3>1. PICK base \in Seq(Path) : base = paths
      BY <1>10
    <3>2. stack = Append(base, longer)
      BY <2>1, <3>1
    <3>3. /\ stack \in Seq(Path) /\ Len(stack) = Len(base) + 1
          /\ stack[Len(base) + 1] = longer /\ \A i \in 1..Len(base) : stack[i] = base[i]
      BY <3>2
    <3> QED
      BY <3>1, <3>3 DEF Last
  <2>3. Grown(paths, stack) /\ Len(stack) > Len(paths)
    <3>1. ASSUME NEW i \in 1..Len(stack) PROVE LoopFree(stack[i])
      <4>1. i \in 1..Len(paths) \/ i = Len(paths) + 1
        BY <1>10, <2>2
      <4> QED
        BY <1>8, <1>10, <2>2, <4>1
    <3> QED
      BY <1>10, <2>2, <3>1 DEF Grown
  <2>4. \A i \in Len(paths) + 1..Len(stack) : Last(stack[i]).type = "sym"
    <3>1. \A i \in Len(paths) + 1..Len(stack) : i = Len(paths) + 1
      BY <1>10, <2>2
    <3> QED
      BY <1>5, <1>8, <2>2, <3>1
  <2>5. StackInv'
    BY <2>1, <2>3, <2>4, StackGrowsByAssumption
  <2>6. \/ pc' = "select" /\ step' = "trToSource" /\ Proceeds
        \/ step' = step /\ Arrives(reason)
    <3>1. SegReaches(new) => PathReaches(Last(paths'))
      BY <1>8, <2>1, <2>2 DEF PathReaches
    <3>2. CASE SegReaches(new)
      BY <1>9, <1>12, <3>1, <3>2 DEF Return, Arrives
    <3>3. CASE ~SegReaches(new)
      BY <1>9, <1>12, <3>3 DEF Goto, Proceeds
    <3> QED
      BY <3>2, <3>3
  <2>7. UNCHANGED deadEnd
    BY <1>9, <1>12
  <2> QED
    BY <1>10, <2>1, <2>2, <2>5, <2>6, <2>7 DEF Assumed
<1> QED
  BY <1>11, <1>12

\* A hop before the end of a forward traceroute is assumed, or the path fails.
LEMMA AssumeFromIs ==
  ASSUME TypeInv, StackInv, Running, backoffEndhost' = backoffEndhost,
         NEW trace \in ForwardTraces, NEW reason, AssumeFrom(trace, reason)
  PROVE  Assumed(reason)
<1>1. PICK seg : seg = NewDstSymRevSegment(LastHop(LastSeg), trace, HopSet(CurrPath) \cup deadEnd)
  OBVIOUS
<1>2. seg \in Seg /\ seg.type = "sym"
  <2>1. PICK from \in Addr : from = LastHop(LastSeg)
    BY StackIs
  <2>2. trace \in Seq(Hop)
    BY RevtrAssumption
  <2> QED
    BY <1>1, <2>1, <2>2, NewSymIs
<1>3. PICK segs : segs = {seg}
  OBVIOUS
<1>4. segs \in SUBSET Seg /\ IsFiniteSet(segs)
  BY <1>2, <1>3, FS_Singleton
<1>5. PICK r \in AddSegments(paths, deadEnd, segs) :
        IF r.added
        THEN /\ paths' = r.paths
             /\ IF PathReaches(Last(r.paths)) THEN Return(reason) ELSE Goto("trToSource")
             /\ UNCHANGED deadEnd
        ELSE FailCurrPath
  BY <1>1, <1>3, Zenon DEF AssumeFrom
<1>6. CASE ~r.added
  <2>1. FailCurrPath
    BY <1>5, <1>6
  <2> QED
    BY <2>1, FailIs DEF Assumed
<1>7. CASE r.added
  <2>1. paths \in Seq(Path) /\ paths # <<>> /\ \A i \in 1..Len(paths) : LoopFree(paths[i])
    BY StackIs, PathsAre
  <2>2. Extends(r, paths, segs)
    BY <1>4, <2>1, AddSegmentsExtends
  <2>3. /\ Grown(paths, r.paths)
        /\ \A i \in Len(paths) + 1..Len(r.paths) : \E t \in segs : Last(r.paths[i]).type = t.type
    BY <2>1, <2>2, ExtendsGrows
  <2>4. paths' = r.paths /\ Len(r.paths) > Len(paths) /\ UNCHANGED deadEnd
    BY <1>5, <1>7, <2>2 DEF Extends
  <2>5. \A i \in Len(paths) + 1..Len(r.paths) : Last(r.paths[i]).type = "sym"
    BY <1>2, <1>3, <2>3
  <2>6. StackInv'
    BY <2>3, <2>4, <2>5, StackGrowsByAssumption
  <2>7. \/ pc' = "select" /\ step' = "trToSource" /\ Proceeds
        \/ step' = step /\ Arrives(reason)
    BY <1>5, <1>7 DEF Return, Goto, Proceeds, Arrives
  <2>8. paths' \in Seq(Path) /\ deadEnd' \subseteq Hop
    BY <2>3, <2>4 DEF Grown, TypeInv
  <2> QED
    BY <2>6, <2>7, <2>8 DEF Assumed
<1> QED
  BY <1>6, <1>7

LEMMA AssumeOneHopIs ==
  ASSUME TypeInv, StackInv, Running, backoffEndhost' = backoffEndhost,
         NEW reason, AssumeOneHop(reason)
  PROVE  Assumed(reason)
<1>1. CASE LastSeg.type = "sym"
  <2>1. ExtendSymmetric(reason)
    BY <1>1 DEF AssumeOneHop
  <2> QED
    BY <1>1, <2>1, ExtendSymmetricIs
<1>2. CASE LastSeg.type # "sym"
  <2>1. CASE FailCurrPath
    BY <2>1, FailIs DEF Assumed
  <2>2. CASE \E t \in TracesTo(LastHop(LastSeg)) : AssumeFrom(t, reason)
    <3>1. PICK t \in ForwardTraces : AssumeFrom(t, reason)
      BY <2>2 DEF TracesTo
    <3> QED
      BY <3>1, AssumeFromIs
  <2> QED
    BY <1>2, <2>1, <2>2 DEF AssumeOneHop
<1> QED
  BY <1>1, <1>2

LEMMA AssumeStep == EngineInv /\ (AssumeSymmetric \/ StepBackoffEndhost) => EngineInv'
<1> SUFFICES ASSUME EngineInv, AssumeSymmetric \/ StepBackoffEndhost PROVE EngineInv'
  OBVIOUS
<1>1. /\ TypeInv /\ StackInv /\ TokenInv /\ Outcome
      /\ Running /\ pc = "select" /\ step \in {"assumeSymmetric", "backoffEndhost"}
  BY DEF AssumeSymmetric, StepBackoffEndhost, Calls, Running, Stopped, Panics, EngineInv
<1>2. UNCHANGED <<batchVars, rrVars, tsVars, atlasVars>> /\ backoffEndhost' = backoffEndhost
  BY DEF AssumeSymmetric, StepBackoffEndhost, batchVars
<1>3. PICK reason \in {"REACHES", "TRIVIAL"} : AssumeOneHop(reason)
  BY DEF AssumeSymmetric, StepBackoffEndhost
<1>4. Assumed(reason)
  BY <1>1, <1>2, <1>3, AssumeOneHopIs
<1>5. tokens = {}
  BY <1>1 DEF TokenInv
<1>6. TokenInv'
  BY <1>2, <1>5 DEF TokenInv, atlasVars
<1>7. Outcome' /\ pc' \in {"select"} \cup Stopped
      /\ stopReason' \in {"", "REACHES", "TRIVIAL", "FAILED", "CANCELED"}
  <2>1. stopReason \in {"", "REACHES", "TRIVIAL", "FAILED", "CANCELED"}
    BY <1>1 DEF TypeInv
  <2>2. CASE /\ pc' = "returned" /\ stopReason' = "FAILED" /\ step' = step
             /\ Dst \in deadEnd' /\ ~\E p \in Range(paths') : PathReaches(p)
    BY <2>2 DEF Outcome, Stopped
  <2>3. CASE \/ pc' = "select" /\ step' = "trToSource" /\ Proceeds
             \/ pc' \in Panics /\ step' = step /\ Proceeds
    <3>1. Outcome'
      BY <1>1, <2>3, OutcomeOfProgress
    <3> QED
      BY <2>1, <2>3, <3>1 DEF Proceeds, Stopped
  <2>4. CASE step' = step /\ Arrives(reason)
    <3>1. Outcome'
      BY <1>1, <1>3, <2>4, OutcomeOfProgress
    <3> QED
      BY <1>3, <2>4, <3>1 DEF Arrives, Stopped
  <2> QED
    BY <1>4, <2>2, <2>3, <2>4 DEF Assumed
<1>8. TypeInv'
  <2>1. step' \in Steps
    BY <1>1, <1>4 DEF Assumed, Steps
  <2> QED
    BY <1>1, <1>2, <1>4, <1>7, <2>1 DEF TypeInv, Assumed, batchVars, rrVars, tsVars, atlasVars
<1>9. StackInv'
  BY <1>4 DEF Assumed
<1> QED
  BY <1>6, <1>7, <1>8, <1>9 DEF EngineInv

-----------------------------------------------------------------------------
(* run                                                                     *)

LEMMA CancelStep == EngineInv /\ (CancelContext \/ Canceled) => EngineInv'
<1> SUFFICES ASSUME EngineInv, CancelContext \/ Canceled PROVE EngineInv'
  OBVIOUS
<1>1. CASE CancelContext
  <2>1. UNCHANGED <<backoffEndhost, pc, step, paths, deadEnd, rrVars, tsVars, atlasVars, stopReason>>
        /\ ctxDone' = TRUE /\ pc \notin Stopped
    BY <1>1 DEF CancelContext
  <2>2. TypeInv' /\ StackInv' /\ TokenInv'
    <3>1. TypeInv'
      BY <2>1 DEF EngineInv, TypeInv, rrVars, tsVars, atlasVars
    <3>2. StackInv'
      BY <2>1 DEF EngineInv, StackInv, Running
    <3>3. TokenInv'
      BY <2>1 DEF EngineInv, TokenInv, Running, CurrPath, atlasVars
    <3> QED
      BY <3>1, <3>2, <3>3
  <2>3. Outcome'
    BY <2>1 DEF EngineInv, Outcome, Stopped, CurrPath
  <2> QED
    BY <2>2, <2>3 DEF EngineInv
<1>2. CASE Canceled
  <2>1. /\ UNCHANGED <<batchVars, paths, deadEnd, rrVars, tsVars, atlasVars, step>>
        /\ pc = "select" /\ ctxDone /\ pc' = "returned" /\ stopReason' = "CANCELED"
    BY <1>2 DEF Canceled, Return
  <2>2. Running /\ ~Running'
    BY <2>1 DEF Running, Stopped, Panics
  <2>3. TypeInv'
    BY <2>1 DEF EngineInv, TypeInv, batchVars, rrVars, tsVars, atlasVars, Stopped
  <2>4. StackInv' /\ TokenInv'
    BY <2>1, <2>2 DEF EngineInv, StackInv, TokenInv
  <2>5. Outcome'
    <3>1. paths # <<>>
      BY <2>2 DEF EngineInv, StackInv
    <3> QED
      BY <2>1, <3>1 DEF Outcome, batchVars
  <2> QED
    BY <2>3, <2>4, <2>5 DEF EngineInv
<1> QED
  BY <1>1, <1>2

LEMMA StutteringStep == EngineInv /\ UNCHANGED vars => EngineInv'
<1> SUFFICES ASSUME EngineInv, UNCHANGED vars PROVE EngineInv'
  OBVIOUS
<1>1. UNCHANGED <<ctxDone, backoffEndhost, pc, step, paths, deadEnd, vpsLeft, rrResponsive, sent,
                  adjsLeft, tsResponsive, stampsZero, sendSpoofed, tokens, strayed, stopReason>>
  BY DEF vars, batchVars, rrVars, tsVars, atlasVars
<1>2. TypeInv'
  BY <1>1 DEF EngineInv, TypeInv
<1>3. StackInv'
  BY <1>1 DEF EngineInv, StackInv, Running
<1>4. TokenInv'
  BY <1>1 DEF EngineInv, TokenInv, Running, CurrPath
<1>5. Outcome'
  BY <1>1 DEF EngineInv, Outcome, CurrPath
<1> QED
  BY <1>2, <1>3, <1>4, <1>5 DEF EngineInv

LEMMA InitEstablishes == Init => EngineInv
<1> SUFFICES ASSUME Init PROVE EngineInv
  OBVIOUS
<1>1. paths = <<NewReversePath>> /\ tokens = {} /\ strayed = FALSE /\ pc = "select" /\ stopReason = ""
  BY DEF Init
<1>2. backoffEndhost \in BOOLEAN /\ step = IF backoffEndhost THEN "backoffEndhost" ELSE "trToSource"
  BY RevtrAssumption DEF Init
<1>3. PICK stack : stack = <<NewReversePath>> /\ paths = stack
  BY <1>1
<1>4. stack \in Seq(Path) /\ DOMAIN stack = {1} /\ stack[1] = NewReversePath /\ stack # <<>>
  BY <1>3, NewReversePathIs
<1>5. TypeInv
  <2>1. /\ vpsLeft \in [Hop -> VPLists \cup {Uninit}]
        /\ rrResponsive \in [Hop -> Int]
        /\ adjsLeft \in [Hop -> Seq(Addr) \cup {Uninit}]
        /\ sendSpoofed \in [Hop -> {"unset", "no", "yes"}]
        /\ sent \in [Hop -> [VP \cup {NonSpoofed} -> Nat]]
    <3>1. [v \in VP \cup {NonSpoofed} |-> 0] \in [VP \cup {NonSpoofed} -> Nat]
      OBVIOUS
    <3>2. sent \in [Hop -> [VP \cup {NonSpoofed} -> Nat]]
      BY <3>1, Zenon DEF Init
    <3>3. rrResponsive \in [Hop -> Int]
      <4>1. rrResponsive = [h \in Hop |-> 0]
        BY Zenon DEF Init
      <4> QED
        BY <4>1
    <3>4. /\ vpsLeft \in [Hop -> VPLists \cup {Uninit}]
          /\ adjsLeft \in [Hop -> Seq(Addr) \cup {Uninit}]
          /\ sendSpoofed \in [Hop -> {"unset", "no", "yes"}]
      BY Zenon DEF Init
    <3> QED
      BY <3>2, <3>3, <3>4
  <2>2. ctxDone \in BOOLEAN /\ deadEnd \subseteq Hop /\ tsResponsive \subseteq Hop /\ stampsZero \subseteq Hop
    BY DEF Init
  <2>3. step \in Steps
    BY <1>2 DEF Steps
  <2> QED
    BY <1>1, <1>2, <1>3, <1>4, <2>1, <2>2, <2>3 DEF TypeInv
<1>6. StackInv
  <2>1. \A i \in DOMAIN stack : LoopFree(stack[i])
    BY <1>4, NewReversePathIs
  <2>2. backoffEndhost => step = "backoffEndhost"
    BY <1>2
  <2> QED
    BY <1>1, <1>3, <1>4, <2>1, <2>2, Zenon DEF StackInv
<1>7. TokenInv
  BY <1>1 DEF TokenInv
<1>8. Outcome
  BY <1>1 DEF Outcome
<1> QED
  BY <1>5, <1>6, <1>7, <1>8 DEF EngineInv

LEMMA NextPreserves == EngineInv /\ [Next]_vars => EngineInv'
<1> SUFFICES ASSUME EngineInv, [Next]_vars PROVE EngineInv'
  OBVIOUS
<1>1. CASE StepBackoffEndhost \/ AssumeSymmetric
  BY <1>1, AssumeStep
<1>2. CASE TrToSource
  BY <1>2, TrToSourceStep
<1>3. CASE RecordRoute
  BY <1>3, RecordRouteStep
<1>4. CASE Timestamp
  BY <1>4, TimestampStep
<1>5. CASE CheckBgTRs \/ BackgroundTRS
  BY <1>5, BackgroundStep
<1>6. CASE Canceled \/ CancelContext
  BY <1>6, CancelStep
<1>7. CASE UNCHANGED vars
  BY <1>7, StutteringStep
<1> QED
  BY <1>1, <1>2, <1>3, <1>4, <1>5, <1>6, <1>7 DEF Next, Run, Terminated

\* The types and the shape of the stack of candidate paths, in every state of
\* a reverse traceroute: the inductive invariant of the engine.
THEOREM EngineInvariance == Spec => []EngineInv
<1>1. Init => EngineInv
  BY InitEstablishes
<1>2. EngineInv /\ [Next]_vars => EngineInv'
  BY NextPreserves
<1> QED
  BY <1>1, <1>2, PTL DEF Spec

\* Loop removal: whatever replies, traceroutes and assumptions come in and in
\* whatever order, no candidate path visits an address twice, but for a
\* symmetric segment that AddAndReplaceSegment has extended.
THEOREM PathsHaveNoLoops == Spec => []NoHopTwice
<1>1. EngineInv => NoHopTwice
  <2> SUFFICES ASSUME EngineInv, NEW i \in DOMAIN paths,
                      NEW j \in 2..Len(paths[i]), paths[i][j].type # "sym"
               PROVE  Range(paths[i][j].hops) \cap HopSet(SubSeq(paths[i], 1, j - 1)) = {}
    BY Zenon DEF NoHopTwice, Range
  <2>1. LoopFree(paths[i])
    BY DEF EngineInv, StackInv
  <2> QED
    BY <2>1, Zenon DEF LoopFree
<1> QED
  BY <1>1, EngineInvariance, PTL

\* The tokens that trToSource got from the atlas name hops of the path that is
\* being extended until backgroundTRS or checkbgTRs has used them: checkbgTRs
\* never asks for the traceroutes of another path, and trToSource and
\* assumeSymmetric never start with tokens left over.
THEOREM TokensAreOnPath == Spec => []TokensOnCurrentPath
<1>1. EngineInv => TokensOnCurrentPath
  BY DEF EngineInv, TokenInv, TokensOnCurrentPath
<1> QED
  BY <1>1, EngineInvariance, PTL

\* The stop reason a reverse traceroute returns with is true of its paths: it
\* reaches or is trivial only if its path arrives at the source, and fails only
\* when the destination itself is a dead end and no candidate arrives.
THEOREM OutcomesAreTrue == Spec => []Outcome
<1>1. EngineInv => Outcome
  BY DEF EngineInv
<1> QED
  BY <1>1, EngineInvariance, PTL

-----------------------------------------------------------------------------
(* Sums over finite sets                                                   *)

SumStep(f, g, s) == IF s = {} THEN 0 ELSE LET x == CHOOSE x \in s : TRUE IN f[x] + g[s \ {x}]

\* The recursion of SumFunctionOnSet on the subsets of S.
IsSum(g, f, S) == g = [s \in SUBSET S |-> SumStep(f, g, s)]

\* A function that satisfies it exists.
LEMMA SumExists ==
  ASSUME NEW S, IsFiniteSet(S), NEW f
  PROVE  \E g : IsSum(g, f, S)
<1> DEFINE Small(k) == {s \in SUBSET S : Cardinality(s) <= k}
           Rec(g, k) == g = [s \in Small(k) |-> SumStep(f, g, s)]
           Bad == {k \in Nat : ~\E g : Rec(g, k)}
<1>1. \A s \in SUBSET S : IsFiniteSet(s) /\ Cardinality(s) \in Nat /\ Cardinality(s) <= Cardinality(S)
  BY FS_Subset, FS_CardinalityType, Zenon
<1>2. \A s \in SUBSET S : s # {} =>
        /\ (CHOOSE x \in s : TRUE) \in s
        /\ Cardinality(s \ {CHOOSE x \in s : TRUE}) = Cardinality(s) - 1
  <2> SUFFICES ASSUME NEW s \in SUBSET S, s # {}
               PROVE  /\ (CHOOSE x \in s : TRUE) \in s
                      /\ Cardinality(s \ {CHOOSE x \in s : TRUE}) = Cardinality(s) - 1
    OBVIOUS
  <2>1. (CHOOSE x \in s : TRUE) \in s
    OBVIOUS
  <2>2. IsFiniteSet(s)
    BY <1>1
  <2>3. PICK y \in s : y = CHOOSE x \in s : TRUE
    BY <2>1
  <2>4. Cardinality(s \ {y}) = Cardinality(s) - 1
    BY <2>2, FS_RemoveElement
  <2> QED
    BY <2>1, <2>3, <2>4
<1>3. Bad = {}
  <2> SUFFICES ASSUME Bad # {} PROVE FALSE
    OBVIOUS
  <2>1. PICK m \in Bad : \A k \in Bad : m <= k
    <3>1. Bad \in SUBSET Nat
      OBVIOUS
    <3> HIDE DEF Bad
    <3> QED
      BY <3>1, Least
  <2>2. m \in Nat /\ ~\E g : Rec(g, m)
    BY <2>1
  <2>3. CASE m = 0
    <3>1. PICK g : g = [s \in Small(0) |-> 0]
      OBVIOUS
    <3>2. \A s \in Small(0) : s = {}
      <4> SUFFICES ASSUME NEW s \in Small(0) PROVE s = {}
        OBVIOUS
      <4>1. Cardinality(s) = 0 /\ IsFiniteSet(s)
        BY <1>1
      <4> QED
        BY <4>1, FS_EmptySet
    <3>3. \A s \in Small(0) : SumStep(f, g, s) = 0
      BY <3>2 DEF SumStep
    <3>4. Rec(g, 0)
      BY <3>1, <3>3
    <3> QED
      BY <2>2, <2>3, <3>4
  <2>4. CASE m # 0
    <3>1. m - 1 \in Nat /\ m - 1 \notin Bad
      <4>1. m - 1 \in Nat /\ ~(m <= m - 1)
        BY <2>2, <2>4
      <4> HIDE DEF Bad
      <4> QED
        BY <2>1, <4>1
    <3>2. PICK g : Rec(g, m - 1)
      BY <3>1
    <3>3. PICK h : h = [s \in Small(m) |-> SumStep(f, g, s)]
      OBVIOUS
    <3>4. \A s \in Small(m - 1) : s \in Small(m)
      BY <1>1, <2>2
    <3>5. \A s \in Small(m - 1) : h[s] = g[s]
      BY <3>2, <3>3, <3>4
    <3>6. \A s \in Small(m) : SumStep(f, g, s) = SumStep(f, h, s)
      <4> SUFFICES ASSUME NEW s \in Small(m) PROVE SumStep(f, g, s) = SumStep(f, h, s)
        OBVIOUS
      <4>1. CASE s = {}
        BY <4>1 DEF SumStep
      <4>2. CASE s # {}
        <5>1. PICK y : y = CHOOSE x \in s : TRUE
          OBVIOUS
        <5>2. Cardinality(s \ {y}) = Cardinality(s) - 1
          BY <1>2, <4>2, <5>1
        <5>3. s \ {y} \in Small(m - 1)
          BY <1>1, <2>2, <5>2
        <5>4. h[s \ {y}] = g[s \ {y}]
          BY <3>5, <5>3
        <5> QED
          BY <4>2, <5>1, <5>4 DEF SumStep
      <4> QED
        BY <4>1, <4>2
    <3>7. Rec(h, m)
      BY <3>3, <3>6
    <3> QED
      BY <2>2, <3>7
  <2> QED
    BY <2>3, <2>4
<1>4. Cardinality(S) \in Nat /\ Small(Cardinality(S)) = SUBSET S
  BY <1>1
<1>5. \E g : Rec(g, Cardinality(S))
  BY <1>3, <1>4
<1> QED
  BY <1>4, <1>5 DEF IsSum

LEMMA SumIs ==
  ASSUME NEW S, IsFiniteSet(S)
  PROVE  \A f : \E g : /\ SumFunctionOnSet(f, S) = g[S]
                       /\ \A s \in SUBSET S : g[s] = SumStep(f, g, s)
<1> SUFFICES ASSUME NEW f
             PROVE  \E g : SumFunctionOnSet(f, S) = g[S] /\ \A s \in SUBSET S : g[s] = SumStep(f, g, s)
  OBVIOUS
<1>1. PICK g : g = CHOOSE h : IsSum(h, f, S)
  OBVIOUS
<1>2. IsSum(g, f, S)
  BY <1>1, SumExists
<1>3. SumFunctionOnSet(f, S) = (CHOOSE h : IsSum(h, f, S))[S]
  BY DEF SumFunctionOnSet, FoldFunctionOnSet, MapThenFoldSet, IsSum, SumStep
<1>4. \A s \in SUBSET S : g[s] = SumStep(f, g, s)
  BY <1>2 DEF IsSum
<1> QED
  BY <1>1, <1>3, <1>4

\* Every function that is one larger on T than f, and like f elsewhere, sums up
\* to the cardinality of T more.
LEMMA SumCharged ==
  ASSUME NEW S, IsFiniteSet(S), NEW T \in SUBSET S,
         NEW f, NEW f2, \A x \in S : f[x] \in Nat /\ f2[x] = IF x \in T THEN f[x] + 1 ELSE f[x]
  PROVE  /\ SumFunctionOnSet(f, S) \in Nat
         /\ SumFunctionOnSet(f2, S) = SumFunctionOnSet(f, S) + Cardinality(T)
<1>1. \A h : \E k : /\ SumFunctionOnSet(h, S) = k[S]
                    /\ \A s \in SUBSET S : k[s] = SumStep(h, k, s)
  <2>1. IsFiniteSet(S)
    OBVIOUS
  <2> QED
    BY ONLY <2>1, SumIs
<1>2. PICK g : /\ SumFunctionOnSet(f, S) = g[S]
               /\ \A s \in SUBSET S : g[s] = SumStep(f, g, s)
  BY <1>1
<1>3. PICK g2 : /\ SumFunctionOnSet(f2, S) = g2[S]
                /\ \A s \in SUBSET S : g2[s] = SumStep(f2, g2, s)
  BY <1>1
<1> DEFINE Right(s) == g[s] \in Nat /\ g2[s] = g[s] + Cardinality(s \cap T)
           Bad == {k \in Nat : \E s \in SUBSET S : Cardinality(s) = k /\ ~Right(s)}
<1>4. \A s \in SUBSET S : IsFiniteSet(s) /\ Cardinality(s) \in Nat
  BY FS_Subset, FS_CardinalityType, Zenon
<1>5. Bad = {}
  <2> SUFFICES ASSUME Bad # {} PROVE FALSE
    OBVIOUS
  <2>1. PICK m \in Bad : \A k \in Bad : m <= k
    <3>1. Bad \in SUBSET Nat
      OBVIOUS
    <3> HIDE DEF Bad
    <3> QED
      BY <3>1, Least
  <2>2. PICK s \in SUBSET S : m \in Nat /\ Cardinality(s) = m /\ ~Right(s)
    BY <2>1
  <2>3. CASE s = {}
    <3>1. g[s] = 0 /\ g2[s] = 0
      BY <1>2, <1>3, <2>3 DEF SumStep
    <3>2. Cardinality(s \cap T) = 0
      <4>1. s \cap T = {}
        BY <2>3
      <4> QED
        BY <4>1, FS_EmptySet, Zenon
    <3> QED
      BY <2>2, <3>1, <3>2
  <2>4. CASE s # {}
    <3>1. PICK y \in s : y = CHOOSE x \in s : TRUE
      BY <2>4
    <3>2. PICK t : t = s \ {y}
      OBVIOUS
    <3>3. t \in SUBSET S /\ y \in S /\ y \notin t /\ s = t \cup {y}
      BY <3>1, <3>2
    <3>4. Cardinality(t) = m - 1
      <4>1. IsFiniteSet(s)
        BY <1>4
      <4> QED
        BY <2>2, <3>2, <4>1, FS_RemoveElement
    <3>5. Right(t)
      <4>1. Cardinality(t) \in Nat
        BY <1>4, <3>3
      <4>2. Cardinality(t) \notin Bad
        <5>1. ~(m <= Cardinality(t))
          BY <2>2, <3>4
        <5> HIDE DEF Bad
        <5> QED
          BY <2>1, <5>1
      <4> QED
        BY <3>3, <4>1, <4>2
    <3>6. g[s] = f[y] + g[t] /\ g2[s] = f2[y] + g2[t]
      BY <1>2, <1>3, <2>4, <3>1, <3>2 DEF SumStep
    <3>7. PICK c \in Nat : c = Cardinality(t \cap T)
      <4>1. t \cap T \in SUBSET S
        BY <3>3
      <4> QED
        BY <1>4, <4>1
    <3>8. g[t] \in Nat /\ g2[t] = g[t] + c
      BY <3>5, <3>7
    <3>9. CASE y \in T
      <4>1. s \cap T = (t \cap T) \cup {y} /\ y \notin t \cap T
        BY <3>3, <3>9
      <4>2. IsFiniteSet(t \cap T)
        BY <1>4, <3>3
      <4>3. Cardinality(s \cap T) = c + 1
        BY <3>7, <4>1, <4>2, FS_AddElement
      <4>4. f[y] \in Nat /\ f2[y] = f[y] + 1
        BY <3>3, <3>9
      <4> QED
        BY <2>2, <3>6, <3>8, <4>3, <4>4
    <3>10. CASE y \notin T
      <4>1. s \cap T = t \cap T
        BY <3>3, <3>10
      <4>2. Cardinality(s \cap T) = c
        BY <3>7, <4>1
      <4>3. f[y] \in Nat /\ f2[y] = f[y]
        BY <3>3, <3>10
      <4> QED
        BY <2>2, <3>6, <3>8, <4>2, <4>3
    <3> QED
      BY <3>9, <3>10
  <2> QED
    BY <2>3, <2>4
<1>6. Right(S)
  BY <1>4, <1>5
<1>7. S \cap T = T
  OBVIOUS
<1> QED
  BY <1>2, <1>3, <1>6, <1>7

LEMMA SumOfNothing ==
  ASSUME NEW S, IsFiniteSet(S), NEW f, \A x \in S : f[x] = 0
  PROVE  SumFunctionOnSet(f, S) = 0
<1>1. PICK g : /\ SumFunctionOnSet(f, S) = g[S]
               /\ \A s \in SUBSET S : g[s] = SumStep(f, g, s)
  BY SumIs
<1> DEFINE Bad == {k \in Nat : \E s \in SUBSET S : Cardinality(s) = k /\ g[s] # 0}
<1>2. \A s \in SUBSET S : IsFiniteSet(s) /\ Cardinality(s) \in Nat
  BY FS_Subset, FS_CardinalityType, Zenon
<1>3. Bad = {}
  <2> SUFFICES ASSUME Bad # {} PROVE FALSE
    OBVIOUS
  <2>1. PICK m \in Bad : \A k \in Bad : m <= k
    <3>1. Bad \in SUBSET Nat
      OBVIOUS
    <3> HIDE DEF Bad
    <3> QED
      BY <3>1, Least
  <2>2. PICK s \in SUBSET S : m \in Nat /\ Cardinality(s) = m /\ g[s] # 0
    BY <2>1
  <2>3. s # {}
    BY <1>1, <2>2 DEF SumStep
  <2>4. PICK y \in s : y = CHOOSE x \in s : TRUE
    BY <2>3
  <2>5. g[s] = f[y] + g[s \ {y}] /\ f[y] = 0
    BY <1>1, <2>3, <2>4 DEF SumStep
  <2>6. Cardinality(s \ {y}) = m - 1
    BY <1>2, <2>2, FS_RemoveElement
  <2>7. Cardinality(s \ {y}) \in Nat /\ s \ {y} \in SUBSET S
    BY <1>2
  <2>8. g[s \ {y}] = 0
    BY <2>1, <2>2, <2>6, <2>7
  <2> QED
    BY <2>2, <2>5, <2>8
<1> QED
  BY <1>1, <1>2, <1>3

-----------------------------------------------------------------------------
(* Batches of vantage points                                               *)

LEMMA InjectiveSeqIs ==
  ASSUME NEW T, NEW seq \in Seq(T), IsInjective(seq)
  PROVE  Cardinality(Range(seq)) = Len(seq)
<1>1. PICK D : D = 1..Len(seq) /\ DOMAIN seq = D /\ Len(seq) \in Nat
  OBVIOUS
<1>2. IsFiniteSet(D) /\ Cardinality(D) = Len(seq)
  <2>1. 1 \in Int /\ Len(seq) \in Int /\ Len(seq) - 1 + 1 = Len(seq) /\ (1 > Len(seq) => Len(seq) = 0)
    BY <1>1
  <2> QED
    BY <1>1, <2>1, FS_Interval
<1>3. seq \in Bijection(D, Range(seq))
  <2>1. seq \in [D -> Range(seq)] /\ \A t \in Range(seq) : \E s \in D : seq[s] = t
    BY <1>1 DEF Range
  <2> QED
    BY <2>1 DEF Bijection, Injection, Surjection
<1>4. ExistsBijection(D, Range(seq))
  BY <1>3 DEF ExistsBijection
<1> QED
  BY <1>2, <1>4, FS_Bijection

LEMMA TakeIsInjective ==
  ASSUME NEW T, NEW seq \in Seq(T), IsInjective(seq), NEW n \in Nat
  PROVE  LET batch == Take(seq, n)
         IN  /\ IsInjective(batch.vps) /\ IsInjective(batch.rest)
             /\ Len(batch.vps) <= n /\ Range(batch.vps) \subseteq Range(seq)
<1>1. PICK m \in Nat : m = Min({n, Len(seq)}) /\ m <= n /\ m <= Len(seq)
  BY MinOfTwo
<1> DEFINE k == Len(seq)
<1>2. k \in Nat /\ m \in Nat /\ m <= k /\ m <= n /\ DOMAIN seq = 1..k
  BY <1>1
<1>3. PICK v : v = SubSeq(seq, 1, m)
  OBVIOUS
<1>4. PICK w : w = SubSeq(seq, m + 1, k)
  OBVIOUS
<1>5. v \in Seq(T) /\ Len(v) = m /\ \A i \in 1..m : v[i] = seq[i]
  BY <1>2, <1>3
<1>6. w \in Seq(T) /\ Len(w) = Len(seq) - m /\ \A i \in 1..Len(seq) - m : w[i] = seq[i + m]
  <2>1. SubSeq(seq, m + 1, Len(seq)) \in Seq(T) /\ Len(SubSeq(seq, m + 1, Len(seq))) = Len(seq) - m
    <3>1. Len(seq) \in Nat /\ m \in Nat /\ m <= Len(seq) /\ seq \in Seq(T)
      BY <1>2
    <3> QED
      BY ONLY <3>1
  <2>2. w \in Seq(T) /\ Len(w) = k - m
    BY <1>4, <2>1
  <2>3. \A i \in 1..k - m : w[i] = seq[m + 1 + i - 1]
    BY <1>2, <1>4
  <2>4. \A i \in 1..k - m : m + 1 + i - 1 = i + m
    BY <1>2
  <2> QED
    BY <2>2, <2>3, <2>4
<1>7. \A i, j \in 1..k : seq[i] = seq[j] => i = j
  BY <1>2 DEF IsInjective
<1>8. IsInjective(v) /\ IsInjective(w) /\ Len(v) <= n
  <2>1. \A i, j \in 1..m : v[i] = v[j] => i = j
    <3> HIDE DEF k
    <3> QED
      BY <1>2, <1>5, <1>7
  <2>2. \A i, j \in 1..k - m : w[i] = w[j] => i = j
    <3> SUFFICES ASSUME NEW i \in 1..k - m, NEW j \in 1..k - m, w[i] = w[j] PROVE i = j
      OBVIOUS
    <3>1. i + m \in 1..k /\ j + m \in 1..k /\ i \in Int /\ j \in Int
      BY <1>2
    <3>2. seq[i + m] = seq[j + m]
      BY <1>6
    <3>3. i + m = j + m
      BY <1>7, <3>1, <3>2
    <3> QED
      BY <3>1, <3>3
  <2>3. DOMAIN v = 1..m /\ DOMAIN w = 1..Len(seq) - m
    BY <1>1, <1>5, <1>6
  <2> QED
    BY <1>1, <1>5, <2>1, <2>2, <2>3 DEF IsInjective
<1>9. Range(v) \subseteq Range(seq)
  BY <1>2, <1>5 DEF Range
<1>10. Take(seq, n) = [vps |-> v, rest |-> w]
  BY <1>1, <1>3, <1>4 DEF Take
<1>11. Take(seq, n).vps = v /\ Take(seq, n).rest = w
  BY <1>10
<1> QED
  BY <1>8, <1>9, <1>11, Zenon

LEMMA PickedIsInjective ==
  ASSUME NEW T, NEW seq \in Seq(T), IsInjective(seq), NEW S \in SUBSET DOMAIN seq
  PROVE  IsInjective(Picked(seq, S)) /\ Range(Picked(seq, S)) \subseteq {seq[i] : i \in S}
<1>1. Len(seq) \in Nat /\ S \in SUBSET (1..Len(seq))
  OBVIOUS
<1>2. Cardinality(S) \in Nat
  BY <1>1, SubintervalFinite
<1>3. PICK at : at = (CHOOSE f \in Increasing(S) : TRUE)
  OBVIOUS
<1>4. at \in Increasing(S)
  BY <1>1, <1>3, IncreasingExists
<1>5. at \in [1..Cardinality(S) -> S] /\ \A i, j \in DOMAIN at : i < j => at[i] < at[j]
  BY <1>4 DEF Increasing
<1>6. PICK new : new = [k \in DOMAIN at |-> seq[at[k]]]
  OBVIOUS
<1>7. Picked(seq, S) = new
  BY <1>3, <1>6 DEF Picked
<1>8. \A i, j \in DOMAIN at : new[i] = new[j] => i = j
  <2> SUFFICES ASSUME NEW i \in DOMAIN at, NEW j \in DOMAIN at, new[i] = new[j] PROVE i = j
    OBVIOUS
  <2>1. at[i] \in DOMAIN seq /\ at[j] \in DOMAIN seq /\ seq[at[i]] = seq[at[j]]
    BY <1>5, <1>6
  <2>2. at[i] = at[j]
    BY <2>1 DEF IsInjective
  <2>3. i \in Nat /\ j \in Nat /\ at[i] \in Int /\ at[j] \in Int
    BY <1>2, <1>5, <2>1
  <2> QED
    BY <1>5, <2>2, <2>3
<1>9. Range(new) \subseteq {seq[i] : i \in S}
  BY <1>5, <1>6 DEF Range
<1> QED
  BY <1>6, <1>7, <1>8, <1>9 DEF IsInjective

LEMMA ConsIsInjective ==
  ASSUME NEW T, NEW seq \in Seq(T), IsInjective(seq), NEW x, x \notin Range(seq)
  PROVE  IsInjective(<<x>> \o seq) /\ Len(<<x>> \o seq) = Len(seq) + 1
<1>1. PICK t : t = <<x>> \o seq
  OBVIOUS
<1>2. /\ DOMAIN t = 1..Len(seq) + 1 /\ Len(t) = Len(seq) + 1 /\ t[1] = x
      /\ \A i \in 2..Len(seq) + 1 : t[i] = seq[i - 1] /\ i - 1 \in DOMAIN seq
  BY <1>1
<1>3. \A i \in 2..Len(seq) + 1 : t[i] # x
  BY <1>2 DEF Range
<1>4. \A i, j \in 2..Len(seq) + 1 : t[i] = t[j] => i = j
  BY <1>2 DEF IsInjective
<1>5. \A i, j \in 1..Len(seq) + 1 : t[i] = t[j] => i = j
  BY <1>2, <1>3, <1>4
<1> QED
  BY <1>1, <1>2, <1>5 DEF IsInjective

\* A batch of spoofed pings names no vantage point twice, and not too many.
LEMMA NextBatchIsInjective ==
  ASSUME TypeInv, StackInv, Running, NEW left \in VPLists, left # <<>>, IsInjective(left)
  PROVE  LET batch == NextBatch(left)
         IN  /\ IsInjective(batch.rest)
             /\ \/ batch.vps = <<NonSpoofed>>
                \/ IsInjective(batch.vps) /\ Len(batch.vps) <= RateLimit
<1>1. left \in Seq(VP \cup {NonSpoofed}) /\ RateLimit \in Nat /\ RateLimit >= 1 /\ RateLimit - 1 \in Nat
  BY RevtrAssumption DEF VPLists
<1>2. \A n \in Nat : /\ IsInjective(Take(left, n).vps) /\ IsInjective(Take(left, n).rest)
                     /\ Len(Take(left, n).vps) <= n
  BY <1>1, TakeIsInjective
<1>3. CASE NonSpoofed \in Range(Take(left, RateLimit).vps)
  <2>1. NextBatch(left) = Take(left, 1)
    BY <1>3 DEF NextBatch
  <2>2. 1 \in Nat /\ 1 <= RateLimit
    BY <1>1
  <2>3. /\ IsInjective(Take(left, 1).vps) /\ IsInjective(Take(left, 1).rest)
        /\ Take(left, 1).vps \in Seq(VP \cup {NonSpoofed}) /\ Len(Take(left, 1).vps) <= 1
    BY <1>1, <1>2, <2>2, TakeIs
  <2> QED
    BY <1>1, <2>1, <2>2, <2>3
<1>4. CASE NonSpoofed \notin Range(Take(left, RateLimit).vps) /\ LastSeg.type = "spoofrr"
  <2>1. PICK others : others = Picked(left, {i \in DOMAIN left : left[i] # LastSeg.spf})
    OBVIOUS
  <2>2. /\ others \in Seq(VP \cup {NonSpoofed}) /\ IsInjective(others)
        /\ LastSeg.spf \notin Range(others)
    <3>1. {i \in DOMAIN left : left[i] # LastSeg.spf} \in SUBSET DOMAIN left
      OBVIOUS
    <3>2. /\ others \in Seq(VP \cup {NonSpoofed}) /\ IsInjective(others)
          /\ Range(others) \subseteq {left[i] : i \in {i \in DOMAIN left : left[i] # LastSeg.spf}}
      BY <1>1, <2>1, <3>1, PickedIs, PickedIsInjective
    <3> QED
      BY <3>2
  <2>3. PICK v \in Seq(VP \cup {NonSpoofed}), w \in Seq(VP \cup {NonSpoofed}) :
          Take(others, RateLimit - 1) = [vps |-> v, rest |-> w]
    <3>1. /\ Take(others, RateLimit - 1).vps \in Seq(VP \cup {NonSpoofed})
          /\ Take(others, RateLimit - 1).rest \in Seq(VP \cup {NonSpoofed})
          /\ Take(others, RateLimit - 1) = [vps  |-> Take(others, RateLimit - 1).vps,
                                            rest |-> Take(others, RateLimit - 1).rest]
      BY <1>1, <2>2, TakeIs
    <3> QED
      BY <3>1
  <2>4. /\ Take(others, RateLimit - 1).vps = v /\ Take(others, RateLimit - 1).rest = w
    BY <2>3
  <2>5. IsInjective(v) /\ IsInjective(w) /\ Len(v) <= RateLimit - 1 /\ Range(v) \subseteq Range(others)
    BY <1>1, <2>2, <2>4, TakeIsInjective
  <2>6. NextBatch(left) = [[vps |-> v, rest |-> w] EXCEPT !.vps = <<LastSeg.spf>> \o @]
    BY <1>4, <2>1, <2>3, Zenon DEF NextBatch
  <2>7. NextBatch(left).rest = w /\ NextBatch(left).vps = <<LastSeg.spf>> \o v
    BY <2>6
  <2>8. LastSeg.spf \notin Range(v)
    BY <2>2, <2>5
  <2>9. IsInjective(<<LastSeg.spf>> \o v) /\ Len(<<LastSeg.spf>> \o v) = Len(v) + 1
    BY <2>5, <2>8, ConsIsInjective
  <2> QED
    BY <1>1, <2>5, <2>7, <2>9
<1>5. CASE NonSpoofed \notin Range(Take(left, RateLimit).vps) /\ LastSeg.type # "spoofrr"
  <2>1. NextBatch(left) = Take(left, RateLimit)
    BY <1>5 DEF NextBatch
  <2> QED
    BY <1>1, <1>2, <2>1
<1> QED
  BY <1>3, <1>4, <1>5

LEMMA RRVPsAreInjective ==
  ASSUME NEW D \in SUBSET Hop, NEW answer \in [D -> SpooferLists \cup {Uninit}],
         \A h \in Hop : IsInjective(vpsLeft[h])
  PROVE  \A h \in Hop : IsInjective(RRVPs(answer)[h])
<1> SUFFICES ASSUME NEW h \in Hop
             PROVE  IsInjective(IF h \notin DOMAIN answer THEN vpsLeft[h]
                                ELSE IF answer[h] = Uninit THEN Uninit
                                ELSE <<NonSpoofed>> \o answer[h])
  BY Zenon DEF RRVPs
<1>1. CASE h \notin DOMAIN answer
  BY <1>1
<1>2. CASE h \in DOMAIN answer /\ answer[h] = Uninit
  BY <1>2 DEF Uninit, IsInjective
<1>3. CASE h \in DOMAIN answer /\ answer[h] # Uninit
  <2>1. answer[h] \in Seq(VP) /\ IsInjective(answer[h])
    BY <1>3, RevtrAssumption, SpooferAssumption
  <2>2. NonSpoofed \notin Range(answer[h])
    BY <2>1, SpooferAssumption DEF Range
  <2>3. IsInjective(<<NonSpoofed>> \o answer[h])
    BY <2>1, <2>2, ConsIsInjective
  <2> QED
    BY <1>3, <2>3
<1> QED
  BY <1>1, <1>2, <1>3

-----------------------------------------------------------------------------
(* How often a hop that does not answer is probed                           *)

BudgetInv ==
  /\ \A h \in Hop : IsInjective(vpsLeft[h]) /\ rrResponsive[h] >= -1
  /\ UnresponsiveBudget

\* A direct ping is charged to nobody, a round of spoofed pings with all of them.
LEMMA DirectCharge ==
  ASSUME NEW count \in [VP \cup {NonSpoofed} -> Nat], NEW new, NEW vps, Range(vps) \cap VP = {},
         new = [v \in DOMAIN count |-> IF v \in Range(vps) THEN count[v] + 1 ELSE count[v]]
  PROVE  SumFunctionOnSet(new, VP) = SumFunctionOnSet(count, VP)
<1>1. IsFiniteSet(VP)
  BY SpooferAssumption
<1>2. \A v \in VP : count[v] \in Nat /\ new[v] = IF v \in {} THEN count[v] + 1 ELSE count[v]
  OBVIOUS
<1>3. /\ SumFunctionOnSet(count, VP) \in Nat
      /\ SumFunctionOnSet(new, VP) = SumFunctionOnSet(count, VP) + Cardinality({})
  <2>1. {} \in SUBSET VP
    OBVIOUS
  <2> QED
    BY ONLY <1>1, <1>2, <2>1, SumCharged
<1>4. Cardinality({}) = 0
  BY FS_EmptySet, Zenon
<1> QED
  BY <1>3, <1>4

LEMMA SpoofedCharge ==
  ASSUME NEW count \in [VP \cup {NonSpoofed} -> Nat], NEW new, NEW vps \in Seq(VP), IsInjective(vps),
         new = [v \in DOMAIN count |-> IF v \in Range(vps) THEN count[v] + 1 ELSE count[v]]
  PROVE  SumFunctionOnSet(new, VP) = SumFunctionOnSet(count, VP) + Len(vps)
<1>1. IsFiniteSet(VP)
  BY SpooferAssumption
<1>2. \A v \in VP : count[v] \in Nat /\ new[v] = IF v \in Range(vps) THEN count[v] + 1 ELSE count[v]
  OBVIOUS
<1>3. Range(vps) \in SUBSET VP
  BY DEF Range
<1>4. SumFunctionOnSet(new, VP) = SumFunctionOnSet(count, VP) + Cardinality(Range(vps))
  BY ONLY <1>1, <1>2, <1>3, SumCharged
<1>5. Cardinality(Range(vps)) = Len(vps)
  BY InjectiveSeqIs
<1> QED
  BY <1>4, <1>5

LEMMA RecordRouteBudget == EngineInv /\ BudgetInv /\ RecordRoute => BudgetInv'
<1> SUFFICES ASSUME EngineInv, BudgetInv, RecordRoute PROVE BudgetInv'
  OBVIOUS
<1>1. Running /\ TypeInv /\ StackInv
  BY DEF RecordRoute, In, Calls, Running, Stopped, Panics, EngineInv
<1>2. PICK answer \in [{h \in Range(LastSeg.hops) : vpsLeft[h] = Uninit}
                          -> SpooferLists \cup {Uninit}] :
        LET left   == RRVPs(answer)
            target == LastSeg.hops[Max(Usable(left))]
            batch  == NextBatch(left[target])
        IN  IF Usable(left) = {}
            THEN /\ vpsLeft' = left
                 /\ Goto("timestamp") /\ UNCHANGED <<paths, rrResponsive, sent>>
            ELSE /\ vpsLeft' = [left EXCEPT ![target] = batch.rest]
                 /\ sent' = [sent EXCEPT ![target] =
                      [v \in DOMAIN @ |-> IF v \in Range(batch.vps) THEN @[v] + 1 ELSE @[v]]]
                 /\ IF batch.vps = <<NonSpoofed>> THEN DirectRR(target)
                    ELSE SpoofedRR(target, batch.vps)
  BY Zenon DEF RecordRoute
<1>3. PICK left : left = RRVPs(answer)
  OBVIOUS
<1>4. PICK target : target = LastSeg.hops[Max(Usable(left))]
  OBVIOUS
<1>5. PICK batch : batch = NextBatch(left[target])
  OBVIOUS
<1>6. IF Usable(left) = {}
      THEN /\ vpsLeft' = left
           /\ Goto("timestamp") /\ UNCHANGED <<paths, rrResponsive, sent>>
      ELSE /\ vpsLeft' = [left EXCEPT ![target] = batch.rest]
           /\ sent' = [sent EXCEPT ![target] =
                [v \in DOMAIN @ |-> IF v \in Range(batch.vps) THEN @[v] + 1 ELSE @[v]]]
           /\ IF batch.vps = <<NonSpoofed>> THEN DirectRR(target)
              ELSE SpoofedRR(target, batch.vps)
  BY <1>2, <1>3, <1>4, <1>5, Zenon
<1>7. left \in [Hop -> VPLists \cup {Uninit}] /\ \A h \in Hop : IsInjective(left[h])
  <2>1. {h \in Range(LastSeg.hops) : vpsLeft[h] = Uninit} \in SUBSET Hop
    BY <1>1, StackIs DEF Range
  <2> QED
    BY <1>1, <1>3, <2>1, RRVPsAre, RRVPsAreInjective DEF BudgetInv
<1>8. CASE Usable(left) = {}
  BY <1>6, <1>7, <1>8 DEF BudgetInv, UnresponsiveBudget
<1>9. CASE Usable(left) # {}
  <2>1. PICK hops \in Seq(Hop) : hops = LastSeg.hops
    BY <1>1, StackIs
  <2>2. target \in Hop /\ rrResponsive[target] < MaxUnresponsive /\ LeftFor(left, target) # <<>>
    <3>1. Usable(left) \in SUBSET (0..Len(hops)) /\ Len(hops) \in Nat
      BY <2>1 DEF Usable
    <3>2. Max(Usable(left)) \in Usable(left)
      BY <1>9, <3>1, MaxIs
    <3>3. PICK i \in DOMAIN hops : i = Max(Usable(left)) /\ i \in Usable(left)
      BY <2>1, <3>2 DEF Usable
    <3>4. /\ target = hops[i]
          /\ rrResponsive[hops[i]] < MaxUnresponsive /\ LeftFor(left, hops[i]) # <<>>
      BY <1>4, <2>1, <3>3, Zenon DEF Usable
    <3>5. hops[i] \in Hop
      BY <2>1, <3>3
    <3> QED
      BY <3>4, <3>5
  <2>3. left[target] \in VPLists /\ left[target] # <<>>
    BY <1>7, <2>2 DEF LeftFor
  <2>4. PICK vps : vps = batch.vps
    OBVIOUS
  <2>5. /\ IsInjective(batch.rest)
        /\ \/ vps = <<NonSpoofed>>
           \/ vps \in Seq(VP) /\ IsInjective(vps) /\ Len(vps) <= RateLimit
    BY <1>1, <1>5, <1>7, <2>2, <2>3, <2>4, NextBatchIs, NextBatchIsInjective
  <2>6. \A h \in Hop : IsInjective(vpsLeft'[h])
    BY <1>6, <1>7, <1>9, <2>2, <2>5
  <2>7. /\ rrResponsive \in [Hop -> Int] /\ sent \in [Hop -> [VP \cup {NonSpoofed} -> Nat]]
        /\ \A h \in Hop : rrResponsive[h] >= -1
    BY <1>1 DEF TypeInv, BudgetInv
  <2>8. PICK count \in [VP \cup {NonSpoofed} -> Nat] : count = sent[target]
    BY <2>2, <2>7
  <2>9. PICK new : new = [v \in DOMAIN count |-> IF v \in Range(vps) THEN count[v] + 1 ELSE count[v]]
    OBVIOUS
  <2>10. sent' = [sent EXCEPT ![target] = new]
    BY <1>6, <1>9, <2>4, <2>8, <2>9
  <2>11. sent'[target] = new /\ \A h \in Hop \ {target} : sent'[h] = sent[h]
    BY <2>2, <2>7, <2>10
  <2>12. \A h \in Hop : rrResponsive[h] >= 0 =>
           /\ rrResponsive[h] = SumFunctionOnSet(sent[h], VP)
           /\ rrResponsive[h] < MaxUnresponsive + RateLimit
    BY DEF BudgetInv, UnresponsiveBudget
  <2>13. /\ rrResponsive'[target] >= -1
         /\ rrResponsive'[target] >= 0 =>
              /\ rrResponsive'[target] = SumFunctionOnSet(new, VP)
              /\ rrResponsive'[target] < MaxUnresponsive + RateLimit
         /\ \A h \in Hop \ {target} : rrResponsive'[h] = rrResponsive[h]
    <3>1. CASE vps = <<NonSpoofed>>
      <4>1. rrResponsive' = rrResponsive
        BY <1>6, <1>9, <2>4, <3>1 DEF DirectRR
      <4>2. SumFunctionOnSet(new, VP) = SumFunctionOnSet(sent[target], VP)
        <5>1. Range(vps) \cap VP = {}
          BY <3>1, SpooferAssumption DEF Range
        <5>2. SumFunctionOnSet(new, VP) = SumFunctionOnSet(count, VP)
          BY <2>8, <2>9, <5>1, DirectCharge
        <5> QED
          BY <2>8, <5>2
      <4> QED
        BY <2>2, <2>7, <2>12, <4>1, <4>2
    <3>2. CASE vps # <<NonSpoofed>>
      <4>1. SpoofedRR(target, vps)
        BY <1>6, <1>9, <2>4, <3>2
      <4>2. PICK answering \in SUBSET Range(vps) :
              rrResponsive' = [rrResponsive EXCEPT ![target] =
                IF answering # {} THEN -1 ELSE IF @ = -1 THEN -1 ELSE @ + Len(vps)]
        BY <4>1 DEF SpoofedRR
      <4>3. vps \in Seq(VP) /\ IsInjective(vps) /\ Len(vps) <= RateLimit /\ Len(vps) \in Nat
        BY <2>5, <3>2
      <4>4. SumFunctionOnSet(new, VP) = SumFunctionOnSet(sent[target], VP) + Len(vps)
        <5>1. SumFunctionOnSet(new, VP) = SumFunctionOnSet(count, VP) + Len(vps)
          BY <2>8, <2>9, <4>3, SpoofedCharge
        <5> QED
          BY <2>8, <5>1
      <4>5. /\ \A h \in Hop \ {target} : rrResponsive'[h] = rrResponsive[h]
            /\ \/ rrResponsive'[target] = -1
               \/ rrResponsive[target] # -1 /\ rrResponsive'[target] = rrResponsive[target] + Len(vps)
        BY <2>2, <2>7, <4>2
      <4>6. RateLimit \in Nat /\ MaxUnresponsive \in Nat /\ rrResponsive[target] \in Int
            /\ rrResponsive[target] >= -1
        BY <2>2, <2>7, RevtrAssumption
      <4>7. CASE rrResponsive'[target] = -1
        BY <4>5, <4>7
      <4>8. CASE rrResponsive[target] # -1 /\ rrResponsive'[target] = rrResponsive[target] + Len(vps)
        <5>1. rrResponsive[target] >= 0
          BY <4>6, <4>8
        <5>2. rrResponsive[target] = SumFunctionOnSet(sent[target], VP)
          BY <2>2, <2>12, <5>1
        <5>3. rrResponsive'[target] = SumFunctionOnSet(new, VP)
          BY <4>4, <4>8, <5>2
        <5>4. rrResponsive'[target] >= -1 /\ rrResponsive'[target] < MaxUnresponsive + RateLimit
          BY <2>2, <4>3, <4>6, <4>8, <5>1
        <5> QED
          BY <4>5, <5>3, <5>4
      <4> QED
        BY <4>5, <4>7, <4>8
    <3> QED
      BY <3>1, <3>2
  <2>14. \A h \in Hop : /\ rrResponsive'[h] >= -1
                        /\ rrResponsive'[h] >= 0 =>
                             /\ rrResponsive'[h] = SumFunctionOnSet(sent'[h], VP)
                             /\ rrResponsive'[h] < MaxUnresponsive + RateLimit
    <3> SUFFICES ASSUME NEW h \in Hop
                 PROVE  /\ rrResponsive'[h] >= -1
                        /\ rrResponsive'[h] >= 0 =>
                             /\ rrResponsive'[h] = SumFunctionOnSet(sent'[h], VP)
                             /\ rrResponsive'[h] < MaxUnresponsive + RateLimit
      OBVIOUS
    <3>1. CASE h = target
      BY <2>11, <2>13, <3>1
    <3>2. CASE h # target
      <4>1. rrResponsive'[h] = rrResponsive[h] /\ sent'[h] = sent[h]
        BY <2>11, <2>13, <3>2
      <4> QED
        BY <2>7, <2>12, <4>1
    <3> QED
      BY <3>1, <3>2
  <2> QED
    BY <2>6, <2>14 DEF BudgetInv, UnresponsiveBudget
<1> QED
  BY <1>8, <1>9

LEMMA InitBudget == Init => BudgetInv
<1> SUFFICES ASSUME Init PROVE BudgetInv
  OBVIOUS
<1>1. \A h \in Hop : vpsLeft[h] = Uninit /\ rrResponsive[h] = 0
                     /\ sent[h] = [v \in VP \cup {NonSpoofed} |-> 0]
  BY Zenon DEF Init
<1>2. IsInjective(Uninit)
  BY DEF Uninit, IsInjective
<1>3. PICK none : none = [v \in VP \cup {NonSpoofed} |-> 0]
  OBVIOUS
<1>4. SumFunctionOnSet(none, VP) = 0
  <2>1. \A v \in VP : none[v] = 0
    BY <1>3
  <2>2. IsFiniteSet(VP)
    BY SpooferAssumption
  <2> QED
    BY ONLY <2>1, <2>2, SumOfNothing
<1>5. 0 < MaxUnresponsive + RateLimit
  BY RevtrAssumption
<1> QED
  BY <1>1, <1>2, <1>3, <1>4, <1>5 DEF BudgetInv, UnresponsiveBudget

LEMMA NextBudget == EngineInv /\ BudgetInv /\ [Next]_vars => BudgetInv'
<1> SUFFICES ASSUME EngineInv, BudgetInv, [Next]_vars PROVE BudgetInv'
  OBVIOUS
<1>1. RecordRoute \/ UNCHANGED rrVars
  BY DEF Next, Run, CancelContext, Terminated, StepBackoffEndhost, TrToSource, Timestamp, CheckBgTRs,
         BackgroundTRS, RetrieveTraceroutes, AssumeSymmetric, Canceled, vars
<1>2. CASE UNCHANGED rrVars
  BY <1>2 DEF rrVars, BudgetInv, UnresponsiveBudget
<1> QED
  BY <1>1, <1>2, RecordRouteBudget

\* Whatever batches the vantage points come in, a hop that never answered has
\* been charged with exactly the spoofed pings sent to it, and is given up
\* after at most one batch too many.
THEOREM UnresponsiveHopsAreGivenUp == Spec => []UnresponsiveBudget
<1>1. Init => BudgetInv
  BY InitBudget
<1>2. EngineInv /\ BudgetInv /\ [Next]_vars => BudgetInv'
  BY NextBudget
<1>3. BudgetInv => UnresponsiveBudget
  BY DEF BudgetInv
<1> QED
  BY <1>1, <1>2, <1>3, EngineInvariance, PTL DEF Spec

-----------------------------------------------------------------------------
(* What a step does to the stack                                           *)

\* The segments that the probes of one step show.
Shown(segs) ==
  \/ \E target \in Addr : \E hops \in RRHops(target) : segs = RRSegments("rr", hops, target, NoVP)
  \/ \E target \in Hop, vps \in Seq(VP) : \E answering \in SUBSET Range(vps) :
       \E hops \in [answering -> RRHops(target)] : segs = SpoofedSegments(hops, target, answering)
  \/ \E target \in Addr, adj \in Addr : segs = {Segment("ts", <<adj>>, target)}

\* A traceroute is joined to a path.  If it is not a stray one it meets the
\* current path.
JoinsAnswer ==
  /\ UNCHANGED deadEnd
  /\ \E ta \in Through(Answers) :
       /\ JoinTrace(ta[1], ta[2])
       /\ strayed' \/ ta \in Intersecting(HopSet(CurrPath))

\* The stack stays as it is, grows by what probes have shown or by what the
\* atlas knows, or an assumption is made.
StackStep ==
  \/ UNCHANGED <<paths, deadEnd>> /\ (pc' \in Panics => pc' = "index out of range" \/ UNCHANGED vars)
  \/ /\ Running /\ UNCHANGED deadEnd
     /\ \E segs, next : Shown(segs) /\ ExtendWith(segs, next)
  \/ Running /\ JoinsAnswer
  \/ /\ Running /\ UNCHANGED backoffEndhost
     /\ \E reason : AssumeOneHop(reason)

LEMMA ShownAre ==
  ASSUME NEW segs, Shown(segs)
  PROVE  /\ segs \in SUBSET Seg /\ IsFiniteSet(segs)
         /\ \A s \in segs : s.type \in {"rr", "spoofrr", "ts"}
<1>1. CASE \E target \in Addr : \E hops \in RRHops(target) :
             segs = RRSegments("rr", hops, target, NoVP)
  <2>1. PICK target \in Addr : \E hops \in RRHops(target) :
               segs = RRSegments("rr", hops, target, NoVP)
    BY <1>1
  <2>2. PICK hops \in RRHops(target) : segs = RRSegments("rr", hops, target, NoVP)
    BY <2>1
  <2>3. hops \in Seq(Hop) /\ "rr" \in SegTypes /\ NoVP \in VP \cup {NoVP}
    BY RRHopsAre DEF Hop, SegTypes
  <2> QED
    BY <2>2, <2>3, RRSegmentsAre
<1>2. CASE \E target \in Hop, vps \in Seq(VP) : \E answering \in SUBSET Range(vps) :
             \E hops \in [answering -> RRHops(target)] :
               segs = SpoofedSegments(hops, target, answering)
  <2>1. PICK target \in Hop, vps \in Seq(VP) : \E answering \in SUBSET Range(vps) :
             \E hops \in [answering -> RRHops(target)] :
               segs = SpoofedSegments(hops, target, answering)
    BY <1>2
  <2>2. PICK answering \in SUBSET Range(vps) :
             \E hops \in [answering -> RRHops(target)] :
               segs = SpoofedSegments(hops, target, answering)
    BY <2>1
  <2>3. PICK hops \in [answering -> RRHops(target)] :
               segs = SpoofedSegments(hops, target, answering)
    BY <2>2
  <2>4. segs \in SUBSET Seg /\ IsFiniteSet(segs)
    BY <2>3, SpoofedSegmentsAre
  <2>5. ASSUME NEW s \in segs PROVE s.type = "spoofrr"
    <3>1. PICK v \in answering : s \in RRSegments("spoofrr", hops[v], target, v)
      BY <2>3 DEF SpoofedSegments
    <3>2. v \in VP
      BY DEF Range
    <3>3. hops[v] \in RRHops(target)
      BY <2>3
    <3>4. target \in Addr /\ hops[v] \in Seq(Hop) /\ "spoofrr" \in SegTypes
      BY <3>3, RRHopsAre DEF SegTypes
    <3> QED
      BY <3>1, <3>2, <3>4, RRSegmentsAre
  <2> QED
    BY <2>4, <2>5
<1>3. CASE \E target \in Addr, adj \in Addr : segs = {Segment("ts", <<adj>>, target)}
  <2>1. PICK target \in Addr, adj \in Addr : segs = {Segment("ts", <<adj>>, target)}
    BY <1>3
  <2>2. PICK hops : hops = <<adj>>
    OBVIOUS
  <2>3. hops \in Seq(Hop) /\ hops # <<>> /\ hops[Len(hops)] = adj /\ adj # Zero
    BY <2>2, PathAssumption DEF Hop
  <2>4. PICK s : s = Segment("ts", hops, target)
    OBVIOUS
  <2>5. s = [type |-> "ts", hops |-> hops, hop |-> target, tr |-> <<>>, num |-> 0, spf |-> NoVP]
    BY <2>4 DEF Segment
  <2>6. s.type = "ts" /\ s.hops = hops
    BY <2>5
  <2>7. s \in Segments
    BY <2>1, <2>3, <2>5 DEF Segments, SegTypes
  <2>8. s \in Seg
    BY <2>3, <2>6, <2>7 DEF Seg, LastHop
  <2>9. segs = {s}
    BY <2>1, <2>2, <2>4
  <2> QED
    BY <2>6, <2>8, <2>9, FS_Singleton
<1> QED
  BY <1>1, <1>2, <1>3 DEF Shown

LEMMA RecordRouteStacks == EngineInv /\ RecordRoute => StackStep
<1> SUFFICES ASSUME EngineInv, RecordRoute PROVE StackStep
  OBVIOUS
<1>1. Running /\ TypeInv /\ StackInv /\ UNCHANGED deadEnd
  BY DEF RecordRoute, In, Calls, Running, Stopped, Panics, EngineInv
<1>2. PICK answer \in [{h \in Range(LastSeg.hops) : vpsLeft[h] = Uninit}
                          -> SpooferLists \cup {Uninit}] :
        LET left   == RRVPs(answer)
            target == LastSeg.hops[Max(Usable(left))]
            batch  == NextBatch(left[target])
        IN  IF Usable(left) = {}
            THEN /\ vpsLeft' = left
                 /\ Goto("timestamp") /\ UNCHANGED <<paths, rrResponsive, sent>>
            ELSE /\ vpsLeft' = [left EXCEPT ![target] = batch.rest]
                 /\ sent' = [sent EXCEPT ![target] =
                      [v \in DOMAIN @ |-> IF v \in Range(batch.vps) THEN @[v] + 1 ELSE @[v]]]
                 /\ IF batch.vps = <<NonSpoofed>> THEN DirectRR(target)
                    ELSE SpoofedRR(target, batch.vps)
  BY Zenon DEF RecordRoute
<1>3. PICK left : left = RRVPs(answer)
  OBVIOUS
<1>4. PICK target : target = LastSeg.hops[Max(Usable(left))]
  OBVIOUS
<1>5. PICK vps : vps = NextBatch(left[target]).vps
  OBVIOUS
<1>6. IF Usable(left) = {}
      THEN Goto("timestamp") /\ UNCHANGED paths
      ELSE IF vps = <<NonSpoofed>> THEN DirectRR(target) ELSE SpoofedRR(target, vps)
  BY <1>2, <1>3, <1>4, <1>5, Zenon
<1>7. CASE Usable(left) = {}
  BY <1>1, <1>6, <1>7 DEF Goto, Panics, StackStep
<1>8. CASE Usable(left) # {}
  <2>1. target \in Hop /\ (vps = <<NonSpoofed>> \/ vps \in Seq(VP))
    <3>1. PICK hops \in Seq(Hop) : hops = LastSeg.hops
      BY <1>1, StackIs
    <3>2. Usable(left) \in SUBSET (0..Len(hops)) /\ Len(hops) \in Nat
      BY <3>1 DEF Usable
    <3>3. Max(Usable(left)) \in Usable(left)
      BY <1>8, <3>2, MaxIs
    <3>4. PICK i \in DOMAIN hops : i = Max(Usable(left)) /\ i \in Usable(left)
      BY <3>1, <3>3 DEF Usable
    <3>5. target = hops[i] /\ LeftFor(left, hops[i]) # <<>>
      BY <1>4, <3>1, <3>4, Zenon DEF Usable
    <3>6. target \in Hop
      BY <3>1, <3>5
    <3>7. left \in [Hop -> VPLists \cup {Uninit}]
      <4>1. {h \in Range(LastSeg.hops) : vpsLeft[h] = Uninit} \in SUBSET Hop
        BY <1>1, StackIs DEF Range
      <4> QED
        BY <1>1, <1>3, <4>1, RRVPsAre
    <3>8. left[target] \in VPLists /\ left[target] # <<>>
      BY <3>5, <3>6, <3>7 DEF LeftFor
    <3> QED
      BY <1>1, <1>5, <3>6, <3>8, NextBatchIs
  <2>2. CASE vps = <<NonSpoofed>>
    <3>1. DirectRR(target)
      BY <1>6, <1>8, <2>2
    <3>2. CASE Loop /\ UNCHANGED paths
      BY <1>1, <3>2 DEF Loop, Panics, StackStep
    <3>3. CASE \E hops \in RRHops(target) :
                 ExtendWith(RRSegments("rr", hops, target, NoVP), "trToSource")
      <4>1. PICK hops \in RRHops(target) :
                 ExtendWith(RRSegments("rr", hops, target, NoVP), "trToSource")
        BY <3>3
      <4>2. Shown(RRSegments("rr", hops, target, NoVP))
        BY <2>1, <4>1, RRHopsAre DEF Shown
      <4> QED
        BY <1>1, <4>1, <4>2, Zenon DEF StackStep
    <3> QED
      BY <3>1, <3>2, <3>3, Zenon DEF DirectRR
  <2>3. CASE vps # <<NonSpoofed>>
    <3>1. vps \in Seq(VP) /\ SpoofedRR(target, vps)
      BY <1>6, <1>8, <2>1, <2>3
    <3>2. PICK answering \in SUBSET Range(vps) : \E hops \in [answering -> RRHops(target)] :
            ExtendWith(SpoofedSegments(hops, target, answering), "timestamp")
      BY <3>1, Zenon DEF SpoofedRR, SpoofedSegments
    <3>3. PICK hops \in [answering -> RRHops(target)] :
            ExtendWith(SpoofedSegments(hops, target, answering), "timestamp")
      BY <3>2
    <3>4. Shown(SpoofedSegments(hops, target, answering))
      BY <2>1, <3>1, <3>3, Zenon DEF Shown
    <3> QED
      BY <1>1, <3>3, <3>4, Zenon DEF StackStep
  <2> QED
    BY <2>2, <2>3
<1> QED
  BY <1>7, <1>8

LEMMA TimestampStacks == EngineInv /\ Timestamp => StackStep
<1> SUFFICES ASSUME EngineInv, Timestamp PROVE StackStep
  OBVIOUS
<1>1. Running /\ TypeInv /\ StackInv /\ UNCHANGED deadEnd
  BY DEF Timestamp, In, Calls, Running, Stopped, Panics, EngineInv
<1>2. PICK target \in Addr : target = LastHop(LastSeg)
  BY <1>1, StackIs
<1>3. \/ Goto("backgroundTRS") /\ UNCHANGED paths
      \/ \E list \in Seq(Addr) : list # <<>> /\ ProbeAdjacent(target, Head(list))
  <2>1. \/ Goto("backgroundTRS") /\ UNCHANGED <<paths, tsVars>>
        \/ \E answer \in AdjacencyLists \cup {Uninit} :
             LET list == IF adjsLeft[target] = Uninit THEN answer ELSE adjsLeft[target]
             IN  \/ Goto("backgroundTRS") /\ UNCHANGED paths
                 \/ list \notin {Uninit, <<>>} /\ ProbeAdjacent(target, Head(list))
    BY <1>2, Zenon DEF Timestamp
  <2>2. CASE \E answer \in AdjacencyLists \cup {Uninit} :
             LET list == IF adjsLeft[target] = Uninit THEN answer ELSE adjsLeft[target]
             IN  list \notin {Uninit, <<>>} /\ ProbeAdjacent(target, Head(list))
    <3>1. PICK answer \in AdjacencyLists \cup {Uninit} :
             LET list == IF adjsLeft[target] = Uninit THEN answer ELSE adjsLeft[target]
             IN  list \notin {Uninit, <<>>} /\ ProbeAdjacent(target, Head(list))
      BY <2>2
    <3>2. adjsLeft[target] \in Seq(Addr) \cup {Uninit} /\ answer \in Seq(Addr) \cup {Uninit}
      BY <1>1, RevtrAssumption DEF TypeInv, Hop
    <3> QED
      BY <3>1, <3>2
  <2> QED
    BY <2>1, <2>2
<1>4. CASE Goto("backgroundTRS") /\ UNCHANGED paths
  BY <1>1, <1>4 DEF Goto, Panics, StackStep
<1>5. CASE \E list \in Seq(Addr) : list # <<>> /\ ProbeAdjacent(target, Head(list))
  <2>1. PICK adj \in Addr : ProbeAdjacent(target, adj)
    BY <1>5
  <2>2. \/ Loop /\ UNCHANGED paths
        \/ Goto("backgroundTRS") /\ UNCHANGED paths
        \/ Panic("index out of range") /\ UNCHANGED paths
        \/ ExtendWith({Segment("ts", <<adj>>, target)}, "trToSource")
    BY <2>1, ProbeAdjacentCases
  <2>3. CASE Loop \/ Goto("backgroundTRS") \/ Panic("index out of range")
    <3>1. pc' \notin Panics \/ pc' = "index out of range"
      BY <2>3 DEF Loop, Goto, Panic, Panics
    <3>2. CASE UNCHANGED paths
      BY <1>1, <3>1, <3>2, Zenon DEF StackStep
    <3>3. CASE ExtendWith({Segment("ts", <<adj>>, target)}, "trToSource")
      <4>1. Shown({Segment("ts", <<adj>>, target)})
        BY DEF Shown
      <4> QED
        BY <1>1, <3>3, <4>1, Zenon DEF StackStep
    <3> QED
      BY <2>2, <3>2, <3>3
  <2>4. CASE ExtendWith({Segment("ts", <<adj>>, target)}, "trToSource")
    <3>1. Shown({Segment("ts", <<adj>>, target)})
      BY DEF Shown
    <3> QED
      BY <1>1, <2>4, <3>1, Zenon DEF StackStep
  <2> QED
    BY <2>2, <2>3, <2>4
<1> QED
  BY <1>3, <1>4, <1>5

LEMMA StackSteps == EngineInv /\ [Next]_vars => StackStep
<1> SUFFICES ASSUME EngineInv, [Next]_vars PROVE StackStep
  OBVIOUS
<1>1. TypeInv /\ StackInv /\ TokenInv
  BY DEF EngineInv
<1>2. CASE AssumeSymmetric \/ StepBackoffEndhost
  BY <1>2 DEF AssumeSymmetric, StepBackoffEndhost, Calls, Running, Stopped, Panics, batchVars, StackStep
<1>3. ASSUME Running, NEW hops, hops \subseteq HopSet(CurrPath), UNCHANGED deadEnd,
             NEW strays \in SUBSET Through(StrayTraces), JoinAnswer(hops, strays)
      PROVE  StackStep
  <2>1. PICK ta \in Through(Answers) :
          JoinTrace(ta[1], ta[2]) /\ (strayed' \/ ta \in Intersecting(hops))
    BY <1>3, JoinAnswerIs
  <2>2. ta \in Intersecting(hops) => ta \in Intersecting(HopSet(CurrPath))
    BY <1>3 DEF Intersecting
  <2> QED
    BY <1>3, <2>1, <2>2, Zenon DEF StackStep, JoinsAnswer
<1>4. ASSUME NEW s, Goto(s), UNCHANGED <<paths, deadEnd>> PROVE StackStep
  BY <1>4 DEF Goto, Panics, StackStep
<1>5. CASE TrToSource
  <2>1. Running /\ UNCHANGED deadEnd
    BY <1>5 DEF TrToSource, Calls, Running, Stopped, Panics
  <2>2. Range(LastSeg.hops) \ {Zero} \subseteq HopSet(CurrPath) /\ Mistaken \subseteq Through(StrayTraces)
    BY <1>1, <2>1, StackIs DEF Mistaken
  <2>3. \/ Goto("recordRoute") /\ UNCHANGED paths
        \/ JoinAnswer(Range(LastSeg.hops) \ {Zero}, Mistaken)
    BY <1>5, Zenon DEF TrToSource
  <2> QED
    BY <1>3, <1>4, <2>1, <2>2, <2>3
<1>6. CASE BackgroundTRS \/ CheckBgTRs
  <2>1. Running /\ UNCHANGED deadEnd
    BY <1>6 DEF BackgroundTRS, CheckBgTRs, RetrieveTraceroutes, Calls, Running, Stopped, Panics
  <2>2. tokens \subseteq HopSet(CurrPath)
    BY <1>1, <2>1 DEF TokenInv
  <2>3. \/ \E s : Goto(s) /\ UNCHANGED paths
        \/ JoinAnswer(tokens, Through(StrayTraces))
    BY <1>6, Zenon DEF BackgroundTRS, CheckBgTRs, RetrieveTraceroutes
  <2> QED
    BY <1>3, <1>4, <2>1, <2>2, <2>3
<1>7. CASE Canceled \/ CancelContext
  BY <1>7 DEF Canceled, CancelContext, Return, Panics, Stopped, StackStep
<1>8. CASE UNCHANGED vars
  BY <1>8 DEF vars, StackStep
<1> QED
  BY <1>2, <1>5, <1>6, <1>7, <1>8, RecordRouteStacks, TimestampStacks DEF Next, Run, Terminated

\* An assumption that fails gives up the paths on top of the stack.
GivesUp ==
  /\ deadEnd' = deadEnd \cup {LastHop(LastSeg)}
  /\ \E n \in 0..Len(paths) : paths' = SubSeq(paths, 1, n)

\* The one segment of a new assumption.
Assumption(segs) ==
  \E t \in ForwardTraces :
    segs = {NewDstSymRevSegment(LastHop(LastSeg), t, HopSet(CurrPath) \cup deadEnd)}

\* Segments are added, and the run goes on unless they reach.
Adds(segs) ==
  \E r \in AddSegments(paths, deadEnd, segs) :
    /\ paths' = r.paths /\ UNCHANGED deadEnd
    /\ r.added \/ Shown(segs)
    /\ Running' => ~(r.added /\ PathReaches(Last(r.paths)))

\* The assumption at the end of the path becomes longer.
Lengthens ==
  LET s == AddHop(LastSeg, HopsButLastSeg \cup deadEnd)
  IN  /\ LastSeg.type = "sym" /\ LastHop(s) \notin deadEnd
      /\ paths' = Append(paths, Append(Front(CurrPath), s)) /\ UNCHANGED deadEnd
      /\ Running' => ~SegReaches(s)

\* It does not, because it ends in a hop that is given up.
LengthensToDeadEnd ==
  /\ LastSeg.type = "sym"
  /\ LastHop(AddHop(LastSeg, HopsButLastSeg \cup deadEnd)) \in deadEnd
  /\ UNCHANGED <<paths, deadEnd>> /\ pc' = "should never get here"

LEMMA StackCases ==
  ASSUME EngineInv, [Next]_vars
  PROVE  \/ UNCHANGED <<paths, deadEnd>> /\ (pc' \in Panics => pc' = "index out of range" \/ UNCHANGED vars)
         \/ /\ Running
            /\ \/ LengthensToDeadEnd
               \/ JoinsAnswer
               \/ /\ pc' \notin Panics
                  /\ \/ GivesUp
                     \/ Lengthens
                     \/ \E segs : (Shown(segs) \/ Assumption(segs)) /\ Adds(segs)
<1>1. StackStep
  BY StackSteps
<1>2. ASSUME Running, UNCHANGED deadEnd, NEW segs, NEW next, Shown(segs), ExtendWith(segs, next)
      PROVE  pc' \notin Panics /\ Adds(segs)
  <2>1. PICK r \in AddSegments(paths, deadEnd, segs) :
          /\ paths' = r.paths
          /\ CASE ~r.added                     -> Loop
               [] r.added /\ PathReaches(Last(r.paths))  -> Return("REACHES")
               [] r.added /\ ~PathReaches(Last(r.paths)) ->
                    pc' = "checkbg" /\ step' = next /\ UNCHANGED stopReason
    BY <1>2 DEF ExtendWith
  <2>2. \/ ~r.added /\ pc' = "loop"
        \/ r.added /\ PathReaches(Last(r.paths)) /\ pc' = "returned"
        \/ r.added /\ ~PathReaches(Last(r.paths)) /\ pc' = "checkbg"
    BY <2>1, Zenon DEF Loop, Return
  <2>3. pc' \notin Panics /\ (Running' => ~(r.added /\ PathReaches(Last(r.paths))))
    BY <2>2 DEF Panics, Running, Stopped
  <2> QED
    BY <1>2, <2>1, <2>3, Zenon DEF Adds
<1>3. ASSUME Running, FailCurrPath PROVE pc' \notin Panics /\ GivesUp
  <2>1. pc' \notin Panics
    BY <1>3 DEF FailCurrPath, Return, Goto, Panics
  <2>2. paths \in Seq(Path)
    BY DEF EngineInv, TypeInv
  <2>3. PICK dead : dead = deadEnd'
    OBVIOUS
  <2>4. \E n \in 0..Len(paths) : AfterFail(paths, dead) = SubSeq(paths, 1, n)
    BY <2>2, AfterFailIs
  <2> QED
    BY <1>3, <2>1, <2>3, <2>4, Zenon DEF FailCurrPath, GivesUp
<1>4. ASSUME Running, NEW reason, ExtendSymmetric(reason), LastSeg.type = "sym"
      PROVE  LengthensToDeadEnd \/ (pc' \notin Panics /\ Lengthens)
  <2>1. PICK s : s = AddHop(LastSeg, HopsButLastSeg \cup deadEnd)
    OBVIOUS
  <2>2. IF LastHop(s) \in deadEnd
        THEN pc' = "should never get here" /\ UNCHANGED <<paths, deadEnd>>
        ELSE /\ paths' = Append(paths, Append(Front(CurrPath), s)) /\ UNCHANGED deadEnd
             /\ IF SegReaches(s) THEN Return(reason) ELSE Goto("trToSource")
    BY <1>4, <2>1, Zenon DEF ExtendSymmetric, Panic
  <2>3. CASE LastHop(s) \in deadEnd
    BY <1>4, <2>1, <2>2, <2>3, Zenon DEF LengthensToDeadEnd
  <2>4. CASE LastHop(s) \notin deadEnd
    <3>1. IF SegReaches(s) THEN pc' = "returned" ELSE pc' = "select"
      BY <2>2, <2>4, Zenon DEF Return, Goto
    <3>2. pc' \notin Panics /\ (Running' => ~SegReaches(s))
      BY <3>1 DEF Panics, Running, Stopped
    <3> QED
      BY <1>4, <2>1, <2>2, <2>4, <3>2, Zenon DEF Lengthens
  <2> QED
    BY <2>3, <2>4
<1>5. ASSUME Running, NEW reason, NEW t \in ForwardTraces, AssumeFrom(t, reason)
      PROVE  pc' \notin Panics /\ (GivesUp \/ \E segs : Assumption(segs) /\ Adds(segs))
  <2>1. PICK segs : segs = {NewDstSymRevSegment(LastHop(LastSeg), t, HopSet(CurrPath) \cup deadEnd)}
    OBVIOUS
  <2>2. PICK r \in AddSegments(paths, deadEnd, segs) :
          IF r.added
          THEN /\ paths' = r.paths
               /\ IF PathReaches(Last(r.paths)) THEN Return(reason) ELSE Goto("trToSource")
               /\ UNCHANGED deadEnd
          ELSE FailCurrPath
    BY <1>5, <2>1, Zenon DEF AssumeFrom
  <2>3. CASE ~r.added
    BY <1>3, <1>5, <2>2, <2>3
  <2>4. CASE r.added
    <3>1. IF PathReaches(Last(r.paths)) THEN pc' = "returned" ELSE pc' = "select"
      BY <2>2, <2>4, Zenon DEF Return, Goto
    <3>2. pc' \notin Panics /\ (Running' => ~(r.added /\ PathReaches(Last(r.paths))))
      BY <3>1 DEF Panics, Running, Stopped
    <3>3. Assumption(segs)
      BY <2>1, Zenon DEF Assumption
    <3> QED
      BY <2>2, <2>4, <3>2, <3>3, Zenon DEF Adds
  <2> QED
    BY <2>3, <2>4
<1>6. ASSUME Running, NEW reason, AssumeOneHop(reason)
      PROVE  \/ LengthensToDeadEnd
             \/ /\ pc' \notin Panics
                /\ GivesUp \/ Lengthens \/ \E segs : Assumption(segs) /\ Adds(segs)
  <2>1. CASE LastSeg.type = "sym"
    BY <1>4, <1>6, <2>1 DEF AssumeOneHop
  <2>2. CASE LastSeg.type # "sym"
    BY <1>3, <1>5, <1>6, <2>2 DEF AssumeOneHop, TracesTo
  <2> QED
    BY <2>1, <2>2
<1> QED
  BY <1>1, <1>2, <1>6, Zenon DEF StackStep

-----------------------------------------------------------------------------
(* Stacks of paths of some kind                                            *)

LEMMA SeqIn ==
  ASSUME NEW S, NEW T, NEW s \in Seq(S), \A i \in 1..Len(s) : s[i] \in T
  PROVE  s \in Seq(T)
OBVIOUS

LEMMA FrontIs ==
  ASSUME NEW S, NEW s \in Seq(S), s # <<>>
  PROVE  Front(s) \in Seq(S) /\ Len(Front(s)) = Len(s) - 1 /\ \A i \in 1..Len(s) - 1 : Front(s)[i] = s[i]
<1>1. PICK n \in Nat : n = Len(s) - 1
  OBVIOUS
<1>2. n \in 0..Len(s) /\ Front(s) = SubSeq(s, 1, n)
  BY <1>1 DEF Front
<1>3. PICK t : t = SubSeq(s, 1, n)
  OBVIOUS
<1>4. t \in Seq(S) /\ Len(t) = n /\ \A i \in 1..n : t[i] = s[i]
  BY <1>2, <1>3
<1> QED
  BY <1>1, <1>2, <1>3, <1>4

LEMMA ElementIn == ASSUME NEW S, NEW s \in Seq(S), NEW i \in 1..Len(s) PROVE s[i] \in S
OBVIOUS

LEMMA PrefixIn ==
  ASSUME NEW S, NEW s \in Seq(S), NEW n \in 0..Len(s)
  PROVE  SubSeq(s, 1, n) \in Seq(S) /\ Len(SubSeq(s, 1, n)) = n
         /\ \A i \in 1..n : SubSeq(s, 1, n)[i] = s[i]
OBVIOUS

LEMMA AppendIn ==
  ASSUME NEW S, NEW s \in Seq(S), NEW x \in S
  PROVE  /\ Append(s, x) \in Seq(S) /\ Len(Append(s, x)) = Len(s) + 1 /\ Append(s, x) # <<>>
         /\ Append(s, x)[Len(s) + 1] = x /\ Last(Append(s, x)) = x
         /\ \A i \in 1..Len(s) : Append(s, x)[i] = s[i]
BY DEF Last

LEMMA FrontOfAppend == ASSUME NEW S, NEW p \in Seq(S), NEW s \in S PROVE Front(Append(p, s)) = p
<1>1. PICK t : t = Append(p, s)
  OBVIOUS
<1>2. Len(t) - 1 = Len(p) /\ SubSeq(t, 1, Len(p)) = p
  BY <1>1
<1> QED
  BY <1>1, <1>2 DEF Front

\* What is pushed ends in a part of one of the segments.
LEMMA LastOfNew ==
  ASSUME NEW stack \in Seq(Path), stack # <<>>, NEW segs, NEW r, Extends(r, stack, segs)
  PROVE  \A i \in Len(stack) + 1..Len(r.paths) :
           Last(r.paths[i]) \in Seg /\ \E t \in segs : EndOf(Last(r.paths[i]), t)
<1> SUFFICES ASSUME NEW i \in Len(stack) + 1..Len(r.paths)
             PROVE  Last(r.paths[i]) \in Seg /\ \E t \in segs : EndOf(Last(r.paths[i]), t)
  OBVIOUS
<1>1. PICK s \in Seg : r.paths[i] = Append(Last(stack), s) /\ \E t \in segs : EndOf(s, t)
  BY DEF Extends
<1>2. PICK base \in Seq(Seg) : base = Last(stack)
  BY DEF Last, Path
<1>3. Last(Append(base, s)) = s
  BY DEF Last
<1> QED
  BY <1>1, <1>2, <1>3

LEMMA AssumptionIs ==
  ASSUME TypeInv, StackInv, Running, NEW segs, Assumption(segs)
  PROVE  /\ segs \in SUBSET Seg /\ IsFiniteSet(segs)
         /\ \E t \in ForwardTraces, s \in Seg : \E ignore :
              /\ segs = {s} /\ s.type = "sym" /\ s.tr = t
              /\ s.hops = SelectNonzeroHops(Backwards(t), 1, ignore)
<1>1. PICK t \in ForwardTraces :
        segs = {NewDstSymRevSegment(LastHop(LastSeg), t, HopSet(CurrPath) \cup deadEnd)}
  BY DEF Assumption
<1>2. PICK from \in Addr : from = LastHop(LastSeg)
  BY StackIs
<1>3. PICK ignore : ignore = HopSet(CurrPath) \cup deadEnd
  OBVIOUS
<1>4. t \in Seq(Hop)
  BY RevtrAssumption
<1>5. PICK s \in Seg : /\ s = NewDstSymRevSegment(from, t, ignore) /\ s.type = "sym" /\ s.tr = t
                       /\ s.hops = SelectNonzeroHops(Backwards(t), 1, ignore)
  BY <1>4, NewSymIs
<1>6. segs = {s}
  BY <1>1, <1>2, <1>3, <1>5
<1> QED
  BY <1>5, <1>6, FS_Singleton

\* A run that has stopped does not start again.
LEMMA StoppedForGood == ~Running /\ [Next]_vars => UNCHANGED vars
BY DEF Running, Next, Run, StepBackoffEndhost, TrToSource, RecordRoute, Timestamp, In,
       CheckBgTRs, BackgroundTRS, AssumeSymmetric, Canceled, CancelContext, Calls,
       Stopped, Panics, Terminated

\* A segment that a step may put after the current path.
NewSegment(s) ==
  \E segs \in SUBSET Seg :
    /\ IsFiniteSet(segs) /\ (Shown(segs) \/ Assumption(segs))
    /\ \E t \in Addable(paths, deadEnd, segs) : EndOf(s, t)
    /\ \E r \in AddSegments(paths, deadEnd, segs) : Running' => ~(r.added /\ PathReaches(Last(r.paths)))

\* A longer assumption, in the place of the last one.
LongerAssumption(s) ==
  /\ s.type = "sym" /\ s = AddHop(LastSeg, HopsButLastSeg \cup deadEnd)
  /\ Running' => ~SegReaches(s)

LEMMA LastOfSeq ==
  ASSUME NEW S, NEW s \in Seq(S), s # <<>>
  PROVE  Last(s) = s[Len(s)] /\ Len(s) \in 1..Len(s) /\ Last(s) \in S
BY DEF Last

\* What is true of every path of the stack stays true unless a traceroute is
\* joined, if it is true of every path that a step makes of the current one.
LEMMA PathsStayGood ==
  ASSUME EngineInv, Running, [Next]_vars, ~JoinsAnswer, NEW Good, paths \in Seq(Good),
         \A s \in Seg : NewSegment(s) => Append(CurrPath, s) \in Good,
         \A s \in Seg : LongerAssumption(s) => Append(Front(CurrPath), s) \in Good
  PROVE  paths' \in Seq(Good)
<1>1. TypeInv /\ StackInv /\ paths \in Seq(Path) /\ paths # <<>> /\ LastSeg \in Seg
  BY StackIs DEF EngineInv
<1>2. PICK stack \in Seq(Good) : stack = paths /\ stack \in Seq(Path)
  BY <1>1
<1>3. CASE UNCHANGED paths
  BY <1>3
<1>4. CASE GivesUp
  <2>1. PICK n \in 0..Len(stack) : paths' = SubSeq(stack, 1, n)
    BY <1>2, <1>4 DEF GivesUp
  <2>2. SubSeq(stack, 1, n) \in Seq(Good)
    BY ONLY stack \in Seq(Good), n \in 0..Len(stack), PrefixIn
  <2> QED
    BY <2>1, <2>2
<1>5. CASE Lengthens
  <2>1. PICK s : s = AddHop(LastSeg, HopsButLastSeg \cup deadEnd)
    OBVIOUS
  <2>2. LastSeg.type = "sym" /\ paths' = Append(stack, Append(Front(CurrPath), s)) /\ (Running' => ~SegReaches(s))
    BY <1>2, <1>5, <2>1 DEF Lengthens
  <2>3. s \in Seg /\ s.type = "sym"
    BY <1>1, <2>1, <2>2, AddHopIs
  <2>4. PICK new \in Good : new = Append(Front(CurrPath), s)
    BY <2>1, <2>2, <2>3 DEF LongerAssumption
  <2>5. Append(stack, new) \in Seq(Good)
    BY ONLY stack \in Seq(Good), new \in Good, AppendIn
  <2> QED
    BY <2>2, <2>4, <2>5
<1>6. CASE \E segs : (Shown(segs) \/ Assumption(segs)) /\ Adds(segs)
  <2>1. PICK segs : (Shown(segs) \/ Assumption(segs)) /\ Adds(segs)
    BY <1>6
  <2>2. segs \in SUBSET Seg /\ IsFiniteSet(segs)
    BY <1>1, <2>1, ShownAre, AssumptionIs
  <2>3. PICK r \in AddSegments(paths, deadEnd, segs) :
          paths' = r.paths /\ (Running' => ~(r.added /\ PathReaches(Last(r.paths))))
    BY <2>1 DEF Adds
  <2>4. Extends(r, stack, Addable(stack, deadEnd, segs))
    BY <1>1, <1>2, <2>2, <2>3, AddSegmentsAdds
  <2>5. PICK n, m, new : /\ n \in Nat /\ m \in Nat /\ n = Len(stack) /\ new = r.paths /\ m = Len(new)
                         /\ new \in Seq(Path) /\ m >= n
    <3>1. r.paths \in Seq(Path) /\ Len(r.paths) >= Len(stack) /\ Len(stack) \in Nat
      BY <1>2, <2>4 DEF Extends
    <3>2. Len(r.paths) \in Nat
      BY <3>1
    <3> QED
      BY <3>1, <3>2
  <2>6. ASSUME NEW i \in 1..m PROVE new[i] \in Good
    <3>1. CASE i \in 1..n
      <4>1. new[i] = stack[i]
        BY <2>4, <2>5, <3>1 DEF Extends
      <4> QED
        BY <1>2, <2>5, <3>1, <4>1
    <3>2. CASE i \notin 1..n
      <4>1. i \in n + 1..m
        BY <2>5, <3>2
      <4>2. PICK s \in Seg : /\ new[i] = Append(Last(stack), s)
                             /\ \E t \in Addable(stack, deadEnd, segs) : EndOf(s, t)
        BY <2>4, <2>5, <4>1 DEF Extends
      <4>3. NewSegment(s)
        BY <1>2, <2>1, <2>2, <2>3, <4>2, Zenon DEF NewSegment
      <4> QED
        BY <1>2, <4>2, <4>3 DEF CurrPath
    <3> QED
      BY <3>1, <3>2
  <2>7. new \in Seq(Good)
    BY <2>5, <2>6, SeqIn
  <2> QED
    BY <2>3, <2>5, <2>7
<1> QED
  BY <1>3, <1>4, <1>5, <1>6, StackCases, Zenon DEF LengthensToDeadEnd

\* A hop that is given up stays so.
LEMMA DeadEndsStay == EngineInv /\ Running /\ [Next]_vars => deadEnd \subseteq deadEnd'
<1> SUFFICES ASSUME EngineInv, Running, [Next]_vars PROVE deadEnd \subseteq deadEnd'
  OBVIOUS
<1>1. deadEnd' = deadEnd \/ GivesUp
  BY StackCases DEF LengthensToDeadEnd, JoinsAnswer, Lengthens, Adds
<1> QED
  BY <1>1 DEF GivesUp

\* To join a traceroute is the last thing that a run does.
LEMMA JoinStops ==
  ASSUME EngineInv, Running, JoinsAnswer
  PROVE  ~Running'
<1>1. PICK ta \in Through(Answers) : JoinTrace(ta[1], ta[2])
  BY DEF JoinsAnswer
<1>2. PICK trace \in Answers, addr \in Addr : addr \in Range(trace) /\ JoinTrace(trace, addr)
  BY <1>1, AnswerIs
<1> QED
  BY <1>2, JoinTraceIs DEF EngineInv, Arrives, Running, Stopped

\* A probe shows a part of a reply, with every shorter part, or one address.
LEMMA ShownSegment ==
  ASSUME NEW segs, Shown(segs), NEW t \in segs
  PROVE  \/ \E target \in Addr : \E found \in RRHops(target) : \E n \in DOMAIN found :
              /\ found \in Seq(Hop) /\ t.hops = SubSeq(found, 1, n)
              /\ \A i \in DOMAIN found : found[i] # Zero => \E u \in segs : u.hops = SubSeq(found, 1, i)
         \/ \E adj \in Addr : t.hops = <<adj>>
<1>1. ASSUME NEW type, NEW target \in Addr, NEW found \in RRHops(target), NEW vp,
             t \in RRSegments(type, found, target, vp), RRSegments(type, found, target, vp) \subseteq segs
      PROVE  \E n \in DOMAIN found :
              /\ found \in Seq(Hop) /\ t.hops = SubSeq(found, 1, n)
              /\ \A i \in DOMAIN found : found[i] # Zero => \E u \in segs : u.hops = SubSeq(found, 1, i)
  <2>1. found \in Seq(Hop)
    BY RRHopsAre DEF Hop
  <2>2. ASSUME NEW i \in DOMAIN found, found[i] # Zero
        PROVE  \E u \in segs : u.hops = SubSeq(found, 1, i)
    <3>1. PICK u : u = [Segment(type, SubSeq(found, 1, i), target) EXCEPT !.spf = vp]
      OBVIOUS
    <3>2. u \in segs
      BY <1>1, <2>2, <3>1 DEF RRSegments
    <3>3. u.hops = SubSeq(found, 1, i)
      BY <3>1 DEF Segment
    <3> QED
      BY <3>2, <3>3
  <2>3. PICK n \in DOMAIN found : t = [Segment(type, SubSeq(found, 1, n), target) EXCEPT !.spf = vp]
    BY <1>1 DEF RRSegments
  <2>4. t.hops = SubSeq(found, 1, n)
    BY <2>3 DEF Segment
  <2> QED
    BY <2>1, <2>2, <2>4
<1>2. CASE \E target \in Addr : \E hops \in RRHops(target) :
             segs = RRSegments("rr", hops, target, NoVP)
  <2>1. PICK target \in Addr : \E hops \in RRHops(target) :
             segs = RRSegments("rr", hops, target, NoVP)
    BY <1>2
  <2>2. PICK hops \in RRHops(target) : segs = RRSegments("rr", hops, target, NoVP)
    BY <2>1
  <2>3. t \in RRSegments("rr", hops, target, NoVP) /\ RRSegments("rr", hops, target, NoVP) \subseteq segs
    BY <2>2, Zenon
  <2> QED
    BY <1>1, <2>3, Zenon
<1>3. CASE \E target \in Hop, vps \in Seq(VP) : \E answering \in SUBSET Range(vps) :
             \E hops \in [answering -> RRHops(target)] :
               segs = SpoofedSegments(hops, target, answering)
  <2>1. PICK target \in Hop, vps \in Seq(VP) : \E answering \in SUBSET Range(vps) :
             \E hops \in [answering -> RRHops(target)] :
               segs = SpoofedSegments(hops, target, answering)
    BY <1>3
  <2>2. PICK answering \in SUBSET Range(vps) :
             \E hops \in [answering -> RRHops(target)] :
               segs = SpoofedSegments(hops, target, answering)
    BY <2>1
  <2>3. PICK hops \in [answering -> RRHops(target)] :
               segs = SpoofedSegments(hops, target, answering)
    BY <2>2
  <2>4. PICK v \in answering : t \in RRSegments("spoofrr", hops[v], target, v)
    BY <2>3 DEF SpoofedSegments
  <2>5. hops[v] \in RRHops(target) /\ target \in Addr
    BY <2>3, <2>4 DEF RRHops, Hop
  <2>6. RRSegments("spoofrr", hops[v], target, v) \subseteq segs
    BY <2>3, <2>4, Zenon DEF SpoofedSegments
  <2> QED
    BY <1>1, <2>4, <2>5, <2>6, Zenon
<1>4. CASE \E target \in Addr, adj \in Addr : segs = {Segment("ts", <<adj>>, target)}
  <2>1. PICK target \in Addr, adj \in Addr : t = Segment("ts", <<adj>>, target)
    BY <1>4
  <2>2. t.hops = <<adj>>
    BY <2>1 DEF Segment
  <2> QED
    BY <2>2
<1> QED
  BY <1>2, <1>3, <1>4 DEF Shown

LEMMA PrefixRange ==
  ASSUME NEW S, NEW s \in Seq(S), NEW n \in DOMAIN s
  PROVE  Range(SubSeq(s, 1, n)) = {s[i] : i \in 1..n} /\ 1..n \subseteq DOMAIN s
<1>1. n \in 0..Len(s) /\ n \in 1..Len(s)
  OBVIOUS
<1>2. PICK t : t = SubSeq(s, 1, n)
  OBVIOUS
<1>3. t \in Seq(S) /\ Len(t) = n /\ \A i \in 1..n : t[i] = s[i]
  BY <1>1, <1>2, PrefixIn
<1>4. DOMAIN t = 1..n
  BY <1>3
<1> QED
  BY <1>1, <1>2, <1>3, <1>4 DEF Range

\* What probes show is a part of a reply: it names no router twice, and if it
\* passes the source then a shorter part that is shown too arrives there.
LEMMA ShownNamesOnce ==
  ASSUME NEW segs, Shown(segs), NEW t \in segs
  PROVE  ~TwoNames(Range(t.hops)) /\ (PassesSource(t) => \E u \in segs : SegReaches(u))
<1>1. segs \in SUBSET Seg /\ t \in Seg
  BY ShownAre
<1>2. CASE \E target \in Addr : \E found \in RRHops(target) : \E n \in DOMAIN found :
              /\ found \in Seq(Hop) /\ t.hops = SubSeq(found, 1, n)
              /\ \A i \in DOMAIN found : found[i] # Zero => \E u \in segs : u.hops = SubSeq(found, 1, i)
  <2>1. PICK target, found, n :
              /\ target \in Addr /\ found \in RRHops(target) /\ n \in DOMAIN found
              /\ found \in Seq(Hop) /\ t.hops = SubSeq(found, 1, n)
              /\ \A i \in DOMAIN found : found[i] # Zero => \E u \in segs : u.hops = SubSeq(found, 1, i)
    BY <1>2
  <2>2. PICK reply \in RRReplies : found = ProcessRR(reply, target)
    BY <2>1, PathAssumption DEF RRHops
  <2>3. \A i, j \in DOMAIN found : i # j => Cluster[found[i]] # Cluster[found[j]]
    <3>1. reply \in Seq(Hop)
      BY RevtrAssumption
    <3>2. \A i, j \in DOMAIN ProcessRR(reply, target) :
            /\ Cluster[ProcessRR(reply, target)[i]] # Cluster[target]
            /\ i # j => Cluster[ProcessRR(reply, target)[i]] # Cluster[ProcessRR(reply, target)[j]]
      BY ONLY <3>1, ReplyIs
    <3> QED
      BY <2>2, <3>2
  <2>4. Range(t.hops) = {found[i] : i \in 1..n} /\ 1..n \subseteq DOMAIN found
    BY <2>1, PrefixRange
  <2>5. ~TwoNames(Range(t.hops))
    BY <2>3, <2>4 DEF TwoNames
  <2>6. ASSUME NEW i \in 1..n, found[i] \in SameCluster(Src) PROVE \E u \in segs : SegReaches(u)
    <3>1. i \in DOMAIN found /\ found[i] # Zero /\ Cluster[found[i]] = Cluster[Src]
      BY <2>4, <2>6, PathAssumption DEF SameCluster
    <3>2. PICK u \in segs : u.hops = SubSeq(found, 1, i)
      BY <2>1, <3>1
    <3>3. PICK hops : hops = u.hops /\ Len(hops) = i /\ hops[i] = found[i]
      <4>1. i \in 0..Len(found) /\ i \in 1..i
        BY <2>1, <3>1
      <4>2. Len(SubSeq(found, 1, i)) = i /\ SubSeq(found, 1, i)[i] = found[i]
        BY <2>1, <4>1, PrefixIn
      <4> QED
        BY <3>2, <4>2
    <3>4. hops # <<>>
      BY <1>1, <3>3 DEF Seg
    <3> QED
      BY <3>1, <3>3, <3>4 DEF SegReaches, LastHop
  <2> QED
    BY <2>4, <2>5, <2>6 DEF PassesSource
<1>3. CASE \E adj \in Addr : t.hops = <<adj>>
  <2>1. PICK adj \in Addr : t.hops = <<adj>>
    BY <1>3
  <2>2. PICK hops : hops = t.hops /\ Len(hops) = 1 /\ hops[1] = adj /\ Range(hops) = {adj} /\ hops # <<>>
    <3>1. <<adj>> \in Seq(Addr) /\ Len(<<adj>>) = 1 /\ <<adj>>[1] = adj /\ <<adj>> # <<>>
      OBVIOUS
    <3>2. Range(<<adj>>) = {adj}
      BY DEF Range
    <3> QED
      BY <2>1, <3>1, <3>2
  <2>3. ~TwoNames(Range(t.hops))
    BY <2>2 DEF TwoNames
  <2>4. CASE adj \in SameCluster(Src)
    BY <2>2, <2>3, <2>4 DEF SegReaches, LastHop, SameCluster
  <2>5. CASE adj \notin SameCluster(Src)
    BY <2>2, <2>3, <2>5 DEF PassesSource
  <2> QED
    BY <2>4, <2>5
<1> QED
  BY <1>2, <1>3, ShownSegment

LEMMA InitialSegment ==
  \E p \in Seq(Seg) : p = NewReversePath /\ Len(p) = 1 /\ p[1].type = "dst" /\ p[1].hops = <<Dst>>
<1>1. NewReversePath \in Seq(Seg) /\ Len(NewReversePath) = 1
  BY NewReversePathIs DEF Path
<1>2. NewReversePath[1].type = "dst" /\ NewReversePath[1].hops = <<Dst>>
  BY DEF NewReversePath, Segment
<1> QED
  BY <1>1, <1>2

-----------------------------------------------------------------------------
(* Where a traceroute meets the path                                       *)

\* What a segment is while the run goes on: no traceroute, and no router under
\* two names but in an assumption.
Named == {s \in Seg : s.type # "tr" /\ (s.type # "sym" => ~TwoNames(Range(s.hops)))}

NamedInv == Running => paths \in Seq(Seq(Named))

LEMMA NewIsNamed ==
  ASSUME NEW s \in Seg, NewSegment(s), EngineInv, Running
  PROVE  s \in Named
<1>1. PICK segs \in SUBSET Seg : /\ IsFiniteSet(segs) /\ (Shown(segs) \/ Assumption(segs))
                                 /\ \E t \in segs : EndOf(s, t)
  BY DEF NewSegment, Addable
<1>2. PICK t \in segs : EndOf(s, t)
  BY <1>1
<1>3. CASE Assumption(segs)
  <2>1. t.type = "sym"
    BY <1>3, AssumptionIs DEF EngineInv
  <2> QED
    BY <1>2, <2>1 DEF EndOf, Named
<1>4. CASE Shown(segs)
  <2>1. t.type # "tr" /\ s.type = t.type /\ Range(s.hops) \subseteq Range(t.hops)
    BY <1>2, <1>4, ShownAre DEF EndOf
  <2>2. ~TwoNames(Range(t.hops))
    BY <1>4, ShownNamesOnce
  <2> QED
    BY <2>1, <2>2 DEF Named, TwoNames
<1> QED
  BY <1>1, <1>3, <1>4

LEMMA InitNames == Init => NamedInv
<1> SUFFICES ASSUME Init PROVE NamedInv
  OBVIOUS
<1>1. NewReversePath \in Seq(Named)
  <2>1. PICK p \in Seq(Seg) : p = NewReversePath /\ Len(p) = 1 /\ p[1].type = "dst" /\ p[1].hops = <<Dst>>
    BY InitialSegment
  <2>2. ~TwoNames(Range(p[1].hops))
    BY <2>1 DEF TwoNames, Range
  <2>3. \A i \in 1..Len(p) : p[i] \in Seg /\ i = 1
    BY <2>1
  <2>4. \A i \in 1..Len(p) : p[i] \in Named
    BY <2>1, <2>2, <2>3 DEF Named
  <2> QED
    BY <2>1, <2>4, SeqIn
<1>2. PICK p \in Seq(Named) : p = NewReversePath
  BY <1>1
<1>3. paths = <<p>>
  BY <1>2 DEF Init
<1> QED
  BY <1>3 DEF NamedInv

\* Whatever a step but the joining of a traceroute does.
LEMMA NamesStay ==
  ASSUME EngineInv, NamedInv, Running, [Next]_vars, ~JoinsAnswer
  PROVE  paths' \in Seq(Seq(Named))
<1>1. PICK base : /\ base = CurrPath /\ base \in Seq(Named) /\ base # <<>> /\ paths \in Seq(Seq(Named))
                  /\ Front(base) \in Seq(Named)
  <2>1. paths \in Seq(Seq(Named)) /\ paths # <<>> /\ CurrPath # <<>>
    BY StackIs DEF EngineInv, NamedInv
  <2>2. CurrPath \in Seq(Named)
    BY <2>1, LastOfSeq DEF CurrPath
  <2> QED
    BY <2>1, <2>2, FrontIs
<1>2. ASSUME NEW s \in Seg, NewSegment(s) PROVE Append(base, s) \in Seq(Named)
  <2>1. s \in Named
    BY <1>2, NewIsNamed
  <2> QED
    BY <1>1, <2>1, AppendIn
<1>3. ASSUME NEW s \in Seg, LongerAssumption(s) PROVE Append(Front(base), s) \in Seq(Named)
  <2>1. s \in Named
    BY <1>3 DEF LongerAssumption, Named
  <2> QED
    BY <1>1, <2>1, AppendIn
<1>4. PICK Good : Good = Seq(Named)
  OBVIOUS
<1>5. /\ paths \in Seq(Good)
      /\ \A s \in Seg : NewSegment(s) => Append(CurrPath, s) \in Good
      /\ \A s \in Seg : LongerAssumption(s) => Append(Front(CurrPath), s) \in Good
  BY <1>1, <1>2, <1>3, <1>4
<1>6. paths' \in Seq(Good)
  BY <1>5, PathsStayGood
<1> QED
  BY <1>4, <1>6

LEMMA NextNames == EngineInv /\ NamedInv /\ [Next]_vars => NamedInv'
<1> SUFFICES ASSUME EngineInv, NamedInv, [Next]_vars, Running' PROVE paths' \in Seq(Seq(Named))
  BY DEF NamedInv
<1>1. Running
  BY StoppedForGood DEF Running, vars
<1> QED
  BY <1>1, JoinStops, NamesStay

\* While a run goes on its paths have no traceroute yet, and what probes have
\* shown of them names no router twice.
THEOREM NamesAreGiven == Spec => []NamedInv
<1>1. EngineInv /\ NamedInv /\ [Next]_vars => NamedInv'
  BY NextNames
<1> QED
  BY <1>1, InitNames, EngineInvariance, PTL DEF Spec

\* A path that is cut where it meets h has a part of the hops it had.  It ends
\* at the router of h, unless it names that by another address and goes on.
LEMMA TrimPathKeeps ==
  ASSUME NEW p \in Path, NEW h \in Addr, HopSet(p) \cap SameCluster(h) # {}
  PROVE  LET cut  == TrimPath(p, h)
             j    == JoinSegment(p, h)
             hops == p[j].hops
         IN  /\ cut \in Path /\ Len(cut) \in 1..Len(p) /\ j \in 1..Len(p)
             /\ \A k \in 1..Len(cut) :
                  cut[k].type = p[k].type /\ Range(cut[k].hops) \subseteq Range(p[k].hops)
             /\ \/ PathLastHop(cut) \in SameCluster(h)
                \/ JoinHop(hops, h) < Len(hops) /\ hops[JoinHop(hops, h)] # h
             /\ TrimPathPanics(p, h) => TwoNames(Range(hops))
<1>1. PICK at : at = {j \in DOMAIN p : Range(p[j].hops) \cap SameCluster(h) # {}}
  OBVIOUS
<1>2. p \in Seq(Seg) /\ p # <<>>
  BY DEF Path
<1>3. at \in SUBSET Nat /\ at # {} /\ at \subseteq 1..Len(p)
  <2>1. PICK g \in SameCluster(h) : g \in HopSet(p)
    OBVIOUS
  <2>2. PICK j \in DOMAIN p : g \in Range(p[j].hops)
    BY <2>1 DEF HopSet
  <2> QED
    BY <1>1, <1>2, <2>1, <2>2
<1>4. PICK j \in 1..Len(p) : j = JoinSegment(p, h) /\ Range(p[j].hops) \cap SameCluster(h) # {}
  BY <1>1, <1>3, MinIs DEF JoinSegment
<1>5. PICK seg \in Seg : seg = p[j]
  BY <1>2, <1>4, ElementIn
<1>6. PICK hops \in Seq(Hop) : hops = seg.hops /\ hops # <<>> /\ hops[Len(hops)] # Zero
  BY DEF Seg, Segments, LastHop
<1>7. PICK here : here = {i \in DOMAIN hops : hops[i] \in SameCluster(h)}
  OBVIOUS
<1>8. here \in SUBSET Nat /\ here # {} /\ here \subseteq 1..Len(hops)
  BY <1>4, <1>5, <1>6, <1>7 DEF Range
<1>9. PICK n \in 1..Len(hops) : n = JoinHop(hops, h) /\ hops[n] \in SameCluster(h)
  BY <1>7, <1>8, MinIs DEF JoinHop
<1>10. PICK kept : /\ kept = TrimHops(hops, n, h) /\ kept \in Seq(Hop) /\ kept # <<>>
                   /\ kept[Len(kept)] # Zero /\ Range(kept) \subseteq Range(hops)
  <2>1. Cluster[h] # Cluster[Zero] /\ Range(hops) \cap SameCluster(h) # {}
    BY <1>4, <1>5, <1>6, PathAssumption
  <2> QED
    BY <1>6, <1>9, <2>1, TrimHopsIs
<1>11. PICK s : s = [seg EXCEPT !.hops = kept]
  OBVIOUS
<1>12. s \in Seg /\ s.type = seg.type /\ s.hops = kept
  BY <1>10, <1>11 DEF Seg, Segments, LastHop
<1>13. PICK front \in Seq(Seg) : /\ front = SubSeq(p, 1, j - 1) /\ Len(front) = j - 1
                                 /\ \A k \in 1..j - 1 : front[k] = p[k]
  <2>1. j - 1 \in 0..Len(p)
    BY <1>4
  <2> QED
    BY <1>2, <2>1, PrefixIn
<1>14. PICK cut : cut = TrimPath(p, h) /\ cut = Append(front, s)
  <2>1. TrimPath(p, h) = Append(SubSeq(p, 1, j - 1),
                                [p[j] EXCEPT !.hops = TrimHops(@, JoinHop(@, h), h)])
    BY <1>4, Zenon DEF TrimPath
  <2>2. [p[j] EXCEPT !.hops = TrimHops(@, JoinHop(@, h), h)] = s
    BY <1>5, <1>6, <1>9, <1>10, <1>11
  <2> QED
    BY <1>13, <2>1, <2>2, Zenon
<1>15. /\ cut \in Seq(Seg) /\ cut # <<>> /\ Len(cut) = j /\ cut[j] = s /\ Last(cut) = s
       /\ \A k \in 1..j - 1 : cut[k] = p[k]
  <2>1. /\ Append(front, s) \in Seq(Seg) /\ Len(Append(front, s)) = Len(front) + 1
        /\ Append(front, s) # <<>> /\ Append(front, s)[Len(front) + 1] = s /\ Last(Append(front, s)) = s
        /\ \A k \in 1..Len(front) : Append(front, s)[k] = front[k]
    BY ONLY front \in Seq(Seg), <1>12, AppendIn
  <2> QED
    BY <1>4, <1>13, <1>14, <2>1
<1>16. \A k \in 1..Len(cut) : cut[k].type = p[k].type /\ Range(cut[k].hops) \subseteq Range(p[k].hops)
  <2> SUFFICES ASSUME NEW k \in 1..j
               PROVE  cut[k].type = p[k].type /\ Range(cut[k].hops) \subseteq Range(p[k].hops)
    BY <1>15
  <2>1. CASE k = j
    BY <1>5, <1>6, <1>10, <1>12, <1>15, <2>1
  <2>2. CASE k # j
    <3>1. k \in 1..j - 1
      BY <1>4, <2>2
    <3> QED
      BY <1>15, <3>1
  <2> QED
    BY <2>1, <2>2
<1>17. PathLastHop(cut) = kept[Len(kept)]
  BY <1>12, <1>15 DEF PathLastHop, LastHop
<1>18. kept[Len(kept)] \in SameCluster(h) \/ (n < Len(hops) /\ hops[n] # h)
  <2>1. PICK first : first = SubSeq(hops, 1, n)
    OBVIOUS
  <2>2. n \in 0..Len(hops) /\ n \in 1..n /\ Len(hops) \in Nat
    BY <1>6, <1>9
  <2>3. first \in Seq(Hop) /\ Len(first) = n /\ first[n] = hops[n] /\ DOMAIN first = 1..n
    BY <2>1, <2>2, PrefixIn
  <2>4. CASE kept = first
    BY <1>9, <2>3, <2>4
  <2>5. CASE kept # first
    <3>1. Len(hops) # n /\ h \notin Range(first)
      BY <1>10, <2>1, <2>5 DEF TrimHops
    <3>2. hops[n] # h
      BY <2>2, <2>3, <3>1 DEF Range
    <3> QED
      BY <1>9, <2>2, <3>1, <3>2
  <2> QED
    BY <2>4, <2>5
<1>19. ASSUME TrimPathPanics(p, h) PROVE TwoNames(Range(hops))
  <2>1. h \in Range(hops) /\ h \notin Range(SubSeq(hops, 1, n))
    BY <1>4, <1>5, <1>6, <1>9, <1>19 DEF TrimPathPanics, TrimPanics
  <2>2. hops[n] \in Range(hops) /\ Cluster[hops[n]] = Cluster[h]
    BY <1>9 DEF Range, SameCluster
  <2>3. n \in DOMAIN hops /\ n \in 1..n
    BY <1>9
  <2>4. hops[n] \in Range(SubSeq(hops, 1, n))
    BY <2>3, PrefixRange
  <2> QED
    BY <2>1, <2>2, <2>4 DEF TwoNames
<1> QED
  BY <1>4, <1>5, <1>6, <1>9, <1>14, <1>15, <1>16, <1>17, <1>18, <1>19 DEF Path

\* What is put on top of a stack does not change which path of it meets h first.
LEMMA FirstJoinable ==
  ASSUME NEW stack \in Seq(Path), NEW new \in Seq(Path), Len(new) >= Len(stack),
         \A i \in 1..Len(stack) : new[i] = stack[i], NEW h, Joinable(stack, h) # {}
  PROVE  Min(Joinable(new, h)) = Min(Joinable(stack, h))
<1>1. /\ Joinable(stack, h) \in SUBSET Nat /\ Joinable(new, h) \in SUBSET Nat
      /\ Joinable(stack, h) \subseteq Joinable(new, h)
      /\ \A i \in Joinable(new, h) : i \in 1..Len(new) /\ (i \in 1..Len(stack) => i \in Joinable(stack, h))
  BY DEF Joinable
<1>2. PICK m \in 1..Len(stack) : m = Min(Joinable(stack, h)) /\ m \in Joinable(stack, h)
                                 /\ \A i \in Joinable(stack, h) : m <= i
  <2>1. Joinable(stack, h) \subseteq 1..Len(stack)
    BY DEF Joinable
  <2> QED
    BY <1>1, <2>1, MinIs
<1>3. PICK k \in 1..Len(new) : k = Min(Joinable(new, h)) /\ k \in Joinable(new, h)
                               /\ \A i \in Joinable(new, h) : k <= i
  BY <1>1, MinIs
<1>4. k <= m /\ k \in 1..Len(stack)
  <2>1. k <= m
    BY <1>1, <1>2, <1>3
  <2> QED
    BY <1>2, <1>3, <2>1
<1>5. m <= k
  BY <1>1, <1>2, <1>3, <1>4
<1> QED
  BY <1>2, <1>3, <1>4, <1>5

\* A path without traceroutes needs no meeting point.
LEMMA NamedMeets ==
  ASSUME NEW p \in Seq(Named), NEW j \in 1..Len(p)
  PROVE  p[j].type # "tr"
<1>1. p[j] \in Named
  BY ElementIn
<1> QED
  BY <1>1 DEF Named

LEMMA NamedJoins ==
  ASSUME paths \in Seq(Seq(Named))
  PROVE  JoinsAtIntersection
<1> SUFFICES ASSUME NEW p \in Range(paths), NEW j \in 2..Len(p), p[j].type = "tr" PROVE FALSE
  BY DEF JoinsAtIntersection
<1>1. p \in Seq(Named)
  BY DEF Range
<1>2. j \in 1..Len(p)
  BY <1>1
<1> QED
  BY <1>1, <1>2, NamedMeets

\* A traceroute is joined to a path that ends where the two meet, or to one
\* that knows that router by another address.
LEMMA JoinMeets ==
  ASSUME EngineInv, NamedInv, Running, JoinsAnswer
  PROVE  JoinsAtIntersection'
<1>1. TypeInv /\ StackInv /\ paths \in Seq(Seq(Named)) /\ paths \in Seq(Path)
  BY DEF EngineInv, NamedInv, TypeInv
<1>2. PICK trace \in Answers, addr \in Addr : addr \in Range(trace) /\ JoinTrace(trace, addr)
  BY AnswerIs DEF JoinsAnswer
<1>3. PICK suffix \in Seq(Hop) : /\ suffix # <<>> /\ suffix[1] \in SameCluster(addr)
                                 /\ suffix[1] = Meeting(trace, addr)
                                 /\ Segment("tr", suffix, addr) \in Seg
                                 /\ Joins(suffix, addr)
  BY <1>1, <1>2, JoinTraceCases
<1>4. PICK h \in Addr : h = suffix[1] /\ h = Meeting(trace, addr) /\ SameCluster(h) = SameCluster(addr)
  <2>1. suffix[1] # Zero /\ suffix[1] \in Hop /\ Cluster[suffix[1]] = Cluster[addr]
    BY <1>3, PathAssumption DEF SameCluster
  <2> QED
    BY <1>3, <2>1 DEF Hop, SameCluster
<1>5. CASE UNCHANGED paths
  <2>1. JoinsAtIntersection
    BY <1>1, NamedJoins
  <2> QED
    BY <1>5, <2>1 DEF JoinsAtIntersection, KnownByAlias
<1>6. CASE ~UNCHANGED paths
  <2>1. PICK s : s = Segment("tr", suffix, addr)
    OBVIOUS
  <2>2. PICK i \in 1..Len(paths) :
          /\ i = Min(Joinable(paths, h)) /\ HopSet(paths[i]) \cap SameCluster(h) # {}
          /\ \E r \in AddSegments(Append(paths, TrimPath(paths[i], h)), deadEnd, {s}) : paths' = r.paths
    BY <1>3, <1>4, <1>6, <2>1, Zenon DEF Joins
  <2>3. PICK p \in Path : p = paths[i] /\ p \in Seq(Named)
    BY <1>1, ElementIn
  <2>4. PICK found, met : found = TrimPath(p, h) /\ met = p[JoinSegment(p, h)].hops
    OBVIOUS
  <2>5. /\ found \in Path /\ Len(found) \in 1..Len(p)
        /\ \A k \in 1..Len(found) : found[k].type = p[k].type
        /\ PathLastHop(found) \in SameCluster(h) \/ (JoinHop(met, h) < Len(met) /\ met[JoinHop(met, h)] # h)
    BY <2>2, <2>3, <2>4, TrimPathKeeps
  <2>6. PICK stack \in Seq(Path), n \in Nat :
          /\ stack = Append(paths, found) /\ stack # <<>> /\ Last(stack) = found
          /\ n = Len(paths) /\ Len(stack) = n + 1 /\ stack[n + 1] = found
          /\ \A k \in 1..n : stack[k] = paths[k]
    <3>1. PICK base \in Seq(Path) : base = paths
      BY <1>1
    <3>2. /\ Append(base, found) \in Seq(Path) /\ Append(base, found) # <<>>
          /\ Len(Append(base, found)) = Len(base) + 1 /\ Last(Append(base, found)) = found
          /\ Append(base, found)[Len(base) + 1] = found
          /\ \A k \in 1..Len(base) : Append(base, found)[k] = base[k]
      BY ONLY <2>5, AppendIn, base \in Seq(Path)
    <3>3. Len(base) \in Nat
      OBVIOUS
    <3> QED
      BY <3>1, <3>2, <3>3
  <2>7. PICK r \in AddSegments(stack, deadEnd, {s}) : paths' = r.paths
    BY <2>2, <2>3, <2>4, <2>6
  <2>8. Extends(r, stack, {s})
    <3>1. {s} \in SUBSET Seg /\ IsFiniteSet({s})
      BY <1>3, <2>1, FS_Singleton
    <3> QED
      BY <2>6, <2>7, <3>1, AddSegmentsExtends
  <2>9. PICK new \in Seq(Path), m \in Nat : /\ new = paths' /\ m = Len(new) /\ m >= n + 1
                                            /\ \A k \in 1..n + 1 : new[k] = stack[k]
    <3>1. r.paths \in Seq(Path) /\ Len(r.paths) >= n + 1 /\ \A k \in 1..n + 1 : r.paths[k] = stack[k]
      BY <2>6, <2>8 DEF Extends
    <3>2. Len(r.paths) \in Nat
      BY <3>1
    <3> QED
      BY <2>7, <3>1, <3>2
  <2>10. Len(new) >= Len(paths) /\ (\A k \in 1..Len(paths) : new[k] = paths[k]) /\ new[n + 1] = found
    <3>1. n + 1 \in 1..n + 1 /\ \A k \in 1..n : k \in 1..n + 1
      OBVIOUS
    <3>2. m >= n
      BY <2>9
    <3> QED
      BY <2>6, <2>9, <3>1, <3>2
  <2>11. PathLastHop(found) \in SameCluster(h) \/ KnownByAlias(h)'
    <3>1. Min(Joinable(new, h)) = i /\ new[i] = p
      <4>1. i \in Joinable(paths, h)
        <5>1. i \in DOMAIN paths
          BY <1>1
        <5> QED
          BY <2>2, <5>1 DEF Joinable
      <4>2. Min(Joinable(new, h)) = Min(Joinable(paths, h))
        BY <1>1, <2>10, <4>1, FirstJoinable
      <4> QED
        BY <2>2, <2>3, <2>10, <4>2
    <3>2. SUFFICES ASSUME JoinHop(met, h) < Len(met), met[JoinHop(met, h)] # h PROVE KnownByAlias(h)'
      BY <2>5
    <3> QED
      BY <2>4, <2>9, <3>1, <3>2 DEF KnownByAlias
  <2>12. ASSUME NEW k \in 1..Len(new), NEW j \in 2..Len(new[k]), new[k][j].type = "tr"
         PROVE  \/ PathLastHop(SubSeq(new[k], 1, j - 1)) \in SameCluster(new[k][j].hop)
                \/ \E t \in Answers :
                     new[k][j].hop \in Range(t) /\ KnownByAlias(Meeting(t, new[k][j].hop))'
    <3>1. ~(k \in 1..Len(paths))
      <4> SUFFICES ASSUME k \in 1..Len(paths) PROVE FALSE
        OBVIOUS
      <4>1. new[k] = paths[k] /\ paths[k] \in Seq(Named)
        BY <1>1, <2>10, ElementIn
      <4>2. j \in 1..Len(new[k])
        BY <4>1
      <4> QED
        BY <2>12, <4>1, <4>2, NamedMeets
    <3>2. ASSUME NEW x \in 1..Len(found) PROVE found[x].type # "tr"
      <4>1. x \in 1..Len(p)
        BY <2>5
      <4> QED
        BY <2>3, <2>5, <4>1, NamedMeets
    <3>3. k # n + 1
      <4> SUFFICES ASSUME k = n + 1 PROVE FALSE
        OBVIOUS
      <4>1. new[k] = found
        BY <2>10
      <4>2. j \in 1..Len(found)
        BY <2>5, <4>1
      <4> QED
        BY <2>12, <3>2, <4>1, <4>2
    <3>4. k \in Len(stack) + 1..Len(new)
      <4>1. k \in 1..m /\ k \notin 1..n /\ k # n + 1
        BY <2>6, <2>9, <3>1, <3>3
      <4>2. k \in n + 1 + 1..m
        BY <4>1
      <4> QED
        BY <2>6, <2>9, <4>2
    <3>5. PICK last \in Seg : new[k] = Append(found, last) /\ EndOf(last, s)
      BY <2>6, <2>7, <2>8, <2>9, <3>4 DEF Extends
    <3>6. PICK q \in Seq(Seg), c \in Nat :
            /\ q = Append(found, last) /\ c = Len(found) /\ c >= 1
            /\ Len(q) = c + 1 /\ q[c + 1] = last /\ \A x \in 1..c : q[x] = found[x]
      <4>1. found \in Seq(Seg) /\ Len(found) \in Nat /\ Len(found) >= 1
        BY <2>5 DEF Path
      <4>2. /\ Append(found, last) \in Seq(Seg) /\ Len(Append(found, last)) = Len(found) + 1
            /\ Append(found, last)[Len(found) + 1] = last
            /\ \A x \in 1..Len(found) : Append(found, last)[x] = found[x]
        BY <4>1, AppendIn
      <4> QED
        BY <4>1, <4>2
    <3>7. SubSeq(q, 1, c) = found
      <4>1. found \in Seq(Seg) /\ Front(q) = found
        BY <3>6, <2>5, FrontOfAppend DEF Path
      <4>2. Len(q) - 1 = c
        BY <3>6
      <4> QED
        BY <4>1, <4>2 DEF Front
    <3>8. j = c + 1
      <4>1. j \in 1..c + 1
        BY <3>5, <3>6
      <4>2. j \notin 1..c
        BY <2>12, <3>2, <3>5, <3>6
      <4> QED
        BY <3>6, <4>1, <4>2
    <3>9. new[k][j] = last /\ SubSeq(new[k], 1, j - 1) = found /\ last.hop = addr
      <4>1. last.hop = addr
        BY <2>1, <3>5 DEF EndOf, Segment
      <4>2. j - 1 = c
        BY <3>6, <3>8
      <4> QED
        BY <3>5, <3>6, <3>7, <3>8, <4>1, <4>2
    <3> QED
      BY <1>2, <1>4, <2>11, <3>9
  <2>13. SUFFICES ASSUME NEW q \in Range(new), NEW j \in 2..Len(q), q[j].type = "tr"
                  PROVE  \/ PathLastHop(SubSeq(q, 1, j - 1)) \in SameCluster(q[j].hop)
                         \/ \E t \in Answers : q[j].hop \in Range(t) /\ KnownByAlias(Meeting(t, q[j].hop))'
    BY <2>9 DEF JoinsAtIntersection, Answers
  <2>14. PICK k \in 1..Len(new) : q = new[k]
    BY DEF Range
  <2> QED
    BY <2>12, <2>13, <2>14
<1> QED
  BY <1>5, <1>6

LEMMA NextJoins ==
  EngineInv /\ NamedInv /\ JoinsAtIntersection /\ [Next]_vars => JoinsAtIntersection'
<1> SUFFICES ASSUME EngineInv, NamedInv, JoinsAtIntersection, [Next]_vars PROVE JoinsAtIntersection'
  OBVIOUS
<1>1. CASE ~Running
  <2>1. UNCHANGED paths
    BY <1>1, StoppedForGood DEF vars
  <2> QED
    BY <2>1 DEF JoinsAtIntersection, KnownByAlias
<1>2. CASE Running /\ JoinsAnswer
  BY <1>2, JoinMeets
<1>3. CASE Running /\ ~JoinsAnswer
  <2>1. paths' \in Seq(Seq(Named))
    BY <1>3, NamesStay
  <2>2. ASSUME NEW p \in Range(paths'), NEW j \in 2..Len(p), p[j].type = "tr" PROVE FALSE
    <3>1. p \in Seq(Named)
      BY <2>1 DEF Range
    <3>2. j \in 1..Len(p)
      BY <3>1
    <3> QED
      BY <2>2, <3>1, <3>2, NamedMeets
  <2> QED
    BY <2>2, Zenon DEF JoinsAtIntersection
<1> QED
  BY <1>1, <1>2, <1>3

\* A traceroute of the atlas continues a path at the router where the two meet,
\* whichever candidate of the stack that is and even if the atlas mistook the
\* path for another: AddBackgroundTRSegment cuts off what the path had after
\* it.  The one exception is a path that names that router by another address
\* and goes on in the same segment; where it is cut then is not where they meet.
THEOREM TraceroutesJoinPaths == Spec => []JoinsAtIntersection
<1>1. Init => JoinsAtIntersection
  <2> SUFFICES ASSUME Init PROVE JoinsAtIntersection
    OBVIOUS
  <2>1. paths \in Seq(Seq(Named))
    BY InitNames DEF NamedInv, Init, Running, Stopped, Panics
  <2> QED
    BY <2>1, NamedJoins
<1>2. EngineInv /\ NamedInv /\ JoinsAtIntersection /\ [Next]_vars => JoinsAtIntersection'
  BY NextJoins
<1> QED
  BY <1>1, <1>2, NamesAreGiven, EngineInvariance, PTL DEF Spec

-----------------------------------------------------------------------------
(* What AddSegments adds when one of its segments reaches                   *)

\* The increasing enumerations of a set enumerate it.
LEMMA IncreasingIsOnto ==
  ASSUME NEW n \in Nat, NEW S \in SUBSET (1..n), NEW f \in Increasing(S)
  PROVE  /\ \A i \in S : \E k \in DOMAIN f : f[k] = i
         /\ S # {} => /\ f # <<>> /\ Len(f) \in DOMAIN f /\ f[Len(f)] \in S
                      /\ \A i \in S : i <= f[Len(f)]
<1>1. PICK c \in Nat : c = Cardinality(S) /\ IsFiniteSet(S)
  BY SubintervalFinite
<1>2. f \in [1..c -> S] /\ \A i, j \in 1..c : i < j => f[i] < f[j]
  BY <1>1 DEF Increasing
<1>3. f \in Injection(1..c, S)
  <2> SUFFICES ASSUME NEW i \in 1..c, NEW j \in 1..c, f[i] = f[j] PROVE i = j
    BY <1>2 DEF Injection, IsInjective
  <2>1. f[i] \in 1..n /\ f[j] \in 1..n
    BY <1>2
  <2>2. ~(i < j) /\ ~(j < i)
    <3>1. ~(f[i] < f[j]) /\ ~(f[j] < f[i])
      BY <2>1
    <3> QED
      BY <1>2, <3>1
  <2> QED
    BY <2>2
<1>4. Cardinality(1..c) = c
  BY <1>1, FS_Interval
<1>5. f \in Surjection(1..c, S)
  BY <1>1, <1>3, <1>4, FS_Injection
<1>6. \A i \in S : \E k \in 1..c : f[k] = i
  BY <1>5 DEF Surjection
<1>7. ASSUME S # {} PROVE /\ f # <<>> /\ Len(f) = c /\ c \in 1..c /\ f[c] \in S
                          /\ \A i \in S : i <= f[c]
  <2>1. PICK x \in S : TRUE
    BY <1>7
  <2>2. c \in 1..c
    BY <1>6, <2>1
  <2>3. Len(f) = c /\ f # <<>>
    <3>1. f \in Seq(S)
      BY <1>2
    <3>2. Len(f) = c
      BY <1>2, <3>1
    <3> QED
      BY <2>2, <3>2
  <2>4. ASSUME NEW i \in S PROVE i <= f[c]
    <3>1. PICK k \in 1..c : f[k] = i
      BY <1>6
    <3>2. k = c \/ f[k] < f[c]
      BY <1>2, <2>2
    <3>3. i \in 1..n /\ f[c] \in 1..n
      BY <1>2, <2>2
    <3>4. i = f[c] \/ i < f[c]
      BY <3>1, <3>2
    <3> QED
      BY <3>3, <3>4
  <2> QED
    BY <1>2, <2>2, <2>3, <2>4
<1> QED
  BY <1>2, <1>6, <1>7

\* AddSegments tries every segment, and those that reach come last.
LEMMA SortedIs ==
  ASSUME NEW segs \in SUBSET Seg, IsFiniteSet(segs), NEW q \in Sorted(segs)
  PROVE  \E c \in Nat : /\ q \in [1..c -> segs] /\ DOMAIN q = 1..c
                        /\ \A t \in segs : \E i \in 1..c : q[i] = t
                        /\ \A i, j \in 1..c : i <= j /\ SegReaches(q[i]) => SegReaches(q[j])
<1>1. PICK c \in Nat : c = Cardinality(segs)
  BY FS_CardinalityType
<1>2. /\ q \in [1..c -> segs] /\ \A i, j \in 1..c : i # j => q[i] # q[j]
      /\ \A i \in 1..c - 1 : ~Before(q[i + 1], q[i])
  <2>1. q \in SetToSeqs(segs) /\ \A i \in 1..Len(q) - 1 : ~Before(q[i + 1], q[i])
    BY DEF Sorted
  <2>2. q \in [1..c -> segs] /\ \A i, j \in 1..c : i # j => q[i] # q[j]
    BY <1>1, <2>1 DEF SetToSeqs
  <2>3. Len(q) = c
    <3>1. q \in Seq(segs)
      BY <2>2
    <3> QED
      BY <2>2, <3>1
  <2> QED
    BY <2>1, <2>2, <2>3
<1>3. q \in Surjection(1..c, segs)
  <2>1. q \in Injection(1..c, segs)
    BY <1>2 DEF Injection, IsInjective
  <2>2. Cardinality(1..c) = c
    BY <1>1, FS_Interval
  <2> QED
    BY <1>1, <2>1, <2>2, FS_Injection
<1>4. \A t \in segs : \E i \in 1..c : q[i] = t
  BY <1>3 DEF Surjection
<1>5. ASSUME NEW i \in 1..c - 1, SegReaches(q[i]) PROVE SegReaches(q[i + 1])
  <2>1. i + 1 \in 1..c /\ i \in 1..c
    BY <1>1
  <2>2. q[i] \in Seg /\ q[i + 1] \in Seg
    BY <1>2, <2>1
  <2>3. SegReaches(q[i + 1]) \/ ~(LastHop(q[i + 1]) = LastHop(q[i]))
    BY <1>5, <2>2 DEF SegReaches, Seg
  <2>4. ~Before(q[i + 1], q[i])
    BY <1>2
  <2> QED
    BY <1>5, <2>3, <2>4 DEF Before
<1>6. ASSUME NEW i \in 1..c, SegReaches(q[i]), NEW j \in 1..c, i <= j PROVE SegReaches(q[j])
  <2> DEFINE Bad == {k \in 1..c : i <= k /\ ~SegReaches(q[k])}
  <2> SUFFICES ASSUME Bad # {} PROVE FALSE
    BY <1>6
  <2>1. PICK m \in Bad : \A k \in Bad : m <= k
    <3>1. Bad \in SUBSET Nat
      OBVIOUS
    <3> HIDE DEF Bad
    <3> QED
      BY <3>1, Least
  <2>2. m \in 1..c /\ i <= m /\ ~SegReaches(q[m]) /\ m # i
    BY <1>6, <2>1
  <2>3. m - 1 \in 1..c - 1 /\ m - 1 \in 1..c /\ i <= m - 1 /\ ~(m <= m - 1) /\ m - 1 + 1 = m
    BY <2>2
  <2>4. SegReaches(q[m - 1])
    <3>1. m - 1 \notin Bad
      <4> HIDE DEF Bad
      <4> QED
        BY <2>1, <2>3
    <3> QED
      BY <2>3, <3>1
  <2> QED
    BY <1>5, <2>2, <2>3, <2>4
<1> QED
  BY <1>2, <1>4, <1>6

\* No loop remains where the path has no unknown hop.
LEMMA KnownHopsDoNotLoop ==
  ASSUME NEW hops \in Seq(Hop), NEW seen, Zero \notin seen
  PROVE  ~StillLoops(hops, seen)
<1>1. PICK common : common = (Range(hops) \cap seen) \ {Zero}
  OBVIOUS
<1>2. PICK revisit : revisit = {i \in DOMAIN hops : \E h \in common : Cluster[h] = Cluster[hops[i]]}
  OBVIOUS
<1>3. CutLoops(hops, seen) = IF revisit = {} THEN hops ELSE SubSeq(hops, Max(revisit) + 1, Len(hops))
  BY <1>1, <1>2 DEF CutLoops
<1>4. ASSUME NEW i \in DOMAIN hops, hops[i] \in seen PROVE i \in revisit
  <2>1. hops[i] \in Range(hops)
    BY DEF Range
  <2>2. hops[i] \in common
    BY <1>1, <1>4, <2>1
  <2> QED
    BY <1>2, <2>2
<1>5. CASE revisit = {}
  BY <1>3, <1>4, <1>5 DEF StillLoops, Range
<1>6. CASE revisit # {}
  <2>1. revisit \in SUBSET (0..Len(hops)) /\ revisit \subseteq 1..Len(hops) /\ Len(hops) \in Nat
    BY <1>2
  <2>2. PICK m \in revisit : m = Max(revisit) /\ \A x \in revisit : x <= m
    BY <1>6, <2>1, MaxIs
  <2>3. PICK cut : cut = SubSeq(hops, m + 1, Len(hops)) /\ cut = CutLoops(hops, seen)
    BY <1>3, <1>6, <2>2
  <2>4. cut \in Seq(Hop) /\ \A i \in DOMAIN cut : m + i \in DOMAIN hops /\ m + i > m /\ cut[i] = hops[m + i]
    BY <2>1, <2>2, <2>3
  <2>5. ASSUME NEW i \in DOMAIN cut PROVE cut[i] \notin seen
    <3>1. m + i \notin revisit
      <4>1. m \in Nat /\ i \in Nat /\ m + i > m
        BY <2>1, <2>4
      <4>2. ~(m + i <= m)
        BY <4>1
      <4> QED
        BY <2>2, <4>2
    <3> QED
      BY <1>4, <2>4, <3>1
  <2> QED
    BY <2>3, <2>5 DEF StillLoops, Range
<1> QED
  BY <1>5, <1>6

LEMMA LastOfConcat ==
  ASSUME NEW S, NEW a \in Seq(S), NEW n \in Nat, n >= 1, NEW b \in [1..n -> S]
  PROVE  Last(a \o b) = b[n]
<1>1. b \in Seq(S) /\ Len(b) = n
  OBVIOUS
<1>2. Len(a \o b) = Len(a) + n /\ (a \o b)[Len(a) + n] = b[n]
  BY <1>1
<1> QED
  BY <1>2 DEF Last

\* When the path has no unknown hop and a segment that is not a dead end reaches
\* with something new to show, the path on top of the stack reaches.
LEMMA ReachingIsAdded ==
  ASSUME NEW stack \in Seq(Path), stack # <<>>, NEW dead,
         NEW segs \in SUBSET Seg, IsFiniteSet(segs), Zero \notin HopSet(Last(stack)),
         NEW r \in AddSegments(stack, dead, segs),
         NEW t \in segs, SegReaches(t), LastHop(t) \notin dead,
         CutLoops(t.hops, HopSet(Last(stack))) # <<>>
  PROVE  r.added /\ PathReaches(Last(r.paths))
<1>1. PICK q \in Sorted(segs) : r \in AddSegmentsInOrder(stack, dead, q)
  BY DEF AddSegments
<1>2. PICK c \in Nat : /\ q \in [1..c -> segs] /\ DOMAIN q = 1..c
                       /\ \A s \in segs : \E i \in 1..c : q[i] = s
                       /\ \A i, j \in 1..c : i <= j /\ SegReaches(q[i]) => SegReaches(q[j])
  BY <1>1, SortedIs
<1>3. PICK base, seen : base = Last(stack) /\ seen = HopSet(base)
  OBVIOUS
<1>4. base \in Path /\ base \in Seq(Seg)
  BY <1>3 DEF Path, Last
<1>5. PICK live : live = {i \in DOMAIN q : LastHop(q[i]) \notin dead}
  OBVIOUS
<1>6. PICK failing : failing = {i \in live : StillLoops(q[i].hops, seen)}
  OBVIOUS
<1>7. PICK kept : kept = {i \in live : /\ \A j \in failing : i < j
                                       /\ CutLoops(q[i].hops, seen) # <<>>}
  OBVIOUS
<1>8. PICK f \in Increasing(kept) :
        r = [paths |-> stack \o [k \in DOMAIN f |->
                         Append(base, [q[f[k]] EXCEPT !.hops = CutLoops(@, seen)])],
             added |-> failing = {} /\ kept # {}]
  BY <1>1, <1>3, <1>5, <1>6, <1>7, Zenon DEF AddSegmentsInOrder
<1>9. ASSUME NEW i \in 1..c PROVE q[i] \in Seg /\ q[i].hops \in Seq(Hop)
  <2>1. q[i] \in segs
    BY <1>2
  <2> QED
    BY <2>1 DEF Seg, Segments
<1>10. failing = {}
  BY <1>2, <1>3, <1>5, <1>6, <1>9, KnownHopsDoNotLoop
<1>11. PICK i \in 1..c : q[i] = t
  BY <1>2
<1>12. i \in kept /\ kept \in SUBSET (1..c)
  BY <1>2, <1>3, <1>5, <1>7, <1>10, <1>11
<1>13. f # <<>> /\ Len(f) \in DOMAIN f /\ f[Len(f)] \in kept /\ i <= f[Len(f)]
  BY <1>12, IncreasingIsOnto
<1>14. PICK n \in Nat : n = Len(f) /\ DOMAIN f = 1..n /\ n >= 1
  <2>1. Cardinality(kept) \in Nat /\ f \in [1..Cardinality(kept) -> kept]
    BY <1>12, SubintervalFinite DEF Increasing
  <2>2. f \in Seq(kept)
    BY <2>1
  <2> QED
    BY <1>13, <2>2
<1>15. PICK last \in 1..c : last = f[n] /\ SegReaches(q[last])
  BY <1>2, <1>11, <1>12, <1>13, <1>14
<1>16. PICK s : s = [q[last] EXCEPT !.hops = CutLoops(@, seen)]
  OBVIOUS
<1>17. SegReaches(s)
  <2>1. PICK t2 \in Seg : t2 = q[last] /\ t2.hops \in Seq(Hop)
    BY <1>9
  <2>2. PICK cut : cut = CutLoops(t2.hops, seen)
    OBVIOUS
  <2>3. cut # <<>>
    BY <1>7, <1>13, <1>14, <1>15, <2>1, <2>2
  <2>4. cut \in Seq(Hop) /\ cut[Len(cut)] = t2.hops[Len(t2.hops)]
    BY <2>1, <2>2, <2>3, CutLoopsIs
  <2>5. s.hops = cut
    BY <1>16, <2>1, <2>2 DEF Seg, Segments
  <2> QED
    BY <1>15, <2>1, <2>3, <2>4, <2>5 DEF SegReaches, LastHop
<1>18. Last(r.paths) = Append(base, s)
  <2>1. PICK new : new = [k \in 1..n |-> Append(base, [q[f[k]] EXCEPT !.hops = CutLoops(@, seen)])]
    OBVIOUS
  <2>2. r.paths = stack \o new
    BY <1>8, <1>14, <2>1
  <2>3. new[n] = Append(base, s)
    BY <1>14, <1>15, <1>16, <2>1
  <2>4. Last(stack \o new) = new[n]
    <3>1. PICK S : S = Path \cup {new[k] : k \in 1..n}
      OBVIOUS
    <3>2. stack \in Seq(S) /\ new \in [1..n -> S]
      <4>1. Path \subseteq S /\ \A k \in 1..n : new[k] \in S
        BY <3>1
      <4>2. new \in [1..n -> S]
        <5>1. DOMAIN new = 1..n /\ new = [k \in 1..n |-> new[k]]
          BY <2>1
        <5> QED
          BY <4>1, <5>1
      <4>3. stack \in Seq(S)
        <5>1. stack \in Seq(Path)
          OBVIOUS
        <5> QED
          BY ONLY <4>1, <5>1
      <4> QED
        BY <4>2, <4>3
    <3> QED
      BY ONLY <1>14, <3>2, n \in Nat, LastOfConcat
  <2> QED
    BY <2>2, <2>3, <2>4
<1>19. Last(Append(base, s)) = s
  BY <1>4 DEF Last
<1> QED
  BY <1>8, <1>10, <1>12, <1>17, <1>18, <1>19 DEF PathReaches

-----------------------------------------------------------------------------
(* Which candidates may reach                                              *)

\* What ArrivalIsSeen says of one path.
Seen == {p \in Path : PathReaches(p) => Zero \in HopSet(Front(p))}

\* A new segment that does not end the run arrives only after an unknown hop.
LEMMA NewDoesNotArrive ==
  ASSUME EngineInv, Running, Running', NEW s \in Seg, NewSegment(s), SegReaches(s)
  PROVE  Zero \in HopSet(CurrPath)
<1> SUFFICES ASSUME Zero \notin HopSet(CurrPath) PROVE FALSE
  OBVIOUS
<1>1. PICK segs \in SUBSET Seg :
        /\ IsFiniteSet(segs)
        /\ \E t \in Addable(paths, deadEnd, segs) : EndOf(s, t)
        /\ \E r \in AddSegments(paths, deadEnd, segs) : ~(r.added /\ PathReaches(Last(r.paths)))
  BY DEF NewSegment
<1>2. PICK t \in segs : /\ LastHop(t) \notin deadEnd /\ EndOf(s, t)
                        /\ CutLoops(t.hops, HopSet(Last(paths))) # <<>>
  BY <1>1 DEF Addable
<1>3. PICK r \in AddSegments(paths, deadEnd, segs) : ~(r.added /\ PathReaches(Last(r.paths)))
  BY <1>1
<1>4. paths \in Seq(Path) /\ paths # <<>> /\ Zero \notin HopSet(Last(paths))
  BY StackIs DEF EngineInv, CurrPath
<1>5. SegReaches(t)
  BY <1>2 DEF SegReaches, EndOf, Seg
<1> QED
  BY <1>1, <1>2, <1>3, <1>4, <1>5, ReachingIsAdded

LEMMA NextSees == EngineInv /\ ArrivalIsSeen /\ [Next]_vars => ArrivalIsSeen'
<1> SUFFICES ASSUME EngineInv, ArrivalIsSeen, [Next]_vars, Running' PROVE ArrivalIsSeen'
  BY DEF ArrivalIsSeen
<1>1. Running
  BY StoppedForGood DEF Running, vars
<1>2. PICK base : /\ base = CurrPath /\ base \in Seq(Seg) /\ base # <<>> /\ paths \in Seq(Path)
                  /\ Front(base) \in Seq(Seg)
  <2>1. CurrPath \in Seq(Seg) /\ CurrPath # <<>> /\ paths \in Seq(Path)
    BY <1>1, StackIs DEF EngineInv
  <2> QED
    BY <2>1, FrontIs
<1>3. paths \in Seq(Seen)
  <2>1. \A i \in 1..Len(paths) : paths[i] \in Path /\ paths[i] \in Range(paths)
    BY <1>2 DEF Range
  <2>2. \A i \in 1..Len(paths) : paths[i] \in Seen
    BY <1>1, <2>1 DEF Seen, ArrivalIsSeen
  <2> QED
    BY <1>2, <2>2, SeqIn
<1>4. ASSUME NEW front \in Seq(Seg), NEW s \in Seg, SegReaches(s) => Zero \in HopSet(front)
      PROVE  Append(front, s) \in Seen
  <2>1. PICK p \in Seq(Seg) : p = Append(front, s) /\ p # <<>> /\ Last(p) = s /\ Front(p) = front
    <3>1. Append(front, s) \in Seq(Seg) /\ Append(front, s) # <<>> /\ Last(Append(front, s)) = s
      BY AppendIn
    <3>2. Front(Append(front, s)) = front
      BY FrontOfAppend
    <3> QED
      BY <3>1, <3>2
  <2> QED
    BY <1>4, <2>1 DEF Seen, Path, PathReaches
<1>5. ASSUME NEW s \in Seg, NewSegment(s) PROVE Append(CurrPath, s) \in Seen
  BY <1>1, <1>2, <1>4, <1>5, NewDoesNotArrive
<1>6. ASSUME NEW s \in Seg, LongerAssumption(s) PROVE Append(Front(CurrPath), s) \in Seen
  BY <1>2, <1>4, <1>6 DEF LongerAssumption
<1>7. paths' \in Seq(Seen)
  <2>1. PICK Good : Good = Seen
    OBVIOUS
  <2>2. ~JoinsAnswer
    BY <1>1, JoinStops
  <2>3. paths' \in Seq(Good)
    BY <1>1, <1>3, <1>5, <1>6, <2>1, <2>2, PathsStayGood
  <2> QED
    BY <2>1, <2>3
<1>8. \A p \in Range(paths') : PathReaches(p) => Zero \in HopSet(Front(p))
  <2>1. \A p \in Range(paths') : p \in Seen
    BY <1>7 DEF Range
  <2> QED
    BY <2>1 DEF Seen
<1> QED
  BY <1>8 DEF ArrivalIsSeen

\* While a run goes on, no candidate that has arrived at the source is left on
\* the stack, whatever the order of probes and assumptions, but for one that
\* AddSegments made of a path with an unknown hop: it may then give up at the
\* next segment.  So "any path reaches if and only if the last one reaches",
\* on which Reaches relies, is true as long as all hops are known.
THEOREM ArrivalsAreSeen == Spec => []ArrivalIsSeen
<1>1. Init => ArrivalIsSeen
  <2> SUFFICES ASSUME Init PROVE ArrivalIsSeen
    OBVIOUS
  <2>1. PICK p \in Path : p = NewReversePath /\ ~PathReaches(p)
    BY NewReversePathIs
  <2>2. paths = <<p>>
    BY <2>1 DEF Init
  <2>3. Range(<<p>>) = {p}
    BY DEF Range
  <2> QED
    BY <2>1, <2>2, <2>3 DEF ArrivalIsSeen
<1>2. EngineInv /\ ArrivalIsSeen /\ [Next]_vars => ArrivalIsSeen'
  BY NextSees
<1> QED
  BY <1>1, <1>2, EngineInvariance, PTL DEF Spec

-----------------------------------------------------------------------------
(* The panics of the engine                                                *)

\* A segment that excuses a path which has been at the source.
Hides(s) == Zero \in Range(s.hops) \/ (s.type = "sym" /\ PassesSource(s))

\* Up to wherever it passes the source, the path has such a segment.
Excused(p) == \A j \in 1..Len(p) : PassesSource(p[j]) => \E i \in 1..j : Hides(p[i])

PassInv == Running => SourceGivenUp \/ \A i \in DOMAIN paths : Excused(paths[i])

LEMMA AppendExcused ==
  ASSUME NEW p \in Seq(Seg), Excused(p), NEW s \in Seg,
         PassesSource(s) => Hides(s) \/ \E i \in 1..Len(p) : Hides(p[i])
  PROVE  Excused(Append(p, s))
<1>1. PICK t : t = Append(p, s)
  OBVIOUS
<1>2. PICK n \in Nat : n = Len(p) /\ Len(t) = n + 1 /\ t[n + 1] = s /\ \A i \in 1..n : t[i] = p[i]
  BY <1>1
<1>3. ASSUME NEW j \in 1..n + 1, PassesSource(t[j]) PROVE \E i \in 1..j : Hides(t[i])
  <2>1. CASE j = n + 1
    <3>1. CASE Hides(s)
      BY <1>2, <2>1, <3>1
    <3>2. CASE \E i \in 1..n : Hides(p[i])
      <4>1. PICK i \in 1..n : Hides(p[i])
        BY <3>2
      <4>2. i \in 1..j /\ t[i] = p[i]
        BY <1>2, <2>1
      <4> QED
        BY <4>1, <4>2
    <3> QED
      BY <1>2, <1>3, <2>1, <3>1, <3>2
  <2>2. CASE j # n + 1
    <3>1. j \in 1..n /\ t[j] = p[j]
      BY <1>2, <2>2
    <3>2. PICK i \in 1..j : Hides(p[i])
      BY <1>2, <1>3, <3>1 DEF Excused
    <3>3. t[i] = p[i]
      BY <1>2, <3>1
    <3> QED
      BY <3>2, <3>3
  <2> QED
    BY <2>1, <2>2
<1> QED
  BY <1>1, <1>2, <1>3 DEF Excused

\* A path without an excuse has not been at the source, and all its hops are known.
LEMMA NothingHidden ==
  ASSUME NEW p \in Path, Excused(p), \A i \in 1..Len(p) : ~Hides(p[i])
  PROVE  HopSet(p) \cap SameCluster(Src) = {} /\ Zero \notin HopSet(p)
<1>1. DOMAIN p = 1..Len(p) /\ \A j \in 1..Len(p) : 1..j \subseteq 1..Len(p)
  BY DEF Path
<1>2. \A j \in 1..Len(p) : Zero \notin Range(p[j].hops) /\ Range(p[j].hops) \cap SameCluster(Src) = {}
  BY <1>1 DEF Excused, Hides, PassesSource
<1> QED
  BY <1>1, <1>2 DEF HopSet

\* What CutLoops cuts off does not include an end that is new to the path.
LEMMA NewEndStays ==
  ASSUME NEW hops \in Seq(Hop), hops # <<>>, NEW seen,
         \A h \in seen : Cluster[h] # Cluster[hops[Len(hops)]]
  PROVE  CutLoops(hops, seen) # <<>>
<1>1. PICK common : common = (Range(hops) \cap seen) \ {Zero}
  OBVIOUS
<1>2. PICK revisit : revisit = {i \in DOMAIN hops : \E h \in common : Cluster[h] = Cluster[hops[i]]}
  OBVIOUS
<1>3. CutLoops(hops, seen) = IF revisit = {} THEN hops ELSE SubSeq(hops, Max(revisit) + 1, Len(hops))
  BY <1>1, <1>2 DEF CutLoops
<1>4. Len(hops) \notin revisit
  BY <1>1, <1>2
<1>5. CASE revisit # {}
  <2>1. revisit \in SUBSET (0..Len(hops)) /\ revisit \subseteq 1..Len(hops) /\ Len(hops) \in Nat
    BY <1>2
  <2>2. PICK m \in revisit : m = Max(revisit)
    BY <1>5, <2>1, MaxIs
  <2>3. m \in 1..Len(hops) /\ m # Len(hops)
    BY <1>4, <2>1, <2>2
  <2>4. m + 1 \in 1..Len(hops) /\ Len(hops) - m \in Nat \ {0}
    BY <2>1, <2>3
  <2>5. PICK cut : cut = SubSeq(hops, m + 1, Len(hops))
    OBVIOUS
  <2>6. Len(cut) # 0
    BY <2>4, <2>5
  <2>7. cut # <<>>
    BY ONLY <2>6
  <2>8. CutLoops(hops, seen) = cut
    BY <1>3, <1>5, <2>2, <2>5
  <2> QED
    BY <2>7, <2>8
<1> QED
  BY <1>3, <1>5

\* What makes AddSegments add a segment that reaches.
LEMMA ReachingCanBeAdded ==
  ASSUME NEW stack \in Seq(Path), stack # <<>>, Zero \notin HopSet(Last(stack)),
         HopSet(Last(stack)) \cap SameCluster(Src) = {},
         NEW dead, NEW segs \in SUBSET Seg, IsFiniteSet(segs),
         NEW r \in AddSegments(stack, dead, segs),
         NEW t \in segs, SegReaches(t), LastHop(t) \notin dead
  PROVE  r.added /\ PathReaches(Last(r.paths))
<1>1. t.hops \in Seq(Hop) /\ t.hops # <<>> /\ LastHop(t) \in SameCluster(Src)
  <2>1. t.hops \in Seq(Hop) /\ t.hops # <<>>
    BY DEF Seg, Segments
  <2>2. LastHop(t) \in Hop
    BY <2>1 DEF LastHop
  <2> QED
    BY <2>1, <2>2 DEF SegReaches, SameCluster
<1>2. PICK seen : seen = HopSet(Last(stack)) /\ seen \cap SameCluster(Src) = {} /\ seen \subseteq Hop
  <2>1. Last(stack) \in Path
    BY LastOfSeq
  <2> QED
    BY <2>1, HopSetIs
<1>3. \A h \in seen : Cluster[h] # Cluster[LastHop(t)]
  BY <1>1, <1>2 DEF SameCluster
<1>4. CutLoops(t.hops, seen) # <<>>
  BY <1>1, <1>3, NewEndStays DEF LastHop
<1> QED
  BY <1>2, <1>4, ReachingIsAdded

LEMMA NewIsExcused ==
  ASSUME EngineInv, Running, Running', ~SourceGivenUp, Excused(CurrPath), NEW s \in Seg, NewSegment(s)
  PROVE  Excused(Append(CurrPath, s))
<1>1. PICK base \in Path : base = CurrPath /\ base \in Seq(Seg) /\ base = Last(paths)
  BY StackIs DEF EngineInv, CurrPath
<1>2. PICK segs \in SUBSET Seg :
        /\ IsFiniteSet(segs) /\ (Shown(segs) \/ Assumption(segs))
        /\ \E t \in segs : EndOf(s, t)
        /\ \E r \in AddSegments(paths, deadEnd, segs) : ~(r.added /\ PathReaches(Last(r.paths)))
  BY DEF NewSegment, Addable
<1>3. PICK t \in segs : EndOf(s, t)
  BY <1>2
<1>4. PICK r \in AddSegments(paths, deadEnd, segs) : ~(r.added /\ PathReaches(Last(r.paths)))
  BY <1>2
<1>5. ASSUME PassesSource(s), ~Hides(s), \A i \in 1..Len(base) : ~Hides(base[i]) PROVE FALSE
  <2>1. Zero \notin HopSet(base) /\ HopSet(base) \cap SameCluster(Src) = {}
    BY <1>1, <1>5, NothingHidden
  <2>2. PassesSource(t)
    BY <1>3, <1>5 DEF PassesSource, EndOf
  <2>3. CASE Assumption(segs)
    <3>1. s.type = "sym"
      BY <1>3, <2>3, AssumptionIs DEF EngineInv, EndOf
    <3> QED
      BY <1>5, <3>1 DEF Hides
  <2>4. CASE Shown(segs)
    <3>1. PICK u \in segs : SegReaches(u)
      BY <2>2, <2>4, ShownNamesOnce
    <3>2. LastHop(u) \notin deadEnd
      <4>1. u.hops \in Seq(Hop) /\ u.hops # <<>>
        BY DEF Seg, Segments
      <4>2. LastHop(u) \in Hop
        BY <4>1 DEF LastHop
      <4> QED
        BY <3>1, <4>2 DEF SegReaches, SourceGivenUp, SameCluster
    <3>3. paths \in Seq(Path) /\ paths # <<>>
      BY StackIs DEF EngineInv
    <3> QED
      BY <1>1, <1>2, <1>4, <2>1, <3>1, <3>2, <3>3, ReachingCanBeAdded
  <2> QED
    BY <1>2, <2>3, <2>4
<1> QED
  BY <1>1, <1>5, AppendExcused

LEMMA InitIsExcused == Init => PassInv
<1> SUFFICES ASSUME Init PROVE \A i \in DOMAIN paths : Excused(paths[i])
  BY DEF PassInv
<1>1. PICK p \in Seq(Seg) : p = NewReversePath /\ Len(p) = 1 /\ p[1].hops = <<Dst>>
  BY InitialSegment
<1>2. ~PassesSource(p[1])
  BY <1>1, PathAssumption DEF PassesSource, Range, SameCluster
<1>3. Excused(p)
  <2>1. \A j \in 1..Len(p) : j = 1
    BY <1>1
  <2> QED
    BY <1>2, <2>1 DEF Excused
<1>4. paths = <<p>>
  BY <1>1 DEF Init
<1>5. \A i \in DOMAIN <<p>> : <<p>>[i] = p
  OBVIOUS
<1> QED
  BY <1>3, <1>4, <1>5

LEMMA NextIsExcused == EngineInv /\ PassInv /\ [Next]_vars => PassInv'
<1> SUFFICES ASSUME EngineInv, PassInv, [Next]_vars, Running', ~SourceGivenUp'
             PROVE  \A i \in DOMAIN paths' : Excused(paths'[i])
  BY DEF PassInv
<1>1. Running /\ ~SourceGivenUp
  <2>1. Running
    BY StoppedForGood DEF Running, vars
  <2> QED
    BY <2>1, DeadEndsStay DEF SourceGivenUp
<1>2. PICK Good : Good = {p \in Path : Excused(p)}
  OBVIOUS
<1>3. paths \in Seq(Path) /\ paths # <<>> /\ paths \in Seq(Good)
  <2>1. paths \in Seq(Path) /\ paths # <<>>
    BY <1>1, StackIs DEF EngineInv
  <2>2. \A i \in 1..Len(paths) : paths[i] \in Path /\ Excused(paths[i])
    BY <1>1, <2>1 DEF PassInv
  <2>3. \A i \in 1..Len(paths) : paths[i] \in Good
    BY <1>2, <2>2
  <2> QED
    BY <2>1, <2>3, SeqIn
<1>4. PICK base : base = CurrPath /\ base \in Path /\ base \in Seq(Seg) /\ base # <<>> /\ Excused(base)
  <2>1. CurrPath \in Good
    BY <1>3, LastOfSeq DEF CurrPath
  <2> QED
    BY <1>2, <2>1 DEF Path
<1>5. ASSUME NEW s \in Seg, NewSegment(s) PROVE Append(CurrPath, s) \in Good
  <2>1. Excused(Append(CurrPath, s))
    BY <1>1, <1>4, <1>5, NewIsExcused
  <2>2. Append(base, s) \in Path
    BY <1>4, AppendIn DEF Path
  <2> QED
    BY <1>2, <1>4, <2>1, <2>2
<1>6. ASSUME NEW s \in Seg, LongerAssumption(s) PROVE Append(Front(CurrPath), s) \in Good
  <2>1. PICK front \in Seq(Seg) : /\ front = Front(base) /\ Len(front) = Len(base) - 1
                                  /\ \A i \in 1..Len(base) - 1 : front[i] = base[i]
    BY <1>4, FrontIs
  <2>2. Excused(front)
    <3> SUFFICES ASSUME NEW j \in 1..Len(front), PassesSource(front[j])
                 PROVE  \E i \in 1..j : Hides(front[i])
      BY DEF Excused
    <3>1. j \in 1..Len(base) /\ front[j] = base[j] /\ \A i \in 1..j : front[i] = base[i]
      BY <1>4, <2>1
    <3> QED
      BY <1>4, <3>1 DEF Excused
  <2>3. PassesSource(s) => Hides(s)
    BY <1>6 DEF LongerAssumption, Hides
  <2>4. Excused(Append(front, s)) /\ Append(front, s) \in Path
    BY <2>2, <2>3, AppendExcused, AppendIn DEF Path
  <2> QED
    BY <1>2, <1>4, <2>1, <2>4
<1>7. paths' \in Seq(Good)
  <2>1. ~JoinsAnswer
    BY <1>1, JoinStops
  <2> QED
    BY <1>1, <1>3, <1>5, <1>6, <2>1, PathsStayGood
<1>8. \A i \in DOMAIN paths' : paths'[i] \in Good
  BY <1>7
<1> QED
  BY <1>2, <1>8

\* While a run goes on and the source is not given up, a path passes the source
\* only at or after an unknown hop, or in an assumption.
THEOREM PassesAreExcused == Spec => []PassInv
<1>1. EngineInv /\ PassInv /\ [Next]_vars => PassInv'
  BY NextIsExcused
<1> QED
  BY <1>1, InitIsExcused, EngineInvariance, PTL DEF Spec

\* A path that has been at the source, or that has an unknown hop, accounts for
\* a traceroute that could not be added to a part of it.
LEMMA NotPossibleIs ==
  ASSUME EngineInv, PassInv, Running, ~SourceGivenUp, NEW i \in 1..Len(paths),
         NEW found \in Path, Len(found) \in 1..Len(paths[i]),
         \A k \in 1..Len(found) :
           found[k].type = paths[i][k].type /\ Range(found[k].hops) \subseteq Range(paths[i][k].hops),
         Zero \in HopSet(found) \/ HopSet(found) \cap SameCluster(Src) # {}
  PROVE  \E p \in Range(paths) : \/ Zero \in HopSet(p)
                                 \/ \E s \in Range(p) : s.type = "sym" /\ PassesSource(s)
<1>1. PICK p \in Path : /\ p = paths[i] /\ p \in Range(paths) /\ Excused(p)
                        /\ DOMAIN p = 1..Len(p) /\ Len(p) \in Nat
  <2>1. paths \in Seq(Path)
    BY StackIs DEF EngineInv
  <2>2. paths[i] \in Path /\ i \in DOMAIN paths
    BY <2>1, ElementIn
  <2> QED
    BY <2>2 DEF PassInv, Path, Range
<1>2. PICK k \in 1..Len(found) : Zero \in Range(found[k].hops) \/ PassesSource(found[k])
  BY DEF HopSet, PassesSource, Path
<1>3. k \in 1..Len(p) /\ (Zero \in Range(p[k].hops) \/ PassesSource(p[k]))
  <2>1. Range(found[k].hops) \subseteq Range(p[k].hops)
    BY <1>1
  <2>2. k \in 1..Len(p)
    BY <1>1
  <2> QED
    BY <1>2, <2>1, <2>2 DEF PassesSource
<1>4. PICK j \in 1..Len(p) : Hides(p[j])
  <2>1. CASE Zero \in Range(p[k].hops)
    BY <1>3, <2>1 DEF Hides
  <2>2. CASE PassesSource(p[k])
    <3>1. PICK j \in 1..k : Hides(p[j])
      BY <1>1, <1>3, <2>2 DEF Excused
    <3> QED
      BY <1>1, <1>3, <3>1
  <2> QED
    BY <1>3, <2>1, <2>2
<1>5. j \in DOMAIN p /\ p[j] \in Range(p)
  BY <1>1, <1>4 DEF Range
<1>6. Zero \in HopSet(p) \/ (p[j].type = "sym" /\ PassesSource(p[j]))
  BY <1>4, <1>5 DEF Hides, HopSet
<1> QED
  BY <1>1, <1>5, <1>6

\* The ways in which a run panics when it joins a traceroute to a path.
LEMMA JoinPanics ==
  ASSUME EngineInv, NamedInv, PassInv, Running, JoinsAnswer
  PROVE  PanicsAreExplained'
<1>1. /\ TypeInv /\ StackInv /\ paths \in Seq(Path) /\ paths # <<>> /\ paths \in Seq(Seq(Named))
      /\ UNCHANGED deadEnd
  BY StackIs DEF EngineInv, NamedInv, JoinsAnswer
<1>2. PICK ta \in Through(Answers) :
        JoinTrace(ta[1], ta[2]) /\ (strayed' \/ ta \in Intersecting(HopSet(CurrPath)))
  BY DEF JoinsAnswer
<1>3. PICK trace \in Answers, addr \in Addr :
        trace = ta[1] /\ addr = ta[2] /\ addr \in Range(trace) /\ JoinTrace(trace, addr)
  BY <1>2, AnswerIs
<1>4. PICK hops \in Seq(Hop) : /\ hops # <<>> /\ hops[Len(hops)] = Last(trace) /\ hops[1] \in SameCluster(addr)
                               /\ Segment("tr", hops, addr) \in Seg
                               /\ Joins(hops, addr)
  BY <1>1, <1>3, JoinTraceCases
<1>5. PICK h \in Addr : h = hops[1] /\ Cluster[h] = Cluster[addr]
  <2>1. hops[1] # Zero /\ hops[1] \in Hop /\ Cluster[hops[1]] = Cluster[addr]
    BY <1>4, PathAssumption DEF SameCluster
  <2> QED
    BY <2>1 DEF Hop
<1>6. PICK s \in Seg : s = Segment("tr", hops, addr) /\ s.hops = hops /\ LastHop(s) = Last(trace)
  BY <1>4 DEF Segment, LastHop
<1>7. ASSUME ~strayed'
      PROVE  /\ Joinable(paths, h) # {} /\ LastHop(s) = Src
  <2>1. ta \in Intersecting(HopSet(CurrPath))
    BY <1>2, <1>7
  <2>2. PICK g \in HopSet(CurrPath) : addr \in SameCluster(g) /\ trace \in AtlasTraces
    BY <1>3, <2>1 DEF Intersecting, Through
  <2>3. g \in Hop
    BY <1>1, <2>2, StackIs, HopSetIs
  <2>4. g \in SameCluster(h)
    BY <1>5, <2>2, <2>3 DEF SameCluster
  <2>5. Len(paths) \in DOMAIN paths /\ g \in HopSet(paths[Len(paths)])
    BY <1>1, <2>2 DEF CurrPath, Last
  <2>6. Last(trace) = Src
    BY <2>2, RevtrAssumption
  <2> QED
    BY <1>6, <2>4, <2>5, <2>6 DEF Joinable
<1>8. CASE Joinable(paths, h) = {} /\ Panic("not possible")
  BY <1>7, <1>8 DEF PanicsAreExplained, Panic
<1>9. ASSUME NEW i \in 1..Len(paths), HopSet(paths[i]) \cap SameCluster(h) # {},
             TrimPathPanics(paths[i], h), Panic("slice bounds out of range"), UNCHANGED paths
      PROVE  PanicsAreExplained'
  <2>1. PICK p \in Path : p = paths[i] /\ p \in Seq(Named) /\ p \in Range(paths)
    BY <1>1, ElementIn DEF Range
  <2>2. PICK j \in 1..Len(p) : TwoNames(Range(p[j].hops))
    BY <1>9, <2>1, TrimPathKeeps
  <2>3. p[j] \in Named /\ p[j] \in Range(p)
    BY <2>1, ElementIn DEF Range
  <2>4. p[j].type = "sym"
    BY <2>2, <2>3 DEF Named
  <2>5. \E q \in Range(paths') : \E t \in Range(q) : t.type = "sym" /\ TwoNames(Range(t.hops))
    BY <1>9, <2>1, <2>2, <2>3, <2>4
  <2> QED
    BY <1>9, <2>5 DEF PanicsAreExplained, Panic
<1>10. ASSUME NEW i \in 1..Len(paths), HopSet(paths[i]) \cap SameCluster(h) # {},
              NEW r \in AddSegments(Append(paths, TrimPath(paths[i], h)), deadEnd, {s}),
              \/ ~r.added /\ Panic("not possible") /\ UNCHANGED paths
              \/ /\ r.added /\ paths' = r.paths
                 /\ \/ PathReaches(Last(paths')) /\ Return("REACHES")
                    \/ ~PathReaches(Last(paths')) /\ Panic("did not reach")
       PROVE  PanicsAreExplained'
  <2>1. paths[i] \in Path
    BY <1>1, ElementIn
  <2>2. PICK found \in Path :
          /\ found = TrimPath(paths[i], h) /\ Len(found) \in 1..Len(paths[i])
          /\ \A k \in 1..Len(found) :
               found[k].type = paths[i][k].type /\ Range(found[k].hops) \subseteq Range(paths[i][k].hops)
    BY <1>10, <2>1, TrimPathKeeps
  <2>3. PICK stack \in Seq(Path) : stack = Append(paths, found) /\ stack # <<>> /\ Last(stack) = found
    <3>1. PICK base \in Seq(Path) : base = paths
      BY <1>1
    <3>2. Append(base, found) \in Seq(Path) /\ Append(base, found) # <<>> /\ Last(Append(base, found)) = found
      BY ONLY AppendIn, base \in Seq(Path), found \in Path
    <3> QED
      BY <3>1, <3>2
  <2>4. {s} \in SUBSET Seg /\ IsFiniteSet({s})
    BY FS_Singleton
  <2>5. r \in AddSegments(stack, deadEnd, {s})
    BY <1>10, <2>2, <2>3
  <2>6. CASE ~r.added /\ Panic("not possible") /\ UNCHANGED paths
    <3>1. SUFFICES ASSUME ~strayed', ~SourceGivenUp
                   PROVE  \E p \in Range(paths) : \/ Zero \in HopSet(p)
                                                  \/ \E t \in Range(p) : t.type = "sym" /\ PassesSource(t)
      BY <1>1, <2>6 DEF PanicsAreExplained, Panic, SourceGivenUp
    <3>2. SegReaches(s) /\ LastHop(s) \notin deadEnd
      <4>1. LastHop(s) = Src /\ Src \in SameCluster(Src)
        BY <1>7, <3>1, PathAssumption DEF SameCluster, Hop
      <4> QED
        BY <1>4, <1>6, <3>1, <4>1 DEF SegReaches, SourceGivenUp
    <3>3. Zero \in HopSet(found) \/ HopSet(found) \cap SameCluster(Src) # {}
      BY <2>3, <2>4, <2>5, <2>6, <3>2, ReachingCanBeAdded
    <3> QED
      BY <2>2, <3>1, <3>3, NotPossibleIs
  <2>7. CASE r.added /\ paths' = r.paths /\ PathReaches(Last(paths')) /\ Return("REACHES")
    BY <2>7 DEF PanicsAreExplained, Return
  <2>8. CASE r.added /\ paths' = r.paths /\ ~PathReaches(Last(paths')) /\ Panic("did not reach")
    <3>1. SUFFICES ASSUME ~strayed' PROVE FALSE
      BY <2>8 DEF PanicsAreExplained, Panic
    <3>2. Extends(r, stack, {s})
      BY <2>3, <2>4, <2>5, AddSegmentsExtends
    <3>3. PICK new \in Seq(Path) : new = r.paths /\ new = paths' /\ Len(new) > Len(stack)
      BY <2>8, <3>2 DEF Extends
    <3>4. PICK last \in Seg : last = Last(Last(new)) /\ EndOf(last, s)
      <4>1. Len(new) \in Len(stack) + 1..Len(new) /\ Last(new) = new[Len(new)]
        <5>1. Len(new) \in Nat /\ Len(stack) \in Nat
          OBVIOUS
        <5> QED
          BY <3>3, <5>1 DEF Last
      <4>2. stack # <<>>
        BY <2>3
      <4>3. Last(new[Len(new)]) \in Seg /\ \E t \in {s} : EndOf(Last(new[Len(new)]), t)
        <5>1. \A x \in Len(stack) + 1..Len(r.paths) :
                Last(r.paths[x]) \in Seg /\ \E t \in {s} : EndOf(Last(r.paths[x]), t)
          BY <3>2, <4>2, LastOfNew
        <5> QED
          BY <3>3, <4>1, <5>1
      <4> QED
        BY <4>1, <4>3
    <3>5. LastHop(last) = Src /\ last.hops # <<>>
      BY <1>7, <3>1, <3>4 DEF EndOf, Seg
    <3> QED
      BY <2>8, <3>3, <3>4, <3>5 DEF PathReaches, SegReaches
  <2> QED
    BY <1>10, <2>6, <2>7, <2>8
<1>11. \/ Joinable(paths, h) = {} /\ Panic("not possible")
       \/ \E i \in 1..Len(paths) :
            /\ HopSet(paths[i]) \cap SameCluster(h) # {}
            /\ \/ TrimPathPanics(paths[i], h) /\ Panic("slice bounds out of range") /\ UNCHANGED paths
               \/ \E r \in AddSegments(Append(paths, TrimPath(paths[i], h)), deadEnd, {s}) :
                    \/ ~r.added /\ Panic("not possible") /\ UNCHANGED paths
                    \/ /\ r.added /\ paths' = r.paths
                       /\ \/ PathReaches(Last(paths')) /\ Return("REACHES")
                          \/ ~PathReaches(Last(paths')) /\ Panic("did not reach")
  BY <1>4, <1>5, <1>6, Zenon DEF Joins
<1> QED
  BY <1>8, <1>9, <1>10, <1>11

\* An assumption is not made longer only if it then ends at the source.
LEMMA DeadEndIsSource ==
  ASSUME EngineInv, Running, LengthensToDeadEnd
  PROVE  Src \in deadEnd
<1>1. PICK ignore : ignore = HopsButLastSeg \cup deadEnd
  OBVIOUS
<1>2. PICK back \in Seq(Hop) : /\ back = Backwards(LastSeg.tr) /\ back # <<>>
                               /\ back[Len(back)] # Zero /\ back[Len(back)] = Src
  <2>1. LastSeg.tr \in Seq(Hop)
    BY StackIs DEF EngineInv, Seg, Segments
  <2> QED
    BY <2>1, BackwardsIs
<1>3. PICK new \in Seg : /\ new = AddHop(LastSeg, ignore)
                         /\ new.hops = SelectNonzeroHops(back, LastSeg.num + 1, ignore)
  BY <1>2, StackIs, AddHopIs DEF EngineInv
<1>4. PICK m \in 1..Len(back) : new.hops = SubSeq(back, 1, m) /\ (m = Len(back) \/ back[m] \notin ignore)
  BY <1>2, <1>3, SelectIs
<1>5. LastHop(new) = back[m]
  <2>1. m \in 0..Len(back) /\ m \in 1..m
    BY <1>4
  <2>2. Len(SubSeq(back, 1, m)) = m /\ SubSeq(back, 1, m)[m] = back[m]
    BY <2>1, PrefixIn
  <2> QED
    BY <1>4, <2>2 DEF LastHop
<1> QED
  BY <1>1, <1>2, <1>3, <1>4, <1>5 DEF LengthensToDeadEnd

LEMMA NextExplained ==
  EngineInv /\ NamedInv /\ PassInv /\ PanicsAreExplained /\ [Next]_vars => PanicsAreExplained'
<1> SUFFICES ASSUME EngineInv, NamedInv, PassInv, PanicsAreExplained, [Next]_vars
             PROVE  PanicsAreExplained'
  OBVIOUS
<1>1. CASE UNCHANGED vars
  BY <1>1 DEF vars, atlasVars, PanicsAreExplained, SourceGivenUp
<1>2. CASE pc' \notin Panics \/ pc' = "index out of range"
  BY <1>2 DEF Panics, PanicsAreExplained
<1>3. CASE Running /\ LengthensToDeadEnd
  BY <1>3, DeadEndIsSource DEF LengthensToDeadEnd, PanicsAreExplained
<1>4. CASE Running /\ JoinsAnswer
  BY <1>4, JoinPanics
<1> QED
  BY <1>1, <1>2, <1>3, <1>4, StackCases

\* A run panics only for one of these reasons.  It joins a traceroute that does
\* not pass the hops it asked the atlas for (the atlas mistook a token, or the
\* cluster map an address); or an assumption names a router twice; or the source
\* has been given up as a dead end, or was passed by an assumption; or a hop of a
\* path is unknown.  Without those, and without a timestamp reply that comes
\* back empty, a run ends with a result.
THEOREM PanicsHaveReasons == Spec => []PanicsAreExplained
<1>1. Init => PanicsAreExplained
  BY DEF Init, PanicsAreExplained
<1>2. EngineInv /\ NamedInv /\ PassInv /\ PanicsAreExplained /\ [Next]_vars => PanicsAreExplained'
  BY NextExplained
<1> QED
  BY <1>1, <1>2, NamesAreGiven, PassesAreExcused, EngineInvariance, PTL DEF Spec

-----------------------------------------------------------------------------
(* What a reply shows                                                      *)

SlotsType == slots \in Seq(Hop)

LEMMA PacketSlots == PacketSpec => []SlotsType
<1>1. PacketInit => SlotsType
  BY DEF PacketInit, SlotsType
<1>2. SlotsType /\ [Stamp]_slots => SlotsType'
  BY DEF Stamp, SlotsType
<1> QED
  BY <1>1, <1>2, PTL DEF PacketSpec

LEMMA FoundIs ==
  ASSUME SlotsType
  PROVE  /\ Found \in Seq(Hop)
         /\ \A i, j \in DOMAIN Found :
              /\ Cluster[Found[i]] # Cluster[Dst]
              /\ i # j => Cluster[Found[i]] # Cluster[Found[j]]
         /\ IF Beyond(slots, Dst) = {} THEN Found = <<>>
            ELSE /\ Found # <<>> /\ Found[Len(Found)] = slots[Len(slots)]
                 /\ Cluster[Found[1]] = Cluster[slots[Max(Beyond(slots, Dst)) + 1]]
BY ReplyIs DEF Found, SlotsType

\* Whatever routers stamp a packet, how often and with which of their
\* addresses, what processRR makes of the reply visits no router twice, nor the
\* target of the probe again.
THEOREM RepliesHaveNoLoops == PacketSpec => []NoRouterTwice
<1>1. SlotsType => NoRouterTwice
  BY FoundIs DEF NoRouterTwice
<1> QED
  BY <1>1, PacketSlots, PTL

\* And it is the whole way back, from the router after the target to the last
\* one that stamped, or nothing if no router stamped after the target.
THEOREM RepliesAreComplete == PacketSpec => []WayBackIsComplete
<1>1. SlotsType => WayBackIsComplete
  <2> SUFFICES ASSUME SlotsType PROVE WayBackIsComplete
    OBVIOUS
  <2>1. PICK found : found = Found /\ found \in Seq(Hop)
    BY FoundIs
  <2>2. PICK beyond : beyond = Beyond(slots, Dst)
    OBVIOUS
  <2>3. IF beyond = {} THEN found = <<>>
        ELSE /\ found # <<>> /\ found[Len(found)] = slots[Len(slots)]
             /\ Cluster[found[1]] = Cluster[slots[Max(beyond) + 1]]
    BY <2>1, <2>2, FoundIs
  <2> QED
    BY <2>1, <2>2, <2>3 DEF WayBackIsComplete, Beyond, Last
<1> QED
  BY <1>1, PacketSlots, PTL

=============================================================================
