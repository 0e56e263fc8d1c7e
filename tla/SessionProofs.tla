--------------------------- MODULE SessionProofs ---------------------------
(***************************************************************************)
(* Proofs about a game session, for any number of programs, players,       *)
(* crashes, leaves and messages.                                           *)
(***************************************************************************)
EXTENDS Session, FiniteSetTheorems, SequenceTheorems, WellFoundedInduction, TLAPS

-----------------------------------------------------------------------------
(* Numbers and lists *)

(* A set of numbers that has one has a least one. *)
LEMMA LeastOne ==
  ASSUME NEW T \in SUBSET Nat, T # {}
  PROVE  \E x \in T : \A y \in T : x <= y
<1> DEFINE R == OpToRel(<, Nat)
<1>1. IsWellFoundedOn(R, Nat)
  BY NatLessThanWellFounded
<1> HIDE DEF R
<1>2. PICK x \in T : \A y \in T : ~(<<y, x>> \in R)
  BY <1>1, WFMin
<1>3. ASSUME NEW y \in T  PROVE x <= y
  <2>1. ~(y < x)
    BY <1>2 DEF R, OpToRel
  <2> QED
    BY <2>1
<1> QED
  BY <1>3

LEMMA LeastOf ==
  ASSUME NEW T \in SUBSET Nat, T # {}
  PROVE  /\ Min(T) \in T
         /\ \A y \in T : Min(T) <= y
<1>1. PICK x \in T : \A y \in T : x <= y
  BY LeastOne
<1> QED
  BY <1>1 DEF Min

LEMMA GreatestOf ==
  ASSUME NEW n \in Nat, NEW T \in SUBSET (1 .. n), T # {}
  PROVE  Max(T) \in T
<1> DEFINE U == {n - i : i \in T}
<1>1. U \in SUBSET Nat /\ U # {}
  <2>1. \A i \in T : n - i \in Nat
    OBVIOUS
  <2> QED
    BY <2>1
<1>2. PICK x \in U : \A y \in U : x <= y
  BY <1>1, LeastOne
<1>3. PICK i \in T : x = n - i
  BY <1>2
<1>4. \A j \in T : i >= j
  <2> TAKE j \in T
  <2>1. n - i <= n - j
    BY <1>2, <1>3
  <2> QED
    BY <2>1
<1> QED
  BY <1>4 DEF Max

(* Rank numbers the positions of a set, in order. *)
LEMMA RankFacts ==
  ASSUME NEW n \in Nat, NEW keep \in SUBSET (1 .. n)
  PROVE  /\ IsFiniteSet(keep) /\ Cardinality(keep) \in Nat
         /\ \A i \in keep : Rank(keep, i) \in 1 .. Cardinality(keep)
         /\ \A i, j \in keep : i < j => Rank(keep, i) < Rank(keep, j)
         /\ \A k \in 1 .. Cardinality(keep) : \E i \in keep : Rank(keep, i) = k
<1> DEFINE UpTo(i) == {j \in keep : j <= i}
           f == [i \in keep |-> Rank(keep, i)]
           N == 1 .. Cardinality(keep)
<1>1. IsFiniteSet(1 .. n)
  BY FS_Interval
<1>2. IsFiniteSet(keep) /\ Cardinality(keep) \in Nat
  BY <1>1, FS_Subset, FS_CardinalityType
<1>3. ASSUME NEW i \in keep
      PROVE  /\ IsFiniteSet(UpTo(i)) /\ Cardinality(UpTo(i)) \in Nat
             /\ Cardinality(UpTo(i)) <= Cardinality(keep)
             /\ Cardinality(UpTo(i)) # 0
  <2>1. UpTo(i) \subseteq keep /\ i \in UpTo(i)
    OBVIOUS
  <2> QED
    BY <2>1, <1>2, FS_Subset, FS_CardinalityType, FS_EmptySet
<1>4. \A i \in keep : Rank(keep, i) \in N
  <2> TAKE i \in keep
  <2>1. Rank(keep, i) = Cardinality(UpTo(i))
    BY DEF Rank
  <2>2. Cardinality(UpTo(i)) \in Nat /\ Cardinality(UpTo(i)) # 0
        /\ Cardinality(UpTo(i)) <= Cardinality(keep)
    BY <1>3
  <2> HIDE DEF UpTo
  <2> QED
    BY <2>1, <2>2, <1>2
<1>5. ASSUME NEW i \in keep, NEW j \in keep, i < j
      PROVE  Rank(keep, i) < Rank(keep, j)
  <2>0. i \in Int /\ j \in Int /\ \A y \in keep : y \in Int
    OBVIOUS
  <2>1. UpTo(i) \subseteq UpTo(j)
    <3>1. \A y \in keep : y <= i => y <= j
      BY <1>5, <2>0
    <3> QED
      BY <3>1
  <2>11. j \in UpTo(j) /\ j \notin UpTo(i)
    BY <1>5, <2>0
  <2>2. UpTo(i) # UpTo(j)
    BY <2>11
  <2>3. /\ Cardinality(UpTo(i)) <= Cardinality(UpTo(j))
        /\ Cardinality(UpTo(i)) # Cardinality(UpTo(j))
    BY <2>1, <2>2, <1>3, FS_Subset
  <2> QED
    BY <2>3, <1>3 DEF Rank
<1>6. f \in Injection(keep, N)
  <2>1. f \in [keep -> N]
    BY <1>4
  <2>2. \A i, j \in keep : f[i] = f[j] => i = j
    <3> SUFFICES ASSUME NEW i \in keep, NEW j \in keep, i # j  PROVE f[i] # f[j]
      OBVIOUS
    <3>1. i < j \/ j < i
      OBVIOUS
    <3>2. Rank(keep, i) < Rank(keep, j) \/ Rank(keep, j) < Rank(keep, i)
      BY <3>1, <1>5
    <3> QED
      BY <3>2, <1>4
  <2> QED
    BY <2>1, <2>2 DEF Injection, IsInjective
<1>7. IsFiniteSet(N) /\ Cardinality(N) = Cardinality(keep)
  BY <1>2, FS_Interval
<1>8. f \in Surjection(keep, N)
  BY <1>6, <1>7, FS_Injection
<1>9. \A k \in N : \E i \in keep : Rank(keep, i) = k
  BY <1>8 DEF Surjection
<1> QED
  BY <1>2, <1>4, <1>5, <1>9

(* The list t is made of the entries of s at the positions in keep, in order. *)
Picks(t, s, keep) ==
  \E f \in [DOMAIN t -> keep] :
    /\ \A k \in DOMAIN t : t[k] = s[f[k]]
    /\ \A j, k \in DOMAIN t : j < k => f[j] < f[k]
    /\ \A i \in keep : \E k \in DOMAIN t : f[k] = i

(* EntriesAt keeps the entries it is told to, in order, and no other. *)
LEMMA EntriesAtFacts ==
  ASSUME NEW S, NEW s \in Seq(S), NEW keep \in SUBSET DOMAIN s
  PROVE  /\ EntriesAt(s, keep) \in Seq(S)
         /\ Picks(EntriesAt(s, keep), s, keep)
<1> DEFINE D == 1 .. Cardinality(keep)
           f == [k \in D |-> CHOOSE i \in keep : Rank(keep, i) = k]
           t == EntriesAt(s, keep)
<1>1. /\ Len(s) \in Nat /\ DOMAIN s = 1 .. Len(s)
      /\ \A i \in DOMAIN s : s[i] \in S
  BY ElementOfSeq, LenProperties
<1>2. /\ Cardinality(keep) \in Nat
      /\ \A i \in keep : Rank(keep, i) \in D
      /\ \A i, j \in keep : i < j => Rank(keep, i) < Rank(keep, j)
      /\ \A k \in D : \E i \in keep : Rank(keep, i) = k
  BY <1>1, RankFacts
<1>3. \A k \in D : f[k] \in keep /\ Rank(keep, f[k]) = k
  BY <1>2
<1>4. t = [k \in D |-> s[f[k]]]
  BY DEF EntriesAt
<1> HIDE DEF f
<1>5. t \in [D -> S] /\ DOMAIN t = D
  BY <1>1, <1>3, <1>4
<1>6. t \in Seq(S)
  BY <1>2, <1>5, IsASeq
<1>7. ASSUME NEW j \in D, NEW k \in D, j < k  PROVE f[j] < f[k]
  <2>1. f[j] \in Int /\ f[k] \in Int
    BY <1>1, <1>3
  <2>2. ~(f[k] < f[j]) /\ f[k] # f[j]
    BY <1>2, <1>3, <1>7
  <2> QED
    BY <2>1, <2>2
<1>8. ASSUME NEW i \in keep  PROVE \E k \in D : f[k] = i
  <2> DEFINE k == Rank(keep, i)
  <2>1. k \in D /\ f[k] \in keep /\ Rank(keep, f[k]) = k
    BY <1>2, <1>3
  <2>2. f[k] \in Int /\ i \in Int
    BY <1>1, <2>1
  <2>3. ~(f[k] < i) /\ ~(i < f[k])
    <3>1. k \in Int /\ ~(k < k)
      BY <2>1
    <3> HIDE DEF k
    <3>2. Rank(keep, i) = k
      BY DEF k
    <3> QED
      BY <1>2, <2>1, <3>1, <3>2
  <2> QED
    BY <2>1, <2>2, <2>3
<1>9. f \in [D -> keep]
  <2>1. f = [k \in D |-> CHOOSE i \in keep : Rank(keep, i) = k]
    BY DEF f
  <2> QED
    BY <2>1, <1>3
<1>10. \A k \in D : t[k] = s[f[k]]
  BY <1>4
<1> HIDE DEF t
<1>11. Picks(t, s, keep)
  <2> HIDE DEF D
  <2> QED
    BY <1>5, <1>7, <1>8, <1>9, <1>10 DEF Picks
<1> QED
  BY <1>6, <1>11 DEF t

-----------------------------------------------------------------------------
LEMMA ListEntries ==
  ASSUME NEW players \in Seq(PlayerType)
  PROVE  /\ Len(players) \in Nat /\ DOMAIN players = 1 .. Len(players)
         /\ \A i \in DOMAIN players :
              /\ players[i] \in PlayerType
              /\ players[i].id \in Nat /\ players[i].addr \in Addr
              /\ players[i].role \in Role
<1>1. Len(players) \in Nat /\ DOMAIN players = 1 .. Len(players)
  BY LenProperties
<1>2. ASSUME NEW i \in DOMAIN players  PROVE players[i] \in PlayerType
  BY <1>1, ElementOfSeq
<1> QED
  BY <1>1, <1>2 DEF PlayerType

(* The ids of a list, one after the other: what FirstFreeId goes through. *)
AfterStep(players, f, i) ==
  IF i = 0 THEN -1
  ELSE IF f[i - 1] < players[i].id THEN players[i].id + 1 ELSE f[i - 1]

IsAfter(players, n, f) == f = [i \in 0 .. n |-> AfterStep(players, f, i)]

LEMMA AfterExists ==
  ASSUME NEW players
  PROVE  \A n \in Nat : \E f : IsAfter(players, n, f)
<1> DEFINE T == {n \in Nat : ~ \E f : IsAfter(players, n, f)}
<1> SUFFICES ASSUME T # {}  PROVE FALSE
  OBVIOUS
<1>1. PICK n \in T : \A k \in T : n <= k
  BY LeastOne
<1>2. CASE n = 0
  <2> DEFINE f == [i \in 0 .. n |-> -1]
  <2>1. IsAfter(players, n, f)
    BY <1>2 DEF IsAfter, AfterStep
  <2> QED
    BY <2>1
<1>3. CASE n # 0
  <2>1. n - 1 \in Nat /\ n - 1 \notin T
    BY <1>1, <1>3
  <2>2. PICK g : IsAfter(players, n - 1, g)
    BY <2>1
  <2> DEFINE f == [i \in 0 .. n |-> IF i = n THEN AfterStep(players, g, n) ELSE g[i]]
  <2>3. \A i \in 0 .. n : i # n => i \in 0 .. n - 1
    OBVIOUS
  <2>4. \A i \in 0 .. n - 1 : g[i] = AfterStep(players, g, i)
    BY <2>2 DEF IsAfter
  <2>5. \A i \in 0 .. n : i # 0 => i - 1 \in 0 .. n /\ i - 1 # n
    OBVIOUS
  <2>6. \A i \in 0 .. n : AfterStep(players, f, i) = AfterStep(players, g, i)
    BY <2>5 DEF AfterStep
  <2>7. \A i \in 0 .. n : f[i] = AfterStep(players, f, i)
    BY <2>3, <2>4, <2>6
  <2>8. f = [i \in 0 .. n |-> f[i]]
    OBVIOUS
  <2> HIDE DEF f
  <2>9. IsAfter(players, n, f)
    BY <2>7, <2>8 DEF IsAfter
  <2> QED
    BY <2>9
<1> QED
  BY <1>2, <1>3

LEMMA AfterBounds ==
  ASSUME NEW players \in Seq(PlayerType), NEW f, IsAfter(players, Len(players), f)
  PROVE  \A k \in 0 .. Len(players) :
           f[k] \in Int /\ f[k] >= -1 /\ \A i \in 1 .. k : players[i].id <= f[k]
<1> DEFINE N == Len(players)
           Fine(k) == f[k] \in Int /\ f[k] >= -1 /\ \A i \in 1 .. k : players[i].id <= f[k]
           T == {k \in 0 .. N : ~Fine(k)}
<1>1. N \in Nat /\ \A i \in 1 .. N : players[i].id \in Nat
  BY ListEntries
<1> SUFFICES ASSUME T # {}  PROVE FALSE
  OBVIOUS
<1>2. PICK k \in T : \A j \in T : k <= j
  <2>1. T \in SUBSET Nat
    BY <1>1
  <2> QED
    BY <2>1, LeastOne
<1>3. f[k] = AfterStep(players, f, k)
  BY DEF IsAfter
<1>4. CASE k = 0
  BY <1>3, <1>4 DEF AfterStep
<1>5. CASE k # 0
  <2>1. k - 1 \in 0 .. N /\ k \in 1 .. N /\ k - 1 \notin T
    BY <1>1, <1>2, <1>5
  <2>2. Fine(k - 1)
    BY <2>1
  <2>3. f[k] = IF f[k - 1] < players[k].id THEN players[k].id + 1 ELSE f[k - 1]
    BY <1>3, <1>5 DEF AfterStep
  <2>4. players[k].id \in Nat /\ f[k - 1] \in Int
    BY <1>1, <2>1, <2>2
  <2>5. f[k] \in Int /\ f[k] >= f[k - 1] /\ players[k].id <= f[k]
    BY <2>3, <2>4
  <2>6. \A i \in 1 .. k : i = k \/ i \in 1 .. k - 1
    BY <2>1
  <2>7. \A i \in 1 .. k - 1 : players[i].id \in Int
    BY <1>1, <2>1
  <2>8. \A i \in 1 .. k : players[i].id <= f[k]
    <3> TAKE i \in 1 .. k
    <3>1. CASE i = k
      BY <2>5, <3>1
    <3>2. CASE i \in 1 .. k - 1
      <4>1. players[i].id <= f[k - 1] /\ players[i].id \in Int
        BY <2>2, <2>7, <3>2
      <4>2. \A a, b, c \in Int : a <= b /\ c >= b => a <= c
        OBVIOUS
      <4> QED
        BY <4>1, <4>2, <2>4, <2>5, Zenon
    <3> QED
      BY <2>6, <3>1, <3>2
  <2>9. f[k] >= -1
    BY <2>2, <2>5
  <2> QED
    BY <2>5, <2>8, <2>9
<1> QED
  BY <1>4, <1>5

(* What a new master starts from is not below any id of its list. *)
LEMMA FirstFreeIdBounds ==
  ASSUME NEW players \in Seq(PlayerType)
  PROVE  /\ FirstFreeId(players) \in Int
         /\ \A i \in DOMAIN players : players[i].id <= FirstFreeId(players)
         /\ players # << >> => FirstFreeId(players) \in Nat
<1> DEFINE N == Len(players)
           f == CHOOSE g : IsAfter(players, N, g)
<1>1. N \in Nat /\ DOMAIN players = 1 .. N /\ (players # << >> => N # 0)
  BY LenProperties, EmptySeq
<1>2. IsAfter(players, N, f)
  BY <1>1, AfterExists
<1>3. FirstFreeId(players) = f[N]
  BY DEF FirstFreeId, IsAfter, AfterStep
<1> HIDE DEF f
<1>4. f[N] \in Int /\ \A i \in 1 .. N : players[i].id <= f[N]
  <2>1. N \in 0 .. N
    BY <1>1
  <2> QED
    BY <1>2, <2>1, AfterBounds
<1>5. players # << >> => 1 \in 1 .. N /\ players[1].id \in Nat
  BY <1>1, ListEntries
<1> QED
  BY <1>1, <1>3, <1>4, <1>5

-----------------------------------------------------------------------------
(* What the look-ups find *)

LEMMA AddrOfEntry ==
  ASSUME NEW players \in Seq(PlayerType), NEW id \in Ids(players)
  PROVE  \E i \in DOMAIN players :
           players[i].id = id /\ AddrOf(players, id) = players[i].addr
<1> DEFINE I == {i \in 1 .. Len(players) : players[i].id = id}
<1>1. /\ DOMAIN players = 1 .. Len(players) /\ Len(players) \in Nat
  BY ListEntries
<1>2. I # {} /\ I \in SUBSET Nat
  BY <1>1 DEF Ids
<1>3. Min(I) \in I
  BY <1>2, LeastOf
<1>4. AddrOf(players, id) = players[Min(I)].addr
  BY <1>2 DEF AddrOf, SelectInSeq
<1> QED
  BY <1>1, <1>3, <1>4

LEMMA IdOfEntry ==
  ASSUME NEW players \in Seq(PlayerType), NEW addr, Lists(players, addr)
  PROVE  \E i \in DOMAIN players :
           players[i].addr = addr /\ IdOf(players, addr) = players[i].id
<1> DEFINE I == {i \in 1 .. Len(players) : players[i].addr = addr}
<1>1. /\ DOMAIN players = 1 .. Len(players) /\ Len(players) \in Nat
  BY ListEntries
<1>2. I # {} /\ I \in SUBSET Nat
  BY <1>1 DEF Lists
<1>3. Min(I) \in I
  BY <1>2, LeastOf
<1>4. IdOf(players, addr) = players[Min(I)].id
  BY <1>2 DEF IdOf, SelectInSeq
<1> QED
  BY <1>1, <1>3, <1>4

LEMMA LastWithRoleEntry ==
  ASSUME NEW players \in Seq(PlayerType), NEW role
  PROVE  \/ LastWithRole(players, role) = 0
         \/ /\ LastWithRole(players, role) \in DOMAIN players
            /\ players[LastWithRole(players, role)].role = role
<1> DEFINE I == {i \in 1 .. Len(players) : players[i].role = role}
<1>1. /\ DOMAIN players = 1 .. Len(players) /\ Len(players) \in Nat
  BY ListEntries
<1>2. I \in SUBSET (1 .. Len(players))
  OBVIOUS
<1>3. I # {} => Max(I) \in I
  BY <1>1, <1>2, GreatestOf
<1>4. LastWithRole(players, role) = IF I # {} THEN Max(I) ELSE 0
  BY DEF LastWithRole, SelectLastInSeq
<1> QED
  BY <1>1, <1>3, <1>4

LEMMA LastWithIdEntry ==
  ASSUME NEW players \in Seq(PlayerType), NEW id
  PROVE  \/ LastWithId(players, id) = 0
         \/ /\ LastWithId(players, id) \in DOMAIN players
            /\ players[LastWithId(players, id)].id = id
<1> DEFINE I == {i \in 1 .. Len(players) : players[i].id = id}
<1>1. /\ DOMAIN players = 1 .. Len(players) /\ Len(players) \in Nat
  BY ListEntries
<1>2. I \in SUBSET (1 .. Len(players))
  OBVIOUS
<1>3. I # {} => Max(I) \in I
  BY <1>1, <1>2, GreatestOf
<1>4. LastWithId(players, id) = IF I # {} THEN Max(I) ELSE 0
  BY DEF LastWithId, SelectLastInSeq
<1> QED
  BY <1>1, <1>3, <1>4

(* The smallest id among the candidates, or what it was. *)
LEMMA ChosenOne ==
  ASSUME NEW s, s.players \in Seq(PlayerType)
  PROVE  \/ Candidates(s.players) = {} /\ ChosenDeputy(s) = s.deputyId
         \/ /\ ChosenDeputy(s) \in Candidates(s.players)
            /\ \A id \in Candidates(s.players) : ChosenDeputy(s) <= id
<1>1. Candidates(s.players) \in SUBSET Nat
  BY ListEntries DEF Candidates
<1>2. CASE Candidates(s.players) = {}
  BY <1>2 DEF ChosenDeputy
<1>3. CASE Candidates(s.players) # {}
  <2>1. PICK x \in Candidates(s.players) : \A y \in Candidates(s.players) : x <= y
    BY <1>1, <1>3, LeastOne
  <2> QED
    BY <1>3, <2>1 DEF ChosenDeputy
<1> QED
  BY <1>2, <1>3

-----------------------------------------------------------------------------
(* What happens to the entries of a list *)

LEMMA Mapped ==
  ASSUME NEW players \in Seq(PlayerType), NEW t,
         DOMAIN t = DOMAIN players, t = [i \in DOMAIN players |-> t[i]],
         \A i \in DOMAIN players : t[i] \in PlayerType
  PROVE  t \in Seq(PlayerType)
<1>1. Len(players) \in Nat /\ DOMAIN players = 1 .. Len(players)
  BY ListEntries
<1>2. t \in [1 .. Len(players) -> PlayerType]
  BY <1>1
<1> QED
  BY <1>1, <1>2, IsASeq

LEMMA AppendEntry ==
  ASSUME NEW players \in Seq(PlayerType), NEW p \in PlayerType
  PROVE  /\ Append(players, p) \in Seq(PlayerType)
         /\ DOMAIN Append(players, p) = 1 .. Len(players) + 1
         /\ \A i \in DOMAIN players : Append(players, p)[i] = players[i]
         /\ Append(players, p)[Len(players) + 1] = p
         /\ Append(players, p) # << >>
BY AppendProperties, LenProperties

LEMMA WithRoleEntry ==
  ASSUME NEW players \in Seq(PlayerType), NEW id, NEW role \in Role
  PROVE  /\ WithRole(players, id, role) \in Seq(PlayerType)
         /\ DOMAIN WithRole(players, id, role) = DOMAIN players
         /\ \A i \in DOMAIN players :
              /\ WithRole(players, id, role)[i].id = players[i].id
              /\ WithRole(players, id, role)[i].addr = players[i].addr
              /\ WithRole(players, id, role)[i].role =
                   IF players[i].id = id THEN role ELSE players[i].role
<1> DEFINE t == WithRole(players, id, role)
<1>1. \A i \in DOMAIN players : players[i] \in PlayerType
  BY ListEntries
<1>2. DOMAIN t = DOMAIN players
  BY DEF WithRole
<1>3. \A i \in DOMAIN players :
        t[i] = IF players[i].id = id THEN [players[i] EXCEPT !.role = role] ELSE players[i]
  BY DEF WithRole
<1>4. \A i \in DOMAIN players :
        /\ t[i] \in PlayerType
        /\ t[i].id = players[i].id /\ t[i].addr = players[i].addr
        /\ t[i].role = IF players[i].id = id THEN role ELSE players[i].role
  BY <1>1, <1>3 DEF PlayerType
<1>5. t = [i \in DOMAIN players |-> t[i]]
  BY DEF WithRole
<1> HIDE DEF t
<1>6. t \in Seq(PlayerType)
  BY <1>2, <1>4, <1>5, Mapped
<1> QED
  BY <1>2, <1>4, <1>6 DEF t

LEMMA ViewersAfterEntry ==
  ASSUME NEW players \in Seq(PlayerType), NEW id
  PROVE  /\ ViewersAfter(players, id) \in Seq(PlayerType)
         /\ DOMAIN ViewersAfter(players, id) = DOMAIN players
         /\ \A i \in DOMAIN players :
              /\ ViewersAfter(players, id)[i].id = players[i].id
              /\ ViewersAfter(players, id)[i].addr = players[i].addr
              /\ ViewersAfter(players, id)[i].role =
                   IF players[i].id = id THEN players[i].role ELSE "VIEWER"
<1> DEFINE t == ViewersAfter(players, id)
<1>1. \A i \in DOMAIN players : players[i] \in PlayerType
  BY ListEntries
<1>2. DOMAIN t = DOMAIN players
  BY DEF ViewersAfter
<1>3. \A i \in DOMAIN players :
        t[i] = IF players[i].id # id THEN [players[i] EXCEPT !.role = "VIEWER"]
               ELSE players[i]
  BY DEF ViewersAfter
<1>4. \A i \in DOMAIN players :
        /\ t[i] \in PlayerType
        /\ t[i].id = players[i].id /\ t[i].addr = players[i].addr
        /\ t[i].role = IF players[i].id = id THEN players[i].role ELSE "VIEWER"
  BY <1>1, <1>3 DEF PlayerType, Role
<1>5. t = [i \in DOMAIN players |-> t[i]]
  BY DEF ViewersAfter
<1> HIDE DEF t
<1>6. t \in Seq(PlayerType)
  BY <1>2, <1>4, <1>5, Mapped
<1> QED
  BY <1>2, <1>4, <1>6 DEF t

LEMMA WithoutIdEntry ==
  ASSUME NEW players \in Seq(PlayerType), NEW id
  PROVE  /\ WithoutId(players, id) \in Seq(PlayerType)
         /\ Picks(WithoutId(players, id), players,
                  {i \in DOMAIN players : players[i].id # id})
BY EntriesAtFacts DEF WithoutId

(* The same as what is in the list and what stays. *)
LEMMA WithoutIdMembers ==
  ASSUME NEW players \in Seq(PlayerType), NEW id
  PROVE  /\ \A k \in DOMAIN WithoutId(players, id) :
              \E i \in DOMAIN players :
                WithoutId(players, id)[k] = players[i] /\ players[i].id # id
         /\ \A i \in DOMAIN players :
              players[i].id # id =>
                \E k \in DOMAIN WithoutId(players, id) :
                  WithoutId(players, id)[k] = players[i]
<1> DEFINE t    == WithoutId(players, id)
           keep == {i \in DOMAIN players : players[i].id # id}
<1>1. Picks(t, players, keep)
  BY WithoutIdEntry
<1> HIDE DEF t
<1>2. /\ \A k \in DOMAIN t : \E i \in keep : t[k] = players[i]
      /\ \A i \in keep : \E k \in DOMAIN t : t[k] = players[i]
  <2> HIDE DEF keep
  <2> QED
    BY <1>1 DEF Picks
<1> QED
  BY <1>2 DEF t

(* The list of a server made of a client's last state. *)
TakenOver(n) ==
  [i \in DOMAIN cl[n].last.players |->
     IF cl[n].last.players[i].id = cl[n].id
     THEN Player(cl[n].last.players[i].id, <<n, 2>>, "MASTER")
     ELSE cl[n].last.players[i]]

LEMMA TakenOverEntry ==
  ASSUME NEW n \in Node, cl[n].last.players \in Seq(PlayerType)
  PROVE  /\ TakenOver(n) \in Seq(PlayerType)
         /\ DOMAIN TakenOver(n) = DOMAIN cl[n].last.players
         /\ \A i \in DOMAIN cl[n].last.players :
              /\ TakenOver(n)[i].id = cl[n].last.players[i].id
              /\ IF cl[n].last.players[i].id = cl[n].id
                 THEN TakenOver(n)[i].addr = <<n, 2>> /\ TakenOver(n)[i].role = "MASTER"
                 ELSE TakenOver(n)[i] = cl[n].last.players[i]
<1> DEFINE old == cl[n].last.players
           t   == TakenOver(n)
<1>1. \A i \in DOMAIN old : old[i] \in PlayerType /\ old[i].id \in Nat
  BY ListEntries
<1>2. DOMAIN t = DOMAIN old
  BY DEF TakenOver
<1>3. \A i \in DOMAIN old :
        t[i] = IF old[i].id = cl[n].id THEN Player(old[i].id, <<n, 2>>, "MASTER")
               ELSE old[i]
  BY DEF TakenOver
<1>4. \A i \in DOMAIN old :
        /\ t[i] \in PlayerType
        /\ t[i].id = old[i].id
        /\ IF old[i].id = cl[n].id
           THEN t[i].addr = <<n, 2>> /\ t[i].role = "MASTER"
           ELSE t[i] = old[i]
  <2> SUFFICES ASSUME NEW i \in DOMAIN old
               PROVE  /\ t[i] \in PlayerType
                      /\ t[i].id = old[i].id
                      /\ IF old[i].id = cl[n].id
                         THEN t[i].addr = <<n, 2>> /\ t[i].role = "MASTER"
                         ELSE t[i] = old[i]
    OBVIOUS
  <2> HIDE DEF t, old
  <2>1. CASE old[i].id = cl[n].id
    <3>1. t[i] = [id |-> old[i].id, addr |-> <<n, 2>>, role |-> "MASTER"]
      BY <1>3, <2>1 DEF Player
    <3>2. <<n, 2>> \in Addr /\ "MASTER" \in Role /\ old[i].id \in Nat
      BY <1>1 DEF Addr, Role
    <3> QED
      BY <2>1, <3>1, <3>2 DEF PlayerType
  <2>2. CASE old[i].id # cl[n].id
    BY <1>1, <1>3, <2>2
  <2> QED
    BY <2>1, <2>2
<1>5. t = [i \in DOMAIN old |-> t[i]]
  BY DEF TakenOver
<1> HIDE DEF t
<1>6. t \in Seq(PlayerType)
  BY <1>2, <1>4, <1>5, Mapped
<1> QED
  BY <1>2, <1>4, <1>6 DEF t

-----------------------------------------------------------------------------
(* Types *)

Ends == {"idle", "joining", "playing", "out", "panicked", "crashed"}

AState    == [order : Order, players : Seq(PlayerType)]
SentState == {s \in AState : s.players # << >>}

AClient ==
  [st : Ends, id : Nat, role : Role, deputyId : Nat \cup {-1}, peer : Addr,
   last : SentState \cup {NoState}]

AServer ==
  [up : BOOLEAN, players : Seq(PlayerType), deputyId : Nat \cup {-1}, uniqueId : Nat,
   stateId : Order, joining : {NoJoin} \cup [id : Nat, addr : Addr], due : BOOLEAN]

AJoin       == [type : {"Join"}, src : Addr, dst : Addr, role : {"NORMAL", "VIEWER"}]
AnAck       == [type : {"Ack"}, src : Addr, dst : Addr, id : Nat]
AnError     == [type : {"Error"}, src : Addr, dst : Addr]
AStateMsg   == [type : {"State"}, src : Addr, dst : Addr, state : SentState]
ARoleChange == [type : {"RoleChange"}, src : Addr, dst : Addr,
                role : {"DEPUTY", "MASTER", "VIEWER"}, id : Nat]

Message == AJoin \cup AnAck \cup AnError \cup AStateMsg \cup ARoleChange

Bounded(msgs) == IsFiniteSet(msgs) /\ Cardinality(msgs) <= MaxNet

(* The inductive invariant of TypeOK: a state that was sent lists somebody, *)
(* so that the server made of it has an id to give.                         *)
Types ==
  /\ cl \in [Node -> AClient]
  /\ srv \in [Node -> AServer]
  /\ net \subseteq Message
  /\ Bounded(net)
  /\ \A n \in Node : srv[n].up => cl[n].st \in {"playing", "out"}

(* A message by its type. *)
LEMMA MessageFields ==
  ASSUME NEW m \in Message
  PROVE  /\ m.src \in Addr /\ m.dst \in Addr
         /\ m.type \in {"Join", "Ack", "Error", "State", "RoleChange"}
         /\ m.type = "Join" => m.role \in {"NORMAL", "VIEWER"}
         /\ m.type = "Ack" => m.id \in Nat
         /\ m.type = "State" => m.state \in SentState
         /\ m.type = "RoleChange" =>
              m.role \in {"DEPUTY", "MASTER", "VIEWER"} /\ m.id \in Nat
<1>1. CASE m \in AJoin
  BY <1>1 DEF AJoin
<1>2. CASE m \in AnAck
  BY <1>2 DEF AnAck
<1>3. CASE m \in AnError
  BY <1>3 DEF AnError
<1>4. CASE m \in AStateMsg
  BY <1>4 DEF AStateMsg
<1>5. CASE m \in ARoleChange
  BY <1>5 DEF ARoleChange
<1> QED
  BY <1>1, <1>2, <1>3, <1>4, <1>5 DEF Message

LEMMA MessageMade ==
  ASSUME NEW src \in Addr, NEW dst \in Addr
  PROVE  /\ \A role \in {"NORMAL", "VIEWER"} : JoinMsg(src, dst, role) \in Message
         /\ \A id \in Nat : AckMsg(src, dst, id) \in Message
         /\ ErrorMsg(src, dst) \in Message
         /\ \A s \in SentState : StateMsg(src, dst, s) \in Message
         /\ \A role \in {"DEPUTY", "MASTER", "VIEWER"}, id \in Nat :
              RoleMsg(src, dst, role, id) \in Message
<1>1. \A role \in {"NORMAL", "VIEWER"} : JoinMsg(src, dst, role) \in AJoin
  BY DEF JoinMsg, AJoin
<1>2. \A id \in Nat : AckMsg(src, dst, id) \in AnAck
  BY DEF AckMsg, AnAck
<1>3. ErrorMsg(src, dst) \in AnError
  BY DEF ErrorMsg, AnError
<1>4. \A s \in SentState : StateMsg(src, dst, s) \in AStateMsg
  BY DEF StateMsg, AStateMsg
<1>5. \A role \in {"DEPUTY", "MASTER", "VIEWER"}, id \in Nat :
        RoleMsg(src, dst, role, id) \in ARoleChange
  BY DEF RoleMsg, ARoleChange
<1> QED
  BY <1>1, <1>2, <1>3, <1>4, <1>5 DEF Message

(* Sending keeps the messages typed and few. *)
LEMMA Sent ==
  ASSUME NEW without, NEW msgs \in SUBSET Message, IsFiniteSet(msgs),
         net \subseteq Message, Bounded(net), Transmit(without, msgs)
  PROVE  net' \subseteq Message /\ Bounded(net')
<1>1. PICK sent \in SUBSET msgs :
        /\ Cardinality((net \ without) \cup sent) <= MaxNet
        /\ net' = (net \ without) \cup sent
  BY DEF Transmit
<1>2. IsFiniteSet(net \ without) /\ IsFiniteSet(sent)
  BY FS_Subset, FS_Difference DEF Bounded
<1>3. IsFiniteSet(net')
  BY <1>1, <1>2, FS_Union
<1> QED
  BY <1>1, <1>3 DEF Bounded

LEMMA SentOne ==
  ASSUME NEW without, NEW m \in Message,
         net \subseteq Message, Bounded(net), Transmit(without, {m})
  PROVE  net' \subseteq Message /\ Bounded(net')
<1>1. IsFiniteSet({m})
  BY FS_Singleton
<1> QED
  BY <1>1, Sent

LEMMA Received ==
  ASSUME NEW m \in net, net \subseteq Message, Bounded(net), net' = net \ {m}
  PROVE  net' \subseteq Message /\ Bounded(net')
<1>1. /\ IsFiniteSet(net \ {m}) /\ Cardinality(net \ {m}) = Cardinality(net) - 1
      /\ Cardinality(net) \in Nat
  BY FS_RemoveElement, FS_CardinalityType DEF Bounded
<1>2. MaxNet \in Nat
  BY SessionAssumption
<1> QED
  BY <1>1, <1>2 DEF Bounded

LEMMA Values ==
  /\ NoState \in AState /\ ~(NoState \in SentState)
  /\ NewClient \in AClient /\ NoServer \in AServer
  /\ NoJoin.id = -1 /\ NoJoin.addr \in Addr
  /\ << >> \in Seq(PlayerType)
  /\ \A n \in Node : ServerAddr(n) \in Addr /\ ClientAddr(n) \in Addr /\ <<n, 2>> \in Addr
  /\ 0 \in Order /\ Order \subseteq Nat
<1>1. << >> \in Seq(PlayerType)
  BY EmptySeq
<1>2. 0 \in Order /\ Order \subseteq Nat
  BY SessionAssumption DEF Order
<1>3. NoState \in AState /\ ~(NoState \in SentState)
  BY <1>1, <1>2 DEF NoState, AState, SentState
<1>4. \A n \in Node : ServerAddr(n) \in Addr /\ ClientAddr(n) \in Addr /\ <<n, 2>> \in Addr
  BY DEF ServerAddr, ClientAddr, Addr
<1>5. NoJoin.id = -1 /\ NoJoin.addr \in Addr
  BY <1>4, SessionAssumption DEF NoJoin
<1>6. NewClient \in AClient
  BY <1>3, <1>4, SessionAssumption DEF NewClient, AClient, Ends, Role
<1>7. NoServer \in AServer
  BY <1>1, <1>2, <1>5 DEF NoServer, AServer
<1> QED
  BY <1>1, <1>2, <1>3, <1>4, <1>5, <1>6, <1>7

LEMMA TypesInit == Init => Types
<1> SUFFICES ASSUME Init  PROVE Types
  OBVIOUS
<1>1. cl \in [Node -> AClient]
  BY Values DEF Init, AClient, Ends, Role
<1>2. Player(0, <<Creator, 2>>, "MASTER") \in PlayerType
  BY SessionAssumption DEF Player, PlayerType, Addr, Role
<1>3. <<Player(0, <<Creator, 2>>, "MASTER")>> \in Seq(PlayerType)
  BY <1>2
<1>4. srv \in [Node -> AServer]
  <2> DEFINE s == [NoServer EXCEPT !.up = TRUE, !.uniqueId = 1,
                      !.players = <<Player(0, <<Creator, 2>>, "MASTER")>>]
  <2>1. s \in AServer
    BY <1>3, Values DEF AServer
  <2> QED
    BY <2>1, Values DEF Init
<1>5. net \subseteq Message /\ Bounded(net)
  BY FS_EmptySet, SessionAssumption DEF Init, Bounded
<1>6. \A n \in Node : srv[n].up => cl[n].st \in {"playing", "out"}
  BY Values DEF Init, NoServer, NewClient
<1> QED
  BY <1>1, <1>4, <1>5, <1>6 DEF Types

(* What a program keeps of a client or a server whose fields are typed. *)
LEMMA TypesGive ==
  ASSUME Types, NEW n \in Node
  PROVE  /\ cl[n] \in AClient /\ srv[n] \in AServer
         /\ cl[n].st \in Ends /\ cl[n].id \in Nat /\ cl[n].role \in Role
         /\ cl[n].deputyId \in Nat \cup {-1} /\ cl[n].peer \in Addr
         /\ cl[n].last \in SentState \cup {NoState}
         /\ cl[n].last.players \in Seq(PlayerType) /\ cl[n].last.order \in Order
         /\ srv[n].up \in BOOLEAN /\ srv[n].players \in Seq(PlayerType)
         /\ srv[n].deputyId \in Nat \cup {-1} /\ srv[n].uniqueId \in Nat
         /\ srv[n].stateId \in Order /\ srv[n].due \in BOOLEAN
         /\ srv[n].joining \in {NoJoin} \cup [id : Nat, addr : Addr]
         /\ srv[n].joining.addr \in Addr
         /\ srv[n].joining # NoJoin => srv[n].joining.id \in Nat
         /\ srv[n].up => cl[n].st \in {"playing", "out"}
<1>1. cl[n] \in AClient /\ srv[n] \in AServer
  BY DEF Types
<1>2. cl[n].last \in AState
  BY <1>1, Values DEF AClient, SentState
<1> QED
  BY <1>1, <1>2, Values DEF AClient, AServer, AState, Types

(* A step that changes the client or the server of one program only. *)
LEMMA TypesKept ==
  ASSUME Types, NEW n \in Node,
         cl' \in [Node -> AClient], srv' \in [Node -> AServer],
         \A k \in Node \ {n} : cl'[k] = cl[k] /\ srv'[k] = srv[k],
         srv'[n].up => cl'[n].st \in {"playing", "out"},
         net' \subseteq Message, Bounded(net')
  PROVE  Types'
BY DEF Types, Bounded

LEMMA TypesJoin ==
  ASSUME Types, NEW n \in Node, NEW m \in Node, Join(n, m)  PROVE Types'
<1>1. PICK role \in {"NORMAL", "VIEWER"} :
        /\ cl' = [cl EXCEPT ![n].st = "joining", ![n].role = role,
                            ![n].peer = ServerAddr(m)]
        /\ Transmit({}, {JoinMsg(ServerAddr(n), ServerAddr(m), role)})
  BY DEF Join
<1>2. cl' \in [Node -> AClient] /\ \A k \in Node \ {n} : cl'[k] = cl[k]
  <2> DEFINE c == [cl[n] EXCEPT !.st = "joining", !.role = role, !.peer = ServerAddr(m)]
  <2>1. c \in AClient
    BY Values, TypesGive DEF AClient, Ends, Role
  <2>2. cl' = [cl EXCEPT ![n] = c]
    BY <1>1
  <2> HIDE DEF c
  <2> QED
    BY <2>1, <2>2 DEF Types
<1>3. JoinMsg(ServerAddr(n), ServerAddr(m), role) \in Message
  BY Values, MessageMade
<1>4. net' \subseteq Message /\ Bounded(net')
  BY <1>1, <1>3, SentOne DEF Types
<1>5. ~srv[n].up
  BY TypesGive DEF Join
<1> QED
  BY <1>1, <1>2, <1>4, <1>5, TypesKept DEF Join, Types

LEMMA TypesHandleJoin ==
  ASSUME Types, NEW n \in Node, NEW m \in net, HandleJoin(n, m)  PROVE Types'
<1> DEFINE id     == NextId(srv[n])
           listed == [srv[n] EXCEPT !.players = Append(@, Player(id, m.src, m.role)),
                                    !.uniqueId = @ + 1]
<1>1. /\ m \in Message /\ m.type = "Join" /\ m.src \in Addr /\ m.dst \in Addr
      /\ m.role \in {"NORMAL", "VIEWER"}
  BY MessageFields DEF Types, HandleJoin
<1>2. id \in Nat
  BY TypesGive DEF NextId
<1>3. Player(id, m.src, m.role) \in PlayerType
  BY <1>1, <1>2 DEF Player, PlayerType, Role
<1>4. listed \in AServer
  <2> HIDE DEF id
  <2>1. Append(srv[n].players, Player(id, m.src, m.role)) \in Seq(PlayerType)
    BY <1>3, TypesGive, AppendEntry
  <2>2. srv[n].uniqueId + 1 \in Nat
    BY TypesGive
  <2> QED
    BY <2>1, <2>2, TypesGive DEF AServer
<1>5. \A r : Reply(m, r) /\ r \in Message => net' \subseteq Message /\ Bounded(net')
  BY SentOne DEF Reply, Types
<1>6. /\ srv' \in [Node -> AServer]
      /\ \A k \in Node \ {n} : srv'[k] = srv[k]
      /\ srv'[n].up = srv[n].up
      /\ net' \subseteq Message /\ Bounded(net')
  <2>1. CASE Reply(m, ErrorMsg(m.dst, m.src)) /\ UNCHANGED srv
    BY <1>1, <1>5, <2>1, MessageMade DEF Types
  <2>2. CASE srv' = [srv EXCEPT ![n] = listed] /\ Reply(m, AckMsg(m.dst, m.src, id))
    <3> HIDE DEF id
    <3>1. net' \subseteq Message /\ Bounded(net')
      BY <1>1, <1>2, <1>5, <2>2, MessageMade
    <3>2. listed.up = srv[n].up
      BY TypesGive DEF AServer
    <3> HIDE DEF listed
    <3> QED
      BY <1>4, <2>2, <3>1, <3>2 DEF Types
  <2>3. CASE /\ srv' = [srv EXCEPT ![n] = [listed EXCEPT !.joining = [id |-> id, addr |-> m.src]]]
             /\ net' = net \ {m}
    <3> DEFINE s == [listed EXCEPT !.joining = [id |-> id, addr |-> m.src]]
    <3>1. s \in AServer /\ s.up = srv[n].up
      <4> HIDE DEF id
      <4>1. [id |-> id, addr |-> m.src] \in [id : Nat, addr : Addr]
        BY <1>1, <1>2
      <4>2. listed.up = srv[n].up
        BY TypesGive DEF AServer
      <4> HIDE DEF listed
      <4> QED
        BY <1>4, <4>1, <4>2 DEF AServer
    <3> HIDE DEF s
    <3>2. net' \subseteq Message /\ Bounded(net')
      BY <2>3, Received DEF Types
    <3>3. srv' = [srv EXCEPT ![n] = s]
      BY <2>3 DEF s
    <3> QED
      BY <3>1, <3>2, <3>3 DEF Types
  <2> QED
    BY <2>1, <2>2, <2>3 DEF HandleJoin
<1> QED
  BY <1>6, TypesKept DEF HandleJoin, Types

LEMMA TypesFinishJoin ==
  ASSUME Types, NEW n \in Node, FinishJoin(n)  PROVE Types'
<1> DEFINE j  == srv[n].joining
           s1 == [srv[n] EXCEPT !.joining = NoJoin]
           s2 == [srv[n] EXCEPT !.joining = NoJoin, !.players = WithoutId(@, j.id)]
<1>1. s1 \in AServer /\ s1.up = srv[n].up
  BY Values, TypesGive DEF AServer
<1>2. s2 \in AServer /\ s2.up = srv[n].up
  <2>1. WithoutId(srv[n].players, j.id) \in Seq(PlayerType)
    BY TypesGive, WithoutIdEntry
  <2> QED
    BY <2>1, Values, TypesGive DEF AServer
<1>3. /\ srv' = [srv EXCEPT ![n] = s1] \/ srv' = [srv EXCEPT ![n] = s2]
      /\ Transmit({}, {AckMsg(ServerAddr(n), j.addr, j.id)})
           \/ Transmit({}, {ErrorMsg(ServerAddr(n), j.addr)})
      /\ j # NoJoin
  BY DEF FinishJoin
<1> HIDE DEF s1, s2
<1>4. /\ srv' \in [Node -> AServer]
      /\ \A k \in Node \ {n} : srv'[k] = srv[k]
      /\ srv'[n].up = srv[n].up
  BY <1>1, <1>2, <1>3 DEF Types
<1>5. j.id \in Nat /\ j.addr \in Addr
  BY <1>3, TypesGive
<1>6. AckMsg(ServerAddr(n), j.addr, j.id) \in Message
  BY <1>5, Values, MessageMade
<1>7. ErrorMsg(ServerAddr(n), j.addr) \in Message
  BY <1>5, Values, MessageMade
<1>8. net' \subseteq Message /\ Bounded(net')
  BY <1>3, <1>6, <1>7, SentOne DEF Types
<1> QED
  BY <1>4, <1>8, TypesKept DEF FinishJoin, Types

LEMMA TypesHandleAcknowledge ==
  ASSUME Types, NEW n \in Node, NEW m \in net, HandleAcknowledge(n, m)  PROVE Types'
<1> DEFINE c == CASE m.type \in {"Ack", "RoleChange"} ->
                       [cl[n] EXCEPT !.st = "playing", !.id = m.id]
                  [] m.type = "Error" -> [cl[n] EXCEPT !.st = "out"]
                  [] OTHER            -> [cl[n] EXCEPT !.st = "panicked"]
<1>1. c \in AClient
  <2>1. m.type \in {"Ack", "RoleChange"} => m.id \in Nat
    BY MessageFields DEF Types
  <2> QED
    BY <2>1, TypesGive DEF AClient, Ends
<1>2. cl' = [cl EXCEPT ![n] = c]
  BY DEF HandleAcknowledge
<1> HIDE DEF c
<1>3. cl' \in [Node -> AClient] /\ \A k \in Node \ {n} : cl'[k] = cl[k]
  BY <1>1, <1>2 DEF Types
<1>4. net' \subseteq Message /\ Bounded(net')
  BY Received DEF Types, HandleAcknowledge
<1>5. ~srv[n].up
  BY DEF HandleAcknowledge, ForClient
<1> QED
  BY <1>3, <1>4, <1>5, TypesKept DEF HandleAcknowledge, Types

LEMMA TypesPingBeforeAck ==
  ASSUME Types, NEW n \in Node, PingBeforeAck(n)  PROVE Types'
<1> DEFINE c == [cl[n] EXCEPT !.st = "panicked"]
<1>1. c \in AClient
  BY TypesGive DEF AClient, Ends
<1>2. cl' = [cl EXCEPT ![n] = c]
  BY DEF PingBeforeAck
<1> HIDE DEF c
<1>3. cl' \in [Node -> AClient] /\ \A k \in Node \ {n} : cl'[k] = cl[k]
  BY <1>1, <1>2 DEF Types
<1>4. ~srv[n].up
  BY TypesGive DEF PingBeforeAck
<1> QED
  BY <1>3, <1>4, TypesKept DEF PingBeforeAck, Types

LEMMA AppointedFields ==
  ASSUME Types, NEW n \in Node
  PROVE  /\ Appointed(srv[n]) \in AServer
         /\ Appointed(srv[n]).up = srv[n].up
         /\ Appointed(srv[n]).uniqueId = srv[n].uniqueId
         /\ Appointed(srv[n]).stateId = srv[n].stateId
         /\ Appointed(srv[n]).joining = srv[n].joining
         /\ Appointed(srv[n]).deputyId = ChosenDeputy(srv[n])
         /\ DOMAIN Appointed(srv[n]).players = DOMAIN srv[n].players
         /\ \A i \in DOMAIN srv[n].players :
              /\ Appointed(srv[n]).players[i].id = srv[n].players[i].id
              /\ Appointed(srv[n]).players[i].addr = srv[n].players[i].addr
              /\ Appointed(srv[n]).players[i].role =
                   IF /\ ChosenDeputy(srv[n]) # srv[n].deputyId
                      /\ srv[n].players[i].id = ChosenDeputy(srv[n])
                   THEN "DEPUTY" ELSE srv[n].players[i].role
         /\ ChosenDeputy(srv[n]) # srv[n].deputyId =>
              /\ ChosenDeputy(srv[n]) \in Candidates(srv[n].players)
              /\ ChosenDeputy(srv[n]) \in Ids(Appointed(srv[n]).players)
              /\ ChosenDeputy(srv[n]) \in Nat
<1> DEFINE d == ChosenDeputy(srv[n])
           players == srv[n].players
           w == WithRole(players, d, "DEPUTY")
<1>1. players \in Seq(PlayerType) /\ "DEPUTY" \in Role
  BY TypesGive DEF Role
<1>2. CASE d = srv[n].deputyId
  <2>1. Appointed(srv[n]) = srv[n]
    BY <1>2 DEF Appointed
  <2> QED
    BY <1>2, <2>1, TypesGive
<1>3. CASE d # srv[n].deputyId
  <2>1. /\ d \in Candidates(players)
        /\ \E i \in DOMAIN players : players[i].id = d
        /\ d \in Nat
    <3>1. d \in Candidates(players)
      BY <1>1, <1>3, ChosenOne
    <3> HIDE DEF d
    <3>2. \E i \in DOMAIN players : players[i].id = d
      BY <3>1 DEF Candidates
    <3> QED
      BY <1>1, <3>1, <3>2, ListEntries
  <2>2. /\ w \in Seq(PlayerType) /\ DOMAIN w = DOMAIN players
        /\ \A i \in DOMAIN players :
             /\ w[i].id = players[i].id /\ w[i].addr = players[i].addr
             /\ w[i].role = IF players[i].id = d THEN "DEPUTY" ELSE players[i].role
    BY <1>1, WithRoleEntry
  <2>3. Appointed(srv[n]) = [srv[n] EXCEPT !.deputyId = d, !.players = w]
    BY <1>3 DEF Appointed
  <2> HIDE DEF w, d
  <2>4. /\ Appointed(srv[n]) \in AServer
        /\ Appointed(srv[n]).up = srv[n].up
        /\ Appointed(srv[n]).uniqueId = srv[n].uniqueId
        /\ Appointed(srv[n]).stateId = srv[n].stateId
        /\ Appointed(srv[n]).joining = srv[n].joining
        /\ Appointed(srv[n]).deputyId = d
        /\ Appointed(srv[n]).players = w
    BY <2>1, <2>2, <2>3, TypesGive DEF AServer
  <2>5. d \in Ids(w)
    BY <2>1, <2>2 DEF Ids
  <2> QED
    BY <1>3, <2>1, <2>2, <2>4, <2>5 DEF d
<1> QED
  BY <1>2, <1>3

(* What a round sends: the role of a new deputy, and the state to each. *)
Told(n) ==
  IF ChosenDeputy(srv[n]) = srv[n].deputyId THEN {}
  ELSE {RoleMsg(ServerAddr(n), AddrOf(Appointed(srv[n]).players, ChosenDeputy(srv[n])),
                "DEPUTY", ChosenDeputy(srv[n]))}

Snapshot(n) == [order |-> srv[n].stateId + 1, players |-> srv[n].players]

States(n) == {StateMsg(ServerAddr(n), srv[n].players[i].addr, Snapshot(n)) :
                i \in DOMAIN srv[n].players}

LEMMA AppointParts ==
  ASSUME Types, NEW n \in Node, Appoint(n)
  PROVE  /\ srv[n].up
         /\ srv' = [srv EXCEPT ![n] = [Appointed(srv[n]) EXCEPT !.due = TRUE]]
         /\ Transmit({}, {m \in Told(n) : m.dst # ClientAddr(n)})
         /\ cl' = cl
<1> DEFINE d == ChosenDeputy(srv[n])
           s == Appointed(srv[n])
           told == IF d = srv[n].deputyId THEN {}
                   ELSE {RoleMsg(ServerAddr(n), AddrOf(s.players, s.deputyId), "DEPUTY",
                                 s.deputyId)}
<1>1. /\ srv[n].up
      /\ srv' = [srv EXCEPT ![n] = [s EXCEPT !.due = TRUE]]
      /\ Transmit({}, {m \in told : m.dst # ClientAddr(n)})
      /\ cl' = cl
  BY DEF Appoint
<1>2. s.deputyId = d
  BY AppointedFields
<1>3. told = Told(n)
  BY <1>2 DEF Told
<1> QED
  BY <1>1, <1>3

LEMMA TypesAppoint ==
  ASSUME Types, NEW n \in Node, Appoint(n)  PROVE Types'
<1> DEFINE d == ChosenDeputy(srv[n])
           s == Appointed(srv[n])
           t == [s EXCEPT !.due = TRUE]
           msgs == {m \in Told(n) : m.dst # ClientAddr(n)}
<1>1. s \in AServer
  BY AppointedFields
<1>2. t \in AServer /\ t.up = s.up
  <2> HIDE DEF s
  <2> QED
    BY <1>1 DEF AServer
<1>3. srv' = [srv EXCEPT ![n] = t] /\ t.up = srv[n].up
  BY <1>2, AppointParts, AppointedFields
<1> HIDE DEF t
<1>4. /\ srv' \in [Node -> AServer]
      /\ \A k \in Node \ {n} : srv'[k] = srv[k]
      /\ srv'[n].up = srv[n].up
  BY <1>2, <1>3 DEF Types
<1>5. Told(n) \subseteq Message /\ IsFiniteSet(Told(n))
  <2>1. CASE d = srv[n].deputyId
    BY <2>1, FS_EmptySet DEF Told
  <2>2. CASE d # srv[n].deputyId
    <3>1. s.players \in Seq(PlayerType) /\ d \in Ids(s.players) /\ d \in Nat
      BY <1>1, <2>2, AppointedFields DEF AServer
    <3> DEFINE a == AddrOf(s.players, d)
    <3>2. a \in Addr
      <4> HIDE DEF s, d
      <4> QED
        BY <3>1, AddrOfEntry, ListEntries
    <3>3. Told(n) = {RoleMsg(ServerAddr(n), a, "DEPUTY", d)}
      BY <2>2 DEF Told
    <3> HIDE DEF a, d
    <3>4. RoleMsg(ServerAddr(n), a, "DEPUTY", d) \in Message
      BY <3>1, <3>2, Values, MessageMade
    <3> QED
      BY <3>3, <3>4, FS_Singleton
  <2> QED
    BY <2>1, <2>2
<1>6. msgs \in SUBSET Message /\ IsFiniteSet(msgs)
  BY <1>5, FS_Subset
<1>7. net' \subseteq Message /\ Bounded(net')
  BY <1>6, AppointParts, Sent DEF Types
<1> QED
  BY <1>4, <1>7, AppointParts, TypesKept DEF Types

(* The state of a list that is not empty, to each that is listed. *)
LEMMA StatesTyped ==
  ASSUME Types, NEW n \in Node, SendStates(n)
  PROVE  States(n) \subseteq Message /\ IsFiniteSet(States(n))
<1> DEFINE players == srv[n].players
<1>1. /\ players \in Seq(PlayerType) /\ DOMAIN players = 1 .. Len(players)
      /\ Len(players) \in Nat
  BY TypesGive, ListEntries
<1>2. srv[n].stateId + 1 \in Order
  BY SessionAssumption, TypesGive DEF SendStates, Order
<1>3. IsFiniteSet(DOMAIN players)
  BY <1>1, FS_Interval
<1>4. States(n) = {StateMsg(ServerAddr(n), players[i].addr, Snapshot(n)) : i \in DOMAIN players}
  BY DEF States
<1>5. Snapshot(n) = [order |-> srv[n].stateId + 1, players |-> players]
  BY DEF Snapshot
<1> HIDE DEF players
<1>6. ASSUME NEW i \in DOMAIN players
      PROVE  StateMsg(ServerAddr(n), players[i].addr, Snapshot(n)) \in Message
  <2>1. players # << >>
    BY <1>1, <1>6, EmptySeq
  <2>2. Snapshot(n) \in SentState
    BY <1>1, <1>2, <1>5, <2>1 DEF SentState, AState
  <2>3. players[i].addr \in Addr
    BY <1>1, ListEntries
  <2> QED
    BY <2>2, <2>3, Values, MessageMade
<1> DEFINE f == [i \in DOMAIN players |-> StateMsg(ServerAddr(n), players[i].addr, Snapshot(n))]
<1>7. f \in [DOMAIN players -> States(n)]
  BY <1>4
<1>8. \A m \in States(n) : \E i \in DOMAIN players : f[i] = m
  BY <1>4
<1> HIDE DEF f
<1>9. f \in Surjection(DOMAIN players, States(n))
  BY <1>7, <1>8 DEF Surjection
<1> QED
  BY <1>3, <1>4, <1>6, <1>9, FS_Surjection

LEMMA TypesSendStates ==
  ASSUME Types, NEW n \in Node, SendStates(n)  PROVE Types'
<1> DEFINE t == [srv[n] EXCEPT !.stateId = srv[n].stateId + 1, !.due = FALSE]
           msgs == {m \in States(n) : m.dst # ClientAddr(n)}
<1>1. srv[n].stateId + 1 \in Order /\ srv[n] \in AServer
  BY SessionAssumption, TypesGive DEF SendStates, Order
<1>2. t \in AServer /\ t.up = srv[n].up
  BY <1>1 DEF AServer
<1>3. srv' = [srv EXCEPT ![n] = t]
  BY <1>1 DEF SendStates, AServer
<1> HIDE DEF t
<1>4. /\ srv' \in [Node -> AServer]
      /\ \A k \in Node \ {n} : srv'[k] = srv[k]
      /\ srv'[n].up = srv[n].up
  BY <1>2, <1>3 DEF Types
<1>5. msgs \in SUBSET Message /\ IsFiniteSet(msgs)
  BY StatesTyped, FS_Subset
<1>6. Transmit({}, msgs)
  BY DEF SendStates, States, Snapshot
<1> HIDE DEF msgs
<1>7. net' \subseteq Message /\ Bounded(net')
  BY <1>5, <1>6, Sent DEF Types
<1> QED
  BY <1>4, <1>7, TypesKept DEF Types, SendStates

LEMMA TypesHandleState ==
  ASSUME Types, NEW n \in Node, NEW m \in net, HandleState(n, m)  PROVE Types'
<1> DEFINE deputy == LastWithRole(m.state.players, "DEPUTY")
           d == IF deputy = 0 THEN cl[n].deputyId ELSE m.state.players[deputy].id
           c == [cl[n] EXCEPT !.last = m.state, !.deputyId = d]
<1>1. m.state \in SentState /\ m.state.players \in Seq(PlayerType)
  BY MessageFields DEF Types, HandleState, SentState, AState
<1>2. d \in Nat \cup {-1}
  BY <1>1, LastWithRoleEntry, ListEntries, TypesGive
<1>3. c \in AClient
  <2> HIDE DEF d
  <2> QED
    BY <1>1, <1>2, TypesGive DEF AClient
<1>4. cl' = [cl EXCEPT ![n] = c] /\ c.st = cl[n].st
  BY TypesGive DEF HandleState, AClient
<1> HIDE DEF c
<1>5. /\ cl' \in [Node -> AClient]
      /\ \A k \in Node \ {n} : cl'[k] = cl[k]
      /\ cl'[n].st = cl[n].st
  BY <1>3, <1>4 DEF Types
<1>6. net' \subseteq Message /\ Bounded(net')
  BY Received DEF Types, HandleState
<1> QED
  BY <1>5, <1>6, TypesKept DEF HandleState, Types

(* The server that a deputy starts from its last state. *)
LEMMA ServerFromFields ==
  ASSUME Types, NEW n \in Node, cl[n].last # NoState
  PROVE  /\ ServerFrom(n) \in AServer
         /\ ServerFrom(n).up
         /\ ServerFrom(n).players = TakenOver(n)
         /\ ServerFrom(n).joining = NoJoin
         /\ ServerFrom(n).uniqueId = FirstFreeId(TakenOver(n))
         /\ \/ ServerFrom(n).deputyId = -1
            \/ \E i \in DOMAIN TakenOver(n) :
                 /\ TakenOver(n)[i].role = "NORMAL"
                 /\ TakenOver(n)[i].id = ServerFrom(n).deputyId
<1> DEFINE t == TakenOver(n)
           normal == LastWithRole(t, "NORMAL")
           d == IF normal = 0 THEN -1 ELSE t[normal].id
           u == FirstFreeId(t)
<1>1. /\ cl[n].last.players \in Seq(PlayerType) /\ cl[n].last.order \in Order
      /\ cl[n].last.players # << >>
  BY TypesGive DEF SentState
<1>2. /\ t \in Seq(PlayerType) /\ DOMAIN t = DOMAIN cl[n].last.players
  BY <1>1, TakenOverEntry
<1>3. t # << >>
  BY <1>1, <1>2, EmptySeq, LenProperties
<1>4. ServerFrom(n) = [up |-> TRUE, players |-> t, deputyId |-> d, uniqueId |-> u,
                       stateId |-> cl[n].last.order, joining |-> NoJoin, due |-> FALSE]
  BY DEF ServerFrom, TakenOver
<1> HIDE DEF t
<1>5. d = -1 \/ \E i \in DOMAIN t : t[i].role = "NORMAL" /\ t[i].id = d
  BY <1>2, LastWithRoleEntry
<1>6. d \in Nat \cup {-1}
  BY <1>2, <1>5, ListEntries
<1>7. u \in Nat
  BY <1>2, <1>3, FirstFreeIdBounds
<1> HIDE DEF d, u
<1>8. ServerFrom(n) \in AServer
  BY <1>1, <1>2, <1>4, <1>6, <1>7 DEF AServer
<1> QED
  BY <1>4, <1>5, <1>8 DEF t, u

LEMMA TypesTakeOver ==
  ASSUME Types, NEW n \in Node, TakeOver(n), cl[n].st = "playing", ~srv[n].up
  PROVE  /\ cl' \in [Node -> AClient] /\ srv' \in [Node -> AServer]
         /\ \A k \in Node \ {n} : cl'[k] = cl[k] /\ srv'[k] = srv[k]
         /\ srv'[n].up => cl'[n].st \in {"playing", "out"}
<1>1. CASE cl[n].last = NoState
  <2> DEFINE c == [cl[n] EXCEPT !.st = "panicked"]
  <2>1. c \in AClient
    BY TypesGive DEF AClient, Ends
  <2>2. cl' = [cl EXCEPT ![n] = c] /\ UNCHANGED srv
    BY <1>1 DEF TakeOver
  <2> HIDE DEF c
  <2> QED
    BY <2>1, <2>2 DEF Types
<1>2. CASE cl[n].last # NoState
  <2> DEFINE c == [cl[n] EXCEPT !.role = "MASTER", !.peer = ServerAddr(n)]
  <2>1. c \in AClient /\ c.st = cl[n].st
    BY Values, TypesGive DEF AClient, Role
  <2>2. /\ cl' = [cl EXCEPT ![n] = c]
        /\ srv' = [srv EXCEPT ![n] = ServerFrom(n)]
    BY <1>2 DEF TakeOver
  <2>3. ServerFrom(n) \in AServer
    BY <1>2, ServerFromFields
  <2> HIDE DEF c
  <2> QED
    BY <2>1, <2>2, <2>3 DEF Types
<1> QED
  BY <1>1, <1>2

LEMMA TypesHandleRoleChange ==
  ASSUME Types, NEW n \in Node, NEW m \in net, HandleRoleChange(n, m)  PROVE Types'
<1>1. net' \subseteq Message /\ Bounded(net')
  BY Received DEF Types, HandleRoleChange
<1>2. cl[n].st = "playing" /\ ~srv[n].up
  BY DEF HandleRoleChange, ForClient, Playing
<1>3. CASE TakeOver(n)
  BY <1>1, <1>2, <1>3, TypesTakeOver, TypesKept
<1>4. CASE /\ cl' = [cl EXCEPT ![n].role = "DEPUTY", ![n].deputyId = cl[n].id]
           /\ UNCHANGED srv
  <2> DEFINE c == [cl[n] EXCEPT !.role = "DEPUTY", !.deputyId = cl[n].id]
  <2>1. c \in AClient
    BY TypesGive DEF AClient, Role
  <2>2. cl' = [cl EXCEPT ![n] = c]
    BY <1>4
  <2> HIDE DEF c
  <2>3. cl' \in [Node -> AClient] /\ \A k \in Node \ {n} : cl'[k] = cl[k]
    BY <2>1, <2>2 DEF Types
  <2> QED
    BY <1>1, <1>2, <1>4, <2>3, TypesKept DEF Types
<1> QED
  BY <1>3, <1>4 DEF HandleRoleChange

LEMMA TypesQuit ==
  ASSUME Types, NEW n \in Node, Quit(n), cl[n].st = "playing"  PROVE Types'
<1> DEFINE c == [cl[n] EXCEPT !.st = "out"]
<1>1. c \in AClient /\ c.st = "out"
  BY TypesGive DEF AClient, Ends
<1>2. cl' = [cl EXCEPT ![n] = c]
  BY DEF Quit
<1> HIDE DEF c
<1>3. /\ cl' \in [Node -> AClient]
      /\ \A k \in Node \ {n} : cl'[k] = cl[k]
      /\ cl'[n].st = "out"
  BY <1>1, <1>2 DEF Types
<1>4. RoleMsg(ClientAddr(n), cl[n].peer, "VIEWER", cl[n].id) \in Message
  BY Values, TypesGive, MessageMade
<1>5. net' \subseteq Message /\ Bounded(net')
  BY <1>4, SentOne DEF Types, Quit
<1> QED
  BY <1>3, <1>5, TypesKept DEF Quit, Types

LEMMA TypesFollowDeputy ==
  ASSUME Types, NEW n \in Node, FollowDeputy(n), cl[n].st = "playing", ~srv[n].up
  PROVE  Types'
<1> DEFINE players == cl[n].last.players
           found   == LastWithId(players, cl[n].deputyId)
<1>1. CASE Quit(n)
  BY <1>1, TypesQuit
<1>2. CASE cl' = [cl EXCEPT ![n].st = "panicked"] /\ UNCHANGED <<srv, net>>
  <2> DEFINE c == [cl[n] EXCEPT !.st = "panicked"]
  <2>1. c \in AClient
    BY TypesGive DEF AClient, Ends
  <2>2. cl' = [cl EXCEPT ![n] = c]
    BY <1>2
  <2> HIDE DEF c
  <2>3. cl' \in [Node -> AClient] /\ \A k \in Node \ {n} : cl'[k] = cl[k]
    BY <2>1, <2>2 DEF Types
  <2> QED
    BY <1>2, <2>3, TypesKept DEF Types
<1>3. CASE /\ found # 0
           /\ cl' = [cl EXCEPT ![n].peer = players[found].addr, ![n].deputyId = -1]
           /\ UNCHANGED <<srv, net>>
  <2> DEFINE c == [cl[n] EXCEPT !.peer = players[found].addr, !.deputyId = -1]
  <2>1. players[found].addr \in Addr
    BY <1>3, TypesGive, LastWithIdEntry, ListEntries
  <2>2. c \in AClient
    BY <2>1, TypesGive DEF AClient
  <2>3. cl' = [cl EXCEPT ![n] = c]
    BY <1>3
  <2> HIDE DEF c
  <2>4. cl' \in [Node -> AClient] /\ \A k \in Node \ {n} : cl'[k] = cl[k]
    BY <2>2, <2>3 DEF Types
  <2> QED
    BY <1>3, <2>4, TypesKept DEF Types
<1> QED
  BY <1>1, <1>2, <1>3 DEF FollowDeputy

LEMMA TypesSuspect ==
  ASSUME Types, NEW n \in Node, Suspect(n)  PROVE Types'
<1>1. cl[n].st = "playing" /\ ~srv[n].up
  BY DEF Suspect, Playing
<1>2. CASE TakeOver(n) /\ UNCHANGED net
  BY <1>1, <1>2, TypesTakeOver, TypesKept DEF Types
<1>3. CASE FollowDeputy(n)
  BY <1>1, <1>3, TypesFollowDeputy
<1> QED
  BY <1>2, <1>3 DEF Suspect

LEMMA TypesRemoveSilent ==
  ASSUME Types, NEW n \in Node, NEW id, RemoveSilent(n, id)  PROVE Types'
<1> DEFINE s == Without(srv[n], id)
<1>1. s \in AServer /\ s.up = srv[n].up
  <2>1. WithoutId(srv[n].players, id) \in Seq(PlayerType)
    BY TypesGive, WithoutIdEntry
  <2> QED
    BY <2>1, TypesGive DEF Without, AServer
<1>2. srv' = [srv EXCEPT ![n] = s] /\ UNCHANGED <<cl, net>>
  BY DEF RemoveSilent
<1> HIDE DEF s
<1>3. /\ srv' \in [Node -> AServer]
      /\ \A k \in Node \ {n} : srv'[k] = srv[k]
      /\ srv'[n].up = srv[n].up
  BY <1>1, <1>2 DEF Types
<1> QED
  BY <1>2, <1>3, TypesKept DEF Types

LEMMA TypesStopServer ==
  ASSUME Types, NEW n \in Node, StopServer(n)  PROVE Types'
<1> DEFINE s == srv[n]
           a == AddrOf(s.players, s.deputyId)
<1>1. /\ srv' = [srv EXCEPT ![n] = NoServer]
      /\ \/ UNCHANGED <<cl, net>>
         \/ /\ s.deputyId \in Ids(s.players) /\ UNCHANGED cl
            /\ Transmit({}, {RoleMsg(ServerAddr(n), a, "MASTER", s.deputyId)})
         \/ cl' = [cl EXCEPT ![n].st = "panicked"] /\ UNCHANGED net
  BY DEF StopServer
<1>2. /\ srv' \in [Node -> AServer]
      /\ \A k \in Node \ {n} : srv'[k] = srv[k]
      /\ ~srv'[n].up
  BY <1>1, Values DEF Types, NoServer
<1>3. CASE UNCHANGED <<cl, net>>
  BY <1>2, <1>3, TypesKept DEF Types
<1>4. CASE /\ s.deputyId \in Ids(s.players) /\ UNCHANGED cl
           /\ Transmit({}, {RoleMsg(ServerAddr(n), a, "MASTER", s.deputyId)})
  <2>1. a \in Addr /\ s.deputyId \in Nat
    <3>1. s.players \in Seq(PlayerType)
      BY TypesGive
    <3>2. PICK i \in DOMAIN s.players : s.players[i].id = s.deputyId /\ a = s.players[i].addr
      BY <1>4, <3>1, AddrOfEntry
    <3> QED
      BY <3>1, <3>2, ListEntries
  <2> HIDE DEF a
  <2>2. RoleMsg(ServerAddr(n), a, "MASTER", s.deputyId) \in Message
    BY <2>1, Values, MessageMade
  <2>3. net' \subseteq Message /\ Bounded(net')
    BY <1>4, <2>2, SentOne DEF Types
  <2> QED
    BY <1>2, <1>4, <2>3, TypesKept DEF Types
<1>5. CASE cl' = [cl EXCEPT ![n].st = "panicked"] /\ UNCHANGED net
  <2> DEFINE c == [cl[n] EXCEPT !.st = "panicked"]
  <2>1. c \in AClient
    BY TypesGive DEF AClient, Ends
  <2>2. cl' = [cl EXCEPT ![n] = c]
    BY <1>5
  <2> HIDE DEF c
  <2>3. cl' \in [Node -> AClient] /\ \A k \in Node \ {n} : cl'[k] = cl[k]
    BY <2>1, <2>2 DEF Types
  <2> QED
    BY <1>2, <1>5, <2>3, TypesKept DEF Types
<1> QED
  BY <1>1, <1>3, <1>4, <1>5

LEMMA TypesHandleLeaver ==
  ASSUME Types, NEW n \in Node, NEW m \in net, HandleLeaver(n, m)  PROVE Types'
<1> DEFINE s == [srv[n] EXCEPT !.players = ViewersAfter(@, m.id)]
<1>1. s \in AServer /\ s.up = srv[n].up
  <2>1. ViewersAfter(srv[n].players, m.id) \in Seq(PlayerType)
    BY TypesGive, ViewersAfterEntry
  <2> QED
    BY <2>1, TypesGive DEF AServer
<1>2. srv' = srv \/ srv' = [srv EXCEPT ![n] = s]
  BY DEF HandleLeaver
<1> HIDE DEF s
<1>3. /\ srv' \in [Node -> AServer]
      /\ \A k \in Node \ {n} : srv'[k] = srv[k]
      /\ srv'[n].up = srv[n].up
  BY <1>1, <1>2 DEF Types
<1>4. net' \subseteq Message /\ Bounded(net')
  BY Received DEF Types, HandleLeaver
<1> QED
  BY <1>3, <1>4, TypesKept DEF Types, HandleLeaver

LEMMA TypesCrash ==
  ASSUME Types, NEW n \in Node, Crash(n)  PROVE Types'
<1> DEFINE c == [cl[n] EXCEPT !.st = "crashed"]
<1>1. c \in AClient
  BY TypesGive DEF AClient, Ends
<1>2. cl' = [cl EXCEPT ![n] = c]
  BY DEF Crash
<1> HIDE DEF c
<1>3. cl' \in [Node -> AClient] /\ \A k \in Node \ {n} : cl'[k] = cl[k]
  BY <1>1, <1>2 DEF Types
<1>4. /\ srv' \in [Node -> AServer]
      /\ \A k \in Node \ {n} : srv'[k] = srv[k]
      /\ ~srv'[n].up
  BY Values DEF Types, NoServer, Crash
<1> QED
  BY <1>3, <1>4, TypesKept DEF Types, Crash

LEMMA TypesDiscard ==
  ASSUME Types, NEW m \in net, Discard(m)  PROVE Types'
<1>1. net' = net \ {m} /\ UNCHANGED <<cl, srv>>
  BY DEF Discard
<1>2. net' \subseteq Message /\ Bounded(net')
  BY <1>1, Received DEF Types
<1> QED
  BY <1>1, <1>2 DEF Types, Bounded

LEMMA TypesNext ==
  ASSUME Types, [Next]_vars  PROVE Types'
<1>1. ASSUME NEW n \in Node, ClientStep(n)  PROVE Types'
  BY <1>1, TypesJoin, TypesPingBeforeAck, TypesHandleAcknowledge, TypesHandleState,
     TypesHandleRoleChange, TypesSuspect, TypesQuit DEF ClientStep, Leave, Playing
<1>2. ASSUME NEW n \in Node, ServerStep(n)  PROVE Types'
  BY <1>2, TypesFinishJoin, TypesAppoint, TypesSendStates, TypesRemoveSilent, TypesStopServer
  DEF ServerStep
<1>3. CASE UNCHANGED vars
  BY <1>3 DEF vars, Types, Bounded
<1> QED
  BY <1>1, <1>2, <1>3, TypesCrash, TypesDiscard, TypesHandleJoin, TypesHandleLeaver DEF Next

LEMMA TypesAlways == Spec => []Types
<1>1. Init => Types
  BY TypesInit
<1>2. Types /\ [Next]_vars => Types'
  BY TypesNext
<1> QED
  BY <1>1, <1>2, PTL DEF Spec

LEMMA TypesAreOK == ASSUME Types  PROVE TypeOK
BY TypesGive DEF Types, TypeOK, Ends, Bounded

(* Clients, servers and states are what the names say, whatever is lost and *)
(* whoever crashes: TypeOK, from the types of every field.                  *)
THEOREM TypeCorrect == Spec => []TypeOK
BY TypesAlways, TypesAreOK, PTL

-----------------------------------------------------------------------------
(* What each step does, field by field *)

SameClient(n) == cl'[n] = cl[n]

(* Which membership is about: what is due and which state is next is not. *)
SameServer(n) ==
  /\ srv'[n].up = srv[n].up /\ srv'[n].players = srv[n].players
  /\ srv'[n].deputyId = srv[n].deputyId /\ srv'[n].uniqueId = srv[n].uniqueId
  /\ srv'[n].joining = srv[n].joining

OthersSame(n) == \A k \in Node \ {n} : SameClient(k) /\ SameServer(k)

(* n's client is gone, one way or another. *)
ClientEnds(n) ==
  /\ cl'[n].st \in {"out", "panicked", "crashed"}
  /\ cl'[n].role = cl[n].role /\ cl'[n].peer = cl[n].peer /\ cl'[n].id = cl[n].id
  /\ cl'[n].last = cl[n].last

LEMMA SentWhat ==
  ASSUME NEW msgs, Transmit({}, msgs)
  PROVE  net' \subseteq net \cup msgs
BY DEF Transmit

LEMMA RepliedWhat ==
  ASSUME NEW m, NEW r, Reply(m, r)
  PROVE  net' \subseteq (net \ {m}) \cup {r}
BY DEF Reply, Transmit

LEMMA JoinDoes ==
  ASSUME Types, NEW n \in Node, NEW m \in Node, Join(n, m)
  PROVE  /\ cl[n].st = "idle" /\ srv[m].up /\ OthersSame(n) /\ SameServer(n)
         /\ cl'[n].st = "joining" /\ cl'[n].role \in {"NORMAL", "VIEWER"}
         /\ cl'[n].peer = ServerAddr(m) /\ cl'[n].last = cl[n].last
         /\ net' \subseteq net \cup {JoinMsg(ServerAddr(n), ServerAddr(m), cl'[n].role)}
<1>1. PICK role \in {"NORMAL", "VIEWER"} :
        /\ cl' = [cl EXCEPT ![n].st = "joining", ![n].role = role,
                            ![n].peer = ServerAddr(m)]
        /\ Transmit({}, {JoinMsg(ServerAddr(n), ServerAddr(m), role)})
  BY DEF Join
<1> DEFINE c == [cl[n] EXCEPT !.st = "joining", !.role = role, !.peer = ServerAddr(m)]
<1>2. /\ c.st = "joining" /\ c.role = role /\ c.peer = ServerAddr(m) /\ c.last = cl[n].last
  BY TypesGive DEF AClient
<1>3. cl' = [cl EXCEPT ![n] = c]
  BY <1>1
<1> HIDE DEF c
<1>4. cl'[n] = c /\ \A k \in Node \ {n} : cl'[k] = cl[k]
  BY <1>3 DEF Types
<1>5. net' \subseteq net \cup {JoinMsg(ServerAddr(n), ServerAddr(m), role)}
  BY <1>1, SentWhat
<1> QED
  BY <1>2, <1>4, <1>5 DEF Join, OthersSame, SameClient, SameServer

(* The player is listed. *)
Listing(n, m) ==
  /\ srv'[n].up /\ m.role \in {"NORMAL", "VIEWER"} /\ m.src \in Addr
  /\ srv'[n].players = Append(srv[n].players, Player(srv[n].uniqueId, m.src, m.role))
  /\ srv'[n].uniqueId = srv[n].uniqueId + 1
  /\ srv'[n].deputyId = srv[n].deputyId
  /\ \/ /\ m.role = "VIEWER" /\ srv'[n].joining = NoJoin
        /\ net' \subseteq (net \ {m}) \cup {AckMsg(ServerAddr(n), m.src, srv[n].uniqueId)}
     \/ /\ m.role = "NORMAL"
        /\ srv'[n].joining = [id |-> srv[n].uniqueId, addr |-> m.src]
        /\ net' = net \ {m}

LEMMA HandleJoinDoes ==
  ASSUME Types, NEW n \in Node, NEW m \in net, HandleJoin(n, m)
  PROVE  /\ m.type = "Join" /\ m.dst = ServerAddr(n)
         /\ srv[n].up /\ srv[n].joining = NoJoin
         /\ OthersSame(n) /\ SameClient(n)
         /\ \/ /\ SameServer(n) /\ mishaps' = mishaps
               /\ net' \subseteq (net \ {m}) \cup {ErrorMsg(ServerAddr(n), m.src)}
            \/ /\ Listing(n, m)
               /\ mishaps' = IF srv[n].uniqueId \in Ids(srv[n].players)
                             THEN mishaps \cup {"id twice"} ELSE mishaps
<1> DEFINE id == srv[n].uniqueId
           t  == Append(srv[n].players, Player(id, m.src, m.role))
           listed == [srv[n] EXCEPT !.players = t, !.uniqueId = srv[n].uniqueId + 1]
           s == [listed EXCEPT !.joining = [id |-> id, addr |-> m.src]]
<1>1. /\ m.type = "Join" /\ m.src \in Addr /\ m.dst \in Addr
      /\ m.role \in {"NORMAL", "VIEWER"}
  BY MessageFields DEF Types, HandleJoin
<1>2. m.dst = ServerAddr(n) /\ srv[n].up /\ srv[n].joining = NoJoin /\ cl' = cl
  BY DEF HandleJoin, ForServer
<1>3. /\ listed.up = srv[n].up /\ listed.players = t /\ listed.uniqueId = id + 1
      /\ listed.deputyId = srv[n].deputyId /\ listed.joining = srv[n].joining
  BY TypesGive DEF AServer
<1>4. /\ s.up = srv[n].up /\ s.players = t /\ s.uniqueId = id + 1
      /\ s.deputyId = srv[n].deputyId /\ s.joining = [id |-> id, addr |-> m.src]
  BY TypesGive DEF AServer
<1>5. /\ \/ /\ Full(srv[n].players)
            /\ Reply(m, ErrorMsg(m.dst, m.src))
            /\ UNCHANGED srv
         \/ /\ ~Full(srv[n].players) /\ m.role = "VIEWER"
            /\ srv' = [srv EXCEPT ![n] = listed]
            /\ Reply(m, AckMsg(m.dst, m.src, id))
         \/ /\ ~Full(srv[n].players) /\ m.role # "VIEWER"
            /\ srv' = [srv EXCEPT ![n] = s]
            /\ net' = net \ {m}
      /\ mishaps' = IF ~Full(srv[n].players) /\ id \in Ids(srv[n].players)
                    THEN mishaps \cup {"id twice"} ELSE mishaps
  BY DEF HandleJoin, NextId
<1> HIDE DEF listed, s, t, id
<1>6. CASE /\ Full(srv[n].players)
           /\ Reply(m, ErrorMsg(m.dst, m.src))
           /\ UNCHANGED srv
  <2>1. net' \subseteq (net \ {m}) \cup {ErrorMsg(ServerAddr(n), m.src)}
    BY <1>2, <1>6, RepliedWhat
  <2> QED
    BY <1>1, <1>2, <1>5, <1>6, <2>1 DEF OthersSame, SameClient, SameServer
<1>7. CASE /\ ~Full(srv[n].players) /\ m.role = "VIEWER"
           /\ srv' = [srv EXCEPT ![n] = listed]
           /\ Reply(m, AckMsg(m.dst, m.src, id))
  <2>1. srv'[n] = listed /\ \A k \in Node \ {n} : srv'[k] = srv[k]
    BY <1>7 DEF Types
  <2>2. net' \subseteq (net \ {m}) \cup {AckMsg(ServerAddr(n), m.src, id)}
    BY <1>2, <1>7, RepliedWhat
  <2>3. Listing(n, m)
    BY <1>1, <1>2, <1>3, <1>7, <2>1, <2>2 DEF Listing, t, id
  <2> QED
    BY <1>1, <1>2, <1>5, <1>7, <2>1, <2>3 DEF OthersSame, SameClient, SameServer, id
<1>8. CASE /\ ~Full(srv[n].players) /\ m.role # "VIEWER"
           /\ srv' = [srv EXCEPT ![n] = s]
           /\ net' = net \ {m}
  <2>1. srv'[n] = s /\ \A k \in Node \ {n} : srv'[k] = srv[k]
    BY <1>8 DEF Types
  <2>2. Listing(n, m)
    BY <1>1, <1>2, <1>4, <1>8, <2>1 DEF Listing, t, id
  <2> QED
    BY <1>1, <1>2, <1>5, <1>8, <2>1, <2>2 DEF OthersSame, SameClient, SameServer, id
<1> QED
  BY <1>5, <1>6, <1>7, <1>8

LEMMA FinishJoinDoes ==
  ASSUME Types, NEW n \in Node, FinishJoin(n)
  PROVE  /\ srv[n].up /\ srv[n].joining # NoJoin
         /\ OthersSame(n) /\ SameClient(n)
         /\ srv'[n].up /\ srv'[n].uniqueId = srv[n].uniqueId
         /\ srv'[n].deputyId = srv[n].deputyId /\ srv'[n].joining = NoJoin
         /\ \/ /\ srv'[n].players = srv[n].players
               /\ net' \subseteq net \cup {AckMsg(ServerAddr(n), srv[n].joining.addr,
                                                  srv[n].joining.id)}
            \/ /\ srv'[n].players = WithoutId(srv[n].players, srv[n].joining.id)
               /\ net' \subseteq net \cup {ErrorMsg(ServerAddr(n), srv[n].joining.addr)}
<1> DEFINE j  == srv[n].joining
           s1 == [srv[n] EXCEPT !.joining = NoJoin]
           t  == WithoutId(srv[n].players, j.id)
           s2 == [srv[n] EXCEPT !.joining = NoJoin, !.players = t]
<1>1. /\ s1.up = srv[n].up /\ s1.players = srv[n].players /\ s1.uniqueId = srv[n].uniqueId
      /\ s1.deputyId = srv[n].deputyId /\ s1.joining = NoJoin
  BY TypesGive DEF AServer
<1>2. /\ s2.up = srv[n].up /\ s2.players = t /\ s2.uniqueId = srv[n].uniqueId
      /\ s2.deputyId = srv[n].deputyId /\ s2.joining = NoJoin
  BY TypesGive DEF AServer
<1>3. /\ srv[n].up /\ j # NoJoin /\ cl' = cl
      /\ \/ /\ srv' = [srv EXCEPT ![n] = s1]
            /\ Transmit({}, {AckMsg(ServerAddr(n), j.addr, j.id)})
         \/ /\ srv' = [srv EXCEPT ![n] = s2]
            /\ Transmit({}, {ErrorMsg(ServerAddr(n), j.addr)})
  BY DEF FinishJoin
<1> HIDE DEF s1, s2, t
<1>4. CASE /\ srv' = [srv EXCEPT ![n] = s1]
           /\ Transmit({}, {AckMsg(ServerAddr(n), j.addr, j.id)})
  <2>1. srv'[n] = s1 /\ \A k \in Node \ {n} : srv'[k] = srv[k]
    BY <1>4 DEF Types
  <2>2. net' \subseteq net \cup {AckMsg(ServerAddr(n), j.addr, j.id)}
    BY <1>4, SentWhat
  <2> QED
    BY <1>1, <1>3, <2>1, <2>2 DEF OthersSame, SameClient, SameServer
<1>5. CASE /\ srv' = [srv EXCEPT ![n] = s2]
           /\ Transmit({}, {ErrorMsg(ServerAddr(n), j.addr)})
  <2>1. srv'[n] = s2 /\ \A k \in Node \ {n} : srv'[k] = srv[k]
    BY <1>5 DEF Types
  <2>2. net' \subseteq net \cup {ErrorMsg(ServerAddr(n), j.addr)}
    BY <1>5, SentWhat
  <2> QED
    BY <1>2, <1>3, <2>1, <2>2 DEF OthersSame, SameClient, SameServer, t
<1> QED
  BY <1>3, <1>4, <1>5

LEMMA HandleAcknowledgeDoes ==
  ASSUME Types, NEW n \in Node, NEW m \in net, HandleAcknowledge(n, m)
  PROVE  /\ cl[n].st = "joining" /\ ~srv[n].up
         /\ m.src = cl[n].peer /\ m.dst = ServerAddr(n)
         /\ OthersSame(n) /\ SameServer(n) /\ net' = net \ {m}
         /\ \/ /\ m.type \in {"Ack", "RoleChange"} /\ m.id \in Nat
               /\ cl'[n].st = "playing" /\ cl'[n].id = m.id
               /\ cl'[n].role = cl[n].role /\ cl'[n].peer = cl[n].peer
               /\ cl'[n].last = cl[n].last
            \/ m.type \notin {"Ack", "RoleChange"} /\ ClientEnds(n)
<1> DEFINE c1 == [cl[n] EXCEPT !.st = "playing", !.id = m.id]
           c2 == [cl[n] EXCEPT !.st = "out"]
           c3 == [cl[n] EXCEPT !.st = "panicked"]
<1>1. m.type \in {"Ack", "RoleChange"} => m.id \in Nat
  BY MessageFields DEF Types
<1>2. /\ c1.st = "playing" /\ c1.id = m.id /\ c1.role = cl[n].role
      /\ c1.peer = cl[n].peer /\ c1.last = cl[n].last
  BY TypesGive DEF AClient
<1>3. /\ c2.st = "out" /\ c2.id = cl[n].id /\ c2.role = cl[n].role
      /\ c2.peer = cl[n].peer /\ c2.last = cl[n].last
  BY TypesGive DEF AClient
<1>4. /\ c3.st = "panicked" /\ c3.id = cl[n].id /\ c3.role = cl[n].role
      /\ c3.peer = cl[n].peer /\ c3.last = cl[n].last
  BY TypesGive DEF AClient
<1>5. cl' = [cl EXCEPT ![n] =
               CASE m.type \in {"Ack", "RoleChange"} -> c1
                 [] m.type = "Error"                 -> c2
                 [] OTHER                            -> c3]
  BY DEF HandleAcknowledge
<1>6. /\ cl[n].st = "joining" /\ ~srv[n].up /\ m.src = cl[n].peer /\ m.dst = ServerAddr(n)
      /\ net' = net \ {m} /\ srv' = srv
  BY DEF HandleAcknowledge, ForClient, ClientAddr, ServerAddr
<1> HIDE DEF c1, c2, c3
<1>7. /\ \A k \in Node \ {n} : cl'[k] = cl[k]
      /\ m.type \in {"Ack", "RoleChange"} => cl'[n] = c1
      /\ m.type \notin {"Ack", "RoleChange"} => cl'[n] = c2 \/ cl'[n] = c3
  BY <1>5 DEF Types
<1> QED
  BY <1>1, <1>2, <1>3, <1>4, <1>6, <1>7 DEF OthersSame, SameClient, SameServer, ClientEnds

LEMMA PanicDoes ==
  ASSUME Types, NEW n \in Node, NEW st \in {"out", "panicked", "crashed"},
         cl' = [cl EXCEPT ![n].st = st]
  PROVE  /\ \A k \in Node \ {n} : SameClient(k)
         /\ cl'[n].st = st /\ ClientEnds(n)
<1> DEFINE c == [cl[n] EXCEPT !.st = st]
<1>1. /\ c.st = st /\ c.id = cl[n].id /\ c.role = cl[n].role
      /\ c.peer = cl[n].peer /\ c.last = cl[n].last
  BY TypesGive DEF AClient
<1>2. cl' = [cl EXCEPT ![n] = c]
  OBVIOUS
<1> HIDE DEF c
<1>3. cl'[n] = c /\ \A k \in Node \ {n} : cl'[k] = cl[k]
  BY <1>2 DEF Types
<1> QED
  BY <1>1, <1>3 DEF SameClient, ClientEnds

LEMMA PingBeforeAckDoes ==
  ASSUME Types, NEW n \in Node, PingBeforeAck(n)
  PROVE  /\ cl[n].st = "joining" /\ OthersSame(n) /\ SameServer(n) /\ ClientEnds(n)
         /\ net' = net
BY PanicDoes DEF PingBeforeAck, OthersSame, SameServer

LEMMA AppointDoes ==
  ASSUME Types, NEW n \in Node, Appoint(n)
  PROVE  /\ srv[n].up /\ OthersSame(n) /\ SameClient(n)
         /\ srv'[n].up /\ srv'[n].uniqueId = srv[n].uniqueId
         /\ srv'[n].joining = srv[n].joining
         /\ srv'[n].deputyId = ChosenDeputy(srv[n])
         /\ srv'[n].players = Appointed(srv[n]).players
         /\ net' \subseteq net \cup {m \in Told(n) : m.dst # ClientAddr(n)}
<1> DEFINE s == Appointed(srv[n])
           t == [s EXCEPT !.due = TRUE]
<1>1. /\ s \in AServer /\ s.up = srv[n].up /\ s.uniqueId = srv[n].uniqueId
      /\ s.joining = srv[n].joining /\ s.deputyId = ChosenDeputy(srv[n])
  BY AppointedFields
<1>2. srv' = [srv EXCEPT ![n] = t]
  BY AppointParts
<1> HIDE DEF s
<1>3. /\ t.up = s.up /\ t.uniqueId = s.uniqueId /\ t.joining = s.joining
      /\ t.deputyId = s.deputyId /\ t.players = s.players
  BY <1>1 DEF AServer
<1> HIDE DEF t
<1>4. srv'[n] = t /\ \A k \in Node \ {n} : srv'[k] = srv[k]
  BY <1>2 DEF Types
<1> DEFINE msgs == {m \in Told(n) : m.dst # ClientAddr(n)}
<1>5. net' \subseteq net \cup msgs
  <2>1. Transmit({}, msgs)
    BY AppointParts
  <2> HIDE DEF msgs
  <2> QED
    BY <2>1, SentWhat
<1> QED
  BY <1>1, <1>3, <1>4, <1>5, AppointParts DEF OthersSame, SameClient, SameServer, s

(* Sending the state leaves the membership alone. *)
LEMMA SendStatesDoes ==
  ASSUME Types, NEW n \in Node, SendStates(n)
  PROVE  /\ srv[n].up /\ OthersSame(n) /\ SameClient(n) /\ SameServer(n)
         /\ net' \subseteq net \cup {m \in States(n) : m.dst # ClientAddr(n)}
<1> DEFINE t == [srv[n] EXCEPT !.stateId = srv[n].stateId + 1, !.due = FALSE]
           msgs == {m \in States(n) : m.dst # ClientAddr(n)}
<1>1. /\ t.up = srv[n].up /\ t.uniqueId = srv[n].uniqueId /\ t.joining = srv[n].joining
      /\ t.deputyId = srv[n].deputyId /\ t.players = srv[n].players
  BY TypesGive DEF AServer
<1>2. srv' = [srv EXCEPT ![n] = t]
  BY TypesGive DEF SendStates, AServer
<1> HIDE DEF t
<1>3. srv'[n] = t /\ \A k \in Node \ {n} : srv'[k] = srv[k]
  BY <1>2 DEF Types
<1>4. Transmit({}, msgs)
  BY DEF SendStates, States, Snapshot
<1>5. net' \subseteq net \cup msgs
  <2> HIDE DEF msgs
  <2> QED
    BY <1>4, SentWhat
<1> QED
  BY <1>1, <1>3, <1>5 DEF SendStates, OthersSame, SameClient, SameServer

LEMMA HandleStateDoes ==
  ASSUME Types, NEW n \in Node, NEW m \in net, HandleState(n, m)
  PROVE  /\ m.type = "State" /\ m.state \in SentState
         /\ cl[n].st = "playing" /\ ~srv[n].up /\ m.src = cl[n].peer
         /\ OthersSame(n) /\ SameServer(n) /\ net' = net \ {m}
         /\ cl'[n].st = cl[n].st /\ cl'[n].id = cl[n].id /\ cl'[n].role = cl[n].role
         /\ cl'[n].peer = cl[n].peer /\ cl'[n].last = m.state
<1> DEFINE deputy == LastWithRole(m.state.players, "DEPUTY")
           d == IF deputy = 0 THEN cl[n].deputyId ELSE m.state.players[deputy].id
           c == [cl[n] EXCEPT !.last = m.state, !.deputyId = d]
<1>1. m.type = "State" /\ m.state \in SentState
  BY MessageFields DEF Types, HandleState
<1>2. cl' = [cl EXCEPT ![n] = c]
  BY DEF HandleState
<1> HIDE DEF d
<1>3. /\ c.st = cl[n].st /\ c.id = cl[n].id /\ c.role = cl[n].role
      /\ c.peer = cl[n].peer /\ c.last = m.state
  BY TypesGive DEF AClient
<1> HIDE DEF c
<1>4. cl'[n] = c /\ \A k \in Node \ {n} : cl'[k] = cl[k]
  BY <1>2 DEF Types
<1>5. /\ cl[n].st = "playing" /\ ~srv[n].up /\ m.src = cl[n].peer
      /\ net' = net \ {m} /\ srv' = srv
  BY DEF HandleState, ForClient, Playing
<1> QED
  BY <1>1, <1>3, <1>4, <1>5 DEF OthersSame, SameClient, SameServer

(* A player becomes the master. *)
Begins(n) ==
  /\ cl[n].st = "playing" /\ ~srv[n].up /\ cl[n].last # NoState
  /\ srv'[n] = ServerFrom(n)
  /\ cl'[n].st = "playing" /\ cl'[n].id = cl[n].id /\ cl'[n].role = "MASTER"
  /\ cl'[n].peer = ServerAddr(n) /\ cl'[n].last = cl[n].last

LEMMA TakeOverDoes ==
  ASSUME Types, NEW n \in Node, TakeOver(n), cl[n].st = "playing", ~srv[n].up
  PROVE  /\ OthersSame(n)
         /\ Begins(n) \/ (ClientEnds(n) /\ SameServer(n))
<1>1. CASE cl[n].last = NoState
  BY <1>1, PanicDoes DEF TakeOver, OthersSame, SameServer
<1>2. CASE cl[n].last # NoState
  <2> DEFINE c == [cl[n] EXCEPT !.role = "MASTER", !.peer = ServerAddr(n)]
  <2>1. /\ c.st = cl[n].st /\ c.id = cl[n].id /\ c.role = "MASTER"
        /\ c.peer = ServerAddr(n) /\ c.last = cl[n].last
    BY TypesGive DEF AClient
  <2>2. cl' = [cl EXCEPT ![n] = c] /\ srv' = [srv EXCEPT ![n] = ServerFrom(n)]
    BY <1>2 DEF TakeOver
  <2> HIDE DEF c
  <2>3. /\ cl'[n] = c /\ srv'[n] = ServerFrom(n)
        /\ \A k \in Node \ {n} : cl'[k] = cl[k] /\ srv'[k] = srv[k]
    BY <2>2 DEF Types
  <2> QED
    BY <1>2, <2>1, <2>3 DEF OthersSame, SameClient, SameServer, Begins
<1> QED
  BY <1>1, <1>2

LEMMA HandleRoleChangeDoes ==
  ASSUME Types, NEW n \in Node, NEW m \in net, HandleRoleChange(n, m)
  PROVE  /\ m.type = "RoleChange" /\ m.src = cl[n].peer /\ m.dst = ServerAddr(n)
         /\ cl[n].st = "playing" /\ ~srv[n].up
         /\ OthersSame(n) /\ net' = net \ {m}
         /\ \/ m.role = "MASTER" /\ Begins(n)
            \/ m.role = "MASTER" /\ ClientEnds(n) /\ SameServer(n)
            \/ /\ m.role = "DEPUTY" /\ SameServer(n)
               /\ cl'[n].st = "playing" /\ cl'[n].role = "DEPUTY" /\ cl'[n].id = cl[n].id
               /\ cl'[n].peer = cl[n].peer /\ cl'[n].last = cl[n].last
<1>1. /\ m.type = "RoleChange" /\ m.src = cl[n].peer /\ m.dst = ServerAddr(n)
      /\ cl[n].st = "playing" /\ ~srv[n].up /\ net' = net \ {m}
  BY DEF HandleRoleChange, ForClient, ClientAddr, ServerAddr, Playing
<1>2. CASE m.role = "MASTER" /\ TakeOver(n)
  BY <1>1, <1>2, TakeOverDoes
<1>3. CASE /\ m.role = "DEPUTY" /\ UNCHANGED srv
           /\ cl' = [cl EXCEPT ![n].role = "DEPUTY", ![n].deputyId = cl[n].id]
  <2> DEFINE c == [cl[n] EXCEPT !.role = "DEPUTY", !.deputyId = cl[n].id]
  <2>1. /\ c.st = cl[n].st /\ c.id = cl[n].id /\ c.role = "DEPUTY"
        /\ c.peer = cl[n].peer /\ c.last = cl[n].last
    BY TypesGive DEF AClient
  <2>2. cl' = [cl EXCEPT ![n] = c]
    BY <1>3
  <2> HIDE DEF c
  <2>3. cl'[n] = c /\ \A k \in Node \ {n} : cl'[k] = cl[k]
    BY <2>2 DEF Types
  <2> QED
    BY <1>1, <1>3, <2>1, <2>3 DEF OthersSame, SameClient, SameServer
<1> QED
  BY <1>1, <1>2, <1>3 DEF HandleRoleChange

LEMMA QuitDoes ==
  ASSUME Types, NEW n \in Node, Quit(n)
  PROVE  /\ OthersSame(n) /\ SameServer(n) /\ ClientEnds(n) /\ cl'[n].st = "out"
         /\ net' \subseteq net \cup {RoleMsg(ClientAddr(n), cl[n].peer, "VIEWER", cl[n].id)}
<1>1. net' \subseteq net \cup {RoleMsg(ClientAddr(n), cl[n].peer, "VIEWER", cl[n].id)}
  BY SentWhat DEF Quit
<1> QED
  BY <1>1, PanicDoes DEF Quit, OthersSame, SameServer

(* A client that has lost its master. *)
Follows(n) ==
  /\ SameServer(n) /\ net' = net /\ cl[n].last # NoState
  /\ cl'[n].st = "playing" /\ cl'[n].id = cl[n].id /\ cl'[n].role = cl[n].role
  /\ cl'[n].last = cl[n].last
  /\ \E i \in DOMAIN cl[n].last.players : cl'[n].peer = cl[n].last.players[i].addr

LEMMA SuspectDoes ==
  ASSUME Types, NEW n \in Node, Suspect(n)
  PROVE  /\ cl[n].st = "playing" /\ ~srv[n].up /\ OthersSame(n)
         /\ LatePings \/ ~Pinged(n)
         /\ \/ cl[n].role = "DEPUTY" /\ Begins(n) /\ net' = net
            \/ ClientEnds(n) /\ SameServer(n) /\ net' = net
            \/ Quit(n)
            \/ cl[n].role # "DEPUTY" /\ Follows(n)
<1>1. cl[n].st = "playing" /\ ~srv[n].up /\ (LatePings \/ ~Pinged(n))
  BY DEF Suspect, Playing
<1>2. CASE cl[n].role = "DEPUTY" /\ TakeOver(n) /\ UNCHANGED net
  BY <1>1, <1>2, TakeOverDoes
<1>3. CASE cl[n].role # "DEPUTY" /\ FollowDeputy(n)
  <2> DEFINE players == cl[n].last.players
             found   == LastWithId(players, cl[n].deputyId)
  <2>1. CASE Quit(n)
    BY <1>1, <2>1, QuitDoes
  <2>2. CASE cl' = [cl EXCEPT ![n].st = "panicked"] /\ UNCHANGED <<srv, net>>
    BY <1>1, <2>2, PanicDoes DEF OthersSame, SameServer
  <2>3. CASE /\ cl[n].last # NoState /\ found # 0
             /\ cl' = [cl EXCEPT ![n].peer = players[found].addr, ![n].deputyId = -1]
             /\ UNCHANGED <<srv, net>>
    <3> DEFINE c == [cl[n] EXCEPT !.peer = players[found].addr, !.deputyId = -1]
    <3>1. found \in DOMAIN players
      BY <2>3, TypesGive, LastWithIdEntry
    <3>2. /\ c.st = cl[n].st /\ c.id = cl[n].id /\ c.role = cl[n].role
          /\ c.peer = players[found].addr /\ c.last = cl[n].last
      BY TypesGive DEF AClient
    <3>3. cl' = [cl EXCEPT ![n] = c]
      BY <2>3
    <3> HIDE DEF c
    <3>4. cl'[n] = c /\ \A k \in Node \ {n} : cl'[k] = cl[k]
      BY <3>3 DEF Types
    <3> HIDE DEF found
    <3> QED
      BY <1>1, <1>3, <2>3, <3>1, <3>2, <3>4
      DEF OthersSame, SameClient, SameServer, Follows
  <2> QED
    BY <1>3, <2>1, <2>2, <2>3 DEF FollowDeputy
<1> QED
  BY <1>1, <1>2, <1>3 DEF Suspect, TakesOver

LEMMA RemoveSilentDoes ==
  ASSUME Types, NEW n \in Node, NEW id, RemoveSilent(n, id)
  PROVE  /\ srv[n].up /\ id \in Ids(srv[n].players) /\ id # cl[n].id
         /\ LatePings \/ \A k \in Node : ~Expected(n, k, id)
         /\ OthersSame(n) /\ SameClient(n) /\ net' = net
         /\ srv'[n].up /\ srv'[n].uniqueId = srv[n].uniqueId
         /\ srv'[n].joining = srv[n].joining
         /\ srv'[n].players = WithoutId(srv[n].players, id)
         /\ srv'[n].deputyId = IF srv[n].deputyId = id THEN -1 ELSE srv[n].deputyId
<1> DEFINE t == WithoutId(srv[n].players, id)
           s == Without(srv[n], id)
<1>1. /\ s.up = srv[n].up /\ s.uniqueId = srv[n].uniqueId /\ s.joining = srv[n].joining
      /\ s.players = t /\ s.deputyId = IF srv[n].deputyId = id THEN -1 ELSE srv[n].deputyId
  BY TypesGive DEF Without, AServer
<1>2. /\ srv[n].up /\ id \in Ids(srv[n].players) /\ id # cl[n].id
      /\ LatePings \/ \A k \in Node : ~Expected(n, k, id)
      /\ srv' = [srv EXCEPT ![n] = s] /\ cl' = cl /\ net' = net
  BY DEF RemoveSilent
<1> HIDE DEF s
<1>3. srv'[n] = s /\ \A k \in Node \ {n} : srv'[k] = srv[k]
  BY <1>2 DEF Types
<1> QED
  BY <1>1, <1>2, <1>3 DEF OthersSame, SameClient, SameServer

LEMMA StopServerDoes ==
  ASSUME Types, NEW n \in Node, StopServer(n)
  PROVE  /\ srv[n].up /\ cl[n].st = "out" /\ srv'[n] = NoServer
         /\ OthersSame(n)
         /\ SameClient(n) \/ ClientEnds(n)
         /\ \/ net' = net
            \/ /\ srv[n].deputyId \in Ids(srv[n].players)
               /\ net' \subseteq net \cup {RoleMsg(ServerAddr(n),
                                             AddrOf(srv[n].players, srv[n].deputyId),
                                             "MASTER", srv[n].deputyId)}
<1> DEFINE r == RoleMsg(ServerAddr(n), AddrOf(srv[n].players, srv[n].deputyId),
                        "MASTER", srv[n].deputyId)
<1>1. /\ srv[n].up /\ cl[n].st = "out" /\ srv' = [srv EXCEPT ![n] = NoServer]
      /\ \/ UNCHANGED <<cl, net>>
         \/ srv[n].deputyId \in Ids(srv[n].players) /\ UNCHANGED cl /\ Transmit({}, {r})
         \/ cl' = [cl EXCEPT ![n].st = "panicked"] /\ UNCHANGED net
  BY DEF StopServer
<1> HIDE DEF r
<1>2. srv'[n] = NoServer /\ \A k \in Node \ {n} : srv'[k] = srv[k]
  BY <1>1 DEF Types
<1>3. Transmit({}, {r}) => net' \subseteq net \cup {r}
  BY SentWhat
<1>4. \/ cl' = cl
      \/ /\ \A k \in Node \ {n} : SameClient(k)
         /\ ClientEnds(n)
  BY <1>1, PanicDoes
<1> QED
  BY <1>1, <1>2, <1>3, <1>4 DEF OthersSame, SameClient, SameServer, r

LEMMA HandleLeaverDoes ==
  ASSUME Types, NEW n \in Node, NEW m \in net, HandleLeaver(n, m)
  PROVE  /\ m.type = "RoleChange" /\ m.dst = ServerAddr(n)
         /\ srv[n].up /\ srv[n].joining = NoJoin
         /\ OthersSame(n) /\ SameClient(n) /\ net' = net \ {m}
         /\ \/ SameServer(n) /\ mishaps' = mishaps
            \/ /\ srv'[n].up /\ srv'[n].uniqueId = srv[n].uniqueId
               /\ srv'[n].deputyId = srv[n].deputyId /\ srv'[n].joining = srv[n].joining
               /\ srv'[n].players = ViewersAfter(srv[n].players, m.id)
               /\ mishaps' = mishaps \cup {"all viewers"}
<1> DEFINE t == ViewersAfter(srv[n].players, m.id)
           s == [srv[n] EXCEPT !.players = t]
<1>1. /\ s.up = srv[n].up /\ s.uniqueId = srv[n].uniqueId /\ s.joining = srv[n].joining
      /\ s.players = t /\ s.deputyId = srv[n].deputyId
  BY TypesGive DEF AServer
<1>2. /\ m.type = "RoleChange" /\ m.dst = ServerAddr(n)
      /\ srv[n].up /\ srv[n].joining = NoJoin /\ cl' = cl /\ net' = net \ {m}
      /\ \/ srv' = srv /\ mishaps' = mishaps
         \/ srv' = [srv EXCEPT ![n] = s] /\ mishaps' = mishaps \cup {"all viewers"}
  BY DEF HandleLeaver, ForServer
<1> HIDE DEF s
<1>3. srv' = [srv EXCEPT ![n] = s] => srv'[n] = s /\ \A k \in Node \ {n} : srv'[k] = srv[k]
  BY DEF Types
<1> QED
  BY <1>1, <1>2, <1>3 DEF OthersSame, SameClient, SameServer

LEMMA CrashDoes ==
  ASSUME Types, NEW n \in Node, Crash(n)
  PROVE  /\ cl[n].st \in {"joining", "playing"} /\ srv'[n] = NoServer
         /\ OthersSame(n) /\ ClientEnds(n) /\ cl'[n].st = "crashed" /\ net' = net
<1>1. srv'[n] = NoServer /\ \A k \in Node \ {n} : srv'[k] = srv[k]
  BY DEF Crash, Types
<1> QED
  BY <1>1, PanicDoes DEF Crash, OthersSame, SameServer

LEMMA DiscardDoes ==
  ASSUME Types, NEW m \in net, Discard(m)
  PROVE  /\ net' = net \ {m}
         /\ \A n \in Node : SameClient(n) /\ SameServer(n)
BY DEF Discard, SameClient, SameServer

-----------------------------------------------------------------------------
(* Where the server, the client and the messages of a state come from *)

LEMMA NextCases ==
  ASSUME [Next]_vars
  PROVE  \/ UNCHANGED vars
         \/ \E n \in Node : ClientStep(n) \/ ServerStep(n) \/ Crash(n)
         \/ \E m \in net : Discard(m)
         \/ \E n \in Node : \E m \in net : HandleJoin(n, m) \/ HandleLeaver(n, m)
BY DEF Next

LEMMA OnlyOne ==
  ASSUME NEW n \in Node, NEW k \in Node, OthersSame(n), k # n
  PROVE  SameClient(k) /\ SameServer(k)
BY DEF OthersSame

ServerChanges(n) ==
  \/ SameServer(n)
  \/ \E m \in net : HandleJoin(n, m)
  \/ FinishJoin(n)
  \/ Appoint(n)
  \/ \E id : RemoveSilent(n, id)
  \/ \E m \in net : HandleLeaver(n, m)
  \/ Begins(n)
  \/ srv'[n] = NoServer /\ cl'[n].st \in {"out", "panicked", "crashed"}

ClientChanges(n) ==
  \/ SameClient(n)
  \/ \E k \in Node : Join(n, k)
  \/ \E m \in net : HandleAcknowledge(n, m)
  \/ \E m \in net : HandleState(n, m)
  \/ \E m \in net : HandleRoleChange(n, m) /\ m.role = "DEPUTY"
  \/ \E m \in net : HandleRoleChange(n, m) /\ m.role = "MASTER" /\ Begins(n)
  \/ Suspect(n) /\ cl[n].role = "DEPUTY" /\ Begins(n)
  \/ Suspect(n) /\ cl[n].role # "DEPUTY" /\ Follows(n)
  \/ ClientEnds(n)

LEMMA ServerOrigin ==
  ASSUME Types, [Next]_vars, NEW n \in Node
  PROVE  ServerChanges(n)
<1>1. CASE UNCHANGED vars
  BY <1>1 DEF vars, ServerChanges, SameServer
<1>2. ASSUME NEW k \in Node, ClientStep(k)  PROVE ServerChanges(n)
  <2>1. CASE \E m \in Node : Join(k, m)
    BY <2>1, JoinDoes, OnlyOne DEF ServerChanges
  <2>2. CASE PingBeforeAck(k)
    BY <2>2, PingBeforeAckDoes, OnlyOne DEF ServerChanges
  <2>3. CASE \E m \in net : HandleAcknowledge(k, m)
    BY <2>3, HandleAcknowledgeDoes, OnlyOne DEF ServerChanges
  <2>4. CASE \E m \in net : HandleState(k, m)
    BY <2>4, HandleStateDoes, OnlyOne DEF ServerChanges
  <2>5. CASE \E m \in net : HandleRoleChange(k, m)
    BY <2>5, HandleRoleChangeDoes, OnlyOne DEF ServerChanges
  <2>6. CASE Suspect(k)
    BY <2>6, SuspectDoes, QuitDoes, OnlyOne DEF ServerChanges, Follows
  <2>7. CASE Leave(k)
    BY <2>7, QuitDoes, OnlyOne DEF ServerChanges, Leave
  <2> QED
    BY <1>2, <2>1, <2>2, <2>3, <2>4, <2>5, <2>6, <2>7 DEF ClientStep
<1>3. ASSUME NEW k \in Node, ServerStep(k)  PROVE ServerChanges(n)
  <2>1. CASE FinishJoin(k)
    BY <2>1, FinishJoinDoes, OnlyOne DEF ServerChanges
  <2>2. CASE Appoint(k)
    BY <2>2, AppointDoes, OnlyOne DEF ServerChanges
  <2>5. CASE SendStates(k)
    BY <2>5, SendStatesDoes, OnlyOne DEF ServerChanges
  <2>3. CASE \E id : RemoveSilent(k, id)
    BY <2>3, RemoveSilentDoes, OnlyOne DEF ServerChanges
  <2>4. CASE StopServer(k)
    BY <2>4, StopServerDoes, OnlyOne DEF ServerChanges, SameClient, ClientEnds
  <2> QED
    BY <1>3, <2>1, <2>2, <2>3, <2>4, <2>5 DEF ServerStep
<1>4. ASSUME NEW k \in Node, Crash(k)  PROVE ServerChanges(n)
  BY <1>4, CrashDoes, OnlyOne DEF ServerChanges, ClientEnds
<1>5. ASSUME NEW m \in net, Discard(m)  PROVE ServerChanges(n)
  BY <1>5, DiscardDoes DEF ServerChanges
<1>6. ASSUME NEW k \in Node, NEW m \in net, HandleJoin(k, m)  PROVE ServerChanges(n)
  BY <1>6, HandleJoinDoes, OnlyOne DEF ServerChanges
<1>7. ASSUME NEW k \in Node, NEW m \in net, HandleLeaver(k, m)  PROVE ServerChanges(n)
  BY <1>7, HandleLeaverDoes, OnlyOne DEF ServerChanges
<1> QED
  BY <1>1, <1>2, <1>3, <1>4, <1>5, <1>6, <1>7, NextCases

LEMMA ClientOrigin ==
  ASSUME Types, [Next]_vars, NEW n \in Node
  PROVE  ClientChanges(n)
<1>1. CASE UNCHANGED vars
  BY <1>1 DEF vars, ClientChanges, SameClient
<1>2. ASSUME NEW k \in Node, ClientStep(k)  PROVE ClientChanges(n)
  <2>1. CASE \E m \in Node : Join(k, m)
    BY <2>1, JoinDoes, OnlyOne DEF ClientChanges
  <2>2. CASE PingBeforeAck(k)
    BY <2>2, PingBeforeAckDoes, OnlyOne DEF ClientChanges
  <2>3. CASE \E m \in net : HandleAcknowledge(k, m)
    BY <2>3, HandleAcknowledgeDoes, OnlyOne DEF ClientChanges
  <2>4. CASE \E m \in net : HandleState(k, m)
    BY <2>4, HandleStateDoes, OnlyOne DEF ClientChanges
  <2>5. CASE \E m \in net : HandleRoleChange(k, m)
    BY <2>5, HandleRoleChangeDoes, OnlyOne DEF ClientChanges
  <2>6. CASE Suspect(k)
    BY <2>6, SuspectDoes, QuitDoes, OnlyOne DEF ClientChanges
  <2>7. CASE Leave(k)
    BY <2>7, QuitDoes, OnlyOne DEF ClientChanges, Leave
  <2> QED
    BY <1>2, <2>1, <2>2, <2>3, <2>4, <2>5, <2>6, <2>7 DEF ClientStep
<1>3. ASSUME NEW k \in Node, ServerStep(k)  PROVE ClientChanges(n)
  <2>1. CASE FinishJoin(k)
    BY <2>1, FinishJoinDoes, OnlyOne DEF ClientChanges
  <2>2. CASE Appoint(k)
    BY <2>2, AppointDoes, OnlyOne DEF ClientChanges
  <2>5. CASE SendStates(k)
    BY <2>5, SendStatesDoes, OnlyOne DEF ClientChanges
  <2>3. CASE \E id : RemoveSilent(k, id)
    BY <2>3, RemoveSilentDoes, OnlyOne DEF ClientChanges
  <2>4. CASE StopServer(k)
    BY <2>4, StopServerDoes, OnlyOne DEF ClientChanges
  <2> QED
    BY <1>3, <2>1, <2>2, <2>3, <2>4, <2>5 DEF ServerStep
<1>4. ASSUME NEW k \in Node, Crash(k)  PROVE ClientChanges(n)
  BY <1>4, CrashDoes, OnlyOne DEF ClientChanges
<1>5. ASSUME NEW m \in net, Discard(m)  PROVE ClientChanges(n)
  BY <1>5, DiscardDoes DEF ClientChanges
<1>6. ASSUME NEW k \in Node, NEW m \in net, HandleJoin(k, m)  PROVE ClientChanges(n)
  BY <1>6, HandleJoinDoes, OnlyOne DEF ClientChanges
<1>7. ASSUME NEW k \in Node, NEW m \in net, HandleLeaver(k, m)  PROVE ClientChanges(n)
  BY <1>7, HandleLeaverDoes, OnlyOne DEF ClientChanges
<1> QED
  BY <1>1, <1>2, <1>3, <1>4, <1>5, <1>6, <1>7, NextCases

(* Who sends the message m. *)
Sends(n, m) ==
  \/ \E k \in Node : Join(n, k) /\ m = JoinMsg(ServerAddr(n), ServerAddr(k), cl'[n].role)
  \/ \E j \in net : /\ HandleJoin(n, j) /\ Listing(n, j) /\ j.role = "VIEWER"
                    /\ m = AckMsg(ServerAddr(n), j.src, srv[n].uniqueId)
  \/ \E addr \in Addr : srv[n].up /\ m = ErrorMsg(ServerAddr(n), addr)
  \/ /\ FinishJoin(n) /\ srv'[n].players = srv[n].players
     /\ m = AckMsg(ServerAddr(n), srv[n].joining.addr, srv[n].joining.id)
  \/ Appoint(n) /\ m \in Told(n)
  \/ SendStates(n) /\ m \in States(n) /\ m.dst # ClientAddr(n)
  \/ /\ Quit(n) /\ cl[n].st = "playing"
     /\ m = RoleMsg(ClientAddr(n), cl[n].peer, "VIEWER", cl[n].id)
  \/ /\ StopServer(n) /\ srv[n].deputyId \in Ids(srv[n].players)
     /\ m = RoleMsg(ServerAddr(n), AddrOf(srv[n].players, srv[n].deputyId),
                    "MASTER", srv[n].deputyId)

MessageComes(m) == m \in net \/ \E n \in Node : Sends(n, m)

LEMMA MessageOrigin ==
  ASSUME Types, [Next]_vars, NEW m \in net'
  PROVE  MessageComes(m)
<1>1. CASE UNCHANGED vars
  BY <1>1 DEF vars, MessageComes
<1>2. ASSUME NEW n \in Node, ClientStep(n)  PROVE MessageComes(m)
  <2>1. ASSUME NEW k \in Node, Join(n, k)  PROVE MessageComes(m)
    <3>1. m \in net \/ m = JoinMsg(ServerAddr(n), ServerAddr(k), cl'[n].role)
      BY <2>1, JoinDoes
    <3> QED
      BY <2>1, <3>1 DEF MessageComes, Sends
  <2>2. CASE PingBeforeAck(n)
    BY <2>2, PingBeforeAckDoes DEF MessageComes
  <2>3. CASE \E x \in net : HandleAcknowledge(n, x)
    BY <2>3, HandleAcknowledgeDoes DEF MessageComes
  <2>4. CASE \E x \in net : HandleState(n, x)
    BY <2>4, HandleStateDoes DEF MessageComes
  <2>5. CASE \E x \in net : HandleRoleChange(n, x)
    BY <2>5, HandleRoleChangeDoes DEF MessageComes
  <2>6. CASE Quit(n) /\ cl[n].st = "playing"
    <3>1. m \in net \/ m = RoleMsg(ClientAddr(n), cl[n].peer, "VIEWER", cl[n].id)
      BY <2>6, QuitDoes
    <3> QED
      BY <2>6, <3>1 DEF MessageComes, Sends
  <2>7. CASE Suspect(n)
    BY <2>6, <2>7, SuspectDoes DEF MessageComes, Follows
  <2>8. CASE Leave(n)
    BY <2>6, <2>8 DEF Leave, Playing
  <2> QED
    BY <1>2, <2>1, <2>2, <2>3, <2>4, <2>5, <2>7, <2>8 DEF ClientStep
<1>3. ASSUME NEW n \in Node, ServerStep(n)  PROVE MessageComes(m)
  <2>1. CASE FinishJoin(n)
    <3>1. srv[n].up /\ srv[n].joining.addr \in Addr
      BY <2>1, FinishJoinDoes, TypesGive
    <3>2. \/ m \in net
          \/ m = ErrorMsg(ServerAddr(n), srv[n].joining.addr)
          \/ /\ srv'[n].players = srv[n].players
             /\ m = AckMsg(ServerAddr(n), srv[n].joining.addr, srv[n].joining.id)
      BY <2>1, FinishJoinDoes
    <3> QED
      BY <2>1, <3>1, <3>2 DEF MessageComes, Sends
  <2>2. CASE Appoint(n)
    <3>1. m \in net \/ m \in Told(n)
      BY <2>2, AppointDoes
    <3> QED
      BY <2>2, <3>1 DEF MessageComes, Sends
  <2>5. CASE SendStates(n)
    <3>1. m \in net \/ (m \in States(n) /\ m.dst # ClientAddr(n))
      BY <2>5, SendStatesDoes
    <3> QED
      BY <2>5, <3>1 DEF MessageComes, Sends
  <2>3. CASE \E id : RemoveSilent(n, id)
    BY <2>3, RemoveSilentDoes DEF MessageComes
  <2>4. CASE StopServer(n)
    <3>1. \/ m \in net
          \/ /\ srv[n].deputyId \in Ids(srv[n].players)
             /\ m = RoleMsg(ServerAddr(n), AddrOf(srv[n].players, srv[n].deputyId),
                            "MASTER", srv[n].deputyId)
      BY <2>4, StopServerDoes
    <3> QED
      BY <2>4, <3>1 DEF MessageComes, Sends
  <2> QED
    BY <1>3, <2>1, <2>2, <2>3, <2>4, <2>5 DEF ServerStep
<1>4. ASSUME NEW k \in Node, Crash(k)  PROVE MessageComes(m)
  BY <1>4, CrashDoes DEF MessageComes
<1>5. ASSUME NEW x \in net, Discard(x)  PROVE MessageComes(m)
  BY <1>5, DiscardDoes DEF MessageComes
<1>6. ASSUME NEW n \in Node, NEW j \in net, HandleJoin(n, j)  PROVE MessageComes(m)
  <2>1. srv[n].up /\ j.src \in Addr
    BY <1>6, HandleJoinDoes, MessageFields DEF Types
  <2>2. \/ m \in net
        \/ m = ErrorMsg(ServerAddr(n), j.src)
        \/ /\ Listing(n, j) /\ j.role = "VIEWER"
           /\ m = AckMsg(ServerAddr(n), j.src, srv[n].uniqueId)
    BY <1>6, HandleJoinDoes DEF Listing
  <2> QED
    BY <1>6, <2>1, <2>2 DEF MessageComes, Sends
<1>7. ASSUME NEW k \in Node, NEW x \in net, HandleLeaver(k, x)  PROVE MessageComes(m)
  BY <1>7, HandleLeaverDoes DEF MessageComes
<1> QED
  BY <1>1, <1>2, <1>3, <1>4, <1>5, <1>6, <1>7, NextCases

-----------------------------------------------------------------------------
(* All the lists of players there are: the servers', those that the clients *)
(* were sent last, and those on their way.                                  *)

AllLists ==
  {srv[n].players : n \in Node} \cup {cl[n].last.players : n \in Node}
    \cup {m.state.players : m \in {x \in net : x.type = "State"}}

Entries == UNION {{l[i] : i \in DOMAIN l} : l \in AllLists}

LEMMA ListTyped ==
  ASSUME Types, NEW l \in AllLists
  PROVE  l \in Seq(PlayerType)
<1>1. ASSUME NEW m \in net, m.type = "State"  PROVE m.state.players \in Seq(PlayerType)
  BY <1>1, MessageFields DEF Types, SentState, AState
<1> QED
  BY <1>1, TypesGive DEF AllLists

LEMMA ListsTyped == Types => \A l \in AllLists : l \in Seq(PlayerType)
BY ListTyped

LEMMA ListsTypedNext == Types' => (\A l \in AllLists : l \in Seq(PlayerType))'
BY ListsTyped, PTL

LEMMA ListTypedNext ==
  ASSUME Types', NEW l \in AllLists'
  PROVE  l \in Seq(PlayerType)
BY ListsTypedNext

LEMMA EntryOf ==
  ASSUME NEW l \in AllLists, NEW i \in DOMAIN l
  PROVE  l[i] \in Entries
BY DEF Entries

LEMMA EntryIn ==
  ASSUME NEW p \in Entries
  PROVE  \E l \in AllLists : \E i \in DOMAIN l : l[i] = p
BY DEF Entries

LEMMA ListsOfServer ==
  ASSUME NEW n \in Node
  PROVE  srv[n].players \in AllLists /\ cl[n].last.players \in AllLists
BY DEF AllLists

LEMMA ListOfState ==
  ASSUME NEW m \in net, m.type = "State"
  PROVE  m.state.players \in AllLists
BY DEF AllLists

(* Where the list l comes from. *)
ListComes(l) ==
  \/ l \in AllLists
  \/ l = << >>
  \/ \E n \in Node : \E m \in net :
       /\ HandleJoin(n, m) /\ Listing(n, m)
       /\ l = Append(srv[n].players, Player(srv[n].uniqueId, m.src, m.role))
  \/ \E n \in Node : \E id : l = WithoutId(srv[n].players, id)
  \/ \E n \in Node : Appoint(n) /\ l = Appointed(srv[n]).players
  \/ \E n \in Node : \E id : l = ViewersAfter(srv[n].players, id)
  \/ \E n \in Node : Begins(n) /\ l = TakenOver(n)

LEMMA ListOrigin ==
  ASSUME Types, [Next]_vars, NEW l \in AllLists'
  PROVE  ListComes(l)
<1>1. ASSUME NEW n \in Node, l = srv'[n].players  PROVE ListComes(l)
  <2>1. CASE SameServer(n)
    BY <1>1, <2>1, ListsOfServer DEF SameServer, ListComes
  <2>2. CASE \E m \in net : HandleJoin(n, m)
    <3>1. PICK m \in net : HandleJoin(n, m)
      BY <2>2
    <3>2. CASE SameServer(n)
      BY <2>1, <3>2
    <3>3. CASE Listing(n, m)
      BY <1>1, <3>1, <3>3 DEF ListComes, Listing
    <3> QED
      BY <3>1, <3>2, <3>3, HandleJoinDoes
  <2>3. CASE FinishJoin(n)
    <3>1. l = srv[n].players \/ \E id : l = WithoutId(srv[n].players, id)
      BY <1>1, <2>3, FinishJoinDoes
    <3> QED
      BY <3>1, ListsOfServer DEF ListComes
  <2>4. CASE Appoint(n)
    BY <1>1, <2>4, AppointDoes DEF ListComes
  <2>5. CASE \E id : RemoveSilent(n, id)
    BY <1>1, <2>5, RemoveSilentDoes DEF ListComes
  <2>6. CASE \E m \in net : HandleLeaver(n, m)
    <3>1. SameServer(n) \/ \E id : l = ViewersAfter(srv[n].players, id)
      BY <1>1, <2>6, HandleLeaverDoes
    <3> QED
      BY <2>1, <3>1 DEF ListComes
  <2>7. CASE Begins(n)
    <3>1. l = TakenOver(n)
      BY <1>1, <2>7, ServerFromFields DEF Begins
    <3> QED
      BY <2>7, <3>1 DEF ListComes
  <2>8. CASE srv'[n] = NoServer
    BY <1>1, <2>8 DEF ListComes, NoServer
  <2> QED
    BY <2>1, <2>2, <2>3, <2>4, <2>5, <2>6, <2>7, <2>8, ServerOrigin DEF ServerChanges
<1>2. ASSUME NEW n \in Node, l = cl'[n].last.players  PROVE ListComes(l)
  <2>1. cl'[n].last = cl[n].last \/ \E m \in net : m.type = "State" /\ cl'[n].last = m.state
    <3>1. CASE \E m \in net : HandleState(n, m)
      BY <3>1, HandleStateDoes
    <3>2. CASE cl'[n].last = cl[n].last
      BY <3>2
    <3>3. CASE \E m \in net : HandleAcknowledge(n, m)
      BY <3>3, HandleAcknowledgeDoes DEF ClientEnds
    <3>4. CASE \E m \in net : HandleRoleChange(n, m) /\ m.role = "DEPUTY"
      BY <3>4, HandleRoleChangeDoes DEF ClientEnds
    <3>5. CASE \E k \in Node : Join(n, k)
      BY <3>5, JoinDoes
    <3> QED
      BY <3>1, <3>2, <3>3, <3>4, <3>5, ClientOrigin
      DEF ClientChanges, SameClient, Begins, Follows, ClientEnds
  <2> QED
    BY <1>2, <2>1, ListsOfServer, ListOfState DEF ListComes
<1>3. ASSUME NEW m \in net', m.type = "State", l = m.state.players  PROVE ListComes(l)
  <2>1. CASE m \in net
    BY <1>3, <2>1, ListOfState DEF ListComes
  <2>2. ASSUME NEW n \in Node, m \in States(n)  PROVE ListComes(l)
    <3>1. m.state.players = srv[n].players
      BY <2>2 DEF States, StateMsg, Snapshot
    <3> QED
      BY <1>3, <3>1, ListsOfServer DEF ListComes
  <2>3. ASSUME NEW n \in Node, Sends(n, m)
        PROVE  m \in States(n) \/ m.type # "State"
    BY <2>3 DEF Sends, JoinMsg, AckMsg, ErrorMsg, RoleMsg, Told
  <2> QED
    BY <1>3, <2>1, <2>2, <2>3, MessageOrigin DEF MessageComes
<1> QED
  BY <1>1, <1>2, <1>3 DEF AllLists

(* Where the entry p comes from. *)
EntryComes(p) ==
  \/ p \in Entries
  \/ \E n \in Node : \E m \in net :
       /\ HandleJoin(n, m) /\ Listing(n, m)
       /\ p = Player(srv[n].uniqueId, m.src, m.role)
  \/ \E n \in Node : \E i \in DOMAIN srv[n].players :
       /\ Appoint(n) /\ ChosenDeputy(srv[n]) # srv[n].deputyId
       /\ srv[n].players[i].id = ChosenDeputy(srv[n])
       /\ p.id = ChosenDeputy(srv[n]) /\ p.addr = srv[n].players[i].addr
       /\ p.role = "DEPUTY"
  \/ \E q \in Entries : p.id = q.id /\ p.addr = q.addr /\ p.role = "VIEWER"
  \/ \E n \in Node : \E q \in Entries :
       /\ Begins(n) /\ q.id = cl[n].id
       /\ p.id = cl[n].id /\ p.addr = <<n, 2>> /\ p.role = "MASTER"

(* Two players are the same if their fields are. *)
LEMMA SamePlayer ==
  ASSUME NEW p \in PlayerType, NEW q \in PlayerType,
         p.id = q.id, p.addr = q.addr, p.role = q.role
  PROVE  p = q
BY DEF PlayerType

LEMMA EntryOrigin ==
  ASSUME Types, [Next]_vars, NEW p \in Entries'
  PROVE  EntryComes(p) /\ p \in PlayerType
<1>1. PICK l \in AllLists' : \E i \in DOMAIN l : l[i] = p
  BY DEF Entries
<1>2. PICK j \in DOMAIN l : l[j] = p
  BY <1>1
<1>3. ListComes(l)
  BY ListOrigin
<1>4. \A n \in Node : /\ srv[n].players \in Seq(PlayerType) /\ srv[n].players \in AllLists
                      /\ cl[n].last.players \in Seq(PlayerType)
                      /\ cl[n].last.players \in AllLists
  BY TypesGive, ListsOfServer
<1>5. l \in Seq(PlayerType) /\ p \in PlayerType
  <2>1. l \in Seq(PlayerType)
    BY TypesNext, ListTypedNext
  <2> QED
    BY <1>2, <2>1, ListEntries
<1>6. CASE l \in AllLists
  <2>1. l[j] \in Entries
    BY <1>6, EntryOf
  <2> QED
    BY <1>2, <1>5, <2>1 DEF EntryComes
<1>7. CASE l = << >>
  BY <1>2, <1>7
<1>8. ASSUME NEW n \in Node, NEW m \in net, HandleJoin(n, m), Listing(n, m),
             l = Append(srv[n].players, Player(srv[n].uniqueId, m.src, m.role))
      PROVE  EntryComes(p)
  <2> DEFINE players == srv[n].players
             new == Player(srv[n].uniqueId, m.src, m.role)
  <2>1. new \in PlayerType /\ players \in Seq(PlayerType)
    BY <1>8, TypesGive DEF Player, PlayerType, Listing, Role
  <2>2. CASE j \in DOMAIN players
    <3>1. p = players[j]
      BY <1>2, <1>8, <2>1, <2>2, AppendEntry
    <3> QED
      BY <1>4, <2>2, <3>1, EntryOf DEF EntryComes
  <2>3. CASE j \notin DOMAIN players
    <3>1. j = Len(players) + 1 /\ p = new
      BY <1>2, <1>8, <2>1, <2>3, AppendEntry, ListEntries
    <3> QED
      BY <1>8, <3>1 DEF EntryComes
  <2> QED
    BY <2>2, <2>3
<1>9. ASSUME NEW n \in Node, NEW id, l = WithoutId(srv[n].players, id)
      PROVE  EntryComes(p)
  <2>1. PICK i \in DOMAIN srv[n].players : p = srv[n].players[i]
    BY <1>2, <1>4, <1>9, WithoutIdMembers
  <2> QED
    BY <1>4, <2>1, EntryOf DEF EntryComes
<1>10. ASSUME NEW n \in Node, Appoint(n), l = Appointed(srv[n]).players
       PROVE  EntryComes(p)
  <2> DEFINE d == ChosenDeputy(srv[n])
             players == srv[n].players
  <2>1. /\ j \in DOMAIN players
        /\ p.id = players[j].id /\ p.addr = players[j].addr
        /\ p.role = IF d # srv[n].deputyId /\ players[j].id = d
                    THEN "DEPUTY" ELSE players[j].role
    BY <1>2, <1>10, AppointedFields
  <2>2. CASE d # srv[n].deputyId /\ players[j].id = d
    BY <1>10, <2>1, <2>2 DEF EntryComes
  <2>3. CASE ~(d # srv[n].deputyId /\ players[j].id = d)
    <3>1. players[j] \in PlayerType
      BY <1>4, <2>1, ListEntries
    <3>2. p = players[j]
      <4> HIDE DEF players, d
      <4> QED
        BY <1>5, <2>1, <2>3, <3>1, SamePlayer
    <3> QED
      BY <1>4, <2>1, <3>2, EntryOf DEF EntryComes
  <2> QED
    BY <2>2, <2>3
<1>11. ASSUME NEW n \in Node, NEW id, l = ViewersAfter(srv[n].players, id)
       PROVE  EntryComes(p)
  <2> DEFINE players == srv[n].players
  <2>1. /\ j \in DOMAIN players
        /\ p.id = players[j].id /\ p.addr = players[j].addr
        /\ p.role = IF players[j].id = id THEN players[j].role ELSE "VIEWER"
    BY <1>2, <1>4, <1>11, ViewersAfterEntry
  <2>2. players[j] \in Entries /\ players[j] \in PlayerType
    BY <1>4, <2>1, EntryOf, ListEntries
  <2>3. CASE p.role = "VIEWER"
    BY <2>1, <2>2, <2>3 DEF EntryComes
  <2>4. CASE p.role = players[j].role
    <3>1. p = players[j]
      <4> HIDE DEF players
      <4> QED
        BY <1>5, <2>1, <2>2, <2>4, SamePlayer
    <3> QED
      BY <2>2, <3>1 DEF EntryComes
  <2> QED
    BY <2>1, <2>3, <2>4
<1>12. ASSUME NEW n \in Node, Begins(n), l = TakenOver(n)
       PROVE  EntryComes(p)
  <2> DEFINE players == cl[n].last.players
  <2>1. /\ j \in DOMAIN players
        /\ p.id = players[j].id
        /\ IF players[j].id = cl[n].id
           THEN p.addr = <<n, 2>> /\ p.role = "MASTER"
           ELSE p = players[j]
    BY <1>2, <1>4, <1>12, TakenOverEntry
  <2>2. players[j] \in Entries
    BY <1>4, <2>1, EntryOf
  <2> QED
    BY <1>12, <2>1, <2>2 DEF EntryComes
<1> QED
  BY <1>3, <1>5, <1>6, <1>7, <1>8, <1>9, <1>10, <1>11, <1>12 DEF ListComes

-----------------------------------------------------------------------------
(* The messages that a step sends, field by field *)

SendsJoin(n, m) ==
  /\ m.type = "Join" /\ m.src = ServerAddr(n)
  /\ \E k \in Node : /\ Join(n, k) /\ m.dst = ServerAddr(k) /\ m.role = cl'[n].role

SendsAck(n, m) ==
  /\ m.type = "Ack" /\ m.src = ServerAddr(n) /\ srv[n].up
  /\ \/ \E j \in net : /\ HandleJoin(n, j) /\ Listing(n, j) /\ j.role = "VIEWER"
                       /\ m.dst = j.src /\ m.id = srv[n].uniqueId
     \/ /\ FinishJoin(n) /\ srv'[n].players = srv[n].players
        /\ m.dst = srv[n].joining.addr /\ m.id = srv[n].joining.id

SendsError(n, m) == m.type = "Error" /\ m.src = ServerAddr(n) /\ srv[n].up

SendsDeputy(n, m) ==
  /\ m.type = "RoleChange" /\ m.role = "DEPUTY" /\ m.src = ServerAddr(n)
  /\ Appoint(n) /\ srv[n].up /\ ChosenDeputy(srv[n]) # srv[n].deputyId
  /\ m.id = ChosenDeputy(srv[n])
  /\ \E i \in DOMAIN srv[n].players :
       srv[n].players[i].id = ChosenDeputy(srv[n]) /\ m.dst = srv[n].players[i].addr

SendsState(n, m) ==
  /\ m.type = "State" /\ m.src = ServerAddr(n) /\ SendStates(n) /\ srv[n].up
  /\ m.state.players = srv[n].players
  /\ m.dst # ClientAddr(n)
  /\ \E i \in DOMAIN srv[n].players : m.dst = srv[n].players[i].addr

SendsLeave(n, m) ==
  /\ m.type = "RoleChange" /\ m.role = "VIEWER" /\ m.src = ClientAddr(n)
  /\ Quit(n) /\ cl[n].st = "playing" /\ m.dst = cl[n].peer /\ m.id = cl[n].id

SendsMaster(n, m) ==
  /\ m.type = "RoleChange" /\ m.role = "MASTER" /\ m.src = ServerAddr(n)
  /\ StopServer(n) /\ srv[n].up /\ m.id = srv[n].deputyId
  /\ \E i \in DOMAIN srv[n].players :
       srv[n].players[i].id = srv[n].deputyId /\ m.dst = srv[n].players[i].addr

SentBy(n, m) ==
  \/ SendsJoin(n, m) \/ SendsAck(n, m) \/ SendsError(n, m) \/ SendsDeputy(n, m)
  \/ SendsState(n, m) \/ SendsLeave(n, m) \/ SendsMaster(n, m)

LEMMA SendsWhat ==
  ASSUME Types, NEW n \in Node, NEW m, Sends(n, m)
  PROVE  SentBy(n, m)
<1> DEFINE players == srv[n].players
           d == ChosenDeputy(srv[n])
           s == Appointed(srv[n])
<1>1. players \in Seq(PlayerType)
  BY TypesGive
<1>2. CASE \E k \in Node : Join(n, k) /\ m = JoinMsg(ServerAddr(n), ServerAddr(k), cl'[n].role)
  BY <1>2 DEF JoinMsg, SendsJoin, SentBy
<1>3. CASE \E j \in net : /\ HandleJoin(n, j) /\ Listing(n, j) /\ j.role = "VIEWER"
                          /\ m = AckMsg(ServerAddr(n), j.src, srv[n].uniqueId)
  <2>1. PICK j \in net : /\ HandleJoin(n, j) /\ Listing(n, j) /\ j.role = "VIEWER"
                         /\ m = AckMsg(ServerAddr(n), j.src, srv[n].uniqueId)
    BY <1>3
  <2>2. /\ m.type = "Ack" /\ m.src = ServerAddr(n) /\ m.dst = j.src
        /\ m.id = srv[n].uniqueId
    BY <2>1 DEF AckMsg
  <2>3. srv[n].up
    BY <2>1, HandleJoinDoes
  <2> QED
    BY <2>1, <2>2, <2>3 DEF SendsAck, SentBy
<1>4. CASE \E addr \in Addr : srv[n].up /\ m = ErrorMsg(ServerAddr(n), addr)
  BY <1>4 DEF ErrorMsg, SendsError, SentBy
<1>5. CASE /\ FinishJoin(n) /\ srv'[n].players = srv[n].players
           /\ m = AckMsg(ServerAddr(n), srv[n].joining.addr, srv[n].joining.id)
  BY <1>5, FinishJoinDoes DEF AckMsg, SendsAck, SentBy
<1>6. CASE Appoint(n) /\ m \in Told(n)
  <2>1. d # srv[n].deputyId /\ m = RoleMsg(ServerAddr(n), AddrOf(s.players, d), "DEPUTY", d)
    BY <1>6 DEF Told
  <2>2. s.players \in Seq(PlayerType) /\ d \in Ids(s.players)
    BY <2>1, AppointedFields DEF AServer
  <2>3. PICK i \in DOMAIN s.players :
          s.players[i].id = d /\ AddrOf(s.players, d) = s.players[i].addr
    <3> HIDE DEF s, d
    <3> QED
      BY <2>2, AddrOfEntry
  <2>4. i \in DOMAIN players /\ players[i].id = d /\ m.dst = players[i].addr
    BY <2>1, <2>3, AppointedFields DEF RoleMsg
  <2>5. m.type = "RoleChange" /\ m.role = "DEPUTY" /\ m.src = ServerAddr(n) /\ m.id = d
    BY <2>1 DEF RoleMsg
  <2>6. srv[n].up
    BY <1>6, AppointDoes
  <2> QED
    BY <1>6, <2>1, <2>4, <2>5, <2>6 DEF SendsDeputy, SentBy
<1>7. CASE SendStates(n) /\ m \in States(n) /\ m.dst # ClientAddr(n)
  <2>1. PICK i \in DOMAIN players : m = StateMsg(ServerAddr(n), players[i].addr, Snapshot(n))
    BY <1>7 DEF States
  <2>2. /\ m.type = "State" /\ m.src = ServerAddr(n) /\ m.dst = players[i].addr
        /\ m.state.players = players
    BY <2>1 DEF StateMsg, Snapshot
  <2>3. srv[n].up
    BY <1>7, SendStatesDoes
  <2> QED
    BY <1>7, <2>2, <2>3 DEF SendsState, SentBy
<1>8. CASE /\ Quit(n) /\ cl[n].st = "playing"
           /\ m = RoleMsg(ClientAddr(n), cl[n].peer, "VIEWER", cl[n].id)
  BY <1>8 DEF RoleMsg, SendsLeave, SentBy
<1>9. CASE /\ StopServer(n) /\ srv[n].deputyId \in Ids(srv[n].players)
           /\ m = RoleMsg(ServerAddr(n), AddrOf(srv[n].players, srv[n].deputyId),
                          "MASTER", srv[n].deputyId)
  <2>1. PICK i \in DOMAIN players :
          /\ players[i].id = srv[n].deputyId
          /\ AddrOf(players, srv[n].deputyId) = players[i].addr
    BY <1>1, <1>9, AddrOfEntry
  <2>2. /\ m.type = "RoleChange" /\ m.role = "MASTER" /\ m.src = ServerAddr(n)
        /\ m.id = srv[n].deputyId /\ m.dst = players[i].addr
    BY <1>9, <2>1 DEF RoleMsg
  <2> QED
    BY <1>9, <2>1, <2>2, StopServerDoes DEF SendsMaster, SentBy
<1> QED
  BY <1>2, <1>3, <1>4, <1>5, <1>6, <1>7, <1>8, <1>9 DEF Sends

LEMMA SentOrigin ==
  ASSUME Types, [Next]_vars, NEW m \in net', m \notin net
  PROVE  \E n \in Node : SentBy(n, m)
BY MessageOrigin, SendsWhat DEF MessageComes

(* The fields of new messages tell which step sent them. *)
LEMMA SentByType ==
  ASSUME NEW n \in Node, NEW m, SentBy(n, m)
  PROVE  /\ m.type = "Join" => SendsJoin(n, m)
         /\ m.type = "Ack" => SendsAck(n, m)
         /\ m.type = "State" => SendsState(n, m)
         /\ m.type = "RoleChange" => \/ SendsDeputy(n, m)
                                     \/ SendsLeave(n, m)
                                     \/ SendsMaster(n, m)
BY DEF SentBy, SendsJoin, SendsAck, SendsError, SendsDeputy, SendsState, SendsLeave, SendsMaster

-----------------------------------------------------------------------------
(* Whoever has not joined is unknown *)

Strangers ==
  \A n \in Node :
    cl[n].st = "idle" =>
      /\ cl[n].role = "NORMAL"
      /\ \A p \in Entries : p.addr[1] # n
      /\ \A m \in net : /\ m.type = "Join" => m.src[1] # n
                        /\ m.type = "RoleChange" /\ m.role # "VIEWER" => m.dst[1] # n

(* No step brings a client back to where it has not joined. *)
LEMMA IdleBefore ==
  ASSUME Types, [Next]_vars, NEW n \in Node, cl'[n].st = "idle"
  PROVE  SameClient(n) /\ cl[n].st = "idle"
<1>1. CASE \E k \in Node : Join(n, k)
  BY <1>1, JoinDoes
<1>2. CASE \E m \in net : HandleAcknowledge(n, m)
  BY <1>2, HandleAcknowledgeDoes DEF ClientEnds
<1>3. CASE \E m \in net : HandleState(n, m)
  BY <1>3, HandleStateDoes
<1>4. CASE \E m \in net : HandleRoleChange(n, m) /\ m.role = "DEPUTY"
  BY <1>4, HandleRoleChangeDoes DEF ClientEnds, Begins
<1> QED
  BY <1>1, <1>2, <1>3, <1>4, ClientOrigin
  DEF ClientChanges, SameClient, ClientEnds, Begins, Follows

LEMMA AddrFields ==
  /\ \A n : ServerAddr(n)[1] = n /\ ServerAddr(n)[2] = 1
  /\ \A n \in Node : ClientAddr(n)[1] = n /\ ClientAddr(n) \in Addr /\ ServerAddr(n) \in Addr
  /\ \A a \in Addr : a[1] \in Node /\ a[2] \in {1, 2} /\ a = <<a[1], a[2]>>
  /\ \A n : <<n, 2>>[1] = n
BY DEF ServerAddr, ClientAddr, Addr

LEMMA StrangersInit == Init => Strangers
<1> SUFFICES ASSUME Init, NEW n \in Node, cl[n].st = "idle"
             PROVE  /\ cl[n].role = "NORMAL"
                    /\ \A p \in Entries : p.addr[1] # n
                    /\ net = {}
  BY DEF Strangers
<1>1. net = {} /\ n # Creator /\ cl[n].role = "NORMAL"
  BY SessionAssumption DEF Init, NewClient
<1>2. \A l \in AllLists : l = << >> \/ l = <<Player(0, <<Creator, 2>>, "MASTER")>>
  BY <1>1 DEF Init, AllLists, NewClient, NoServer, NoState
<1>3. \A p \in Entries : p.addr[1] # n
  BY <1>1, <1>2 DEF Entries, Player
<1> QED
  BY <1>1, <1>3

LEMMA StrangersNext ==
  ASSUME Types, Strangers, [Next]_vars
  PROVE  Strangers'
<1> SUFFICES ASSUME NEW n \in Node, cl'[n].st = "idle"
             PROVE  /\ cl'[n].role = "NORMAL"
                    /\ \A p \in Entries' : p.addr[1] # n
                    /\ \A m \in net' :
                         /\ m.type = "Join" => m.src[1] # n
                         /\ m.type = "RoleChange" /\ m.role # "VIEWER" => m.dst[1] # n
  BY DEF Strangers
<1>1. SameClient(n) /\ cl[n].st = "idle"
  BY IdleBefore
<1>2. /\ cl[n].role = "NORMAL"
      /\ \A p \in Entries : p.addr[1] # n
      /\ \A m \in net : /\ m.type = "Join" => m.src[1] # n
                        /\ m.type = "RoleChange" /\ m.role # "VIEWER" => m.dst[1] # n
  BY <1>1 DEF Strangers
<1>3. \A k \in Node : \A i \in DOMAIN srv[k].players : srv[k].players[i] \in Entries
  BY ListsOfServer, EntryOf
<1>4. ASSUME NEW p \in Entries'  PROVE p.addr[1] # n
  <2>1. CASE p \in Entries
    BY <1>2, <2>1
  <2>2. ASSUME NEW k \in Node, NEW m \in net, HandleJoin(k, m),
               p = Player(srv[k].uniqueId, m.src, m.role)
        PROVE  p.addr[1] # n
    BY <1>2, <2>2, HandleJoinDoes DEF Player
  <2>3. ASSUME NEW k \in Node, NEW i \in DOMAIN srv[k].players,
               p.addr = srv[k].players[i].addr
        PROVE  p.addr[1] # n
    BY <1>2, <1>3, <2>3
  <2>4. ASSUME NEW q \in Entries, p.addr = q.addr  PROVE p.addr[1] # n
    BY <1>2, <2>4
  <2>5. ASSUME NEW k \in Node, Begins(k), p.addr = <<k, 2>>  PROVE p.addr[1] # n
    BY <1>1, <2>5 DEF Begins
  <2> QED
    BY <2>1, <2>2, <2>3, <2>4, <2>5, EntryOrigin DEF EntryComes
<1>5. ASSUME NEW m \in net'
      PROVE  /\ m.type = "Join" => m.src[1] # n
             /\ m.type = "RoleChange" /\ m.role # "VIEWER" => m.dst[1] # n
  <2>1. CASE m \in net
    BY <1>2, <2>1
  <2>2. CASE m \notin net
    <3>1. PICK k \in Node : SentBy(k, m)
      BY <2>2, SentOrigin
    <3>2. CASE SendsJoin(k, m)
      <4>1. cl'[k].st = "joining" /\ m.src[1] = k /\ m.type = "Join"
        BY <3>2, JoinDoes, AddrFields DEF SendsJoin
      <4> QED
        BY <4>1
    <3>3. CASE SendsDeputy(k, m)
      BY <1>2, <1>3, <3>3 DEF SendsDeputy
    <3>4. CASE SendsMaster(k, m)
      BY <1>2, <1>3, <3>4 DEF SendsMaster
    <3>5. CASE SendsLeave(k, m)
      BY <3>5 DEF SendsLeave
    <3> QED
      BY <3>1, <3>2, <3>3, <3>4, <3>5, SentByType
  <2> QED
    BY <2>1, <2>2
<1> QED
  BY <1>1, <1>2, <1>4, <1>5 DEF SameClient

-----------------------------------------------------------------------------
(* Who asked to watch *)

Watches(n) == cl[n].role = "VIEWER"

DistinctIds(players) ==
  \A i, j \in DOMAIN players : i # j => players[i].id # players[j].id

(* The inductive invariant of ViewersOnlyWatch, as long as no id was given  *)
(* twice: nothing that names a viewer could make it a deputy or a master.   *)
Watchers ==
  /\ \A p \in Entries : Watches(p.addr[1]) => p.role = "VIEWER"
  /\ \A m \in net : m.type = "Join" /\ Watches(m.src[1]) => m.role = "VIEWER"
  /\ \A m \in net : m.type = "RoleChange" /\ m.role # "VIEWER" => ~Watches(m.dst[1])
  /\ \A l \in AllLists : DistinctIds(l)
  /\ \A n \in Node :
       srv[n].up =>
         /\ \A i \in DOMAIN srv[n].players :
              srv[n].players[i].id = srv[n].deputyId => ~Watches(srv[n].players[i].addr[1])
         /\ srv[n].deputyId \in Ids(srv[n].players) \/ srv[n].deputyId < srv[n].uniqueId
         /\ srv[n].joining # NoJoin => srv[n].joining.id < srv[n].uniqueId

NoIdTwice == "id twice" \notin mishaps

LEMMA MishapsStay ==
  ASSUME Types, [Next]_vars
  PROVE  mishaps \subseteq mishaps'
<1>1. CASE UNCHANGED mishaps
  BY <1>1
<1>2. CASE \E n \in Node : \E m \in net : HandleJoin(n, m) \/ HandleLeaver(n, m)
  BY <1>2, HandleJoinDoes, HandleLeaverDoes
<1> QED
  BY <1>1, <1>2 DEF Next, vars

LEMMA WatchersInit == Init => Watchers
<1> SUFFICES ASSUME Init  PROVE Watchers
  OBVIOUS
<1>1. /\ net = {}
      /\ srv[Creator].players = <<Player(0, <<Creator, 2>>, "MASTER")>>
      /\ srv[Creator].deputyId = -1 /\ srv[Creator].uniqueId = 1
      /\ srv[Creator].joining = NoJoin
      /\ \A n \in Node : srv[n].up => n = Creator
      /\ cl[Creator].role = "MASTER"
  BY SessionAssumption DEF Init, NoServer, NewClient
<1>2. \A l \in AllLists : l = << >> \/ l = <<Player(0, <<Creator, 2>>, "MASTER")>>
  BY <1>1 DEF Init, AllLists, NewClient, NoServer, NoState
<1>3. \A p \in Entries : p.addr[1] = Creator
  BY <1>2 DEF Entries, Player
<1>4. \A l \in AllLists : DistinctIds(l)
  BY <1>2 DEF DistinctIds
<1>5. /\ \A p \in Entries : Watches(p.addr[1]) => p.role = "VIEWER"
      /\ \A m \in net : m.type = "Join" /\ Watches(m.src[1]) => m.role = "VIEWER"
      /\ \A m \in net : m.type = "RoleChange" /\ m.role # "VIEWER" => ~Watches(m.dst[1])
  BY <1>1, <1>3 DEF Watches
<1>6. ASSUME NEW i \in DOMAIN srv[Creator].players
      PROVE  srv[Creator].players[i].id # srv[Creator].deputyId
  BY <1>1, <1>6 DEF Player
<1> QED
  BY <1>1, <1>4, <1>5, <1>6 DEF Watchers

(* A client that may play keeps on playing, and one that watches watching. *)
LEMMA WatchesStays ==
  ASSUME Types, Watchers, [Next]_vars, NEW n \in Node
  PROVE  /\ Watches(n) => cl'[n].role = "VIEWER" \/ cl[n].st = "idle"
         /\ cl'[n].role = "VIEWER" => Watches(n) \/ cl[n].st = "idle"
<1>1. CASE \E k \in Node : Join(n, k)
  BY <1>1, JoinDoes
<1>2. CASE \E m \in net : HandleAcknowledge(n, m)
  BY <1>2, HandleAcknowledgeDoes DEF ClientEnds, Watches
<1>3. CASE \E m \in net : HandleState(n, m)
  BY <1>3, HandleStateDoes DEF Watches
<1>4. ASSUME NEW m \in net, HandleRoleChange(n, m)  PROVE ~Watches(n) /\ cl'[n].role # "VIEWER"
  <2>1. /\ m.type = "RoleChange" /\ m.role # "VIEWER" /\ m.dst[1] = n
    BY <1>4, HandleRoleChangeDoes, AddrFields
  <2>2. ~Watches(n)
    BY <2>1 DEF Watchers
  <2> QED
    BY <1>4, <2>2, HandleRoleChangeDoes DEF Watches, Begins, ClientEnds
<1>5. CASE cl[n].role = "DEPUTY" /\ Begins(n)
  BY <1>5 DEF Watches, Begins
<1> QED
  BY <1>1, <1>2, <1>3, <1>4, <1>5, ClientOrigin
  DEF ClientChanges, SameClient, ClientEnds, Follows, Watches

(* Everything that names a program was there before, or the program was     *)
(* known: what is said of viewers in the new state was true of it before.   *)
LEMMA WatchedBefore ==
  ASSUME Types, Strangers, Watchers, [Next]_vars, NEW p \in Entries, p.addr \in Addr,
         cl'[p.addr[1]].role = "VIEWER"
  PROVE  Watches(p.addr[1]) /\ p.role = "VIEWER"
<1>1. p.addr[1] \in Node
  BY AddrFields
<1>2. cl[p.addr[1]].st # "idle"
  BY <1>1 DEF Strangers
<1> QED
  BY <1>1, <1>2, WatchesStays DEF Watchers

(* The chosen deputy plays. *)
LEMMA ChosenPlays ==
  ASSUME Types, Strangers, Watchers, [Next]_vars, NEW n \in Node, srv[n].up,
         NEW i \in DOMAIN srv[n].players, srv[n].players[i].id = ChosenDeputy(srv[n])
  PROVE  /\ ~Watches(srv[n].players[i].addr[1])
         /\ cl'[srv[n].players[i].addr[1]].role # "VIEWER"
<1> DEFINE players == srv[n].players
           d == ChosenDeputy(srv[n])
           k == players[i].addr[1]
<1>1. players \in Seq(PlayerType) /\ players \in AllLists
  BY TypesGive, ListsOfServer
<1>2. players[i] \in Entries /\ players[i].addr \in Addr /\ k \in Node
  BY <1>1, ListEntries, EntryOf, AddrFields
<1>3. ~Watches(k)
  <2>1. CASE d = srv[n].deputyId
    BY <2>1 DEF Watchers
  <2>2. CASE d # srv[n].deputyId
    <3>1. d \in Candidates(players)
      BY <2>2, AppointedFields
    <3> HIDE DEF d
    <3>2. PICK j \in DOMAIN players :
            players[j].id = d /\ players[j].role \notin {"VIEWER", "MASTER"}
      BY <3>1 DEF Candidates
    <3>3. i = j
      <4>1. DistinctIds(players)
        BY <1>1 DEF Watchers
      <4>2. players[i].id = d
        BY DEF d
      <4> QED
        BY <3>2, <4>1, <4>2 DEF DistinctIds
    <3> QED
      BY <1>2, <3>2, <3>3 DEF Watchers
  <2> QED
    BY <2>1, <2>2
<1>4. cl[k].st # "idle"
  BY <1>2 DEF Strangers
<1> QED
  BY <1>2, <1>3, <1>4, WatchesStays

LEMMA WatchersEntries ==
  ASSUME Types, Strangers, Watchers, [Next]_vars,
         NEW p \in Entries', cl'[p.addr[1]].role = "VIEWER"
  PROVE  p.role = "VIEWER"
<1>1. EntryComes(p) /\ p.addr \in Addr
  BY EntryOrigin DEF PlayerType
<1>2. CASE p \in Entries
  BY <1>1, <1>2, WatchedBefore
<1>3. ASSUME NEW n \in Node, NEW m \in net, HandleJoin(n, m), Listing(n, m),
             p = Player(srv[n].uniqueId, m.src, m.role)
      PROVE  p.role = "VIEWER"
  <2>1. p.addr = m.src /\ p.role = m.role /\ m.type = "Join"
    BY <1>3, HandleJoinDoes DEF Player
  <2>2. m.src[1] \in Node
    BY <1>1, <2>1, AddrFields
  <2>3. cl[m.src[1]].st # "idle"
    BY <2>1, <2>2 DEF Strangers
  <2>4. Watches(m.src[1])
    BY <2>1, <2>2, <2>3, WatchesStays
  <2> QED
    BY <2>1, <2>4 DEF Watchers
<1>4. ASSUME NEW n \in Node, NEW i \in DOMAIN srv[n].players, Appoint(n),
             srv[n].players[i].id = ChosenDeputy(srv[n]), p.addr = srv[n].players[i].addr
      PROVE  FALSE
  BY <1>4, AppointDoes, ChosenPlays
<1>5. ASSUME NEW n \in Node, Begins(n), p.addr = <<n, 2>>  PROVE FALSE
  BY <1>5, AddrFields DEF Begins
<1> QED
  BY <1>1, <1>2, <1>3, <1>4, <1>5 DEF EntryComes

LEMMA WatchersMessages ==
  ASSUME Types, Strangers, Watchers, [Next]_vars, NEW m \in net'
  PROVE  /\ m.type = "Join" /\ cl'[m.src[1]].role = "VIEWER" => m.role = "VIEWER"
         /\ m.type = "RoleChange" /\ m.role # "VIEWER" => cl'[m.dst[1]].role # "VIEWER"
<1>1. m \in Message
  BY TypesNext DEF Types
<1>2. m.src[1] \in Node /\ m.dst[1] \in Node
  BY <1>1, MessageFields, AddrFields
<1>3. CASE m \in net
  <2>1. CASE m.type = "Join"
    BY <1>2, <1>3, <2>1, WatchesStays DEF Watchers, Strangers
  <2>2. CASE m.type = "RoleChange" /\ m.role # "VIEWER"
    BY <1>2, <1>3, <2>2, WatchesStays DEF Watchers, Strangers
  <2> QED
    BY <2>1, <2>2
<1>4. CASE m \notin net
  <2>1. PICK n \in Node : SentBy(n, m)
    BY <1>4, SentOrigin
  <2>2. CASE SendsJoin(n, m)
    BY <2>2, AddrFields DEF SendsJoin
  <2>3. CASE SendsDeputy(n, m)
    BY <2>3, ChosenPlays DEF SendsDeputy
  <2>4. CASE SendsMaster(n, m)
    <3>1. PICK i \in DOMAIN srv[n].players :
            srv[n].players[i].id = srv[n].deputyId /\ m.dst = srv[n].players[i].addr
      BY <2>4 DEF SendsMaster
    <3>2. ~Watches(m.dst[1])
      BY <2>4, <3>1 DEF SendsMaster, Watchers
    <3>3. srv[n].players[i] \in Entries
      BY <3>1, ListsOfServer, EntryOf
    <3>4. cl[m.dst[1]].st # "idle"
      BY <1>2, <3>1, <3>3 DEF Strangers
    <3> QED
      BY <1>2, <2>4, <3>2, <3>4, WatchesStays DEF SendsMaster
  <2>5. CASE SendsLeave(n, m)
    BY <2>5 DEF SendsLeave
  <2> QED
    BY <2>1, <2>2, <2>3, <2>4, <2>5, SentByType
<1> QED
  BY <1>3, <1>4

LEMMA WithoutIdDistinct ==
  ASSUME NEW players \in Seq(PlayerType), NEW id, DistinctIds(players)
  PROVE  DistinctIds(WithoutId(players, id))
<1> DEFINE t    == WithoutId(players, id)
           keep == {i \in DOMAIN players : players[i].id # id}
<1>1. t \in Seq(PlayerType) /\ Picks(t, players, keep)
  BY WithoutIdEntry
<1>2. Len(t) \in Nat /\ DOMAIN t = 1 .. Len(t)
  BY <1>1, ListEntries
<1>3. keep \subseteq DOMAIN players /\ DOMAIN players = 1 .. Len(players) /\ Len(players) \in Nat
  BY ListEntries
<1> HIDE DEF t, keep
<1>4. PICK f \in [DOMAIN t -> keep] :
        /\ \A k \in DOMAIN t : t[k] = players[f[k]]
        /\ \A j, k \in DOMAIN t : j < k => f[j] < f[k]
  BY <1>1 DEF Picks
<1>5. ASSUME NEW j \in DOMAIN t, NEW k \in DOMAIN t, j # k  PROVE t[j].id # t[k].id
  <2>1. j \in Int /\ k \in Int
    BY <1>2
  <2>2. f[j] \in DOMAIN players /\ f[k] \in DOMAIN players /\ f[j] \in Int /\ f[k] \in Int
    BY <1>3, <1>4
  <2>3. f[j] # f[k]
    BY <1>4, <1>5, <2>1, <2>2
  <2> QED
    BY <1>4, <2>2, <2>3 DEF DistinctIds
<1> QED
  BY <1>5 DEF DistinctIds, t

LEMMA WatchersLists ==
  ASSUME Types, Watchers, [Next]_vars, NoIdTwice', NEW l \in AllLists'
  PROVE  DistinctIds(l)
<1>1. ListComes(l)
  BY ListOrigin
<1>2. \A n \in Node : /\ srv[n].players \in Seq(PlayerType) /\ DistinctIds(srv[n].players)
                      /\ cl[n].last.players \in Seq(PlayerType)
                      /\ DistinctIds(cl[n].last.players)
  BY TypesGive, ListsOfServer DEF Watchers
<1>3. CASE l \in AllLists
  BY <1>3 DEF Watchers
<1>4. CASE l = << >>
  BY <1>4 DEF DistinctIds
<1>5. ASSUME NEW n \in Node, NEW m \in net, HandleJoin(n, m), Listing(n, m),
             l = Append(srv[n].players, Player(srv[n].uniqueId, m.src, m.role))
      PROVE  DistinctIds(l)
  <2> DEFINE players == srv[n].players
             new == Player(srv[n].uniqueId, m.src, m.role)
             N == Len(players) + 1
  <2>1. new \in PlayerType /\ new.id = srv[n].uniqueId
    BY <1>5, TypesGive DEF Player, PlayerType, Listing, Role
  <2>2. /\ DOMAIN l = 1 .. N /\ l[N] = new /\ \A i \in DOMAIN players : l[i] = players[i]
    BY <1>2, <1>5, <2>1, AppendEntry
  <2>3. DOMAIN players = 1 .. Len(players) /\ Len(players) \in Nat
    BY <1>2, ListEntries
  <2>4. srv[n].uniqueId \notin Ids(players)
    <3>1. "id twice" \notin mishaps'
      BY DEF NoIdTwice
    <3>2. players # srv'[n].players
      <4>1. Len(srv'[n].players) # Len(players)
        BY <1>2, <1>5, <2>1, <2>3, AppendProperties DEF Listing
      <4> QED
        BY <4>1
    <3> QED
      BY <1>5, <3>1, <3>2, HandleJoinDoes DEF SameServer
  <2>5. \A i \in DOMAIN players : players[i].id # srv[n].uniqueId
    BY <2>4 DEF Ids
  <2> HIDE DEF players, new
  <2>6. ASSUME NEW i \in DOMAIN l, NEW j \in DOMAIN l, i # j  PROVE l[i].id # l[j].id
    <3>1. (i \in DOMAIN players \/ i = N) /\ (j \in DOMAIN players \/ j = N)
      BY <2>2, <2>3
    <3> QED
      BY <1>2, <2>1, <2>2, <2>5, <2>6, <3>1 DEF DistinctIds, players
  <2> QED
    BY <2>6 DEF DistinctIds
<1>6. ASSUME NEW n \in Node, NEW id, l = WithoutId(srv[n].players, id)  PROVE DistinctIds(l)
  BY <1>2, <1>6, WithoutIdDistinct
<1>7. ASSUME NEW n \in Node, l = Appointed(srv[n]).players  PROVE DistinctIds(l)
  BY <1>2, <1>7, AppointedFields DEF DistinctIds
<1>8. ASSUME NEW n \in Node, NEW id, l = ViewersAfter(srv[n].players, id)
      PROVE  DistinctIds(l)
  BY <1>2, <1>8, ViewersAfterEntry DEF DistinctIds
<1>9. ASSUME NEW n \in Node, l = TakenOver(n)  PROVE DistinctIds(l)
  BY <1>2, <1>9, TakenOverEntry DEF DistinctIds
<1> QED
  BY <1>1, <1>3, <1>4, <1>5, <1>6, <1>7, <1>8, <1>9 DEF ListComes

(* Who a server has for its deputy, and the ids it has still to give. *)
ServerWatched(n) ==
  srv[n].up =>
    /\ \A i \in DOMAIN srv[n].players :
         srv[n].players[i].id = srv[n].deputyId => ~Watches(srv[n].players[i].addr[1])
    /\ srv[n].deputyId \in Ids(srv[n].players) \/ srv[n].deputyId < srv[n].uniqueId
    /\ srv[n].joining # NoJoin => srv[n].joining.id < srv[n].uniqueId

LEMMA DeputyPlays ==
  ASSUME Types, Strangers, Watchers, [Next]_vars, NEW n \in Node, srv[n].up,
         NEW i \in DOMAIN srv[n].players, srv[n].players[i].id = srv[n].deputyId
  PROVE  cl'[srv[n].players[i].addr[1]].role # "VIEWER"
<1> DEFINE k == srv[n].players[i].addr[1]
<1>1. srv[n].players[i] \in Entries /\ srv[n].players[i].addr \in Addr /\ k \in Node
  BY TypesGive, ListsOfServer, ListEntries, EntryOf, AddrFields
<1>2. ~Watches(k)
  BY DEF Watchers
<1>3. cl[k].st # "idle"
  BY <1>1 DEF Strangers
<1> QED
  BY <1>1, <1>2, <1>3, WatchesStays

LEMMA WatchersServers ==
  ASSUME Types, Strangers, Watchers, [Next]_vars, NoIdTwice', NEW n \in Node
  PROVE  ServerWatched(n)'
<1> DEFINE players == srv[n].players
           after   == srv'[n].players
           d       == srv[n].deputyId
           d1      == srv'[n].deputyId
<1> SUFFICES ASSUME srv'[n].up
             PROVE  /\ \A i \in DOMAIN after :
                         after[i].id = d1 => cl'[after[i].addr[1]].role # "VIEWER"
                    /\ d1 \in Ids(after) \/ d1 < srv'[n].uniqueId
                    /\ srv'[n].joining # NoJoin => srv'[n].joining.id < srv'[n].uniqueId
  BY DEF ServerWatched, Watches
<1>1. /\ players \in Seq(PlayerType) /\ DOMAIN players = 1 .. Len(players)
      /\ Len(players) \in Nat /\ srv[n].uniqueId \in Nat /\ d \in Nat \cup {-1}
      /\ \A i \in DOMAIN players : players[i].id \in Nat
  BY TypesGive, ListEntries
<1>2. srv[n].up =>
        /\ \A i \in DOMAIN players : players[i].id = d => cl'[players[i].addr[1]].role # "VIEWER"
        /\ d \in Ids(players) \/ d < srv[n].uniqueId
        /\ srv[n].joining # NoJoin => srv[n].joining.id < srv[n].uniqueId
  BY DeputyPlays DEF Watchers
<1>3. CASE SameServer(n)
  BY <1>2, <1>3 DEF SameServer
<1>4. CASE \E m \in net : HandleJoin(n, m)
  <2>1. PICK m \in net : HandleJoin(n, m)
    BY <1>4
  <2>2. CASE Listing(n, m)
    <3> DEFINE new == Player(srv[n].uniqueId, m.src, m.role)
    <3>1. new \in PlayerType /\ new.id = srv[n].uniqueId
      BY <1>1, <2>2 DEF Player, PlayerType, Listing, Role
    <3>2. /\ DOMAIN after = 1 .. Len(players) + 1 /\ after[Len(players) + 1] = new
          /\ \A i \in DOMAIN players : after[i] = players[i]
          /\ srv'[n].uniqueId = srv[n].uniqueId + 1 /\ d1 = d
          /\ srv'[n].joining # NoJoin => srv'[n].joining.id = srv[n].uniqueId
      BY <1>1, <2>2, <3>1, AppendEntry DEF Listing
    <3>3. srv[n].uniqueId \notin Ids(players)
      <4>1. "id twice" \notin mishaps'
        BY DEF NoIdTwice
      <4>2. ~SameServer(n)
        <5>1. srv[n].uniqueId \in Nat /\ srv'[n].uniqueId = srv[n].uniqueId + 1
          BY <1>1, <3>2
        <5>2. srv'[n].uniqueId # srv[n].uniqueId
          BY <5>1
        <5> QED
          BY <5>2 DEF SameServer
      <4> QED
        BY <2>1, <4>1, <4>2, HandleJoinDoes
    <3>4. srv[n].up
      BY <2>1, HandleJoinDoes
    <3> HIDE DEF new
    <3>5. srv[n].uniqueId # d
      BY <1>1, <1>2, <3>3, <3>4
    <3>6. ASSUME d \in Ids(players)  PROVE d1 \in Ids(after)
      <4>1. PICK i \in DOMAIN players : players[i].id = d
        BY <3>6 DEF Ids
      <4>2. i \in DOMAIN after /\ after[i].id = d1
        BY <1>1, <3>2, <4>1
      <4> QED
        BY <4>2 DEF Ids
    <3>7. ASSUME NEW i \in DOMAIN after, after[i].id = d1
          PROVE  cl'[after[i].addr[1]].role # "VIEWER"
      <4>1. i \in DOMAIN players \/ i = Len(players) + 1
        BY <1>1, <3>2
      <4>2. i \in DOMAIN players /\ after[i] = players[i]
        BY <3>1, <3>2, <3>5, <3>7, <4>1
      <4> QED
        BY <1>2, <3>2, <3>4, <3>7, <4>2
    <3>8. d1 \in Ids(after) \/ d1 < srv'[n].uniqueId
      <4>1. d < srv[n].uniqueId => d1 < srv'[n].uniqueId
        BY <1>1, <3>2
      <4> QED
        BY <1>2, <3>4, <3>6, <4>1
    <3>9. srv'[n].joining # NoJoin => srv'[n].joining.id < srv'[n].uniqueId
      BY <1>1, <3>2
    <3> QED
      BY <3>7, <3>8, <3>9
  <2> QED
    BY <1>3, <2>1, <2>2, HandleJoinDoes
<1>5. CASE FinishJoin(n)
  <2> DEFINE j == srv[n].joining
             t == WithoutId(players, j.id)
  <2>1. /\ srv[n].up /\ j # NoJoin /\ d1 = d /\ srv'[n].uniqueId = srv[n].uniqueId
        /\ srv'[n].joining = NoJoin
        /\ after = players \/ after = t
    BY <1>5, FinishJoinDoes
  <2>2. CASE after = players
    BY <1>2, <2>1, <2>2
  <2>3. CASE after = t
    <3>1. /\ \A k \in DOMAIN t : \E i \in DOMAIN players : t[k] = players[i]
          /\ \A i \in DOMAIN players :
               players[i].id # j.id => \E k \in DOMAIN t : t[k] = players[i]
      <4>1. players \in Seq(PlayerType)
        BY <1>1
      <4> HIDE DEF players, j
      <4> QED
        BY <4>1, WithoutIdMembers
    <3> HIDE DEF t
    <3>2. d \in Ids(players) /\ d # j.id => d \in Ids(t)
      BY <3>1 DEF Ids
    <3> QED
      BY <1>2, <2>1, <2>3, <3>1, <3>2
  <2> QED
    BY <2>1, <2>2, <2>3
<1>6. CASE Appoint(n)
  <2>1. /\ srv[n].up /\ d1 = ChosenDeputy(srv[n]) /\ srv'[n].uniqueId = srv[n].uniqueId
        /\ srv'[n].joining = srv[n].joining /\ after = Appointed(srv[n]).players
        /\ DOMAIN after = DOMAIN players
        /\ \A i \in DOMAIN players :
             after[i].id = players[i].id /\ after[i].addr = players[i].addr
        /\ d1 # d => d1 \in Ids(after)
    BY <1>6, AppointDoes, AppointedFields
  <2>2. ASSUME NEW i \in DOMAIN after, after[i].id = d1
        PROVE  cl'[after[i].addr[1]].role # "VIEWER"
    BY <2>1, <2>2, ChosenPlays
  <2>3. d1 \in Ids(after) \/ d1 < srv'[n].uniqueId
    <3>1. d \in Ids(players) => d \in Ids(after)
      BY <2>1 DEF Ids
    <3> QED
      BY <1>2, <2>1, <3>1
  <2> QED
    BY <1>2, <2>1, <2>2, <2>3
<1>7. ASSUME NEW id, RemoveSilent(n, id)
      PROVE  /\ \A i \in DOMAIN after :
                  after[i].id = d1 => cl'[after[i].addr[1]].role # "VIEWER"
             /\ d1 \in Ids(after) \/ d1 < srv'[n].uniqueId
             /\ srv'[n].joining # NoJoin => srv'[n].joining.id < srv'[n].uniqueId
  <2> DEFINE t == WithoutId(players, id)
  <2>1. /\ srv[n].up /\ srv'[n].uniqueId = srv[n].uniqueId
        /\ srv'[n].joining = srv[n].joining /\ after = t
        /\ d1 = IF d = id THEN -1 ELSE d
    BY <1>7, RemoveSilentDoes
  <2>2. /\ \A k \in DOMAIN t : \E i \in DOMAIN players : t[k] = players[i]
        /\ \A i \in DOMAIN players :
             players[i].id # id => \E k \in DOMAIN t : t[k] = players[i]
    <3>1. players \in Seq(PlayerType)
      BY <1>1
    <3> HIDE DEF players
    <3> QED
      BY <3>1, WithoutIdMembers
  <2> HIDE DEF t
  <2>3. d \in Ids(players) /\ d # id => d \in Ids(t)
    BY <2>2 DEF Ids
  <2>4. ASSUME NEW i \in DOMAIN after, after[i].id = d1
        PROVE  cl'[after[i].addr[1]].role # "VIEWER"
    <3>1. PICK k \in DOMAIN players : after[i] = players[k]
      BY <2>1, <2>2
    <3>2. d1 = d
      BY <1>1, <2>1, <2>4, <3>1
    <3> QED
      BY <1>2, <2>1, <2>4, <3>1, <3>2
  <2> QED
    BY <1>1, <1>2, <2>1, <2>3, <2>4
<1>8. CASE \E m \in net : HandleLeaver(n, m)
  <2>1. PICK m \in net : HandleLeaver(n, m)
    BY <1>8
  <2>2. \/ SameServer(n)
        \/ /\ srv[n].up /\ srv'[n].uniqueId = srv[n].uniqueId /\ d1 = d
           /\ srv'[n].joining = srv[n].joining
           /\ DOMAIN after = DOMAIN players
           /\ \A i \in DOMAIN players :
                after[i].id = players[i].id /\ after[i].addr = players[i].addr
    <3>1. \/ SameServer(n)
          \/ /\ srv'[n].uniqueId = srv[n].uniqueId /\ d1 = d
             /\ srv'[n].joining = srv[n].joining
             /\ after = ViewersAfter(players, m.id)
      BY <2>1, HandleLeaverDoes
    <3>2. srv[n].up
      BY <2>1, HandleLeaverDoes
    <3>3. players \in Seq(PlayerType)
      BY <1>1
    <3> HIDE DEF players
    <3>4. /\ DOMAIN ViewersAfter(players, m.id) = DOMAIN players
          /\ \A i \in DOMAIN players :
               /\ ViewersAfter(players, m.id)[i].id = players[i].id
               /\ ViewersAfter(players, m.id)[i].addr = players[i].addr
      BY <3>3, ViewersAfterEntry
    <3> QED
      BY <3>1, <3>2, <3>4
  <2>3. DOMAIN after = DOMAIN players
          /\ (\A i \in DOMAIN players : after[i].id = players[i].id)
          /\ d \in Ids(players) => d \in Ids(after)
    BY DEF Ids
  <2> QED
    BY <1>2, <1>3, <2>2, <2>3
<1>9. CASE Begins(n)
  <2> DEFINE t == TakenOver(n)
  <2>1. /\ after = t /\ srv'[n].joining = NoJoin /\ srv'[n].uniqueId = FirstFreeId(t)
        /\ d1 = -1 \/ \E i \in DOMAIN t : t[i].role = "NORMAL" /\ t[i].id = d1
        /\ srv'[n].uniqueId \in Nat
    <3>1. ServerFrom(n).uniqueId \in Nat
      BY <1>9, ServerFromFields DEF Begins, AServer
    <3> QED
      BY <1>9, <3>1, ServerFromFields DEF Begins
  <2>2. after \in AllLists'
    BY DEF AllLists
  <2>3. DistinctIds(after) /\ after \in Seq(PlayerType)
    BY <2>2, WatchersLists, TypesNext, ListTypedNext
  <2>4. ASSUME NEW i \in DOMAIN after, after[i].id = d1
        PROVE  cl'[after[i].addr[1]].role # "VIEWER"
    <3>1. after[i].id \in Nat
      BY <2>3, ListEntries
    <3>2. PICK k \in DOMAIN t : t[k].role = "NORMAL" /\ t[k].id = d1
      BY <2>1, <2>4, <3>1
    <3>3. i = k
      BY <2>1, <2>3, <2>4, <3>2 DEF DistinctIds
    <3>4. after[i] \in Entries'
      BY <2>2 DEF Entries
    <3>5. after[i].role = "NORMAL"
      BY <2>1, <3>2, <3>3
    <3> QED
      BY <3>4, <3>5, WatchersEntries
  <2>5. d1 \in Ids(after) \/ d1 = -1
    BY <2>1 DEF Ids
  <2> QED
    BY <2>1, <2>4, <2>5
<1>10. CASE srv'[n] = NoServer
  BY <1>10 DEF NoServer
<1> QED
  BY <1>3, <1>4, <1>5, <1>6, <1>7, <1>8, <1>9, <1>10, ServerOrigin DEF ServerChanges

LEMMA WatchersNext ==
  ASSUME Types, Strangers, Watchers, [Next]_vars, NoIdTwice'
  PROVE  Watchers'
<1>1. \A p \in Entries' : cl'[p.addr[1]].role = "VIEWER" => p.role = "VIEWER"
  BY WatchersEntries
<1>2. \A m \in net' :
        /\ m.type = "Join" /\ cl'[m.src[1]].role = "VIEWER" => m.role = "VIEWER"
        /\ m.type = "RoleChange" /\ m.role # "VIEWER" => cl'[m.dst[1]].role # "VIEWER"
  BY WatchersMessages
<1>3. \A l \in AllLists' : DistinctIds(l)
  BY WatchersLists
<1>4. \A n \in Node : ServerWatched(n)'
  BY WatchersServers
<1> QED
  BY <1>1, <1>2, <1>3, <1>4 DEF Watchers, Watches, ServerWatched

(* Everything that is known of a state of the session: what the types are,  *)
(* that nobody names a program that has not joined, who only watches.       *)
LEMMA WatchersAlways == Spec => [](Types /\ Strangers /\ (NoIdTwice => Watchers))
<1> DEFINE Inv == Types /\ Strangers /\ (NoIdTwice => Watchers)
<1>1. Init => Inv
  BY TypesInit, StrangersInit, WatchersInit
<1>2. Inv /\ [Next]_vars => Inv'
  <2> SUFFICES ASSUME Inv, [Next]_vars  PROVE Inv'
    OBVIOUS
  <2>1. Types' /\ Strangers'
    BY TypesNext, StrangersNext
  <2>2. ASSUME NoIdTwice'  PROVE Watchers'
    <3>1. NoIdTwice
      BY <2>2, MishapsStay DEF NoIdTwice
    <3> QED
      BY <2>2, <3>1, WatchersNext
  <2> QED
    BY <2>1, <2>2
<1> QED
  BY <1>1, <1>2, PTL DEF Spec

(* Who asked to watch is never made deputy or master, until an id is given  *)
(* twice: ViewersOnlyWatch, because nothing that could change its role is   *)
(* ever addressed to it.                                                    *)
THEOREM ViewersNeverPlay == Spec => ViewersOnlyWatch
<1> DEFINE Step == \A n \in Node :
                     cl[n].role = "VIEWER" /\ "id twice" \notin mishaps
                       => cl'[n].role = "VIEWER"
<1>1. Types /\ Strangers /\ (NoIdTwice => Watchers) /\ [Next]_vars => [Step]_vars
  <2> SUFFICES ASSUME Types, Strangers, NoIdTwice => Watchers, [Next]_vars,
                      NEW n \in Node, cl[n].role = "VIEWER", NoIdTwice
               PROVE  cl'[n].role = "VIEWER"
    BY DEF NoIdTwice
  <2>1. cl[n].st # "idle"
    BY DEF Strangers
  <2> QED
    BY <2>1, WatchesStays DEF Watches
<1> QED
  BY <1>1, WatchersAlways, PTL DEF Spec, ViewersOnlyWatch

-----------------------------------------------------------------------------
(* The game's creator *)

Ended(n) == cl[n].st \in {"out", "panicked", "crashed"}

(* The creator's server runs until its client has ended; nobody has its     *)
(* address, and a master is its own client.                                 *)
Founder ==
  /\ srv[Creator].up \/ Ended(Creator)
  /\ cl[Creator].st = "playing" \/ Ended(Creator)
  /\ \A n \in Node : srv[n].up => cl[n].peer = ServerAddr(n)
  /\ \A p \in Entries : p.addr # ServerAddr(Creator)
  /\ \A m \in net : m.type = "Join" => m.src # ServerAddr(Creator)

LEMMA FounderInit == Init => Founder
<1> SUFFICES ASSUME Init  PROVE Founder
  OBVIOUS
<1>1. /\ net = {} /\ srv[Creator].up /\ cl[Creator].st = "playing"
      /\ cl[Creator].peer = ServerAddr(Creator)
      /\ \A n \in Node : srv[n].up => n = Creator
  BY SessionAssumption DEF Init, NoServer, NewClient
<1>2. \A l \in AllLists : l = << >> \/ l = <<Player(0, <<Creator, 2>>, "MASTER")>>
  BY <1>1 DEF Init, AllLists, NewClient, NoServer, NoState
<1>3. \A p \in Entries : p.addr = <<Creator, 2>>
  BY <1>2 DEF Entries, Player
<1> QED
  BY <1>1, <1>3 DEF Founder, ServerAddr

LEMMA FounderNext ==
  ASSUME Types, Founder, [Next]_vars
  PROVE  Founder'
<1>1. /\ srv'[Creator].up \/ Ended(Creator)'
      /\ cl'[Creator].st = "playing" \/ Ended(Creator)'
  <2>1. Creator \in Node
    BY SessionAssumption
  <2>2. cl'[Creator].st = "playing" \/ Ended(Creator)'
    <3>1. CASE \E k \in Node : Join(Creator, k)
      BY <2>1, <3>1, JoinDoes DEF Founder, Ended
    <3>2. CASE \E m \in net : HandleAcknowledge(Creator, m)
      BY <2>1, <3>2, HandleAcknowledgeDoes DEF Founder, Ended
    <3>3. CASE \E m \in net : HandleState(Creator, m)
      BY <2>1, <3>3, HandleStateDoes
    <3>4. CASE \E m \in net : HandleRoleChange(Creator, m) /\ m.role = "DEPUTY"
      BY <2>1, <3>4, HandleRoleChangeDoes DEF ClientEnds, Ended
    <3> QED
      BY <2>1, <3>1, <3>2, <3>3, <3>4, ClientOrigin
      DEF ClientChanges, SameClient, ClientEnds, Begins, Follows, Founder, Ended
  <2>3. srv'[Creator].up \/ Ended(Creator)'
    <3>1. CASE Ended(Creator)
      <4>1. Ended(Creator)'
        <5>1. CASE \E k \in Node : Join(Creator, k)
          BY <2>1, <3>1, <5>1, JoinDoes DEF Ended
        <5>2. CASE \E m \in net : HandleAcknowledge(Creator, m)
          BY <2>1, <3>1, <5>2, HandleAcknowledgeDoes DEF Ended
        <5>3. CASE \E m \in net : HandleState(Creator, m)
          BY <2>1, <3>1, <5>3, HandleStateDoes DEF Ended
        <5>4. CASE \E m \in net : HandleRoleChange(Creator, m)
          BY <2>1, <3>1, <5>4, HandleRoleChangeDoes DEF Ended
        <5>5. CASE Suspect(Creator)
          BY <2>1, <3>1, <5>5, SuspectDoes DEF Ended
        <5> QED
          BY <2>1, <3>1, <5>1, <5>2, <5>3, <5>4, <5>5, ClientOrigin
          DEF ClientChanges, SameClient, ClientEnds, Ended
      <4> QED
        BY <4>1
    <3>2. CASE srv[Creator].up
      <4>1. CASE \E m \in net : HandleJoin(Creator, m)
        BY <2>1, <3>2, <4>1, HandleJoinDoes DEF SameServer, Listing
      <4>2. CASE FinishJoin(Creator)
        BY <2>1, <4>2, FinishJoinDoes
      <4>3. CASE Appoint(Creator)
        BY <2>1, <4>3, AppointDoes
      <4>4. CASE \E id : RemoveSilent(Creator, id)
        BY <2>1, <4>4, RemoveSilentDoes
      <4>5. CASE \E m \in net : HandleLeaver(Creator, m)
        BY <2>1, <3>2, <4>5, HandleLeaverDoes DEF SameServer
      <4> QED
        BY <2>1, <3>2, <4>1, <4>2, <4>3, <4>4, <4>5, ServerOrigin
        DEF ServerChanges, SameServer, Begins, Ended
    <3> QED
      BY <3>1, <3>2 DEF Founder
  <2> QED
    BY <2>2, <2>3
<1>2. ASSUME NEW n \in Node, srv'[n].up  PROVE cl'[n].peer = ServerAddr(n)
  <2>1. CASE Begins(n)
    BY <2>1 DEF Begins
  <2>2. CASE ~Begins(n)
    <3>1. srv[n].up
      <4>1. CASE \E m \in net : HandleJoin(n, m)
        BY <4>1, HandleJoinDoes
      <4>2. CASE FinishJoin(n)
        BY <4>2, FinishJoinDoes
      <4>3. CASE Appoint(n)
        BY <4>3, AppointDoes
      <4>4. CASE \E id : RemoveSilent(n, id)
        BY <4>4, RemoveSilentDoes
      <4>5. CASE \E m \in net : HandleLeaver(n, m)
        BY <4>5, HandleLeaverDoes
      <4> QED
        BY <1>2, <2>2, <4>1, <4>2, <4>3, <4>4, <4>5, ServerOrigin
        DEF ServerChanges, SameServer, NoServer
    <3>2. cl[n].peer = ServerAddr(n) /\ cl[n].st \in {"playing", "out"}
      BY <3>1, TypesGive DEF Founder
    <3>3. CASE \E k \in Node : Join(n, k)
      BY <3>2, <3>3, JoinDoes
    <3>4. CASE \E m \in net : HandleAcknowledge(n, m)
      BY <3>1, <3>4, HandleAcknowledgeDoes
    <3>5. CASE \E m \in net : HandleState(n, m)
      BY <3>1, <3>5, HandleStateDoes
    <3>6. CASE \E m \in net : HandleRoleChange(n, m)
      BY <3>1, <3>6, HandleRoleChangeDoes
    <3>7. CASE Suspect(n)
      BY <3>1, <3>7, SuspectDoes
    <3> QED
      BY <3>2, <3>3, <3>4, <3>5, <3>6, <3>7, ClientOrigin
      DEF ClientChanges, SameClient, ClientEnds
  <2> QED
    BY <2>1, <2>2
<1>3. ASSUME NEW p \in Entries'  PROVE p.addr # ServerAddr(Creator)
  <2>1. CASE p \in Entries
    BY <2>1 DEF Founder
  <2>2. ASSUME NEW n \in Node, NEW m \in net, HandleJoin(n, m),
               p = Player(srv[n].uniqueId, m.src, m.role)
        PROVE  p.addr # ServerAddr(Creator)
    BY <2>2, HandleJoinDoes DEF Player, Founder
  <2>3. ASSUME NEW n \in Node, NEW i \in DOMAIN srv[n].players, p.addr = srv[n].players[i].addr
        PROVE  p.addr # ServerAddr(Creator)
    BY <2>3, ListsOfServer, EntryOf DEF Founder
  <2>4. ASSUME NEW q \in Entries, p.addr = q.addr  PROVE p.addr # ServerAddr(Creator)
    BY <2>4 DEF Founder
  <2>5. ASSUME NEW n \in Node, p.addr = <<n, 2>>  PROVE p.addr # ServerAddr(Creator)
    BY <2>5 DEF ServerAddr
  <2> QED
    BY <2>1, <2>2, <2>3, <2>4, <2>5, EntryOrigin DEF EntryComes
<1>4. ASSUME NEW m \in net', m.type = "Join"  PROVE m.src # ServerAddr(Creator)
  <2>1. CASE m \in net
    BY <1>4, <2>1 DEF Founder
  <2>2. CASE m \notin net
    <3>1. PICK n \in Node : SendsJoin(n, m)
      BY <1>4, <2>2, SentOrigin, SentByType
    <3>2. n # Creator
      BY <3>1, JoinDoes DEF SendsJoin, Founder, Ended
    <3> QED
      BY <3>1, <3>2 DEF SendsJoin, ServerAddr
  <2> QED
    BY <2>1, <2>2
<1> QED
  BY <1>1, <1>2, <1>3, <1>4 DEF Founder

-----------------------------------------------------------------------------
(* The ids that the creator's server has given *)

ListedAs(a, i) ==
  \E k \in DOMAIN srv[Creator].players :
    srv[Creator].players[k].addr = a /\ srv[Creator].players[k].id = i

ToldOf(a, i) ==
  \E m \in net : /\ m.type \in {"Ack", "RoleChange"} /\ m.src = ServerAddr(Creator)
                 /\ m.dst = a /\ m.id = i

JoiningAs(a, i) ==
  /\ srv[Creator].joining # NoJoin
  /\ srv[Creator].joining.addr = a /\ srv[Creator].joining.id = i

PlaysAs(a, i) ==
  \E n \in Node : /\ cl[n].st = "playing" /\ cl[n].peer = ServerAddr(Creator)
                  /\ ClientAddr(n) = a /\ cl[n].id = i

(* The address a goes by the id i, for its owner, for the creator's server  *)
(* or in a message between them.                                            *)
Holds(a, i) == ListedAs(a, i) \/ ToldOf(a, i) \/ JoiningAs(a, i) \/ PlaysAs(a, i)

Ascending(players) ==
  \A i, j \in DOMAIN players : i < j => players[i].id < players[j].id

(* The inductive invariant of CreatorGivesNewIds: an id has one holder, and *)
(* the next id is above all that were given.                                *)
NewIds ==
  srv[Creator].up =>
    /\ Ascending(srv[Creator].players)
    /\ \A a, b \in Addr : \A i \in Nat : Holds(a, i) /\ Holds(b, i) => a = b
    /\ \A a \in Addr : \A i \in Nat : Holds(a, i) => i < srv[Creator].uniqueId

(* The step that lists the address a under a new id. *)
Admits(a, i) ==
  \E m \in net : /\ HandleJoin(Creator, m) /\ Listing(Creator, m)
                 /\ a = m.src /\ i = srv[Creator].uniqueId

LEMMA CreatorStays ==
  ASSUME Types, Founder, [Next]_vars, srv'[Creator].up
  PROVE  srv[Creator].up /\ ServerChanges(Creator) /\ ~Begins(Creator)
         /\ srv'[Creator] # NoServer /\ Creator \in Node
<1>1. Creator \in Node /\ ServerChanges(Creator)
  BY SessionAssumption, ServerOrigin
<1>2. srv[Creator].up
  <2>1. CASE cl[Creator].st = "playing"
    BY <2>1 DEF Founder, Ended
  <2>2. CASE Ended(Creator)
    <3>1. CASE \E m \in net : HandleJoin(Creator, m)
      BY <1>1, <3>1, HandleJoinDoes
    <3>2. CASE FinishJoin(Creator)
      BY <1>1, <3>2, FinishJoinDoes
    <3>3. CASE Appoint(Creator)
      BY <1>1, <3>3, AppointDoes
    <3>4. CASE \E id : RemoveSilent(Creator, id)
      BY <1>1, <3>4, RemoveSilentDoes
    <3>5. CASE \E m \in net : HandleLeaver(Creator, m)
      BY <1>1, <3>5, HandleLeaverDoes
    <3>6. CASE SameServer(Creator)
      BY <3>6 DEF SameServer
    <3>7. CASE Begins(Creator)
      BY <2>2, <3>7 DEF Begins, Ended
    <3>8. ~(srv'[Creator] = NoServer)
      BY DEF NoServer
    <3> QED
      BY <1>1, <3>1, <3>2, <3>3, <3>4, <3>5, <3>6, <3>7, <3>8 DEF ServerChanges
  <2> QED
    BY <2>1, <2>2 DEF Founder
<1> QED
  BY <1>1, <1>2 DEF Begins, NoServer

LEMMA ListedOrigin ==
  ASSUME Types, Founder, [Next]_vars, srv'[Creator].up, NEW a, NEW i, ListedAs(a, i)'
  PROVE  ListedAs(a, i) \/ Admits(a, i)
<1> DEFINE players == srv[Creator].players
           after   == srv'[Creator].players
<1>1. /\ srv[Creator].up /\ ServerChanges(Creator) /\ ~Begins(Creator)
      /\ srv'[Creator] # NoServer /\ Creator \in Node
  BY CreatorStays
<1>2. PICK k \in DOMAIN after : after[k].addr = a /\ after[k].id = i
  BY DEF ListedAs
<1>3. /\ players \in Seq(PlayerType) /\ DOMAIN players = 1 .. Len(players)
      /\ Len(players) \in Nat
  BY <1>1, TypesGive, ListEntries
<1>4. CASE SameServer(Creator)
  BY <1>2, <1>4 DEF SameServer, ListedAs
<1>5. ASSUME NEW m \in net, HandleJoin(Creator, m)  PROVE ListedAs(a, i) \/ Admits(a, i)
  <2>1. CASE Listing(Creator, m)
    <3> DEFINE new == Player(srv[Creator].uniqueId, m.src, m.role)
    <3>1. /\ new \in PlayerType /\ new.id = srv[Creator].uniqueId /\ new.addr = m.src
          /\ after = Append(players, new)
      BY <1>1, <2>1, TypesGive DEF Player, PlayerType, Listing, Role
    <3> HIDE DEF new
    <3>2. /\ DOMAIN after = 1 .. Len(players) + 1 /\ after[Len(players) + 1] = new
          /\ \A j \in DOMAIN players : after[j] = players[j]
      BY <1>3, <3>1, AppendEntry
    <3>3. k \in DOMAIN players \/ k = Len(players) + 1
      BY <1>2, <1>3, <3>2
    <3>4. CASE k \in DOMAIN players
      BY <1>2, <3>2, <3>4 DEF ListedAs
    <3>5. CASE k = Len(players) + 1
      BY <1>2, <1>5, <2>1, <3>1, <3>2, <3>5 DEF Admits
    <3> QED
      BY <3>3, <3>4, <3>5
  <2> QED
    BY <1>1, <1>4, <1>5, <2>1, HandleJoinDoes
<1>6. ASSUME NEW id, after = WithoutId(players, id)  PROVE ListedAs(a, i)
  BY <1>2, <1>3, <1>6, WithoutIdMembers DEF ListedAs
<1>7. CASE FinishJoin(Creator)
  BY <1>1, <1>2, <1>6, <1>7, FinishJoinDoes DEF ListedAs
<1>8. CASE Appoint(Creator)
  BY <1>1, <1>2, <1>8, AppointDoes, AppointedFields DEF ListedAs
<1>9. ASSUME NEW id, RemoveSilent(Creator, id)  PROVE ListedAs(a, i)
  BY <1>1, <1>6, <1>9, RemoveSilentDoes
<1>10. ASSUME NEW m \in net, HandleLeaver(Creator, m)
       PROVE  ListedAs(a, i) \/ Admits(a, i)
  <2>1. CASE after = ViewersAfter(players, m.id)
    BY <1>2, <1>3, <2>1, ViewersAfterEntry DEF ListedAs
  <2> QED
    BY <1>1, <1>4, <1>10, <2>1, HandleLeaverDoes
<1> QED
  BY <1>1, <1>4, <1>5, <1>7, <1>8, <1>9, <1>10 DEF ServerChanges

LEMMA ToldOrigin ==
  ASSUME Types, Founder, [Next]_vars, srv'[Creator].up, NEW a, NEW i, ToldOf(a, i)'
  PROVE  Holds(a, i) \/ Admits(a, i)
<1>1. PICK m \in net' : /\ m.type \in {"Ack", "RoleChange"} /\ m.src = ServerAddr(Creator)
                        /\ m.dst = a /\ m.id = i
  BY DEF ToldOf
<1>2. CASE m \in net
  BY <1>1, <1>2 DEF Holds, ToldOf
<1>3. CASE m \notin net
  <2>1. PICK n \in Node : SentBy(n, m)
    BY <1>3, SentOrigin
  <2>2. CASE SendsAck(n, m)
    <3>1. n = Creator
      BY <1>1, <2>2 DEF SendsAck, ServerAddr
    <3>2. CASE \E j \in net : /\ HandleJoin(n, j) /\ Listing(n, j) /\ j.role = "VIEWER"
                              /\ m.dst = j.src /\ m.id = srv[n].uniqueId
      BY <1>1, <3>1, <3>2 DEF Admits
    <3>3. CASE /\ FinishJoin(n)
               /\ m.dst = srv[n].joining.addr /\ m.id = srv[n].joining.id
      BY <1>1, <3>1, <3>3, FinishJoinDoes DEF Holds, JoiningAs
    <3> QED
      BY <2>2, <3>2, <3>3 DEF SendsAck
  <2>3. CASE SendsDeputy(n, m)
    BY <1>1, <2>3 DEF SendsDeputy, Holds, ListedAs, ServerAddr
  <2>4. CASE SendsMaster(n, m)
    BY <1>1, <2>4 DEF SendsMaster, Holds, ListedAs, ServerAddr
  <2>5. CASE SendsLeave(n, m)
    <3>1. srv[Creator].up
      BY CreatorStays
    <3>2. m.src = ClientAddr(n)
      BY <2>5 DEF SendsLeave
    <3> QED
      BY <1>1, <3>1, <3>2 DEF ClientAddr, ServerAddr
  <2> QED
    BY <1>1, <2>1, <2>2, <2>3, <2>4, <2>5, SentByType
<1> QED
  BY <1>2, <1>3

LEMMA JoiningOrigin ==
  ASSUME Types, Founder, [Next]_vars, srv'[Creator].up, NEW a, NEW i, JoiningAs(a, i)'
  PROVE  JoiningAs(a, i) \/ Admits(a, i)
<1>1. /\ srv[Creator].up /\ ServerChanges(Creator) /\ ~Begins(Creator)
      /\ srv'[Creator] # NoServer /\ Creator \in Node
  BY CreatorStays
<1>2. /\ srv'[Creator].joining # NoJoin
      /\ srv'[Creator].joining.addr = a /\ srv'[Creator].joining.id = i
  BY DEF JoiningAs
<1>3. CASE srv'[Creator].joining = srv[Creator].joining
  BY <1>2, <1>3 DEF JoiningAs
<1>4. ASSUME NEW m \in net, HandleJoin(Creator, m)  PROVE JoiningAs(a, i) \/ Admits(a, i)
  <2>1. CASE Listing(Creator, m)
    <3>1. srv'[Creator].joining = [id |-> srv[Creator].uniqueId, addr |-> m.src]
      BY <1>2, <2>1 DEF Listing
    <3>2. a = m.src /\ i = srv[Creator].uniqueId
      BY <1>2, <3>1
    <3> QED
      BY <1>4, <2>1, <3>2 DEF Admits
  <2> QED
    BY <1>1, <1>3, <1>4, <2>1, HandleJoinDoes DEF SameServer
<1>5. CASE FinishJoin(Creator)
  BY <1>1, <1>2, <1>5, FinishJoinDoes
<1>6. CASE Appoint(Creator)
  BY <1>1, <1>3, <1>6, AppointDoes
<1>7. CASE \E id : RemoveSilent(Creator, id)
  BY <1>1, <1>3, <1>7, RemoveSilentDoes
<1>8. CASE \E m \in net : HandleLeaver(Creator, m)
  BY <1>1, <1>3, <1>8, HandleLeaverDoes DEF SameServer
<1> QED
  BY <1>1, <1>3, <1>4, <1>5, <1>6, <1>7, <1>8 DEF ServerChanges, SameServer

(* The socket of a client in touch with the creator stays the same. *)
LEMMA SocketStays ==
  ASSUME Types, Founder, Founder', srv[Creator].up, srv'[Creator].up, NEW n \in Node,
         cl[n].peer = ServerAddr(Creator), cl'[n].peer = ServerAddr(Creator)
  PROVE  ClientAddr(n)' = ClientAddr(n)
<1>1. CASE n = Creator
  BY <1>1 DEF ClientAddr
<1>2. CASE n # Creator
  <2>1. ServerAddr(n) # ServerAddr(Creator)
    BY <1>2 DEF ServerAddr
  <2>2. srv[n].up = FALSE /\ srv'[n].up = FALSE
    <3>1. srv[n].up \in BOOLEAN
      BY TypesGive
    <3>2. ~srv[n].up /\ ~srv'[n].up
      BY <2>1 DEF Founder
    <3> QED
      BY <3>1, <3>2
  <2> QED
    BY <2>2 DEF ClientAddr
<1> QED
  BY <1>1, <1>2

LEMMA PlaysOrigin ==
  ASSUME Types, Founder, Founder', [Next]_vars, srv'[Creator].up,
         NEW a, NEW i, PlaysAs(a, i)'
  PROVE  Holds(a, i)
<1>1. PICK n \in Node : /\ cl'[n].st = "playing" /\ cl'[n].peer = ServerAddr(Creator)
                        /\ ClientAddr(n)' = a /\ cl'[n].id = i
  BY DEF PlaysAs, ServerAddr
<1>2. srv[Creator].up /\ Creator \in Node
  BY CreatorStays
<1>3. CASE cl[n].st = "playing" /\ cl[n].peer = cl'[n].peer /\ cl[n].id = cl'[n].id
  BY <1>1, <1>2, <1>3, SocketStays DEF Holds, PlaysAs
<1>4. CASE \E m \in net : HandleAcknowledge(n, m)
  <2>1. PICK m \in net : HandleAcknowledge(n, m)
    BY <1>4
  <2>2. /\ cl[n].st = "joining" /\ ~srv[n].up /\ m.src = cl[n].peer /\ m.dst = ServerAddr(n)
        /\ m.type \in {"Ack", "RoleChange"} /\ cl'[n].id = m.id /\ cl'[n].peer = cl[n].peer
    BY <1>1, <2>1, HandleAcknowledgeDoes DEF ClientEnds
  <2>3. a = ServerAddr(n)
    <3>1. ClientAddr(n)' = ClientAddr(n)
      BY <1>1, <1>2, <2>2, SocketStays
    <3> QED
      BY <1>1, <2>2, <3>1 DEF ClientAddr, ServerAddr
  <2> QED
    BY <1>1, <2>2, <2>3 DEF Holds, ToldOf
<1>5. CASE \E k \in Node : Join(n, k)
  BY <1>1, <1>5, JoinDoes
<1>6. CASE \E m \in net : HandleState(n, m)
  BY <1>1, <1>3, <1>6, HandleStateDoes
<1>7. CASE \E m \in net : HandleRoleChange(n, m) /\ m.role = "DEPUTY"
  BY <1>1, <1>3, <1>7, HandleRoleChangeDoes DEF ClientEnds
<1>8. CASE Begins(n)
  <2>1. n = Creator
    BY <1>1, <1>8 DEF Begins, ServerAddr
  <2> QED
    BY <1>2, <1>8, <2>1 DEF Begins
<1>9. CASE Follows(n)
  <2>1. PICK j \in DOMAIN cl[n].last.players : cl'[n].peer = cl[n].last.players[j].addr
    BY <1>9 DEF Follows
  <2> QED
    BY <1>1, <2>1, ListsOfServer, EntryOf DEF Founder
<1>10. CASE SameClient(n)
  BY <1>1, <1>3, <1>10 DEF SameClient
<1>11. CASE ClientEnds(n)
  BY <1>1, <1>11 DEF ClientEnds
<1> QED
  BY <1>4, <1>5, <1>6, <1>7, <1>8, <1>9, <1>10, <1>11, ClientOrigin DEF ClientChanges

LEMMA HoldsOrigin ==
  ASSUME Types, Founder, Founder', [Next]_vars, srv'[Creator].up,
         NEW a, NEW i, Holds(a, i)'
  PROVE  Holds(a, i) \/ Admits(a, i)
BY ListedOrigin, ToldOrigin, JoiningOrigin, PlaysOrigin DEF Holds

LEMMA WithoutIdAscending ==
  ASSUME NEW players \in Seq(PlayerType), NEW id, Ascending(players)
  PROVE  Ascending(WithoutId(players, id))
<1> DEFINE t    == WithoutId(players, id)
           keep == {i \in DOMAIN players : players[i].id # id}
<1>1. t \in Seq(PlayerType) /\ Picks(t, players, keep)
  BY WithoutIdEntry
<1>2. keep \subseteq DOMAIN players
  OBVIOUS
<1> HIDE DEF t, keep
<1>3. PICK f \in [DOMAIN t -> keep] :
        /\ \A k \in DOMAIN t : t[k] = players[f[k]]
        /\ \A j, k \in DOMAIN t : j < k => f[j] < f[k]
  BY <1>1 DEF Picks
<1>4. ASSUME NEW j \in DOMAIN t, NEW k \in DOMAIN t, j < k  PROVE t[j].id < t[k].id
  <2>1. f[j] \in DOMAIN players /\ f[k] \in DOMAIN players /\ f[j] < f[k]
    BY <1>2, <1>3, <1>4
  <2>2. players[f[j]].id < players[f[k]].id
    BY <2>1 DEF Ascending
  <2> QED
    BY <1>3, <2>2
<1> QED
  BY <1>4 DEF Ascending, t

(* Other lists with the same ids are in order too. *)
LEMMA SameIdsAscending ==
  ASSUME NEW players, NEW t, DOMAIN t = DOMAIN players,
         \A i \in DOMAIN players : t[i].id = players[i].id, Ascending(players)
  PROVE  Ascending(t)
BY DEF Ascending

LEMMA CreatorListAscending ==
  ASSUME Types, Founder, NewIds, [Next]_vars, srv'[Creator].up
  PROVE  Ascending(srv'[Creator].players) /\ srv[Creator].uniqueId <= srv'[Creator].uniqueId
<1> DEFINE players == srv[Creator].players
           after   == srv'[Creator].players
           u       == srv[Creator].uniqueId
<1>1. /\ srv[Creator].up /\ ServerChanges(Creator) /\ ~Begins(Creator)
      /\ srv'[Creator] # NoServer /\ Creator \in Node
  BY CreatorStays
<1>2. /\ players \in Seq(PlayerType) /\ DOMAIN players = 1 .. Len(players)
      /\ Len(players) \in Nat /\ u \in Nat
      /\ \A i \in DOMAIN players : players[i].id \in Nat /\ players[i].addr \in Addr
  BY <1>1, TypesGive, ListEntries
<1>3. Ascending(players)
  BY <1>1 DEF NewIds
<1>4. CASE SameServer(Creator)
  BY <1>2, <1>3, <1>4 DEF SameServer
<1>5. ASSUME NEW m \in net, HandleJoin(Creator, m)
      PROVE  Ascending(after) /\ u <= srv'[Creator].uniqueId
  <2>1. CASE Listing(Creator, m)
    <3> DEFINE new == Player(u, m.src, m.role)
               N == Len(players) + 1
    <3>1. /\ new \in PlayerType /\ new.id = u
          /\ after = Append(players, new) /\ srv'[Creator].uniqueId = u + 1
      BY <1>2, <2>1 DEF Player, PlayerType, Listing, Role
    <3> HIDE DEF new
    <3>2. /\ DOMAIN after = 1 .. N /\ after[N] = new
          /\ \A i \in DOMAIN players : after[i] = players[i]
      BY <1>2, <3>1, AppendEntry
    <3>3. ASSUME NEW i \in DOMAIN players  PROVE players[i].id < u
      <4>1. ListedAs(players[i].addr, players[i].id)
        BY DEF ListedAs
      <4> QED
        BY <1>1, <1>2, <4>1 DEF NewIds, Holds
    <3>4. ASSUME NEW i \in DOMAIN after, NEW j \in DOMAIN after, i < j
          PROVE  after[i].id < after[j].id
      <4>1. i \in DOMAIN players /\ (j \in DOMAIN players \/ j = N)
        BY <1>2, <3>2, <3>4
      <4> QED
        BY <1>3, <3>1, <3>2, <3>3, <3>4, <4>1 DEF Ascending
    <3> QED
      BY <1>2, <3>1, <3>4 DEF Ascending
  <2> QED
    BY <1>1, <1>4, <1>5, <2>1, HandleJoinDoes
<1>6. \A id : Ascending(WithoutId(players, id))
  BY <1>2, <1>3, WithoutIdAscending
<1>7. CASE FinishJoin(Creator)
  BY <1>1, <1>2, <1>3, <1>6, <1>7, FinishJoinDoes
<1>8. CASE Appoint(Creator)
  <2>1. /\ DOMAIN after = DOMAIN players
        /\ \A i \in DOMAIN players : after[i].id = players[i].id
        /\ srv'[Creator].uniqueId = u
    BY <1>1, <1>8, AppointDoes, AppointedFields
  <2> QED
    BY <1>2, <1>3, <2>1, SameIdsAscending
<1>9. CASE \E id : RemoveSilent(Creator, id)
  BY <1>1, <1>2, <1>6, <1>9, RemoveSilentDoes
<1>10. ASSUME NEW m \in net, HandleLeaver(Creator, m)
       PROVE  Ascending(after) /\ u <= srv'[Creator].uniqueId
  <2>1. CASE after = ViewersAfter(players, m.id) /\ srv'[Creator].uniqueId = u
    <3>1. /\ DOMAIN after = DOMAIN players
          /\ \A i \in DOMAIN players : after[i].id = players[i].id
      BY <1>2, <2>1, ViewersAfterEntry
    <3> QED
      BY <1>2, <1>3, <2>1, <3>1, SameIdsAscending
  <2> QED
    BY <1>1, <1>4, <1>10, <2>1, HandleLeaverDoes
<1> QED
  BY <1>1, <1>4, <1>5, <1>7, <1>8, <1>9, <1>10 DEF ServerChanges

LEMMA NewIdsInit == Init => NewIds
<1> SUFFICES ASSUME Init  PROVE NewIds
  OBVIOUS
<1> DEFINE p == Player(0, <<Creator, 2>>, "MASTER")
<1>1. /\ Creator \in Node /\ net = {} /\ srv[Creator].up
      /\ srv[Creator].players = <<p>> /\ srv[Creator].uniqueId = 1
      /\ srv[Creator].joining = NoJoin
      /\ cl[Creator].id = 0
      /\ \A n \in Node : cl[n].st = "playing" => n = Creator
  BY SessionAssumption DEF Init, NoServer, NewClient
<1>2. Ascending(srv[Creator].players)
  BY <1>1 DEF Ascending
<1>3. ASSUME NEW a, NEW i, Holds(a, i)  PROVE a = <<Creator, 2>> /\ i = 0
  <2>1. CASE ListedAs(a, i)
    BY <1>1, <2>1 DEF ListedAs, Player
  <2>2. CASE PlaysAs(a, i)
    BY <1>1, <2>2 DEF PlaysAs, ClientAddr
  <2> QED
    BY <1>1, <1>3, <2>1, <2>2 DEF Holds, ToldOf, JoiningAs
<1> QED
  BY <1>1, <1>2, <1>3 DEF NewIds

LEMMA NewIdsNext ==
  ASSUME Types, Founder, NewIds, [Next]_vars
  PROVE  NewIds'
<1> DEFINE u == srv[Creator].uniqueId
<1> SUFFICES ASSUME srv'[Creator].up
             PROVE  /\ Ascending(srv'[Creator].players)
                    /\ \A a, b \in Addr : \A i \in Nat : Holds(a, i)' /\ Holds(b, i)' => a = b
                    /\ \A a \in Addr : \A i \in Nat :
                         Holds(a, i)' => i < srv'[Creator].uniqueId
  BY DEF NewIds, Ascending
<1>1. srv[Creator].up /\ Creator \in Node
  BY CreatorStays
<1>2. Ascending(srv'[Creator].players) /\ u <= srv'[Creator].uniqueId
  BY CreatorListAscending
<1>3. u \in Nat /\ srv'[Creator].uniqueId \in Nat
  <2>1. srv' \in [Node -> AServer]
    BY TypesNext DEF Types
  <2> QED
    BY <1>1, <2>1, TypesGive DEF AServer
<1>4. \A a, b \in Addr : \A i \in Nat : Holds(a, i) /\ Holds(b, i) => a = b
  BY <1>1 DEF NewIds
<1>5. \A a \in Addr : \A i \in Nat : Holds(a, i) => i < u
  BY <1>1 DEF NewIds
<1>6. \A a, i : Holds(a, i)' => Holds(a, i) \/ Admits(a, i)
  BY FounderNext, HoldsOrigin
<1>7. \A a, i : Admits(a, i) => i = u
  BY DEF Admits
<1>8. \A a, b, i, j : Admits(a, i) /\ Admits(b, j) => a = b
  <2> SUFFICES ASSUME NEW a, NEW b, NEW i, NEW j, Admits(a, i), Admits(b, j)
               PROVE  a = b
    OBVIOUS
  <2>1. PICK m \in net : HandleJoin(Creator, m) /\ Listing(Creator, m) /\ a = m.src
    BY DEF Admits
  <2>2. PICK k \in net : HandleJoin(Creator, k) /\ Listing(Creator, k) /\ b = k.src
    BY DEF Admits
  <2> DEFINE p == Player(u, m.src, m.role)
             q == Player(u, k.src, k.role)
             players == srv[Creator].players
  <2>3. p \in PlayerType /\ q \in PlayerType
    BY <1>3, <2>1, <2>2 DEF Player, PlayerType, Listing, Role
  <2>4. Append(players, p) = Append(players, q)
    BY <2>1, <2>2 DEF Listing
  <2>5. p = q
    <3>1. players \in Seq(PlayerType)
      BY <1>1, TypesGive
    <3> HIDE DEF p, q, players
    <3>2. Append(players, p)[Len(players) + 1] = p /\ Append(players, q)[Len(players) + 1] = q
      BY <2>3, <3>1, AppendEntry
    <3> QED
      BY <2>4, <3>2
  <2>6. p.addr = a /\ q.addr = b
    BY <2>1, <2>2 DEF Player
  <2> QED
    BY <2>5, <2>6
<1>9. \A a, i : Admits(a, i) => srv'[Creator].uniqueId = u + 1
  BY DEF Admits, Listing
<1> HIDE DEF u
<1>10. ASSUME NEW a \in Addr, NEW b \in Addr, NEW i \in Nat, Holds(a, i)', Holds(b, i)'
       PROVE  a = b
  <2>1. (Holds(a, i) \/ Admits(a, i)) /\ (Holds(b, i) \/ Admits(b, i))
    BY <1>6, <1>10
  <2>2. Admits(a, i) => ~Holds(b, i)
    BY <1>3, <1>5, <1>7
  <2>3. Admits(b, i) => ~Holds(a, i)
    BY <1>3, <1>5, <1>7
  <2> QED
    BY <1>4, <1>8, <2>1, <2>2, <2>3
<1>11. ASSUME NEW a \in Addr, NEW i \in Nat, Holds(a, i)'
       PROVE  i < srv'[Creator].uniqueId
  <2>1. Holds(a, i) \/ Admits(a, i)
    BY <1>6, <1>11
  <2>2. CASE Holds(a, i)
    BY <1>2, <1>3, <1>5, <2>2 DEF u
  <2>3. CASE Admits(a, i)
    BY <1>3, <1>7, <1>9, <2>3
  <2> QED
    BY <2>1, <2>2, <2>3
<1> QED
  BY <1>2, <1>10, <1>11

LEMMA NewIdsAlways == Spec => [](Types /\ Founder /\ NewIds)
<1>1. Init => Types /\ Founder /\ NewIds
  BY TypesInit, FounderInit, NewIdsInit
<1>2. Types /\ Founder /\ NewIds /\ [Next]_vars => (Types /\ Founder /\ NewIds)'
  BY TypesNext, FounderNext, NewIdsNext
<1> QED
  BY <1>1, <1>2, PTL DEF Spec

(* The creator's server gives no id twice, to whoever is in touch with it:  *)
(* CreatorGivesNewIds, because each id it has given has one holder.         *)
THEOREM CreatorNeverRepeats == Spec => []CreatorGivesNewIds
<1>1. Types /\ Founder /\ NewIds => CreatorGivesNewIds
  <2> SUFFICES ASSUME Types, Founder, NewIds, srv[Creator].up
               PROVE  /\ Ascending(srv[Creator].players)
                      /\ \A n, k \in {x \in Node : Playing(x) /\ cl[x].peer = ServerAddr(Creator)} :
                           n # k => cl[n].id # cl[k].id
    BY DEF CreatorGivesNewIds, Ascending
  <2>1. ASSUME NEW n \in Node, Playing(n), cl[n].peer = ServerAddr(Creator),
               NEW k \in Node, Playing(k), cl[k].peer = ServerAddr(Creator),
               cl[n].id = cl[k].id
        PROVE  n = k
    <3>1. Holds(ClientAddr(n), cl[n].id) /\ Holds(ClientAddr(k), cl[k].id)
      BY <2>1 DEF Holds, PlaysAs, Playing
    <3>2. cl[n].id \in Nat /\ ClientAddr(n) \in Addr /\ ClientAddr(k) \in Addr
      BY TypesGive, AddrFields
    <3>3. ClientAddr(n) = ClientAddr(k)
      BY <2>1, <3>1, <3>2 DEF NewIds
    <3> QED
      BY <3>3, AddrFields
  <2> QED
    BY <2>1 DEF NewIds
<1> QED
  BY <1>1, NewIdsAlways, PTL

-----------------------------------------------------------------------------
(* The deputy that the creator's states name *)

Able(players) == {i \in DOMAIN players : players[i].role \in {"NORMAL", "DEPUTY"}}

(* The list and the deputyId of the creator's server agree: no deputy but   *)
(* the chosen one, nobody below it who could be one.                        *)
Agreed(players, d) ==
  \A i \in DOMAIN players :
    /\ players[i].role = "DEPUTY" => players[i].id = d
    /\ players[i].role \in {"NORMAL", "DEPUTY"} => d <= players[i].id
    /\ players[i].id = d => players[i].role \in {"DEPUTY", "VIEWER"}

NamesFirst(players) ==
  \A i, k \in Able(players) : players[i].role = "DEPUTY" => players[i].id <= players[k].id

(* The inductive invariant of StatesNameFirst. *)
Named ==
  /\ srv[Creator].up => /\ Agreed(srv[Creator].players, srv[Creator].deputyId)
                        /\ srv[Creator].deputyId < srv[Creator].uniqueId
  /\ \A m \in net :
       m.type = "State" /\ m.src = ServerAddr(Creator) => NamesFirst(m.state.players)

LEMMA AgreedNamesFirst ==
  ASSUME NEW players, NEW d, Agreed(players, d)
  PROVE  NamesFirst(players)
BY DEF Agreed, NamesFirst, Able

(* A part of an agreed list is agreed; so is one whose players watch. *)
LEMMA AgreedPart ==
  ASSUME NEW players, NEW t, NEW d, Agreed(players, d),
         \A k \in DOMAIN t : \E i \in DOMAIN players :
           /\ t[k].id = players[i].id
           /\ t[k].role = players[i].role \/ t[k].role = "VIEWER"
  PROVE  Agreed(t, d)
<1> SUFFICES ASSUME NEW k \in DOMAIN t
             PROVE  /\ t[k].role = "DEPUTY" => t[k].id = d
                    /\ t[k].role \in {"NORMAL", "DEPUTY"} => d <= t[k].id
                    /\ t[k].id = d => t[k].role \in {"DEPUTY", "VIEWER"}
  BY DEF Agreed
<1>1. PICK i \in DOMAIN players :
        /\ t[k].id = players[i].id
        /\ t[k].role = players[i].role \/ t[k].role = "VIEWER"
  OBVIOUS
<1> QED
  BY <1>1 DEF Agreed

(* Without the chosen one there is no deputy. *)
LEMMA AgreedWithout ==
  ASSUME NEW players \in Seq(PlayerType), NEW d \in Nat \cup {-1}, NEW id, Agreed(players, d)
  PROVE  /\ Agreed(WithoutId(players, id), d)
         /\ d = id => Agreed(WithoutId(players, id), -1)
<1> DEFINE t == WithoutId(players, id)
<1>1. \A k \in DOMAIN t : \E i \in DOMAIN players : t[k] = players[i] /\ players[i].id # id
  BY WithoutIdMembers
<1> HIDE DEF t
<1>2. Agreed(t, d)
  BY <1>1, AgreedPart
<1>3. ASSUME d = id  PROVE Agreed(t, -1)
  <2> SUFFICES ASSUME NEW k \in DOMAIN t
               PROVE  /\ t[k].role # "DEPUTY"
                      /\ -1 <= t[k].id
                      /\ t[k].id # -1
    BY DEF Agreed
  <2>1. PICK i \in DOMAIN players : t[k] = players[i] /\ players[i].id # id
    BY <1>1
  <2>2. players[i].id \in Nat
    BY ListEntries
  <2> QED
    BY <1>3, <2>1, <2>2 DEF Agreed
<1> QED
  BY <1>2, <1>3 DEF t

(* What a round does to the creator's list. *)
LEMMA AgreedAppointed ==
  ASSUME Types, NEW n \in Node, Agreed(srv[n].players, srv[n].deputyId),
         DistinctIds(srv[n].players)
  PROVE  Agreed(Appointed(srv[n]).players, ChosenDeputy(srv[n]))
<1> DEFINE players == srv[n].players
           d == srv[n].deputyId
           c == ChosenDeputy(srv[n])
           t == Appointed(srv[n]).players
           able == Able(players)
<1>1. /\ players \in Seq(PlayerType) /\ d \in Nat \cup {-1}
      /\ \A i \in DOMAIN players : players[i].id \in Nat /\ players[i].role \in Role
  BY TypesGive, ListEntries
<1>2. /\ DOMAIN t = DOMAIN players
      /\ \A i \in DOMAIN players :
           /\ t[i].id = players[i].id
           /\ t[i].role = IF c # d /\ players[i].id = c THEN "DEPUTY" ELSE players[i].role
  BY AppointedFields
<1>3. Candidates(players) = {players[i].id : i \in able}
  BY <1>1 DEF Candidates, Able, Role
<1>4. \/ able = {} /\ c = d
      \/ \E k \in able : c = players[k].id /\ \A i \in able : c <= players[i].id
  <2>1. \/ Candidates(players) = {} /\ c = d
        \/ c \in Candidates(players) /\ \A id \in Candidates(players) : c <= id
    BY <1>1, ChosenOne
  <2> HIDE DEF c, able, players
  <2> QED
    BY <1>3, <2>1
<1>5. Agreed(players, d) /\ DistinctIds(players)
  OBVIOUS
<1>6. CASE able = {} /\ c = d
  <2>1. \A i \in DOMAIN players : t[i].id = players[i].id /\ t[i].role = players[i].role
    BY <1>2, <1>6
  <2> HIDE DEF t, c, players, d
  <2>2. Agreed(t, c)
    BY <1>2, <1>5, <1>6, <2>1, AgreedPart
  <2> QED
    BY <2>2 DEF t, c
<1>7. ASSUME NEW k \in able, c = players[k].id, \A i \in able : c <= players[i].id
      PROVE  Agreed(t, c)
  <2> HIDE DEF t, c, players, d
  <2>1. k \in DOMAIN players /\ players[k].role \in {"NORMAL", "DEPUTY"}
    BY DEF able, Able
  <2>2. \A i \in DOMAIN players : players[i].id = c => i = k
    BY <1>5, <1>7, <2>1 DEF DistinctIds
  <2>3. t[k].role = "DEPUTY"
    <3>1. CASE c = d
      BY <1>2, <1>5, <1>7, <2>1, <3>1 DEF Agreed
    <3>2. CASE c # d
      BY <1>2, <1>7, <2>1, <3>2
    <3> QED
      BY <3>1, <3>2
  <2>4. d <= c
    BY <1>5, <1>7, <2>1 DEF Agreed
  <2>5. c \in Nat
    BY <1>1, <1>7, <2>1
  <2>6. ASSUME NEW i \in DOMAIN players, t[i].role = "DEPUTY"  PROVE i = k
    <3>1. CASE players[i].id = c
      BY <2>2, <3>1
    <3>2. CASE players[i].id # c
      <4>1. players[i].role = "DEPUTY"
        BY <1>2, <2>6, <3>2
      <4>2. players[i].id = d /\ i \in able
        BY <1>5, <4>1 DEF Agreed, able, Able
      <4>3. c <= players[i].id
        BY <1>7, <4>2
      <4> QED
        BY <1>1, <2>4, <2>5, <3>2, <4>2, <4>3
    <3> QED
      BY <3>1, <3>2
  <2>7. Able(t) = able
    <3>1. \A i \in DOMAIN players :
            t[i].role \in {"NORMAL", "DEPUTY"} <=> players[i].role \in {"NORMAL", "DEPUTY"}
      <4> SUFFICES ASSUME NEW i \in DOMAIN players
                   PROVE  t[i].role \in {"NORMAL", "DEPUTY"}
                            <=> players[i].role \in {"NORMAL", "DEPUTY"}
        OBVIOUS
      <4>1. CASE i = k
        BY <2>1, <2>3, <4>1
      <4>2. CASE i # k
        BY <1>2, <2>2, <4>2
      <4> QED
        BY <4>1, <4>2
    <3> QED
      BY <1>2, <3>1 DEF Able, able
  <2>8. Agreed(t, c)
    <3> SUFFICES ASSUME NEW i \in DOMAIN players
                 PROVE  /\ t[i].role = "DEPUTY" => t[i].id = c
                        /\ t[i].role \in {"NORMAL", "DEPUTY"} => c <= t[i].id
                        /\ t[i].id = c => t[i].role \in {"DEPUTY", "VIEWER"}
      BY <1>2 DEF Agreed
    <3>1. t[i].role = "DEPUTY" => t[i].id = c
      BY <1>2, <1>7, <2>6
    <3>2. t[i].role \in {"NORMAL", "DEPUTY"} => c <= t[i].id
      BY <1>2, <1>7, <2>7 DEF Able
    <3>3. t[i].id = c => t[i].role \in {"DEPUTY", "VIEWER"}
      BY <1>2, <2>2, <2>3
    <3> QED
      BY <3>1, <3>2, <3>3
  <2> QED
    BY <2>8
<1> QED
  BY <1>4, <1>6, <1>7

LEMMA AscendingDistinct ==
  ASSUME NEW players \in Seq(PlayerType), Ascending(players)
  PROVE  DistinctIds(players)
<1> SUFFICES ASSUME NEW i \in DOMAIN players, NEW j \in DOMAIN players, i # j
             PROVE  players[i].id # players[j].id
  BY DEF DistinctIds
<1>1. /\ i \in Int /\ j \in Int
      /\ players[i].id \in Nat /\ players[j].id \in Nat
  BY ListEntries
<1>2. players[i].id < players[j].id \/ players[j].id < players[i].id
  BY <1>1 DEF Ascending
<1> QED
  BY <1>1, <1>2

LEMMA NamedInit == Init => Named
<1> SUFFICES ASSUME Init  PROVE Named
  OBVIOUS
<1>1. /\ net = {}
      /\ srv[Creator].players = <<Player(0, <<Creator, 2>>, "MASTER")>>
      /\ srv[Creator].deputyId = -1 /\ srv[Creator].uniqueId = 1
  BY SessionAssumption DEF Init, NoServer
<1>2. Agreed(srv[Creator].players, -1)
  BY <1>1 DEF Agreed, Player
<1> QED
  BY <1>1, <1>2 DEF Named

LEMMA NamedServer ==
  ASSUME Types, Founder, NewIds, Named, [Next]_vars, srv'[Creator].up
  PROVE  /\ Agreed(srv'[Creator].players, srv'[Creator].deputyId)
         /\ srv'[Creator].deputyId < srv'[Creator].uniqueId
<1> DEFINE players == srv[Creator].players
           after   == srv'[Creator].players
           u       == srv[Creator].uniqueId
           d       == srv[Creator].deputyId
           d1      == srv'[Creator].deputyId
<1>1. /\ srv[Creator].up /\ ServerChanges(Creator) /\ ~Begins(Creator)
      /\ srv'[Creator] # NoServer /\ Creator \in Node
  BY CreatorStays
<1>2. /\ players \in Seq(PlayerType) /\ DOMAIN players = 1 .. Len(players)
      /\ Len(players) \in Nat /\ u \in Nat /\ d \in Nat \cup {-1}
      /\ \A i \in DOMAIN players : players[i].id \in Nat /\ players[i].addr \in Addr
  BY <1>1, TypesGive, ListEntries
<1>3. Agreed(players, d) /\ d < u
  BY <1>1 DEF Named
<1>4. CASE SameServer(Creator)
  BY <1>3, <1>4 DEF SameServer
<1>5. ASSUME NEW m \in net, HandleJoin(Creator, m)
      PROVE  Agreed(after, d1) /\ d1 < srv'[Creator].uniqueId
  <2>1. CASE Listing(Creator, m)
    <3> DEFINE new == Player(u, m.src, m.role)
               N == Len(players) + 1
    <3>1. /\ new \in PlayerType /\ new.id = u /\ new.role \in {"NORMAL", "VIEWER"}
          /\ after = Append(players, new) /\ srv'[Creator].uniqueId = u + 1 /\ d1 = d
      BY <1>2, <2>1 DEF Player, PlayerType, Listing, Role
    <3> HIDE DEF new
    <3>2. /\ DOMAIN after = 1 .. N /\ after[N] = new
          /\ \A i \in DOMAIN players : after[i] = players[i]
      BY <1>2, <3>1, AppendEntry
    <3>3. ASSUME NEW i \in DOMAIN after
          PROVE  /\ after[i].role = "DEPUTY" => after[i].id = d
                 /\ after[i].role \in {"NORMAL", "DEPUTY"} => d <= after[i].id
                 /\ after[i].id = d => after[i].role \in {"DEPUTY", "VIEWER"}
      <4>1. i \in DOMAIN players \/ i = N
        BY <1>2, <3>2
      <4>2. CASE i \in DOMAIN players
        <5>1. after[i] = players[i]
          BY <3>2, <4>2
        <5>2. /\ players[i].role = "DEPUTY" => players[i].id = d
              /\ players[i].role \in {"NORMAL", "DEPUTY"} => d <= players[i].id
              /\ players[i].id = d => players[i].role \in {"DEPUTY", "VIEWER"}
          <6> HIDE DEF players, d
          <6> QED
            BY <1>3, <4>2 DEF Agreed
        <5> HIDE DEF players, d, after
        <5> QED
          BY <5>1, <5>2
      <4>3. CASE i = N
        <5>1. after[i].id = u /\ after[i].role \in {"NORMAL", "VIEWER"}
          BY <3>1, <3>2, <4>3
        <5>2. d < u /\ d \in Int /\ u \in Int
          BY <1>2, <1>3
        <5> HIDE DEF players, d, after, u
        <5> QED
          BY <5>1, <5>2
      <4> QED
        BY <4>1, <4>2, <4>3
    <3> QED
      BY <1>2, <1>3, <3>1, <3>3 DEF Agreed
  <2> QED
    BY <1>1, <1>4, <1>5, <2>1, HandleJoinDoes
<1>6. \A id : /\ Agreed(WithoutId(players, id), d)
              /\ d = id => Agreed(WithoutId(players, id), -1)
  <2>1. players \in Seq(PlayerType)
    BY <1>2
  <2> HIDE DEF players, d
  <2> QED
    BY <1>2, <1>3, <2>1, AgreedWithout
<1>7. CASE FinishJoin(Creator)
  BY <1>1, <1>3, <1>6, <1>7, FinishJoinDoes
<1>8. CASE Appoint(Creator)
  <2>1. /\ after = Appointed(srv[Creator]).players /\ d1 = ChosenDeputy(srv[Creator])
        /\ srv'[Creator].uniqueId = u
    BY <1>1, <1>8, AppointDoes
  <2>2. DistinctIds(players)
    BY <1>1, <1>2, AscendingDistinct DEF NewIds
  <2>3. Agreed(after, d1)
    BY <1>1, <1>3, <2>1, <2>2, AgreedAppointed
  <2>4. d1 = d \/ \E k \in DOMAIN players : players[k].id = d1
    <3>1. d1 # d => d1 \in Candidates(players)
      BY <1>1, <2>1, AppointedFields
    <3> HIDE DEF d1
    <3> QED
      BY <3>1 DEF Candidates
  <2>5. ASSUME NEW k \in DOMAIN players  PROVE players[k].id < u
    <3>1. ListedAs(players[k].addr, players[k].id)
      BY DEF ListedAs
    <3> QED
      BY <1>1, <1>2, <3>1 DEF NewIds, Holds
  <2> QED
    BY <1>3, <2>1, <2>3, <2>4, <2>5
<1>9. ASSUME NEW id, RemoveSilent(Creator, id)
      PROVE  Agreed(after, d1) /\ d1 < srv'[Creator].uniqueId
  <2>1. /\ after = WithoutId(players, id) /\ d1 = IF d = id THEN -1 ELSE d
        /\ srv'[Creator].uniqueId = u
    BY <1>1, <1>9, RemoveSilentDoes
  <2> QED
    BY <1>2, <1>3, <1>6, <2>1
<1>10. ASSUME NEW m \in net, HandleLeaver(Creator, m)
       PROVE  Agreed(after, d1) /\ d1 < srv'[Creator].uniqueId
  <2>1. CASE after = ViewersAfter(players, m.id) /\ d1 = d /\ srv'[Creator].uniqueId = u
    <3>1. /\ DOMAIN after = DOMAIN players
          /\ \A i \in DOMAIN players :
               /\ after[i].id = players[i].id
               /\ after[i].role = players[i].role \/ after[i].role = "VIEWER"
      BY <1>2, <2>1, ViewersAfterEntry
    <3> HIDE DEF after, players
    <3>2. Agreed(after, d)
      BY <1>3, <3>1, AgreedPart
    <3> QED
      BY <1>3, <2>1, <3>2 DEF after, players
  <2> QED
    BY <1>1, <1>4, <1>10, <2>1, HandleLeaverDoes
<1> QED
  BY <1>1, <1>4, <1>5, <1>7, <1>8, <1>9, <1>10 DEF ServerChanges

LEMMA NamedNext ==
  ASSUME Types, Founder, NewIds, Named, [Next]_vars
  PROVE  Named'
<1>1. ASSUME NEW m \in net', m.type = "State", m.src = ServerAddr(Creator)
      PROVE  NamesFirst(m.state.players)
  <2>1. CASE m \in net
    BY <1>1, <2>1 DEF Named
  <2>2. CASE m \notin net
    <3>1. PICK n \in Node : SendsState(n, m)
      BY <1>1, <2>2, SentOrigin, SentByType
    <3>2. n = Creator
      BY <1>1, <3>1 DEF SendsState, ServerAddr
    <3>3. srv[Creator].up /\ m.state.players = srv[Creator].players
      BY <3>1, <3>2 DEF SendsState
    <3> QED
      BY <3>3, AgreedNamesFirst DEF Named
  <2> QED
    BY <2>1, <2>2
<1>2. ASSUME srv'[Creator].up
      PROVE  /\ Agreed(srv'[Creator].players, srv'[Creator].deputyId)
             /\ srv'[Creator].deputyId < srv'[Creator].uniqueId
  BY <1>2, NamedServer
<1> QED
  BY <1>1, <1>2 DEF Named, NamesFirst, Able, Agreed, ServerAddr

LEMMA NamedAlways == Spec => [](Types /\ Founder /\ NewIds /\ Named)
<1>1. Init => Types /\ Founder /\ NewIds /\ Named
  BY TypesInit, FounderInit, NewIdsInit, NamedInit
<1>2. Types /\ Founder /\ NewIds /\ Named /\ [Next]_vars
        => (Types /\ Founder /\ NewIds /\ Named)'
  BY TypesNext, FounderNext, NewIdsNext, NamedNext
<1> QED
  BY <1>1, <1>2, PTL DEF Spec

(* However the list changes between the appointment and the state of a      *)
(* round, no state of the creator's server names two deputies, or one with  *)
(* an older player who could be it: StatesNameFirst, because the list and   *)
(* the deputyId agree between any two steps, whoever takes them.            *)
THEOREM CreatorNamesFirst == Spec => []StatesNameFirst
<1>1. Named => StatesNameFirst
  BY DEF Named, NamesFirst, Able, StatesNameFirst
<1> QED
  BY <1>1, NamedAlways, PTL

-----------------------------------------------------------------------------
(* Who is a master *)

Masters ==
  /\ cl[Creator].role = "MASTER"
  /\ \A n \in Node :
       /\ srv[n].up => cl[n].role = "MASTER"
       /\ cl[n].role = "MASTER" => srv[n].up \/ Ended(n)
       /\ cl[n].st = "joining" => cl[n].role \in {"NORMAL", "VIEWER"}

(* A server that runs has run before, or a player becomes the master. *)
LEMMA UpBefore ==
  ASSUME Types, [Next]_vars, NEW n \in Node, srv'[n].up
  PROVE  srv[n].up \/ Begins(n)
<1>1. CASE \E m \in net : HandleJoin(n, m)
  BY <1>1, HandleJoinDoes
<1>2. CASE FinishJoin(n)
  BY <1>2, FinishJoinDoes
<1>3. CASE Appoint(n)
  BY <1>3, AppointDoes
<1>4. CASE \E id : RemoveSilent(n, id)
  BY <1>4, RemoveSilentDoes
<1>5. CASE \E m \in net : HandleLeaver(n, m)
  BY <1>5, HandleLeaverDoes
<1> QED
  BY <1>1, <1>2, <1>3, <1>4, <1>5, ServerOrigin DEF ServerChanges, SameServer, NoServer

(* A server runs until its client has ended. *)
LEMMA DownAfter ==
  ASSUME Types, [Next]_vars, NEW n \in Node, srv[n].up
  PROVE  srv'[n].up \/ Ended(n)'
<1>1. CASE \E m \in net : HandleJoin(n, m)
  BY <1>1, HandleJoinDoes DEF SameServer, Listing
<1>2. CASE FinishJoin(n)
  BY <1>2, FinishJoinDoes
<1>3. CASE Appoint(n)
  BY <1>3, AppointDoes
<1>4. CASE \E id : RemoveSilent(n, id)
  BY <1>4, RemoveSilentDoes
<1>5. CASE \E m \in net : HandleLeaver(n, m)
  BY <1>5, HandleLeaverDoes DEF SameServer
<1> QED
  BY <1>1, <1>2, <1>3, <1>4, <1>5, ServerOrigin DEF ServerChanges, SameServer, Begins, Ended

(* What a step does to a client, by the fields that the heirs depend on. *)
LEMMA ClientSteps ==
  ASSUME Types, [Next]_vars, NEW n \in Node
  PROVE  \/ SameClient(n)
         \/ /\ cl[n].st = "idle" /\ cl'[n].st = "joining"
            /\ cl'[n].role \in {"NORMAL", "VIEWER"}
            /\ \E k \in Node : Join(n, k) /\ srv[k].up /\ cl'[n].peer = ServerAddr(k)
         \/ /\ cl[n].st = "joining" /\ cl'[n].st = "playing" /\ ~srv[n].up
            /\ cl'[n].role = cl[n].role /\ cl'[n].peer = cl[n].peer
            /\ \E m \in net :
                 /\ m.type \in {"Ack", "RoleChange"} /\ m.src = cl[n].peer
                 /\ m.dst = ServerAddr(n) /\ net' = net \ {m} /\ OthersSame(n) /\ SameServer(n)
         \/ /\ cl[n].st = "playing" /\ cl'[n].st = "playing" /\ ~srv[n].up
            /\ cl'[n].role = cl[n].role /\ cl'[n].peer = cl[n].peer
         \/ /\ cl[n].st = "playing" /\ cl'[n].st = "playing" /\ ~srv[n].up
            /\ cl'[n].role = "DEPUTY" /\ cl'[n].peer = cl[n].peer
            /\ \E m \in net :
                 /\ m.type = "RoleChange" /\ m.role = "DEPUTY" /\ m.src = cl[n].peer
                 /\ m.dst = ServerAddr(n)
         \/ Begins(n) /\ \E m \in net :
                 /\ m.type = "RoleChange" /\ m.role = "MASTER" /\ m.src = cl[n].peer
                 /\ m.dst = ServerAddr(n)
         \/ Begins(n) /\ cl[n].role = "DEPUTY" /\ (LatePings \/ ~Pinged(n))
         \/ /\ cl[n].st = "playing" /\ cl[n].role # "DEPUTY" /\ ~srv[n].up /\ Follows(n)
         \/ ClientEnds(n)
<1>1. CASE \E k \in Node : Join(n, k)
  BY <1>1, JoinDoes
<1>2. CASE \E m \in net : HandleAcknowledge(n, m)
  BY <1>2, HandleAcknowledgeDoes
<1>3. CASE \E m \in net : HandleState(n, m)
  BY <1>3, HandleStateDoes
<1>4. CASE \E m \in net : HandleRoleChange(n, m) /\ m.role = "DEPUTY"
  BY <1>4, HandleRoleChangeDoes
<1>5. CASE \E m \in net : HandleRoleChange(n, m) /\ m.role = "MASTER" /\ Begins(n)
  BY <1>5, HandleRoleChangeDoes
<1>6. CASE Suspect(n) /\ cl[n].role = "DEPUTY" /\ Begins(n)
  BY <1>6, SuspectDoes
<1>7. CASE Suspect(n) /\ cl[n].role # "DEPUTY" /\ Follows(n)
  BY <1>7, SuspectDoes
<1> QED
  BY <1>1, <1>2, <1>3, <1>4, <1>5, <1>6, <1>7, ClientOrigin DEF ClientChanges

LEMMA EndedStays ==
  ASSUME Types, [Next]_vars, NEW n \in Node, Ended(n)
  PROVE  Ended(n)' /\ cl'[n].role = cl[n].role
BY ClientSteps DEF Ended, SameClient, ClientEnds, Begins

LEMMA MasterStays ==
  ASSUME Types, Strangers, Masters, [Next]_vars, NEW n \in Node, cl[n].role = "MASTER"
  PROVE  cl'[n].role = "MASTER"
<1>1. cl[n].st # "idle"
  BY DEF Strangers
<1>2. srv[n].up \/ Ended(n)
  BY DEF Masters
<1>3. CASE Ended(n)
  BY <1>3, EndedStays
<1>4. CASE srv[n].up
  BY <1>1, <1>4, ClientSteps DEF SameClient, ClientEnds, Begins
<1> QED
  BY <1>2, <1>3, <1>4

LEMMA MastersInit == Init => Masters
<1> SUFFICES ASSUME Init  PROVE Masters
  OBVIOUS
<1>1. cl[Creator].role = "MASTER" /\ srv[Creator].up /\ cl[Creator].st = "playing"
  BY SessionAssumption DEF Init, NoServer, NewClient
<1>2. \A n \in Node : n # Creator =>
         cl[n].role = "NORMAL" /\ ~srv[n].up /\ cl[n].st = "idle"
  BY SessionAssumption DEF Init, NoServer, NewClient
<1> QED
  BY <1>1, <1>2 DEF Masters

LEMMA MastersNext ==
  ASSUME Types, Strangers, Masters, [Next]_vars
  PROVE  Masters'
<1>1. cl'[Creator].role = "MASTER"
  BY SessionAssumption, MasterStays DEF Masters
<1>2. ASSUME NEW n \in Node, srv'[n].up  PROVE cl'[n].role = "MASTER"
  BY <1>2, UpBefore, MasterStays DEF Masters, Begins
<1>3. ASSUME NEW n \in Node, cl'[n].role = "MASTER"  PROVE srv'[n].up \/ Ended(n)'
  <2>1. CASE cl[n].role = "MASTER"
    BY <2>1, DownAfter, EndedStays DEF Masters
  <2>2. CASE Begins(n)
    BY <2>2, ServerFromFields DEF Begins
  <2> QED
    BY <1>3, <2>1, <2>2, ClientSteps DEF SameClient, ClientEnds, Follows, Ended
<1>4. ASSUME NEW n \in Node, cl'[n].st = "joining"  PROVE cl'[n].role \in {"NORMAL", "VIEWER"}
  BY <1>4, ClientSteps DEF Masters, SameClient, ClientEnds, Follows, Begins
<1> QED
  BY <1>1, <1>2, <1>3, <1>4 DEF Masters

(* No master but the creator has ever been. *)
NoOther == \A k \in Node \ {Creator} : cl[k].role # "MASTER"

(* Until then it is the creator who makes deputies and masters, and they are *)
(* connected to it.                                                         *)
Alone ==
  NoOther =>
    /\ \A n \in Node : cl[n].role = "DEPUTY" => cl[n].peer = ServerAddr(Creator)
    /\ \A m \in net : m.type = "RoleChange" /\ m.role # "VIEWER" => m.src = ServerAddr(Creator)

LEMMA AloneInit == Init => Alone
<1> SUFFICES ASSUME Init  PROVE Alone
  OBVIOUS
<1>1. net = {} /\ \A n \in Node : cl[n].role # "DEPUTY"
  BY DEF Init, NewClient
<1> QED
  BY <1>1 DEF Alone

LEMMA NoOtherBefore ==
  ASSUME Types, Strangers, Masters, [Next]_vars, NoOther'
  PROVE  NoOther
BY MasterStays DEF NoOther

LEMMA AloneNext ==
  ASSUME Types, Strangers, Masters, Alone, [Next]_vars
  PROVE  Alone'
<1> SUFFICES ASSUME NoOther'
             PROVE  /\ \A n \in Node :
                         cl'[n].role = "DEPUTY" => cl'[n].peer = ServerAddr(Creator)
                    /\ \A m \in net' :
                         m.type = "RoleChange" /\ m.role # "VIEWER" => m.src = ServerAddr(Creator)
  BY DEF Alone, ServerAddr
<1>1. NoOther
  BY NoOtherBefore
<1>2. /\ \A n \in Node : cl[n].role = "DEPUTY" => cl[n].peer = ServerAddr(Creator)
      /\ \A m \in net : m.type = "RoleChange" /\ m.role # "VIEWER" => m.src = ServerAddr(Creator)
  BY <1>1 DEF Alone
<1>3. ASSUME NEW n \in Node, cl'[n].role = "DEPUTY"  PROVE cl'[n].peer = ServerAddr(Creator)
  BY <1>2, <1>3, ClientSteps DEF SameClient, ClientEnds, Begins, Follows
<1>4. ASSUME NEW m \in net', m.type = "RoleChange", m.role # "VIEWER"
      PROVE  m.src = ServerAddr(Creator)
  <2>1. CASE m \in net
    BY <1>2, <1>4, <2>1
  <2>2. CASE m \notin net
    <3>1. PICK n \in Node : SendsDeputy(n, m) \/ SendsMaster(n, m)
      BY <1>4, <2>2, SentOrigin, SentByType DEF SendsLeave
    <3>2. srv[n].up /\ m.src = ServerAddr(n)
      BY <3>1 DEF SendsDeputy, SendsMaster
    <3>3. n = Creator
      BY <1>1, <3>2 DEF Masters, NoOther
    <3> QED
      BY <3>2, <3>3
  <2> QED
    BY <2>1, <2>2
<1> QED
  BY <1>3, <1>4

-----------------------------------------------------------------------------
(* A seat in the creator's game *)

(* Who has not got an id from the creator yet is known to it by its one Join *)
(* at most; who has got one has no other.  It tells a player once that it is *)
(* the deputy.                                                              *)
OneJoin ==
  \A m, x \in net : m.type = "Join" /\ x.type = "Join" /\ m.src = x.src => m = x

ToldDeputy(m) == /\ m.type = "RoleChange" /\ m.role = "DEPUTY" /\ m.src = ServerAddr(Creator)

ToldOnce == \A m, x \in net : ToldDeputy(m) /\ ToldDeputy(x) /\ m.dst = x.dst => m = x

OneSeat ==
  srv[Creator].up =>
    /\ \A a \in Addr : \A i, j \in Nat : Holds(a, i) /\ Holds(a, j) => i = j
    /\ \A m \in net : m.type = "Join" => \A i \in Nat : ~Holds(m.src, i)
    /\ \A n \in Node : cl[n].st = "idle" => \A i \in Nat : ~Holds(ServerAddr(n), i)

(* It makes no viewer of a client. *)
OnlyPromotes ==
  \A m \in net : m.type = "RoleChange" /\ m.src = ServerAddr(Creator) => m.role # "VIEWER"

Seats == OneJoin /\ ToldOnce /\ OnlyPromotes /\ OneSeat

(* Two joins, or two role changes, are the same if their fields are. *)
LEMMA SameMessage ==
  ASSUME NEW m \in Message, NEW x \in Message, m.type = x.type, m.src = x.src, m.dst = x.dst,
         m.role = x.role, m.type \in {"Join", "RoleChange"}, m.type = "RoleChange" => m.id = x.id
  PROVE  m = x
<1>1. CASE m.type = "Join"
  <2>1. m \in AJoin /\ x \in AJoin
    BY <1>1 DEF Message, AJoin, AnAck, AnError, AStateMsg, ARoleChange
  <2> QED
    BY <2>1 DEF AJoin
<1>2. CASE m.type = "RoleChange"
  <2>1. m \in ARoleChange /\ x \in ARoleChange
    BY <1>2 DEF Message, AJoin, AnAck, AnError, AStateMsg, ARoleChange
  <2> QED
    BY <1>2, <2>1 DEF ARoleChange
<1> QED
  BY <1>1, <1>2

LEMMA SeatsInit == Init => Seats
<1> SUFFICES ASSUME Init  PROVE Seats
  OBVIOUS
<1> DEFINE p == Player(0, <<Creator, 2>>, "MASTER")
<1>1. /\ Creator \in Node /\ net = {} /\ srv[Creator].up
      /\ srv[Creator].players = <<p>>
      /\ srv[Creator].joining = NoJoin
      /\ cl[Creator].id = 0 /\ cl[Creator].st = "playing"
      /\ \A n \in Node : cl[n].st = "playing" => n = Creator
  BY SessionAssumption DEF Init, NoServer, NewClient
<1>2. ASSUME NEW a, NEW i, Holds(a, i)  PROVE a = <<Creator, 2>> /\ i = 0
  <2>1. CASE ListedAs(a, i)
    BY <1>1, <2>1 DEF ListedAs, Player
  <2>2. CASE PlaysAs(a, i)
    BY <1>1, <2>2 DEF PlaysAs, ClientAddr
  <2> QED
    BY <1>1, <1>2, <2>1, <2>2 DEF Holds, ToldOf, JoiningAs
<1>3. \A n : ServerAddr(n) # <<Creator, 2>>
  BY DEF ServerAddr
<1> QED
  BY <1>1, <1>2, <1>3 DEF Seats, OneJoin, ToldOnce, OnlyPromotes, OneSeat

LEMMA OneJoinNext ==
  ASSUME Types, Strangers, OneJoin, [Next]_vars
  PROVE  OneJoin'
<1>1. ASSUME NEW m \in net', m \notin net, m.type = "Join"
      PROVE  \E n \in Node : /\ m.src = ServerAddr(n) /\ m.dst = cl'[n].peer
                             /\ m.role = cl'[n].role /\ cl[n].st = "idle"
  <2>1. PICK n \in Node : SendsJoin(n, m)
    BY <1>1, SentOrigin, SentByType
  <2>2. PICK k \in Node : Join(n, k) /\ m.dst = ServerAddr(k) /\ m.role = cl'[n].role
    BY <2>1 DEF SendsJoin
  <2> QED
    BY <2>1, <2>2, JoinDoes DEF SendsJoin
<1>2. ASSUME NEW m \in net', m \notin net, m.type = "Join",
             NEW x \in net, x.type = "Join", x.src = m.src
      PROVE  FALSE
  BY <1>1, <1>2, AddrFields DEF Strangers
<1>3. ASSUME NEW m \in net', m \notin net, m.type = "Join",
             NEW x \in net', x \notin net, x.type = "Join", x.src = m.src
      PROVE  m = x
  <2>1. PICK n \in Node : /\ m.src = ServerAddr(n) /\ m.dst = cl'[n].peer
                          /\ m.role = cl'[n].role
    BY <1>1, <1>3
  <2>2. PICK k \in Node : /\ x.src = ServerAddr(k) /\ x.dst = cl'[k].peer
                          /\ x.role = cl'[k].role
    BY <1>1, <1>3
  <2>3. n = k
    BY <1>3, <2>1, <2>2 DEF ServerAddr
  <2>4. m \in Message /\ x \in Message
    BY TypesNext DEF Types
  <2> QED
    BY <1>3, <2>1, <2>2, <2>3, <2>4, SameMessage
<1> QED
  BY <1>2, <1>3 DEF OneJoin

LEMMA ToldOnceNext ==
  ASSUME Types, Founder, Seats, [Next]_vars
  PROVE  ToldOnce'
<1> DEFINE d == ChosenDeputy(srv[Creator])
<1>1. ASSUME NEW m \in net', m \notin net, ToldDeputy(m)
      PROVE  m.id = d /\ srv[Creator].up /\ ListedAs(m.dst, d)
  <2>1. PICK n \in Node : SendsDeputy(n, m)
    BY <1>1, SentOrigin, SentByType DEF ToldDeputy, SendsLeave, SendsMaster
  <2>2. n = Creator
    BY <1>1, <2>1 DEF SendsDeputy, ToldDeputy, ServerAddr
  <2> QED
    BY <2>1, <2>2 DEF SendsDeputy, ListedAs
<1>2. net \subseteq Message /\ net' \subseteq Message
  BY TypesNext DEF Types
<1> HIDE DEF d
<1>3. ASSUME NEW m \in net', m \notin net, ToldDeputy(m),
             NEW x \in net', ToldDeputy(x), m.dst = x.dst
      PROVE  m = x
  <2>1. x.id = m.id
    <3>1. CASE x \in net
      <4>1. ToldOf(m.dst, x.id)
        BY <1>3, <3>1 DEF ToldDeputy, ToldOf
      <4>2. m.dst \in Addr /\ x.id \in Nat /\ m.id \in Nat
        BY <1>2, <1>3, <3>1, MessageFields DEF ToldDeputy
      <4>3. Holds(m.dst, x.id) /\ Holds(m.dst, m.id) /\ srv[Creator].up
        BY <1>1, <1>3, <4>1 DEF Holds
      <4> QED
        BY <4>2, <4>3 DEF Seats, OneSeat
    <3> QED
      BY <1>1, <1>3, <3>1
  <2> QED
    BY <1>2, <1>3, <2>1, SameMessage DEF ToldDeputy
<1>4. ASSUME NEW m \in net, NEW x \in net, ToldDeputy(m), ToldDeputy(x), m.dst = x.dst
      PROVE  m = x
  BY <1>4 DEF Seats, ToldOnce
<1>5. \A m : ToldDeputy(m)' = ToldDeputy(m)
  BY DEF ToldDeputy, ServerAddr
<1> QED
  BY <1>3, <1>4, <1>5 DEF ToldOnce

LEMMA OnlyPromotesNext ==
  ASSUME Types, Founder, OnlyPromotes, [Next]_vars
  PROVE  OnlyPromotes'
<1> SUFFICES ASSUME NEW m \in net', m.type = "RoleChange", m.src = ServerAddr(Creator),
                    m.role = "VIEWER"
             PROVE  FALSE
  BY DEF OnlyPromotes, ServerAddr
<1>1. PICK n \in Node : SendsLeave(n, m)
  BY SentOrigin, SentByType DEF OnlyPromotes, SendsDeputy, SendsMaster
<1>2. m.src = ClientAddr(n) /\ cl[n].st = "playing"
  BY <1>1 DEF SendsLeave
<1>3. n = Creator
  BY <1>2 DEF ClientAddr, ServerAddr
<1>4. srv[Creator].up
  BY <1>2, <1>3 DEF Founder, Ended
<1> QED
  BY <1>2, <1>3, <1>4 DEF ClientAddr, ServerAddr

LEMMA OneSeatNext ==
  ASSUME Types, Strangers, Founder, Seats, [Next]_vars
  PROVE  OneSeat'
<1> SUFFICES ASSUME srv'[Creator].up
             PROVE  /\ \A a \in Addr : \A i, j \in Nat : Holds(a, i)' /\ Holds(a, j)' => i = j
                    /\ \A m \in net' : m.type = "Join" => \A i \in Nat : ~Holds(m.src, i)'
                    /\ \A n \in Node :
                         cl'[n].st = "idle" => \A i \in Nat : ~Holds(ServerAddr(n), i)'
  BY DEF OneSeat, ServerAddr
<1>1. srv[Creator].up /\ Creator \in Node
  BY CreatorStays
<1>2. /\ \A a \in Addr : \A i, j \in Nat : Holds(a, i) /\ Holds(a, j) => i = j
      /\ \A m \in net : m.type = "Join" => \A i \in Nat : ~Holds(m.src, i)
      /\ \A n \in Node : cl[n].st = "idle" => \A i \in Nat : ~Holds(ServerAddr(n), i)
  BY <1>1 DEF Seats, OneSeat
<1>3. \A a, i : Holds(a, i)' => Holds(a, i) \/ Admits(a, i)
  BY FounderNext, HoldsOrigin
<1>4. ASSUME NEW a, NEW i, Admits(a, i)
      PROVE  /\ i = srv[Creator].uniqueId
             /\ \E m \in net : HandleJoin(Creator, m) /\ Listing(Creator, m)
                               /\ m.type = "Join" /\ m.src = a
  BY <1>1, <1>4, HandleJoinDoes DEF Admits
<1>5. ASSUME NEW a, NEW i, NEW j \in Nat, Admits(a, i)  PROVE ~Holds(a, j)
  BY <1>2, <1>4, <1>5
<1>6. ASSUME NEW n \in Node, cl[n].st = "idle", NEW i \in Nat, Holds(ServerAddr(n), i)'
      PROVE  FALSE
  <2>1. Admits(ServerAddr(n), i)
    BY <1>2, <1>3, <1>6
  <2> QED
    BY <1>4, <1>6, <2>1, AddrFields DEF Strangers
<1>7. ASSUME NEW m \in net', m.type = "Join", NEW i \in Nat, Holds(m.src, i)'
      PROVE  FALSE
  <2>1. CASE m \in net
    <3>1. Admits(m.src, i)
      BY <1>2, <1>3, <1>7, <2>1
    <3>2. PICK j \in net : HandleJoin(Creator, j) /\ Listing(Creator, j)
                           /\ j.type = "Join" /\ j.src = m.src
      BY <1>4, <3>1
    <3>3. m = j
      BY <1>7, <2>1, <3>2 DEF Seats, OneJoin
    <3>4. \A a, b, c : AckMsg(a, b, c).type = "Ack"
      BY DEF AckMsg
    <3>5. m \notin (net \ {m}) \cup {AckMsg(ServerAddr(Creator), m.src, srv[Creator].uniqueId)}
      BY <1>7, <3>4
    <3> QED
      BY <1>7, <3>2, <3>3, <3>5 DEF Listing
  <2>2. CASE m \notin net
    <3>1. PICK n \in Node : SendsJoin(n, m)
      BY <1>7, <2>2, SentOrigin, SentByType
    <3>2. m.src = ServerAddr(n) /\ cl[n].st = "idle"
      BY <3>1, JoinDoes DEF SendsJoin
    <3> QED
      BY <1>6, <1>7, <3>2
  <2> QED
    BY <2>1, <2>2
<1>8. ASSUME NEW n \in Node, cl'[n].st = "idle", NEW i \in Nat, Holds(ServerAddr(n), i)'
      PROVE  FALSE
  BY <1>6, <1>8, IdleBefore
<1>9. ASSUME NEW a \in Addr, NEW i \in Nat, NEW j \in Nat, Holds(a, i)', Holds(a, j)'
      PROVE  i = j
  BY <1>2, <1>3, <1>4, <1>5, <1>9
<1> QED
  BY <1>7, <1>8, <1>9

LEMMA SeatsNext ==
  ASSUME Types, Strangers, Founder, Seats, [Next]_vars
  PROVE  Seats'
BY OneJoinNext, ToldOnceNext, OnlyPromotesNext, OneSeatNext DEF Seats

-----------------------------------------------------------------------------
(* The heirs of the creator *)

GetsAck(n) ==
  \E m \in net : m.type = "Ack" /\ m.src = ServerAddr(Creator) /\ m.dst = ServerAddr(n)

GetsRole(n, role) ==
  \E m \in net : /\ m.type = "RoleChange" /\ m.role = role
                 /\ m.src = ServerAddr(Creator) /\ m.dst = ServerAddr(n)

(* The creator's server is about to answer n's join. *)
InSeat(n) ==
  srv[Creator].joining # NoJoin /\ srv[Creator].joining.addr = ServerAddr(n)

Engaged(n) == cl[n].st \in {"joining", "playing"} /\ cl[n].peer = ServerAddr(Creator)

(* A client that is or will become the creator's deputy, or its successor,  *)
(* should nothing more be sent.  One that joins takes the first role change *)
(* for its Ack, and so loses it if that comes first; only one whose Ack is  *)
(* there too, or under way, can become the deputy.                          *)
Heir(n) ==
  /\ n # Creator /\ cl[n].peer = ServerAddr(Creator)
  /\ \/ /\ cl[n].st = "playing"
        /\ cl[n].role = "DEPUTY" \/ GetsRole(n, "DEPUTY") \/ GetsRole(n, "MASTER")
     \/ /\ cl[n].st = "joining"
        /\ \/ GetsRole(n, "MASTER")
           \/ GetsRole(n, "DEPUTY") /\ (GetsAck(n) \/ InSeat(n))

(* While n's join is under way it is on the list, and has no Ack; but a     *)
(* round may have told it already that it is the deputy, and it may have    *)
(* taken that for the Ack.                                                  *)
Seated(n) ==
  InSeat(n) /\ Engaged(n) =>
    /\ ListedAs(ServerAddr(n), srv[Creator].joining.id)
    /\ ~GetsAck(n)
    /\ GetsRole(n, "DEPUTY") =>
         srv[Creator].deputyId = srv[Creator].joining.id /\ cl[n].st = "joining"
    /\ cl[n].st = "playing" =>
         srv[Creator].deputyId = srv[Creator].joining.id /\ cl[n].role # "DEPUTY"

(* The list says DEPUTY of whom the creator's server has for its deputy. *)
Steady ==
  \A k \in DOMAIN srv[Creator].players :
    srv[Creator].players[k].id = srv[Creator].deputyId => srv[Creator].players[k].role = "DEPUTY"

(* While the creator's server runs: nobody else is or can become a master,  *)
(* and who could become the deputy is the one the server has for it.        *)
Reign ==
  /\ NoOther
  /\ \A m \in net : m.type = "RoleChange" /\ m.src = ServerAddr(Creator) => m.role = "DEPUTY"
  /\ Steady
  /\ \A n \in Node : Heir(n) => ListedAs(ServerAddr(n), srv[Creator].deputyId)
  /\ \A n \in Node \ {Creator} : Seated(n)

Calm == "all viewers" \notin mishaps

(* The inductive invariant of OneHeir and OneDeputy. *)
Heirs ==
  Calm =>
    /\ srv[Creator].up => Reign
    /\ \A n, k \in Node : Heir(n) /\ Heir(k) => n = k
    /\ \A n \in Node : Heir(n) => NoOther

(* What is known of the creator's game before. *)
Sound == Types /\ Strangers /\ Founder /\ NewIds /\ Named /\ Masters /\ Alone /\ Seats

LEMMA SoundGives ==
  ASSUME Sound, srv[Creator].up
  PROVE  /\ Creator \in Node /\ Types /\ Founder
         /\ srv[Creator].players \in Seq(PlayerType)
         /\ DOMAIN srv[Creator].players \in SUBSET Nat
         /\ \A k \in DOMAIN srv[Creator].players :
              /\ srv[Creator].players[k] \in PlayerType
              /\ srv[Creator].players[k].id \in Nat /\ srv[Creator].players[k].addr \in Addr
         /\ srv[Creator].deputyId \in Nat \cup {-1} /\ srv[Creator].uniqueId \in Nat
         /\ srv[Creator].deputyId < srv[Creator].uniqueId
         /\ Agreed(srv[Creator].players, srv[Creator].deputyId)
         /\ \A a \in Addr : \A i, j \in Nat : Holds(a, i) /\ Holds(a, j) => i = j
         /\ \A a, b \in Addr : \A i \in Nat : Holds(a, i) /\ Holds(b, i) => a = b
         /\ \A m \in net : m.type = "Join" => \A i \in Nat : ~Holds(m.src, i)
         /\ \A n \in Node : cl[n].st = "idle" => \A i \in Nat : ~Holds(ServerAddr(n), i)
<1>1. Creator \in Node /\ Types /\ Founder
  BY SessionAssumption DEF Sound
<1>2. srv[Creator].players \in Seq(PlayerType)
  BY <1>1, TypesGive
<1>3. DOMAIN srv[Creator].players \in SUBSET Nat
  BY <1>2, ListEntries
<1>4. \A k \in DOMAIN srv[Creator].players :
        /\ srv[Creator].players[k] \in PlayerType
        /\ srv[Creator].players[k].id \in Nat /\ srv[Creator].players[k].addr \in Addr
  BY <1>2, ListEntries
<1>5. srv[Creator].deputyId \in Nat \cup {-1} /\ srv[Creator].uniqueId \in Nat
  BY <1>1, TypesGive
<1>6. /\ srv[Creator].deputyId < srv[Creator].uniqueId
      /\ Agreed(srv[Creator].players, srv[Creator].deputyId)
  BY DEF Sound, Named
<1>7. \A a, b \in Addr : \A i \in Nat : Holds(a, i) /\ Holds(b, i) => a = b
  BY DEF Sound, NewIds
<1>8. OneSeat
  BY DEF Sound, Seats
<1> QED
  BY <1>1, <1>2, <1>3, <1>4, <1>5, <1>6, <1>7, <1>8 DEF OneSeat

LEMMA HeirSocket ==
  ASSUME Types, Founder, NEW n \in Node, n # Creator, cl[n].peer = ServerAddr(Creator)
  PROVE  ~srv[n].up /\ ClientAddr(n) = ServerAddr(n)
<1>1. ServerAddr(n) # ServerAddr(Creator)
  BY DEF ServerAddr
<1>2. srv[n].up = FALSE
  BY <1>1, TypesGive DEF Founder
<1> QED
  BY <1>2 DEF ClientAddr, ServerAddr

LEMMA ListedPinged ==
  ASSUME Sound, srv[Creator].up, NEW n \in Node, n # Creator,
         cl[n].peer = ServerAddr(Creator), NEW i, ListedAs(ServerAddr(n), i)
  PROVE  Pinged(n)
<1>1. ClientAddr(n) = ServerAddr(n) /\ Creator \in Node
  BY HeirSocket, SoundGives
<1>2. Lists(srv[Creator].players, ClientAddr(n))
  BY <1>1 DEF Lists, ListedAs
<1> QED
  BY <1>1, <1>2 DEF Pinged

LEMMA ListedExpected ==
  ASSUME Sound, srv[Creator].up, NEW n \in Node, n # Creator,
         cl[n].peer = ServerAddr(Creator), NEW i, ListedAs(ServerAddr(n), i),
         cl[n].st = "playing" \/ (cl[n].st = "joining" /\ (InSeat(n) \/ GetsAck(n)))
  PROVE  Expected(Creator, n, i)
<1>1. ClientAddr(n) = ServerAddr(n) /\ ~srv[n].up
  BY HeirSocket, SoundGives
<1>2. Lists(srv[Creator].players, ClientAddr(n))
  BY <1>1 DEF Lists, ListedAs
<1>3. IdOf(srv[Creator].players, ClientAddr(n)) = i
  <2>1. PICK k \in DOMAIN srv[Creator].players :
          /\ srv[Creator].players[k].addr = ServerAddr(n)
          /\ IdOf(srv[Creator].players, ServerAddr(n)) = srv[Creator].players[k].id
    BY <1>1, <1>2, SoundGives, IdOfEntry
  <2>2. PICK j \in DOMAIN srv[Creator].players :
          srv[Creator].players[j].addr = ServerAddr(n) /\ srv[Creator].players[j].id = i
    BY DEF ListedAs
  <2>3. /\ srv[Creator].players[k].id \in Nat /\ i \in Nat /\ ServerAddr(n) \in Addr
    BY <2>2, SoundGives
  <2>4. Holds(ServerAddr(n), srv[Creator].players[k].id) /\ Holds(ServerAddr(n), i)
    BY <2>1 DEF Holds, ListedAs
  <2>5. srv[Creator].players[k].id = i
    BY <2>3, <2>4, SoundGives
  <2> QED
    BY <1>1, <2>1, <2>5
<1>4. CASE cl[n].st = "playing"
  BY <1>2, <1>3, <1>4 DEF Expected, Playing
<1>5. CASE cl[n].st = "joining" /\ InSeat(n)
  BY <1>1, <1>2, <1>3, <1>5 DEF Expected, InSeat
<1>6. CASE cl[n].st = "joining" /\ GetsAck(n)
  <2>1. \E a \in net : a.type = "Ack" /\ ForClient(n, a)
    BY <1>1, <1>6 DEF GetsAck, ForClient
  <2> QED
    BY <1>2, <1>3, <1>6, <2>1 DEF Expected
<1> QED
  BY <1>4, <1>5, <1>6

(* The deputy is chosen again as long as the list says so. *)
LEMMA Settled ==
  ASSUME Sound, srv[Creator].up, NEW k \in DOMAIN srv[Creator].players,
         srv[Creator].players[k].id = srv[Creator].deputyId,
         srv[Creator].players[k].role = "DEPUTY"
  PROVE  ChosenDeputy(srv[Creator]) = srv[Creator].deputyId
<1> DEFINE d == srv[Creator].deputyId
           players == srv[Creator].players
<1>1. /\ Agreed(players, d) /\ players \in Seq(PlayerType)
      /\ \A i \in DOMAIN players : players[i].role \in Role /\ players[i].id \in Nat
  BY SoundGives DEF PlayerType
<1>2. d \in Candidates(players)
  BY DEF Candidates
<1>3. \A id \in Candidates(players) : d <= id /\ id \in Nat
  BY <1>1 DEF Candidates, Agreed, Role
<1>4. \/ Candidates(players) = {}
      \/ /\ ChosenDeputy(srv[Creator]) \in Candidates(players)
         /\ \A id \in Candidates(players) : ChosenDeputy(srv[Creator]) <= id
  BY <1>1, ChosenOne
<1> HIDE DEF d
<1>5. ChosenDeputy(srv[Creator]) <= d /\ d <= ChosenDeputy(srv[Creator])
      /\ ChosenDeputy(srv[Creator]) \in Nat /\ d \in Nat
  BY <1>2, <1>3, <1>4
<1> QED
  BY <1>5 DEF d

(* The steps of the creator's server while it makes no viewers. *)
CreatorLists(m) ==
  /\ HandleJoin(Creator, m) /\ Listing(Creator, m) /\ m.type = "Join"
  /\ srv[Creator].joining = NoJoin

CreatorAnswers ==
  /\ srv[Creator].joining # NoJoin /\ srv'[Creator].joining = NoJoin
  /\ OthersSame(Creator)
  /\ srv'[Creator].deputyId = srv[Creator].deputyId
  /\ \/ srv'[Creator].players = srv[Creator].players
     \/ /\ srv'[Creator].players = WithoutId(srv[Creator].players, srv[Creator].joining.id)
        /\ net' \subseteq net \cup {ErrorMsg(ServerAddr(Creator), srv[Creator].joining.addr)}

CreatorAppoints ==
  /\ Appoint(Creator)
  /\ srv'[Creator].joining = srv[Creator].joining
  /\ srv'[Creator].deputyId = ChosenDeputy(srv[Creator])
  /\ srv'[Creator].players = Appointed(srv[Creator]).players

CreatorRemoves(id) ==
  /\ id \in Ids(srv[Creator].players)
  /\ LatePings \/ \A n \in Node : ~Expected(Creator, n, id)
  /\ srv'[Creator].joining = srv[Creator].joining
  /\ srv'[Creator].players = WithoutId(srv[Creator].players, id)
  /\ srv'[Creator].deputyId = IF srv[Creator].deputyId = id THEN -1 ELSE srv[Creator].deputyId

LEMMA CreatorSteps ==
  ASSUME Types, Founder, [Next]_vars, srv'[Creator].up, Calm'
  PROVE  \/ SameServer(Creator)
         \/ \E m \in net : CreatorLists(m)
         \/ CreatorAnswers
         \/ CreatorAppoints
         \/ \E id : CreatorRemoves(id)
<1>1. /\ srv[Creator].up /\ ServerChanges(Creator) /\ ~Begins(Creator)
      /\ srv'[Creator] # NoServer /\ Creator \in Node
  BY CreatorStays
<1>2. CASE \E m \in net : HandleJoin(Creator, m)
  BY <1>1, <1>2, HandleJoinDoes DEF CreatorLists
<1>3. CASE FinishJoin(Creator)
  BY <1>1, <1>3, FinishJoinDoes DEF CreatorAnswers
<1>4. CASE Appoint(Creator)
  BY <1>1, <1>4, AppointDoes DEF CreatorAppoints
<1>5. CASE \E id : RemoveSilent(Creator, id)
  BY <1>1, <1>5, RemoveSilentDoes DEF CreatorRemoves
<1>6. CASE \E m \in net : HandleLeaver(Creator, m)
  BY <1>1, <1>6, HandleLeaverDoes DEF Calm
<1> QED
  BY <1>1, <1>2, <1>3, <1>4, <1>5, <1>6 DEF ServerChanges

(* The game goes on, with heartbeats in time. *)
Reigns == /\ Sound /\ Reign /\ [Next]_vars /\ srv[Creator].up /\ srv'[Creator].up /\ Calm'
          /\ ~LatePings

LEMMA ReignsGives ==
  ASSUME Reigns
  PROVE  /\ Sound /\ Types /\ Strangers /\ Founder /\ Masters /\ Alone /\ Seats
         /\ Reign /\ [Next]_vars /\ srv[Creator].up /\ srv'[Creator].up /\ Calm' /\ ~LatePings
         /\ NoOther /\ Steady
BY DEF Reigns, Sound, Reign

(* A player that is heard of keeps its entry, unless its join fails. *)
LEMMA EntryKept ==
  ASSUME Reigns, NEW a, NEW i, ListedAs(a, i), NEW n \in Node, Expected(Creator, n, i),
         \/ srv'[Creator].joining # NoJoin
         \/ srv[Creator].joining = NoJoin
         \/ srv[Creator].joining.id # i
  PROVE  ListedAs(a, i)'
<1> DEFINE players == srv[Creator].players
           after   == srv'[Creator].players
<1>1. PICK k \in DOMAIN players : players[k].addr = a /\ players[k].id = i
  BY DEF ListedAs
<1>2. /\ players \in Seq(PlayerType) /\ Creator \in Node
      /\ DOMAIN players = 1 .. Len(players) /\ Len(players) \in Nat
  BY ReignsGives, SoundGives, ListEntries
<1>3. CASE after = players
  BY <1>1, <1>3 DEF ListedAs
<1>4. ASSUME NEW id, id # i, after = WithoutId(players, id)  PROVE ListedAs(a, i)'
  BY <1>1, <1>2, <1>4, WithoutIdMembers DEF ListedAs
<1>5. ASSUME NEW m \in net, CreatorLists(m)  PROVE ListedAs(a, i)'
  <2> DEFINE new == Player(srv[Creator].uniqueId, m.src, m.role)
  <2>1. new \in PlayerType /\ after = Append(players, new)
    BY <1>5, ReignsGives, SoundGives DEF CreatorLists, Player, PlayerType, Listing, Role
  <2> HIDE DEF new
  <2>2. k \in DOMAIN after /\ after[k] = players[k]
    BY <1>2, <2>1, AppendEntry
  <2> QED
    BY <1>1, <2>2 DEF ListedAs
<1>6. CASE CreatorAnswers
  BY <1>3, <1>4, <1>6 DEF CreatorAnswers
<1>7. CASE CreatorAppoints
  BY <1>1, <1>2, <1>7, ReignsGives, AppointedFields DEF CreatorAppoints, ListedAs
<1>8. ASSUME NEW id, CreatorRemoves(id)  PROVE ListedAs(a, i)'
  BY <1>4, <1>8, ReignsGives DEF CreatorRemoves
<1> QED
  BY <1>3, <1>5, <1>6, <1>7, <1>8, ReignsGives, CreatorSteps DEF SameServer

(* It stays the deputy, if it is the deputy. *)
LEMMA DeputyKept ==
  ASSUME Reigns, NEW a, ListedAs(a, srv[Creator].deputyId),
         NEW n \in Node, Expected(Creator, n, srv[Creator].deputyId)
  PROVE  srv'[Creator].deputyId = srv[Creator].deputyId
<1>1. PICK k \in DOMAIN srv[Creator].players :
        srv[Creator].players[k].addr = a /\ srv[Creator].players[k].id = srv[Creator].deputyId
  BY DEF ListedAs
<1>2. ChosenDeputy(srv[Creator]) = srv[Creator].deputyId
  BY <1>1, ReignsGives, Settled DEF Steady
<1>3. ASSUME NEW id, CreatorRemoves(id)  PROVE srv'[Creator].deputyId = srv[Creator].deputyId
  BY <1>3, ReignsGives DEF CreatorRemoves
<1>4. ASSUME NEW m \in net, CreatorLists(m)
      PROVE  srv'[Creator].deputyId = srv[Creator].deputyId
  BY <1>4 DEF CreatorLists, Listing
<1> QED
  BY <1>2, <1>3, <1>4, ReignsGives, CreatorSteps
  DEF SameServer, CreatorAnswers, CreatorAppoints

(* Nobody takes over. *)
LEMMA NobodyBegins ==
  ASSUME Sound, Reign, srv[Creator].up, ~LatePings, [Next]_vars, NEW n \in Node
  PROVE  ~Begins(n)
<1> SUFFICES ASSUME Begins(n)  PROVE FALSE
  OBVIOUS
<1>1. /\ Types /\ Strangers /\ Founder /\ Masters /\ Alone /\ NoOther
  BY DEF Sound, Reign
<1>2. n # Creator /\ cl[n].role # "MASTER"
  BY <1>1 DEF Begins, NoOther
<1>3. /\ \A k \in Node : cl[k].role = "DEPUTY" => cl[k].peer = ServerAddr(Creator)
      /\ \A m \in net : m.type = "RoleChange" /\ m.role # "VIEWER" => m.src = ServerAddr(Creator)
  BY <1>1 DEF Alone
<1>4. CASE \E m \in net : m.type = "RoleChange" /\ m.role = "MASTER"
  BY <1>3, <1>4 DEF Reign
<1>5. CASE cl[n].role = "DEPUTY" /\ (LatePings \/ ~Pinged(n))
  <2>1. Heir(n)
    BY <1>2, <1>3, <1>5 DEF Heir, Begins
  <2> QED
    BY <1>2, <1>3, <1>5, <2>1, ListedPinged DEF Reign
<1> QED
  BY <1>1, <1>2, <1>4, <1>5, ClientSteps DEF SameClient, ClientEnds, Follows, Begins

LEMMA ReignNoOther ==
  ASSUME Reigns
  PROVE  NoOther'
<1>1. ASSUME NEW n \in Node \ {Creator}  PROVE cl'[n].role # "MASTER"
  <2>1. cl[n].role # "MASTER" /\ ~Begins(n)
    BY ReignsGives, NobodyBegins DEF NoOther
  <2> QED
    BY <2>1, ReignsGives, ClientSteps DEF SameClient, ClientEnds, Follows
<1> QED
  BY <1>1 DEF NoOther

LEMMA ReignRoles ==
  ASSUME Reigns, NEW m \in net', m.type = "RoleChange", m.src = ServerAddr(Creator)
  PROVE  m.role = "DEPUTY"
<1>1. CASE m \in net
  BY <1>1, ReignsGives DEF Reign
<1>2. CASE m \notin net
  <2>1. PICK n \in Node : SendsDeputy(n, m) \/ SendsLeave(n, m) \/ SendsMaster(n, m)
    BY <1>2, ReignsGives, SentOrigin, SentByType
  <2>2. CASE SendsLeave(n, m)
    BY <2>2, ReignsGives DEF SendsLeave, ClientAddr, ServerAddr
  <2>3. CASE SendsMaster(n, m)
    <3>1. n = Creator
      BY <2>3 DEF SendsMaster, ServerAddr
    <3> QED
      BY <2>3, <3>1, ReignsGives, StopServerDoes DEF SendsMaster, NoServer
  <2> QED
    BY <2>1, <2>2, <2>3 DEF SendsDeputy
<1> QED
  BY <1>1, <1>2

LEMMA ReignSteady ==
  ASSUME Reigns
  PROVE  Steady'
<1> DEFINE players == srv[Creator].players
           after   == srv'[Creator].players
           d       == srv[Creator].deputyId
<1> SUFFICES ASSUME NEW k \in DOMAIN after, after[k].id = srv'[Creator].deputyId
             PROVE  after[k].role = "DEPUTY"
  BY DEF Steady
<1>1. /\ players \in Seq(PlayerType) /\ Creator \in Node
      /\ DOMAIN players = 1 .. Len(players) /\ Len(players) \in Nat
      /\ \A i \in DOMAIN players : players[i].id \in Nat
      /\ d \in Nat \cup {-1} /\ srv[Creator].uniqueId \in Nat /\ d < srv[Creator].uniqueId
  BY ReignsGives, SoundGives, ListEntries
<1>2. \A i \in DOMAIN players : players[i].id = d => players[i].role = "DEPUTY"
  BY ReignsGives DEF Steady
<1>3. CASE after = players /\ srv'[Creator].deputyId = d
  BY <1>2, <1>3
<1>4. ASSUME NEW id, after = WithoutId(players, id), srv'[Creator].deputyId \in {d, -1}
      PROVE  after[k].role = "DEPUTY"
  <2>1. PICK i \in DOMAIN players : after[k] = players[i]
    BY <1>1, <1>4, WithoutIdMembers
  <2>2. players[i].id = d
    BY <1>1, <1>4, <2>1
  <2> QED
    BY <1>2, <2>1, <2>2
<1>5. ASSUME NEW m \in net, CreatorLists(m)  PROVE after[k].role = "DEPUTY"
  <2> DEFINE new == Player(srv[Creator].uniqueId, m.src, m.role)
             N   == Len(players) + 1
  <2>1. /\ new \in PlayerType /\ after = Append(players, new)
        /\ new.id = srv[Creator].uniqueId /\ srv'[Creator].deputyId = d
    BY <1>1, <1>5 DEF CreatorLists, Player, PlayerType, Listing, Role
  <2> HIDE DEF new
  <2>2. /\ DOMAIN after = 1 .. N /\ after[N] = new
        /\ \A i \in DOMAIN players : after[i] = players[i]
    BY <1>1, <2>1, AppendEntry
  <2>3. after[N].id # d
    BY <1>1, <2>1, <2>2
  <2>4. k \in DOMAIN players
    BY <1>1, <2>1, <2>2, <2>3
  <2> QED
    BY <1>2, <2>1, <2>2, <2>4
<1>6. CASE CreatorAnswers
  BY <1>3, <1>4, <1>6 DEF CreatorAnswers
<1>7. CASE CreatorAppoints
  <2>1. /\ k \in DOMAIN players /\ after[k].id = players[k].id
        /\ after[k].role = IF ChosenDeputy(srv[Creator]) # d /\ players[k].id = ChosenDeputy(srv[Creator])
                           THEN "DEPUTY" ELSE players[k].role
        /\ srv'[Creator].deputyId = ChosenDeputy(srv[Creator])
    BY <1>1, <1>7, ReignsGives, AppointedFields DEF CreatorAppoints
  <2> QED
    BY <1>2, <2>1
<1>8. ASSUME NEW id, CreatorRemoves(id)  PROVE after[k].role = "DEPUTY"
  BY <1>4, <1>8 DEF CreatorRemoves
<1> QED
  BY <1>3, <1>5, <1>6, <1>7, <1>8, ReignsGives, CreatorSteps DEF SameServer

(* Who becomes engaged has not got an id yet. *)
LEMMA EngagedBefore ==
  ASSUME Reigns, NEW n \in Node \ {Creator}, Engaged(n)'
  PROVE  /\ Engaged(n) \/ cl[n].st = "idle"
         /\ cl'[n].st = "joining" => cl'[n].role # "DEPUTY"
<1>1. cl'[n].st \in {"joining", "playing"} /\ cl'[n].peer = ServerAddr(Creator)
  BY DEF Engaged, ServerAddr
<1>2. ~Begins(n)
  BY ReignsGives, NobodyBegins
<1>3. ~Follows(n)
  BY <1>1, ReignsGives, ListsOfServer, EntryOf DEF Follows, Founder
<1>4. Engaged(n) \/ cl[n].st = "idle"
  BY <1>1, <1>2, <1>3, ReignsGives, ClientSteps DEF Engaged, SameClient, ClientEnds
<1>5. Masters'
  BY ReignsGives, MastersNext
<1> QED
  BY <1>4, <1>5 DEF Masters

(* Where the messages to n come from. *)
LEMMA AckComes ==
  ASSUME Reigns, NEW n \in Node, GetsAck(n)'
  PROVE  \/ GetsAck(n)
         \/ InSeat(n) /\ srv'[Creator].joining = NoJoin
         \/ \E m \in net : CreatorLists(m) /\ m.src = ServerAddr(n)
<1>1. PICK m \in net' : m.type = "Ack" /\ m.src = ServerAddr(Creator) /\ m.dst = ServerAddr(n)
  BY DEF GetsAck, ServerAddr
<1>2. CASE m \in net
  BY <1>1, <1>2 DEF GetsAck
<1>3. CASE m \notin net
  <2>1. PICK k \in Node : SendsAck(k, m)
    BY <1>1, <1>3, ReignsGives, SentOrigin, SentByType
  <2>2. k = Creator
    BY <1>1, <2>1 DEF SendsAck, ServerAddr
  <2>3. CASE \E j \in net : HandleJoin(k, j) /\ Listing(k, j) /\ m.dst = j.src
    BY <1>1, <2>2, <2>3, ReignsGives, HandleJoinDoes DEF CreatorLists
  <2>4. CASE FinishJoin(k) /\ m.dst = srv[k].joining.addr
    BY <1>1, <2>2, <2>4, ReignsGives, FinishJoinDoes DEF InSeat
  <2> QED
    BY <2>1, <2>3, <2>4 DEF SendsAck
<1> QED
  BY <1>2, <1>3

LEMMA DeputyComes ==
  ASSUME Reigns, NEW n \in Node, GetsRole(n, "DEPUTY")'
  PROVE  \/ GetsRole(n, "DEPUTY")
         \/ /\ CreatorAppoints /\ ChosenDeputy(srv[Creator]) # srv[Creator].deputyId
            /\ ListedAs(ServerAddr(n), ChosenDeputy(srv[Creator]))
            /\ ListedAs(ServerAddr(n), srv[Creator].deputyId)'
            /\ SameClient(n)
<1>1. PICK m \in net' : /\ m.type = "RoleChange" /\ m.role = "DEPUTY"
                        /\ m.src = ServerAddr(Creator) /\ m.dst = ServerAddr(n)
  BY DEF GetsRole, ServerAddr
<1>2. CASE m \in net
  BY <1>1, <1>2 DEF GetsRole
<1>3. CASE m \notin net
  <2>1. PICK k \in Node : SendsDeputy(k, m)
    BY <1>1, <1>3, ReignsGives, SentOrigin, SentByType DEF SendsLeave, SendsMaster
  <2>2. k = Creator
    BY <1>1, <2>1 DEF SendsDeputy, ServerAddr
  <2>3. /\ Appoint(Creator) /\ ChosenDeputy(srv[Creator]) # srv[Creator].deputyId
        /\ ListedAs(ServerAddr(n), ChosenDeputy(srv[Creator]))
    BY <1>1, <2>1, <2>2 DEF SendsDeputy, ListedAs
  <2>4. CreatorAppoints /\ SameClient(n)
    BY <2>2, <2>3, ReignsGives, AppointDoes, OnlyOne DEF CreatorAppoints
  <2>5. ListedAs(ServerAddr(n), srv[Creator].deputyId)'
    <3> DEFINE d == ChosenDeputy(srv[Creator])
    <3>1. PICK i \in DOMAIN srv[Creator].players :
            srv[Creator].players[i].addr = ServerAddr(n) /\ srv[Creator].players[i].id = d
      BY <2>3 DEF ListedAs
    <3>2. /\ i \in DOMAIN srv'[Creator].players
          /\ srv'[Creator].players[i].addr = srv[Creator].players[i].addr
          /\ srv'[Creator].players[i].id = srv[Creator].players[i].id
          /\ srv'[Creator].deputyId = d
      BY <2>4, ReignsGives, SoundGives, AppointedFields DEF CreatorAppoints
    <3> QED
      BY <3>1, <3>2 DEF ListedAs, ServerAddr
  <2> QED
    BY <2>3, <2>4, <2>5
<1> QED
  BY <1>2, <1>3

LEMMA SeatComes ==
  ASSUME Reigns, NEW n \in Node, InSeat(n)'
  PROVE  \/ InSeat(n) /\ srv'[Creator].joining = srv[Creator].joining
         \/ \E m \in net : CreatorLists(m) /\ m.src = ServerAddr(n) /\ m.role = "NORMAL"
                           /\ srv'[Creator].joining.id = srv[Creator].uniqueId
<1>1. srv'[Creator].joining # NoJoin /\ srv'[Creator].joining.addr = ServerAddr(n)
  BY DEF InSeat, NoJoin, ServerAddr
<1>2. CASE srv'[Creator].joining = srv[Creator].joining
  BY <1>1, <1>2 DEF InSeat
<1>3. ASSUME NEW m \in net, CreatorLists(m)
      PROVE  /\ m.src = ServerAddr(n) /\ m.role = "NORMAL"
             /\ srv'[Creator].joining.id = srv[Creator].uniqueId
  <2>1. /\ srv'[Creator].joining = [id |-> srv[Creator].uniqueId, addr |-> m.src]
        /\ m.role = "NORMAL"
    BY <1>1, <1>3 DEF CreatorLists, Listing
  <2> QED
    BY <1>1, <2>1
<1> QED
  BY <1>1, <1>2, <1>3, ReignsGives, CreatorSteps
  DEF SameServer, CreatorAnswers, CreatorAppoints, CreatorRemoves

(* A client that asks for its id has been told nothing. *)
LEMMA NewSeat ==
  ASSUME Reigns, NEW n \in Node \ {Creator}, NEW m \in net, CreatorLists(m),
         m.src = ServerAddr(n)
  PROVE  /\ ~GetsAck(n) /\ ~GetsRole(n, "DEPUTY")
         /\ ~(cl[n].st = "playing" /\ cl[n].peer = ServerAddr(Creator))
         /\ SameClient(n)
<1>1. \A i \in Nat : ~Holds(ServerAddr(n), i)
  BY ReignsGives, SoundGives DEF CreatorLists
<1>2. ASSUME NEW x \in net, x.type \in {"Ack", "RoleChange"}, x.src = ServerAddr(Creator),
             x.dst = ServerAddr(n)
      PROVE  FALSE
  <2>1. x.id \in Nat
    BY <1>2, ReignsGives, MessageFields DEF Types
  <2>2. Holds(ServerAddr(n), x.id)
    BY <1>2 DEF Holds, ToldOf
  <2> QED
    BY <1>1, <2>1, <2>2
<1>3. ASSUME cl[n].st = "playing", cl[n].peer = ServerAddr(Creator)
      PROVE  FALSE
  <2>1. ClientAddr(n) = ServerAddr(n) /\ cl[n].id \in Nat
    BY <1>3, ReignsGives, HeirSocket, TypesGive
  <2>2. Holds(ServerAddr(n), cl[n].id)
    BY <1>3, <2>1 DEF Holds, PlaysAs
  <2> QED
    BY <1>1, <2>1, <2>2
<1>4. SameClient(n)
  BY ReignsGives, SoundGives, HandleJoinDoes, OnlyOne DEF CreatorLists
<1> QED
  BY <1>2, <1>3, <1>4 DEF GetsAck, GetsRole

(* Who takes a role change for its Ack will not get it again. *)
LEMMA AckTaken ==
  ASSUME Reigns, NEW n \in Node \ {Creator}, Engaged(n), cl[n].st = "joining",
         cl'[n].st = "playing"
  PROVE  /\ cl'[n].role = cl[n].role
         /\ GetsAck(n) \/ (GetsRole(n, "DEPUTY") /\ ~GetsRole(n, "DEPUTY")')
<1>1. /\ cl'[n].role = cl[n].role
      /\ \E m \in net : /\ m.type \in {"Ack", "RoleChange"} /\ m.src = cl[n].peer
                        /\ m.dst = ServerAddr(n) /\ net' = net \ {m}
  BY ReignsGives, ClientSteps DEF SameClient, ClientEnds, Begins
<1>2. PICK m \in net : /\ m.type \in {"Ack", "RoleChange"} /\ m.src = ServerAddr(Creator)
                       /\ m.dst = ServerAddr(n) /\ net' = net \ {m}
  BY <1>1 DEF Engaged
<1>3. CASE m.type = "Ack"
  BY <1>1, <1>2, <1>3 DEF GetsAck
<1>4. CASE m.type = "RoleChange"
  <2>1. m.role = "DEPUTY"
    BY <1>2, <1>4, ReignsGives DEF Reign
  <2>2. GetsRole(n, "DEPUTY")
    BY <1>2, <1>4, <2>1 DEF GetsRole
  <2>3. ASSUME GetsRole(n, "DEPUTY")'  PROVE FALSE
    <3>1. PICK x \in net' : /\ x.type = "RoleChange" /\ x.role = "DEPUTY"
                            /\ x.src = ServerAddr(Creator) /\ x.dst = ServerAddr(n)
      BY <2>3 DEF GetsRole, ServerAddr
    <3>2. x \in net /\ x # m
      BY <1>2, <3>1
    <3> QED
      BY <1>2, <1>4, <2>1, <3>1, <3>2, ReignsGives DEF Seats, ToldOnce, ToldDeputy
  <2> QED
    BY <1>1, <2>2, <2>3
<1> QED
  BY <1>2, <1>3, <1>4

LEMMA ReignSeated ==
  ASSUME Reigns, NEW n \in Node \ {Creator}
  PROVE  Seated(n)'
<1> DEFINE J  == srv[Creator].joining.id
           J1 == srv'[Creator].joining.id
           d  == srv[Creator].deputyId
           d1 == srv'[Creator].deputyId
<1> SUFFICES ASSUME InSeat(n)', Engaged(n)'
             PROVE  /\ ListedAs(ServerAddr(n), srv[Creator].joining.id)'
                    /\ ~GetsAck(n)'
                    /\ GetsRole(n, "DEPUTY")' => d1 = J1 /\ cl'[n].st = "joining"
                    /\ cl'[n].st = "playing" => d1 = J1 /\ cl'[n].role # "DEPUTY"
  BY DEF Seated
<1>1. /\ Engaged(n) \/ cl[n].st = "idle"
      /\ cl'[n].st \in {"joining", "playing"} /\ cl'[n].peer = ServerAddr(Creator)
  BY EngagedBefore DEF Engaged, ServerAddr
<1>2. ServerAddr(n) \in Addr /\ n \in Node
  BY AddrFields
<1>3. CASE \E m \in net : CreatorLists(m) /\ m.src = ServerAddr(n) /\ m.role = "NORMAL"
                          /\ J1 = srv[Creator].uniqueId
  <2>1. PICK m \in net : CreatorLists(m) /\ m.src = ServerAddr(n) /\ m.role = "NORMAL"
                         /\ J1 = srv[Creator].uniqueId
    BY <1>3
  <2>2. /\ ~GetsAck(n) /\ ~GetsRole(n, "DEPUTY") /\ SameClient(n)
        /\ ~(cl[n].st = "playing" /\ cl[n].peer = ServerAddr(Creator))
    BY <2>1, NewSeat
  <2>3. net' \subseteq net
    BY <2>1 DEF CreatorLists, Listing
  <2>4. ~GetsAck(n)' /\ ~GetsRole(n, "DEPUTY")'
    BY <2>2, <2>3 DEF GetsAck, GetsRole, ServerAddr
  <2>5. cl'[n].st # "playing"
    BY <1>1, <2>2 DEF SameClient
  <2>6. ListedAs(ServerAddr(n), srv[Creator].joining.id)'
    <3> DEFINE new == Player(srv[Creator].uniqueId, m.src, m.role)
               N   == Len(srv[Creator].players) + 1
               after == srv'[Creator].players
    <3>1. /\ new \in PlayerType /\ after = Append(srv[Creator].players, new)
          /\ new.addr = ServerAddr(n) /\ new.id = J1
          /\ srv[Creator].players \in Seq(PlayerType)
      BY <2>1, ReignsGives, SoundGives DEF CreatorLists, Player, PlayerType, Listing, Role
    <3> HIDE DEF new
    <3>2. DOMAIN after = 1 .. N /\ after[N] = new /\ N \in 1 .. N
      <4>1. Len(srv[Creator].players) \in Nat
        BY <3>1, ListEntries
      <4> QED
        BY <3>1, <4>1, AppendEntry
    <3>3. N \in DOMAIN srv'[Creator].players /\ srv'[Creator].players[N].addr = ServerAddr(n)
          /\ srv'[Creator].players[N].id = srv'[Creator].joining.id
      BY <3>1, <3>2
    <3> QED
      BY <3>3 DEF ListedAs, ServerAddr
  <2> QED
    BY <2>4, <2>5, <2>6
<1>4. CASE InSeat(n) /\ srv'[Creator].joining = srv[Creator].joining
  <2>1. /\ srv[Creator].joining # NoJoin /\ srv[Creator].joining.addr = ServerAddr(n)
        /\ J \in Nat /\ J1 = J
    BY <1>4, ReignsGives, SoundGives, TypesGive DEF InSeat
  <2>2. Holds(ServerAddr(n), J)
    BY <2>1 DEF Holds, JoiningAs
  <2>3. Engaged(n)
    BY <1>1, <1>2, <2>1, <2>2, ReignsGives, SoundGives
  <2>4. /\ ListedAs(ServerAddr(n), J)
        /\ ~GetsAck(n)
        /\ GetsRole(n, "DEPUTY") => d = J /\ cl[n].st = "joining"
        /\ cl[n].st = "playing" => d = J /\ cl[n].role # "DEPUTY"
    BY <1>4, <2>3, ReignsGives DEF Reign, Seated
  <2>5. Expected(Creator, n, J)
    BY <1>4, <2>3, <2>4, ReignsGives, ListedExpected DEF Engaged
  <2>6. ListedAs(ServerAddr(n), srv[Creator].joining.id)'
    <3>1. PICK i \in Nat : i = J
      BY <2>1
    <3>2. ListedAs(ServerAddr(n), i)'
      <4>1. PICK a \in Addr : a = ServerAddr(n)
        BY <1>2
      <4>2. srv'[Creator].joining # NoJoin
        BY <1>4, <2>1
      <4>3. ListedAs(a, i)'
        BY <2>4, <2>5, <3>1, <4>1, <4>2, EntryKept
      <4> QED
        BY <4>1, <4>3 DEF ListedAs, ServerAddr
    <3> QED
      BY <2>1, <3>1, <3>2 DEF ListedAs, ServerAddr
  <2>7. \A m \in net : ~CreatorLists(m)
    BY <2>1 DEF CreatorLists
  <2>8. ~GetsAck(n)'
    <3>1. srv'[Creator].joining # NoJoin
      BY <1>4, <2>1
    <3> QED
      BY <2>4, <2>7, <3>1, AckComes
  <2>9. d = J => d1 = J
    BY <2>4, <2>5, DeputyKept
  <2>10. CASE cl'[n].st = "joining"
    <3>1. cl[n].st = "joining"
      BY <2>3, <2>10, ReignsGives, ClientSteps
      DEF Engaged, SameClient, ClientEnds, Begins, Follows
    <3>2. ASSUME GetsRole(n, "DEPUTY")'  PROVE d1 = J1
      <4>1. CASE GetsRole(n, "DEPUTY")
        BY <2>1, <2>4, <2>9, <4>1
      <4>2. CASE /\ CreatorAppoints
                 /\ ListedAs(ServerAddr(n), ChosenDeputy(srv[Creator]))
        <5>1. ChosenDeputy(srv[Creator]) \in Nat
          BY <4>2, ReignsGives, SoundGives DEF ListedAs
        <5>2. Holds(ServerAddr(n), ChosenDeputy(srv[Creator]))
          BY <4>2 DEF Holds
        <5>3. ChosenDeputy(srv[Creator]) = J
          BY <1>2, <2>1, <2>2, <5>1, <5>2, ReignsGives, SoundGives
        <5> QED
          BY <2>1, <4>2, <5>3 DEF CreatorAppoints
      <4> QED
        BY <3>2, <4>1, <4>2, DeputyComes
    <3> QED
      BY <2>6, <2>8, <2>10, <3>2
  <2>11. CASE cl'[n].st = "playing"
    <3>1. CASE cl[n].st = "playing"
      <4>1. d = J /\ d1 = J /\ cl[n].role # "DEPUTY" /\ ~GetsRole(n, "DEPUTY")
        BY <2>4, <2>9, <3>1
      <4>2. cl'[n].role # "DEPUTY"
        <5>1. ASSUME cl'[n].role = "DEPUTY"  PROVE FALSE
          <6>1. \E m \in net : /\ m.type = "RoleChange" /\ m.role = "DEPUTY"
                               /\ m.src = cl[n].peer /\ m.dst = ServerAddr(n)
            BY <3>1, <4>1, <5>1, ReignsGives, ClientSteps
            DEF SameClient, ClientEnds, Begins, Follows
          <6> QED
            BY <2>3, <4>1, <6>1 DEF Engaged, GetsRole
        <5> QED
          BY <5>1
      <4>3. ~GetsRole(n, "DEPUTY")'
        <5>1. CASE CreatorAppoints /\ ListedAs(ServerAddr(n), ChosenDeputy(srv[Creator]))
                   /\ ChosenDeputy(srv[Creator]) # d
          <6>1. ChosenDeputy(srv[Creator]) \in Nat
            BY <5>1, ReignsGives, SoundGives DEF ListedAs
          <6>2. Holds(ServerAddr(n), ChosenDeputy(srv[Creator]))
            BY <5>1 DEF Holds
          <6>3. ChosenDeputy(srv[Creator]) = J
            BY <1>2, <2>1, <2>2, <6>1, <6>2, ReignsGives, SoundGives
          <6> QED
            BY <4>1, <5>1, <6>3
        <5> QED
          BY <4>1, <5>1, DeputyComes
      <4> QED
        BY <2>1, <2>6, <2>8, <4>1, <4>2, <4>3
    <3>2. CASE cl[n].st = "joining"
      <4>1. cl'[n].role = cl[n].role /\ GetsRole(n, "DEPUTY") /\ ~GetsRole(n, "DEPUTY")'
        BY <2>3, <2>4, <2>11, <3>2, AckTaken
      <4>2. cl'[n].role # "DEPUTY"
        BY <3>2, <4>1, ReignsGives DEF Masters
      <4>3. d1 = J
        BY <2>4, <2>9, <4>1
      <4> QED
        BY <2>1, <2>6, <2>8, <4>1, <4>2, <4>3
    <3> QED
      BY <2>3, <3>1, <3>2 DEF Engaged
  <2> QED
    BY <1>1, <2>10, <2>11
<1> QED
  BY <1>3, <1>4, SeatComes

(* Without a role change to mastership under way an heir has got, or will    *)
(* get, the deputy's role.                                                  *)
LEMMA ReignHeir ==
  ASSUME Reigns, NEW n \in Node, Heir(n)
  PROVE  /\ n # Creator /\ Engaged(n) /\ ServerAddr(n) \in Addr
         /\ ListedAs(ServerAddr(n), srv[Creator].deputyId)
         /\ Expected(Creator, n, srv[Creator].deputyId)
         /\ cl[n].st = "playing" => cl[n].role = "DEPUTY" \/ GetsRole(n, "DEPUTY")
         /\ cl[n].st = "joining" => GetsRole(n, "DEPUTY") /\ (GetsAck(n) \/ InSeat(n))
<1>1. ~GetsRole(n, "MASTER")
  BY ReignsGives DEF Reign, GetsRole
<1>2. /\ n # Creator /\ Engaged(n) /\ cl[n].peer = ServerAddr(Creator)
      /\ \/ cl[n].st = "playing" /\ (cl[n].role = "DEPUTY" \/ GetsRole(n, "DEPUTY"))
         \/ /\ cl[n].st = "joining" /\ GetsRole(n, "DEPUTY")
            /\ GetsAck(n) \/ InSeat(n)
  BY <1>1 DEF Heir, Engaged
<1>3. ListedAs(ServerAddr(n), srv[Creator].deputyId)
  BY ReignsGives DEF Reign
<1>4. Expected(Creator, n, srv[Creator].deputyId)
  BY <1>2, <1>3, ReignsGives, ListedExpected
<1> QED
  BY <1>2, <1>3, <1>4, AddrFields

LEMMA HeirStaysListed ==
  ASSUME Reigns, NEW n \in Node, Heir(n), Heir(n)'
  PROVE  ListedAs(ServerAddr(n), srv[Creator].deputyId)'
<1> DEFINE d == srv[Creator].deputyId
           J == srv[Creator].joining
<1>1. /\ n # Creator /\ Engaged(n) /\ ServerAddr(n) \in Addr
      /\ ListedAs(ServerAddr(n), d) /\ Expected(Creator, n, d)
      /\ cl[n].st = "playing" => cl[n].role = "DEPUTY" \/ GetsRole(n, "DEPUTY")
  BY ReignHeir
<1>2. srv'[Creator].deputyId = d
  BY <1>1, DeputyKept
<1>3. d \in Nat
  BY <1>1, ReignsGives, SoundGives DEF ListedAs
<1>4. SUFFICES \E k \in DOMAIN srv'[Creator].players :
                 /\ srv'[Creator].players[k].addr = ServerAddr(n)
                 /\ srv'[Creator].players[k].id = d
  BY <1>2 DEF ListedAs, ServerAddr
<1>5. CASE srv'[Creator].joining # NoJoin \/ J = NoJoin \/ J.id # d
  <2>1. PICK a \in Addr, i \in Nat : a = ServerAddr(n) /\ i = d
    BY <1>1, <1>3
  <2>2. ListedAs(a, i)'
    BY <1>1, <1>5, <2>1, EntryKept
  <2> QED
    BY <2>1, <2>2 DEF ListedAs
<1>6. CASE srv'[Creator].joining = NoJoin /\ J # NoJoin /\ J.id = d
  <2>1. InSeat(n)
    <3>1. JoiningAs(J.addr, d) /\ J.addr \in Addr
      BY <1>6, ReignsGives, SoundGives, TypesGive DEF JoiningAs
    <3>2. Holds(J.addr, d) /\ Holds(ServerAddr(n), d)
      BY <1>1, <3>1 DEF Holds
    <3>3. J.addr = ServerAddr(n)
      BY <1>1, <1>3, <3>1, <3>2, ReignsGives, SoundGives
    <3> QED
      BY <1>6, <3>3 DEF InSeat
  <2>2. /\ ~GetsAck(n)
        /\ GetsRole(n, "DEPUTY") => cl[n].st = "joining"
        /\ cl[n].st = "playing" => cl[n].role # "DEPUTY"
    BY <1>1, <2>1, ReignsGives DEF Reign, Seated
  <2>3. CreatorAnswers
    BY <1>6, ReignsGives, CreatorSteps
    DEF SameServer, CreatorLists, CreatorAppoints, CreatorRemoves
  <2>4. SameClient(n) /\ cl[n].st = "joining"
    BY <1>1, <2>2, <2>3, ReignsGives, SoundGives, OnlyOne DEF CreatorAnswers, Engaged
  <2>5. GetsAck(n)'
    <3>1. ~GetsRole(n, "MASTER")'
      BY ReignRoles DEF GetsRole, ServerAddr
    <3>2. ~InSeat(n)'
      BY <1>6 DEF InSeat, NoJoin, ServerAddr
    <3>3. cl'[n].st = "joining"
      BY <2>4 DEF SameClient
    <3> QED
      BY <3>1, <3>2, <3>3 DEF Heir
  <2>6. CASE srv'[Creator].players = srv[Creator].players
    BY <1>1, <2>6 DEF ListedAs
  <2>7. CASE net' \subseteq net \cup {ErrorMsg(ServerAddr(Creator), J.addr)}
    <3>1. PICK m \in net' : m.type = "Ack" /\ m.src = ServerAddr(Creator) /\ m.dst = ServerAddr(n)
      BY <2>5 DEF GetsAck, ServerAddr
    <3>2. m \in net
      BY <2>7, <3>1 DEF ErrorMsg
    <3> QED
      BY <2>2, <3>1, <3>2 DEF GetsAck
  <2> QED
    BY <2>3, <2>6, <2>7 DEF CreatorAnswers
<1> QED
  BY <1>5, <1>6

LEMMA NewHeirListed ==
  ASSUME Reigns, NEW n \in Node, ~Heir(n), Heir(n)'
  PROVE  ListedAs(ServerAddr(n), srv[Creator].deputyId)'
<1>1. /\ n # Creator /\ cl'[n].peer = ServerAddr(Creator)
      /\ cl'[n].st \in {"joining", "playing"} /\ Engaged(n)'
  BY DEF Heir, Engaged, ServerAddr
<1>2. ~GetsRole(n, "MASTER")'
  BY ReignRoles DEF GetsRole, ServerAddr
<1>3. Engaged(n) \/ cl[n].st = "idle"
  BY <1>1, EngagedBefore
<1> SUFFICES ASSUME GetsRole(n, "DEPUTY")' => GetsRole(n, "DEPUTY")
             PROVE  FALSE
  BY DeputyComes
<1>4. CASE cl[n].st = "idle"
  <2>1. cl'[n].st = "joining"
    BY <1>1, <1>4, ReignsGives, ClientSteps DEF SameClient, Begins, ClientEnds
  <2>2. GetsRole(n, "DEPUTY")
    BY <1>2, <2>1 DEF Heir
  <2> QED
    BY <1>4, <2>2, ReignsGives, AddrFields DEF GetsRole, Strangers
<1>5. CASE Engaged(n) /\ cl[n].st = "playing"
  <2>1. cl[n].role # "DEPUTY" /\ ~GetsRole(n, "DEPUTY")
    BY <1>1, <1>5 DEF Heir, Engaged
  <2>2. cl'[n].st = "playing"
    BY <1>1, <1>5, ReignsGives, ClientSteps DEF SameClient, ClientEnds, Begins, Follows
  <2>3. cl'[n].role = "DEPUTY"
    BY <1>2, <2>1, <2>2 DEF Heir
  <2>4. \E m \in net : /\ m.type = "RoleChange" /\ m.role = "DEPUTY"
                       /\ m.src = cl[n].peer /\ m.dst = ServerAddr(n)
    BY <1>5, <2>1, <2>3, ReignsGives, ClientSteps DEF SameClient, ClientEnds, Begins, Follows
  <2> QED
    BY <1>5, <2>1, <2>4 DEF Engaged, GetsRole
<1>6. CASE Engaged(n) /\ cl[n].st = "joining"
  <2>1. ~(GetsRole(n, "DEPUTY") /\ (GetsAck(n) \/ InSeat(n)))
    BY <1>1, <1>6 DEF Heir, Engaged
  <2>2. CASE cl'[n].st = "playing"
    <3>1. /\ cl'[n].role = cl[n].role
          /\ GetsAck(n) \/ (GetsRole(n, "DEPUTY") /\ ~GetsRole(n, "DEPUTY")')
      BY <1>1, <1>6, <2>2, AckTaken
    <3>2. cl'[n].role # "DEPUTY"
      BY <1>6, <3>1, ReignsGives DEF Masters
    <3>3. GetsRole(n, "DEPUTY")'
      BY <1>2, <2>2, <3>2 DEF Heir
    <3> QED
      BY <2>1, <3>1, <3>3
  <2>3. CASE cl'[n].st = "joining"
    <3>1. GetsRole(n, "DEPUTY")' /\ (GetsAck(n)' \/ InSeat(n)')
      BY <1>2, <2>3 DEF Heir
    <3>2. \A m \in net : ~(CreatorLists(m) /\ m.src = ServerAddr(n))
      BY <1>1, <3>1, NewSeat
    <3>3. GetsAck(n) \/ InSeat(n)
      BY <3>1, <3>2, AckComes, SeatComes
    <3> QED
      BY <2>1, <3>1, <3>3
  <2> QED
    BY <1>1, <2>2, <2>3
<1> QED
  BY <1>3, <1>4, <1>5, <1>6 DEF Engaged

LEMMA ReignNext ==
  ASSUME Reigns
  PROVE  Reign'
<1>1. \A m \in net' : m.type = "RoleChange" /\ m.src = ServerAddr(Creator) => m.role = "DEPUTY"
  BY ReignRoles
<1>2. \A n \in Node : Heir(n)' => ListedAs(ServerAddr(n), srv[Creator].deputyId)'
  BY HeirStaysListed, NewHeirListed
<1>3. \A n \in Node \ {Creator} : Seated(n)'
  BY ReignSeated
<1> QED
  BY <1>1, <1>2, <1>3, ReignNoOther, ReignSteady DEF Reign, ServerAddr

-----------------------------------------------------------------------------
(* The end of the creator's reign *)

(* Who begins while there is no other master is an heir of the creator. *)
LEMMA HeirBegins ==
  ASSUME Sound, NoOther, [Next]_vars, NEW n \in Node, n # Creator, Begins(n)
  PROVE  Heir(n)
<1>1. Types /\ Alone /\ cl[n].st = "playing" /\ cl[n].role # "MASTER"
  BY DEF Sound, Begins, NoOther
<1>2. /\ \A k \in Node : cl[k].role = "DEPUTY" => cl[k].peer = ServerAddr(Creator)
      /\ \A m \in net : m.type = "RoleChange" /\ m.role # "VIEWER" => m.src = ServerAddr(Creator)
  BY <1>1 DEF Alone
<1>3. \/ cl[n].role = "DEPUTY"
      \/ \E m \in net : /\ m.type = "RoleChange" /\ m.role = "MASTER" /\ m.src = cl[n].peer
                        /\ m.dst = ServerAddr(n)
  BY <1>1, ClientSteps DEF SameClient, ClientEnds, Follows, Begins
<1> QED
  BY <1>1, <1>2, <1>3 DEF Heir, GetsRole

(* When the creator's server is gone nobody becomes an heir but the deputy   *)
(* that it told on its way out.                                             *)
LEMMA SaidLast ==
  ASSUME Sound, [Next]_vars, ~srv'[Creator].up, NEW n \in Node
  PROVE  /\ GetsAck(n)' => GetsAck(n)
         /\ InSeat(n)' => InSeat(n)
         /\ GetsRole(n, "DEPUTY")' => GetsRole(n, "DEPUTY")
         /\ GetsRole(n, "MASTER")' =>
              \/ GetsRole(n, "MASTER")
              \/ srv[Creator].up /\ ListedAs(ServerAddr(n), srv[Creator].deputyId)
<1>1. Types /\ Creator \in Node
  BY SessionAssumption DEF Sound
<1>2. ASSUME NEW m \in net', m \notin net, m.type = "Ack", m.src = ServerAddr(Creator)
      PROVE  FALSE
  <2>1. PICK k \in Node : SendsAck(k, m)
    BY <1>1, <1>2, SentOrigin, SentByType
  <2>2. k = Creator
    BY <1>2, <2>1 DEF SendsAck, ServerAddr
  <2> QED
    BY <1>1, <2>1, <2>2, FinishJoinDoes DEF SendsAck, Listing
<1>3. ASSUME NEW m \in net', m \notin net, m.type = "RoleChange", m.role = "DEPUTY",
             m.src = ServerAddr(Creator)
      PROVE  FALSE
  <2>1. PICK k \in Node : SendsDeputy(k, m)
    BY <1>1, <1>3, SentOrigin, SentByType DEF SendsLeave, SendsMaster
  <2>2. k = Creator
    BY <1>3, <2>1 DEF SendsDeputy, ServerAddr
  <2> QED
    BY <1>1, <2>1, <2>2, AppointDoes DEF SendsDeputy
<1>4. ASSUME NEW m \in net', m \notin net, m.type = "RoleChange", m.role = "MASTER",
             m.src = ServerAddr(Creator), m.dst = ServerAddr(n)
      PROVE  srv[Creator].up /\ ListedAs(ServerAddr(n), srv[Creator].deputyId)
  <2>1. PICK k \in Node : SendsMaster(k, m)
    BY <1>1, <1>4, SentOrigin, SentByType DEF SendsLeave, SendsDeputy
  <2>2. k = Creator
    BY <1>4, <2>1 DEF SendsMaster, ServerAddr
  <2> QED
    BY <1>4, <2>1, <2>2 DEF SendsMaster, ListedAs
<1>5. srv'[Creator] = NoServer \/ SameServer(Creator)
  <2>1. CASE \E m \in net : HandleJoin(Creator, m)
    BY <1>1, <2>1, HandleJoinDoes DEF Listing
  <2>2. CASE FinishJoin(Creator)
    BY <1>1, <2>2, FinishJoinDoes
  <2>3. CASE Appoint(Creator)
    BY <1>1, <2>3, AppointDoes
  <2>4. CASE \E id : RemoveSilent(Creator, id)
    BY <1>1, <2>4, RemoveSilentDoes
  <2>5. CASE \E m \in net : HandleLeaver(Creator, m)
    BY <1>1, <2>5, HandleLeaverDoes
  <2>6. CASE Begins(Creator)
    BY <1>1, <2>6, ServerFromFields DEF Begins
  <2> QED
    BY <1>1, <2>1, <2>2, <2>3, <2>4, <2>5, <2>6, ServerOrigin DEF ServerChanges
<1>6. InSeat(n)' => InSeat(n)
  BY <1>5 DEF InSeat, SameServer, NoServer, NoJoin, ServerAddr
<1> QED
  BY <1>2, <1>3, <1>4, <1>6 DEF GetsAck, GetsRole, ServerAddr

LEMMA HeirBefore ==
  ASSUME Sound, [Next]_vars, ~srv'[Creator].up, NEW n \in Node, Heir(n)'
  PROVE  \/ Heir(n)
         \/ srv[Creator].up /\ ListedAs(ServerAddr(n), srv[Creator].deputyId)
<1> SUFFICES ASSUME ~(srv[Creator].up /\ ListedAs(ServerAddr(n), srv[Creator].deputyId))
             PROVE  Heir(n)
  OBVIOUS
<1>1. /\ Types /\ Founder /\ Masters /\ Seats /\ Creator \in Node
  BY SessionAssumption DEF Sound
<1>2. /\ n # Creator /\ cl'[n].peer = ServerAddr(Creator)
      /\ \/ /\ cl'[n].st = "playing"
            /\ cl'[n].role = "DEPUTY" \/ GetsRole(n, "DEPUTY")' \/ GetsRole(n, "MASTER")'
         \/ /\ cl'[n].st = "joining"
            /\ \/ GetsRole(n, "MASTER")'
               \/ GetsRole(n, "DEPUTY")' /\ (GetsAck(n)' \/ InSeat(n)')
  BY DEF Heir, ServerAddr
<1>3. /\ GetsAck(n)' => GetsAck(n)
      /\ InSeat(n)' => InSeat(n)
      /\ GetsRole(n, "DEPUTY")' => GetsRole(n, "DEPUTY")
      /\ GetsRole(n, "MASTER")' => GetsRole(n, "MASTER")
  BY SaidLast
<1>4. ~Follows(n) /\ ~Begins(n) /\ ~ClientEnds(n)
  <2>1. ~Follows(n)
    BY <1>1, <1>2, ListsOfServer, EntryOf DEF Follows, Founder
  <2> QED
    BY <1>2, <2>1 DEF Begins, ClientEnds, ServerAddr
<1>5. CASE SameClient(n)
  BY <1>2, <1>3, <1>5 DEF SameClient, Heir
<1>6. ASSUME NEW k \in Node, Join(n, k), srv[k].up, cl'[n].peer = ServerAddr(k)
      PROVE  FALSE
  <2>1. k = Creator
    BY <1>2, <1>6 DEF ServerAddr
  <2>2. SameServer(Creator)
    BY <1>1, <1>2, <1>6, JoinDoes, OnlyOne
  <2> QED
    BY <1>6, <2>1, <2>2 DEF SameServer
<1>7. CASE /\ cl[n].st = "joining" /\ cl'[n].st = "playing"
           /\ cl'[n].role = cl[n].role /\ cl'[n].peer = cl[n].peer
           /\ \E m \in net : /\ m.type \in {"Ack", "RoleChange"} /\ m.src = cl[n].peer
                             /\ m.dst = ServerAddr(n) /\ net' = net \ {m}
  <2>1. PICK m \in net : /\ m.type \in {"Ack", "RoleChange"} /\ m.src = ServerAddr(Creator)
                         /\ m.dst = ServerAddr(n) /\ net' = net \ {m}
    BY <1>2, <1>7
  <2>2. cl'[n].role # "DEPUTY"
    BY <1>1, <1>7 DEF Masters
  <2>3. CASE GetsRole(n, "MASTER")
    BY <1>2, <1>7, <2>3 DEF Heir
  <2>4. CASE GetsRole(n, "DEPUTY")' /\ m.type = "Ack"
    BY <1>2, <1>3, <1>7, <2>1, <2>4 DEF Heir, GetsAck
  <2>5. CASE GetsRole(n, "DEPUTY")' /\ m.type = "RoleChange" /\ ~GetsRole(n, "MASTER")
    <3>1. PICK x \in net' : /\ x.type = "RoleChange" /\ x.role = "DEPUTY"
                            /\ x.src = ServerAddr(Creator) /\ x.dst = ServerAddr(n)
      BY <2>5 DEF GetsRole, ServerAddr
    <3>2. m.role = "DEPUTY"
      <4>1. m.role \in {"DEPUTY", "MASTER", "VIEWER"}
        BY <1>1, <2>5, MessageFields DEF Types
      <4> QED
        BY <1>1, <2>1, <2>5, <4>1 DEF GetsRole, Seats, OnlyPromotes
    <3>3. x \in net /\ x # m
      BY <2>1, <3>1
    <3> QED
      BY <1>1, <2>1, <2>5, <3>1, <3>2, <3>3 DEF Seats, ToldOnce, ToldDeputy
  <2> QED
    BY <1>2, <1>3, <1>7, <2>1, <2>2, <2>3, <2>4, <2>5
<1>8. CASE /\ cl[n].st = "playing" /\ cl'[n].st = "playing"
           /\ cl'[n].role = cl[n].role /\ cl'[n].peer = cl[n].peer
  BY <1>2, <1>3, <1>8 DEF Heir
<1>9. CASE /\ cl[n].st = "playing" /\ cl'[n].peer = cl[n].peer
           /\ \E m \in net :
                /\ m.type = "RoleChange" /\ m.role = "DEPUTY" /\ m.src = cl[n].peer
                /\ m.dst = ServerAddr(n)
  BY <1>2, <1>9 DEF Heir, GetsRole
<1> QED
  BY <1>1, <1>4, <1>5, <1>6, <1>7, <1>8, <1>9, ClientSteps

(* A list with ascending ids has one entry for the deputy. *)
OneHeirNow == \A n, k \in Node : Heir(n) /\ Heir(k) => n = k

LEMMA ListedOnce ==
  ASSUME Types, NewIds, srv[Creator].up, NEW n, NEW k, NEW i,
         ListedAs(ServerAddr(n), i), ListedAs(ServerAddr(k), i)
  PROVE  n = k
<1>1. Creator \in Node /\ srv[Creator].players \in Seq(PlayerType)
  BY SessionAssumption, TypesGive
<1>2. PICK a \in DOMAIN srv[Creator].players :
        srv[Creator].players[a].addr = ServerAddr(n) /\ srv[Creator].players[a].id = i
  BY DEF ListedAs
<1>3. PICK b \in DOMAIN srv[Creator].players :
        srv[Creator].players[b].addr = ServerAddr(k) /\ srv[Creator].players[b].id = i
  BY DEF ListedAs
<1>4. DistinctIds(srv[Creator].players)
  BY <1>1, AscendingDistinct DEF NewIds
<1>5. a = b
  BY <1>2, <1>3, <1>4 DEF DistinctIds
<1> QED
  BY <1>2, <1>3, <1>5 DEF ServerAddr

LEMMA HeirsOne == Types /\ NewIds /\ Reign /\ srv[Creator].up => OneHeirNow
BY ListedOnce DEF Reign, OneHeirNow

LEMMA HeirsOneNext == (Types /\ NewIds /\ Reign /\ srv[Creator].up)' => OneHeirNow'
BY HeirsOne, PTL

LEMMA CalmBefore ==
  ASSUME Types, [Next]_vars, Calm'
  PROVE  Calm
BY MishapsStay DEF Calm

LEMMA HeirsInit == Init => Heirs
<1> SUFFICES ASSUME Init  PROVE Heirs
  OBVIOUS
<1> DEFINE p == Player(0, <<Creator, 2>>, "MASTER")
<1>1. /\ net = {} /\ srv[Creator].players = <<p>> /\ srv[Creator].deputyId = -1
      /\ srv[Creator].joining = NoJoin /\ p.id = 0
      /\ \A n \in Node : n # Creator => cl[n].role = "NORMAL"
  BY SessionAssumption DEF Init, NoServer, NewClient, Player
<1>2. NoOther
  BY <1>1 DEF NoOther
<1>3. \A n \in Node : ~Heir(n)
  BY <1>1 DEF Heir, GetsRole
<1>4. Steady
  BY <1>1 DEF Steady
<1>5. \A n \in Node : Seated(n)
  BY <1>1 DEF Seated, InSeat
<1> QED
  BY <1>1, <1>2, <1>3, <1>4, <1>5 DEF Heirs, Reign

LEMMA HeirsNext ==
  ASSUME Sound, Heirs, ~LatePings, [Next]_vars
  PROVE  Heirs'
<1> SUFFICES ASSUME Calm'
             PROVE  /\ srv'[Creator].up => Reign'
                    /\ OneHeirNow'
                    /\ \A n \in Node : Heir(n)' => NoOther'
  BY DEF Heirs, OneHeirNow
<1>1. /\ Types /\ Founder /\ NewIds /\ Strangers /\ Masters
      /\ Types' /\ Founder' /\ NewIds'
  BY TypesNext, FounderNext, NewIdsNext DEF Sound
<1>2. /\ srv[Creator].up => Reign
      /\ \A n, k \in Node : Heir(n) /\ Heir(k) => n = k
      /\ \A n \in Node : Heir(n) => NoOther
  BY <1>1, CalmBefore DEF Heirs
<1>3. CASE srv'[Creator].up
  <2>1. Reigns
    BY <1>1, <1>2, <1>3, CreatorStays DEF Reigns
  <2>2. Reign'
    BY <2>1, ReignNext
  <2>3. OneHeirNow'
    BY <1>1, <1>3, <2>2, HeirsOneNext
  <2> QED
    BY <2>2, <2>3 DEF Reign
<1>4. CASE ~srv'[Creator].up
  <2>1. \A n \in Node :
          Heir(n)' => \/ Heir(n)
                      \/ srv[Creator].up /\ ListedAs(ServerAddr(n), srv[Creator].deputyId)
    BY <1>4, HeirBefore
  <2>2. OneHeirNow'
    <3>1. CASE srv[Creator].up
      <4>1. \A n \in Node : Heir(n)' => ListedAs(ServerAddr(n), srv[Creator].deputyId)
        BY <1>2, <2>1, <3>1 DEF Reign
      <4> QED
        BY <1>1, <3>1, <4>1, ListedOnce DEF OneHeirNow
    <3>2. CASE ~srv[Creator].up
      BY <1>2, <2>1, <3>2 DEF OneHeirNow
    <3> QED
      BY <3>1, <3>2
  <2>3. ASSUME NEW n \in Node, Heir(n)'  PROVE NoOther'
    <3>1. NoOther
      BY <1>2, <2>1, <2>3 DEF Reign
    <3>2. ASSUME NEW k \in Node, k # Creator, Begins(k)  PROVE FALSE
      <4>1. ~srv[Creator].up
        BY <1>2, <3>2, NobodyBegins
      <4>2. Heir(k) /\ Heir(n)
        BY <2>1, <2>3, <3>1, <3>2, <4>1, HeirBegins
      <4>3. n = k
        BY <1>2, <4>2
      <4> QED
        BY <2>3, <3>2, <4>3 DEF Heir, Begins, ServerAddr
    <3>3. ASSUME NEW k \in Node, k # Creator  PROVE cl'[k].role # "MASTER"
      BY <1>1, <3>1, <3>2, <3>3, ClientSteps
      DEF NoOther, SameClient, ClientEnds, Follows
    <3> QED
      BY <3>3 DEF NoOther
  <2> QED
    BY <1>4, <2>2, <2>3
<1> QED
  BY <1>3, <1>4

LEMMA HeirsAlways == Spec => [](Sound /\ (~LatePings => Heirs))
<1> DEFINE I == Sound /\ (~LatePings => Heirs)
<1>1. Init => I
  BY TypesInit, StrangersInit, FounderInit, NewIdsInit, NamedInit, MastersInit, AloneInit,
     SeatsInit, HeirsInit DEF Sound
<1>2. Sound /\ [Next]_vars => Sound'
  BY TypesNext, StrangersNext, FounderNext, NewIdsNext, NamedNext, MastersNext, AloneNext,
     SeatsNext DEF Sound
<1>3. I /\ [Next]_vars => I'
  <2>1. Sound /\ Heirs /\ ~LatePings /\ [Next]_vars => Heirs'
    BY HeirsNext
  <2>2. (~LatePings)' <=> ~LatePings
    OBVIOUS
  <2> QED
    BY <1>2, <2>1, <2>2
<1> QED
  BY <1>1, <1>3, PTL DEF Spec

(* Of all that lose the creator of the game, or think so, one at most takes   *)
(* over, when heartbeats are in time and no server has made viewers of its   *)
(* players: OneHeir, because whoever could is the one entry of the creator's  *)
(* list that it has for its deputy.                                          *)
THEOREM OneTakesOver ==
  ASSUME ~LatePings
  PROVE  Spec => OneHeir
<1> DEFINE I == Sound /\ (~LatePings => Heirs)
           A == \A n \in Node :
                  /\ ~srv[n].up /\ srv'[n].up /\ cl[n].peer = ServerAddr(Creator)
                  /\ "all viewers" \notin mishaps
                  => \A k \in Node : ~srv[k].up /\ (k # Creator => cl[k].role # "MASTER")
<1>1. I /\ [Next]_vars => [A]_vars
  <2> SUFFICES ASSUME Sound, Heirs, [Next]_vars, Calm,
                      NEW n \in Node, ~srv[n].up, srv'[n].up, cl[n].peer = ServerAddr(Creator),
                      NEW k \in Node
               PROVE  ~srv[k].up /\ (k # Creator => cl[k].role # "MASTER")
    BY DEF Calm
  <2>1. /\ Types /\ Founder /\ Masters
        /\ srv[Creator].up => Reign
        /\ \A x \in Node : Heir(x) => NoOther
    BY DEF Sound, Heirs
  <2>2. Begins(n)
    BY <2>1, UpBefore
  <2>3. n # Creator
    BY <2>1, <2>2 DEF Founder, Begins, Ended
  <2>4. ~srv[Creator].up
    BY <2>1, <2>2, NobodyBegins
  <2>5. Heir(n)
    <3>1. \/ cl[n].role = "DEPUTY"
          \/ \E m \in net : /\ m.type = "RoleChange" /\ m.role = "MASTER" /\ m.src = cl[n].peer
                            /\ m.dst = ServerAddr(n)
      <4>1. cl[n].role # "MASTER"
        BY <2>1, <2>2 DEF Masters, Begins, Ended
      <4> QED
        BY <2>1, <2>2, <4>1, ClientSteps DEF SameClient, ClientEnds, Follows, Begins
    <3> QED
      BY <2>2, <2>3, <3>1 DEF Heir, GetsRole, Begins
  <2>6. NoOther
    BY <2>1, <2>5
  <2> QED
    BY <2>1, <2>4, <2>6 DEF Masters, NoOther
<1>2. Spec => []I /\ [][Next]_vars
  BY HeirsAlways, PTL DEF Spec
<1> QED
  BY <1>1, <1>2, PTL DEF OneHeir

(* No two living clients of the creator's game both think themselves its     *)
(* deputy: OneDeputy, because both would be its heirs.                       *)
THEOREM DeputiesAreOne ==
  ASSUME ~LatePings
  PROVE  Spec => []OneDeputy
<1>1. Sound /\ (~LatePings => Heirs) => OneDeputy
  <2> SUFFICES ASSUME Sound, Heirs, Calm,
                      NEW n \in Node, Playing(n), cl[n].role = "DEPUTY",
                      cl[n].peer = ServerAddr(Creator),
                      NEW k \in Node, Playing(k), cl[k].role = "DEPUTY",
                      cl[k].peer = ServerAddr(Creator)
               PROVE  n = k
    BY DEF OneDeputy, Calm
  <2>1. n # Creator /\ k # Creator
    BY DEF Sound, Masters
  <2> QED
    BY <2>1 DEF Heirs, Heir, Playing
<1> QED
  BY <1>1, HeirsAlways, PTL
=============================================================================
