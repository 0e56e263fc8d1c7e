---------------------------- MODULE LobbyProofs ----------------------------
(***************************************************************************)
(* Proofs about the list of announced games and the window that shows it,  *)
(* for any games, any times and any announcements that are lost.           *)
(***************************************************************************)
EXTENDS Lobby, FiniteSetTheorems, SequenceTheorems, TLAPS

-----------------------------------------------------------------------------
(* Filtered lists *)

(* Rank numbers the positions of a set, in order. *)
LEMMA RankFacts ==
  ASSUME NEW n \in Nat, NEW keep \in SUBSET (1 .. n)
  PROVE  /\ IsFiniteSet(keep) /\ Cardinality(keep) \in Nat
         /\ \A i \in keep : Rank(keep, i) \in 1 .. Cardinality(keep)
         /\ \A i, j \in keep : i < j => Rank(keep, i) < Rank(keep, j)
         /\ \A k \in 1 .. Cardinality(keep) : \E i \in keep : Rank(keep, i) = k
<1> DEFINE UpTo(i) == {j \in keep : j <= i}
           f == [i \in keep |-> Rank(keep, i)]
           N == 1 .. Cardinality(keep)
<1>1. IsFiniteSet(1 .. n)
  BY FS_Interval
<1>2. IsFiniteSet(keep) /\ Cardinality(keep) \in Nat
  BY <1>1, FS_Subset, FS_CardinalityType
<1>3. ASSUME NEW i \in keep
      PROVE  /\ IsFiniteSet(UpTo(i)) /\ Cardinality(UpTo(i)) \in Nat
             /\ Cardinality(UpTo(i)) <= Cardinality(keep)
             /\ Cardinality(UpTo(i)) # 0
  <2>1. UpTo(i) \subseteq keep /\ i \in UpTo(i)
    OBVIOUS
  <2> QED
    BY <2>1, <1>2, FS_Subset, FS_CardinalityType, FS_EmptySet
<1>4. \A i \in keep : Rank(keep, i) \in N
  <2> TAKE i \in keep
  <2>1. Rank(keep, i) = Cardinality(UpTo(i))
    BY DEF Rank
  <2>2. Cardinality(UpTo(i)) \in Nat /\ Cardinality(UpTo(i)) # 0
        /\ Cardinality(UpTo(i)) <= Cardinality(keep)
    BY <1>3
  <2> HIDE DEF UpTo
  <2> QED
    BY <2>1, <2>2, <1>2
<1>5. ASSUME NEW i \in keep, NEW j \in keep, i < j
      PROVE  Rank(keep, i) < Rank(keep, j)
  <2>0. i \in Int /\ j \in Int /\ \A y \in keep : y \in Int
    OBVIOUS
  <2>1. UpTo(i) \subseteq UpTo(j)
    <3>1. \A y \in keep : y <= i => y <= j
      BY <1>5, <2>0
    <3> QED
      BY <3>1
  <2>11. j \in UpTo(j) /\ j \notin UpTo(i)
    BY <1>5, <2>0
  <2>2. UpTo(i) # UpTo(j)
    BY <2>11
  <2>3. /\ Cardinality(UpTo(i)) <= Cardinality(UpTo(j))
        /\ Cardinality(UpTo(i)) # Cardinality(UpTo(j))
    BY <2>1, <2>2, <1>3, FS_Subset
  <2> QED
    BY <2>3, <1>3 DEF Rank
<1>6. f \in Injection(keep, N)
  <2>1. f \in [keep -> N]
    BY <1>4
  <2>2. \A i, j \in keep : f[i] = f[j] => i = j
    <3> SUFFICES ASSUME NEW i \in keep, NEW j \in keep, i # j  PROVE f[i] # f[j]
      OBVIOUS
    <3>1. i < j \/ j < i
      OBVIOUS
    <3>2. Rank(keep, i) < Rank(keep, j) \/ Rank(keep, j) < Rank(keep, i)
      BY <3>1, <1>5
    <3> QED
      BY <3>2, <1>4
  <2> QED
    BY <2>1, <2>2 DEF Injection, IsInjective
<1>7. IsFiniteSet(N) /\ Cardinality(N) = Cardinality(keep)
  BY <1>2, FS_Interval
<1>8. f \in Surjection(keep, N)
  BY <1>6, <1>7, FS_Injection
<1>9. \A k \in N : \E i \in keep : Rank(keep, i) = k
  BY <1>8 DEF Surjection
<1> QED
  BY <1>2, <1>4, <1>5, <1>9

(* The list t is made of the entries of s at the positions in keep, in      *)
(* order; what is kept at its front stays where it is.                      *)
Picks(t, s, keep) ==
  \E f \in [DOMAIN t -> keep] :
    /\ \A k \in DOMAIN t : t[k] = s[f[k]]
    /\ \A j, k \in DOMAIN t : j < k => f[j] < f[k]
    /\ \A i \in keep : \E k \in DOMAIN t : f[k] = i

(* EntriesAt keeps the entries it is told to, in order, and no other. *)
LEMMA EntriesAtFacts ==
  ASSUME NEW S, NEW s \in Seq(S), NEW keep \in SUBSET DOMAIN s
  PROVE  /\ EntriesAt(s, keep) \in Seq(S)
         /\ Picks(EntriesAt(s, keep), s, keep)
<1> DEFINE D == 1 .. Cardinality(keep)
           f == [k \in D |-> CHOOSE i \in keep : Rank(keep, i) = k]
           t == EntriesAt(s, keep)
<1>1. /\ Len(s) \in Nat /\ DOMAIN s = 1 .. Len(s)
      /\ \A i \in DOMAIN s : s[i] \in S
  BY ElementOfSeq, LenProperties
<1>2. /\ Cardinality(keep) \in Nat
      /\ \A i \in keep : Rank(keep, i) \in D
      /\ \A i, j \in keep : i < j => Rank(keep, i) < Rank(keep, j)
      /\ \A k \in D : \E i \in keep : Rank(keep, i) = k
  BY <1>1, RankFacts
<1>3. \A k \in D : f[k] \in keep /\ Rank(keep, f[k]) = k
  BY <1>2
<1>4. t = [k \in D |-> s[f[k]]]
  BY DEF EntriesAt
<1> HIDE DEF f
<1>5. t \in [D -> S] /\ DOMAIN t = D
  BY <1>1, <1>3, <1>4
<1>6. t \in Seq(S)
  BY <1>2, <1>5, IsASeq
<1>7. ASSUME NEW j \in D, NEW k \in D, j < k  PROVE f[j] < f[k]
  <2>1. f[j] \in Int /\ f[k] \in Int
    BY <1>1, <1>3
  <2>2. ~(f[k] < f[j]) /\ f[k] # f[j]
    BY <1>2, <1>3, <1>7
  <2> QED
    BY <2>1, <2>2
<1>8. ASSUME NEW i \in keep  PROVE \E k \in D : f[k] = i
  <2> DEFINE k == Rank(keep, i)
  <2>1. k \in D /\ f[k] \in keep /\ Rank(keep, f[k]) = k
    BY <1>2, <1>3
  <2>2. f[k] \in Int /\ i \in Int
    BY <1>1, <2>1
  <2>3. ~(f[k] < i) /\ ~(i < f[k])
    <3>1. k \in Int /\ ~(k < k)
      BY <2>1
    <3> HIDE DEF k
    <3>2. Rank(keep, i) = k
      BY DEF k
    <3> QED
      BY <1>2, <2>1, <3>1, <3>2
  <2> QED
    BY <2>1, <2>2, <2>3
<1>9. f \in [D -> keep]
  <2>1. f = [k \in D |-> CHOOSE i \in keep : Rank(keep, i) = k]
    BY DEF f
  <2> QED
    BY <2>1, <1>3
<1>10. \A k \in D : t[k] = s[f[k]]
  BY <1>4
<1> HIDE DEF t
<1>11. Picks(t, s, keep)
  <2> HIDE DEF D
  <2> QED
    BY <1>5, <1>7, <1>8, <1>9, <1>10 DEF Picks
<1> QED
  BY <1>6, <1>11 DEF t

LEMMA FrontKept ==
  ASSUME NEW S, NEW s \in Seq(S), NEW keep \in SUBSET DOMAIN s,
         NEW n \in Nat, 1 .. n \subseteq keep
  PROVE  \A k \in 1 .. n : /\ k \in DOMAIN EntriesAt(s, keep)
                           /\ EntriesAt(s, keep)[k] = s[k]
<1> SUFFICES ASSUME NEW k \in 1 .. n
             PROVE  /\ k \in DOMAIN EntriesAt(s, keep)
                    /\ EntriesAt(s, keep)[k] = s[k]
  OBVIOUS
<1>1. Len(s) \in Nat /\ DOMAIN s = 1 .. Len(s)
  BY LenProperties
<1>2. /\ \A i \in keep : Rank(keep, i) \in 1 .. Cardinality(keep)
      /\ \A i, j \in keep : i < j => Rank(keep, i) < Rank(keep, j)
  BY <1>1, RankFacts
<1>3. k \in keep /\ k \in Nat
  OBVIOUS
<1>4. Rank(keep, k) = k
  <2>1. {j \in keep : j <= k} = 1 .. k
    BY <1>1
  <2>2. Cardinality(1 .. k) = k
    BY <1>3, FS_Interval
  <2> QED
    BY <2>1, <2>2 DEF Rank
<1>5. k \in 1 .. Cardinality(keep)
  BY <1>2, <1>3, <1>4
<1>6. ASSUME NEW i \in keep, Rank(keep, i) = k  PROVE i = k
  <2>1. i \in Int
    BY <1>1
  <2>2. ~(i < k) /\ ~(k < i)
    <3>1. ~(k < k)
      BY <1>3
    <3> QED
      BY <1>2, <1>3, <1>4, <1>6, <3>1
  <2> QED
    BY <1>3, <2>1, <2>2
<1>7. (CHOOSE i \in keep : Rank(keep, i) = k) = k
  BY <1>3, <1>4, <1>6
<1> QED
  BY <1>5, <1>7 DEF EntriesAt

-----------------------------------------------------------------------------
(* updateAnnouncements *)

Entry == [game : Game, age : 0 .. Wait + 1]

(* No game is in the list l twice. *)
Distinct(l) == \A i, j \in DOMAIN l : l[i].game = l[j].game => i = j

LEMMA ListLength ==
  ASSUME NEW l \in Seq(Entry)
  PROVE  /\ Len(l) \in Nat /\ DOMAIN l = 1 .. Len(l)
         /\ \A i \in DOMAIN l : /\ l[i] \in Entry /\ l[i].game \in Game
                                /\ l[i].age \in 0 .. Wait + 1
<1>1. Len(l) \in Nat /\ DOMAIN l = 1 .. Len(l)
  BY LenProperties
<1>2. \A i \in DOMAIN l : l[i] \in Entry
  BY <1>1, ElementOfSeq
<1> QED
  BY <1>1, <1>2 DEF Entry

(* What Heard does: the entries keep their places and games, the game heard *)
(* is in the list with no age, and only a new game makes it longer.         *)
LEMMA HeardFacts ==
  ASSUME NEW l \in Seq(Entry), NEW g \in Game
  PROVE  LET t == Heard(l, g) IN
         /\ t \in Seq(Entry)
         /\ \A i \in DOMAIN l : /\ i \in DOMAIN t /\ t[i].game = l[i].game
                                /\ t[i].age = IF l[i].game = g THEN 0 ELSE l[i].age
         /\ \A i \in DOMAIN t \ DOMAIN l :
              /\ t[i].game = g /\ t[i].age = 0
              /\ \A j \in DOMAIN t : t[j].game = g => j = i
         /\ \E i \in DOMAIN t : t[i].game = g
<1> DEFINE t == Heard(l, g)
           new == [game |-> g, age |-> 0]
<1>1. /\ Len(l) \in Nat /\ DOMAIN l = 1 .. Len(l)
      /\ \A i \in DOMAIN l : /\ l[i] \in Entry /\ l[i].game \in Game
                             /\ l[i].age \in 0 .. Wait + 1
  BY ListLength
<1>2. new \in Entry
  BY TimesAssumption DEF Entry
<1>3. CASE \E i \in 1 .. Len(l) : l[i].game = g
  <2>1. t = [i \in 1 .. Len(l) |-> IF l[i].game = g THEN [l[i] EXCEPT !.age = 0] ELSE l[i]]
    BY <1>3 DEF Heard
  <2>2. ASSUME NEW i \in DOMAIN l
        PROVE  /\ t[i] \in Entry /\ t[i].game = l[i].game
               /\ t[i].age = IF l[i].game = g THEN 0 ELSE l[i].age
    <3>1. [l[i] EXCEPT !.age = 0] = [game |-> l[i].game, age |-> 0]
      BY <1>1 DEF Entry
    <3> QED
      BY <1>1, <2>1, <3>1, TimesAssumption DEF Entry
  <2>3. DOMAIN t = DOMAIN l
    BY <1>1, <2>1
  <2>4. t \in Seq(Entry)
    <3>1. t \in [1 .. Len(l) -> Entry]
      BY <1>1, <2>1, <2>2
    <3> QED
      BY <1>1, <3>1, IsASeq
  <2> HIDE DEF t
  <2> QED
    BY <1>1, <1>3, <2>2, <2>3, <2>4 DEF t
<1>4. CASE ~(\E i \in 1 .. Len(l) : l[i].game = g)
  <2>1. t = Append(l, new)
    BY <1>4 DEF Heard
  <2> HIDE DEF new, t
  <2>2. /\ t \in Seq(Entry) /\ DOMAIN t = 1 .. Len(l) + 1 /\ t[Len(l) + 1] = new
        /\ \A i \in DOMAIN l : t[i] = l[i]
    BY <1>1, <1>2, <2>1, AppendProperties
  <2>3. new.game = g /\ new.age = 0
    BY DEF new
  <2>4. DOMAIN t \ DOMAIN l = {Len(l) + 1}
    BY <1>1, <2>2
  <2> QED
    BY <1>1, <1>4, <2>2, <2>3, <2>4 DEF t
<1> QED
  BY <1>3, <1>4

LEMMA HeardDistinct ==
  ASSUME NEW l \in Seq(Entry), NEW g \in Game, Distinct(l)
  PROVE  Distinct(Heard(l, g))
<1> DEFINE t == Heard(l, g)
<1>1. /\ \A i \in DOMAIN l : t[i].game = l[i].game
      /\ \A i \in DOMAIN t \ DOMAIN l :
           t[i].game = g /\ \A j \in DOMAIN t : t[j].game = g => j = i
  BY HeardFacts
<1> HIDE DEF t
<1>2. ASSUME NEW i \in DOMAIN t, NEW j \in DOMAIN t, t[i].game = t[j].game  PROVE i = j
  <2>1. CASE i \in DOMAIN l /\ j \in DOMAIN l
    BY <1>1, <1>2, <2>1 DEF Distinct
  <2>2. CASE i \notin DOMAIN l
    BY <1>1, <1>2, <2>2
  <2>3. CASE j \notin DOMAIN l
    BY <1>1, <1>2, <2>3
  <2> QED
    BY <2>1, <2>2, <2>3
<1> QED
  BY <1>2 DEF Distinct, t

LEMMA PickedDistinct ==
  ASSUME NEW l \in Seq(Entry), NEW keep \in SUBSET DOMAIN l, Distinct(l)
  PROVE  Distinct(EntriesAt(l, keep))
<1> DEFINE t == EntriesAt(l, keep)
<1>1. t \in Seq(Entry) /\ Picks(t, l, keep)
  BY EntriesAtFacts
<1>2. DOMAIN t = 1 .. Len(t) /\ Len(t) \in Nat
  BY <1>1, ListLength
<1> HIDE DEF t
<1>3. PICK f \in [DOMAIN t -> keep] :
        /\ \A k \in DOMAIN t : t[k] = l[f[k]]
        /\ \A j, k \in DOMAIN t : j < k => f[j] < f[k]
  BY <1>1 DEF Picks
<1>4. DOMAIN l = 1 .. Len(l) /\ Len(l) \in Nat
  BY ListLength
<1>5. ASSUME NEW i \in DOMAIN t, NEW j \in DOMAIN t, t[i].game = t[j].game  PROVE i = j
  <2>1. f[i] = f[j]
    BY <1>3, <1>5 DEF Distinct
  <2>2. ~(f[i] < f[j]) /\ ~(f[j] < f[i])
    <3>1. f[i] \in Int /\ f[j] \in Int
      BY <1>3, <1>4
    <3> QED
      BY <2>1, <3>1
  <2>3. ~(i < j) /\ ~(j < i)
    BY <1>3, <2>2
  <2> QED
    BY <1>2, <2>3
<1> QED
  BY <1>5 DEF Distinct, t

-----------------------------------------------------------------------------
(* The invariant *)

Types ==
  /\ server \in [Game -> {"new", "on", "off"}] /\ since \in [Game -> 0 .. Period]
  /\ list \in Seq(Entry) /\ listening \in BOOLEAN
  /\ rows \in Seq(Game) /\ removed \subseteq ToSet(rows) /\ selected \in Game \cup {None}
  /\ lost \in 0 .. MaxLost

(* The time of n rounds. *)
Rounds(n) == n * Period

(* While the listener runs, a listed game was started, and a running one is *)
(* no older than the rounds of the announcements that are lost and the time *)
(* since its server last sent.                                              *)
Heeded ==
  listening =>
    \A i \in DOMAIN list :
      /\ server[list[i].game] # "new"
      /\ server[list[i].game] = "on" => list[i].age <= Rounds(lost) + since[list[i].game]

(* The rows up to the first one that is removed are the front of the list. *)
Shown ==
  \A i \in DOMAIN rows :
    (\A j \in 1 .. i : rows[j] \notin removed) =>
      i \in DOMAIN list /\ list[i].game = rows[i]

LEMMA RoundFacts ==
  /\ Period \in Nat /\ Delay \in 0 .. Period /\ Delay \in Nat /\ Delay # 0
  /\ \A n \in Nat : /\ Rounds(n) \in Int /\ Rounds(n + 1) \in Int
                    /\ Rounds(n + 1) = Rounds(n) + Period
<1>1. /\ Period \in Nat /\ Delay \in 0 .. Period /\ Delay \in Nat /\ Delay # 0
  BY TimesAssumption DEF Period
<1>2. \A m \in Int, n \in Int : n * m \in Int /\ (n + 1) * m = n * m + m
  OBVIOUS
<1>3. \A n \in Nat : n + 1 \in Int /\ n \in Int /\ Period \in Int
  BY <1>1
<1> QED
  BY <1>1, <1>2, <1>3 DEF Rounds

(* The same of a state's clocks and of what it has lost.                    *)
LEMMA ClockFacts ==
  ASSUME NEW s \in [Game -> 0 .. Period], NEW n \in 0 .. MaxLost
  PROVE  /\ n \in Nat /\ Period \in Nat /\ Rounds(n) \in Int
         /\ n + 1 \in Nat /\ Rounds(n + 1) \in Int /\ Rounds(n + 1) = Rounds(n) + Period
         /\ \A g \in Game : s[g] \in Int /\ 0 <= s[g] /\ s[g] <= Period
<1>1. n \in Nat
  BY TimesAssumption
<1>2. \A g \in Game : s[g] \in 0 .. Period
  OBVIOUS
<1>3. Period \in Nat
  BY RoundFacts
<1> QED
  BY <1>1, <1>2, <1>3, RoundFacts

Inv == Types /\ Distinct(list) /\ Heeded /\ Shown

(* What an announcement of g does: it keeps the entries that have not       *)
(* expired, in their order, has g listed as just heard, and counts the rows *)
(* whose games expire as removed.                                           *)
LEMMA UpdateFacts ==
  ASSUME Types, Distinct(list), NEW g \in Game, Update(g)
  PROVE  /\ list' \in Seq(Entry) /\ Distinct(list')
         /\ removed' \subseteq ToSet(rows) /\ removed \subseteq removed'
         /\ \E k \in DOMAIN list' : list'[k].game = g
         /\ \A i \in DOMAIN list :
              Kept(list[i]) => \E k \in DOMAIN list' : list'[k].game = list[i].game
         /\ \A k \in DOMAIN list' :
              \/ list'[k].game = g /\ list'[k].age = 0
              \/ /\ list'[k].game # g
                 /\ \E i \in DOMAIN list : /\ list'[k].game = list[i].game
                                           /\ list'[k].age = list[i].age
         /\ \A i \in DOMAIN list :
              Kept(list[i]) \/ list[i].game \notin ToSet(rows) \/ list[i].game \in removed'
         /\ \A n \in Nat :
              (\A j \in 1 .. n : j \in DOMAIN list /\ Kept(list[j])) =>
                \A j \in 1 .. n : j \in DOMAIN list' /\ list'[j].game = list[j].game
<1> DEFINE keep == {i \in DOMAIN list : Kept(list[i])}
           t == EntriesAt(list, keep)
<1>1. list \in Seq(Entry) /\ keep \in SUBSET DOMAIN list
  BY DEF Types
<1>2. /\ list' = Heard(t, g)
      /\ removed' = removed \cup ({e.game : e \in ToSet(list) \ ToSet(t)} \cap ToSet(rows))
  BY DEF Update
<1>3. t \in Seq(Entry) /\ Picks(t, list, keep)
  BY <1>1, EntriesAtFacts
<1>4. Distinct(t)
  BY <1>1, PickedDistinct
<1>5. /\ \A k \in DOMAIN t : t[k] \in {list[i] : i \in keep}
      /\ \A i \in keep : \E k \in DOMAIN t : t[k] = list[i]
  <2> HIDE DEF t, keep
  <2> QED
    BY <1>3 DEF Picks
<1>6. /\ list' \in Seq(Entry)
      /\ \A i \in DOMAIN t : /\ i \in DOMAIN list' /\ list'[i].game = t[i].game
                             /\ list'[i].age = IF t[i].game = g THEN 0 ELSE t[i].age
      /\ \A i \in DOMAIN list' \ DOMAIN t : list'[i].game = g /\ list'[i].age = 0
      /\ \E i \in DOMAIN list' : list'[i].game = g
  <2> DEFINE u == Heard(t, g)
  <2> HIDE DEF t
  <2>1. /\ u \in Seq(Entry)
        /\ \A i \in DOMAIN t : /\ i \in DOMAIN u /\ u[i].game = t[i].game
                               /\ u[i].age = IF t[i].game = g THEN 0 ELSE t[i].age
        /\ \A i \in DOMAIN u \ DOMAIN t :
             /\ u[i].game = g /\ u[i].age = 0
             /\ \A j \in DOMAIN u : u[j].game = g => j = i
        /\ \E i \in DOMAIN u : u[i].game = g
    BY <1>3, HeardFacts
  <2>2. list' = u
    BY <1>2
  <2> HIDE DEF u
  <2> QED
    BY <2>1, <2>2
<1>7. Distinct(list')
  <2> HIDE DEF t
  <2> QED
    BY <1>2, <1>3, <1>4, HeardDistinct
<1>8. removed' \subseteq ToSet(rows) /\ removed \subseteq removed'
  BY <1>2 DEF Types
<1>9. \A i \in keep : \E k \in DOMAIN list' : list'[k].game = list[i].game
  <2> HIDE DEF t, keep
  <2> QED
    BY <1>5, <1>6
<1>10. ASSUME NEW k \in DOMAIN list'
       PROVE  \/ list'[k].game = g /\ list'[k].age = 0
              \/ /\ list'[k].game # g
                 /\ \E i \in DOMAIN list : /\ list'[k].game = list[i].game
                                           /\ list'[k].age = list[i].age
  <2>1. CASE k \in DOMAIN t
    <3>1. PICK i \in keep : t[k] = list[i]
      BY <1>5, <2>1
    <3>2. i \in DOMAIN list
      BY <1>1
    <3> HIDE DEF t, keep
    <3>3. list'[k].game = list[i].game
          /\ list'[k].age = IF t[k].game = g THEN 0 ELSE list[i].age
      BY <1>6, <2>1, <3>1
    <3> QED
      BY <2>1, <3>1, <3>2, <3>3
  <2>2. CASE k \notin DOMAIN t
    <3> HIDE DEF t, keep
    <3> QED
      BY <1>6, <2>2
  <2> QED
    BY <2>1, <2>2
<1>11. ASSUME NEW i \in DOMAIN list, ~Kept(list[i]), list[i].game \in ToSet(rows)
       PROVE  list[i].game \in removed'
  <2>1. list[i] \in ToSet(list)
    BY DEF ToSet
  <2>2. list[i] \notin ToSet(t)
    <3>1. \A k \in DOMAIN t : Kept(t[k])
      BY <1>5
    <3> HIDE DEF t, keep
    <3> QED
      BY <1>11, <3>1 DEF ToSet
  <2> HIDE DEF t, keep
  <2> QED
    BY <1>2, <1>11, <2>1, <2>2
<1>12. ASSUME NEW n \in Nat, \A j \in 1 .. n : j \in DOMAIN list /\ Kept(list[j]),
              NEW j \in 1 .. n
       PROVE  j \in DOMAIN list' /\ list'[j].game = list[j].game
  <2>1. 1 .. n \subseteq keep
    BY <1>12
  <2>2. \A k \in 1 .. n : k \in DOMAIN t /\ t[k] = list[k]
    <3> HIDE DEF keep
    <3> QED
      BY <1>1, <2>1, FrontKept
  <2> HIDE DEF t, keep
  <2> QED
    BY <1>6, <2>2
<1> QED
  BY <1>6, <1>7, <1>8, <1>9, <1>10, <1>11, <1>12

LEMMA InitInv == Init => Inv
<1> SUFFICES ASSUME Init  PROVE Inv
  OBVIOUS
<1>1. list = << >> /\ rows = << >> /\ removed = {}
  BY DEF Init
<1>2. list \in Seq(Entry) /\ rows \in Seq(Game) /\ DOMAIN list = {} /\ DOMAIN rows = {}
  BY <1>1
<1>3. Types
  BY <1>1, <1>2, TimesAssumption, RoundFacts DEF Init, Types
<1> QED
  BY <1>2, <1>3 DEF Inv, Distinct, Heeded, Shown

LEMMA EntriesTyped ==
  ASSUME Types
  PROVE  /\ Len(list) \in Nat /\ DOMAIN list = 1 .. Len(list)
         /\ Len(rows) \in Nat /\ DOMAIN rows = 1 .. Len(rows)
         /\ \A i \in DOMAIN list : /\ list[i] \in Entry /\ list[i].game \in Game
                                   /\ list[i].age \in 0 .. Wait + 1
         /\ \A i \in DOMAIN rows : rows[i] \in Game /\ rows[i] \in ToSet(rows)
<1>1. /\ Len(rows) \in Nat /\ DOMAIN rows = 1 .. Len(rows)
      /\ \A i \in DOMAIN rows : rows[i] \in Game
  BY LenProperties, ElementOfSeq DEF Types
<1> QED
  BY <1>1, ListLength DEF Types, ToSet

(* The steps that leave the list and the rows alone. *)
LEMMA QuietInv ==
  ASSUME Inv, Types', UNCHANGED <<list, rows, removed>>, listening' => listening,
         \A g \in Game :
           /\ server'[g] = "new" => server[g] = "new"
           /\ server'[g] = "on" =>
                \/ server[g] = "on" /\ Rounds(lost) + since[g] <= Rounds(lost') + since'[g]
                \/ server[g] = "new"
  PROVE  Inv'
<1>1. Distinct(list)' /\ Shown'
  BY DEF Inv, Distinct, Shown
<1>2. Heeded'
  <2> SUFFICES ASSUME listening', NEW i \in DOMAIN list'
               PROVE  /\ server'[list'[i].game] # "new"
                      /\ server'[list'[i].game] = "on" =>
                           list'[i].age <= Rounds(lost') + since'[list'[i].game]
    BY DEF Heeded
  <2> DEFINE g == list[i].game
  <2>1. /\ list' = list /\ i \in DOMAIN list /\ g \in Game /\ list[i].age \in Int
        /\ Rounds(lost) \in Int /\ Rounds(lost') \in Int
        /\ since[g] \in Int /\ since'[g] \in Int
    <3>1. list' = list /\ i \in DOMAIN list /\ g \in Game /\ list[i].age \in Int
      BY EntriesTyped DEF Inv
    <3>2. /\ since \in [Game -> 0 .. Period] /\ since' \in [Game -> 0 .. Period]
          /\ lost \in 0 .. MaxLost /\ lost' \in 0 .. MaxLost
      BY DEF Inv, Types
    <3> HIDE DEF g
    <3> QED
      BY <3>1, <3>2, ClockFacts
  <2>2. server[g] # "new" /\ (server[g] = "on" => list[i].age <= Rounds(lost) + since[g])
    BY <2>1 DEF Inv, Heeded
  <2>3. /\ server'[g] = "new" => server[g] = "new"
        /\ server'[g] = "on" =>
             \/ server[g] = "on" /\ Rounds(lost) + since[g] <= Rounds(lost') + since'[g]
             \/ server[g] = "new"
    BY <2>1
  <2> HIDE DEF g
  <2>4. server'[g] # "new"
        /\ (server'[g] = "on" => list[i].age <= Rounds(lost') + since'[g])
    BY <2>1, <2>2, <2>3
  <2> QED
    BY <2>1, <2>4 DEF g
<1> QED
  BY <1>1, <1>2 DEF Inv

LEMMA StartServerInv == ASSUME Inv, NEW g \in Game, StartServer(g)  PROVE Inv'
<1>1. Types'
  BY RoundFacts DEF Inv, Types, StartServer
<1>2. \A o \in Game : Rounds(lost) \in Int /\ since[o] \in Int
  BY ClockFacts DEF Inv, Types
<1> QED
  BY <1>1, <1>2, QuietInv DEF Inv, Types, StartServer

LEMMA StopServerInv == ASSUME Inv, NEW g \in Game, StopServer(g)  PROVE Inv'
<1>1. Types'
  <2>1. 0 \in 0 .. Period
    BY RoundFacts
  <2> QED
    BY <2>1 DEF Inv, Types, StopServer
<1>2. \A o \in Game : Rounds(lost) \in Int /\ since[o] \in Int
  BY ClockFacts DEF Inv, Types
<1> QED
  BY <1>1, <1>2, QuietInv DEF Inv, Types, StopServer

LEMMA ForeignInv == ASSUME Inv, Foreign  PROVE Inv'
<1>1. Types'
  BY DEF Inv, Types, Foreign
<1>2. \A o \in Game : /\ Rounds(lost) \in Int /\ since[o] \in Int
                      /\ server[o] \in {"new", "on", "off"}
  BY ClockFacts DEF Inv, Types
<1> QED
  BY <1>1, <1>2, QuietInv DEF Inv, Types, Foreign

LEMMA ClickInv == ASSUME Inv, NEW i \in 1 .. Len(rows), Click(i)  PROVE Inv'
<1>1. Types'
  <2>1. i <= Len(list) => list[i].game \in Game
    BY EntriesTyped DEF Inv
  <2> QED
    BY <2>1 DEF Inv, Types, Click
<1>2. \A o \in Game : /\ Rounds(lost) \in Int /\ since[o] \in Int
                      /\ server[o] \in {"new", "on", "off"}
  BY ClockFacts DEF Inv, Types
<1> QED
  BY <1>1, <1>2, QuietInv DEF Inv, Types, Click

LEMMA DrawInv == ASSUME Inv, Draw  PROVE Inv'
<1>1. Len(list) \in Nat /\ DOMAIN list = 1 .. Len(list)
      /\ \A i \in DOMAIN list : list[i].game \in Game
  BY EntriesTyped DEF Inv
<1>2. rows' = [i \in 1 .. Len(list) |-> list[i].game] /\ removed' = {} /\ list' = list
  BY DEF Draw, Games
<1>3. rows' \in Seq(Game)
  <2>1. rows' \in [1 .. Len(list) -> Game]
    BY <1>1, <1>2
  <2> QED
    BY <1>1, <2>1, IsASeq
<1>4. Types'
  BY <1>2, <1>3 DEF Inv, Types, Draw
<1>5. Shown'
  BY <1>1, <1>2 DEF Shown
<1>6. Distinct(list)' /\ Heeded'
  BY DEF Inv, Distinct, Heeded, Draw
<1> QED
  BY <1>4, <1>5, <1>6 DEF Inv

LEMMA TickInv == ASSUME Inv, Tick  PROVE Inv'
<1> DEFINE Older(e) == [e EXCEPT !.age = IF @ > Wait THEN @ ELSE @ + 1]
<1>1. Len(list) \in Nat /\ DOMAIN list = 1 .. Len(list)
      /\ \A i \in DOMAIN list : /\ list[i] \in Entry /\ list[i].game \in Game
                                /\ list[i].age \in 0 .. Wait + 1
  BY EntriesTyped DEF Inv
<1>2. list' = [i \in 1 .. Len(list) |-> Older(list[i])]
  BY DEF Tick
<1>3. ASSUME NEW i \in DOMAIN list
      PROVE  /\ list'[i] \in Entry /\ list'[i].game = list[i].game
             /\ list'[i].age <= list[i].age + 1
  <2> DEFINE a == IF list[i].age > Wait THEN list[i].age ELSE list[i].age + 1
  <2>1. list'[i] = Older(list[i])
    BY <1>1, <1>2
  <2>2. Older(list[i]) = [game |-> list[i].game, age |-> a]
    BY <1>1 DEF Entry
  <2>3. a \in 0 .. Wait + 1 /\ a <= list[i].age + 1
    BY <1>1, TimesAssumption
  <2> HIDE DEF a, Older
  <2> QED
    BY <1>1, <2>1, <2>2, <2>3 DEF Entry
<1>4. DOMAIN list' = DOMAIN list /\ list' \in Seq(Entry)
  <2>1. DOMAIN list' = DOMAIN list
    BY <1>1, <1>2
  <2>2. list' \in [1 .. Len(list) -> Entry]
    BY <1>1, <1>2, <1>3
  <2> QED
    BY <1>1, <2>1, <2>2, IsASeq
<1>5. Types'
  <2>1. ASSUME NEW g \in Game
        PROVE  (IF server[g] = "on" THEN since[g] + 1 ELSE since[g]) \in 0 .. Period
    <3>1. /\ since[g] \in Int /\ 0 <= since[g] /\ since[g] <= Period /\ Period \in Nat
          /\ server[g] = "on" => since[g] < Period
      BY ClockFacts DEF Inv, Types, Tick
    <3> QED
      BY <3>1
  <2>2. since' \in [Game -> 0 .. Period]
    BY <2>1 DEF Tick
  <2> QED
    BY <1>4, <2>2 DEF Inv, Types, Tick
<1>6. Distinct(list')
  BY <1>3, <1>4 DEF Inv, Distinct
<1>7. Shown'
  BY <1>1, <1>3, <1>4 DEF Inv, Shown, Tick
<1>8. Heeded'
  <2> SUFFICES ASSUME listening', NEW i \in DOMAIN list'
               PROVE  /\ server'[list'[i].game] # "new"
                      /\ server'[list'[i].game] = "on" =>
                           list'[i].age <= Rounds(lost') + since'[list'[i].game]
    BY DEF Heeded
  <2> DEFINE g == list[i].game
  <2>1. i \in DOMAIN list /\ g \in Game /\ list'[i].game = g
    BY <1>1, <1>3, <1>4
  <2>2. server[g] # "new" /\ (server[g] = "on" => list[i].age <= Rounds(lost) + since[g])
    BY <2>1 DEF Inv, Heeded, Tick
  <2>3. /\ server' = server /\ lost' = lost
        /\ server[g] = "on" => since'[g] = since[g] + 1
    BY <2>1 DEF Tick
  <2>4. /\ list'[i].age <= list[i].age + 1 /\ list'[i].age \in Int
        /\ list[i].age \in Int
    BY <1>1, <1>3, <2>1 DEF Entry
  <2>5. Rounds(lost) \in Int /\ since[g] \in Int
    BY <2>1, ClockFacts DEF Inv, Types
  <2> HIDE DEF g
  <2> QED
    BY <2>1, <2>2, <2>3, <2>4, <2>5
<1> QED
  BY <1>5, <1>6, <1>7, <1>8 DEF Inv

LEMMA AnnounceInv == ASSUME Inv, NEW g \in Game, Announce(g)  PROVE Inv'
<1>1. /\ server' = server /\ listening' = listening /\ rows' = rows /\ selected' = selected
      /\ since' = [since EXCEPT ![g] = 0]
      /\ since \in [Game -> 0 .. Period] /\ server[g] = "on"
      /\ lost \in Nat /\ server \in [Game -> {"new", "on", "off"}]
      /\ Period \in Nat
      /\ Rounds(lost) \in Int /\ Rounds(lost + 1) = Rounds(lost) + Period
  BY ClockFacts DEF Announce, Inv, Types
<1>0. /\ since' \in [Game -> 0 .. Period] /\ since'[g] = 0
      /\ \A n \in Nat : 0 <= Rounds(n)
  <2>1. \A m \in Nat, n \in Nat : 0 <= n * m
    OBVIOUS
  <2>2. \A n \in Nat : 0 <= Rounds(n)
    BY <1>1, <2>1 DEF Rounds
  <2>3. 0 \in 0 .. Period
    BY <1>1
  <2> HIDE DEF Rounds
  <2> QED
    BY <1>1, <2>2, <2>3
<1>2. ASSUME listening, Update(g), UNCHANGED lost  PROVE Inv'
  <2>1. /\ list' \in Seq(Entry) /\ Distinct(list')
        /\ removed' \subseteq ToSet(rows) /\ removed \subseteq removed'
        /\ \A k \in DOMAIN list' :
             \/ list'[k].game = g /\ list'[k].age = 0
             \/ /\ list'[k].game # g
                /\ \E i \in DOMAIN list : /\ list'[k].game = list[i].game
                                          /\ list'[k].age = list[i].age
    BY <1>2, UpdateFacts DEF Inv
  <2>2. Types'
    BY <1>1, <1>0, <1>2, <2>1 DEF Inv, Types
  <2>3. Heeded'
    <3> SUFFICES ASSUME NEW k \in DOMAIN list'
                 PROVE  /\ server[list'[k].game] # "new"
                        /\ server[list'[k].game] = "on" =>
                             list'[k].age <= Rounds(lost) + since'[list'[k].game]
      BY <1>1, <1>2 DEF Heeded
    <3>1. CASE list'[k].game = g /\ list'[k].age = 0
      BY <1>1, <1>0, <3>1
    <3>2. CASE list'[k].game # g
      <4>1. PICK i \in DOMAIN list : /\ list'[k].game = list[i].game
                                     /\ list'[k].age = list[i].age
        BY <2>1, <3>2
      <4>2. list[i].game \in Game
        BY EntriesTyped DEF Inv
      <4>3. since'[list[i].game] = since[list[i].game]
        BY <1>1, <3>2, <4>1, <4>2
      <4>4. /\ server[list[i].game] # "new"
            /\ server[list[i].game] = "on" =>
                 list[i].age <= Rounds(lost) + since[list[i].game]
        BY <1>2 DEF Inv, Heeded
      <4> QED
        BY <4>1, <4>3, <4>4
    <3> QED
      BY <2>1, <3>1, <3>2
  <2>4. Shown'
    <3> SUFFICES ASSUME NEW i \in DOMAIN rows, \A j \in 1 .. i : rows[j] \notin removed'
                 PROVE  i \in DOMAIN list' /\ list'[i].game = rows[i]
      BY <1>1 DEF Shown
    <3>1. DOMAIN rows = 1 .. Len(rows) /\ i \in Nat /\ i \in 1 .. i
          /\ \A j \in 1 .. i : j \in DOMAIN rows
      BY EntriesTyped DEF Inv
    <3>2. ASSUME NEW j \in 1 .. i
          PROVE  j \in DOMAIN list /\ list[j].game = rows[j] /\ Kept(list[j])
      <4>1. \A k \in 1 .. j : k \in 1 .. i
        BY <3>1
      <4>2. j \in DOMAIN list /\ list[j].game = rows[j]
        BY <2>1, <3>1, <4>1 DEF Inv, Shown
      <4>3. rows[j] \in ToSet(rows) /\ rows[j] \notin removed'
        BY <3>1, EntriesTyped DEF Inv
      <4> QED
        BY <1>2, <4>2, <4>3, UpdateFacts DEF Inv
    <3>3. \A j \in 1 .. i : j \in DOMAIN list' /\ list'[j].game = list[j].game
      BY <1>2, <3>1, <3>2, UpdateFacts DEF Inv
    <3> QED
      BY <3>1, <3>2, <3>3
  <2> QED
    BY <2>1, <2>2, <2>3, <2>4 DEF Inv
<1>3. ASSUME UNCHANGED <<list, removed>>, ~listening \/ lost' = lost + 1,
             lost' \in 0 .. MaxLost
      PROVE  Inv'
  <2>1. Types'
    BY <1>1, <1>0, <1>3 DEF Inv, Types
  <2>2. Distinct(list)' /\ Shown'
    BY <1>1, <1>3 DEF Inv, Distinct, Shown
  <2>3. Heeded'
    <3> SUFFICES ASSUME listening, NEW i \in DOMAIN list
                 PROVE  /\ server[list[i].game] # "new"
                        /\ server[list[i].game] = "on" =>
                             list[i].age <= Rounds(lost') + since'[list[i].game]
      BY <1>1, <1>3 DEF Heeded
    <3> DEFINE o == list[i].game
    <3>1. /\ o \in Game /\ list[i].age \in Int
          /\ server[o] # "new" /\ (server[o] = "on" => list[i].age <= Rounds(lost) + since[o])
      BY EntriesTyped DEF Inv, Heeded
    <3>2. since[o] \in 0 .. Period /\ since'[o] \in 0 .. Period /\ lost' = lost + 1
      BY <1>1, <1>0, <1>3, <3>1
    <3> HIDE DEF o
    <3>3. Rounds(lost') = Rounds(lost) + Period
      BY <1>1, <3>2
    <3>4. server[o] # "new" /\ (server[o] = "on" => list[i].age <= Rounds(lost') + since'[o])
      BY <1>1, <3>1, <3>2, <3>3
    <3> QED
      BY <3>4 DEF o
  <2> QED
    BY <2>1, <2>2, <2>3 DEF Inv
<1>4. \/ listening /\ Update(g) /\ UNCHANGED lost
      \/ ~listening /\ UNCHANGED <<list, removed, lost>>
      \/ lost < MaxLost /\ lost' = lost + 1 /\ UNCHANGED <<list, removed>>
  BY DEF Announce
<1>5. lost \in 0 .. MaxLost /\ MaxLost \in Nat
  BY TimesAssumption DEF Inv, Types
<1> QED
  BY <1>1, <1>2, <1>3, <1>4, <1>5

LEMMA NextInv == ASSUME Inv, [Next]_vars  PROVE Inv'
<1>1. CASE UNCHANGED vars
  BY <1>1 DEF vars, Inv, Types, Distinct, Heeded, Shown
<1> QED
  BY <1>1, StartServerInv, StopServerInv, AnnounceInv, ForeignInv, TickInv, DrawInv, ClickInv
     DEF Next

LEMMA InvAlways == Spec => []Inv
<1> QED
  BY InitInv, NextInv, PTL DEF Spec

-----------------------------------------------------------------------------
(* The window's lists hold what they should, and the list of games no more  *)
(* entries than there are games.                                            *)
THEOREM TypeCorrect == Spec => []TypeOK
<1>1. ASSUME Inv  PROVE TypeOK
  <2> DEFINE f == [i \in 1 .. Len(list) |-> list[i].game]
  <2>1. Len(list) \in Nat /\ \A i \in 1 .. Len(list) : list[i].game \in Game
    BY <1>1, EntriesTyped DEF Inv
  <2>2. f \in Injection(1 .. Len(list), Game)
    <3>1. f \in [1 .. Len(list) -> Game]
      BY <2>1
    <3>2. \A i, j \in 1 .. Len(list) : f[i] = f[j] => i = j
      BY <1>1, EntriesTyped DEF Inv, Distinct
    <3> HIDE DEF f
    <3> QED
      BY <3>1, <3>2 DEF Injection, IsInjective
  <2>3. Cardinality(1 .. Len(list)) <= Cardinality(Game)
    BY <2>2, FS_Injection, GameAssumption
  <2>4. \A n \in Nat : Cardinality(1 .. n) = n
    <3> TAKE n \in Nat
    <3>1. Cardinality(1 .. n) = IF 1 > n THEN 0 ELSE n - 1 + 1
      BY FS_Interval
    <3> QED
      BY <3>1
  <2> QED
    BY <1>1, <2>1, <2>3, <2>4 DEF Inv, Types, Entry, TypeOK
<1> QED
  BY <1>1, InvAlways, PTL

(* However many games come, expire and come back, none is listed twice.     *)
THEOREM GamesListedOnce == Spec => []NoneTwice
<1>1. ASSUME Inv  PROVE NoneTwice
  BY <1>1, EntriesTyped DEF Inv, Distinct, NoneTwice
<1> QED
  BY <1>1, InvAlways, PTL

(* A game whose server runs stays listed, as long as the rounds of the      *)
(* announcements that are lost, and the next one, fit into Wait.            *)
THEOREM RunningGamesStay == Spec => RunningStays
<1>1. ASSUME Inv, [Next]_vars, NEW g \in Game, Listed(g), server[g] = "on",
             (lost + 1) * Period <= Wait
      PROVE  Listed(g)'
  <2>1. /\ DOMAIN list = 1 .. Len(list) /\ since[g] \in 0 .. Period
        /\ Wait \in Nat /\ Period \in Nat /\ Rounds(lost) \in Int
        /\ Rounds(lost) + Period <= Wait
    BY <1>1, EntriesTyped, TimesAssumption, ClockFacts DEF Inv, Types, Rounds
  <2>2. PICK i \in DOMAIN list : list[i].game = g
    BY <1>1, <2>1 DEF Listed
  <2>3. CASE list' = list
    BY <1>1, <2>3 DEF Listed
  <2>4. CASE Tick
    <3>1. list'[i].game = g /\ Len(list') = Len(list)
      <4>1. list[i] \in Entry
        BY <1>1, EntriesTyped DEF Inv
      <4> QED
        BY <1>1, <2>1, <2>2, <2>4, <4>1, EntriesTyped DEF Tick, Entry, Inv
    <3> QED
      BY <2>1, <2>2, <3>1 DEF Listed
  <2>5. ASSUME NEW o \in Game, Announce(o), listening, Update(o)  PROVE Listed(g)'
    <3>1. list[i].age <= Rounds(lost) + since[g] /\ list[i].age \in Int
      BY <1>1, <2>2, <2>5, EntriesTyped DEF Inv, Heeded
    <3>2. Kept(list[i])
      BY <1>1, <2>1, <3>1 DEF Kept
    <3>3. \E k \in DOMAIN list' : list'[k].game = list[i].game
      BY <1>1, <2>5, <3>2, UpdateFacts DEF Inv
    <3>4. DOMAIN list' = 1 .. Len(list')
      BY <1>1, <2>5, UpdateFacts, ListLength DEF Inv
    <3> QED
      BY <2>2, <3>3, <3>4 DEF Listed
  <2> QED
    BY <1>1, <2>3, <2>4, <2>5
       DEF Next, vars, StartServer, StopServer, Announce, Foreign, Draw, Click
<1>2. Inv /\ [Next]_vars =>
        [\A g \in Game :
           Listed(g) /\ server[g] = "on" /\ (lost + 1) * Period <= Wait => Listed(g)']_vars
  BY <1>1
<1> QED
  BY <1>2, InvAlways, PTL DEF Spec, RunningStays

(* A click selects the game that its row names, unless that row or one      *)
(* above it has expired since the rows were drawn.                          *)
THEOREM ClicksSelectTheRow == Spec => ClickedIsShown
<1>1. ASSUME Inv, NEW i \in 1 .. Len(rows), Click(i),
             \A j \in 1 .. i : rows[j] \notin removed
      PROVE  selected' = rows[i]
  BY <1>1, EntriesTyped DEF Inv, Shown, Click
<1>2. Inv /\ [Next]_vars =>
        [\A i \in 1 .. Len(rows) :
           Click(i) /\ (\A j \in 1 .. i : rows[j] \notin removed) => selected' = rows[i]]_vars
  BY <1>1
<1> QED
  BY <1>2, InvAlways, PTL DEF Spec, ClickedIsShown
=============================================================================
