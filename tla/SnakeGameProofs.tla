--------------------------- MODULE SnakeGameProofs ---------------------------
(***************************************************************************)
(* SnakeGame for every field, any number of players and any food: the      *)
(* types, that no two cells of the snakes on the field are the same, the   *)
(* shape and the score of a snake, and (SnakeWire) that a body comes       *)
(* through the message a state is sent in.                                 *)
(***************************************************************************)
EXTENDS SnakeWire, FiniteSetTheorems, SequenceTheorems, WellFoundedInduction, TLAPS

(* The two facts about Go's % that the engine relies on: it wraps.          *)
LEMMA Wraps ==
  ASSUME NEW n \in Nat \ {0}, NEW k \in Int
  PROVE  k % n \in 0 .. n - 1
OBVIOUS

LEMMA TailInField ==
  ASSUME NEW c \in Cell, NEW d \in Direction
  PROVE  TailBehind(c, d) \in Cell
<1>1. Width \in Nat \ {0} /\ Height \in Nat \ {0}
  BY FieldAssumption
<1>2. c[1] \in Int /\ c[2] \in Int /\ c[1] \in 0 .. Width - 1 /\ c[2] \in 0 .. Height - 1
  BY <1>1 DEF Cell
<1>2a. c[2] - 1 + Width \in Int /\ c[1] + 1 \in Int /\ c[2] + 1 \in Int /\ c[1] - 1 + Width \in Int
  BY <1>1, <1>2
<1>3. /\ (c[2] - 1 + Width) % Height \in 0 .. Height - 1
      /\ (c[1] + 1) % Width \in 0 .. Width - 1
      /\ (c[2] + 1) % Height \in 0 .. Height - 1
      /\ (c[1] - 1 + Width) % Width \in 0 .. Width - 1
  BY <1>1, <1>2a, Wraps
<1>4. CASE d = "DOWN"
  BY <1>2, <1>3, <1>4 DEF TailBehind, Cell
<1>5. CASE d = "LEFT"
  BY <1>2, <1>3, <1>5 DEF TailBehind, Cell
<1>6. CASE d = "UP"
  BY <1>2, <1>3, <1>6 DEF TailBehind, Cell
<1>7. CASE d = "RIGHT"
  BY <1>2, <1>3, <1>7 DEF TailBehind, Cell
<1> QED
  BY <1>4, <1>5, <1>6, <1>7 DEF Direction

LEMMA HeadInField ==
  ASSUME NEW c \in Cell, NEW d \in Direction
  PROVE  Neighbour(c, d) \in Cell
<1>1. Width \in Nat \ {0} /\ Height \in Nat \ {0}
  BY FieldAssumption
<1>2. c[1] \in Int /\ c[2] \in Int
  BY <1>1 DEF Cell
<1>3. DeltaX(d) \in Int /\ DeltaY(d) \in Int
  BY DEF DeltaX, DeltaY
<1>3a. Width + c[1] + DeltaX(d) \in Int /\ Height + c[2] + DeltaY(d) \in Int
  BY <1>1, <1>2, <1>3
<1>4. /\ (Width  + c[1] + DeltaX(d)) % Width  \in 0 .. Width - 1
      /\ (Height + c[2] + DeltaY(d)) % Height \in 0 .. Height - 1
  BY <1>1, <1>3a, Wraps
<1> QED
  BY <1>4 DEF Neighbour, Cell

-----------------------------------------------------------------------------
(* One snake *)

(* No cell twice in its body. *)
Simple(s) ==
  \A i, j \in 1 .. Len(s.body) : i # j => s.body[i] # s.body[j]

(* What is known of every snake on the field. *)
Fit(s) == s \in Snake /\ Len(s.body) >= 2

LEMMA FitBody ==
  ASSUME NEW s, Fit(s)
  PROVE  /\ Len(s.body) \in Nat
         /\ \A i \in 1 .. Len(s.body) : s.body[i] \in Cell
         /\ SnakeHead(s) \in Segments(s)
         /\ Segments(s) \subseteq Cell
         /\ NewHead(s) \in Cell
<1>1. s.body \in Seq(Cell) /\ s.aim \in Direction
  BY DEF Fit, Snake
<1>2. Len(s.body) \in Nat /\ 1 \in 1 .. Len(s.body)
  BY <1>1, LenProperties DEF Fit
<1>3. \A i \in 1 .. Len(s.body) : s.body[i] \in Cell
  BY <1>1, ElementOfSeq
<1>4. SnakeHead(s) \in Segments(s) /\ SnakeHead(s) \in Cell
  BY <1>2, <1>3 DEF SnakeHead, Segments
<1> QED
  BY <1>1, <1>2, <1>3, <1>4, HeadInField DEF Segments, NewHead

(* A move and, unless it ate, a cut at the tail. *)
LEMMA AdvancedShape ==
  ASSUME NEW s, Fit(s), NEW grow \in BOOLEAN
  PROVE  LET a == Advanced(s, grow) IN
         /\ Fit(a)
         /\ Len(a.body) = Len(s.body) + (IF grow THEN 1 ELSE 0)
         /\ SnakeHead(a) = NewHead(s)
         /\ \A i \in 1 .. Len(a.body) :
              IF i = 1 THEN a.body[i] = NewHead(s)
              ELSE i - 1 \in 1 .. Len(s.body) /\ a.body[i] = s.body[i - 1]
<1> DEFINE n == Len(s.body) + (IF grow THEN 1 ELSE 0)
           e(i) == IF i = 1 THEN NewHead(s) ELSE s.body[i - 1]
           b == [i \in 1 .. n |-> e(i)]
           a == Advanced(s, grow)
<1>1. Len(s.body) \in Nat /\ Len(s.body) >= 2
  BY FitBody DEF Fit
<1>g. (IF grow THEN 1 ELSE 0) \in {0, 1}
  OBVIOUS
<1>2. n \in Nat /\ n >= 2 /\ n <= Len(s.body) + 1
  <2> DEFINE m == Len(s.body)
             k == IF grow THEN 1 ELSE 0
  <2>1. m \in Nat /\ m >= 2 /\ k \in {0, 1}
    BY <1>1, <1>g
  <2> HIDE DEF m, k
  <2>2. m + k \in Nat /\ m + k >= 2 /\ m + k <= m + 1
    BY <2>1
  <2> QED BY <2>2 DEF m, k
<1>3. \A i \in 1 .. n : i = 1 \/ i - 1 \in 1 .. Len(s.body)
  <2> HIDE DEF n
  <2> QED BY <1>1, <1>2
<1>4. \A i \in 1 .. n : e(i) \in Cell
  BY <1>3, FitBody
<1>5. b \in Seq(Cell)
  <2> HIDE DEF n, e
  <2> QED BY <1>2, <1>4, IsASeq
<1>6. DOMAIN b = 1 .. n /\ DOMAIN b = 1 .. Len(b)
  BY <1>5, LenProperties
<1>7. Len(b) = n
  <2>1. Len(b) \in Nat
    BY <1>5, LenProperties
  <2> HIDE DEF b, n
  <2> QED BY <2>1, <1>2, <1>6
<1>8. a.body = b /\ a.dir = s.aim /\ a.aim = s.aim
      /\ a.score = s.score + (IF grow THEN 1 ELSE 0)
  BY DEF Advanced
<1>9. a \in Snake
  <2>1. s.score \in Nat /\ s.aim \in Direction
    BY DEF Fit, Snake
  <2>2. s.score + (IF grow THEN 1 ELSE 0) \in Nat
    BY <2>1
  <2> QED
    BY <1>5, <2>1, <2>2 DEF Advanced, Snake
<1>10. 1 \in 1 .. n
  <2> HIDE DEF n
  <2> QED BY <1>2
<1> QED
  BY <1>2, <1>3, <1>7, <1>8, <1>9, <1>10 DEF Fit, SnakeHead

LEMMA AdvancedCells ==
  ASSUME NEW s, Fit(s), NEW grow \in BOOLEAN
  PROVE  Segments(Advanced(s, grow)) \subseteq {NewHead(s)} \cup Segments(s)
<1> DEFINE a == Advanced(s, grow)
<1> SUFFICES ASSUME NEW i \in 1 .. Len(a.body)
             PROVE  a.body[i] \in {NewHead(s)} \cup Segments(s)
  BY DEF Segments
<1>1. IF i = 1 THEN a.body[i] = NewHead(s)
      ELSE i - 1 \in 1 .. Len(s.body) /\ a.body[i] = s.body[i - 1]
  BY AdvancedShape
<1> QED
  BY <1>1 DEF Segments

LEMMA AdvancedSimple ==
  ASSUME NEW s, Fit(s), Simple(s), CanMove(s), NEW grow \in BOOLEAN
  PROVE  Simple(Advanced(s, grow))
<1> DEFINE a == Advanced(s, grow)
<1> SUFFICES ASSUME NEW i \in 1 .. Len(a.body), NEW j \in 1 .. Len(a.body), i # j
             PROVE  a.body[i] # a.body[j]
  BY DEF Simple
<1>0. Len(a.body) \in Nat
  BY AdvancedShape, FitBody
<1>1. \A k \in 1 .. Len(a.body) :
        IF k = 1 THEN a.body[k] = NewHead(s)
        ELSE k - 1 \in 1 .. Len(s.body) /\ a.body[k] = s.body[k - 1]
  BY AdvancedShape
<1>2. \A k \in 1 .. Len(s.body) : s.body[k] # NewHead(s)
  BY DEF CanMove, Segments
<1> HIDE DEF a
<1>3. CASE i = 1
  BY <1>0, <1>1, <1>2, <1>3
<1>4. CASE j = 1
  BY <1>0, <1>1, <1>2, <1>4
<1>5. CASE i # 1 /\ j # 1
  <2>1. i - 1 # j - 1
    BY <1>0
  <2> QED
    BY <1>1, <1>5, <2>1 DEF Simple
<1> QED
  BY <1>3, <1>4, <1>5

-----------------------------------------------------------------------------
(* The food *)

LEMMA PlacedType ==
  ASSUME NEW ff \in [Cell -> Nat], NEW new
  PROVE  Placed(ff, new) \in [Cell -> Nat]
BY DEF Placed

LEMMA SwallowedType ==
  ASSUME NEW ss, NEW ff \in [Cell -> Nat]
  PROVE  Swallowed(ss, ff) \in [Cell -> Nat]
BY DEF Swallowed

(* Food is dropped a finite number of times. *)
LEMMA DroppedType ==
  ASSUME NEW ff \in [Cell -> Nat], NEW left, IsFiniteSet(left)
  PROVE  Dropped(ff, left) \in [Cell -> Nat]
<1> SUFFICES ASSUME NEW c \in Cell
             PROVE  ff[c] + Cardinality({r \in left : r[2] = c}) \in Nat
  BY DEF Dropped
<1>1. {r \in left : r[2] = c} \in SUBSET left
  OBVIOUS
<1>2. IsFiniteSet({r \in left : r[2] = c})
  BY <1>1, FS_Subset
<1>3. Cardinality({r \in left : r[2] = c}) \in Nat
  BY <1>2, FS_CardinalityType
<1> QED
  BY <1>3

LEMMA CellFinite == IsFiniteSet(Cell)
<1>1. Width - 1 \in Int /\ Height - 1 \in Int /\ 0 \in Int
  BY FieldAssumption
<1>2. IsFiniteSet(0 .. Width - 1) /\ IsFiniteSet(0 .. Height - 1)
  BY <1>1, FS_Interval
<1> QED
  BY <1>2, FS_Product DEF Cell

(* What the removal of snakes can leave is finite, so food stays countable. *)
LEMMA RemainsFinite ==
  ASSUME NEW ss, NEW dead \in SUBSET DOMAIN ss, IsFiniteSet(DOMAIN ss),
         \A p \in DOMAIN ss : Fit(ss[p]),
         NEW left \in SUBSET Remains(ss, dead)
  PROVE  IsFiniteSet(left)
<1>1. \A p \in DOMAIN ss : Segments(ss[p]) \subseteq Cell
  BY FitBody
<1>2. Remains(ss, dead) \subseteq (DOMAIN ss) \X Cell
  BY <1>1 DEF Remains
<1>3. IsFiniteSet((DOMAIN ss) \X Cell)
  BY CellFinite, FS_Product
<1> QED
  BY <1>2, <1>3, FS_Subset

LEMMA KillsType ==
  ASSUME NEW ss, IsFiniteSet(DOMAIN ss), NEW q
  PROVE  Kills(ss, q) \in Nat
<1> DEFINE K == {p \in DOMAIN ss : Hits(ss, p, q) /\ SnakeHead(ss[p]) # SnakeHead(ss[q])}
<1>1. K \in SUBSET DOMAIN ss
  OBVIOUS
<1>2. IsFiniteSet(K)
  BY <1>1, FS_Subset
<1> QED
  BY <1>2, FS_CardinalityType DEF Kills

-----------------------------------------------------------------------------
(* The snakes of the field: the inductive invariant is the conjunction of   *)
(* the three properties itself; they need each other.                       *)
Inv == TypeOK /\ SelfAvoiding /\ Disjoint

LEMMA InvSnakes ==
  ASSUME Inv
  PROVE  /\ IsFiniteSet(DOMAIN snakes)
         /\ \A p \in DOMAIN snakes : Fit(snakes[p]) /\ Simple(snakes[p])
         /\ foods \in [Cell -> Nat]
         /\ nextId \in Nat
         /\ DOMAIN snakes \subseteq 0 .. nextId - 1
<1>1. nextId \in Nat /\ DOMAIN snakes \in SUBSET (0 .. nextId - 1)
  BY DEF Inv, TypeOK
<1>2. IsFiniteSet(0 .. nextId - 1)
  BY <1>1, FS_Interval
<1>3. IsFiniteSet(DOMAIN snakes)
  BY <1>1, <1>2, FS_Subset
<1> QED
  BY <1>1, <1>3 DEF Inv, TypeOK, SelfAvoiding, Fit, Simple

(* The converse, for the state after a step. *)
LEMMA InvPrime ==
  ASSUME nextId' \in Nat, DOMAIN snakes' \subseteq 0 .. nextId' - 1,
         foods' \in [Cell -> Nat],
         \A p \in DOMAIN snakes' : Fit(snakes'[p]) /\ Simple(snakes'[p]),
         \A p, q \in DOMAIN snakes' :
           p # q => Segments(snakes'[p]) \cap Segments(snakes'[q]) = {}
  PROVE  Inv'
BY DEF Inv, TypeOK, SelfAvoiding, Disjoint, Fit, Simple, Segments

(* A new snake's tail is not its head: what the engine needs of the size    *)
(* of the field.  A field of 91 x 90 does not meet it (see TailBehind).     *)
TailOffHead == \A c \in Cell, d \in Direction : TailBehind(c, d) # c

LEMMA NewSnakeFit ==
  ASSUME TailOffHead, NEW c \in Cell, NEW d \in Direction
  PROVE  /\ Fit(NewSnake(c, d)) /\ Simple(NewSnake(c, d))
         /\ Segments(NewSnake(c, d)) = {c, TailBehind(c, d)}
<1> DEFINE t == TailBehind(c, d)
<1>1. t \in Cell /\ t # c
  BY TailInField DEF TailOffHead
<1> HIDE DEF t
<1>2. <<c, t>> \in Seq(Cell) /\ Len(<<c, t>>) = 2
  BY <1>1
<1>3. NewSnake(c, d) = [body |-> <<c, t>>, dir |-> d, aim |-> d, score |-> 0]
  BY DEF NewSnake, t
<1>4. Fit(NewSnake(c, d))
  BY <1>2, <1>3 DEF Fit, Snake
<1>5. Simple(NewSnake(c, d))
  BY <1>1, <1>2, <1>3 DEF Simple
<1>6. Segments(NewSnake(c, d)) = {c, t}
  BY <1>2, <1>3 DEF Segments
<1> QED
  BY <1>4, <1>5, <1>6 DEF t

-----------------------------------------------------------------------------
(* The steps *)

LEMMA InitInv == Init => Inv
<1> SUFFICES ASSUME Init PROVE Inv
  OBVIOUS
<1>1. DOMAIN snakes = {} /\ nextId = 0 /\ foods \in [Cell -> Nat]
  BY DEF Init
<1> QED
  BY <1>1 DEF Inv, TypeOK, SelfAvoiding, Disjoint

LEMMA AddSnakeInv == TailOffHead /\ Inv /\ AddSnake => Inv'
<1> SUFFICES ASSUME TailOffHead, Inv, AddSnake PROVE Inv'
  OBVIOUS
<1>1. PICK c \in Cell, d \in Direction :
        /\ ValidPosition(c, d)
        /\ snakes' = [p \in DOMAIN snakes \cup {nextId} |->
                        IF p = nextId THEN NewSnake(c, d) ELSE snakes[p]]
  BY DEF AddSnake
<1>2. nextId' = nextId + 1 /\ foods' = foods
  BY DEF AddSnake
<1> DEFINE new == NewSnake(c, d)
<1>3. Fit(new) /\ Simple(new) /\ Segments(new) = {c, TailBehind(c, d)}
  BY NewSnakeFit
<1>4. \A p \in DOMAIN snakes : c \notin Segments(snakes[p]) /\ TailBehind(c, d) \notin Segments(snakes[p])
  BY <1>1 DEF ValidPosition, Occupied
<1>5. \A p \in DOMAIN snakes : Segments(new) \cap Segments(snakes[p]) = {}
  BY <1>3, <1>4
<1>6. nextId \in Nat /\ DOMAIN snakes \subseteq 0 .. nextId - 1
  BY InvSnakes
<1>7. nextId \notin DOMAIN snakes /\ nextId' \in Nat /\ DOMAIN snakes' \subseteq 0 .. nextId' - 1
  BY <1>1, <1>2, <1>6
<1> HIDE DEF new
<1>8. \A p \in DOMAIN snakes' : \/ (p = nextId /\ snakes'[p] = new)
                                \/ (p \in DOMAIN snakes /\ snakes'[p] = snakes[p])
  <2>1. snakes' = [p \in DOMAIN snakes \cup {nextId} |->
                     IF p = nextId THEN new ELSE snakes[p]]
    BY <1>1 DEF new
  <2> QED
    BY <2>1
<1>9. \A p \in DOMAIN snakes' : Fit(snakes'[p]) /\ Simple(snakes'[p])
  BY <1>3, <1>8, InvSnakes
<1>10. \A p, q \in DOMAIN snakes' :
         p # q => Segments(snakes'[p]) \cap Segments(snakes'[q]) = {}
  BY <1>5, <1>8 DEF Inv, Disjoint
<1>11. foods' \in [Cell -> Nat]
  BY <1>2, InvSnakes
<1> QED
  BY <1>7, <1>9, <1>10, <1>11, InvPrime

(* A turn leaves every body where it is. *)
LEMMA SteerInv ==
  ASSUME Inv, NEW p \in DOMAIN snakes, NEW d \in Direction, Steer(p, d)
  PROVE  Inv'
<1>0. Fit(snakes[p]) /\ Simple(snakes[p])
  BY InvSnakes
<1> DEFINE s == [snakes[p] EXCEPT !.aim = Turn(@, d)]
<1>1. /\ snakes' = [snakes EXCEPT ![p] = s]
      /\ UNCHANGED <<foods, nextId>>
  BY DEF Steer
<1>2. s.body = snakes[p].body /\ Fit(s)
  BY <1>0 DEF Fit, Snake, Turn
<1>3. Simple(s) /\ Segments(s) = Segments(snakes[p])
  BY <1>0, <1>2 DEF Simple, Segments
<1> HIDE DEF s
<1>4. DOMAIN snakes' = DOMAIN snakes
  BY <1>1
<1>5. \A q \in DOMAIN snakes : /\ Fit(snakes'[q]) /\ Simple(snakes'[q])
                               /\ Segments(snakes'[q]) = Segments(snakes[q])
  BY <1>1, <1>2, <1>3, InvSnakes
<1> QED
  BY <1>1, <1>4, <1>5, InvSnakes, InvPrime DEF Inv, Disjoint

(* A tick.  What overlaps after the moves overlaps at a head, for the cells *)
(* that a snake keeps were its own; and a head on another's cell is a hit.  *)
LEMMA TickInv == Inv /\ Tick => Inv'
<1> SUFFICES ASSUME Inv, Tick PROVE Inv'
  OBVIOUS
<1>1. PICK new \in Placements(snakes, foods) :
        LET fed   == Placed(foods, new)
            moved == AfterMoves(snakes, fed)
            stuck == DOMAIN snakes \ Movers(snakes)
        IN \E left1 \in SUBSET Remains(snakes, stuck),
              left2 \in SUBSET Remains(moved, Crashed(moved)) :
             /\ foods'  = Dropped(Dropped(Swallowed(snakes, fed), left1), left2)
             /\ snakes' = AfterCrashes(moved)
  BY DEF Tick
<1> DEFINE fed   == Placed(foods, new)
           moved == AfterMoves(snakes, fed)
           stuck == DOMAIN snakes \ Movers(snakes)
<1>2. PICK left1 \in SUBSET Remains(snakes, stuck),
           left2 \in SUBSET Remains(moved, Crashed(moved)) :
        /\ foods'  = Dropped(Dropped(Swallowed(snakes, fed), left1), left2)
        /\ snakes' = AfterCrashes(moved)
  BY <1>1
<1>3. /\ IsFiniteSet(DOMAIN snakes)
      /\ \A p \in DOMAIN snakes : Fit(snakes[p]) /\ Simple(snakes[p])
  BY InvSnakes
<1>4. DOMAIN moved = Movers(snakes) /\ Movers(snakes) \in SUBSET DOMAIN snakes
  BY DEF AfterMoves, Movers
<1>5. IsFiniteSet(DOMAIN moved)
  BY <1>3, <1>4, FS_Subset
<1>6. \A p \in DOMAIN moved :
        /\ Fit(moved[p]) /\ Simple(moved[p])
        /\ Segments(moved[p]) \subseteq {SnakeHead(moved[p])} \cup Segments(snakes[p])
  <2> SUFFICES ASSUME NEW p \in DOMAIN moved
               PROVE  /\ Fit(moved[p]) /\ Simple(moved[p])
                      /\ Segments(moved[p]) \subseteq {SnakeHead(moved[p])} \cup Segments(snakes[p])
    OBVIOUS
  <2> DEFINE grow == EatsFirst(snakes, fed, p)
  <2>1. grow \in BOOLEAN
    BY DEF EatsFirst
  <2>2. p \in DOMAIN snakes /\ CanMove(snakes[p])
    BY <1>4 DEF Movers
  <2>3. moved[p] = Advanced(snakes[p], grow)
    BY <1>4 DEF AfterMoves
  <2> HIDE DEF grow, moved
  <2>4. Fit(snakes[p]) /\ Simple(snakes[p])
    BY <1>3, <2>2
  <2>5. Fit(moved[p]) /\ SnakeHead(moved[p]) = NewHead(snakes[p])
    BY <2>1, <2>3, <2>4, AdvancedShape
  <2>6. Simple(moved[p])
    BY <2>1, <2>2, <2>3, <2>4, AdvancedSimple
  <2>7. Segments(moved[p]) \subseteq {NewHead(snakes[p])} \cup Segments(snakes[p])
    BY <2>1, <2>3, <2>4, AdvancedCells
  <2> QED
    BY <2>5, <2>6, <2>7
<1>7. \A p \in DOMAIN moved : SnakeHead(moved[p]) \in Segments(moved[p])
  BY <1>6, FitBody
<1> HIDE DEF moved, fed, stuck
<1>8. foods' \in [Cell -> Nat]
  <2>1. foods \in [Cell -> Nat]
    BY InvSnakes
  <2>2. Swallowed(snakes, fed) \in [Cell -> Nat]
    BY <2>1, PlacedType, SwallowedType DEF fed
  <2>3. IsFiniteSet(left1)
    BY <1>2, <1>3, RemainsFinite DEF stuck
  <2>4. Crashed(moved) \in SUBSET DOMAIN moved
    BY DEF Crashed
  <2>5. IsFiniteSet(left2)
    BY <1>2, <1>5, <1>6, <2>4, RemainsFinite
  <2> QED
    BY <1>2, <2>2, <2>3, <2>5, DroppedType
<1>9. /\ DOMAIN snakes' = DOMAIN moved \ Crashed(moved)
      /\ \A p \in DOMAIN snakes' :
           snakes'[p] = [moved[p] EXCEPT !.score = @ + Kills(moved, p)]
  BY <1>2 DEF AfterCrashes
<1>10. \A p \in DOMAIN snakes' :
         Fit(snakes'[p]) /\ Simple(snakes'[p]) /\ Segments(snakes'[p]) = Segments(moved[p])
  <2> SUFFICES ASSUME NEW p \in DOMAIN snakes'
               PROVE  Fit(snakes'[p]) /\ Simple(snakes'[p]) /\ Segments(snakes'[p]) = Segments(moved[p])
    OBVIOUS
  <2>1. Kills(moved, p) \in Nat
    BY <1>5, KillsType
  <2>2. Fit(moved[p]) /\ Simple(moved[p])
    BY <1>6, <1>9
  <2>3. snakes'[p] = [moved[p] EXCEPT !.score = @ + Kills(moved, p)]
    BY <1>9
  <2>4. snakes'[p].body = moved[p].body /\ Fit(snakes'[p])
    BY <2>1, <2>2, <2>3 DEF Fit, Snake
  <2> QED
    BY <2>2, <2>4 DEF Simple, Segments
<1>11. \A p, q \in DOMAIN snakes' :
         p # q => Segments(snakes'[p]) \cap Segments(snakes'[q]) = {}
  <2> SUFFICES ASSUME NEW p \in DOMAIN snakes', NEW q \in DOMAIN snakes', p # q
               PROVE  Segments(moved[p]) \cap Segments(moved[q]) = {}
    BY <1>10
  <2>1. p \in DOMAIN moved /\ q \in DOMAIN moved /\ ~Hits(moved, p, q) /\ ~Hits(moved, q, p)
    BY <1>9 DEF Crashed
  <2>2. SnakeHead(moved[p]) \notin Segments(moved[q]) /\ SnakeHead(moved[q]) \notin Segments(moved[p])
    BY <2>1 DEF Hits
  <2>3. Segments(snakes[p]) \cap Segments(snakes[q]) = {}
    BY <1>4, <2>1 DEF Inv, Disjoint
  <2> QED
    BY <1>6, <2>1, <2>2, <2>3
<1>12. /\ nextId' \in Nat /\ DOMAIN snakes' \subseteq 0 .. nextId' - 1
  <2>1. nextId' = nextId
    BY DEF Tick
  <2> QED
    BY <1>4, <1>9, <2>1, InvSnakes
<1> QED
  BY <1>8, <1>10, <1>11, <1>12, InvPrime

LEMMA NextInv == TailOffHead /\ Inv /\ [Next]_vars => Inv'
<1> SUFFICES ASSUME TailOffHead, Inv, [Next]_vars PROVE Inv'
  OBVIOUS
<1>1. CASE UNCHANGED vars
  BY <1>1, InvSnakes, InvPrime DEF vars, Inv, Disjoint
<1>2. CASE AddSnake
  BY <1>2, AddSnakeInv
<1>3. CASE AddSnakeFails
  <2>1. nextId' = nextId + 1 /\ UNCHANGED <<snakes, foods>>
    BY <1>3 DEF AddSnakeFails
  <2>2. nextId' \in Nat /\ DOMAIN snakes' \subseteq 0 .. nextId' - 1
    BY <2>1, InvSnakes
  <2> QED
    BY <2>1, <2>2, InvSnakes, InvPrime DEF Inv, Disjoint
<1>4. CASE \E p \in DOMAIN snakes, d \in Direction : Steer(p, d)
  BY <1>4, SteerInv
<1>5. CASE Tick
  BY <1>5, TickInv
<1> QED
  BY <1>1, <1>2, <1>3, <1>4, <1>5 DEF Next

-----------------------------------------------------------------------------
(* The shape of a snake, and its score *)

(* One step there and one back along a side of the torus. *)
LEMMA StepBack ==
  ASSUME NEW n \in Nat \ {0}, NEW k \in 0 .. n - 1
  PROVE  /\ (n + ((n + k + 1) % n) + -1) % n = k
         /\ (n + ((n + k + -1) % n) + 1) % n = k
         /\ (n + ((n + k + 0) % n) + 0) % n = k
<1>1. \A j \in 0 .. n - 1 : (n + j) % n = j
  OBVIOUS
<1>2. (n + n) % n = 0
  OBVIOUS
<1>3. k = n - 1 => (n + k + 1) % n = 0
  BY <1>2
<1> QED
  OBVIOUS

(* A snake from one call to the next: it is left as it is, or it moves. *)
Kept(s, t) == t.body = s.body /\ t.dir = s.dir /\ t.score = s.score

Moved(s, t) ==
  /\ CanMove(s)
  /\ \E grow \in BOOLEAN : LET a == Advanced(s, grow) IN
       t.body = a.body /\ t.dir = a.dir /\ t.score \in Nat /\ t.score >= a.score

LEMMA Survivors ==
  ASSUME Inv, Tick
  PROVE  \A p \in DOMAIN snakes' : p \in DOMAIN snakes /\ Moved(snakes[p], snakes'[p])
<1>1. PICK new \in Placements(snakes, foods) :
        snakes' = AfterCrashes(AfterMoves(snakes, Placed(foods, new)))
  BY DEF Tick
<1> DEFINE fed   == Placed(foods, new)
           moved == AfterMoves(snakes, fed)
<1> SUFFICES ASSUME NEW p \in DOMAIN snakes'
             PROVE  p \in DOMAIN snakes /\ Moved(snakes[p], snakes'[p])
  OBVIOUS
<1>2. /\ p \in DOMAIN moved
      /\ snakes'[p] = [moved[p] EXCEPT !.score = @ + Kills(moved, p)]
  BY <1>1 DEF AfterCrashes
<1>3. DOMAIN moved = Movers(snakes) /\ Movers(snakes) \in SUBSET DOMAIN snakes
  BY DEF AfterMoves, Movers
<1> DEFINE grow == EatsFirst(snakes, fed, p)
           a == Advanced(snakes[p], grow)
<1>4. moved[p] = a
  BY <1>2, <1>3 DEF AfterMoves
<1>5. grow \in BOOLEAN /\ CanMove(snakes[p]) /\ p \in DOMAIN snakes
  BY <1>2, <1>3 DEF EatsFirst, Movers
<1>6. Kills(moved, p) \in Nat
  <2>1. IsFiniteSet(DOMAIN moved)
    BY <1>3, InvSnakes, FS_Subset
  <2> QED
    BY <2>1, KillsType
<1>7. a \in Snake
  BY <1>5, InvSnakes, AdvancedShape DEF Fit
<1> HIDE DEF moved, a, grow
<1>8. /\ snakes'[p].body = a.body /\ snakes'[p].dir = a.dir
      /\ snakes'[p].score \in Nat /\ snakes'[p].score >= a.score
  BY <1>2, <1>4, <1>6, <1>7 DEF Snake
<1> QED
  BY <1>5, <1>8 DEF Moved, a

LEMMA Descent ==
  ASSUME Inv, [Next]_vars
  PROVE  \A p \in DOMAIN snakes' :
           \/ p \in DOMAIN snakes /\ Kept(snakes[p], snakes'[p])
           \/ p \in DOMAIN snakes /\ Moved(snakes[p], snakes'[p])
           \/ p \notin DOMAIN snakes /\ \E c \in Cell, d \in Direction : snakes'[p] = NewSnake(c, d)
<1>1. CASE UNCHANGED snakes
  BY <1>1 DEF Kept
<1>2. CASE AddSnake
  <2>1. PICK c \in Cell, d \in Direction :
          snakes' = [p \in DOMAIN snakes \cup {nextId} |->
                       IF p = nextId THEN NewSnake(c, d) ELSE snakes[p]]
    BY <1>2 DEF AddSnake
  <2>2. nextId \notin DOMAIN snakes
    BY InvSnakes
  <2> QED
    BY <2>1, <2>2 DEF Kept
<1>3. CASE \E p \in DOMAIN snakes, d \in Direction : Steer(p, d)
  <2>1. PICK p \in DOMAIN snakes, d \in Direction :
          snakes' = [snakes EXCEPT ![p].aim = Turn(@, d)]
    BY <1>3 DEF Steer
  <2>2. snakes[p] \in Snake
    BY InvSnakes DEF Fit
  <2>3. \A q \in DOMAIN snakes : Kept(snakes[q], snakes'[q])
    BY <2>1, <2>2 DEF Kept, Snake
  <2> QED
    BY <2>1, <2>3
<1>4. CASE Tick
  BY <1>4, Survivors
<1> QED
  BY <1>1, <1>2, <1>3, <1>4 DEF Next, vars, AddSnakeFails

(* The tail of a new snake is one step back from its head: the field is     *)
(* square, or otherwise such that Width takes a row number back to itself.  *)
TailNextToHead == \A c \in Cell, d \in Direction : TailBehind(c, d) = Neighbour(c, Opposite(d))

LEMMA ThereAndBack ==
  ASSUME NEW c \in Cell, NEW d \in Direction
  PROVE  Neighbour(Neighbour(c, d), Opposite(d)) = c
<1>1. /\ c[1] \in 0 .. Width - 1 /\ c[2] \in 0 .. Height - 1 /\ c = <<c[1], c[2]>>
      /\ Width \in Nat \ {0} /\ Height \in Nat \ {0}
  BY FieldAssumption DEF Cell
<1>2. /\ (Width + ((Width + c[1] + 1) % Width) + -1) % Width = c[1]
      /\ (Width + ((Width + c[1] + -1) % Width) + 1) % Width = c[1]
      /\ (Width + ((Width + c[1] + 0) % Width) + 0) % Width = c[1]
  BY <1>1, StepBack
<1>3. /\ (Height + ((Height + c[2] + 1) % Height) + -1) % Height = c[2]
      /\ (Height + ((Height + c[2] + -1) % Height) + 1) % Height = c[2]
      /\ (Height + ((Height + c[2] + 0) % Height) + 0) % Height = c[2]
  BY <1>1, StepBack
<1>3a. Neighbour(Neighbour(c, d), Opposite(d)) =
          <<(Width  + ((Width  + c[1] + DeltaX(d)) % Width)  + DeltaX(Opposite(d))) % Width,
            (Height + ((Height + c[2] + DeltaY(d)) % Height) + DeltaY(Opposite(d))) % Height>>
  <2> DEFINE x == (Width + c[1] + DeltaX(d)) % Width
             y == (Height + c[2] + DeltaY(d)) % Height
  <2>1. Neighbour(c, d) = <<x, y>>
    BY DEF Neighbour
  <2> HIDE DEF x, y
  <2>2. Neighbour(c, d)[1] = x /\ Neighbour(c, d)[2] = y
    BY <2>1
  <2>3. Neighbour(Neighbour(c, d), Opposite(d)) =
          <<(Width  + x + DeltaX(Opposite(d))) % Width,
            (Height + y + DeltaY(Opposite(d))) % Height>>
    <3> DEFINE e == Neighbour(c, d)
    <3>1. e[1] = x /\ e[2] = y
      BY <2>2
    <3> HIDE DEF e
    <3>2. Neighbour(e, Opposite(d)) =
            <<(Width  + e[1] + DeltaX(Opposite(d))) % Width,
              (Height + e[2] + DeltaY(Opposite(d))) % Height>>
      BY Zenon DEF Neighbour
    <3>3. Neighbour(e, Opposite(d)) =
            <<(Width  + x + DeltaX(Opposite(d))) % Width,
              (Height + y + DeltaY(Opposite(d))) % Height>>
      BY <3>1, <3>2, Zenon
    <3> QED
      BY <3>3 DEF e
  <2> QED
    BY <2>3, Zenon DEF x, y
<1>4. CASE d = "UP"
  <2>1. DeltaX(d) = 0 /\ DeltaY(d) = -1 /\ DeltaX(Opposite(d)) = 0 /\ DeltaY(Opposite(d)) = 1
    BY <1>4 DEF DeltaX, DeltaY, Opposite
  <2> QED
    BY <1>1, <1>2, <1>3, <1>3a, <2>1, Zenon
<1>5. CASE d = "DOWN"
  <2>1. DeltaX(d) = 0 /\ DeltaY(d) = 1 /\ DeltaX(Opposite(d)) = 0 /\ DeltaY(Opposite(d)) = -1
    BY <1>5 DEF DeltaX, DeltaY, Opposite
  <2> QED
    BY <1>1, <1>2, <1>3, <1>3a, <2>1, Zenon
<1>6. CASE d = "LEFT"
  <2>1. DeltaX(d) = -1 /\ DeltaY(d) = 0 /\ DeltaX(Opposite(d)) = 1 /\ DeltaY(Opposite(d)) = 0
    BY <1>6 DEF DeltaX, DeltaY, Opposite
  <2> QED
    BY <1>1, <1>2, <1>3, <1>3a, <2>1, Zenon
<1>7. CASE d = "RIGHT"
  <2>1. DeltaX(d) = 1 /\ DeltaY(d) = 0 /\ DeltaX(Opposite(d)) = -1 /\ DeltaY(Opposite(d)) = 0
    BY <1>7 DEF DeltaX, DeltaY, Opposite
  <2> QED
    BY <1>1, <1>2, <1>3, <1>3a, <2>1, Zenon
<1> QED
  BY <1>4, <1>5, <1>6, <1>7 DEF Direction

(* A square field of more than one cell is such a field. *)
LEMMA SquareFields ==
  ASSUME Width = Height, Width > 1
  PROVE  TailOffHead /\ TailNextToHead
<1> SUFFICES ASSUME NEW c \in Cell, NEW d \in Direction
             PROVE  TailBehind(c, d) # c /\ TailBehind(c, d) = Neighbour(c, Opposite(d))
  BY DEF TailOffHead, TailNextToHead
<1>1. /\ c[1] \in 0 .. Width - 1 /\ c[2] \in 0 .. Width - 1 /\ c = <<c[1], c[2]>>
      /\ Width \in Nat \ {0}
  BY FieldAssumption DEF Cell
<1>2. \A k \in 0 .. Width - 1 :
        /\ (k - 1 + Width) % Width = (Width + k + -1) % Width
        /\ (k + 1) % Width = (Width + k + 1) % Width
        /\ (Width + k + 0) % Width = k
        /\ (k - 1 + Width) % Width # k
        /\ (k + 1) % Width # k
  <2> SUFFICES ASSUME NEW k \in 0 .. Width - 1
               PROVE  /\ (k - 1 + Width) % Width = (Width + k + -1) % Width
                      /\ (k + 1) % Width = (Width + k + 1) % Width
                      /\ (Width + k + 0) % Width = k
                      /\ (k - 1 + Width) % Width # k
                      /\ (k + 1) % Width # k
    OBVIOUS
  <2>1. \A j \in 0 .. Width - 1 : j % Width = j /\ (Width + j) % Width = j
    BY <1>1
  <2>2. (Width + Width) % Width = 0 /\ Width % Width = 0
    BY <1>1
  <2>3. CASE k = 0
    <3>1. 1 \in 0 .. Width - 1 /\ Width - 1 \in 0 .. Width - 1
      BY <1>1
    <3>2. 1 % Width = 1 /\ (Width + 1) % Width = 1 /\ (Width - 1) % Width = Width - 1
      BY <2>1, <3>1
    <3>3. k - 1 + Width = Width - 1 /\ Width + k + -1 = Width - 1 /\ k + 1 = 1 /\ Width + k + 1 = Width + 1
      BY <1>1, <2>3
    <3>4. (Width + k + 0) % Width = k
      BY <1>1, <2>1
    <3>5. Width - 1 # k /\ 1 # k
      BY <1>1, <2>3
    <3> QED
      BY <3>2, <3>3, <3>4, <3>5, Zenon
  <2>4. CASE k = Width - 1 /\ k # 0
    <3>1. k - 1 \in 0 .. Width - 1
      BY <1>1, <2>4
    <3>2. (Width + (k - 1)) % Width = k - 1
      BY <2>1, <3>1
    <3>3. k - 1 + Width = Width + (k - 1) /\ Width + k + -1 = Width + (k - 1) /\ k + 1 = Width /\ Width + k + 1 = Width + Width
      BY <1>1, <2>4
    <3>4. (Width + k + 0) % Width = k
      BY <1>1, <2>1
    <3>5. k - 1 # k /\ 0 # k
      BY <1>1, <2>4
    <3> QED
      BY <2>2, <3>2, <3>3, <3>4, <3>5, Zenon
  <2>5. CASE k # 0 /\ k # Width - 1
    <3>1. k - 1 \in 0 .. Width - 1 /\ k + 1 \in 0 .. Width - 1
      BY <1>1, <2>5
    <3>2. (Width + (k - 1)) % Width = k - 1 /\ (Width + (k + 1)) % Width = k + 1 /\ (k + 1) % Width = k + 1
      BY <2>1, <3>1
    <3> QED
      BY <1>1, <2>1, <3>2
  <2> QED
    BY <2>3, <2>4, <2>5
<1>3. CASE d = "UP"
  BY <1>1, <1>2, <1>3 DEF TailBehind, Neighbour, Opposite, DeltaX, DeltaY
<1>4. CASE d = "DOWN"
  BY <1>1, <1>2, <1>4 DEF TailBehind, Neighbour, Opposite, DeltaX, DeltaY
<1>5. CASE d = "LEFT"
  BY <1>1, <1>2, <1>5 DEF TailBehind, Neighbour, Opposite, DeltaX, DeltaY
<1>6. CASE d = "RIGHT"
  BY <1>1, <1>2, <1>6 DEF TailBehind, Neighbour, Opposite, DeltaX, DeltaY
<1> QED
  BY <1>3, <1>4, <1>5, <1>6 DEF Direction

(* Its body is linked up, its second cell is behind its head as its head is *)
(* turned, and its score covers what it has grown.                          *)
Linked(s) ==
  \A i \in 2 .. Len(s.body) : \E d \in Direction : Neighbour(s.body[i - 1], d) = s.body[i]

FacesAway(s) == s.body[2] = Neighbour(s.body[1], Opposite(s.dir))

Scored(s) == s.score >= Len(s.body) - 2

Shapely(s) == Linked(s) /\ FacesAway(s)

LEMMA OppositeIsDirection ==
  ASSUME NEW d \in Direction
  PROVE  Opposite(d) \in Direction
BY DEF Opposite, Direction

LEMMA NewSnakeShapely ==
  ASSUME TailNextToHead, NEW c \in Cell, NEW d \in Direction
  PROVE  Shapely(NewSnake(c, d))
<1> DEFINE s == NewSnake(c, d)
<1>1. Len(s.body) = 2 /\ s.body[1] = c /\ s.body[2] = TailBehind(c, d) /\ s.dir = d
  BY DEF NewSnake
<1>2. FacesAway(s)
  BY <1>1 DEF FacesAway, TailNextToHead
<1>3. Linked(s)
  BY <1>1, OppositeIsDirection DEF Linked, TailNextToHead
<1> QED
  BY <1>2, <1>3 DEF Shapely

(* Only the new head and the cell behind it are next to each other for a    *)
(* new reason.                                                              *)
LEMMA MovedShapely ==
  ASSUME NEW s, Fit(s), Linked(s), NEW t, Moved(s, t)
  PROVE  Shapely(t)
<1>1. PICK grow \in BOOLEAN : t.body = Advanced(s, grow).body /\ t.dir = Advanced(s, grow).dir
  BY DEF Moved
<1>2. /\ Len(t.body) \in Nat /\ Len(t.body) >= 2
      /\ \A i \in 1 .. Len(t.body) :
           IF i = 1 THEN t.body[i] = NewHead(s)
           ELSE i - 1 \in 1 .. Len(s.body) /\ t.body[i] = s.body[i - 1]
  <2> DEFINE a == Advanced(s, grow)
  <2>1. /\ Fit(a)
        /\ \A i \in 1 .. Len(a.body) :
             IF i = 1 THEN a.body[i] = NewHead(s)
             ELSE i - 1 \in 1 .. Len(s.body) /\ a.body[i] = s.body[i - 1]
    BY AdvancedShape
  <2>2. Len(a.body) \in Nat /\ Len(a.body) >= 2
    BY <2>1, FitBody DEF Fit
  <2>3. t.body = a.body
    BY <1>1
  <2> HIDE DEF a
  <2> QED
    BY <2>1, <2>2, <2>3
<1>3. t.dir = s.aim /\ s.aim \in Direction /\ SnakeHead(s) \in Cell
  BY <1>1, FitBody DEF Advanced, Fit, Snake
<1>4. t.body[1] = Neighbour(SnakeHead(s), s.aim) /\ t.body[2] = SnakeHead(s)
  BY <1>2 DEF NewHead, SnakeHead
<1>5. Neighbour(t.body[1], Opposite(s.aim)) = t.body[2]
  BY <1>3, <1>4, ThereAndBack
<1>6. FacesAway(t)
  BY <1>3, <1>5 DEF FacesAway
<1>7. Linked(t)
  <2> SUFFICES ASSUME NEW i \in 2 .. Len(t.body)
               PROVE  \E d \in Direction : Neighbour(t.body[i - 1], d) = t.body[i]
    BY DEF Linked
  <2>1. CASE i = 2
    BY <1>3, <1>5, <2>1, OppositeIsDirection
  <2>2. CASE i # 2
    <3>1. i - 1 \in 1 .. Len(t.body) /\ i - 1 # 1 /\ i \in 1 .. Len(t.body) /\ i # 1
      BY <1>2, <2>2
    <3>2. /\ t.body[i - 1] = s.body[i - 1 - 1] /\ t.body[i] = s.body[i - 1]
          /\ i - 1 \in 1 .. Len(s.body) /\ i - 1 - 1 \in 1 .. Len(s.body)
      BY <1>2, <3>1
    <3>3. Len(s.body) \in Nat
      BY FitBody
    <3>4. i - 1 \in 2 .. Len(s.body)
      BY <3>1, <3>2, <3>3
    <3> QED
      BY <3>2, <3>4 DEF Linked
  <2> QED
    BY <2>1, <2>2
<1> QED
  BY <1>6, <1>7 DEF Shapely

ShapeInv == Inv /\ \A p \in DOMAIN snakes : Shapely(snakes[p])

LEMMA ShapeNext == TailOffHead /\ TailNextToHead /\ ShapeInv /\ [Next]_vars => ShapeInv'
<1> SUFFICES ASSUME TailOffHead, TailNextToHead, ShapeInv, [Next]_vars PROVE ShapeInv'
  OBVIOUS
<1>1. Inv /\ Inv'
  BY NextInv DEF ShapeInv
<1> SUFFICES ASSUME NEW p \in DOMAIN snakes' PROVE Shapely(snakes'[p])
  BY <1>1 DEF ShapeInv
<1>2. CASE p \in DOMAIN snakes /\ Kept(snakes[p], snakes'[p])
  BY <1>2 DEF Kept, ShapeInv, Shapely, Linked, FacesAway
<1>3. CASE p \in DOMAIN snakes /\ Moved(snakes[p], snakes'[p])
  <2>1. Fit(snakes[p]) /\ Linked(snakes[p])
    BY <1>1, <1>3, InvSnakes DEF ShapeInv, Shapely
  <2> QED
    BY <1>3, <2>1, MovedShapely
<1>4. CASE \E c \in Cell, d \in Direction : snakes'[p] = NewSnake(c, d)
  BY <1>4, NewSnakeShapely
<1> QED
  BY <1>1, <1>2, <1>3, <1>4, Descent

(* A snake aimed backwards is aimed at its own second cell. *)
LEMMA Reversal ==
  ASSUME NEW s, Fit(s), FacesAway(s), CanMove(s)
  PROVE  s.aim # Opposite(s.dir)
<1>1. Len(s.body) \in Nat /\ 2 \in 1 .. Len(s.body)
  BY FitBody DEF Fit
<1>2. s.body[2] \in Segments(s)
  BY <1>1 DEF Segments
<1> QED
  BY <1>2 DEF CanMove, NewHead, SnakeHead, FacesAway

LEMMA OppositeDiffers == ASSUME NEW d \in Direction PROVE d # Opposite(d)
BY DEF Opposite, Direction

LEMMA StepKeepsDirection ==
  ASSUME ShapeInv, [Next]_vars
  PROVE  \A p \in DOMAIN snakes \cap DOMAIN snakes' : snakes'[p].dir # Opposite(snakes[p].dir)
<1> SUFFICES ASSUME NEW p \in DOMAIN snakes \cap DOMAIN snakes'
             PROVE  snakes'[p].dir # Opposite(snakes[p].dir)
  OBVIOUS
<1>1. Inv /\ Fit(snakes[p]) /\ snakes[p].dir \in Direction /\ FacesAway(snakes[p])
  BY InvSnakes DEF ShapeInv, Shapely, Fit, Snake
<1>2. CASE Kept(snakes[p], snakes'[p])
  BY <1>1, <1>2, OppositeDiffers DEF Kept
<1>3. CASE Moved(snakes[p], snakes'[p])
  BY <1>1, <1>3, Reversal DEF Moved, Advanced
<1> QED
  BY <1>1, <1>2, <1>3, Descent

ScoreInv == Inv /\ \A p \in DOMAIN snakes : Scored(snakes[p])

LEMMA ScoreNext == TailOffHead /\ ScoreInv /\ [Next]_vars => ScoreInv'
<1> SUFFICES ASSUME TailOffHead, ScoreInv, [Next]_vars PROVE ScoreInv'
  OBVIOUS
<1>1. Inv /\ Inv'
  BY NextInv DEF ScoreInv
<1> SUFFICES ASSUME NEW p \in DOMAIN snakes' PROVE Scored(snakes'[p])
  BY <1>1 DEF ScoreInv
<1>2. CASE p \in DOMAIN snakes /\ Kept(snakes[p], snakes'[p])
  BY <1>2 DEF Kept, ScoreInv, Scored
<1>3. CASE p \in DOMAIN snakes /\ Moved(snakes[p], snakes'[p])
  <2> DEFINE s == snakes[p]
  <2>1. Fit(s) /\ s.score >= Len(s.body) - 2 /\ s.score \in Nat /\ Len(s.body) \in Nat
    BY <1>1, <1>3, InvSnakes, FitBody DEF ScoreInv, Scored, Fit, Snake
  <2>2. PICK grow \in BOOLEAN :
          /\ snakes'[p].body = Advanced(s, grow).body
          /\ snakes'[p].score \in Nat /\ snakes'[p].score >= Advanced(s, grow).score
    BY <1>3 DEF Moved
  <2>3. /\ Len(snakes'[p].body) = Len(s.body) + (IF grow THEN 1 ELSE 0)
        /\ Advanced(s, grow).score = s.score + (IF grow THEN 1 ELSE 0)
    BY <2>1, <2>2, AdvancedShape DEF Advanced
  <2> DEFINE t == snakes'[p]
             a == Advanced(s, grow)
             k == IF grow THEN 1 ELSE 0
  <2>4. k \in Nat /\ t.score >= s.score + k /\ Len(t.body) = Len(s.body) + k /\ t.score \in Nat
    BY <2>2, <2>3
  <2> HIDE DEF s, t, k
  <2>5. t.score >= Len(t.body) - 2
    BY <2>1, <2>4
  <2> QED
    BY <2>5 DEF Scored, t
<1>4. CASE \E c \in Cell, d \in Direction : snakes'[p] = NewSnake(c, d)
  BY <1>4 DEF NewSnake, Scored
<1> QED
  BY <1>1, <1>2, <1>3, <1>4, Descent

-----------------------------------------------------------------------------
(* On every field where a new snake has two cells, for any number of        *)
(* players and pieces of food: between two calls no cell belongs to two     *)
(* snakes.  Moves of Update that overlap are always found.                  *)
THEOREM SnakesNeverOverlap == ASSUME TailOffHead PROVE Spec => []Disjoint
<1>1. Inv => Disjoint
  BY DEF Inv
<1> QED
  BY <1>1, InitInv, NextInv, PTL DEF Spec

(* Nor twice to one: a snake that turned into itself is always found.       *)
THEOREM SnakesNeverCrossThemselves == ASSUME TailOffHead PROVE Spec => []SelfAvoiding
<1>1. Inv => SelfAvoiding
  BY DEF Inv
<1> QED
  BY <1>1, InitInv, NextInv, PTL DEF Spec

(* And every snake keeps at least two cells, all on the field. *)
THEOREM TypeCorrect == ASSUME TailOffHead PROVE Spec => []TypeOK
<1>1. Inv => TypeOK
  BY DEF Inv
<1> QED
  BY <1>1, InitInv, NextInv, PTL DEF Spec

(* What a snake has grown beyond its first two cells is never more than    *)
(* its score: nothing but a meal that scores makes Move longer.            *)
THEOREM GrowthTheorem == ASSUME TailOffHead PROVE Spec => []ScoreCoversGrowth
<1>1. Init => ScoreInv
  BY InitInv DEF Init, ScoreInv
<1>2. ScoreInv => ScoreCoversGrowth
  BY DEF ScoreInv, Scored, ScoreCoversGrowth
<1> QED
  BY <1>1, <1>2, ScoreNext, PTL DEF Spec

(* Where a new snake's tail is next to its head, on every square field for *)
(* one (SquareFields), bodies stay linked up over the edges, ...           *)
THEOREM ContiguousTheorem ==
  ASSUME TailOffHead, TailNextToHead PROVE Spec => []Contiguous
<1>1. Init => ShapeInv
  BY InitInv DEF Init, ShapeInv
<1>2. ShapeInv => Contiguous
  BY DEF ShapeInv, Shapely, Linked, Contiguous
<1> QED
  BY <1>1, <1>2, ShapeNext, PTL DEF Spec

(* ... and no snake lives through a reversal, however turns are queued.    *)
THEOREM ReversalTheorem ==
  ASSUME TailOffHead, TailNextToHead PROVE Spec => NoReversal
<1>1. Init => ShapeInv
  BY InitInv DEF Init, ShapeInv
<1>2. ShapeInv /\ [Next]_vars =>
        [\A p \in DOMAIN snakes \cap DOMAIN snakes' :
           snakes'[p].dir # Opposite(snakes[p].dir)]_vars
  BY StepKeepsDirection
<1> QED
  BY <1>1, <1>2, ShapeNext, PTL DEF Spec, NoReversal

-----------------------------------------------------------------------------
(* SnakeWire: the body of a snake, sent as offsets and parsed *)

(* One step along a side of length n, from k: where it ends. *)
LEMMA StepEnds ==
  ASSUME NEW n \in Nat, n > 1, NEW k \in 0 .. n - 1
  PROVE  /\ (n + k + 0) % n = k
         /\ (n + k + 1) % n = IF k = n - 1 THEN 0 ELSE k + 1
         /\ (n + k + -1) % n = IF k = 0 THEN n - 1 ELSE k - 1
<1>1. \A j \in 0 .. n - 1 : (n + j) % n = j
  OBVIOUS
<1>2. (n + n) % n = 0
  OBVIOUS
<1>3. k = n - 1 => (n + k + 1) % n = 0
  BY <1>2
<1>4. k # n - 1 => k + 1 \in 0 .. n - 1 /\ n + k + 1 = n + (k + 1)
  OBVIOUS
<1>5. k = 0 => n - 1 \in 0 .. n - 1 /\ (n + k + -1) % n = n - 1
  OBVIOUS
<1>6. k # 0 => k - 1 \in 0 .. n - 1 /\ n + k + -1 = n + (k - 1)
  OBVIOUS
<1>7. n + k + 0 = n + k
  OBVIOUS
<1> QED
  BY <1>1, <1>3, <1>4, <1>5, <1>6, <1>7, Zenon

(* A step is sent as a step: no offset for none, and otherwise an offset of *)
(* one cell that leads to the same place.                                   *)
LEMMA OffsetOfStep ==
  ASSUME NEW n \in Nat, n > 1, NEW k \in 0 .. n - 1, NEW e \in {-1, 0, 1}
  PROVE  LET y == (n + k + e) % n
             o == Offset(k, y, n)
         IN /\ e = 0 => o = 0 /\ y = k
            /\ e # 0 => /\ o \in {-1, 1}
                        /\ (k + 1 * SignOf(o) + 1 * n) % n = y
<1>1. CASE e = 0
  <2>1. (n + k + e) % n = k
    BY StepEnds, <1>1
  <2>2. Offset(k, k, n) = 0
    BY DEF Offset
  <2> QED
    BY <1>1, <2>1, <2>2
<1>2. CASE e = 1
  <2>1. CASE k = n - 1
    <3>1. (n + k + e) % n = 0
      BY StepEnds, <1>2, <2>1
    <3>2. Offset(k, 0, n) = 1
      BY <2>1 DEF Offset
    <3>3. SignOf(1) = 1 /\ k + 1 * 1 + 1 * n = n + k + 1
      BY DEF SignOf
    <3> QED
      BY <1>2, <3>1, <3>2, <3>3
  <2>2. CASE k # n - 1
    <3>1. (n + k + e) % n = k + 1
      BY StepEnds, <1>2, <2>2
    <3>2. Offset(k, k + 1, n) = IF n = 2 THEN -1 ELSE 1
      BY <2>2 DEF Offset
    <3>3. SignOf(1) = 1 /\ k + 1 * 1 + 1 * n = n + k + 1
      BY DEF SignOf
    <3>4. SignOf(-1) = -1 /\ k + 1 * (-1) + 1 * n = n + k + -1
      BY DEF SignOf
    <3>5. n = 2 => k = 0 /\ (n + k + -1) % n = k + 1
      BY <2>2
    <3> QED
      BY <1>2, <3>1, <3>2, <3>3, <3>4, <3>5
  <2> QED
    BY <2>1, <2>2
<1>3. CASE e = -1
  <2>1. CASE k = 0
    <3>1. (n + k + e) % n = n - 1
      BY StepEnds, <1>3, <2>1
    <3>2. Offset(k, n - 1, n) = -1
      BY <2>1 DEF Offset
    <3>3. SignOf(-1) = -1 /\ k + 1 * (-1) + 1 * n = n + k + -1
      BY DEF SignOf
    <3> QED
      BY <1>3, <3>1, <3>2, <3>3
  <2>2. CASE k # 0
    <3>1. (n + k + e) % n = k - 1
      BY StepEnds, <1>3, <2>2
    <3>2. Offset(k, k - 1, n) = IF n = 2 THEN 1 ELSE -1
      BY <2>2 DEF Offset
    <3>3. SignOf(1) = 1 /\ k + 1 * 1 + 1 * n = n + k + 1
      BY DEF SignOf
    <3>4. SignOf(-1) = -1 /\ k + 1 * (-1) + 1 * n = n + k + -1
      BY DEF SignOf
    <3>5. n = 2 => k = 1 /\ (n + k + 1) % n = k - 1
      BY <2>2
    <3> QED
      BY <1>3, <3>1, <3>2, <3>3, <3>4, <3>5
  <2> QED
    BY <2>1, <2>2
<1> QED
  BY <1>1, <1>2, <1>3

(* A set of numbers that has one has a least one. *)
LEMMA LeastNumber ==
  ASSUME NEW T \in SUBSET Nat, T # {}
  PROVE  \E x \in T : \A y \in T : x <= y
<1> DEFINE R == OpToRel(<, Nat)
<1>1. IsWellFoundedOn(R, Nat)
  BY NatLessThanWellFounded
<1> HIDE DEF R
<1>2. PICK x \in T : \A y \in T : ~(<<y, x>> \in R)
  BY <1>1, WFMin
<1>3. ASSUME NEW y \in T  PROVE x <= y
  <2>1. ~(y < x)
    BY <1>2 DEF R, OpToRel
  <2> QED
    BY <2>1
<1> QED
  BY <1>3

LEMMA NoCells ==
  ASSUME NEW S, NEW f \in [1 .. 0 -> S]
  PROVE  f = << >>
<1>1. f \in Seq(S) /\ DOMAIN f = {}
  BY SeqDef
<1>2. Len(f) \in Nat /\ 1 .. Len(f) = {}
  BY <1>1, LenProperties
<1>3. Len(f) = 0
  BY <1>2
<1> QED
  BY <1>1, <1>3, EmptySeq

LEMMA OneCell ==
  ASSUME NEW S, NEW f \in [1 .. 1 -> S]
  PROVE  f = <<f[1]>> /\ f \in Seq(S)
<1>1. f \in Seq(S) /\ DOMAIN f = 1 .. 1
  BY SeqDef
<1>2. Len(f) \in Nat /\ 1 .. Len(f) = 1 .. 1
  BY <1>1, LenProperties
<1>3. Len(f) = 1
  BY <1>2
<1>4. f[1] \in S
  OBVIOUS
<1>5. <<f[1]>> \in Seq(S) /\ Len(<<f[1]>>) = 1 /\ <<f[1]>>[1] = f[1]
  BY <1>4
<1>6. \A i \in 1 .. Len(f) : f[i] = <<f[1]>>[i]
  BY <1>3, <1>5
<1> QED
  BY <1>1, <1>3, <1>5, <1>6, SeqEqual

LEMMA AbsOfStep ==
  ASSUME NEW x \in {-1, 1}
  PROVE  AbsOf(x) = 1
<1>1. CASE x = 1
  BY <1>1 DEF AbsOf
<1>2. CASE x = -1
  <2>1. x \in Int /\ x < 0 /\ 0 - x = 1
    BY <1>2
  <2>2. \A k \in Int : -k = 0 - k
    OBVIOUS
  <2> QED
    BY <2>1, <2>2, Zenon DEF AbsOf
<1> QED
  BY <1>1, <1>2

(* What ParseSnake makes of the offset of one step: one more cell. *)
LEMMA WalkOneStep ==
  ASSUME Width > 1, Height > 1, NEW a \in Seq(Cell), a # << >>,
         NEW d \in Direction
  PROVE  LET c  == Last(a)
             to == Neighbour(c, d)
         IN
         Walk(a, <<Offset(c[1], to[1], Width), Offset(c[2], to[2], Height)>>) = a \o <<to>>
<1> DEFINE c  == Last(a)
           to == Neighbour(c, d)
           ox == Offset(c[1], to[1], Width)
           oy == Offset(c[2], to[2], Height)
           alongX == [j \in 1 .. AbsOf(ox) |-> <<(c[1] + j * SignOf(ox) + j * Width) % Width, c[2]>>]
           corner == Last(<<c>> \o alongX)
           alongY == [j \in 1 .. AbsOf(oy) |-> <<corner[1], (corner[2] + j * SignOf(oy) + j * Height) % Height>>]
<1>1. AbsOf(0) = 0 /\ \A x \in {-1, 1} : AbsOf(x) = 1
  BY AbsOfStep DEF AbsOf
<1>2. Walk(a, <<ox, oy>>) = (a \o alongX) \o alongY
  <2> HIDE DEF ox, oy
  <2> QED
    BY Zenon DEF Walk
<1>3. c \in Cell
  <2>1. Len(a) \in 1 .. Len(a)
    BY EmptySeq, LenProperties
  <2> QED
    BY <2>1, ElementOfSeq DEF Last
<1> HIDE DEF c
<1>4. /\ Width \in Nat /\ Height \in Nat
      /\ c[1] \in 0 .. Width - 1 /\ c[2] \in 0 .. Height - 1 /\ c = <<c[1], c[2]>>
  BY <1>3, FieldAssumption DEF Cell
<1>5. /\ DeltaX(d) \in {-1, 0, 1} /\ DeltaY(d) \in {-1, 0, 1}
      /\ \/ DeltaX(d) # 0 /\ DeltaY(d) = 0
         \/ DeltaX(d) = 0 /\ DeltaY(d) # 0
  BY DEF Direction, DeltaX, DeltaY
<1>6. /\ to[1] = (Width + c[1] + DeltaX(d)) % Width
      /\ to[2] = (Height + c[2] + DeltaY(d)) % Height
      /\ to = <<to[1], to[2]>>
  BY DEF Neighbour
<1>7. to \in Cell
  BY <1>3, HeadInField
<1>8. /\ DeltaX(d) = 0 => ox = 0 /\ to[1] = c[1]
      /\ DeltaX(d) # 0 => ox \in {-1, 1} /\ (c[1] + 1 * SignOf(ox) + 1 * Width) % Width = to[1]
  <2> DEFINE e == DeltaX(d)
  <2> HIDE DEF e
  <2>1. e \in {-1, 0, 1} /\ to[1] = (Width + c[1] + e) % Width
    BY <1>5, <1>6 DEF e
  <2> HIDE DEF to
  <2>2. LET y == (Width + c[1] + e) % Width
            o == Offset(c[1], y, Width)
        IN /\ e = 0 => o = 0 /\ y = c[1]
           /\ e # 0 => /\ o \in {-1, 1}
                       /\ (c[1] + 1 * SignOf(o) + 1 * Width) % Width = y
    BY <1>4, <2>1, OffsetOfStep
  <2>3. /\ e = 0 => ox = 0 /\ to[1] = c[1]
        /\ e # 0 => ox \in {-1, 1} /\ (c[1] + 1 * SignOf(ox) + 1 * Width) % Width = to[1]
    BY <2>1, <2>2, Zenon
  <2> QED
    BY <2>3 DEF e
<1>9. /\ DeltaY(d) = 0 => oy = 0 /\ to[2] = c[2]
      /\ DeltaY(d) # 0 => oy \in {-1, 1} /\ (c[2] + 1 * SignOf(oy) + 1 * Height) % Height = to[2]
  <2> DEFINE e == DeltaY(d)
  <2> HIDE DEF e
  <2>1. e \in {-1, 0, 1} /\ to[2] = (Height + c[2] + e) % Height
    BY <1>5, <1>6 DEF e
  <2> HIDE DEF to
  <2>2. LET y == (Height + c[2] + e) % Height
            o == Offset(c[2], y, Height)
        IN /\ e = 0 => o = 0 /\ y = c[2]
           /\ e # 0 => /\ o \in {-1, 1}
                       /\ (c[2] + 1 * SignOf(o) + 1 * Height) % Height = y
    BY <1>4, <2>1, OffsetOfStep
  <2>3. /\ e = 0 => oy = 0 /\ to[2] = c[2]
        /\ e # 0 => oy \in {-1, 1} /\ (c[2] + 1 * SignOf(oy) + 1 * Height) % Height = to[2]
    BY <2>1, <2>2, Zenon
  <2> QED
    BY <2>3 DEF e
<1> HIDE DEF to, ox, oy
<1>10. CASE DeltaX(d) # 0
  <2>1. AbsOf(ox) = 1 /\ AbsOf(oy) = 0 /\ (c[1] + 1 * SignOf(ox) + 1 * Width) % Width = to[1] /\ to[2] = c[2]
    BY <1>5, <1>8, <1>9, <1>1, <1>10
  <2>2. alongX[1] = <<(c[1] + 1 * SignOf(ox) + 1 * Width) % Width, c[2]>>
    BY <2>1
  <2>3. alongX[1] = to
    BY <1>6, <2>1, <2>2, Zenon
  <2>4. alongX \in [1 .. 1 -> Cell]
    <3>1. \A j \in 1 .. 1 : j = 1
      OBVIOUS
    <3> HIDE DEF alongX
    <3>2. DOMAIN alongX = 1 .. 1 /\ alongX = [j \in 1 .. 1 |-> alongX[j]]
      BY <2>1 DEF alongX
    <3> QED
      BY <1>7, <2>3, <3>1, <3>2
  <2>5. alongY \in [1 .. 0 -> Cell]
    <3> HIDE DEF corner
    <3> QED
      BY <2>1
  <2> HIDE DEF alongX, alongY
  <2>6. alongX = <<to>> /\ alongY = << >> /\ <<to>> \in Seq(Cell)
    BY <2>3, <2>4, <2>5, OneCell, NoCells
  <2>7. a \o <<to>> \in Seq(Cell)
    BY <2>6, ConcatProperties
  <2> QED
    BY <1>2, <2>6, <2>7, ConcatEmptySeq DEF to, ox, oy, c
<1>11. CASE DeltaX(d) = 0
  <2>1. AbsOf(ox) = 0 /\ AbsOf(oy) = 1 /\ (c[2] + 1 * SignOf(oy) + 1 * Height) % Height = to[2] /\ to[1] = c[1]
    BY <1>5, <1>8, <1>9, <1>1, <1>11
  <2>2. alongX \in [1 .. 0 -> Cell]
    BY <2>1
  <2>3. alongX = << >>
    <3> HIDE DEF alongX
    <3> QED
      BY <2>2, NoCells
  <2>4. corner = c
    <3>1. <<c>> \in Seq(Cell) /\ Len(<<c>>) = 1 /\ <<c>>[1] = c
      BY <1>3
    <3> HIDE DEF alongX
    <3> QED
      BY <2>3, <3>1, ConcatEmptySeq DEF Last
  <2> HIDE DEF corner
  <2>5. alongY[1] = <<c[1], (c[2] + 1 * SignOf(oy) + 1 * Height) % Height>>
    BY <2>1, <2>4
  <2>6. alongY[1] = to
    BY <1>6, <2>1, <2>5, Zenon
  <2>7. alongY \in [1 .. 1 -> Cell]
    <3>1. \A j \in 1 .. 1 : j = 1
      OBVIOUS
    <3> HIDE DEF alongY
    <3>2. DOMAIN alongY = 1 .. 1 /\ alongY = [j \in 1 .. 1 |-> alongY[j]]
      BY <2>1 DEF alongY
    <3> QED
      BY <1>7, <2>6, <3>1, <3>2
  <2> HIDE DEF alongX, alongY
  <2>8. alongY = <<to>>
    BY <2>6, <2>7, OneCell
  <2> QED
    BY <1>2, <2>3, <2>8, ConcatEmptySeq DEF to, ox, oy, c
<1> QED
  BY <1>10, <1>11 DEF to, c

(* The bodies parsed from the first points, then the first two, ...: what   *)
(* ParseSnake goes through.                                                 *)
UpToStep(points, f, i) == IF i = 1 THEN <<points[1]>> ELSE Walk(f[i - 1], points[i])

IsUpTo(points, n, f) == f = [i \in 1 .. n |-> UpToStep(points, f, i)]

LEMMA UpToExists ==
  ASSUME NEW points
  PROVE  \A n \in Nat : \E f : IsUpTo(points, n, f)
<1> DEFINE T == {n \in Nat : ~ \E f : IsUpTo(points, n, f)}
<1> SUFFICES ASSUME T # {}  PROVE FALSE
  OBVIOUS
<1>1. PICK n \in T : \A k \in T : n <= k
  BY LeastNumber
<1>2. CASE n = 0
  <2> DEFINE f == [i \in 1 .. n |-> << >>]
  <2>1. \A i \in 1 .. n : FALSE
    BY <1>2
  <2>2. f = [i \in 1 .. n |-> UpToStep(points, f, i)]
    <3> HIDE DEF f
    <3>1. f = [i \in 1 .. n |-> f[i]]
      BY DEF f
    <3> QED
      BY <2>1, <3>1
  <2> HIDE DEF f
  <2>3. IsUpTo(points, n, f)
    BY <2>2 DEF IsUpTo
  <2> QED
    BY <2>3
<1>3. CASE n # 0
  <2>1. n - 1 \in Nat /\ n - 1 \notin T
    BY <1>1, <1>3
  <2>2. PICK g : IsUpTo(points, n - 1, g)
    BY <2>1
  <2> DEFINE f == [i \in 1 .. n |-> IF i = n THEN UpToStep(points, g, n) ELSE g[i]]
  <2>3. \A i \in 1 .. n : i # n => i \in 1 .. n - 1
    OBVIOUS
  <2>4. \A i \in 1 .. n - 1 : g[i] = UpToStep(points, g, i)
    BY <2>2 DEF IsUpTo
  <2>5. \A i \in 1 .. n : i # 1 => i - 1 \in 1 .. n /\ i - 1 # n
    OBVIOUS
  <2>6. \A i \in 1 .. n : UpToStep(points, f, i) = UpToStep(points, g, i)
    BY <2>5 DEF UpToStep
  <2>7. \A i \in 1 .. n : f[i] = UpToStep(points, f, i)
    BY <2>3, <2>4, <2>6
  <2>8. f = [i \in 1 .. n |-> f[i]]
    OBVIOUS
  <2> HIDE DEF f
  <2>9. IsUpTo(points, n, f)
    BY <2>7, <2>8 DEF IsUpTo
  <2> QED
    BY <2>9
<1> QED
  BY <1>2, <1>3

LEMMA ParsedUpTo ==
  ASSUME NEW points, Len(points) \in Nat \ {0}
  PROVE  \E f : IsUpTo(points, Len(points), f) /\ Parsed(points) = f[Len(points)]
<1> DEFINE N == Len(points)
           f == CHOOSE g : IsUpTo(points, N, g)
<1>1. IsUpTo(points, N, f)
  BY UpToExists
<1>2. Parsed(points) = f[N]
  BY DEF Parsed, IsUpTo, UpToStep
<1> QED
  BY <1>1, <1>2

(* A linked body in a field of more than a row and a column is given back. *)
LEMMA BodyGivenBack ==
  ASSUME NEW s, Fit(s), Linked(s), Width > 1, Height > 1
  PROVE  Parsed(Points(s.body)) = s.body
<1> DEFINE b == s.body
           n == Len(b)
           pts == Points(b)
<1>1. b \in Seq(Cell) /\ n \in Nat /\ n >= 2 /\ DOMAIN b = 1 .. n
  BY LenProperties DEF Fit, Snake
<1>2. DOMAIN pts = 1 .. n /\ pts = [i \in 1 .. n |-> pts[i]]
  BY DEF Points
<1>3. Len(pts) = n
  <2> HIDE DEF pts, n
  <2> DEFINE S == {pts[i] : i \in 1 .. n}
  <2>0. \A i \in 1 .. n : pts[i] \in S
    OBVIOUS
  <2> HIDE DEF S
  <2>1. pts \in [1 .. n -> S]
    BY <1>2, <2>0
  <2>2. pts \in Seq(S)
    BY <1>1, <2>1, SeqDef
  <2>3. Len(pts) \in Nat /\ 1 .. Len(pts) = 1 .. n
    BY <1>2, <2>2, LenProperties
  <2> QED
    BY <1>1, <2>3
<1>4. pts[1] = b[1]
  BY <1>1 DEF Points
<1>5. \A i \in 1 .. n : i # 1 =>
        pts[i] = <<Offset(b[i - 1][1], b[i][1], Width), Offset(b[i - 1][2], b[i][2], Height)>>
  BY DEF Points
<1>6. PICK f : IsUpTo(pts, n, f) /\ Parsed(pts) = f[n]
  BY <1>1, <1>3, ParsedUpTo
<1>7. \A i \in 1 .. n : f[i] = UpToStep(pts, f, i)
  BY <1>6 DEF IsUpTo
<1> DEFINE T == {i \in 1 .. n : f[i] # SubSeq(b, 1, i)}
<1>8. SUFFICES T = {}
  <2>1. n \in 1 .. n
    BY <1>1
  <2> QED
    BY <1>1, <1>6, <2>1, SubSeqFull
<1> HIDE DEF pts, b, n
<1>9. SUFFICES ASSUME T # {}  PROVE FALSE
  OBVIOUS
<1>10. PICK i \in T : \A k \in T : i <= k
  <2>1. T \in SUBSET Nat
    BY <1>1
  <2> QED
    BY <1>9, <2>1, LeastNumber
<1>11. i \in 1 .. n /\ 1 \in 1 .. i
  BY <1>1
<1>12. SubSeq(b, 1, i) = SubSeq(b, 1, i - 1) \o <<b[i]>>
  BY <1>1, <1>11, SubSeqRecursiveSecond
<1>13. CASE i = 1
  <2>1. f[1] = <<b[1]>>
    BY <1>4, <1>7, <1>11, <1>13 DEF UpToStep
  <2>2. SubSeq(b, 1, 0) = << >>
    BY SubSeqEmpty
  <2>3. b[1] \in Cell
    BY <1>1, <1>11, <1>13, ElementOfSeq DEF n
  <2>4. <<b[1]>> \in Seq(Cell)
    BY <2>3
  <2>5. << >> \o <<b[1]>> = <<b[1]>>
    BY <2>4, ConcatEmptySeq
  <2> QED
    BY <1>12, <1>13, <2>1, <2>2, <2>5
<1>14. CASE i # 1
  <2>1. i - 1 \in 1 .. n /\ i - 1 \notin T /\ i \in 2 .. n
    BY <1>1, <1>10, <1>11, <1>14
  <2> DEFINE a == SubSeq(b, 1, i - 1)
  <2>2. f[i - 1] = a
    BY <2>1
  <2>3. a \in Seq(Cell) /\ a # << >> /\ Last(a) = b[i - 1]
    <3>1. \A j \in 1 .. i - 1 : b[j] \in Cell
      BY <1>1, <2>1, ElementOfSeq DEF n
    <3>2. /\ a \in Seq(Cell) /\ Len(a) = i - 1
          /\ \A j \in 1 .. i - 1 : a[j] = b[j]
      BY <1>1, <2>1, <3>1, SubSeqProperties
    <3> HIDE DEF a
    <3> QED
      BY <2>1, <3>2, EmptySeq DEF Last
  <2>4. PICK d \in Direction : Neighbour(b[i - 1], d) = b[i]
    BY <2>1 DEF Linked, b, n
  <2> HIDE DEF a
  <2>5. Walk(a, <<Offset(b[i - 1][1], b[i][1], Width), Offset(b[i - 1][2], b[i][2], Height)>>) = a \o <<b[i]>>
    BY <2>3, <2>4, WalkOneStep
  <2>6. f[i] = Walk(f[i - 1], pts[i])
    BY <1>7, <1>11, <1>14 DEF UpToStep
  <2> QED
    BY <1>5, <1>11, <1>12, <1>14, <2>2, <2>5, <2>6 DEF a
<1> QED
  BY <1>13, <1>14

(* A field where a new snake has a tail of its own has rows and columns. *)
LEMMA RowsAndColumns ==
  ASSUME TailOffHead
  PROVE  Width > 1 /\ Height > 1
<1>1. Width \in Nat \ {0} /\ Height \in Nat \ {0}
  BY FieldAssumption
<1>2. <<0, 0>> \in Cell
  BY <1>1 DEF Cell
<1>3. TailBehind(<<0, 0>>, "LEFT") # <<0, 0>> /\ TailBehind(<<0, 0>>, "UP") # <<0, 0>>
  BY <1>2 DEF TailOffHead, Direction
<1>4. (0 + 1) % Width # 0
  BY <1>3 DEF TailBehind
<1>5. (0 + 1) % Height # 0
  BY <1>3 DEF TailBehind
<1>6. 1 % 1 = 0
  OBVIOUS
<1> QED
  BY <1>1, <1>4, <1>5, <1>6

(* What a client parses out of a state is the body the master has.          *)
(* For every field where a new snake's tail is one step back from its head. *)
THEOREM SnakesTravelUnchanged ==
  ASSUME TailOffHead, TailNextToHead PROVE Spec => []RoundTrip
<1>1. Init => ShapeInv
  BY InitInv DEF Init, ShapeInv
<1>2. ShapeInv => RoundTrip
  <2> SUFFICES ASSUME ShapeInv, NEW p \in DOMAIN snakes
               PROVE  Parsed(Points(snakes[p].body)) = snakes[p].body
    BY DEF RoundTrip
  <2>1. Fit(snakes[p]) /\ Linked(snakes[p])
    BY InvSnakes DEF ShapeInv, Shapely
  <2> QED
    BY <2>1, RowsAndColumns, BodyGivenBack
<1>3. ShapeInv /\ [Next]_vars => ShapeInv'
  BY ShapeNext
<1> QED
  BY <1>1, <1>2, <1>3, PTL DEF Spec

=============================================================================
