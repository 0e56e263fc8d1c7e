------------------------------ MODULE SnakeGame ------------------------------
(***************************************************************************)
(* The game engine of lab4 (lab4/game): the toroidal Field, its snakes and *)
(* its food, and the operations the server calls on it.                    *)
(*                                                                         *)
(*   AddSnake        Game.AddSnake -> Field.AddNewSnake                    *)
(*   AddSnakeFails   the same call when no position was found              *)
(*   Steer           Game.UpdateSnakeDirection                             *)
(*   Tick            Game.Update, the whole of it                          *)
(*                                                                         *)
(* Each call is one step here: this module is the contract of the engine   *)
(* for calls that do not overlap.  What the goroutines of the server make  *)
(* of it when they do overlap is not a matter of this module.              *)
(*                                                                         *)
(* f.snakes is a list in order of joining and player ids are handed out in *)
(* increasing order (Server.addNewPlayer), so a snake's place in the list  *)
(* is its id and the list is a function from ids to snakes.  f.foods is a  *)
(* list that can hold a cell twice and whose order is never used: it is    *)
(* the number of times each cell occurs in it.                             *)
(***************************************************************************)
EXTENDS Integers, Sequences, FiniteSets, Functions

CONSTANTS
  Width, Height,   \* GameConfig.width and height
  FoodStatic,      \* GameConfig.food_static
  MaxJoins,        \* bound: players that ever ask for a snake
  MaxCells         \* bound: no tick once the snakes have more cells than this

ASSUME FieldAssumption ==
  /\ Width \in Nat \ {0} /\ Height \in Nat \ {0}
  /\ FoodStatic \in Nat /\ MaxJoins \in Nat /\ MaxCells \in Nat

VARIABLES
  snakes,   \* Field.snakes: id -> snake
  foods,    \* Field.foods: cell -> number of occurrences
  nextId    \* Server.uniqueId: the id of the next player to ask for a snake

vars == <<snakes, foods, nextId>>

Cell == (0 .. Width - 1) \X (0 .. Height - 1)

Direction == {"UP", "DOWN", "LEFT", "RIGHT"}

Opposite(d) == CASE d = "UP"   -> "DOWN"
                 [] d = "DOWN" -> "UP"
                 [] d = "LEFT" -> "RIGHT"
                 [] OTHER      -> "LEFT"

(***************************************************************************)
(* A snake.  nextDirection is only ever read by Move, which drains it from *)
(* headDirection on: aim is what it would drain to now, so it stands for   *)
(* the queue of pending turns.                                             *)
(***************************************************************************)
Snake == [body  : Seq(Cell),     \* head first
          dir   : Direction,     \* headDirection
          aim   : Direction,     \* headDirection after the pending turns
          score : Nat]

SnakeHead(s) == s.body[1]

Segments(s) == {s.body[i] : i \in 1 .. Len(s.body)}

(* Field.HasPlace: the foods and segments, each counted as often as listed. *)
FoodSize(ff) == SumFunction(ff)

SnakeSize(ss) == SumFunction([p \in DOMAIN ss |-> Len(ss[p].body)])

(* Field.IsCellOccupied *)
Occupied(ss, ff, c) ==
  \/ \E p \in DOMAIN ss : c \in Segments(ss[p])
  \/ ff[c] > 0

-----------------------------------------------------------------------------
(* Joining. *)

(***************************************************************************)
(* The tail findValidSnakePosition puts behind a head at c.  The row above *)
(* is computed with the field's width where its height is meant.           *)
(***************************************************************************)
TailBehind(c, d) ==
  CASE d = "DOWN"  -> <<c[1], (c[2] - 1 + Width) % Height>>
    [] d = "LEFT"  -> <<(c[1] + 1) % Width, c[2]>>
    [] d = "UP"    -> <<c[1], (c[2] + 1) % Height>>
    [] d = "RIGHT" -> <<(c[1] - 1 + Width) % Width, c[2]>>

(* The free square around the head is searched for and then not asked for. *)
ValidPosition(c, d) ==
  /\ ~Occupied(snakes, foods, c)
  /\ ~Occupied(snakes, foods, TailBehind(c, d))

NewSnake(c, d) ==
  [body |-> <<c, TailBehind(c, d)>>, dir |-> d, aim |-> d, score |-> 0]

AddSnake ==
  /\ nextId < MaxJoins
  /\ \E c \in Cell, d \in Direction :
       /\ ValidPosition(c, d)
       /\ snakes' = [p \in DOMAIN snakes \cup {nextId} |->
                       IF p = nextId THEN NewSnake(c, d) ELSE snakes[p]]
  /\ nextId' = nextId + 1
  /\ UNCHANGED foods

(* A hundred random positions can all be taken: the player gets an error. *)
AddSnakeFails ==
  /\ nextId < MaxJoins
  /\ \E c \in Cell, d \in Direction : ~ValidPosition(c, d)
  /\ nextId' = nextId + 1
  /\ UNCHANGED <<snakes, foods>>

-----------------------------------------------------------------------------
(* Steering: one more turn at the end of the queue.  Move compares a turn   *)
(* with the direction left by the turns before it, not with the direction   *)
(* the head has.                                                            *)

Turn(aim, d) == IF d = Opposite(aim) THEN aim ELSE d

Steer(p, d) ==
  /\ p \in DOMAIN snakes
  /\ snakes' = [snakes EXCEPT ![p].aim = Turn(@, d)]
  /\ UNCHANGED <<foods, nextId>>

-----------------------------------------------------------------------------
(* Game.Update *)

(* Food first: one attempt for each missing piece while HasPlace; PlaceFood *)
(* tries random cells and may find none.                                    *)
Placements(ss, ff) ==
  LET missing == Cardinality(DOMAIN ss) + FoodStatic - FoodSize(ff)
      room    == Width * Height - 1 - FoodSize(ff) - SnakeSize(ss)
  IN {new \in SUBSET {c \in Cell : ~Occupied(ss, ff, c)} :
        \/ new = {}
        \/ (Cardinality(new) <= missing /\ Cardinality(new) <= room)}

Placed(ff, new) == [c \in Cell |-> IF c \in new THEN ff[c] + 1 ELSE ff[c]]

DeltaX(d) == IF d = "LEFT" THEN -1 ELSE IF d = "RIGHT" THEN 1 ELSE 0
DeltaY(d) == IF d = "UP"   THEN -1 ELSE IF d = "DOWN"  THEN 1 ELSE 0

Neighbour(c, d) ==
  <<(Width  + c[1] + DeltaX(d)) % Width,
    (Height + c[2] + DeltaY(d)) % Height>>

NewHead(s) == Neighbour(SnakeHead(s), s.aim)

(* Mutants: a move that only looks at the neck, one that spares the neck. *)
CanMoveAcross(s) == NewHead(s) # s.body[2]
CanMoveOntoNeck(s) == \A i \in 3 .. Len(s.body) : NewHead(s) # s.body[i]

(* Snake.Move refuses a cell of the snake's own body, its tail included. *)
CanMove(s) == NewHead(s) \notin Segments(s)

Movers(ss) == {p \in DOMAIN ss : CanMove(ss[p])}

(* Snakes move in list order and a piece of food is gone once eaten: of the *)
(* snakes that move onto it the first one grows.                            *)
EatsFirst(ss, ff, p) ==
  /\ ff[NewHead(ss[p])] > 0
  /\ \A q \in Movers(ss) : q < p => NewHead(ss[q]) # NewHead(ss[p])

(* Mutants: growing does not score; Shrink cuts behind the new head, the    *)
(* wrong end of the slice.                                                  *)
AdvancedNoScore(s, grow) ==
  [s EXCEPT !.body = [i \in 1 .. Len(s.body) + (IF grow THEN 1 ELSE 0) |->
                        IF i = 1 THEN NewHead(s) ELSE s.body[i - 1]],
            !.dir = s.aim]

AdvancedCutAtHead(s, grow) ==
  [s EXCEPT !.body = IF grow THEN <<NewHead(s)>> \o s.body
                             ELSE <<NewHead(s)>> \o Tail(s.body),
            !.dir = s.aim, !.score = @ + (IF grow THEN 1 ELSE 0)]

(* Move puts the new head on; Shrink takes the last cell off if the snake   *)
(* did not eat.                                                             *)
Advanced(s, grow) ==
  [body  |-> [i \in 1 .. Len(s.body) + (IF grow THEN 1 ELSE 0) |->
                IF i = 1 THEN NewHead(s) ELSE s.body[i - 1]],
   dir   |-> s.aim,
   aim   |-> s.aim,
   score |-> s.score + (IF grow THEN 1 ELSE 0)]

AfterMoves(ss, ff) ==
  [p \in Movers(ss) |-> Advanced(ss[p], EatsFirst(ss, ff, p))]

(* Field.RemoveFood takes every occurrence of the cell. *)
Swallowed(ss, ff) ==
  LET eaten == {NewHead(ss[p]) : p \in Movers(ss)}
  IN [c \in Cell |-> IF c \in eaten THEN 0 ELSE ff[c]]

(* Field.RemoveSnake turns each cell of the body but the head's into food   *)
(* with even odds: the pairs a removal of the snakes in dead can leave.     *)
Remains(ss, dead) ==
  UNION {{p} \X (Segments(ss[p]) \ {SnakeHead(ss[p])}) : p \in dead}

Dropped(ff, left) == [c \in Cell |-> ff[c] + Cardinality({r \in left : r[2] = c})]

(* Mutant: two heads on one cell are not a crash. *)
HitsBodyOnly(ss, p, q) ==
  /\ p # q
  /\ \E i \in 2 .. Len(ss[q].body) : SnakeHead(ss[p]) = ss[q].body[i]

(* p has run its head into q: two heads on one cell hit each other. *)
Hits(ss, p, q) == p # q /\ SnakeHead(ss[p]) \in Segments(ss[q])

Crashed(ss) == {p \in DOMAIN ss : \E q \in DOMAIN ss : Hits(ss, p, q)}

(* The one run into scores, dead or alive; in a head-on crash nobody does. *)
Kills(ss, q) ==
  Cardinality({p \in DOMAIN ss : Hits(ss, p, q) /\ SnakeHead(ss[p]) # SnakeHead(ss[q])})

AfterCrashes(ss) ==
  [p \in DOMAIN ss \ Crashed(ss) |-> [ss[p] EXCEPT !.score = @ + Kills(ss, p)]]

Tick ==
  /\ SnakeSize(snakes) <= MaxCells
  /\ \E new \in Placements(snakes, foods) :
       LET fed   == Placed(foods, new)
           moved == AfterMoves(snakes, fed)
           stuck == DOMAIN snakes \ Movers(snakes)
       IN \E left1 \in SUBSET Remains(snakes, stuck),
             left2 \in SUBSET Remains(moved, Crashed(moved)) :
            /\ foods'  = Dropped(Dropped(Swallowed(snakes, fed), left1), left2)
            /\ snakes' = AfterCrashes(moved)
  /\ UNCHANGED nextId

-----------------------------------------------------------------------------
Init ==
  /\ snakes = [p \in {} |-> {}]
  /\ foods = [c \in Cell |-> 0]
  /\ nextId = 0

Next ==
  \/ AddSnake
  \/ AddSnakeFails
  \/ \E p \in DOMAIN snakes, d \in Direction : Steer(p, d)
  \/ Tick

Spec == Init /\ [][Next]_vars

-----------------------------------------------------------------------------
(* Properties *)

(* Every snake is a snake with an id handed out before, and every cell is  *)
(* listed as food some number of times.                                    *)
TypeOK ==
  /\ nextId \in Nat
  /\ DOMAIN snakes \subseteq 0 .. nextId - 1
  /\ \A p \in DOMAIN snakes : snakes[p] \in Snake /\ Len(snakes[p].body) >= 2
  /\ foods \in [Cell -> Nat]

(* No snake crosses itself, whatever turns were queued between two ticks:  *)
(* Move's test of the new head against the old body is enough.             *)
SelfAvoiding ==
  \A p \in DOMAIN snakes :
    \A i, j \in 1 .. Len(snakes[p].body) :
      i # j => snakes[p].body[i] # snakes[p].body[j]

(* Between two calls no two snakes share a cell: Update's pass over heads  *)
(* finds every overlap the moves of a tick can make, growth included.      *)
Disjoint ==
  \A p, q \in DOMAIN snakes :
    p # q => Segments(snakes[p]) \cap Segments(snakes[q]) = {}

(* Each cell of a body is next to the one before it on the torus: what     *)
(* GenerateSnakeProto and the drawing of a snake take for granted.         *)
Contiguous ==
  \A p \in DOMAIN snakes :
    \A i \in 2 .. Len(snakes[p].body) :
      \E d \in Direction : Neighbour(snakes[p].body[i - 1], d) = snakes[p].body[i]

(* A snake grows only by eating, and eating scores: its score covers all   *)
(* the cells it has beyond the two it was born with.                       *)
ScoreCoversGrowth ==
  \A p \in DOMAIN snakes : snakes[p].score >= Len(snakes[p].body) - 2

(* Two quick turns between ticks can aim a snake backwards, because a turn *)
(* is compared with the turn before it; the snake that does so dies of it: *)
(* no snake that lives through a tick has reversed.                        *)
NoReversal ==
  [][\A p \in DOMAIN snakes \cap DOMAIN snakes' :
       snakes'[p].dir # Opposite(snakes[p].dir)]_vars

=============================================================================
