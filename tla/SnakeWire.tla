------------------------------ MODULE SnakeWire ------------------------------
(***************************************************************************)
(* The form in which a snake travels: GenerateSnakeProto, run by the       *)
(* master on the snakes of the field, and ParseSnake, run by every client  *)
(* (the master's own included) on what it receives.  A client draws and,   *)
(* as a deputy, plays on with the parsed snake, so the pair has to give    *)
(* back every body the engine can produce.                                 *)
(***************************************************************************)
EXTENDS SnakeGame, SequencesExt

(* Mutant: the jump over the edge is sent as it is. *)
OffsetFlat(from, to, size) == to - from

(* One coordinate of an offset.  A step over the edge of the torus shows as *)
(* a jump of size - 1 and is sent as the step of one cell that it is.       *)
Offset(from, to, size) ==
  CASE to - from = -(size - 1) -> 1
    [] to - from = size - 1    -> -1
    [] OTHER                   -> to - from

(* GenerateSnakeProto: the head, then the offset of each cell from the one  *)
(* before it.                                                               *)
Points(body) ==
  [i \in 1 .. Len(body) |->
     IF i = 1 THEN body[1]
     ELSE <<Offset(body[i - 1][1], body[i][1], Width),
            Offset(body[i - 1][2], body[i][2], Height)>>]

AbsOf(x) == IF x < 0 THEN -x ELSE x
SignOf(x) == IF x < 0 THEN -1 ELSE IF x > 0 THEN 1 ELSE 0

(* ParseSnake, one point: a cell for every unit of x, then for every of y.  *)
(* The cell is wrapped after each unit, as % of a sum that is never < -1.   *)
Walk(body, offset) ==
  LET from  == Last(body)
      stepX == SignOf(offset[1])
      stepY == SignOf(offset[2])
      alongX == [j \in 1 .. AbsOf(offset[1]) |->
                   <<(from[1] + j * stepX + j * Width) % Width, from[2]>>]
      corner == Last(<<from>> \o alongX)
      alongY == [j \in 1 .. AbsOf(offset[2]) |->
                   <<corner[1], (corner[2] + j * stepY + j * Height) % Height>>]
  IN body \o alongX \o alongY

(* ParseSnake: from the head on, point by point. *)
Parsed(points) ==
  LET upTo[i \in 1 .. Len(points)] ==
        IF i = 1 THEN <<points[1]>> ELSE Walk(upTo[i - 1], points[i])
  IN upTo[Len(points)]

-----------------------------------------------------------------------------
(* What a client parses out of a state is the body the master has: the      *)
(* snake keeps its length and its cells through GenerateSnakeProto and      *)
(* ParseSnake, whichever way it lies over the edges of the field.           *)
RoundTrip ==
  \A p \in DOMAIN snakes : Parsed(Points(snakes[p].body)) = snakes[p].body

=============================================================================
