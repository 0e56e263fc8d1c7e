------------------------------ MODULE MCSession ------------------------------
(***************************************************************************)
(* Session from a room in play that a player is about to leave.  From      *)
(* Session's Init it takes two joins, a round of the game loop with all it *)
(* sends delivered, and the closing of the second joiner's window.         *)
(***************************************************************************)
EXTENDS Session

CONSTANTS Deputy, Other   \* the two players that have joined, in this order

Room ==
  << Player(0, <<Creator, 2>>, "MASTER"),
     Player(1, <<Deputy, 1>>,  "DEPUTY"),
     Player(2, <<Other, 1>>,   "NORMAL") >>

Seated(id, role, last) ==
  [NewClient EXCEPT !.st = "playing", !.id = id, !.role = role, !.last = last,
     !.deputyId = IF last = NoState THEN 0 ELSE 1]

InitRoom ==
  LET first == [order |-> 1, players |-> Room] IN
  /\ cl = [n \in Node |->
             CASE n = Creator -> Seated(0, "MASTER", NoState)
               [] n = Deputy  -> Seated(1, "DEPUTY", first)
               [] n = Other   -> [Seated(2, "NORMAL", first) EXCEPT !.st = "out"]
               [] OTHER       -> NewClient]
  /\ srv = [n \in Node |->
              IF n = Creator
              THEN [NoServer EXCEPT !.up = TRUE, !.players = Room, !.deputyId = 1,
                      !.uniqueId = 3, !.stateId = 1]
              ELSE NoServer]
  /\ net = {RoleMsg(<<Other, 1>>, ServerAddr(Creator), "VIEWER", 2)}
  /\ mishaps = {}

SpecRoom == InitRoom /\ [][Next]_vars

=============================================================================
